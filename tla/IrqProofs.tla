----------------------------- MODULE IrqProofs -----------------------------
(***************************************************************************)
(* Proofs about boot and interrupts, for every set of cards and of lines   *)
(* without a driver, whatever requests the firmware left, and any number   *)
(* of ticks, packets and keys.                                             *)
(***************************************************************************)
EXTENDS Irq, NaturalLemmas, TLAPS

\* The PIC's choice is one of the lines it chooses from.
LEMMA FirstIsMember ==
    ASSUME NEW S \in SUBSET (0..15), S # {}
    PROVE  First(S) \in S
<1> DEFINE R == {Rank(n) : n \in S}
<1>1. \A n \in S : Rank(n) \in Nat
  BY DEF Rank
<1>2. R \in SUBSET Nat /\ R # {}
  BY <1>1
<1>3. PICK r \in R : \A m \in R : r <= m
  BY <1>2, LeastNat
<1>4. PICK n \in S : r = Rank(n)
  BY <1>3
<1>5. \A o \in S : Rank(n) <= Rank(o)
  BY <1>3, <1>4
<1> QED BY <1>5 DEF First

(***************************************************************************)
(* The inductive invariant.  What an interrupt finds depends on how far    *)
(* kernel_main has got, and that a line is enabled only after its handler  *)
(* has been registered; what the EOI clears depends on what was in service *)
(* when it was sent; and that a byte cannot be stuck in the i8042 depends  *)
(* on ps2_init, which leaves its buffer empty when it enables IRQ1.        *)
(***************************************************************************)
PCs == {"gdt", "idt", "pic", "timer", "disable", "flush", "command", "answer",
        "config", "keyboard", "pci", "shell", "uptime"}

Types ==
    /\ pc \in PCs
    /\ imr \subseteq Lines /\ irr \subseteq Lines
    /\ cpu \in {<<>>} \cup (Lines \X {"entry", "call"})
    /\ obuf \in {"none", "key", "config"}
    /\ stray \in BOOLEAN /\ eflags_if \in BOOLEAN

\* Interrupts are taken only in the shell, one at a time.
OneAtATime ==
    /\ eflags_if \/ cpu # <<>> => pc \in {"shell", "uptime"}
    /\ pc = "uptime" => ~eflags_if /\ cpu = <<>>
    /\ cpu # <<>> => ~eflags_if

\* What kernel_main has set up by the time it is at pc.
Prepared ==
    /\ pc # "gdt" => gdt
    /\ pc \notin {"gdt", "idt"} => idt
    /\ pc \notin {"gdt", "idt", "pic"} => offset = 32 /\ Lines \ imr \subseteq isr_handlers

\* What is in service at each point of the interrupt path.
InService ==
    isr = IF cpu # <<>> /\ cpu[2] = "entry"
          THEN {cpu[1]} \cup IF cpu[1] >= 8 THEN {CASCADE} ELSE {}
          ELSE {}

\* The keyboard controller during ps2_init and after it.
Controller ==
    /\ pc \in {"flush", "command", "answer", "config"} => ~enabled
    /\ pc \in {"command", "config"} => obuf = "none"
    /\ pc = "answer" => obuf = "config"
    /\ pc \in {"keyboard", "pci", "shell", "uptime"} =>
          /\ config = TRUE
          /\ obuf # "none" => KEYBOARD \in irr \/ (cpu # <<>> /\ cpu[1] = KEYBOARD)

IrqInv == Types /\ OneAtATime /\ Prepared /\ InService /\ Controller /\ NoStrayInterrupt

\* The lines are numbered from 0 to 15, and the cascade is none of them.
LEMMA LineValues == Lines \subseteq 0..15 /\ CASCADE \notin Lines /\ CASCADE \in 0..15
BY LineAssumption DEF Lines, TIMER, KEYBOARD, CASCADE

\* What the firmware leaves satisfies the invariant.
LEMMA IrqInvInit == Init => IrqInv
<1> SUFFICES ASSUME Init PROVE IrqInv
  OBVIOUS
<1>1. Types
  BY DEF Init, Types, PCs, Lines
<1>2. OneAtATime /\ Prepared /\ InService /\ Controller /\ NoStrayInterrupt
  BY DEF Init, OneAtATime, Prepared, InService, Controller, NoStrayInterrupt
<1> QED BY <1>1, <1>2 DEF IrqInv

\* pic_send_eoi leaves nothing in service, on either PIC.
LEMMA EoiClears ==
    ASSUME NEW n \in Lines, isr = {n} \cup IF n >= 8 THEN {CASCADE} ELSE {}
    PROVE  pic_send_eoi(n) = {}
<1>1. n \in 0..15 /\ n # CASCADE /\ CASCADE = 2
  BY LineValues DEF CASCADE
<1>2. \A m \in 0..15 : Eoi({m}) = {}
  <2> SUFFICES ASSUME NEW m \in 0..15 PROVE Eoi({m}) = {}
    OBVIOUS
  <2>1. First({m}) \in {m}
    BY FirstIsMember
  <2> QED BY <2>1 DEF Eoi
<1>3. Eoi({}) = {}
  BY DEF Eoi
<1>4. CASE n >= 8
  <2>1. Master(isr) = {2} /\ Slave(isr) = {n}
    BY <1>1, <1>4 DEF Master, Slave
  <2> QED BY <1>1, <1>2, <1>4, <2>1, SMTT(30) DEF pic_send_eoi
<1>5. CASE ~ (n >= 8)
  <2>1. Master(isr) = {n} /\ Slave(isr) = {}
    BY <1>1, <1>5 DEF Master, Slave
  <2> QED BY <1>1, <1>2, <1>5, <2>1 DEF pic_send_eoi
<1> QED BY <1>4, <1>5

\* One call of the boot sequence.
LEMMA BootStep == IrqInv /\ Boot => IrqInv'
<1> SUFFICES ASSUME IrqInv, Boot PROVE IrqInv'
  OBVIOUS
<1> USE DEF IrqInv, Types, OneAtATime, Prepared, InService, Controller, NoStrayInterrupt, PCs,
            boot, pic, core, kbc, tim
<1>1. CASE gdt_init \/ idt_init
  BY <1>1 DEF gdt_init, idt_init
<1>2. CASE pic_remap
  BY <1>2 DEF pic_remap
<1>3. CASE pit_init \/ keyboard_init
  BY <1>3 DEF pit_init, keyboard_init, isr_register_handler, pic_unmask_irq
<1>4. CASE ps2_disable \/ ps2_enable
  BY <1>4 DEF ps2_disable, ps2_enable
<1>5. CASE ps2_flush
  BY <1>5 DEF ps2_flush, ReadPort
<1>6. CASE ps2_read_config \/ ps2_read_data
  BY <1>6 DEF ps2_read_config, ps2_read_data, ReadPort, Fill, Lines
<1>7. CASE pci_init
  BY <1>7 DEF pci_init, rtl8139_init, isr_register_handler, pic_unmask_irq
<1>8. CASE Sti
  BY <1>8 DEF Sti
<1> QED BY <1>1, <1>2, <1>3, <1>4, <1>5, <1>6, <1>7, <1>8 DEF Boot

\* The processor takes an interrupt.
LEMMA InterruptStep == IrqInv /\ Interrupt => IrqInv'
<1> SUFFICES ASSUME IrqInv, Interrupt PROVE IrqInv'
  OBVIOUS
<1> DEFINE n == First(Deliverable)
<1>1. n \in Deliverable
  <2>1. Deliverable \in SUBSET (0..15) /\ Deliverable # {}
    BY LineValues DEF Interrupt, Deliverable, IrqInv, Types
  <2> QED BY <2>1, FirstIsMember
<1>2. n \in irr /\ n \notin imr /\ n \in Lines
  BY <1>1 DEF Deliverable, IrqInv, Types
<1> HIDE DEF n
<1>3. /\ eflags_if /\ cpu = <<>>
      /\ irr' = irr \ {n}
      /\ isr' = isr \cup {n} \cup IF n >= 8 THEN {CASCADE} ELSE {}
      /\ cpu' = <<n, "entry">>
      /\ stray' = (stray \/ ~gdt \/ ~idt \/ offset # 32 \/ n \notin isr_handlers)
      /\ eflags_if' = FALSE
      /\ UNCHANGED <<boot, offset, imr, gdt, idt, isr_handlers, kbc, tim>>
  BY DEF Interrupt, n
<1>4. pc = "shell"
  BY <1>3 DEF IrqInv, OneAtATime
<1>5. Types' /\ OneAtATime'
  BY <1>2, <1>3, <1>4 DEF IrqInv, Types, OneAtATime, PCs, boot, kbc
<1>6. Prepared' /\ NoStrayInterrupt'
  BY <1>2, <1>3, <1>4 DEF IrqInv, Prepared, NoStrayInterrupt, boot
<1>7. InService'
  BY <1>3 DEF IrqInv, InService
<1>8. Controller'
  BY <1>3, <1>4 DEF IrqInv, Controller, boot, kbc
<1> QED BY <1>5, <1>6, <1>7, <1>8 DEF IrqInv

\* Every step of the processor and of the devices keeps the invariant.
LEMMA IrqInvNext == IrqInv /\ [Next]_vars => IrqInv'
<1> SUFFICES ASSUME IrqInv, [Next]_vars PROVE IrqInv'
  OBVIOUS
<1> USE DEF IrqInv, Types, OneAtATime, Prepared, InService, Controller, NoStrayInterrupt, PCs,
            boot, pic, core, kbc, tim
<1>1. CASE Boot
  BY <1>1, BootStep, Zenon
<1>2. CASE uptime_cli \/ uptime_sti
  <2>1. CASE uptime_cli
    BY <2>1 DEF uptime_cli
  <2>2. CASE uptime_sti
    BY <2>2 DEF uptime_sti
  <2> QED BY <1>2, <2>1, <2>2
<1>3. CASE Interrupt
  BY <1>3, InterruptStep, Zenon
<1>4. CASE IrqAck
  <2>1. cpu[1] \in Lines /\ cpu = <<cpu[1], "entry">>
    BY <1>4 DEF IrqAck
  <2>2. isr' = {}
    BY <1>4, <2>1, EoiClears DEF IrqAck
  <2> QED BY <1>4, <2>1, <2>2 DEF IrqAck
<1>5. CASE IrqCall
  BY <1>5 DEF IrqCall, Handler, ReadPort
<1>6. CASE Tick
  BY <1>6 DEF Tick, Lines
<1>7. ASSUME NEW n \in Nics \cup Foreign, Packet(n) PROVE IrqInv'
  BY <1>7 DEF Packet, Lines
<1>8. CASE KeyTyped \/ UNCHANGED vars
  BY <1>8 DEF KeyTyped, vars
<1>9. CASE KeyArrives
  BY <1>9 DEF KeyArrives, Fill, Lines
<1> QED BY <1>1, <1>2, <1>3, <1>4, <1>5, <1>6, <1>7, <1>8, <1>9 DEF Next, Processor, Devices

\* The inductive invariant holds from the hand-over of the boot loader on.
THEOREM IrqInvariant == Spec => []IrqInv
BY IrqInvInit, IrqInvNext, PTL DEF Spec

\* Every interrupt the processor takes finds the kernel's segments, a loaded
\* IDT, a remapped vector and a registered handler, on every machine.
THEOREM NoStrayInterruptAlways == Spec => []NoStrayInterrupt
<1>1. IrqInv => NoStrayInterrupt
  BY DEF IrqInv
<1> QED BY <1>1, IrqInvariant, PTL

\* irq_handler's acknowledgement is complete on both PICs.
THEOREM NothingInServiceAlways == Spec => []NothingInService
<1>1. IrqInv => NothingInService
  BY DEF IrqInv, InService, NothingInService
<1> QED BY <1>1, IrqInvariant, PTL

\* No byte is left in the i8042 without an interrupt that will read it,
\* whatever was typed while the kernel booted.
THEOREM KeyboardNotWedgedAlways == Spec => []KeyboardNotWedged
<1>1. IrqInv => KeyboardNotWedged
  BY DEF IrqInv, Controller, KeyboardNotWedged
<1> QED BY <1>1, IrqInvariant, PTL
=============================================================================
