-------------------------------- MODULE Irq --------------------------------
(***************************************************************************)
(* Interrupts from boot to the shell: the order in which kernel_main sets  *)
(* up the IDT, the two PICs, the timer, the PS/2 controller and the NIC,   *)
(* the common interrupt path (isr_common.asm, isr.c, pic.c), and the       *)
(* devices that raise requests all along.                                  *)
(*                                                                         *)
(* The 8259 is edge triggered: it latches a request also while the line is *)
(* masked, forgets all of them when it is programmed, and serves by        *)
(* priority.  The i8042 holds one byte; it raises IRQ1 when it gets one    *)
(* and raises nothing more until that byte has been read.                  *)
(***************************************************************************)
EXTENDS Naturals, FiniteSets

CONSTANTS
    Nics,        \* interrupt lines of the RTL8139 cards pci_init finds
    Foreign,     \* lines of devices without a driver (floppy, disk)
    MaxBytes,    \* bound: bytes the keyboard sends
    MaxEvents,   \* bound: ticks and packets
    MaxReads     \* bound: how often the uptime is read

TIMER == 0
KEYBOARD == 1
CASCADE == 2
Lines == {TIMER, KEYBOARD} \cup Nics \cup Foreign

ASSUME LineAssumption ==
    /\ Nics \cup Foreign \subseteq 3..15 /\ Nics \cap Foreign = {}
    /\ {MaxBytes, MaxEvents, MaxReads} \subseteq Nat

VARIABLES
    pc,          \* the next step of kernel_main, then of the thread
    scan,        \* the cards pci_init has not reached
    eflags_if,   \* the processor's interrupt flag
    gdt, idt,    \* the kernel's GDT and its IDT have been loaded
    offset,      \* the vector of IRQ0: 8 from the firmware, 32 remapped
    imr, irr, isr,       \* the PICs' mask, request and in-service registers
    isr_handlers,        \* the lines a driver has registered for
    cpu,         \* the interrupt being handled: <<>> or <<irq, stage>>
    obuf, enabled, config,   \* the i8042: its byte, keyboard clock, IRQ1 bit
    fifo,        \* bytes still in the keyboard
    timer_ticks, \* the tick counter
    seen,        \* timer_get_uptime_ms's local
    sent, taken, \* history: bytes typed, bytes read from port 0x60
    events, reads,   \* how many ticks and packets, uptime calls
    stray        \* history: an interrupt found no gate, vector or handler

boot == <<pc, scan>>
pic  == <<offset, imr, irr, isr>>
core == <<eflags_if, gdt, idt, isr_handlers, cpu, stray>>
kbc  == <<obuf, enabled, config, fifo, sent, taken>>
tim  == <<timer_ticks, seen, events, reads>>
vars == <<boot, pic, core, kbc, tim>>

\* The firmware's state: any request pending, some lines enabled, a key in
\* the controller or none; the boot loader hands over with interrupts off.
Init ==
    /\ pc = "gdt" /\ scan = Nics
    /\ eflags_if = FALSE /\ gdt = FALSE /\ idt = FALSE /\ offset = 8
    /\ imr = Nics /\ isr = {} /\ irr \in SUBSET Lines
    /\ isr_handlers = {} /\ cpu = <<>> /\ stray = FALSE
    /\ obuf \in {"none", "key"} /\ enabled = TRUE /\ config \in BOOLEAN /\ fifo = 0
    /\ timer_ticks = 0 /\ seen = 0
    /\ sent = (IF obuf = "key" THEN 1 ELSE 0) /\ taken = 0 /\ events = 0 /\ reads = 0

----------------------------------------------------------------------------
\* The devices (external).
Tick ==
    /\ events < MaxEvents /\ events' = events + 1
    /\ irr' = irr \cup {TIMER}
    /\ UNCHANGED <<boot, core, offset, imr, isr, kbc, timer_ticks, seen, reads>>

Packet(n) ==
    /\ events < MaxEvents /\ events' = events + 1
    /\ irr' = irr \cup {n}
    /\ UNCHANGED <<boot, core, offset, imr, isr, kbc, timer_ticks, seen, reads>>

KeyTyped ==
    /\ sent < MaxBytes
    /\ sent' = sent + 1 /\ fifo' = fifo + 1
    /\ UNCHANGED <<boot, pic, core, obuf, enabled, config, taken, tim>>

\* The controller takes the next byte; it requests IRQ1 if that is enabled.
Fill(byte) ==
    /\ obuf' = byte
    /\ irr' = IF config THEN irr \cup {KEYBOARD} ELSE irr

KeyArrives ==
    /\ enabled /\ fifo > 0 /\ obuf = "none"
    /\ Fill("key") /\ fifo' = fifo - 1
    /\ UNCHANGED <<boot, core, offset, imr, isr, enabled, config, sent, taken, tim>>

\* Reading port 0x60: the request line falls, which some PICs take back.
ReadPort ==
    /\ obuf' = "none"
    /\ taken' = IF obuf = "key" THEN taken + 1 ELSE taken
    /\ irr' \in {irr, irr \ {KEYBOARD}}

----------------------------------------------------------------------------
\* kernel_main.  Each step is one call of the boot sequence.
gdt_init ==
    /\ pc = "gdt" /\ pc' = "idt"
    /\ gdt' = TRUE
    /\ UNCHANGED <<scan, pic, eflags_if, idt, isr_handlers, cpu, stray, kbc, tim>>

\* The gates name the code segment of the kernel's GDT.
idt_init ==
    /\ pc = "idt" /\ pc' = "pic"
    /\ idt' = TRUE
    /\ UNCHANGED <<scan, pic, eflags_if, gdt, isr_handlers, cpu, stray, kbc, tim>>

\* ICW1 clears the requests and what is in service; at the end only the
\* cascade is enabled.
pic_remap ==
    /\ pc = "pic" /\ pc' = "timer"
    /\ offset' = 32 /\ irr' = {} /\ isr' = {} /\ imr' = Lines
    /\ UNCHANGED <<scan, core, kbc, tim>>

isr_register_handler(n) == isr_handlers' = isr_handlers \cup {n}
pic_unmask_irq(n) == imr' = imr \ {n}

pit_init ==
    /\ pc = "timer" /\ pc' = "disable"
    /\ isr_register_handler(TIMER) /\ pic_unmask_irq(TIMER)
    /\ UNCHANGED <<scan, eflags_if, gdt, idt, cpu, stray, offset, irr, isr, kbc, tim>>

\* ps2_init: the keyboard is disabled, the byte it may have sent is dropped,
\* the controller's configuration read, changed and written back.
ps2_disable ==
    /\ pc = "disable" /\ pc' = "flush"
    /\ enabled' = FALSE
    /\ UNCHANGED <<scan, pic, core, obuf, config, fifo, sent, taken, tim>>

\* Mutant: the output buffer is not flushed.
ps2_flush_Missing ==
    /\ pc = "flush" /\ pc' = "command"
    /\ UNCHANGED <<scan, pic, core, kbc, tim>>

ps2_flush ==
    /\ pc = "flush"
    /\ IF obuf # "none" THEN ReadPort /\ UNCHANGED pc
                        ELSE pc' = "command" /\ UNCHANGED <<obuf, taken, irr>>
    /\ UNCHANGED <<scan, core, offset, imr, isr, enabled, config, fifo, sent, tim>>

\* Command 0x20: the controller answers through the same buffer, as soon as
\* that is free, and always within the 10000 polls that wait_for_write and
\* wait_for_read make: the ways out of their timeouts are not modelled.
ps2_read_config ==
    /\ pc = "command" /\ pc' = "answer"
    /\ IF obuf = "none" THEN Fill("config") ELSE UNCHANGED <<obuf, irr>>
    /\ UNCHANGED <<scan, core, offset, imr, isr, enabled, config, fifo, sent, taken, tim>>

ps2_read_data ==
    /\ pc = "answer" /\ pc' = "config"
    /\ IF obuf = "key" THEN Fill("config") /\ taken' = taken + 1 ELSE ReadPort
    /\ UNCHANGED <<scan, core, offset, imr, isr, enabled, config, fifo, sent, tim>>

ps2_enable ==
    /\ pc = "config" /\ pc' = "keyboard"
    /\ config' = TRUE /\ enabled' = TRUE
    /\ UNCHANGED <<scan, pic, core, obuf, fifo, sent, taken, tim>>

\* The rest of keyboard_init.
keyboard_init ==
    /\ pc = "keyboard" /\ pc' = "pci"
    /\ isr_register_handler(KEYBOARD) /\ pic_unmask_irq(KEYBOARD)
    /\ UNCHANGED <<scan, eflags_if, gdt, idt, cpu, stray, offset, irr, isr, kbc, tim>>

\* Mutant: the card's line is enabled and its handler forgotten.
rtl8139_init_NoHandler(n) == pic_unmask_irq(n) /\ UNCHANGED isr_handlers

rtl8139_init(n) == isr_register_handler(n) /\ pic_unmask_irq(n)

\* One function of the bus that is a card; the others are passed over.
pci_init ==
    /\ pc = "pci"
    /\ \E n \in scan : scan' = scan \ {n} /\ rtl8139_init(n)
    /\ UNCHANGED <<pc, eflags_if, gdt, idt, cpu, stray, offset, irr, isr, kbc, tim>>

Sti ==
    /\ pc = "pci" /\ scan = {} /\ pc' = "shell"
    /\ eflags_if' = TRUE
    /\ UNCHANGED <<scan, pic, gdt, idt, isr_handlers, cpu, stray, kbc, tim>>

Boot == \/ gdt_init \/ idt_init \/ pic_remap \/ pit_init
        \/ ps2_disable \/ ps2_flush \/ ps2_read_config \/ ps2_read_data \/ ps2_enable
        \/ keyboard_init \/ pci_init \/ Sti

----------------------------------------------------------------------------
\* The shell's uptime command reads the counter with interrupts off.
\* An instruction of the thread is executed only when no handler runs.
uptime_cli ==
    /\ pc = "shell" /\ cpu = <<>> /\ reads < MaxReads
    /\ eflags_if' = FALSE /\ reads' = reads + 1 /\ pc' = "uptime"
    /\ UNCHANGED <<scan, pic, gdt, idt, isr_handlers, cpu, stray, kbc, timer_ticks, seen, events>>

\* Mutant: interrupts stay off.
uptime_sti_Missing ==
    /\ pc = "uptime" /\ pc' = "shell"
    /\ seen' = timer_ticks
    /\ UNCHANGED <<scan, pic, core, kbc, timer_ticks, events, reads>>

uptime_sti ==
    /\ pc = "uptime" /\ pc' = "shell"
    /\ seen' = timer_ticks /\ eflags_if' = TRUE
    /\ UNCHANGED <<scan, pic, gdt, idt, isr_handlers, cpu, stray, kbc, timer_ticks, events, reads>>

----------------------------------------------------------------------------
\* Priority: the slave's lines come in between IRQ1 and IRQ3.
Rank(n) == IF n < 3 THEN n ELSE IF n >= 8 THEN n - 5 ELSE n + 8
First(S) == CHOOSE n \in S : \A o \in S : Rank(n) <= Rank(o)

\* A line is blocked while one of its own or a higher priority is in service.
Deliverable == {n \in irr \ imr : \A s \in isr : Rank(n) < Rank(s)}

\* The processor takes an interrupt: the gate clears IF, the stub (which has
\* its own cli) saves the registers and calls irq_handler.
Interrupt ==
    /\ eflags_if /\ cpu = <<>> /\ Deliverable # {}
    /\ LET n == First(Deliverable) IN
       /\ irr' = irr \ {n}
       /\ isr' = isr \cup {n} \cup IF n >= 8 THEN {CASCADE} ELSE {}
       /\ cpu' = <<n, "entry">>
       /\ stray' = (stray \/ ~gdt \/ ~idt \/ offset # 32 \/ n \notin isr_handlers)
    /\ eflags_if' = FALSE
    /\ UNCHANGED <<boot, offset, imr, gdt, idt, isr_handlers, kbc, tim>>

Master(S) == {n \in S : n < 8}
Slave(S)  == {n \in S : n >= 8}
\* A non-specific EOI ends the service of the highest priority.
Eoi(S) == IF S = {} THEN S ELSE S \ {First(S)}

\* Mutant: the master is acknowledged only for its own lines.
pic_send_eoi_OneChip(n) ==
    IF n >= 8 THEN Master(isr) \cup Eoi(Slave(isr)) ELSE Eoi(Master(isr)) \cup Slave(isr)

\* What is in service after pic_send_eoi(n).
pic_send_eoi(n) ==
    Eoi(Master(isr)) \cup IF n >= 8 THEN Eoi(Slave(isr)) ELSE Slave(isr)

\* irq_handler acknowledges first,
IrqAck ==
    /\ cpu # <<>> /\ cpu[2] = "entry"
    /\ isr' = pic_send_eoi(cpu[1])
    /\ cpu' = <<cpu[1], "call">>
    /\ UNCHANGED <<boot, offset, imr, irr, eflags_if, gdt, idt, isr_handlers, stray, kbc, tim>>

\* then calls the driver: pit_irq_handler, keyboard_handler or the NIC's.
Handler(n) ==
    /\ timer_ticks' = IF n = TIMER THEN timer_ticks + 1 ELSE timer_ticks
    /\ IF n = KEYBOARD THEN ReadPort ELSE UNCHANGED <<obuf, taken, irr>>

\* The stub ends with iret, which restores IF.
IrqCall ==
    /\ cpu # <<>> /\ cpu[2] = "call"
    /\ Handler(cpu[1])
    /\ cpu' = <<>> /\ eflags_if' = TRUE
    /\ UNCHANGED <<boot, offset, imr, isr, gdt, idt, isr_handlers, stray, enabled, config, fifo,
                   sent, seen, events, reads>>

Processor == Boot \/ uptime_cli \/ uptime_sti \/ Interrupt \/ IrqAck \/ IrqCall
Devices == Tick \/ (\E n \in Nics \cup Foreign : Packet(n)) \/ KeyTyped \/ KeyArrives

Next == Processor \/ Devices

Spec == Init /\ [][Next]_vars

\* The processor executes the boot code and, with interrupts on, takes what
\* is pending; the controller passes on a byte when its buffer is free.
\* Nobody has to type, to send a packet or to ask for the uptime.
Fairness ==
    /\ WF_vars(Boot) /\ WF_vars(uptime_sti)
    /\ WF_vars(Interrupt) /\ WF_vars(IrqAck) /\ WF_vars(IrqCall)
    /\ WF_vars(KeyArrives)

FairSpec == Spec /\ Fairness

----------------------------------------------------------------------------
\* Whatever the firmware left pending and whatever the devices raise during
\* boot, every interrupt the processor takes finds the kernel's segments, a
\* loaded IDT, a remapped vector and a registered handler.
NoStrayInterrupt == ~stray

\* Between interrupts nothing is in service: an interrupt of either PIC is
\* acknowledged completely, so no line stays blocked behind it.
NothingInService == cpu = <<>> => isr = {}

\* A byte in the controller always has its interrupt coming: IRQ1 is pending
\* or being handled.  Otherwise nobody reads the byte, the controller raises
\* no further edge, and the keyboard is dead.
KeyboardNotWedged ==
    pc \in {"shell", "uptime"} /\ obuf # "none" =>
        KEYBOARD \in irr \/ (cpu # <<>> /\ cpu[1] = KEYBOARD)

\* Every byte the keyboard sends is read in the end, also those sent while
\* the kernel boots.
EveryByteRead == \A n \in 1..MaxBytes : (sent >= n) ~> (taken >= n)
=============================================================================
