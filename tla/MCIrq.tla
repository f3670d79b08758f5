------------------------------- MODULE MCIrq -------------------------------
(***************************************************************************)
(* Instances of Irq for TLC: a card on the slave PIC, as QEMU wires it, and *)
(* the floppy's line on the master.                                        *)
(***************************************************************************)
EXTENDS Irq

MCNics == {11}
MCForeign == {6}
=============================================================================
