------------------------------ MODULE IrqLine ------------------------------
(***************************************************************************)
(* An interrupt line of the in-kernel interrupt controller (external).     *)
(* arch_update_irq() sets its level with KVM_IRQ_LINE.  The lines are edge *)
(* triggered (i8042.rs says so for its own; IRQ 1, 4, 5 and 6 are all ISA  *)
(* interrupts): a rising edge latches an interrupt, and the guest takes it *)
(* once.                                                                   *)
(***************************************************************************)

IrqType == [level : BOOLEAN, latched : BOOLEAN]

IrqIdle == [level |-> FALSE, latched |-> FALSE]

\* arch_update_irq(level)
UpdateIrq(irq, level) ==
    [level |-> level, latched |-> irq.latched \/ (level /\ ~irq.level)]

\* The guest's CPU takes the interrupt.
TakeIrq(irq) == [irq EXCEPT !.latched = FALSE]
=============================================================================
