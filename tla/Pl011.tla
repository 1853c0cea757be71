------------------------------- MODULE Pl011 --------------------------------
(***************************************************************************)
(* The PL011 UART of aarch64 (UART of src/src/arch/aarch64/mmio.rs).  Its  *)
(* mutex makes a register access and a typed byte one step each.  It       *)
(* receives one byte: the next one typed takes the place of one the guest  *)
(* has not read.                                                           *)
(*                                                                         *)
(* The guest accesses the registers in any order; its interrupt handler    *)
(* (external) returns once MIS is 0.  Whether the line is edge or level    *)
(* triggered is up to the device tree given with --dtb; the model has the  *)
(* harder of the two, an edge.  The registers that are only stored (CR,    *)
(* LCR, IBRD, FBRD) and the identification registers are left out.         *)
(***************************************************************************)
EXTENDS Console

VARIABLES
    ris, imsc       \* bit 4 of UART::ris and UART::imsc

pl011Regs == <<ris, imsc>>

Pl011Init == ris = FALSE /\ imsc = FALSE

\* update_irq(), on the values after the step
Pl011Raise == irq' = UpdateIrq(irq, ris' /\ imsc')

\* Mutant: the byte the guest has yet to read is kept.
Pl011SendCharKeepsFirst(b) ==
    /\ rx' = IF rx = << >> THEN <<b>> ELSE rx
    /\ ris' = TRUE
    /\ UNCHANGED imsc
    /\ Pl011Raise

\* send_char(): the byte replaces the one in the register.
Pl011SendChar(b) ==
    /\ rx' = <<b>>
    /\ ris' = TRUE
    /\ UNCHANGED imsc
    /\ Pl011Raise

\* A read of DR (0x0) takes the byte, if there is one, and its interrupt.
ReadDr ==
    /\ rx' = << >>
    /\ received' = received \o rx
    /\ ris' = FALSE
    /\ UNCHANGED <<imsc, handling, ttyVars>>
    /\ Pl011Raise

\* A write to IMSC (0x38)
WriteImsc ==
    /\ imsc' \in BOOLEAN
    /\ UNCHANGED <<rx, ris, handling, ttyVars, received>>
    /\ Pl011Raise

\* A write to ICR (0x44) clears the interrupt and leaves the byte.
WriteIcr ==
    /\ ris' = FALSE
    /\ UNCHANGED <<rx, imsc, handling, ttyVars, received>>
    /\ Pl011Raise

\* MIS (0x40) is 0: the handler returns.
Pl011Return ==
    /\ ~(ris /\ imsc)
    /\ Return
    /\ UNCHANGED pl011Regs

Pl011Step ==
    \/ ReadDr \/ WriteImsc \/ WriteIcr
    \/ Enter /\ UNCHANGED pl011Regs
    \/ Pl011Return
=============================================================================
