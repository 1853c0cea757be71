----------------------------- MODULE Uart16550 ------------------------------
(***************************************************************************)
(* The 16550 UART of x86_64 (UART of src/src/arch/x86_64/io.rs).  Its      *)
(* mutex makes a port access and a typed byte one step each.               *)
(*                                                                         *)
(* The guest accesses the ports in any order; its interrupt handler        *)
(* (external) reads IIR until no interrupt is pending.  The registers that *)
(* are only stored (FCR, LCR, SCR) are left out: LCR's divisor latch bit   *)
(* is not looked at, so a divisor write is a THR or an IER write.          *)
(***************************************************************************)
EXTENDS Console

VARIABLES
    rdi, thri,      \* ier & 0x01, ier & 0x02
    out2,           \* mcr & 0x08
    thr_ipending    \* UART::thr_ipending

uartRegs == <<rdi, thri, out2, thr_ipending>>

UartInit ==
    /\ rdi = FALSE /\ thri = FALSE
    /\ out2 = FALSE
    /\ thr_ipending = FALSE

\* update_irq(), on the values after the step.  The line's level is
\* UART::irq_level.
Raise ==
    irq' = UpdateIrq(irq, out2' /\ ((rdi' /\ rx' # << >>) \/ (thri' /\ thr_ipending')))

\* send_char()
UartSendChar(b) ==
    /\ rx' = Append(rx, b)
    /\ UNCHANGED uartRegs
    /\ Raise

-----------------------------------------------------------------------------
(* Port accesses.                                                          *)

\* A byte to 0x3f8 is printed at once.
WriteThr ==
    /\ thr_ipending' = TRUE
    /\ UNCHANGED <<rdi, thri, out2, rx, handling, ttyVars, received>>
    /\ Raise

\* Mutant: the line is not updated.
WriteIerQuiet ==
    /\ rdi' \in BOOLEAN /\ thri' \in BOOLEAN
    /\ thr_ipending' = (thr_ipending \/ (thri' /\ ~thri))
    /\ UNCHANGED <<out2, rx, irq, handling, ttyVars, received>>

\* A byte to 0x3f9.  Enabling the THR interrupt makes it pending.
WriteIer ==
    /\ rdi' \in BOOLEAN /\ thri' \in BOOLEAN
    /\ thr_ipending' = (thr_ipending \/ (thri' /\ ~thri))
    /\ UNCHANGED <<out2, rx, handling, ttyVars, received>>
    /\ Raise

\* Mutant: the line is not updated.
WriteMcrQuiet ==
    /\ out2' \in BOOLEAN
    /\ UNCHANGED <<rdi, thri, thr_ipending, rx, irq, handling, ttyVars, received>>

\* A byte to 0x3fc
WriteMcr ==
    /\ out2' \in BOOLEAN
    /\ UNCHANGED <<rdi, thri, thr_ipending, rx, handling, ttyVars, received>>
    /\ Raise

\* A read of 0x3f8 takes a byte; without one it returns 0 and changes nothing.
ReadRbr ==
    /\ rx # << >>
    /\ rx' = Tail(rx)
    /\ received' = Append(received, Head(rx))
    /\ UNCHANGED <<uartRegs, handling, ttyVars>>
    /\ Raise

\* What IIR reports.
Iir ==
    IF rdi /\ rx # << >> THEN "rx"
    ELSE IF thri /\ thr_ipending THEN "thr"
    ELSE "none"

\* A read of 0x3fa clears the THR interrupt when it reports it.
ReadIir ==
    /\ Iir = "thr"
    /\ thr_ipending' = FALSE
    /\ UNCHANGED <<rdi, thri, out2, rx, handling, ttyVars, received>>
    /\ Raise

\* IIR says that nothing is pending: the handler returns.
UartReturn ==
    /\ Iir = "none"
    /\ Return
    /\ UNCHANGED uartRegs

UartStep ==
    \/ WriteThr \/ WriteIer \/ WriteMcr \/ ReadRbr \/ ReadIir
    \/ Enter /\ UNCHANGED uartRegs
    \/ UartReturn
=============================================================================
