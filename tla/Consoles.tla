------------------------------ MODULE Consoles ------------------------------
(***************************************************************************)
(* The terminal's thread (start_tty of src/src/frontend/serial.rs) typing  *)
(* into the UART of the machine's architecture while the guest uses it.    *)
(***************************************************************************)
EXTENDS Uart16550, Pl011

VARIABLE
    arch            \* the architecture this build is for

consolesVars == <<arch, consoleVars, uartRegs, pl011Regs>>

ConsolesInit ==
    /\ arch \in {"x86_64", "aarch64"}
    /\ ConsoleInit
    /\ UartInit
    /\ Pl011Init

-----------------------------------------------------------------------------
\* TTY::send_char() of the machine's UART
SendChar(b) ==
    \/ arch = "x86_64" /\ UartSendChar(b) /\ UNCHANGED pl011Regs
    \/ arch = "aarch64" /\ Pl011SendChar(b) /\ UNCHANGED uartRegs

\* The escape automaton passes b on: Ctrl-A escapes, Ctrl-A x quits, Ctrl-A
\* Ctrl-A sends a Ctrl-A, and Ctrl-A with any other byte is ignored.
Passes(b) == is_escape = (b = "ctrl_a")

\* A byte from the terminal
TtyByte(b) ==
    /\ tty = "typing" /\ Len(typed) < MaxTyped
    /\ typed' = Append(typed, b)
    /\ is_escape' = (b = "ctrl_a" /\ ~is_escape)
    /\ tty' = IF is_escape /\ b = "x" THEN "stopped" ELSE tty
    /\ UNCHANGED <<handling, received>>
    /\ IF Passes(b) THEN SendChar(b) ELSE UNCHANGED <<rx, irq, uartRegs, pl011Regs>>

\* The terminal is at its end, and the VM is stopped; or reading it fails,
\* the thread panics, and the VM goes on without a terminal.
TtyEnd ==
    /\ tty = "typing"
    /\ tty' \in {"stopped", "dead"}
    /\ UNCHANGED <<rx, irq, handling, is_escape, typed, received, uartRegs, pl011Regs>>

Tty == TtyEnd \/ \E b \in Keys : TtyByte(b)

-----------------------------------------------------------------------------
ConsolesNext ==
    /\ UNCHANGED arch
    /\ \/ Tty
       \/ arch = "x86_64" /\ UartStep /\ UNCHANGED pl011Regs
       \/ arch = "aarch64" /\ Pl011Step /\ UNCHANGED uartRegs

ConsolesSpec == ConsolesInit /\ [][ConsolesNext]_consolesVars

GuestReads ==
    /\ handling
    /\ UNCHANGED arch
    /\ \/ arch = "x86_64" /\ ReadRbr /\ UNCHANGED pl011Regs
       \/ arch = "aarch64" /\ ReadDr /\ UNCHANGED uartRegs

\* Of the guest: its handler is entered, and once in it the guest reads what
\* IIR or MIS tells it to, before it turns to anything else for good.
Fairness ==
    /\ WF_consolesVars(Enter /\ UNCHANGED <<arch, uartRegs, pl011Regs>>)
    /\ SF_consolesVars(GuestReads)

ConsolesFairSpec == ConsolesSpec /\ Fairness

-----------------------------------------------------------------------------
(* Properties.                                                             *)

\* A cause the guest enabled
Pending ==
    IF arch = "x86_64" THEN out2 /\ Iir # "none" ELSE ris /\ imsc

\* The guest's handler is told of everything it enabled: while a cause is
\* pending and the line is gated on, an edge is latched or the handler has
\* yet to read IIR (MIS) again.  The line stays high from one cause to the
\* next, so an edge missed here would leave the console dead (update_irq).
\* Nor is the line left high with nothing pending: the next byte would make
\* no edge.  A PL011 with an interrupt has a byte.
NoLostInterrupt ==
    /\ irq.level = Pending
    /\ irq.level => irq.latched \/ handling
    /\ ris => rx # << >>

\* What the bytes typed from the n-th on mean: a Ctrl-A goes with the byte
\* after it.
Meant[n \in 1..MaxTyped + 2] ==
    IF n > Len(typed) THEN << >>
    ELSE IF typed[n] # "ctrl_a" THEN <<typed[n]>> \o Meant[n + 1]
    ELSE IF n < Len(typed) /\ typed[n + 1] = "ctrl_a" THEN <<"ctrl_a">> \o Meant[n + 2]
    ELSE Meant[n + 2]

\* s is elements of t, in t's order
Within(s, t) ==
    \E at \in [DOMAIN s -> DOMAIN t] :
        \A i, j \in DOMAIN s : s[i] = t[at[i]] /\ (i < j => at[i] < at[j])

\* What the guest has read and what waits for it is what was typed, with the
\* escapes taken out, in order: nothing is lost or repeated between the
\* terminal's thread and the guest (start_tty, send_char).  The PL011 loses
\* bytes, but never repeats or reorders one, and never the last: a console
\* whose user stops typing shows the byte typed last.
TypedArrives ==
    LET got == received \o rx IN
    IF arch = "x86_64" THEN got = Meant[1]
    ELSE /\ Within(got, Meant[1])
         /\ Meant[1] # << >> => got # << >> /\ Last(got) = Last(Meant[1])

\* A typed byte is read once the guest has the interrupt on, unless it turns
\* it off, or clears it with the PL011's ICR.
TypedIsRead ==
    (rx # << >> /\ IF arch = "x86_64" THEN rdi /\ out2 ELSE ris /\ imsc)
        ~> (rx = << >> \/ IF arch = "x86_64" THEN ~(rdi /\ out2) ELSE ~(ris /\ imsc))
=============================================================================
