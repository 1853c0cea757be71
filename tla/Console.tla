------------------------------ MODULE Console -------------------------------
(***************************************************************************)
(* What the two UARTs share: the bytes received from the terminal, the     *)
(* interrupt line, the guest's handler (external), and the state of the    *)
(* terminal's thread, start_tty() of src/src/frontend/serial.rs, which     *)
(* types into either through the TTY trait.  Consoles composes them.       *)
(***************************************************************************)
EXTENDS Integers, Sequences, SequencesExt, IrqLine

CONSTANT
    MaxTyped        \* bound on the bytes typed at the terminal

ASSUME MaxTypedAssumption == MaxTyped \in Nat

VARIABLES
    rx,             \* UART::rx: a queue (16550), or an Option (PL011)
    irq,            \* the line
    handling,       \* the guest is in its interrupt handler
    is_escape,      \* start_tty()'s local
    tty,            \* "typing"; "stopped" once control.stop() was called;
                    \* "dead" when the thread panicked
    typed,          \* history: the bytes typed
    received        \* history: the bytes the guest read

ttyVars == <<is_escape, tty, typed>>
consoleVars == <<rx, irq, handling, ttyVars, received>>

\* Ctrl-A, the quit byte, and any other byte
Keys == {"ctrl_a", "x", "other"}

ConsoleInit ==
    /\ rx = << >>
    /\ irq = IrqIdle
    /\ handling = FALSE
    /\ is_escape = FALSE
    /\ tty = "typing"
    /\ typed = << >>
    /\ received = << >>

\* The guest enters its handler.
Enter ==
    /\ irq.latched
    /\ irq' = TakeIrq(irq)
    /\ handling' = TRUE
    /\ UNCHANGED <<rx, ttyVars, received>>

\* The handler has nothing left to do.
Return ==
    /\ handling
    /\ handling' = FALSE
    /\ UNCHANGED <<rx, irq, ttyVars, received>>
=============================================================================
