---------------------------- MODULE DoomKeyboard ----------------------------
(***************************************************************************)
(* The Doom guest's keyboard driver (src/guests/doom/keyboard.c, the       *)
(* dispatch in idt.c and DG_GetKey() in kvm.c) on the controller of I8042, *)
(* and its sleep (sleep_ms of idt.c) on a one-shot LAPIC timer.            *)
(*                                                                         *)
(* Keys arrive from a frontend thread at any time.  The guest initialises  *)
(* the driver with interrupts off and its IOAPIC pin masked, then plays:   *)
(* the game reads the byte queue and sleeps, the keyboard's interrupt      *)
(* handler fills the queue and the timer's ends the sleep, the handlers    *)
(* between any two instructions of the game.                               *)
(***************************************************************************)
EXTENDS I8042

CONSTANTS
    MaxKeys,        \* bound on the key events
    QUEUE_SIZE,     \* the driver's queue, 64 bytes in the code
    IdxMod          \* the queue's indices wrap at 2^32 in the code

ASSUME DoomAssumption ==
    /\ MaxKeys \in Nat
    /\ MaxQueue \in Nat /\ MaxQueue >= 2 * MaxKeys + 1
    /\ QUEUE_SIZE \in Nat \ {0}
    /\ IdxMod \in Nat /\ IdxMod > QUEUE_SIZE /\ IdxMod % QUEUE_SIZE = 0

VARIABLES
    pc,         \* where the guest is
    isr,        \* it is in keyboard_interrupt(), called from the stub
    slots,      \* queue[] of keyboard.c
    head, tail, \* queue_head, queue_tail
    extended,   \* DG_GetKey()'s static flag
    timer,      \* the LAPIC timer: "off", "counting", or "pending" in IRR
    timer_fired,
    keys,       \* key events so far
    spoiled     \* history: a byte was dropped, overwritten or misread

deviceVars == vars   \* the controller's
ringVars == <<slots, head, tail>>
sleepVars == <<timer, timer_fired>>
doomVars == <<deviceVars, ringVars, sleepVars, pc, isr, extended, keys, spoiled>>

DoomInit ==
    /\ Init
    /\ pc = "flush"
    /\ isr = FALSE
    /\ slots = [s \in 0..QUEUE_SIZE - 1 |-> "none"]
    /\ head = 0
    /\ tail = 0
    /\ extended = FALSE
    /\ timer = "off"
    /\ timer_fired = FALSE
    /\ keys = 0
    /\ spoiled = FALSE

-----------------------------------------------------------------------------
(* The byte queue.                                                         *)

Slot(index) == index % QUEUE_SIZE
Next1(index) == (index + 1) % IdxMod

Full == (head - tail) % IdxMod >= QUEUE_SIZE

\* The slot keyboard_read() has freed and not yet read.
ReadSlot == Slot((tail - 1) % IdxMod)

\* Mutant: the limit is one byte too high.
queue_push_late(byte) ==
    IF (head - tail) % IdxMod > QUEUE_SIZE
    THEN spoiled' = TRUE /\ UNCHANGED ringVars
    ELSE /\ slots' = [slots EXCEPT ![Slot(head)] = byte]
         /\ head' = Next1(head)
         /\ spoiled' = (spoiled \/ (pc = "load" /\ Slot(head) = ReadSlot))
         /\ UNCHANGED tail

\* queue_push(): at the limit the byte is dropped.
queue_push(byte) ==
    IF Full
    THEN spoiled' = TRUE /\ UNCHANGED ringVars
    ELSE /\ slots' = [slots EXCEPT ![Slot(head)] = byte]
         /\ head' = Next1(head)
         /\ spoiled' = (spoiled \/ (pc = "load" /\ Slot(head) = ReadSlot))
         /\ UNCHANGED tail

\* One turn of the loop of keyboard_interrupt(): OBF is set.
ReadByte == ReadData /\ queue_push(Head(output))

-----------------------------------------------------------------------------
(* keyboard_init(), with interrupts off.                                   *)

InitFlush ==
    /\ pc = "flush"
    /\ output # << >>
    /\ ReadData
    /\ UNCHANGED <<sleepVars, ringVars, pc, isr, extended, keys, spoiled>>

InitFlushed ==
    /\ pc = "flush"
    /\ output = << >>
    /\ pc' = "read_config"
    /\ UNCHANGED <<sleepVars, deviceVars, ringVars, isr, extended, keys, spoiled>>

InitReadConfig ==
    /\ pc = "read_config"
    /\ pc' = "config"
    /\ CommandReply("config")
    /\ UNCHANGED <<sleepVars, ringVars, isr, extended, keys, spoiled>>

\* wait_output(), then the byte is taken for the configuration.  A key that
\* came after the flush is in front of it.
InitConfig ==
    /\ pc = "config"
    /\ output # << >>
    /\ pc' = "write_config"
    /\ spoiled' = (spoiled \/ output # <<"config">>)
    /\ ReadData
    /\ UNCHANGED <<sleepVars, ringVars, isr, extended, keys>>

InitWriteConfig ==
    /\ pc = "write_config"
    /\ pc' = "write_param"
    /\ CommandWithParam
    /\ controller_param' = "write_config"
    /\ UNCHANGED <<sleepVars, ringVars, isr, extended, keys, spoiled>>

\* Whatever was read, the bits set and cleared here are the ones that count.
InitWriteParam ==
    /\ pc = "write_param"
    /\ pc' = "route"
    /\ ParamConfig
    /\ kbd_int' = TRUE /\ kbd_disable' = FALSE
    /\ UNCHANGED <<sleepVars, ringVars, isr, extended, keys, spoiled>>

\* Mutant: the buffer is not read after the pin was masked.
InitRouteLast ==
    /\ pc = "route"
    /\ pc' = "main"
    /\ IF irq.latched THEN TakeInterrupt ELSE UNCHANGED deviceVars
    /\ UNCHANGED <<sleepVars, ringVars, isr, extended, keys, spoiled>>

\* ioapic_route() unmasks the pin.  Edges so far raised no interrupt.
InitRoute ==
    /\ pc = "route"
    /\ pc' = "drain"
    /\ IF irq.latched THEN TakeInterrupt ELSE UNCHANGED deviceVars
    /\ UNCHANGED <<sleepVars, ringVars, isr, extended, keys, spoiled>>

InitDrain ==
    /\ pc = "drain"
    /\ output # << >>
    /\ ReadByte
    /\ UNCHANGED <<sleepVars, pc, isr, extended, keys>>

InitDone ==
    /\ pc = "drain"
    /\ output = << >>
    /\ pc' = "main"
    /\ UNCHANGED <<sleepVars, deviceVars, ringVars, isr, extended, keys, spoiled>>

-----------------------------------------------------------------------------
(* The game and the interrupt handler.                                     *)

\* Mutant: sleep_ms() does not turn them off.
InterruptsOnInSleep ==
    pc \in {"main", "load", "arm", "cli", "check", "sti", "hlt"} /\ ~isr

InterruptsOn == pc \in {"main", "load", "arm", "cli", "hlt"} /\ ~isr

\* An interrupt ends a hlt: the loop of sleep_ms() goes on after it.
Woken == IF pc = "hlt" THEN "cli" ELSE pc

IsrEnter ==
    /\ InterruptsOn
    /\ isr' = TRUE
    /\ pc' = Woken
    /\ TakeInterrupt
    /\ UNCHANGED <<sleepVars, ringVars, extended, keys, spoiled>>

IsrRead ==
    /\ isr
    /\ output # << >>
    /\ ReadByte
    /\ UNCHANGED <<sleepVars, pc, isr, extended, keys>>

\* The output buffer is empty: EOI and return.
IsrReturn ==
    /\ isr
    /\ output = << >>
    /\ isr' = FALSE
    /\ UNCHANGED <<sleepVars, deviceVars, ringVars, pc, extended, keys, spoiled>>

\* keyboard_read() returns 0.
ReadEmpty ==
    /\ pc = "main" /\ ~isr
    /\ head = tail
    /\ UNCHANGED doomVars

\* keyboard_read(): gcc stores the incremented queue_tail before it loads
\* the byte; both are volatile, and the language leaves the order open.  An
\* interrupt in between may push a byte into the slot if the queue was full.
ReadAdvance ==
    /\ pc = "main" /\ ~isr
    /\ head # tail
    /\ pc' = "load"
    /\ tail' = Next1(tail)
    /\ UNCHANGED <<sleepVars, deviceVars, slots, head, isr, extended, keys, spoiled>>

\* The byte is loaded, and DG_GetKey() decodes it with the flag it has.
ReadLoad ==
    /\ pc = "load" /\ ~isr
    /\ pc' = "main"
    /\ extended' = (slots[ReadSlot] = "prefix")
    /\ UNCHANGED <<sleepVars, deviceVars, ringVars, isr, keys, spoiled>>

-----------------------------------------------------------------------------
(* sleep_ms(), one chunk: cli, look at timer_fired, and sti; hlt.  What     *)
(* sti enables is held back until hlt has halted.                           *)

SleepBegin ==
    /\ pc = "main" /\ ~isr
    /\ pc' = "arm"
    /\ timer_fired' = FALSE
    /\ UNCHANGED <<deviceVars, ringVars, isr, extended, timer, keys, spoiled>>

SleepArm ==
    /\ pc = "arm" /\ ~isr
    /\ pc' = "cli"
    /\ timer' = "counting"
    /\ UNCHANGED <<deviceVars, ringVars, isr, extended, timer_fired, keys, spoiled>>

SleepCli ==
    /\ pc = "cli" /\ ~isr
    /\ pc' = "check"
    /\ UNCHANGED <<deviceVars, ringVars, sleepVars, isr, extended, keys, spoiled>>

SleepCheck ==
    /\ pc = "check"
    /\ pc' = IF timer_fired THEN "main" ELSE "sti"
    /\ UNCHANGED <<deviceVars, ringVars, sleepVars, isr, extended, keys, spoiled>>

SleepHalt ==
    /\ pc = "sti"
    /\ pc' = "hlt"
    /\ UNCHANGED <<deviceVars, ringVars, sleepVars, isr, extended, keys, spoiled>>

\* The count reaches 0 (external).
TimerExpires ==
    /\ timer = "counting"
    /\ timer' = "pending"
    /\ UNCHANGED <<deviceVars, ringVars, pc, isr, extended, timer_fired, keys, spoiled>>

\* interrupt_dispatch(VECTOR_TIMER)
TimerInterrupt ==
    /\ InterruptsOn
    /\ timer = "pending"
    /\ timer' = "off"
    /\ timer_fired' = TRUE
    /\ pc' = Woken
    /\ UNCHANGED <<deviceVars, ringVars, isr, extended, keys, spoiled>>

-----------------------------------------------------------------------------
KeyArrives ==
    /\ keys < MaxKeys
    /\ keys' = keys + 1
    /\ KeyEvent
    /\ UNCHANGED <<sleepVars, ringVars, pc, isr, extended, spoiled>>

Initialise ==
    \/ InitFlush \/ InitFlushed \/ InitReadConfig \/ InitConfig
    \/ InitWriteConfig \/ InitWriteParam \/ InitRoute \/ InitDrain \/ InitDone

Handlers == IsrEnter \/ IsrRead \/ IsrReturn \/ TimerInterrupt

Sleeps == SleepArm \/ SleepCli \/ SleepCheck \/ SleepHalt

Game == ReadEmpty \/ ReadAdvance \/ ReadLoad \/ SleepBegin

DoomNext == KeyArrives \/ Initialise \/ Handlers \/ Game \/ Sleeps \/ TimerExpires

\* The guest's CPU runs: it takes its interrupts, and a sleep goes on when it
\* may.  The timer's count runs down.
FairSpec ==
    /\ DoomInit /\ [][DoomNext]_doomVars
    /\ WF_doomVars(Handlers) /\ WF_doomVars(Sleeps) /\ WF_doomVars(TimerExpires)

-----------------------------------------------------------------------------
(* Properties.                                                             *)

DoomType ==
    /\ TypeOK
    /\ pc \in {"flush", "read_config", "config", "write_config", "write_param",
               "route", "drain", "main", "load", "arm", "cli", "check", "sti", "hlt"}
    /\ isr \in BOOLEAN
    /\ slots \in [0..QUEUE_SIZE - 1 -> {"none"} \cup Bytes]
    /\ head \in 0..IdxMod - 1 /\ tail \in 0..IdxMod - 1
    /\ (head - tail) % IdxMod <= QUEUE_SIZE
    /\ extended \in BOOLEAN
    /\ timer \in {"off", "counting", "pending"}
    /\ timer_fired \in BOOLEAN
    /\ keys \in 0..MaxKeys
    /\ spoiled \in BOOLEAN

Playing == pc \in {"main", "load", "arm", "cli", "check", "sti", "hlt"}

\* Once the game runs the keyboard is on, and a byte in the output buffer has
\* an interrupt on its way or the handler reading it: "a byte that arrived
\* while the pin was masked raised no interrupt, and the next one cannot
\* until the buffer is read" (keyboard_init).
NeverDeaf ==
    Playing =>
        /\ kbd_int /\ ~kbd_disable
        /\ isr \/ output = << >> \/ irq.latched

\* A code is decoded as extended exactly when it came after its prefix, as
\* long as no byte was lost on the way (DG_GetKey).
DecodesPrefix ==
    [][pc = "load" /\ pc' = "main" /\ ~spoiled =>
           (slots[ReadSlot] = "extended") = extended]_doomVars

\* A sleep ends: the timer's interrupt is never taken between the look at
\* timer_fired and the hlt that waits for it, wherever keys arrive, and a key
\* that ends the hlt does not end the sleep ("cannot miss the interrupt",
\* sleep_ms).
SleepEnds ==
    /\ pc = "arm" ~> pc = "main"
    /\ [][pc = "check" /\ pc' = "main" => timer = "off"]_doomVars
=============================================================================
