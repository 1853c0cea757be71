------------------------------- MODULE I8042 -------------------------------
(***************************************************************************)
(* The PS/2 controller and its keyboard (src/src/arch/x86_64/i8042.rs).    *)
(* Its mutex makes every port access of the guest and every key event of a *)
(* frontend thread one step; the guest may access the ports in any order.  *)
(* Of the configuration byte the model keeps the two bits that steer the   *)
(* controller; a byte on its way to the guest keeps what it is, not its    *)
(* value.                                                                  *)
(***************************************************************************)
EXTENDS Integers, Sequences, IrqLine

CONSTANT
    MaxQueue        \* bound on the bytes waiting; the VecDeque has none

ASSUME MaxQueueAssumption == MaxQueue \in Nat

VARIABLES
    kbd_int,            \* config & CONFIG_KBD_INT
    kbd_disable,        \* config & CONFIG_KBD_DISABLE
    output,             \* I8042::output, a sequence of 0 or 1 byte
    queue,              \* I8042::queue
    controller_param,   \* I8042::controller_param
    keyboard_param,     \* I8042::keyboard_param
    scanning,           \* I8042::scanning
    irq,                \* the line; its level is I8042::irq_level
    stopped,            \* VmControl::stop() was called
    serving             \* the guest took an interrupt and has yet to read 0x60

vars == <<kbd_int, kbd_disable, output, queue, controller_param, keyboard_param,
          scanning, irq, stopped, serving>>

-----------------------------------------------------------------------------
KeyBytes == {"key", "prefix", "extended"}
ReplyBytes == {"ack", "config", "reply"}
Bytes == KeyBytes \cup ReplyBytes

\* Commands that wait for a byte on 0x60.
ControllerParams == {"write_config", "write_output_port", "write_kbd_output"}
KeyboardParams == {"scancode_set", "leds_or_typematic"}

Init ==
    /\ kbd_int = TRUE
    /\ kbd_disable = FALSE
    /\ output = << >>
    /\ queue = << >>
    /\ controller_param = "none"
    /\ keyboard_param = "none"
    /\ scanning = TRUE
    /\ irq = IrqIdle
    /\ stopped = FALSE
    /\ serving = FALSE

-----------------------------------------------------------------------------
\* push(), for each byte: append to the queue; an empty output takes the
\* front of the queue.
Push(bytes) ==
    LET all == queue \o bytes
    IN  /\ Len(all) <= MaxQueue
        /\ IF output = << >> /\ all # << >>
           THEN output' = <<Head(all)>> /\ queue' = Tail(all)
           ELSE output' = output /\ queue' = all

\* update_irq(), on the values after the step.
RaiseIfOutput == irq' = UpdateIrq(irq, output' # << >> /\ kbd_int')

-----------------------------------------------------------------------------
(* Port reads.                                                             *)

\* Mutant: the line is updated once, after the next byte is loaded.
ReadDataOneUpdate ==
    /\ output' = IF queue = << >> THEN << >> ELSE <<Head(queue)>>
    /\ queue' = IF queue = << >> THEN << >> ELSE Tail(queue)
    /\ irq' = UpdateIrq(irq, output' # << >> /\ kbd_int)
    /\ serving' = FALSE
    /\ UNCHANGED <<kbd_int, kbd_disable, controller_param, keyboard_param,
                   scanning, stopped>>

\* A read of 0x60: take the byte, lower the line, load the next byte, raise
\* the line for it.
ReadData ==
    /\ output' = IF queue = << >> THEN << >> ELSE <<Head(queue)>>
    /\ queue' = IF queue = << >> THEN << >> ELSE Tail(queue)
    /\ irq' = UpdateIrq(UpdateIrq(irq, FALSE), output' # << >> /\ kbd_int)
    /\ serving' = FALSE
    /\ UNCHANGED <<kbd_int, kbd_disable, controller_param, keyboard_param,
                   scanning, stopped>>

-----------------------------------------------------------------------------
(* A write to 0x64: controller_command().  It cancels a pending parameter. *)

CommandReply(byte) ==
    /\ Push(<<byte>>)
    /\ controller_param' = "none"
    /\ UNCHANGED <<kbd_int, kbd_disable, keyboard_param, scanning, stopped, serving>>
    /\ RaiseIfOutput

\* READ_CONFIG, SELF_TEST and KBD_TEST answer with a byte.
CommandWithReply == \E b \in {"config", "reply"} : CommandReply(b)

CommandWithParam ==
    /\ controller_param' \in ControllerParams
    /\ UNCHANGED <<kbd_int, kbd_disable, output, queue, keyboard_param, scanning,
                   stopped, serving>>
    /\ RaiseIfOutput

\* KBD_DISABLE and KBD_ENABLE; the commands that only touch the absent
\* second port or are unknown leave everything as it is.
CommandKbdPort ==
    /\ kbd_disable' \in BOOLEAN
    /\ controller_param' = "none"
    /\ UNCHANGED <<kbd_int, output, queue, keyboard_param, scanning, stopped, serving>>
    /\ RaiseIfOutput

CommandReset ==
    /\ stopped' = TRUE
    /\ controller_param' = "none"
    /\ UNCHANGED <<kbd_int, kbd_disable, output, queue, keyboard_param, scanning, serving>>
    /\ RaiseIfOutput

-----------------------------------------------------------------------------
(* A write to 0x60: the parameter of a controller command, or else a byte  *)
(* for the keyboard.                                                       *)

ParamConfig ==
    /\ controller_param = "write_config"
    /\ kbd_int' \in BOOLEAN /\ kbd_disable' \in BOOLEAN
    /\ controller_param' = "none"
    /\ UNCHANGED <<output, queue, keyboard_param, scanning, stopped, serving>>
    /\ RaiseIfOutput

\* Bit 0 of the output port low resets the CPU.
ParamOutputPort ==
    /\ controller_param = "write_output_port"
    /\ \E bit0 \in BOOLEAN : stopped' = (stopped \/ ~bit0)
    /\ controller_param' = "none"
    /\ UNCHANGED <<kbd_int, kbd_disable, output, queue, keyboard_param, scanning, serving>>
    /\ RaiseIfOutput

ParamKbdOutput ==
    /\ controller_param = "write_kbd_output"
    /\ Push(<<"reply">>)
    /\ controller_param' = "none"
    /\ UNCHANGED <<kbd_int, kbd_disable, keyboard_param, scanning, stopped, serving>>
    /\ RaiseIfOutput

\* A byte to the keyboard enables its port.
ToKeyboard ==
    /\ controller_param = "none"
    /\ kbd_disable' = FALSE
    /\ UNCHANGED <<kbd_int, controller_param, stopped, serving>>

\* The parameter of a keyboard command; 0 asks for the scancode set.
KeyboardParam ==
    /\ ToKeyboard
    /\ keyboard_param # "none"
    /\ keyboard_param' = "none"
    /\ \/ Push(<<"ack">>)
       \/ keyboard_param = "scancode_set" /\ Push(<<"ack", "reply">>)
    /\ UNCHANGED scanning
    /\ RaiseIfOutput

\* SET_LEDS, SCANCODE_SET and SET_TYPEMATIC wait for a parameter.
KeyboardWithParam ==
    /\ ToKeyboard
    /\ keyboard_param = "none"
    /\ keyboard_param' \in KeyboardParams
    /\ Push(<<"ack">>)
    /\ UNCHANGED scanning
    /\ RaiseIfOutput

\* ECHO, GET_ID, and the commands that are just acknowledged.
KeyboardReply ==
    /\ ToKeyboard
    /\ keyboard_param = "none"
    /\ \E reply \in {<<"reply">>, <<"ack", "reply", "reply">>, <<"ack">>} : Push(reply)
    /\ UNCHANGED <<keyboard_param, scanning>>
    /\ RaiseIfOutput

\* ENABLE and DISABLE
KeyboardScanning ==
    /\ ToKeyboard
    /\ keyboard_param = "none"
    /\ scanning' \in BOOLEAN
    /\ Push(<<"ack">>)
    /\ UNCHANGED keyboard_param
    /\ RaiseIfOutput

\* Mutant: only the last byte is dropped.
KeyboardResetPops ==
    /\ ToKeyboard
    /\ keyboard_param = "none"
    /\ scanning' = TRUE
    /\ queue # << >> /\ Len(queue) < MaxQueue
    /\ output' = output
    /\ queue' = SubSeq(queue, 1, Len(queue) - 1) \o <<"ack", "reply">>
    /\ UNCHANGED keyboard_param
    /\ RaiseIfOutput

\* RESET clears the queue; a byte already in the output stays there.
KeyboardReset ==
    /\ ToKeyboard
    /\ keyboard_param = "none"
    /\ scanning' = TRUE
    /\ 2 <= MaxQueue
    /\ IF output = << >>
       THEN output' = <<"ack">> /\ queue' = <<"reply">>
       ELSE output' = output /\ queue' = <<"ack", "reply">>
    /\ UNCHANGED keyboard_param
    /\ RaiseIfOutput

-----------------------------------------------------------------------------
\* key_event() from an RFB client's thread.  An ignored key changes nothing.
KeyEvent ==
    /\ scanning /\ ~kbd_disable
    /\ \E bytes \in {<<"key">>, <<"prefix", "extended">>} : Push(bytes)
    /\ UNCHANGED <<kbd_int, kbd_disable, controller_param, keyboard_param,
                   scanning, stopped, serving>>
    /\ RaiseIfOutput

\* The guest's CPU takes the interrupt; its handler is to read 0x60.
TakeInterrupt ==
    /\ irq.latched
    /\ irq' = TakeIrq(irq)
    /\ serving' = TRUE
    /\ UNCHANGED <<kbd_int, kbd_disable, output, queue, controller_param,
                   keyboard_param, scanning, stopped>>

Command == CommandWithReply \/ CommandWithParam \/ CommandKbdPort \/ CommandReset

WriteData ==
    \/ ParamConfig \/ ParamOutputPort \/ ParamKbdOutput
    \/ KeyboardParam \/ KeyboardWithParam \/ KeyboardReply
    \/ KeyboardScanning \/ KeyboardReset

Next == ReadData \/ Command \/ WriteData \/ KeyEvent \/ TakeInterrupt

Spec == Init /\ [][Next]_vars

-----------------------------------------------------------------------------
(* Properties.                                                             *)

TypeOK ==
    /\ kbd_int \in BOOLEAN
    /\ kbd_disable \in BOOLEAN
    /\ output \in Seq(Bytes) /\ Len(output) <= 1
    /\ queue \in Seq(Bytes) /\ Len(queue) <= MaxQueue
    /\ controller_param \in {"none"} \cup ControllerParams
    /\ keyboard_param \in {"none"} \cup KeyboardParams
    /\ scanning \in BOOLEAN
    /\ irq \in IrqType
    /\ stopped \in BOOLEAN
    /\ serving \in BOOLEAN

\* Every byte is announced: while the guest's next byte is there and its
\* interrupt is enabled, an interrupt is latched or the guest has taken one
\* and has yet to read ("the line has to drop between bytes", update_irq).
\* Nor is the line left high without one, where it would swallow an edge, or
\* a byte left in the queue behind an empty output buffer, where no status
\* bit and no interrupt would tell the guest of it (push, KBD_RESET).
NoLostInterrupt ==
    /\ output = << >> => queue = << >>
    /\ irq.level = (output # << >> /\ kbd_int)
    /\ irq.level => irq.latched \/ serving

\* An extended key's prefix and code reach the guest together or not at all,
\* whatever replies and resets come in between: what waits (the output buffer,
\* then the queue) has a prefix before every code that is not the next byte,
\* and a code behind every prefix, but for one that was in the output buffer
\* when a keyboard reset dropped the queue.  Then the reset's own
\* acknowledgement is behind it, so the guest can tell.
PrefixPaired ==
    LET waiting == output \o queue
    IN  \A i \in DOMAIN waiting :
          /\ waiting[i] = "prefix" =>
                /\ i < Len(waiting)
                /\ waiting[i + 1] = "extended" \/ (i = 1 /\ waiting[2] = "ack")
          /\ waiting[i] = "extended" /\ i > 1 => waiting[i - 1] = "prefix"
=============================================================================
