-------------------------- MODULE DoomKeyboardProofs --------------------------
(***************************************************************************)
(* Invariance proofs for the PS/2 controller, for any guest, and for the   *)
(* Doom guest's keyboard driver on it, for every size of its queue and of  *)
(* its indices and for any number of keys.                                 *)
(***************************************************************************)
EXTENDS DoomKeyboard, SequenceTheorems, TLAPS

USE MaxQueueAssumption

-----------------------------------------------------------------------------
(* Sequences of bytes in which no prefix is parted from its code, nor a    *)
(* code from its prefix: `led` says that one came just before them.        *)

Led(s, led, i) == IF i = 1 THEN led ELSE s[i - 1] = "prefix"

Paired(s, led) ==
    \A i \in DOMAIN s :
        /\ s[i] = "prefix" => i < Len(s) /\ s[i + 1] = "extended"
        /\ s[i] = "extended" => Led(s, led, i)

\* Appending whole codes to paired bytes parts no prefix from its code
\* (VecDeque::push_back in push).
LEMMA PairedConcat ==
    ASSUME NEW s \in Seq(Bytes), NEW t \in Seq(Bytes), NEW led \in BOOLEAN,
           Paired(s, led), Paired(t, FALSE)
    PROVE  Paired(s \o t, led)
  <1> DEFINE u == s \o t
  <1>1. u \in Seq(Bytes) /\ Len(u) = Len(s) + Len(t) /\ DOMAIN u = 1..(Len(s) + Len(t))
    OBVIOUS
  <1>2. \A i \in 1..Len(s) : u[i] = s[i]
    OBVIOUS
  <1>3. \A i \in 1..(Len(s) + Len(t)) : i > Len(s) => u[i] = t[i - Len(s)]
    OBVIOUS
  <1>4. /\ DOMAIN s = 1..Len(s) /\ DOMAIN t = 1..Len(t)
        /\ Len(s) \in Nat /\ Len(t) \in Nat
    OBVIOUS
  <1> HIDE DEF u
  <1> SUFFICES ASSUME NEW i \in 1..(Len(s) + Len(t))
               PROVE  /\ u[i] = "prefix" => i < Len(u) /\ u[i + 1] = "extended"
                      /\ u[i] = "extended" => Led(u, led, i)
    BY <1>1 DEF Paired, u
  <1>5. CASE i <= Len(s)
    <2>1. s[i] = u[i] /\ i \in DOMAIN s
      BY <1>2, <1>4, <1>5
    <2>2. /\ s[i] = "prefix" => i < Len(s) /\ s[i + 1] = "extended"
          /\ s[i] = "extended" => Led(s, led, i)
      BY <2>1 DEF Paired
    <2>3. i # 1 => u[i - 1] = s[i - 1]
      BY <1>2, <1>4, <1>5
    <2>4. i < Len(s) => u[i + 1] = s[i + 1] /\ i < Len(u)
      BY <1>1, <1>2, <1>4
    <2> QED  BY <2>1, <2>2, <2>3, <2>4 DEF Led
  <1>6. CASE i > Len(s)
    <2> DEFINE j == i - Len(s)
    <2>1. u[i] = t[j] /\ j \in DOMAIN t
      BY <1>3, <1>4, <1>6
    <2>2. /\ t[j] = "prefix" => j < Len(t) /\ t[j + 1] = "extended"
          /\ t[j] = "extended" => Led(t, FALSE, j)
      BY <2>1 DEF Paired
    <2>3. j < Len(t) => i < Len(u) /\ u[i + 1] = t[j + 1]
      <3>1. ASSUME j < Len(t) PROVE i + 1 \in 1..(Len(s) + Len(t)) /\ i + 1 > Len(s)
                                    /\ (i + 1) - Len(s) = j + 1 /\ i < Len(u)
        BY <1>1, <1>4, <1>6, <3>1
      <3>2. ASSUME j < Len(t) PROVE u[i + 1] = t[(i + 1) - Len(s)]
        BY <1>3, <3>1, <3>2
      <3> QED  BY <3>1, <3>2
    <2>4. j # 1 => i # 1 /\ u[i - 1] = t[j - 1]
      <3>1. ASSUME j # 1 PROVE i - 1 \in 1..(Len(s) + Len(t)) /\ i - 1 > Len(s)
                               /\ (i - 1) - Len(s) = j - 1 /\ i # 1
        BY <1>4, <1>6, <3>1
      <3>2. ASSUME j # 1 PROVE u[i - 1] = t[(i - 1) - Len(s)]
        BY <1>3, <3>1, <3>2
      <3> QED  BY <3>1, <3>2
    <2> HIDE DEF j
    <2> QED  BY <2>1, <2>2, <2>3, <2>4 DEF Led
  <1> QED  BY <1>4, <1>5, <1>6

\* Taking the front byte leaves the rest paired, with a prefix before it if
\* that was one; a prefix has its code at the front of the rest
\* (VecDeque::pop_front).
LEMMA PairedTail ==
    ASSUME NEW s \in Seq(Bytes), NEW led \in BOOLEAN, s # << >>, Paired(s, led)
    PROVE  /\ Head(s) \in Bytes
           /\ Tail(s) \in Seq(Bytes) /\ Len(Tail(s)) = Len(s) - 1
           /\ Paired(Tail(s), Head(s) = "prefix")
           /\ Head(s) = "prefix" => Tail(s) # << >> /\ Tail(s)[1] = "extended"
  <1> DEFINE t == Tail(s)
             h == Head(s)
  <1>1. t \in Seq(Bytes) /\ Len(t) = Len(s) - 1 /\ DOMAIN t = 1..(Len(s) - 1)
    OBVIOUS
  <1>2. \A i \in 1..(Len(s) - 1) : t[i] = s[i + 1]
    OBVIOUS
  <1>3. h \in Bytes /\ h = s[1] /\ DOMAIN s = 1..Len(s) /\ Len(s) \in Nat /\ Len(s) >= 1
    OBVIOUS
  <1>7. t # << >> <=> Len(t) > 0
    BY <1>1
  <1> HIDE DEF t, h
  <1>4. Paired(t, h = "prefix")
    <2> SUFFICES ASSUME NEW i \in 1..(Len(s) - 1)
                 PROVE  /\ t[i] = "prefix" => i < Len(t) /\ t[i + 1] = "extended"
                        /\ t[i] = "extended" => Led(t, h = "prefix", i)
      BY <1>1 DEF Paired
    <2>1. t[i] = s[i + 1] /\ i + 1 \in DOMAIN s /\ i + 1 # 1 /\ (i + 1) - 1 = i
      BY <1>2, <1>3
    <2>2. /\ s[i + 1] = "prefix" => i + 1 < Len(s) /\ s[(i + 1) + 1] = "extended"
          /\ s[i + 1] = "extended" => s[i] = "prefix"
      BY <2>1 DEF Paired, Led
    <2>3. i + 1 < Len(s) => i < Len(t) /\ t[i + 1] = s[(i + 1) + 1]
      BY <1>1, <1>2, <1>3
    <2>4. i # 1 => t[i - 1] = s[i]
      BY <1>2, <1>3
    <2> QED  BY <1>3, <2>1, <2>2, <2>3, <2>4 DEF Led
  <1>5. ASSUME h = "prefix" PROVE t # << >> /\ t[1] = "extended"
    <2>3. 1 \in DOMAIN s /\ s[1] = "prefix"
      BY <1>3, <1>5
    <2>1. 1 < Len(s) /\ s[1 + 1] = "extended"
      BY <2>3 DEF Paired
    <2>2. t[1] = s[1 + 1] /\ Len(t) > 0
      BY <1>1, <1>2, <1>3, <2>1
    <2> QED  BY <1>7, <2>1, <2>2
  <1> QED  BY <1>1, <1>3, <1>4, <1>5 DEF t, h

-----------------------------------------------------------------------------
(* The steps every handler is made of.                                     *)

\* The whole invariant of the controller.
ControllerInv == TypeOK /\ NoLostInterrupt /\ PrefixPaired

\* What a step must leave of the bytes on their way to the guest.
BytesOK ==
    /\ output \in Seq(Bytes) /\ Len(output) <= 1
    /\ queue \in Seq(Bytes) /\ Len(queue) <= MaxQueue
    /\ output = << >> => queue = << >>
    /\ Paired(queue, output = <<"prefix">>)
    /\ output = <<"prefix">> => queue # << >> /\ queue[1] \in {"extended", "ack"}

\* What a step must leave of the interrupt line.
LineOK ==
    /\ irq \in IrqType
    /\ irq.level = (output # << >> /\ kbd_int)
    /\ irq.level => irq.latched \/ serving

\* A byte in the output buffer
LEMMA OneByte ==
    ASSUME NEW b \in Bytes
    PROVE  /\ <<b>> \in Seq(Bytes) /\ Len(<<b>>) = 1 /\ <<b>> # << >>
           /\ (<<b>> = <<"prefix">>) = (b = "prefix")
  OBVIOUS

\* push() of whole key codes or replies keeps the bytes in order: nothing
\* waits behind an empty output buffer and no prefix is left alone.
LEMMA PushBytes ==
    ASSUME BytesOK, NEW bytes \in Seq(Bytes), Paired(bytes, FALSE), bytes # << >>, Push(bytes)
    PROVE  BytesOK'
  <1> DEFINE all == queue \o bytes
  <1>1. queue \in Seq(Bytes) /\ Paired(queue, output = <<"prefix">>)
    BY DEF BytesOK
  <1>2. all \in Seq(Bytes) /\ all # << >> /\ Len(all) \in Nat
    BY <1>1
  <1>3. Paired(all, output = <<"prefix">>)
    BY <1>1, PairedConcat
  <1>4. /\ Len(all) <= MaxQueue
        /\ IF output = << >> THEN output' = <<Head(all)>> /\ queue' = Tail(all)
           ELSE output' = output /\ queue' = all
    BY <1>2 DEF Push
  <1>8. queue # << >> => all[1] = queue[1]
    BY <1>1
  <1> HIDE DEF all
  <1>5. /\ Head(all) \in Bytes
        /\ Tail(all) \in Seq(Bytes) /\ Len(Tail(all)) = Len(all) - 1
        /\ Paired(Tail(all), Head(all) = "prefix")
        /\ Head(all) = "prefix" => Tail(all) # << >> /\ Tail(all)[1] = "extended"
    BY <1>2, <1>3, PairedTail
  <1>6. CASE output = << >>
    <2>1. output' = <<Head(all)>> /\ queue' = Tail(all)
      BY <1>4, <1>6
    <2>2. /\ output' \in Seq(Bytes) /\ Len(output') <= 1 /\ output' # << >>
          /\ (output' = <<"prefix">>) = (Head(all) = "prefix")
      BY <1>5, <2>1, OneByte
    <2>3. Len(queue') <= MaxQueue
      <3>1. Len(queue') = Len(all) - 1
        BY <1>5, <2>1
      <3> QED  BY <1>2, <1>4, <3>1
    <2>4. /\ queue' \in Seq(Bytes)
          /\ Paired(queue', output' = <<"prefix">>)
          /\ output' = <<"prefix">> => queue' # << >> /\ queue'[1] \in {"extended", "ack"}
      BY <1>5, <2>1, <2>2
    <2> QED  BY <2>2, <2>3, <2>4 DEF BytesOK, Paired, Led
  <1>7. CASE output # << >>
    <2>1. output' = output /\ queue' = all
      BY <1>4, <1>7
    <2>2. /\ Paired(queue', output' = <<"prefix">>)
          /\ output' = <<"prefix">> => queue' # << >> /\ queue'[1] \in {"extended", "ack"}
      BY <1>2, <1>3, <1>8, <2>1 DEF BytesOK
    <2> QED  BY <1>2, <1>4, <1>7, <2>1, <2>2 DEF BytesOK, Paired, Led
  <1> QED  BY <1>6, <1>7

\* update_irq() at the end of a handler leaves the line at the level of the
\* byte waiting, announced.
LEMMA RaiseLine ==
    ASSUME LineOK, kbd_int' \in BOOLEAN, serving' = serving, RaiseIfOutput
    PROVE  LineOK'
  <1> DEFINE lvl == output' # << >> /\ kbd_int'
  <1>1. irq' = [level |-> lvl, latched |-> irq.latched \/ (lvl /\ ~irq.level)]
    BY DEF RaiseIfOutput, UpdateIrq
  <1>2. lvl \in BOOLEAN
    OBVIOUS
  <1>3. irq.latched \in BOOLEAN /\ irq.level \in BOOLEAN
    BY DEF LineOK, IrqType
  <1>4. (irq.latched \/ (lvl /\ ~irq.level)) \in BOOLEAN
    OBVIOUS
  <1>5. irq' \in IrqType
    BY <1>1, <1>2, <1>4 DEF IrqType
  <1>6. irq'.level = lvl /\ irq'.latched = (irq.latched \/ (lvl /\ ~irq.level))
    BY <1>1
  <1>7. irq.level => irq.latched \/ serving
    BY DEF LineOK
  <1> HIDE DEF lvl
  <1>8. irq'.level => irq'.latched \/ serving'
    BY <1>2, <1>3, <1>6, <1>7
  <1> QED  BY <1>5, <1>6, <1>8 DEF LineOK, lvl

\* The invariant is these parts and the types of the registers.
RegsOK ==
    /\ kbd_int \in BOOLEAN
    /\ kbd_disable \in BOOLEAN
    /\ controller_param \in {"none"} \cup ControllerParams
    /\ keyboard_param \in {"none"} \cup KeyboardParams
    /\ scanning \in BOOLEAN
    /\ stopped \in BOOLEAN
    /\ serving \in BOOLEAN

\* The output buffer is an Option.
LEMMA AtMostOne ==
    ASSUME NEW s \in Seq(Bytes), Len(s) <= 1, s # << >>
    PROVE  \E b \in Bytes : s = <<b>>
  <1>1. Len(s) \in Nat \ {0}
    BY EmptySeq
  <1>2. \A n \in Nat \ {0} : n <= 1 => n = 1
    OBVIOUS
  <1>3. Len(s) = 1
    BY <1>1, <1>2
  <1>4. s[1] \in Bytes /\ s = <<s[1]>>
    BY <1>3
  <1> QED  BY <1>4

\* The output buffer and the queue as one sequence
LEMMA WaitingPaired ==
    ASSUME output \in Seq(Bytes), Len(output) <= 1, queue \in Seq(Bytes),
           output = << >> => queue = << >>
    PROVE  PrefixPaired <=>
              /\ Paired(queue, output = <<"prefix">>)
              /\ output = <<"prefix">> => queue # << >> /\ queue[1] \in {"extended", "ack"}
  <1> DEFINE waiting == output \o queue
             Ahead(i) == /\ i < Len(waiting)
                         /\ waiting[i + 1] = "extended" \/ (i = 1 /\ waiting[2] = "ack")
  <1>1. CASE output = << >>
    <2>1. queue = << >> /\ DOMAIN waiting = {} /\ DOMAIN queue = {} /\ output # <<"prefix">>
      BY <1>1
    <2> QED  BY <2>1 DEF PrefixPaired, Paired
  <1>2. CASE output # << >>
    <2>1. PICK b \in Bytes : output = <<b>>
      BY <1>2, AtMostOne
    <2>2. /\ Len(waiting) = Len(queue) + 1 /\ DOMAIN waiting = 1..(Len(queue) + 1)
          /\ waiting[1] = b /\ DOMAIN queue = 1..Len(queue) /\ Len(queue) \in Nat
          /\ queue # << >> <=> Len(queue) > 0
      BY <2>1
    <2>3. \A i \in 1..Len(queue) : waiting[i + 1] = queue[i]
      BY <2>1
    <2>4. (output = <<"prefix">>) = (b = "prefix")
      BY <2>1, OneByte
    <2>5. PrefixPaired <=> \A i \in DOMAIN waiting :
              /\ waiting[i] = "prefix" => Ahead(i)
              /\ waiting[i] = "extended" /\ i > 1 => waiting[i - 1] = "prefix"
      BY DEF PrefixPaired
    <2>6. \A i \in 1..Len(queue) :
              /\ Ahead(i + 1) <=> i < Len(queue) /\ queue[i + 1] = "extended"
              /\ waiting[(i + 1) - 1] = "prefix" <=> Led(queue, output = <<"prefix">>, i)
      BY <2>2, <2>3, <2>4 DEF Led
    <2>7. Ahead(1) <=> queue # << >> /\ queue[1] \in {"extended", "ack"}
      BY <2>2, <2>3
    <2> HIDE DEF waiting, Ahead
    <2>8. (\A i \in DOMAIN waiting :
              /\ waiting[i] = "prefix" => Ahead(i)
              /\ waiting[i] = "extended" /\ i > 1 => waiting[i - 1] = "prefix")
          <=> /\ waiting[1] = "prefix" => Ahead(1)
              /\ \A i \in 1..Len(queue) :
                    /\ waiting[i + 1] = "prefix" => Ahead(i + 1)
                    /\ waiting[i + 1] = "extended" => waiting[(i + 1) - 1] = "prefix"
      <3>1. \A i \in 1..Len(queue) : i + 1 \in DOMAIN waiting /\ i + 1 > 1
        BY <2>2
      <3>2. \A i \in DOMAIN waiting : i = 1 \/ (i > 1 /\ i - 1 \in 1..Len(queue) /\ (i - 1) + 1 = i)
        BY <2>2
      <3>3. 1 \in DOMAIN waiting /\ ~(1 > 1)
        BY <2>2
      <3> QED  BY ONLY <3>1, <3>2, <3>3
    <2>9. Paired(queue, output = <<"prefix">>) <=>
            \A i \in 1..Len(queue) :
                /\ queue[i] = "prefix" => i < Len(queue) /\ queue[i + 1] = "extended"
                /\ queue[i] = "extended" => Led(queue, output = <<"prefix">>, i)
      BY <2>2 DEF Paired
    <2>10. (\A i \in 1..Len(queue) :
                    /\ waiting[i + 1] = "prefix" => Ahead(i + 1)
                    /\ waiting[i + 1] = "extended" => waiting[(i + 1) - 1] = "prefix")
          <=> Paired(queue, output = <<"prefix">>)
      BY ONLY <2>3, <2>6, <2>9
    <2> QED  BY <2>2, <2>4, <2>5, <2>7, <2>8, <2>10
  <1> QED  BY <1>1, <1>2

\* Splitting the invariant into the parts the handlers work on.
LEMMA ControllerInvParts == ControllerInv <=> RegsOK /\ BytesOK /\ LineOK
  <1>1. ControllerInv => RegsOK /\ BytesOK /\ LineOK
    BY WaitingPaired DEF ControllerInv, TypeOK, NoLostInterrupt, RegsOK, BytesOK, LineOK
  <1>2. RegsOK /\ BytesOK /\ LineOK => ControllerInv
    BY WaitingPaired DEF ControllerInv, TypeOK, NoLostInterrupt, RegsOK, BytesOK, LineOK
  <1> QED  BY <1>1, <1>2

\* The replies and key codes the handlers push are whole.
LEMMA PushedBytes ==
    /\ \A b \in Bytes \ {"prefix", "extended"} :
           <<b>> \in Seq(Bytes) /\ <<b>> # << >> /\ Paired(<<b>>, FALSE)
    /\ \A s \in {<<"ack", "reply">>, <<"ack", "reply", "reply">>, <<"prefix", "extended">>} :
           s \in Seq(Bytes) /\ s # << >> /\ Paired(s, FALSE)
  BY DEF Paired, Led, Bytes, KeyBytes, ReplyBytes

-----------------------------------------------------------------------------
\* The controller starts with the invariant.
LEMMA ControllerInvInit == Init => ControllerInv
  <1> SUFFICES ASSUME Init PROVE RegsOK /\ BytesOK /\ LineOK
    BY ControllerInvParts
  <1>1. RegsOK
    BY DEF Init, RegsOK
  <1>2. BytesOK
    BY DEF Init, BytesOK, Paired, Led
  <1>3. LineOK
    BY DEF Init, LineOK, IrqType, IrqIdle
  <1> QED  BY <1>1, <1>2, <1>3

\* Every port access, key event and interrupt keeps the invariant.
LEMMA ControllerInvNext == ControllerInv /\ [Next]_vars => ControllerInv'
  <1> SUFFICES ASSUME ControllerInv, [Next]_vars PROVE ControllerInv'
    OBVIOUS
  <1>0. RegsOK /\ BytesOK /\ LineOK
    BY ControllerInvParts
  <1> SUFFICES RegsOK' /\ BytesOK' /\ LineOK'
    BY ControllerInvParts, PTL
  <1>1. CASE ReadData
    <2>1. RegsOK'
      BY <1>0, <1>1 DEF RegsOK, ReadData
    <2>2. BytesOK'
      <3>1. CASE queue = << >>
        BY <1>0, <1>1, <3>1 DEF BytesOK, ReadData, Paired
      <3>2. CASE queue # << >>
        <4>1. output' = <<Head(queue)>> /\ queue' = Tail(queue)
          BY <1>1, <3>2 DEF ReadData
        <4>2. /\ Head(queue) \in Bytes
              /\ Tail(queue) \in Seq(Bytes) /\ Len(Tail(queue)) = Len(queue) - 1
              /\ Paired(Tail(queue), Head(queue) = "prefix")
              /\ Head(queue) = "prefix" => Tail(queue) # << >> /\ Tail(queue)[1] = "extended"
          BY <1>0, <3>2, PairedTail DEF BytesOK
        <4>3. Len(queue) \in Nat /\ Len(queue) <= MaxQueue
          BY <1>0 DEF BytesOK
        <4>4. /\ output' \in Seq(Bytes) /\ Len(output') <= 1 /\ output' # << >>
              /\ (output' = <<"prefix">>) = (Head(queue) = "prefix")
          BY <4>1, <4>2, OneByte
        <4>5. /\ Paired(queue', output' = <<"prefix">>)
              /\ output' = <<"prefix">> => queue' # << >> /\ queue'[1] \in {"extended", "ack"}
          BY <4>1, <4>2, <4>4
        <4> QED  BY <4>1, <4>2, <4>3, <4>4, <4>5 DEF BytesOK, Paired, Led
      <3> QED  BY <3>1, <3>2
    <2>3. LineOK'
      <3> DEFINE lvl == output' # << >> /\ kbd_int
      <3>1. irq' = [level |-> lvl, latched |-> (irq.latched \/ (FALSE /\ ~irq.level)) \/ (lvl /\ ~FALSE)]
        BY <1>1 DEF ReadData, UpdateIrq
      <3>2. irq'.level = lvl /\ irq'.latched = (irq.latched \/ lvl) /\ irq' \in IrqType
        BY <1>0, <3>1 DEF LineOK, IrqType
      <3>3. kbd_int' = kbd_int
        BY <1>1 DEF ReadData
      <3> QED  BY <3>2, <3>3 DEF LineOK
    <2> QED  BY <2>1, <2>2, <2>3
  <1>2. CASE CommandWithReply
    <2>1. PICK b \in {"config", "reply"} : CommandReply(b)
      BY <1>2 DEF CommandWithReply
    <2>2. RegsOK'
      BY <1>0, <2>1 DEF RegsOK, CommandReply
    <2>3. BytesOK'
      <3>1. b \in Bytes \ {"prefix", "extended"}
        BY DEF Bytes, ReplyBytes
      <3> QED  BY <1>0, <2>1, <3>1, PushedBytes, PushBytes DEF CommandReply
    <2>4. LineOK'
      BY <1>0, <2>1, <2>2, RaiseLine DEF CommandReply, RegsOK
    <2> QED  BY <2>2, <2>3, <2>4
  <1>3. CASE CommandWithParam \/ CommandKbdPort \/ CommandReset \/ ParamConfig \/ ParamOutputPort
    <2>1. RegsOK' /\ RaiseIfOutput /\ serving' = serving
      BY <1>0, <1>3 DEF RegsOK, CommandWithParam, CommandKbdPort, CommandReset,
         ParamConfig, ParamOutputPort
    <2>2. output' = output /\ queue' = queue
      BY <1>3 DEF CommandWithParam, CommandKbdPort, CommandReset, ParamConfig, ParamOutputPort
    <2>3. BytesOK'
      BY <1>0, <2>2 DEF BytesOK
    <2>4. LineOK'
      BY <1>0, <2>1, RaiseLine DEF RegsOK
    <2> QED  BY <2>1, <2>3, <2>4
  <1>4. CASE ParamKbdOutput \/ KeyboardParam \/ KeyboardWithParam \/ KeyboardReply
             \/ KeyboardScanning \/ KeyEvent
    <2>1. RegsOK' /\ RaiseIfOutput /\ serving' = serving
      BY <1>0, <1>4 DEF RegsOK, ParamKbdOutput, KeyboardParam, KeyboardWithParam,
         KeyboardReply, KeyboardScanning, KeyEvent, ToKeyboard
    <2>2. PICK bytes \in {<<"reply">>, <<"ack">>, <<"key">>, <<"ack", "reply">>,
                          <<"ack", "reply", "reply">>, <<"prefix", "extended">>} : Push(bytes)
      BY <1>4 DEF ParamKbdOutput, KeyboardParam, KeyboardWithParam, KeyboardReply,
         KeyboardScanning, KeyEvent
    <2>3. bytes \in Seq(Bytes) /\ bytes # << >> /\ Paired(bytes, FALSE)
      BY <2>2, PushedBytes DEF Bytes, KeyBytes, ReplyBytes
    <2>4. BytesOK'
      BY <1>0, <2>2, <2>3, PushBytes
    <2>5. LineOK'
      BY <1>0, <2>1, RaiseLine DEF RegsOK
    <2> QED  BY <2>1, <2>4, <2>5
  <1>5. CASE KeyboardReset
    <2>1. RegsOK' /\ RaiseIfOutput /\ serving' = serving
      BY <1>0, <1>5 DEF RegsOK, KeyboardReset, ToKeyboard
    <2>2. BytesOK'
      <3>1. \/ output' = <<"ack">> /\ queue' = <<"reply">>
            \/ output # << >> /\ output' = output /\ queue' = <<"ack", "reply">>
        BY <1>5 DEF KeyboardReset
      <3>4. Len(<<"ack">>) = 1 /\ Len(<<"reply">>) = 1 /\ Len(<<"ack", "reply">>) = 2
        OBVIOUS
      <3>2. /\ <<"ack">> \in Seq(Bytes) /\ Paired(<<"reply">>, FALSE) /\ <<"reply">> \in Seq(Bytes)
            /\ <<"ack", "reply">> \in Seq(Bytes) /\ Paired(<<"ack", "reply">>, FALSE)
        BY PushedBytes DEF Bytes, ReplyBytes
      <3>3. 2 <= MaxQueue
        BY <1>5 DEF KeyboardReset
      <3>7. /\ \A led \in BOOLEAN : Paired(<<"reply">>, led) /\ Paired(<<"ack", "reply">>, led)
            /\ <<"ack", "reply">>[1] = "ack" /\ <<"ack", "reply">> # << >>
        BY DEF Paired, Led
      <3>5. CASE output' = <<"ack">> /\ queue' = <<"reply">>
        <4>1. output' \in Seq(Bytes) /\ Len(output') <= 1 /\ output' # << >> /\ output' # <<"prefix">>
          BY <3>2, <3>4, <3>5
        <4>3. queue' \in Seq(Bytes) /\ Len(queue') <= MaxQueue
          BY <3>2, <3>3, <3>4, <3>5
        <4>2. /\ queue' \in Seq(Bytes) /\ Len(queue') <= MaxQueue
              /\ Paired(queue', output' = <<"prefix">>)
          BY <3>5, <3>7, <4>3
        <4> QED  BY <4>1, <4>2 DEF BytesOK, Paired, Led
      <3>6. CASE output # << >> /\ output' = output /\ queue' = <<"ack", "reply">>
        <4>3. queue' \in Seq(Bytes) /\ Len(queue') <= MaxQueue
          BY <3>2, <3>3, <3>4, <3>6
        <4>1. /\ queue' \in Seq(Bytes) /\ Len(queue') <= MaxQueue
              /\ Paired(queue', output' = <<"prefix">>)
          BY <3>6, <3>7, <4>3
        <4>2. queue' # << >> /\ queue'[1] \in {"extended", "ack"}
          BY <3>6, <3>7
        <4> QED  BY <1>0, <3>6, <4>1, <4>2 DEF BytesOK, Paired, Led
      <3> QED  BY <3>1, <3>5, <3>6
    <2>3. LineOK'
      BY <1>0, <2>1, RaiseLine DEF RegsOK
    <2> QED  BY <2>1, <2>2, <2>3
  <1>6. CASE TakeInterrupt
    <2>1. RegsOK' /\ serving'
      BY <1>0, <1>6 DEF RegsOK, TakeInterrupt
    <2>2. BytesOK'
      BY <1>0, <1>6 DEF BytesOK, TakeInterrupt
    <2>3. irq' \in IrqType /\ irq'.level = irq.level
      BY <1>0, <1>6 DEF TakeInterrupt, TakeIrq, LineOK, IrqType
    <2>4. LineOK'
      BY <1>0, <1>6, <2>1, <2>3 DEF LineOK, TakeInterrupt
    <2> QED  BY <2>1, <2>2, <2>4
  <1>7. CASE UNCHANGED vars
    BY <1>0, <1>7 DEF vars, RegsOK, BytesOK, LineOK, Paired, Led
  <1> QED  BY <1>1, <1>2, <1>3, <1>4, <1>5, <1>6, <1>7 DEF Next, Command, WriteData

-----------------------------------------------------------------------------
\* The controller's state keeps its types, and the output buffer never holds
\* more than one byte (I8042::output is an Option).
THEOREM ControllerTypeCorrect == Spec => []TypeOK
  <1>1. ControllerInv => TypeOK
    BY DEF ControllerInv
  <1> QED  BY <1>1, ControllerInvInit, ControllerInvNext, PTL DEF Spec

\* Every byte the controller holds for the guest is announced by an edge,
\* for every order of port accesses, key events and interrupts
\* (update_irq and its callers).
THEOREM ControllerNoLostInterrupt == Spec => []NoLostInterrupt
  <1>1. ControllerInv => NoLostInterrupt
    BY DEF ControllerInv
  <1> QED  BY <1>1, ControllerInvInit, ControllerInvNext, PTL DEF Spec

\* No reply or command comes between an extended key's prefix and its code,
\* and no code is left without its prefix; only a keyboard reset parts them,
\* when the prefix was already in the output buffer, and its acknowledgement
\* is what follows then (push, read_data, KBD_RESET).
THEOREM ControllerPrefixPaired == Spec => []PrefixPaired
  <1>1. ControllerInv => PrefixPaired
    BY DEF ControllerInv
  <1> QED  BY <1>1, ControllerInvInit, ControllerInvNext, PTL DEF Spec

-----------------------------------------------------------------------------
(* The driver on the controller.                                           *)

\* Whatever the driver does to the controller is a port access or taking an
\* interrupt.
LEMMA DeviceStep == [DoomNext]_doomVars => [Next]_vars
  <1> SUFFICES ASSUME [DoomNext]_doomVars PROVE Next \/ UNCHANGED vars
    OBVIOUS
  <1>1. CASE UNCHANGED doomVars
    BY <1>1 DEF doomVars, deviceVars, vars
  <1>2. CASE KeyArrives
    BY <1>2 DEF KeyArrives, Next
  <1>3. CASE InitFlush \/ InitConfig \/ InitDrain \/ IsrRead
    BY <1>3 DEF InitFlush, InitConfig, InitDrain, IsrRead, ReadByte, Next
  <1>4. CASE InitReadConfig
    BY <1>4 DEF InitReadConfig, Next, Command, CommandWithReply
  <1>5. CASE InitWriteConfig \/ InitWriteParam
    BY <1>5 DEF InitWriteConfig, InitWriteParam, Next, Command, WriteData
  <1>6. CASE InitRoute \/ IsrEnter
    BY <1>6 DEF InitRoute, IsrEnter, Next, deviceVars, vars
  <1>7. CASE InitFlushed \/ InitDone \/ IsrReturn \/ TimerInterrupt \/ Game \/ Sleeps
             \/ TimerExpires
    BY <1>7 DEF InitFlushed, InitDone, IsrReturn, TimerInterrupt, Game, Sleeps, ReadEmpty,
                ReadAdvance, ReadLoad, SleepBegin, SleepArm, SleepCli, SleepCheck, SleepHalt,
                TimerExpires, doomVars, deviceVars, vars
  <1> QED  BY <1>1, <1>2, <1>3, <1>4, <1>5, <1>6, <1>7 DEF DoomNext, Initialise, Handlers

\* From the configuration on the keyboard is on, and once the pin is unmasked
\* a byte has its interrupt or its reader.
DeafInv ==
    /\ ControllerInv
    /\ pc \in {"route", "drain"} \/ Playing => kbd_int /\ ~kbd_disable
    /\ Playing => isr \/ output = << >> \/ irq.latched

LEMMA DeafInvInit == DoomInit => DeafInv
  BY ControllerInvInit DEF DoomInit, DeafInv, Playing

LEMMA DeafInvNext == DeafInv /\ [DoomNext]_doomVars => DeafInv'
  <1> SUFFICES ASSUME DeafInv, [DoomNext]_doomVars PROVE DeafInv'
    OBVIOUS
  <1> USE DEF Playing
  <1>1. ControllerInv'
    BY ControllerInvNext, DeviceStep DEF DeafInv
  <1>2. /\ irq \in IrqType /\ kbd_int \in BOOLEAN
        /\ irq.level = (output # << >> /\ kbd_int)
    BY DEF DeafInv, ControllerInv, TypeOK, NoLostInterrupt
  <1>3. CASE UNCHANGED doomVars
    BY <1>1, <1>3 DEF doomVars, deviceVars, vars, DeafInv
  <1>4. CASE KeyArrives
    <2>1. /\ UNCHANGED <<pc, isr, kbd_int, kbd_disable>>
          /\ irq' = UpdateIrq(irq, output' # << >> /\ kbd_int)
      BY <1>4 DEF KeyArrives, KeyEvent, RaiseIfOutput
    <2>2. irq'.latched = (irq.latched \/ ((output' # << >> /\ kbd_int) /\ ~irq.level))
      BY <2>1 DEF UpdateIrq
    <2>3. Playing => (isr \/ output = << >> \/ irq.latched) /\ kbd_int
      BY DEF DeafInv
    <2>4. Playing' => isr' \/ output' = << >> \/ irq'.latched
      BY <1>2, <2>1, <2>2, <2>3 DEF IrqType
    <2> QED  BY <1>1, <2>1, <2>4 DEF DeafInv
  <1>5. CASE InitFlush \/ InitFlushed \/ InitReadConfig \/ InitConfig \/ InitWriteConfig
             \/ InitWriteParam
    BY <1>1, <1>5 DEF InitFlush, InitFlushed, InitReadConfig, InitConfig, InitWriteConfig,
                      InitWriteParam, DeafInv
  <1>6. CASE InitRoute
    <2>1. /\ pc = "route" /\ pc' = "drain"
          /\ UNCHANGED <<kbd_int, kbd_disable>>
      BY <1>6 DEF InitRoute, TakeInterrupt, deviceVars, vars
    <2>2. kbd_int' /\ ~kbd_disable' /\ ~Playing'
      BY <2>1 DEF DeafInv
    <2> QED  BY <1>1, <2>2 DEF DeafInv
  <1>7. CASE InitDrain
    <2>1. pc = "drain" /\ UNCHANGED <<pc, kbd_int, kbd_disable>>
      BY <1>7 DEF InitDrain, ReadByte, ReadData
    <2> QED  BY <1>1, <2>1 DEF DeafInv
  <1>8. CASE InitDone
    <2>1. /\ pc = "drain" /\ output' = << >>
          /\ UNCHANGED <<kbd_int, kbd_disable>>
      BY <1>8 DEF InitDone, deviceVars, vars
    <2> QED  BY <1>1, <2>1 DEF DeafInv
  <1>9. CASE IsrEnter
    <2>1. /\ Playing /\ isr'
          /\ UNCHANGED <<kbd_int, kbd_disable>>
      BY <1>9 DEF IsrEnter, InterruptsOn, TakeInterrupt
    <2> QED  BY <1>1, <2>1 DEF DeafInv
  <1>10. CASE IsrRead
    <2>1. isr' /\ UNCHANGED <<pc, kbd_int, kbd_disable>>
      BY <1>10 DEF IsrRead, ReadByte, ReadData
    <2> QED  BY <1>1, <2>1 DEF DeafInv
  <1>11. CASE IsrReturn
    <2>1. output' = << >> /\ UNCHANGED <<pc, kbd_int, kbd_disable>>
      BY <1>11 DEF IsrReturn, deviceVars, vars
    <2> QED  BY <1>1, <2>1 DEF DeafInv
  <1>12. CASE TimerInterrupt \/ Game \/ Sleeps \/ TimerExpires
    <2>1. UNCHANGED <<kbd_int, kbd_disable, output, irq, isr>>
      BY <1>12 DEF TimerInterrupt, Game, Sleeps, ReadEmpty, ReadAdvance, ReadLoad, SleepBegin,
                  SleepArm, SleepCli, SleepCheck, SleepHalt, TimerExpires, doomVars, deviceVars, vars
    <2>2. CASE pc' = pc
      BY <1>1, <2>1, <2>2 DEF DeafInv
    <2>3. CASE Playing
      BY <1>1, <2>1, <2>3 DEF DeafInv
    <2>4. pc' = pc \/ Playing
      BY <1>12 DEF TimerInterrupt, InterruptsOn, Game, Sleeps, ReadEmpty, ReadAdvance, ReadLoad,
                  SleepBegin, SleepArm, SleepCli, SleepCheck, SleepHalt, TimerExpires, doomVars
    <2> QED  BY <2>2, <2>3, <2>4
  <1> QED  BY <1>3, <1>4, <1>5, <1>6, <1>7, <1>8, <1>9, <1>10, <1>11, <1>12
     DEF DoomNext, Initialise, Handlers

\* Once the game runs, a byte that has come has an interrupt on its way or is
\* being read (keyboard_init, keyboard_interrupt).
THEOREM NeverDeafCorrect == FairSpec => []NeverDeaf
  <1>1. DeafInv => NeverDeaf
    BY DEF DeafInv, NeverDeaf
  <1> QED  BY <1>1, DeafInvInit, DeafInvNext, PTL DEF FairSpec

-----------------------------------------------------------------------------
(* What DG_GetKey() makes of the bytes.                                    *)

V == INSTANCE VringProofs WITH Num <- QUEUE_SIZE

\* The indices of the driver's queue run freely like a virtqueue's.
LEMMA QueueIndices == V!RingAssumption
  BY DoomAssumption DEF V!RingAssumption

Values == {"none"} \cup Bytes

\* A decoder whose flag is f takes for extended exactly the codes of s that
\* come after their prefix, and has its flag clear at the end.
Decodable(f, s) ==
    \A i \in 1..(Len(s) + 1) :
        (i <= Len(s) /\ s[i] = "extended") <=> (IF i = 1 THEN f ELSE s[i - 1] = "prefix")

\* Whole codes and replies behind a decodable sequence leave it decodable.
LEMMA DecodableConcat ==
    ASSUME NEW S, NEW s \in Seq(S), NEW t \in Seq(S), NEW f \in BOOLEAN,
           Decodable(f, s), Decodable(FALSE, t)
    PROVE  Decodable(f, s \o t)
  <1> DEFINE u == s \o t
  <1>1. /\ Len(u) = Len(s) + Len(t) /\ Len(s) \in Nat /\ Len(t) \in Nat
        /\ \A i \in 1..(Len(s) + Len(t)) : u[i] = IF i <= Len(s) THEN s[i] ELSE t[i - Len(s)]
    BY ConcatProperties, LenProperties
  <1> HIDE DEF u
  <1> SUFFICES ASSUME NEW i \in 1..(Len(s) + Len(t) + 1)
               PROVE  (i <= Len(u) /\ u[i] = "extended") <=>
                          (IF i = 1 THEN f ELSE u[i - 1] = "prefix")
    BY <1>1 DEF Decodable, u
  <1>2. CASE i <= Len(s)
    <2>1. u[i] = s[i] /\ (i # 1 => u[i - 1] = s[i - 1]) /\ i <= Len(u)
      BY <1>1, <1>2
    <2>2. (i <= Len(s) /\ s[i] = "extended") <=> (IF i = 1 THEN f ELSE s[i - 1] = "prefix")
      BY <1>1, <1>2 DEF Decodable
    <2> QED  BY <1>2, <2>1, <2>2
  <1>3. CASE i = Len(s) + 1
    <2>1. ~(IF i = 1 THEN f ELSE s[i - 1] = "prefix")
      <3>1. (i <= Len(s) /\ s[i] = "extended") <=> (IF i = 1 THEN f ELSE s[i - 1] = "prefix")
        BY <1>1, <1>3 DEF Decodable
      <3> QED  BY <1>1, <1>3, <3>1
    <2>2. ~(1 <= Len(t) /\ t[1] = "extended")
      <3>1. (1 <= Len(t) /\ t[1] = "extended") <=> (IF 1 = 1 THEN FALSE ELSE t[1 - 1] = "prefix")
        BY <1>1 DEF Decodable
      <3> QED  BY <3>1
    <2>3. i <= Len(u) => u[i] = t[1] /\ 1 <= Len(t)
      BY <1>1, <1>3
    <2>4. i # 1 => u[i - 1] = s[i - 1]
      BY <1>1, <1>3
    <2> QED  BY <2>1, <2>2, <2>3, <2>4
  <1>4. CASE i > Len(s) + 1
    <2> DEFINE j == i - Len(s)
    <2>1. j \in 1..(Len(t) + 1) /\ j # 1 /\ i # 1
          /\ (i <= Len(u) <=> j <= Len(t)) /\ (j <= Len(t) => u[i] = t[j])
          /\ u[i - 1] = t[j - 1]
      <3>1. j \in 1..(Len(t) + 1) /\ j # 1 /\ i # 1 /\ (i <= Len(u) <=> j <= Len(t))
        BY <1>1, <1>4
      <3>2. j <= Len(t) => u[i] = t[j]
        BY <1>1, <1>4
      <3>3. i - 1 \in 1..(Len(s) + Len(t)) /\ ~(i - 1 <= Len(s)) /\ (i - 1) - Len(s) = j - 1
        BY <1>1, <1>4
      <3>4. u[i - 1] = t[j - 1]
        BY <1>1, <3>3
      <3> QED  BY <3>1, <3>2, <3>4
    <2> HIDE DEF j
    <2>2. (j <= Len(t) /\ t[j] = "extended") <=> (IF j = 1 THEN FALSE ELSE t[j - 1] = "prefix")
      BY <2>1 DEF Decodable
    <2> QED  BY <2>1, <2>2
  <1> QED  BY <1>1, <1>2, <1>3, <1>4

\* The first byte is what the flag said, and says what the next one is.
LEMMA DecodableTail ==
    ASSUME NEW S, NEW s \in Seq(S), s # << >>, NEW f \in BOOLEAN, Decodable(f, s)
    PROVE  /\ f <=> (Head(s) = "extended")
           /\ Decodable(Head(s) = "prefix", Tail(s))
  <1> DEFINE t == Tail(s)
  <1>1. /\ Len(t) = Len(s) - 1 /\ Len(s) \in Nat /\ Len(s) > 0 /\ Head(s) = s[1]
        /\ \A i \in 1..(Len(s) - 1) : t[i] = s[i + 1]
    BY HeadTailProperties, LenProperties, EmptySeq
  <1> HIDE DEF t
  <1>2. f <=> (Head(s) = "extended")
    <2>1. (1 <= Len(s) /\ s[1] = "extended") <=> (IF 1 = 1 THEN f ELSE s[1 - 1] = "prefix")
      BY <1>1 DEF Decodable
    <2> QED  BY <1>1, <2>1
  <1>3. ASSUME NEW i \in 1..Len(s)
        PROVE  (i <= Len(t) /\ t[i] = "extended") <=>
                   (IF i = 1 THEN Head(s) = "prefix" ELSE t[i - 1] = "prefix")
    <2>1. i + 1 \in 1..(Len(s) + 1) /\ i + 1 # 1 /\ (i + 1) - 1 = i
          /\ (i + 1 <= Len(s) <=> i <= Len(t))
      BY <1>1
    <2>2. (i + 1 <= Len(s) /\ s[i + 1] = "extended") <=>
              (IF i + 1 = 1 THEN f ELSE s[(i + 1) - 1] = "prefix")
      BY <2>1 DEF Decodable
    <2>3. i <= Len(t) => t[i] = s[i + 1]
      BY <1>1
    <2>4. i # 1 => t[i - 1] = s[i]
      BY <1>1
    <2> QED  BY <1>1, <2>1, <2>2, <2>3, <2>4
  <1>4. Decodable(Head(s) = "prefix", t)
    BY <1>1, <1>3 DEF Decodable
  <1> QED  BY <1>2, <1>4 DEF t

\* A key's bytes, or the configuration, are decodable by themselves, and an
\* empty sequence by a clear flag only.
LEMMA DecodableBytes ==
    /\ Decodable(FALSE, <<"key">>) /\ Decodable(FALSE, <<"config">>)
    /\ Decodable(FALSE, <<"prefix", "extended">>)
    /\ \A f \in BOOLEAN : Decodable(f, << >>) <=> ~f
  <1>1. \A b \in {"key", "config"} : Decodable(FALSE, <<b>>)
    BY DEF Decodable
  <1>2. Decodable(FALSE, <<"prefix", "extended">>)
    BY DEF Decodable
  <1>3. \A f \in BOOLEAN : Decodable(f, << >>) <=> ~f
    <2> SUFFICES ASSUME NEW f \in BOOLEAN PROVE Decodable(f, << >>) <=> ~f
      OBVIOUS
    <2>1. Len(<< >>) = 0 /\ 1..(0 + 1) = {1}
      OBVIOUS
    <2> QED  BY <2>1 DEF Decodable
  <1> QED  BY <1>1, <1>2, <1>3

-----------------------------------------------------------------------------
(* The driver's queue.                                                     *)

\* The bytes from index a up to b, in the order they were pushed.
Between(q, a, b) == [i \in 1..V!Dist(a, b) |-> q[Slot(a + i - 1)]]
Held == Between(slots, tail, head)

Slots == 0..(QUEUE_SIZE - 1)

QueueOK ==
    /\ slots \in [Slots -> Values]
    /\ head \in V!Indices /\ tail \in V!Indices
    /\ V!Dist(tail, head) <= QUEUE_SIZE

LEMMA HeldType ==
    ASSUME NEW q \in [Slots -> Values], NEW a \in V!Indices, NEW b \in V!Indices
    PROVE  /\ Between(q, a, b) \in Seq(Values) /\ Len(Between(q, a, b)) = V!Dist(a, b)
           /\ V!Dist(a, b) \in Nat
           /\ \A i \in 1..V!Dist(a, b) : Between(q, a, b)[i] = q[Slot(a + i - 1)]
           /\ \A x \in Nat : Slot(x) \in Slots
           /\ a \in Nat /\ b \in Nat
  <1>0. V!Dist(a, b) \in 0..(IdxMod - 1)
    BY QueueIndices, V!DistFacts
  <1>1. V!Dist(a, b) \in Nat /\ a \in Nat /\ b \in Nat
    BY <1>0, DoomAssumption DEF V!Indices
  <1>2. \A x \in Nat : Slot(x) \in Slots
    BY DoomAssumption DEF Slot, Slots
  <1>3. \A i \in 1..V!Dist(a, b) : q[Slot(a + i - 1)] \in Values
    <2> SUFFICES ASSUME NEW i \in 1..V!Dist(a, b) PROVE q[Slot(a + i - 1)] \in Values
      OBVIOUS
    <2>1. a + i - 1 \in Nat
      BY <1>1
    <2>2. Slot(a + i - 1) \in Slots
      BY <1>2, <2>1
    <2> QED  BY <2>2
  <1>4. Between(q, a, b) \in [1..V!Dist(a, b) -> Values]
    BY <1>3 DEF Between
  <1>5. Between(q, a, b) \in Seq(Values) /\ Len(Between(q, a, b)) = V!Dist(a, b)
    BY <1>1, <1>4
  <1> QED  BY <1>1, <1>2, <1>5 DEF Between

\* queue_push() appends a byte.
LEMMA HeldPush ==
    ASSUME QueueOK, NEW b \in Values, ~Full, tail' = tail,
           slots' = [slots EXCEPT ![Slot(head)] = b], head' = Next1(head)
    PROVE  QueueOK' /\ Held' = Append(Held, b)
  <1> DEFINE n == V!Dist(tail, head)
  <1> DEFINE s == Held
  <1> DEFINE t == Held'
  <1>0. n \in Nat /\ n < QUEUE_SIZE /\ QUEUE_SIZE \in Nat /\ QUEUE_SIZE < IdxMod /\ IdxMod \in Nat
    BY DoomAssumption, HeldType DEF Full, V!Dist, QueueOK
  <1>1. head' \in V!Indices /\ V!Dist(tail', head') = n + 1
    <2>1. head' = V!IncIdx(head) /\ n < IdxMod - 1
      BY <1>0 DEF Next1, V!IncIdx
    <2>2. tail \in V!Indices /\ head \in V!Indices
      BY DEF QueueOK
    <2>3. /\ V!IncIdx(head) \in V!Indices
          /\ V!Dist(tail, head) < IdxMod - 1 =>
                 V!Dist(tail, V!IncIdx(head)) = V!Dist(tail, head) + 1
      BY ONLY <2>2, QueueIndices, V!DistFacts, SMTT(20)
    <2> QED  BY <2>1, <2>3
  <1>2. Slot(head) \in Slots /\ Slot(head) = Slot(tail + n)
    <2>1. (tail + n) % QUEUE_SIZE = head % QUEUE_SIZE
      BY QueueIndices, V!SlotFrom DEF QueueOK
    <2> QED  BY <2>1, HeldType DEF Slot, QueueOK
  <1>3. slots' \in [Slots -> Values]
    BY <1>2 DEF QueueOK
  <1>4. QueueOK'
    BY <1>0, <1>1, <1>3 DEF QueueOK
  <1>5. /\ s \in Seq(Values) /\ Len(s) = n
        /\ \A i \in 1..n : s[i] = slots[Slot(tail + i - 1)]
    BY HeldType DEF QueueOK, Held
  <1>6. /\ t \in Seq(Values) /\ Len(t) = n + 1
        /\ \A i \in 1..(n + 1) : t[i] = slots'[Slot(tail + i - 1)]
    <2>1. /\ t \in Seq(Values) /\ Len(t) = V!Dist(tail, head')
          /\ \A i \in 1..V!Dist(tail, head') : t[i] = slots'[Slot(tail + i - 1)]
      <3>1. t = Between(slots', tail, head')
        BY DEF Held
      <3> DEFINE q == slots'
      <3> DEFINE h == head'
      <3>2. q \in [Slots -> Values] /\ h \in V!Indices /\ tail \in V!Indices /\ t = Between(q, tail, h)
        BY <1>1, <1>3, <3>1 DEF QueueOK
      <3> HIDE DEF t, q, h
      <3>3. /\ t \in Seq(Values) /\ Len(t) = V!Dist(tail, h)
            /\ \A i \in 1..V!Dist(tail, h) : t[i] = q[Slot(tail + i - 1)]
        BY <3>2, HeldType
      <3> QED  BY <3>3 DEF q, h
    <2> HIDE DEF t
    <2> QED  BY <1>1, <2>1
  <1>7. \A i \in 1..n : t[i] = s[i]
    <2> SUFFICES ASSUME NEW i \in 1..n PROVE t[i] = s[i]
      OBVIOUS
    <2>1. /\ tail \in Nat /\ i - 1 \in 0..QUEUE_SIZE /\ n \in 0..QUEUE_SIZE
          /\ i - 1 < n /\ n - (i - 1) < QUEUE_SIZE /\ tail + (i - 1) = tail + i - 1
          /\ tail + i - 1 \in Nat
      BY <1>0, HeldType DEF QueueOK
    <2>2. (tail + (i - 1)) % QUEUE_SIZE # (tail + n) % QUEUE_SIZE
      BY <2>1, QueueIndices, V!SlotsDiffer
    <2>3. Slot(tail + i - 1) # Slot(head) /\ Slot(tail + i - 1) \in Slots
      BY <1>2, <2>1, <2>2, HeldType DEF Slot, QueueOK
    <2>4. slots'[Slot(tail + i - 1)] = slots[Slot(tail + i - 1)]
      BY <1>2, <2>3 DEF QueueOK
    <2> HIDE DEF s, t
    <2> QED  BY <1>0, <1>5, <1>6, <2>4
  <1>8. t[n + 1] = b
    <2>1. tail + (n + 1) - 1 = tail + n /\ n + 1 \in 1..(n + 1)
      BY <1>0, HeldType DEF QueueOK
    <2>2. slots'[Slot(tail + n)] = b
      BY <1>2 DEF QueueOK
    <2> HIDE DEF t
    <2> QED  BY <1>6, <2>1, <2>2
  <1> HIDE DEF s, t, n
  <1>9. t = Append(s, b)
    <2>1. /\ Append(s, b) \in Seq(Values) /\ Len(Append(s, b)) = n + 1
          /\ \A i \in 1..n : Append(s, b)[i] = s[i]
          /\ Append(s, b)[n + 1] = b
      BY <1>5, AppendProperties
    <2>2. \A i \in 1..Len(t) : t[i] = Append(s, b)[i]
      BY <1>0, <1>6, <1>7, <1>8, <2>1
    <2> QED  BY <1>6, <2>1, <2>2, SeqEqual
  <1> QED  BY <1>4, <1>9 DEF s, t

\* keyboard_read() takes the first byte.
LEMMA HeldPop ==
    ASSUME QueueOK, head # tail, tail' = Next1(tail), head' = head, slots' = slots
    PROVE  /\ QueueOK' /\ Held # << >>
           /\ Head(Held) = slots[Slot(tail)] /\ ReadSlot' = Slot(tail)
           /\ Held' = Tail(Held)
  <1> DEFINE n == V!Dist(tail, head)
  <1> DEFINE s == Held
  <1> DEFINE t == Held'
  <1>0. n \in Nat /\ tail \in Nat /\ IdxMod \in Nat /\ n <= QUEUE_SIZE /\ QUEUE_SIZE \in Nat
    BY DoomAssumption, HeldType DEF QueueOK
  <1>1. tail' = V!IncIdx(tail) /\ tail' \in V!Indices /\ n # 0 /\ V!Dist(tail', head) = n - 1
    BY QueueIndices, V!DistFacts DEF QueueOK, Next1, V!IncIdx
  <1>2. QueueOK'
    BY <1>0, <1>1 DEF QueueOK
  <1>3. ReadSlot' = Slot(tail)
    <2>1. V!IncIdx(tail) = IF tail = IdxMod - 1 THEN 0 ELSE tail + 1
      BY QueueIndices, V!IndexArithmetic DEF QueueOK
    <2>2. (tail' - 1) % IdxMod = tail
      <3>1. CASE tail = IdxMod - 1
        BY <1>0, <1>1, <2>1, <3>1, DoomAssumption
      <3>2. CASE tail # IdxMod - 1
        BY <1>0, <1>1, <2>1, <3>2, DoomAssumption DEF QueueOK, V!Indices
      <3> QED  BY <3>1, <3>2
    <2> QED  BY <2>2 DEF ReadSlot, Slot
  <1>4. /\ s \in Seq(Values) /\ Len(s) = n
        /\ \A i \in 1..n : s[i] = slots[Slot(tail + i - 1)]
    BY HeldType DEF QueueOK, Held
  <1>5. /\ t \in Seq(Values) /\ Len(t) = n - 1
        /\ \A i \in 1..(n - 1) : t[i] = slots[Slot(tail' + i - 1)]
    <2>1. /\ t \in Seq(Values) /\ Len(t) = V!Dist(tail', head)
          /\ \A i \in 1..V!Dist(tail', head) : t[i] = slots[Slot(tail' + i - 1)]
      BY <1>1, HeldType DEF Held, QueueOK
    <2> HIDE DEF t
    <2> QED  BY <1>1, <2>1
  <1>6. \A i \in 1..(n - 1) : t[i] = s[i + 1]
    <2> SUFFICES ASSUME NEW i \in 1..(n - 1) PROVE t[i] = s[i + 1]
      OBVIOUS
    <2>1. /\ i - 1 \in Nat /\ i + 1 \in 1..n /\ tail' \in Nat
          /\ tail' + i - 1 = tail' + (i - 1) /\ tail + (i + 1) - 1 = tail + (i - 1) + 1
      BY <1>0, <1>1, DoomAssumption DEF V!Indices
    <2>2. (V!IncIdx(tail) + (i - 1)) % QUEUE_SIZE = (tail + (i - 1) + 1) % QUEUE_SIZE
      BY <2>1, QueueIndices, V!SlotFrom DEF QueueOK
    <2>3. Slot(tail' + i - 1) = Slot(tail + (i + 1) - 1)
      BY <1>1, <2>1, <2>2 DEF Slot
    <2> HIDE DEF s, t
    <2> QED  BY <1>4, <1>5, <2>1, <2>3
  <1>7. s[1] = slots[Slot(tail)]
    <2>1. tail + 1 - 1 = tail /\ 1 \in 1..n
      BY <1>0, <1>1
    <2> HIDE DEF s
    <2> QED  BY <1>4, <2>1
  <1> HIDE DEF s, t, n
  <1>8. s # << >> /\ Head(s) = s[1]
    BY <1>0, <1>1, <1>4
  <1>9. t = Tail(s)
    <2>1. Tail(s) \in Seq(Values) /\ Len(Tail(s)) = n - 1 /\ \A i \in 1..(n - 1) : Tail(s)[i] = s[i + 1]
      <3>1. /\ Tail(s) \in Seq(Values) /\ Len(Tail(s)) = Len(s) - 1
            /\ \A i \in 1..Len(Tail(s)) : Tail(s)[i] = s[i + 1]
        BY <1>4, <1>8, HeadTailProperties
      <3> QED  BY <1>4, <3>1
    <2>2. \A i \in 1..Len(t) : t[i] = Tail(s)[i]
      BY <1>5, <1>6, <2>1
    <2> QED  BY <1>5, <2>1, <2>2, SeqEqual
  <1> QED  BY <1>2, <1>3, <1>7, <1>8, <1>9 DEF s, t

-----------------------------------------------------------------------------
(* The bytes the game has yet to read.                                     *)

\* The first element of a sequence may as well be the last of what is before.
LEMMA MoveHead ==
    ASSUME NEW S, NEW s \in Seq(S), NEW t \in Seq(S), t # << >>
    PROVE  Append(s, Head(t)) \o Tail(t) = s \o t
  <1> DEFINE a == Append(s, Head(t))
  <1> DEFINE u == a \o Tail(t)
  <1> DEFINE v == s \o t
  <1>1. /\ Head(t) \in S /\ Tail(t) \in Seq(S) /\ Len(Tail(t)) = Len(t) - 1
        /\ \A i \in 1..Len(Tail(t)) : Tail(t)[i] = t[i + 1]
    BY HeadTailProperties
  <1>2. Len(s) \in Nat /\ Len(t) \in Nat /\ Len(t) > 0 /\ Head(t) = t[1]
    BY LenProperties, EmptySeq
  <1>3. /\ a \in Seq(S) /\ Len(a) = Len(s) + 1
        /\ \A i \in 1..Len(s) : a[i] = s[i]
        /\ a[Len(s) + 1] = Head(t)
    BY <1>1, AppendProperties
  <1> HIDE DEF a
  <1>4. /\ u \in Seq(S) /\ Len(u) = Len(a) + Len(Tail(t))
        /\ \A i \in 1..(Len(a) + Len(Tail(t))) :
               u[i] = IF i <= Len(a) THEN a[i] ELSE Tail(t)[i - Len(a)]
    BY <1>1, <1>3, ConcatProperties
  <1>5. /\ v \in Seq(S) /\ Len(v) = Len(s) + Len(t)
        /\ \A i \in 1..(Len(s) + Len(t)) : v[i] = IF i <= Len(s) THEN s[i] ELSE t[i - Len(s)]
    BY ConcatProperties
  <1> HIDE DEF u, v
  <1>6. Len(u) = Len(v)
    BY <1>1, <1>2, <1>3, <1>4, <1>5
  <1>7. ASSUME NEW i \in 1..Len(u) PROVE u[i] = v[i]
    <2>1. CASE i <= Len(s)
      <3>1. i \in 1..(Len(a) + Len(Tail(t))) /\ i <= Len(a) /\ i \in 1..(Len(s) + Len(t))
            /\ i \in 1..Len(s)
        BY <1>1, <1>2, <1>3, <1>4, <2>1
      <3>2. u[i] = a[i] /\ v[i] = s[i]
        BY <1>4, <1>5, <2>1, <3>1
      <3> QED  BY <1>3, <3>1, <3>2
    <2>2. CASE i = Len(s) + 1
      <3>1. u[i] = t[1]
        BY <1>1, <1>2, <1>3, <1>4, <2>2
      <3>2. v[i] = t[1]
        BY <1>1, <1>2, <1>3, <1>4, <1>5, <2>2
      <3> QED  BY <3>1, <3>2
    <2>3. CASE i > Len(s) + 1
      <3>1. i - Len(a) \in 1..Len(Tail(t)) /\ (i - Len(a)) + 1 = i - Len(s)
        BY <1>1, <1>2, <1>3, <1>4, <2>3
      <3>2. u[i] = t[i - Len(s)]
        BY <1>1, <1>2, <1>3, <1>4, <2>3, <3>1
      <3> QED  BY <1>1, <1>2, <1>3, <1>4, <1>5, <2>3, <3>2
    <2> QED  BY <1>2, <1>4, <1>1, <1>3, <2>1, <2>2, <2>3
  <1> QED  BY <1>4, <1>5, <1>6, <1>7, SeqEqual DEF a, u, v

\* The head and the tail of a concatenation are the first part's.
LEMMA HeadOfConcat ==
    ASSUME NEW S, NEW s \in Seq(S), NEW t \in Seq(S), s # << >>
    PROVE  /\ s \o t # << >>
           /\ Head(s \o t) = Head(s) /\ Tail(s \o t) = Tail(s) \o t
  <1> DEFINE u == Tail(s) \o t
  <1> DEFINE v == s \o t
  <1>1. /\ Tail(s) \in Seq(S) /\ Len(Tail(s)) = Len(s) - 1
        /\ \A i \in 1..Len(Tail(s)) : Tail(s)[i] = s[i + 1]
    BY HeadTailProperties
  <1>2. Len(s) \in Nat /\ Len(s) > 0 /\ Head(s) = s[1] /\ Len(t) \in Nat
    BY LenProperties, EmptySeq
  <1>3. /\ u \in Seq(S) /\ Len(u) = Len(Tail(s)) + Len(t)
        /\ \A i \in 1..(Len(Tail(s)) + Len(t)) :
               u[i] = IF i <= Len(Tail(s)) THEN Tail(s)[i] ELSE t[i - Len(Tail(s))]
    BY <1>1, ConcatProperties
  <1>4. /\ v \in Seq(S) /\ Len(v) = Len(s) + Len(t)
        /\ \A i \in 1..(Len(s) + Len(t)) : v[i] = IF i <= Len(s) THEN s[i] ELSE t[i - Len(s)]
    BY ConcatProperties
  <1> HIDE DEF u, v
  <1>5. v # << >> /\ Head(v) = Head(s)
    <2>1. v # << >>
      BY <1>2, <1>4, EmptySeq
    <2>2. Head(v) = v[1] /\ v[1] = s[1]
      BY <1>2, <1>4
    <2> QED  BY <1>2, <2>1, <2>2
  <1>6. /\ Tail(v) \in Seq(S) /\ Len(Tail(v)) = Len(v) - 1
        /\ \A i \in 1..Len(Tail(v)) : Tail(v)[i] = v[i + 1]
    BY <1>4, <1>5, HeadTailProperties
  <1>7. Len(Tail(v)) = Len(u) /\ Len(u) = Len(s) + Len(t) - 1
    BY <1>1, <1>2, <1>3, <1>4, <1>6
  <1>8. ASSUME NEW i \in 1..Len(Tail(v)) PROVE Tail(v)[i] = u[i]
    <2>0. i \in 1..(Len(s) + Len(t) - 1) /\ i + 1 \in 1..(Len(s) + Len(t))
          /\ i \in 1..(Len(Tail(s)) + Len(t))
      BY <1>1, <1>2, <1>7
    <2>1. Tail(v)[i] = IF i + 1 <= Len(s) THEN s[i + 1] ELSE t[(i + 1) - Len(s)]
      BY <1>4, <1>6, <2>0
    <2>2. CASE i <= Len(Tail(s))
      BY <1>1, <1>2, <1>3, <2>0, <2>1, <2>2
    <2>3. CASE i > Len(Tail(s))
      <3>1. ~(i + 1 <= Len(s)) /\ (i + 1) - Len(s) = i - Len(Tail(s)) /\ ~(i <= Len(Tail(s)))
        BY <1>1, <1>2, <2>0, <2>3
      <3> QED  BY <1>3, <2>0, <2>1, <3>1
    <2> QED  BY <1>1, <1>2, <2>0, <2>2, <2>3
  <1>9. Tail(v) = u
    BY <1>3, <1>6, <1>7, <1>8, SeqEqual
  <1> QED  BY <1>5, <1>9 DEF u, v

\* In the controller.
Waiting == output \o queue

LEMMA WaitingType ==
    ASSUME BytesOK
    PROVE  /\ output \in Seq(Values) /\ queue \in Seq(Values) /\ Waiting \in Seq(Values)
           /\ output = << >> => Waiting = << >>
           /\ output # << >> => Len(output) = 1 /\ Head(output) \in Values
                                /\ Tail(output) = << >> /\ output = <<Head(output)>>
  <1>1. output \in Seq(Values) /\ queue \in Seq(Values) /\ Len(output) <= 1
    BY SeqMonotonic DEF BytesOK, Values
  <1>2. Waiting \in Seq(Values)
    BY <1>1, ConcatProperties DEF Waiting
  <1>3. output = << >> => Waiting = << >>
    BY <1>1, ConcatEmptySeq DEF BytesOK, Waiting
  <1>4. ASSUME output # << >>
        PROVE  Len(output) = 1 /\ Head(output) \in Values /\ Tail(output) = << >>
               /\ output = <<Head(output)>>
    <2>1. Len(output) = 1
      <3>1. \A q \in Seq(Values) : q # << >> => Len(q) \in Nat \ {0}
        BY EmptySeq
      <3>2. Len(output) \in Nat \ {0}
        BY <1>1, <1>4, <3>1
      <3>3. \A n \in Nat \ {0} : n <= 1 => n = 1
        OBVIOUS
      <3> QED  BY ONLY <1>1, <3>2, <3>3
    <2>2. Head(output) \in Values /\ Tail(output) \in Seq(Values) /\ Len(Tail(output)) = 0
      BY <1>1, <1>4, <2>1, HeadTailProperties
    <2>3. Tail(output) = << >>
      BY <2>2, EmptySeq
    <2>4. output = <<Head(output)>>
      BY <1>1, <2>1
    <2> QED  BY <2>1, <2>2, <2>3, <2>4
  <1> QED  BY <1>1, <1>2, <1>3, <1>4

\* push() puts its bytes behind all the others.
LEMMA WaitingPush ==
    ASSUME BytesOK, NEW bytes \in Seq(Bytes), bytes # << >>, Push(bytes)
    PROVE  Waiting' = Waiting \o bytes
  <1> DEFINE all == queue \o bytes
  <1>1. queue \in Seq(Bytes) /\ output \in Seq(Bytes) /\ all \in Seq(Bytes)
    BY ConcatProperties DEF BytesOK
  <1>2. all # << >>
    BY <1>1, ConcatEqualIffEmpty
  <1>3. IF output = << >> THEN output' = <<Head(all)>> /\ queue' = Tail(all)
                          ELSE output' = output /\ queue' = all
    BY <1>2 DEF Push
  <1>4. CASE output = << >>
    <2>1. all = bytes /\ Waiting = << >>
      <3>1. queue = << >>
        BY <1>4 DEF BytesOK
      <3> QED  BY <1>4, <3>1, ConcatEmptySeq, WaitingType
    <2>2. Waiting \o bytes = bytes
      BY <2>1, ConcatEmptySeq
    <2>3. <<Head(bytes)>> = Append(<< >>, Head(bytes))
      OBVIOUS
    <2>4. << >> \in Seq(Bytes) /\ << >> \o bytes = bytes
      BY EmptySeq, ConcatEmptySeq
    <2>5. <<Head(bytes)>> \o Tail(bytes) = bytes
      BY <2>3, <2>4, MoveHead
    <2> HIDE DEF all
    <2>6. Waiting' = <<Head(bytes)>> \o Tail(bytes)
      <3>1. output' = <<Head(bytes)>> /\ queue' = Tail(bytes)
        BY <1>3, <1>4, <2>1
      <3> QED  BY ONLY <3>1 DEF Waiting
    <2> QED  BY ONLY <2>2, <2>5, <2>6
  <1>5. CASE output # << >>
    <2>1. output' = output /\ queue' = queue \o bytes
      BY <1>3, <1>5
    <2>2. (output \o queue) \o bytes = output \o (queue \o bytes)
      BY <1>1, ConcatAssociative
    <2> QED  BY ONLY <2>1, <2>2 DEF Waiting
  <1> QED  BY <1>4, <1>5

\* A read of 0x60 takes the first.
LEMMA WaitingRead ==
    ASSUME BytesOK, output # << >>, ReadData
    PROVE  /\ Waiting # << >> /\ Head(Waiting) = Head(output)
           /\ Waiting' = Tail(Waiting) /\ Head(output) \in Values
  <1>1. /\ output \in Seq(Values) /\ queue \in Seq(Values)
        /\ Tail(output) = << >> /\ Head(output) \in Values
    BY WaitingType
  <1>2. Waiting # << >> /\ Head(Waiting) = Head(output) /\ Tail(Waiting) = Tail(output) \o queue
    BY <1>1, HeadOfConcat DEF Waiting
  <1>3. Tail(Waiting) = queue
    BY <1>1, <1>2, ConcatEmptySeq
  <1>4. CASE queue = << >>
    <2>1. output' = << >> /\ queue' = << >>
      BY <1>4 DEF ReadData
    <2>2. << >> \o << >> = << >>
      BY EmptySeq, ConcatEmptySeq
    <2>3. Waiting' = << >>
      BY ONLY <2>1, <2>2 DEF Waiting
    <2> QED  BY ONLY <1>1, <1>2, <1>3, <1>4, <2>3
  <1>5. CASE queue # << >>
    <2>1. output' = <<Head(queue)>> /\ queue' = Tail(queue)
      BY <1>5 DEF ReadData
    <2>2. <<Head(queue)>> = Append(<< >>, Head(queue))
      OBVIOUS
    <2>3. << >> \in Seq(Values) /\ << >> \o queue = queue
      BY <1>1, EmptySeq, ConcatEmptySeq
    <2>4. <<Head(queue)>> \o Tail(queue) = queue
      BY <1>1, <1>5, <2>2, <2>3, MoveHead
    <2>5. Waiting' = queue
      BY ONLY <2>1, <2>4 DEF Waiting
    <2> QED  BY ONLY <1>1, <1>2, <1>3, <2>5
  <1> QED  BY <1>4, <1>5

\* Everything on its way to the game, in the order it is to be read.
Coming == Held \o Waiting

LEMMA ComingType ==
    ASSUME QueueOK, BytesOK
    PROVE  /\ Held \in Seq(Values) /\ Waiting \in Seq(Values) /\ Coming \in Seq(Values)
           /\ head = tail => Held = << >> /\ Coming = Waiting
  <1>1. Held \in Seq(Values) /\ Len(Held) = V!Dist(tail, head)
    BY HeldType DEF Held, QueueOK
  <1>2. Waiting \in Seq(Values)
    BY WaitingType
  <1>3. Coming \in Seq(Values)
    BY <1>1, <1>2, ConcatProperties DEF Coming
  <1>4. ASSUME head = tail PROVE Held = << >> /\ Coming = Waiting
    <2>1. V!Dist(tail, head) = 0
      BY <1>4, QueueIndices, V!DistFacts DEF QueueOK
    <2>2. Held = << >>
      <3>1. \A q \in Seq(Values) : q # << >> => Len(q) \in Nat \ {0}
        BY EmptySeq
      <3>2. ~(Len(Held) \in Nat \ {0})
        BY ONLY <1>1, <2>1
      <3> QED  BY ONLY <1>1, <3>1, <3>2
    <2> QED  BY <1>2, <2>2, ConcatEmptySeq DEF Coming
  <1> QED  BY <1>1, <1>2, <1>3, <1>4

\* A key or a reply comes behind them.
LEMMA ComingPush ==
    ASSUME QueueOK, BytesOK, NEW bytes \in Seq(Bytes), bytes # << >>, Push(bytes),
           UNCHANGED ringVars
    PROVE  Coming' = Coming \o bytes /\ bytes \in Seq(Values)
  <1>1. Held' = Held
    BY DEF ringVars, Held
  <1>2. bytes \in Seq(Values)
    BY SeqMonotonic DEF Values
  <1>3. Waiting' = Waiting \o bytes
    BY WaitingPush
  <1>4. (Held \o Waiting) \o bytes = Held \o (Waiting \o bytes)
    BY <1>2, ComingType, ConcatAssociative, SMTT(20)
  <1>5. Coming' = Held' \o Waiting'
    BY DEF Coming
  <1>6. Coming' = Coming \o bytes
    BY ONLY <1>1, <1>3, <1>4, <1>5 DEF Coming
  <1> QED  BY <1>2, <1>6

\* Where the queue is empty, reading the port takes the first of them.
LEMMA ComingRead ==
    ASSUME QueueOK, BytesOK, head = tail, output # << >>, ReadData, UNCHANGED ringVars
    PROVE  /\ Coming # << >> /\ Head(Coming) = Head(output) /\ Coming' = Tail(Coming)
  <1>1. Coming = Waiting /\ Held = << >>
    BY ComingType
  <1>2. Held' = Held
    BY DEF ringVars, Held
  <1>3. Waiting # << >> /\ Head(Waiting) = Head(output) /\ Waiting' = Tail(Waiting)
    BY WaitingRead
  <1>4. Tail(Waiting) \in Seq(Values)
    BY <1>3, ComingType, HeadTailProperties
  <1>5. << >> \o Tail(Waiting) = Tail(Waiting)
    BY <1>4, ConcatEmptySeq
  <1>6. Coming' = Held' \o Waiting'
    BY DEF Coming
  <1> QED  BY ONLY <1>1, <1>2, <1>3, <1>5, <1>6

\* The driver moves a byte from the controller to its queue; unless it is
\* lost, or falls on the one being read, the game reads what it would have.
LEMMA ComingMoves ==
    ASSUME QueueOK, BytesOK, output # << >>, ReadByte
    PROVE  /\ QueueOK'
           /\ ~spoiled' => /\ ~spoiled /\ Coming' = Coming
                           /\ pc = "load" => slots'[ReadSlot'] = slots[ReadSlot]
  <1> DEFINE byte == Head(output)
  <1>1. /\ Waiting # << >> /\ Head(Waiting) = byte /\ Waiting' = Tail(Waiting)
        /\ byte \in Values
    BY WaitingRead DEF ReadByte
  <1>2. queue_push(byte)
    BY DEF ReadByte
  <1>3. CASE Full
    <2>1. spoiled' /\ UNCHANGED ringVars
      BY <1>2, <1>3 DEF queue_push
    <2>2. QueueOK'
      BY <2>1 DEF QueueOK, ringVars
    <2> QED  BY <2>1, <2>2
  <1>4. CASE ~Full
    <2>1. /\ slots' = [slots EXCEPT ![Slot(head)] = byte] /\ head' = Next1(head) /\ tail' = tail
          /\ spoiled' = (spoiled \/ (pc = "load" /\ Slot(head) = ReadSlot))
      BY <1>2, <1>4 DEF queue_push
    <2> HIDE DEF byte
    <2>2. QueueOK' /\ Held' = Append(Held, byte)
      BY <1>1, <1>4, <2>1, HeldPush
    <2>3. Append(Held, Head(Waiting)) \o Tail(Waiting) = Held \o Waiting
      BY <1>1, ComingType, MoveHead
    <2>4. Coming' = Held' \o Waiting'
      BY DEF Coming
    <2>5. Coming' = Coming
      BY ONLY <1>1, <2>2, <2>3, <2>4 DEF Coming
    <2>6. ASSUME ~spoiled', pc = "load" PROVE slots'[ReadSlot'] = slots[ReadSlot]
      <3>1. ReadSlot' = ReadSlot
        BY <2>1 DEF ReadSlot
      <3>2. Slot(head) # ReadSlot
        BY <2>1, <2>6
      <3>3. ReadSlot \in Slots
        <4>1. (tail - 1) % IdxMod \in Nat
          <5>1. tail - 1 \in Int
            BY HeldType DEF QueueOK
          <5>2. \A x \in Int : x % IdxMod \in 0..(IdxMod - 1)
            BY DoomAssumption
          <5>3. 0..(IdxMod - 1) \subseteq Nat
            BY DoomAssumption
          <5> QED  BY ONLY <5>1, <5>2, <5>3
        <4> QED  BY <4>1, HeldType DEF QueueOK, ReadSlot
      <3>4. slots'[ReadSlot] = slots[ReadSlot]
        BY <2>1, <3>2, <3>3 DEF QueueOK
      <3> QED  BY <3>1, <3>4
    <2>7. ~spoiled' => ~spoiled
      BY <2>1
    <2> QED  BY <2>2, <2>5, <2>6, <2>7
  <1> QED  BY <1>3, <1>4

-----------------------------------------------------------------------------
(* What the driver has made of them.                                       *)

\* The flag the next byte is decoded with, once the one in hand has been.
Flag == IF pc = "load" THEN slots[ReadSlot] = "prefix" ELSE extended

\* The game uses the queue only when it plays.
GuestOK ==
    /\ QueueOK
    /\ extended \in BOOLEAN
    /\ isr => Playing
    /\ ~Playing => ~extended
    /\ ~Playing /\ pc # "drain" => head = tail

\* The bytes to come are decodable with the flag as it is; when the flush
\* began, half a code may have been waiting.
FlowOK ==
    /\ \E f \in BOOLEAN : Decodable(f, Coming) /\ (pc # "flush" => (f <=> Flag))
    /\ pc = "load" => ((slots[ReadSlot] = "extended") <=> extended)

StreamInv == ControllerInv /\ GuestOK /\ (~spoiled => FlowOK)

\* A step that leaves the bytes where they are.
LEMMA FlowKept ==
    ASSUME FlowOK, UNCHANGED <<ringVars, output, queue, extended>>,
           pc' = "load" <=> pc = "load", pc' # "flush" => pc # "flush"
    PROVE  FlowOK'
  <1>1. UNCHANGED <<slots, head, tail, output, queue, extended>>
    BY DEF ringVars
  <1>2. Coming' = Coming
    BY <1>1 DEF Coming, Held, Waiting
  <1>3. Flag' <=> Flag
    BY <1>1 DEF Flag, ReadSlot, Slot
  <1>4. ReadSlot' = ReadSlot
    BY <1>1 DEF ReadSlot
  <1>5. PICK f \in BOOLEAN : Decodable(f, Coming) /\ (pc # "flush" => (f <=> Flag))
    BY DEF FlowOK
  <1>6. Decodable(f, Coming') /\ (pc' # "flush" => (f <=> Flag'))
    BY <1>2, <1>3, <1>5
  <1>7. pc' = "load" => ((slots'[ReadSlot'] = "extended") <=> extended')
    BY <1>1, <1>4 DEF FlowOK
  <1> QED  BY <1>6, <1>7 DEF FlowOK

\* A step that puts whole codes or replies behind them.
LEMMA FlowPush ==
    ASSUME FlowOK, QueueOK, BytesOK, NEW bytes \in Seq(Bytes), bytes # << >>, Push(bytes),
           Decodable(FALSE, bytes), UNCHANGED <<ringVars, extended>>,
           pc' = "load" <=> pc = "load", pc' # "flush" => pc # "flush"
    PROVE  FlowOK'
  <1>1. UNCHANGED <<slots, head, tail, extended>>
    BY DEF ringVars
  <1>2. Coming' = Coming \o bytes /\ bytes \in Seq(Values) /\ Coming \in Seq(Values)
    BY ComingPush, ComingType
  <1>3. Flag' <=> Flag
    BY <1>1 DEF Flag, ReadSlot, Slot
  <1>4. ReadSlot' = ReadSlot
    BY <1>1 DEF ReadSlot
  <1>5. PICK f \in BOOLEAN : Decodable(f, Coming) /\ (pc # "flush" => (f <=> Flag))
    BY DEF FlowOK
  <1>6. Decodable(f, Coming \o bytes)
    BY <1>2, <1>5, DecodableConcat
  <1>7. Decodable(f, Coming') /\ (pc' # "flush" => (f <=> Flag'))
    BY <1>2, <1>3, <1>5, <1>6
  <1>8. pc' = "load" => ((slots'[ReadSlot'] = "extended") <=> extended')
    BY <1>1, <1>4 DEF FlowOK
  <1> QED  BY <1>7, <1>8 DEF FlowOK

\* Moving a byte from the controller to the queue.
LEMMA FlowMoves ==
    ASSUME FlowOK, QueueOK, BytesOK, output # << >>, ReadByte, ~spoiled',
           UNCHANGED <<pc, extended>>
    PROVE  FlowOK'
  <1>1. Coming' = Coming /\ (pc = "load" => slots'[ReadSlot'] = slots[ReadSlot])
    BY ComingMoves
  <1>2. Flag' <=> Flag
    BY <1>1 DEF Flag
  <1>3. PICK f \in BOOLEAN : Decodable(f, Coming) /\ (pc # "flush" => (f <=> Flag))
    BY DEF FlowOK
  <1>4. Decodable(f, Coming') /\ (pc' # "flush" => (f <=> Flag'))
    BY <1>1, <1>2, <1>3
  <1>5. pc' = "load" => ((slots'[ReadSlot'] = "extended") <=> extended')
    BY <1>1 DEF FlowOK
  <1> QED  BY <1>4, <1>5 DEF FlowOK

\* keyboard_read() takes the first byte, and with it what the flag is to be.
LEMMA FlowAdvance ==
    ASSUME FlowOK, GuestOK, BytesOK, ReadAdvance
    PROVE  QueueOK' /\ FlowOK'
  <1>1. /\ pc = "main" /\ pc' = "load" /\ head # tail /\ tail' = Next1(tail)
        /\ head' = head /\ slots' = slots /\ extended' = extended
        /\ UNCHANGED <<output, queue>>
    BY DEF ReadAdvance, deviceVars, vars
  <1>2. /\ QueueOK' /\ Held # << >>
        /\ Head(Held) = slots[Slot(tail)] /\ ReadSlot' = Slot(tail)
        /\ Held' = Tail(Held)
    BY <1>1, HeldPop DEF GuestOK
  <1>3. /\ Held \in Seq(Values) /\ Waiting \in Seq(Values) /\ Coming \in Seq(Values)
    BY ComingType DEF GuestOK
  <1>4. /\ Coming # << >> /\ Head(Coming) = Head(Held) /\ Tail(Coming) = Tail(Held) \o Waiting
    BY <1>2, <1>3, HeadOfConcat DEF Coming
  <1>5. Coming' = Tail(Coming)
    <2>1. Waiting' = Waiting
      BY <1>1 DEF Waiting
    <2>2. Coming' = Held' \o Waiting'
      BY DEF Coming
    <2> QED  BY ONLY <1>2, <1>4, <2>1, <2>2
  <1>6. PICK f \in BOOLEAN : Decodable(f, Coming) /\ (pc # "flush" => (f <=> Flag))
    BY DEF FlowOK
  <1>7. (f <=> Head(Coming) = "extended") /\ Decodable(Head(Coming) = "prefix", Tail(Coming))
    BY <1>3, <1>4, <1>6, DecodableTail
  <1>8. f <=> extended
    BY <1>1, <1>6 DEF Flag
  <1>9. slots'[ReadSlot'] = Head(Coming)
    BY <1>1, <1>2, <1>4
  <1>10. Decodable(Head(Coming) = "prefix", Coming') /\ (Flag' <=> Head(Coming) = "prefix")
    BY <1>1, <1>5, <1>7, <1>9 DEF Flag
  <1>11. (slots'[ReadSlot'] = "extended") <=> extended'
    BY <1>1, <1>7, <1>8, <1>9
  <1>12. (Head(Coming) = "prefix") \in BOOLEAN
    OBVIOUS
  <1> QED  BY <1>2, <1>10, <1>11, <1>12 DEF FlowOK

\* DG_GetKey() keeps of the byte whether it was a prefix.
LEMMA FlowLoad ==
    ASSUME FlowOK, ReadLoad
    PROVE  FlowOK'
  <1>1. /\ pc = "load" /\ pc' = "main" /\ (extended' <=> slots[ReadSlot] = "prefix")
        /\ UNCHANGED <<slots, head, tail, output, queue>>
    BY DEF ReadLoad, deviceVars, vars, ringVars
  <1>2. Coming' = Coming
    BY <1>1 DEF Coming, Held, Waiting
  <1>3. Flag' <=> Flag
    BY <1>1 DEF Flag
  <1>4. PICK f \in BOOLEAN : Decodable(f, Coming) /\ (pc # "flush" => (f <=> Flag))
    BY DEF FlowOK
  <1>5. Decodable(f, Coming') /\ (pc' # "flush" => (f <=> Flag')) /\ pc' # "load"
    BY <1>1, <1>2, <1>3, <1>4
  <1> QED  BY <1>5 DEF FlowOK

\* The flush throws the first byte away, and the byte taken for the
\* configuration is one.
LEMMA FlowDrop ==
    ASSUME FlowOK, GuestOK, BytesOK, InitFlush \/ InitConfig, ~spoiled'
    PROVE  FlowOK'
  <1>1. /\ output # << >> /\ ReadData /\ UNCHANGED <<ringVars, extended>>
        /\ pc \in {"flush", "config"} /\ (pc = "flush" => pc' = "flush")
        /\ (pc = "config" => output = <<"config">> /\ pc' = "write_config")
    BY DEF InitFlush, InitConfig
  <1>2. head = tail /\ ~extended /\ QueueOK
    BY <1>1 DEF GuestOK, Playing
  <1>3. /\ Coming # << >> /\ Head(Coming) = Head(output) /\ Coming' = Tail(Coming)
        /\ Coming \in Seq(Values)
    BY <1>1, <1>2, ComingRead, ComingType
  <1>4. PICK f \in BOOLEAN : Decodable(f, Coming)
    BY DEF FlowOK
  <1>5. Decodable(Head(Coming) = "prefix", Tail(Coming))
    BY <1>3, <1>4, DecodableTail
  <1>6. pc = "config" => ~(Head(Coming) = "prefix")
    <2>1. Head(<<"config">>) # "prefix"
      OBVIOUS
    <2> QED  BY ONLY <1>1, <1>3, <2>1
  <1>7. Decodable(Head(Coming) = "prefix", Coming')
    BY ONLY <1>3, <1>5
  <1>8. pc' # "flush" => ((Head(Coming) = "prefix") <=> Flag')
    BY <1>1, <1>2, <1>6 DEF Flag
  <1>9. pc' # "load" /\ (Head(Coming) = "prefix") \in BOOLEAN
    BY <1>1
  <1> QED  BY <1>7, <1>8, <1>9 DEF FlowOK

\* After the flush nothing is on its way.
LEMMA FlowFlushed ==
    ASSUME FlowOK, GuestOK, BytesOK, InitFlushed
    PROVE  FlowOK'
  <1>1. /\ pc = "flush" /\ pc' = "read_config" /\ output = << >>
        /\ UNCHANGED <<slots, head, tail, output, queue, extended>>
    BY DEF InitFlushed, deviceVars, vars, ringVars
  <1>2. Coming = << >> /\ ~extended
    BY <1>1, ComingType, WaitingType DEF GuestOK, Playing
  <1>3. Coming' = Coming
    BY <1>1 DEF Coming, Held, Waiting
  <1>4. Decodable(FALSE, Coming')
    BY <1>2, <1>3, DecodableBytes
  <1>5. ~Flag'
    BY <1>1, <1>2 DEF Flag
  <1> QED  BY <1>1, <1>4, <1>5 DEF FlowOK

-----------------------------------------------------------------------------
\* The driver starts with nothing queued and nothing decoded.
LEMMA StreamInvInit == DoomInit => StreamInv
  <1> SUFFICES ASSUME DoomInit PROVE StreamInv
    OBVIOUS
  <1>1. ControllerInv
    BY ControllerInvInit DEF DoomInit
  <1>2. BytesOK
    BY <1>1, ControllerInvParts
  <1>3. /\ pc = "flush" /\ ~isr /\ head = 0 /\ tail = 0 /\ ~extended /\ extended \in BOOLEAN
        /\ slots = [s \in Slots |-> "none"] /\ output = << >>
    BY DEF DoomInit, Init, Slots
  <1>4. QueueOK
    <2>1. 0 \in V!Indices
      BY DoomAssumption DEF V!Indices
    <2>2. V!Dist(0, 0) = 0
      BY <2>1, QueueIndices, V!DistFacts
    <2>3. slots \in [Slots -> Values]
      BY <1>3 DEF Values
    <2> QED  BY <1>3, <2>1, <2>2, <2>3, DoomAssumption DEF QueueOK
  <1>5. GuestOK
    BY <1>3, <1>4 DEF GuestOK, Playing
  <1>6. FlowOK
    <2>1. Coming = << >>
      BY <1>2, <1>3, <1>4, ComingType, WaitingType
    <2>2. Decodable(FALSE, Coming)
      BY <2>1, DecodableBytes
    <2> QED  BY <1>3, <2>2 DEF FlowOK
  <1> QED  BY <1>1, <1>5, <1>6 DEF StreamInv

\* Steps that leave the bytes and the flag alone.
Idle == \/ InitWriteConfig \/ InitWriteParam \/ InitRoute \/ InitDone
        \/ IsrEnter \/ IsrReturn \/ TimerInterrupt \/ Sleeps \/ ReadEmpty \/ SleepBegin
        \/ TimerExpires

LEMMA IdleStep ==
    ASSUME Idle, GuestOK
    PROVE  /\ UNCHANGED <<ringVars, output, queue, extended, spoiled>>
           /\ pc' = "load" <=> pc = "load"
           /\ pc' # "flush" => pc # "flush"
           /\ GuestOK'
  <1>1. /\ UNCHANGED <<slots, head, tail, output, queue, extended, spoiled>>
        /\ pc' = "load" <=> pc = "load"
        /\ pc' # "flush" => pc # "flush"
        /\ isr' => isr \/ (Playing /\ Playing')
        /\ ~Playing' => ~Playing /\ (pc' = "drain" \/ pc # "drain")
        /\ Playing => Playing'
    <2> USE DEF Playing
    <2>1. CASE InitWriteConfig
      BY <2>1 DEF InitWriteConfig, CommandWithParam, ringVars
    <2>2. CASE InitWriteParam
      BY <2>2 DEF InitWriteParam, ParamConfig, ringVars
    <2>3. CASE InitRoute
      BY <2>3 DEF InitRoute, TakeInterrupt, deviceVars, vars, ringVars
    <2>4. CASE InitDone
      BY <2>4 DEF InitDone, deviceVars, vars, ringVars
    <2>5. CASE IsrEnter
      BY <2>5 DEF IsrEnter, InterruptsOn, Woken, TakeInterrupt, ringVars
    <2>6. CASE IsrReturn \/ TimerExpires \/ ReadEmpty
      BY <2>6 DEF IsrReturn, TimerExpires, ReadEmpty, doomVars, deviceVars, vars, ringVars
    <2>7. CASE TimerInterrupt
      BY <2>7 DEF TimerInterrupt, InterruptsOn, Woken, deviceVars, vars, ringVars
    <2>8. CASE Sleeps \/ SleepBegin
      BY <2>8 DEF Sleeps, SleepBegin, SleepArm, SleepCli, SleepCheck, SleepHalt, deviceVars,
                  vars, ringVars
    <2> QED  BY <2>1, <2>2, <2>3, <2>4, <2>5, <2>6, <2>7, <2>8 DEF Idle
  <1>2. QueueOK'
    BY <1>1 DEF GuestOK, QueueOK
  <1>3. GuestOK'
    BY <1>1, <1>2 DEF GuestOK
  <1> QED  BY <1>1, <1>3 DEF ringVars

LEMMA StreamInvNext == StreamInv /\ [DoomNext]_doomVars => StreamInv'
  <1> SUFFICES ASSUME StreamInv, [DoomNext]_doomVars PROVE StreamInv'
    OBVIOUS
  <1>1. ControllerInv /\ ControllerInv'
    BY ControllerInvNext, DeviceStep DEF StreamInv
  <1>2. BytesOK
    BY <1>1, ControllerInvParts
  <1>3. GuestOK /\ QueueOK /\ (~spoiled => FlowOK)
    BY DEF StreamInv, GuestOK
  <1>4. SUFFICES /\ GuestOK'
                 /\ ~spoiled' => ~spoiled
                 /\ ~spoiled' /\ FlowOK => FlowOK'
    BY <1>1, <1>3 DEF StreamInv
  <1>5. CASE UNCHANGED doomVars
    <2>1. UNCHANGED <<slots, head, tail, output, queue, extended, spoiled, pc, isr>>
      BY <1>5 DEF doomVars, deviceVars, vars, ringVars
    <2>2. GuestOK'
      BY <1>3, <2>1 DEF GuestOK, QueueOK, Playing
    <2>3. FlowOK => FlowOK'
      BY <2>1, FlowKept DEF ringVars
    <2> QED  BY <2>1, <2>2, <2>3
  <1>6. CASE Idle
    <2>1. FlowOK => FlowOK'
      BY <1>3, <1>6, IdleStep, FlowKept
    <2> QED  BY <1>3, <1>6, <2>1, IdleStep
  <1>7. CASE KeyArrives
    <2>1. /\ UNCHANGED <<ringVars, pc, isr, extended, spoiled>>
          /\ \E bytes \in {<<"key">>, <<"prefix", "extended">>} : Push(bytes)
      BY <1>7 DEF KeyArrives, KeyEvent
    <2>2. PICK bytes \in {<<"key">>, <<"prefix", "extended">>} : Push(bytes)
      BY <2>1
    <2>3. bytes \in Seq(Bytes) /\ bytes # << >> /\ Decodable(FALSE, bytes)
      <3>1. CASE bytes = <<"key">>
        <4>1. "key" \in Bytes \ {"prefix"}
          BY DEF Bytes, KeyBytes
        <4> QED  BY ONLY <3>1, <4>1, PushedBytes, DecodableBytes
      <3>2. CASE bytes = <<"prefix", "extended">>
        BY ONLY <3>2, PushedBytes, DecodableBytes
      <3> QED  BY <2>2, <3>1, <3>2
    <2>4. GuestOK'
      BY <1>3, <2>1 DEF GuestOK, QueueOK, Playing, ringVars
    <2>5. FlowOK => FlowOK'
      BY <1>2, <1>3, <2>1, <2>2, <2>3, FlowPush
    <2> QED  BY <2>1, <2>4, <2>5
  <1>8. CASE InitReadConfig
    <2>1. /\ UNCHANGED <<ringVars, isr, extended, spoiled>>
          /\ pc = "read_config" /\ pc' = "config" /\ Push(<<"config">>)
      BY <1>8 DEF InitReadConfig, CommandReply
    <2>2. <<"config">> \in Seq(Bytes) /\ <<"config">> # << >> /\ Decodable(FALSE, <<"config">>)
      <3>1. "config" \in Bytes \ {"prefix"}
        BY DEF Bytes, ReplyBytes
      <3> QED  BY ONLY <3>1, PushedBytes, DecodableBytes
    <2>3. GuestOK'
      BY <1>3, <2>1 DEF GuestOK, QueueOK, Playing, ringVars
    <2>4. FlowOK => FlowOK'
      BY <1>2, <1>3, <2>1, <2>2, FlowPush
    <2> QED  BY <2>1, <2>3, <2>4
  <1>9. CASE InitFlush \/ InitConfig
    <2>1. /\ UNCHANGED <<ringVars, isr, extended>> /\ ~Playing /\ ~Playing' /\ pc # "drain"
          /\ ~spoiled' => ~spoiled
      <3>1. CASE InitFlush
        BY <3>1 DEF InitFlush, Playing
      <3>2. CASE InitConfig
        <4>1. UNCHANGED <<ringVars, isr, extended>> /\ pc = "config" /\ pc' = "write_config"
          BY <3>2 DEF InitConfig
        <4>2. spoiled' = (spoiled \/ output # <<"config">>)
          BY <3>2 DEF InitConfig
        <4>3. ~spoiled' => ~spoiled
          BY ONLY <4>2
        <4> QED  BY <4>1, <4>3 DEF Playing
      <3> QED  BY <1>9, <3>1, <3>2
    <2>2. GuestOK'
      BY <1>3, <2>1 DEF GuestOK, QueueOK, ringVars
    <2> QED  BY <1>2, <1>3, <1>9, <2>1, <2>2, FlowDrop
  <1>10. CASE InitFlushed
    <2>1. /\ UNCHANGED <<slots, head, tail, isr, extended, spoiled>>
          /\ ~Playing /\ ~Playing' /\ pc # "drain"
      BY <1>10 DEF InitFlushed, Playing, ringVars
    <2>2. GuestOK'
      BY <1>3, <2>1 DEF GuestOK, QueueOK
    <2> QED  BY <1>2, <1>3, <1>10, <2>1, <2>2, FlowFlushed
  <1>11. CASE InitDrain \/ IsrRead
    <2>1. /\ output # << >> /\ ReadByte /\ UNCHANGED <<pc, isr, extended>>
          /\ pc = "drain" \/ isr
      BY <1>11 DEF InitDrain, IsrRead
    <2>2. QueueOK' /\ (~spoiled' => ~spoiled)
      BY <1>2, <1>3, <2>1, ComingMoves
    <2>3. GuestOK'
      BY <1>3, <2>1, <2>2 DEF GuestOK, Playing
    <2> QED  BY <1>2, <1>3, <2>1, <2>2, <2>3, FlowMoves
  <1>12. CASE ReadAdvance
    <2>1. /\ UNCHANGED <<isr, extended, spoiled>> /\ Playing'
      BY <1>12 DEF ReadAdvance, Playing
    <2>2. QueueOK'
      <3>1. /\ head # tail /\ tail' = Next1(tail) /\ head' = head /\ slots' = slots
        BY <1>12 DEF ReadAdvance
      <3> QED  BY <1>3, <3>1, HeldPop
    <2>3. GuestOK'
      BY <1>3, <2>1, <2>2 DEF GuestOK
    <2> QED  BY <1>2, <1>3, <1>12, <2>1, <2>3, FlowAdvance
  <1>13. CASE ReadLoad
    <2>1. /\ UNCHANGED <<slots, head, tail, isr, spoiled>> /\ Playing'
          /\ extended' = (slots[ReadSlot] = "prefix")
      BY <1>13 DEF ReadLoad, Playing, ringVars
    <2>2. extended' \in BOOLEAN
      BY <2>1
    <2>3. GuestOK'
      BY <1>3, <2>1, <2>2 DEF GuestOK, QueueOK
    <2> QED  BY <1>13, <2>1, <2>3, FlowLoad
  <1> QED  BY <1>5, <1>6, <1>7, <1>8, <1>9, <1>10, <1>11, <1>12, <1>13
     DEF DoomNext, Initialise, Handlers, Game, Idle

\* A code is decoded as extended exactly when it came after its prefix, as
\* long as no byte was lost on the way (queue_push, keyboard_read, DG_GetKey).
THEOREM DecodesPrefixCorrect == FairSpec => DecodesPrefix
  <1>1. ASSUME StreamInv, pc = "load", ~spoiled
        PROVE  (slots[ReadSlot] = "extended") = extended
    <2>1. extended \in BOOLEAN /\ ((slots[ReadSlot] = "extended") <=> extended)
      BY <1>1 DEF StreamInv, GuestOK, FlowOK
    <2> QED  BY <2>1
  <1>2. StreamInv /\ [DoomNext]_doomVars =>
            [pc = "load" /\ pc' = "main" /\ ~spoiled =>
                 (slots[ReadSlot] = "extended") = extended]_doomVars
    BY <1>1
  <1> QED  BY <1>2, StreamInvInit, StreamInvNext, PTL DEF FairSpec, DecodesPrefix

-----------------------------------------------------------------------------
\* A timer that has not been served belongs to the sleep the game is in, and
\* has not fired for it.
TimerInv ==
    /\ timer # "off" => ~timer_fired /\ pc \in {"cli", "check", "sti", "hlt"}
    /\ pc = "arm" => ~timer_fired

\* The safety half of SleepEnds: a sleep ends only once its timer's interrupt
\* was taken, whatever keys came and whichever hlt they ended, so no timer
\* of one sleep is left to end the next (sleep_ms, interrupt_dispatch).
THEOREM SleepLastsForTimer ==
    FairSpec => [][pc = "check" /\ pc' = "main" => timer = "off"]_doomVars
  <1>1. DoomInit => TimerInv
    BY DEF DoomInit, TimerInv
  <1>2. TimerInv /\ [DoomNext]_doomVars => TimerInv'
    <2> SUFFICES ASSUME TimerInv, [DoomNext]_doomVars PROVE TimerInv'
      OBVIOUS
    <2> USE DEF TimerInv
    <2>1. CASE UNCHANGED doomVars
      BY <2>1 DEF doomVars, sleepVars
    <2>2. CASE KeyArrives \/ InitDrain \/ IsrRead \/ IsrReturn \/ ReadEmpty
      BY <2>2 DEF KeyArrives, InitDrain, IsrRead, IsrReturn, ReadEmpty, doomVars, sleepVars
    <2>3. CASE InitFlush \/ InitFlushed \/ InitReadConfig \/ InitConfig \/ InitWriteConfig
               \/ InitWriteParam \/ InitRoute \/ InitDone
      BY <2>3 DEF InitFlush, InitFlushed, InitReadConfig, InitConfig, InitWriteConfig,
                  InitWriteParam, InitRoute, InitDone, sleepVars
    <2>4. CASE IsrEnter
      BY <2>4 DEF IsrEnter, Woken, sleepVars
    <2>5. CASE TimerInterrupt
      BY <2>5 DEF TimerInterrupt, Woken
    <2>6. CASE ReadAdvance \/ ReadLoad
      BY <2>6 DEF ReadAdvance, ReadLoad, sleepVars
    <2>7. CASE SleepBegin \/ SleepArm \/ TimerExpires
      BY <2>7 DEF SleepBegin, SleepArm, TimerExpires
    <2>8. CASE SleepCli \/ SleepCheck \/ SleepHalt
      BY <2>8 DEF SleepCli, SleepCheck, SleepHalt, sleepVars
    <2> QED  BY <2>1, <2>2, <2>3, <2>4, <2>5, <2>6, <2>7, <2>8
       DEF DoomNext, Initialise, Handlers, Game, Sleeps
  <1>3. TimerInv /\ [DoomNext]_doomVars =>
            [pc = "check" /\ pc' = "main" => timer = "off"]_doomVars
    <2> SUFFICES ASSUME TimerInv, DoomNext, pc = "check", pc' = "main" PROVE timer = "off"
      OBVIOUS
    <2>1. SleepCheck
      BY DEF DoomNext, KeyArrives, Initialise, InitFlush, InitFlushed, InitReadConfig, InitConfig,
             InitWriteConfig, InitWriteParam, InitRoute, InitDrain, InitDone, Handlers, IsrEnter,
             IsrRead, IsrReturn, TimerInterrupt, Woken, Game, ReadEmpty, ReadAdvance, ReadLoad,
             SleepBegin, Sleeps, SleepArm, SleepCli, SleepHalt, TimerExpires, doomVars
    <2> QED  BY <2>1 DEF SleepCheck, TimerInv
  <1> QED  BY <1>1, <1>2, <1>3, PTL DEF FairSpec
=============================================================================
