--------------------------- MODULE VirtioNetProofs ---------------------------
(***************************************************************************)
(* The network device takes only steps of the transport, and with a driver *)
(* that sets it up once it neither loses nor strands a frame: for every    *)
(* ring size, index width, limit on the pending frames and number of       *)
(* frames.                                                                 *)
(***************************************************************************)
EXTENDS VirtioNet, SequenceTheorems, TLAPS

\* The transport again, with what is proved about it.
MP == INSTANCE VirtioMmioProofs

\* The constants are ones the transport's theorems are about.
LEMMA Transport == MP!RingAssumption /\ MP!MaxProbesAssumption
  BY NetAssumption DEF MP!RingAssumption, MP!MaxProbesAssumption

\* Both instances of the transport are the same.
LEMMA SameTransport ==
    /\ MM!Init <=> MP!Init
    /\ MM!Next <=> MP!Next
    /\ MM!mmioVars = MP!mmioVars /\ MP!mmioVars = mmioVars
    /\ MM!Queues = MP!Queues /\ MM!Heads = MP!Heads /\ MM!RX = MP!RX /\ MM!TX = MP!TX
    /\ MM!NoChain = MP!NoChain
    /\ \A q : (MM!HasAvail(q) <=> MP!HasAvail(q)) /\ MM!UsedHead(q) = MP!UsedHead(q)
    /\ \A r, a, b : MM!Between(r, a, b) = MP!Between(r, a, b)
    /\ \A i : /\ MM!NotifyPush(i) <=> MP!NotifyPush(i)
              /\ MM!NotifyPop(i, TRUE) <=> MP!NotifyPop(i, TRUE)
              /\ MM!NotifyDone(i, TRUE) <=> MP!NotifyDone(i, TRUE)
              /\ MM!NotifyDone(i, FALSE) <=> MP!NotifyDone(i, FALSE)
              /\ MM!DriverOffer(i) <=> MP!DriverOffer(i)
              /\ MM!DriverNotify(i) <=> MP!DriverNotify(i)
              /\ MM!IsrCollect(i) <=> MP!IsrCollect(i)
    /\ MM!StartPoll <=> MP!StartPoll
    /\ MM!DriverSetup <=> MP!DriverSetup
    /\ (MM!IsrEnter <=> MP!IsrEnter) /\ (MM!IsrLeave <=> MP!IsrLeave)
    /\ (MM!IsrStatus <=> MP!IsrStatus) /\ (MM!IsrAck <=> MP!IsrAck)
  <1> USE
    DEF MM!Heads, MP!Heads, MM!Indices, MP!Indices, MM!ZeroRing, MP!ZeroRing, MM!IncIdx,
        MP!IncIdx, MM!Dist, MP!Dist, MM!Between, MP!Between, MM!QueueType, MP!QueueType,
        MM!NewQueue, MP!NewQueue, MM!AllocRings, MP!AllocRings, MM!HasAvail, MP!HasAvail,
        MM!NextHead, MP!NextHead, MM!PopAvail, MP!PopAvail, MM!PushElem, MP!PushElem, MM!PushIdx,
        MP!PushIdx, MM!PushUsed, MP!PushUsed, MM!StageChain, MP!StageChain, MM!HasStaged,
        MP!HasStaged, MM!Publish, MP!Publish, MM!HasUsed, MP!HasUsed, MM!UsedHead, MP!UsedHead,
        MM!Collect, MP!Collect, MM!IrqType, MP!IrqType, MM!IrqIdle, MP!IrqIdle, MM!UpdateIrq,
        MP!UpdateIrq, MM!TakeIrq, MP!TakeIrq, MM!RX, MP!RX, MM!TX, MP!TX, MM!Queues, MP!Queues,
        MM!NoChain, MP!NoChain, MM!WantedAddr, MP!WantedAddr, MM!DriverType, MP!DriverType,
        MM!Init, MP!Init, MM!WriteStatus, MP!WriteStatus, MM!WriteQueueSel, MP!WriteQueueSel,
        MM!WriteQueueNum, MP!WriteQueueNum, MM!WriteQueueReady, MP!WriteQueueReady,
        MM!WriteAddrLow, MP!WriteAddrLow, MM!WriteAddrHigh, MP!WriteAddrHigh,
        MM!WriteQueueNotify, MP!WriteQueueNotify, MM!WriteInterruptAck, MP!WriteInterruptAck,
        MM!StartPoll, MP!StartPoll, MM!Serving, MP!Serving, MM!NotifyDone, MP!NotifyDone,
        MM!NotifyPop, MP!NotifyPop, MM!NotifyPush, MP!NotifyPush, MM!GuestRuns, MP!GuestRuns,
        MM!DriverReset, MP!DriverReset, MM!DriverSel, MP!DriverSel, MM!DriverUnready,
        MP!DriverUnready, MM!DriverAlloc, MP!DriverAlloc, MM!DriverNum, MP!DriverNum,
        MM!DriverAddrLow, MP!DriverAddrLow, MM!DriverAddrHigh, MP!DriverAddrHigh, MM!DriverReady,
        MP!DriverReady, MM!DriverOk, MP!DriverOk, MM!DriverOffer, MP!DriverOffer,
        MM!DriverNotify, MP!DriverNotify, MM!IsrEnter, MP!IsrEnter, MM!IsrStatus, MP!IsrStatus,
        MM!IsrAck, MP!IsrAck, MM!IsrCollect, MP!IsrCollect, MM!IsrLeave, MP!IsrLeave,
        MM!DriverSetup, MP!DriverSetup, MM!Isr, MP!Isr, MM!Service, MP!Service, MM!Guest,
        MP!Guest, MM!Next, MP!Next, MM!TypeOK, MP!TypeOK
  <1>1. MM!Init <=> MP!Init
    BY Zenon
  <1>2. MM!Next <=> MP!Next
    BY Zenon
  <1>3. MM!mmioVars = MP!mmioVars /\ MP!mmioVars = mmioVars
    BY DEF MM!mmioVars, MP!mmioVars, mmioVars
  <1>4. /\ MM!Queues = MP!Queues /\ MM!Heads = MP!Heads /\ MM!RX = MP!RX /\ MM!TX = MP!TX
        /\ MM!NoChain = MP!NoChain
    BY Zenon
  <1>5. /\ \A q : (MM!HasAvail(q) <=> MP!HasAvail(q)) /\ MM!UsedHead(q) = MP!UsedHead(q)
        /\ \A r, a, b : MM!Between(r, a, b) = MP!Between(r, a, b)
    BY Zenon
  <1>6. \A i : /\ MM!NotifyPush(i) <=> MP!NotifyPush(i)
               /\ MM!NotifyPop(i, TRUE) <=> MP!NotifyPop(i, TRUE)
               /\ MM!NotifyDone(i, TRUE) <=> MP!NotifyDone(i, TRUE)
               /\ MM!NotifyDone(i, FALSE) <=> MP!NotifyDone(i, FALSE)
               /\ MM!DriverOffer(i) <=> MP!DriverOffer(i)
               /\ MM!DriverNotify(i) <=> MP!DriverNotify(i)
               /\ MM!IsrCollect(i) <=> MP!IsrCollect(i)
    BY Zenon
  <1>7. /\ MM!StartPoll <=> MP!StartPoll
        /\ MM!DriverSetup <=> MP!DriverSetup
        /\ (MM!IsrEnter <=> MP!IsrEnter) /\ (MM!IsrLeave <=> MP!IsrLeave)
        /\ (MM!IsrStatus <=> MP!IsrStatus) /\ (MM!IsrAck <=> MP!IsrAck)
    BY Zenon
  <1> QED  BY <1>1, <1>2, <1>3, <1>4, <1>5, <1>6, <1>7, Zenon


-----------------------------------------------------------------------------
(* The parts.                                                              *)

\* The vcpu serves queues only on its way through the devices, where it is
\* not in the guest; a thread that failed there leaves the queues as they are.
ControlInv ==
    /\ pc \in [VC!Vcpus -> VC!VcpuPcs]
    /\ main_pc = "spawn" /\ main_i \in VC!Vcpus => pc[Vcpu] = "unspawned"
    /\ work # << >> => pc[Vcpu] \in {"poll", "handle", "unregister"} \cup VC!LeftPcs

\* There is one vcpu.
LEMMA OneVcpu == VC!Vcpus = {Vcpu}
  BY DEF VC!Vcpus, Vcpu

\* Initially nothing runs.
LEMMA ControlInit == Init => ControlInv
  BY OneVcpu DEF Init, VC!Init, MM!Init, ControlInv, VC!VcpuPcs, VC!StartPcs

\* Every step is one of the transport, or none: the guest runs only when no
\* queue is being served.
LEMMA TransportPart == ControlInv /\ [Next]_vars => [MM!Next]_MM!mmioVars
  <1> SUFFICES ASSUME ControlInv, [Next]_vars PROVE [MM!Next]_MM!mmioVars
    OBVIOUS
  <1> USE DEF mmioVars, MM!mmioVars
  <1>1. CASE UNCHANGED vars
    BY <1>1 DEF vars
  <1>2. CASE RxFrame \/ RxDrop \/ RxKick \/ RxKickSend
    BY <1>2 DEF RxFrame, RxDrop, RxKick, RxKickSend
  <1>3. ASSUME NEW i \in MM!Queues, ServeDone(i) \/ ServePop(i) \/ ServePush(i)
        PROVE  MM!Next
    <2>1. can_process(i) \in BOOLEAN
      BY DEF can_process
    <2>2. MM!Service(i)
      BY <1>3, <2>1, Zenon
      DEF ServeDone, ServePop, ServePush, MM!Service, MM!NotifyDone, MM!NotifyPop
    <2> QED  BY <2>2 DEF MM!Next
  <1>4. CASE TakePending
    BY <1>4 DEF TakePending, MM!Next
  <1>5. CASE LeaveDevice \/ FailDevice \/ VcpuOnly \/ Interrupted \/ Main \/ GuestEnds
    BY <1>5 DEF LeaveDevice, FailDevice, VcpuOnly, Interrupted, Main, GuestEnds
  <1>6. ASSUME pc[Vcpu] = "guest" PROVE MM!GuestRuns
    BY <1>6 DEF ControlInv, VC!LeftPcs, MM!GuestRuns
  <1>7. CASE GuestRegister
    BY <1>6, <1>7 DEF GuestRegister, VC!ExitToDevice, VC!Goto, MM!Next, MM!Guest,
      MM!DriverSetup, MM!Isr
  <1>8. CASE GuestMemory
    <2>1. UsedQueues \subseteq MM!Queues /\ TX \in MM!Queues
      BY NetAssumption DEF MM!Queues, TX, MM!RX, MM!TX
    <2>2. MM!Guest
      BY <1>8, <2>1, Zenon DEF GuestMemory, MM!Guest, MM!DriverSetup, MM!Isr
    <2> QED  BY <1>6, <1>8, <2>2 DEF GuestMemory, InGuest, MM!Next
  <1>9. CASE GuestReceive
    BY <1>6, <1>9 DEF GuestReceive, InGuest, RX, MM!Next, MM!Guest, MM!Isr, MM!Queues
  <1>10. ASSUME NEW i \in MM!Queues, GuestNotify(i) PROVE MM!Next
    BY <1>6, <1>10 DEF GuestNotify, VC!ExitToDevice, VC!Goto, MM!Next, MM!Guest
  <1> QED
    BY <1>1, <1>2, <1>3, <1>4, <1>5, <1>7, <1>8, <1>9, <1>10 DEF Next, VcpuThread, Guest

\* Every step keeps ControlInv.
LEMMA ControlNext == ControlInv /\ [Next]_vars => ControlInv'
  <1> SUFFICES ASSUME ControlInv, [Next]_vars PROVE ControlInv'
    OBVIOUS
  <1> USE OneVcpu
      DEF ControlInv, VC!Goto, VC!VcpuPcs, VC!StartPcs, VC!LoopPcs, VC!LeftPcs, vmVars, mmioVars,
          VC!vcpuVars, VC!mainVars
  <1>1. CASE UNCHANGED vars
    BY <1>1 DEF vars
  <1>2. CASE RxFrame \/ RxDrop \/ RxKick \/ RxKickSend
    BY <1>2 DEF RxFrame, RxDrop, RxKick, RxKickSend, VC!Kick, VC!KickSend
  <1>3. ASSUME NEW i \in MM!Queues, ServeDone(i) \/ ServePop(i) \/ ServePush(i)
        PROVE  ControlInv'
    BY <1>3 DEF ServeDone, ServePop, ServePush, InDevice
  <1>4. CASE TakePending
    BY <1>4 DEF TakePending, VC!TakeDevicesPending, MM!StartPoll
  <1>5. CASE LeaveDevice \/ FailDevice
    BY <1>5 DEF LeaveDevice, FailDevice, VC!PollMmioDevices, VC!HandleExit, VC!DeviceError
  <1>6. CASE VcpuOnly
    BY <1>6 DEF VcpuOnly, VC!SetRunPtr, VC!RegisterVcpuThread, VC!CheckStop, VC!EnterKvmRun,
      VC!ClearImmediateExit, VC!UnregisterVcpuThread, VC!ClearRunPtr, VC!LeaverStop,
      VC!LeaverStopSend, VC!DropVcpu, VC!EndThread
  <1>7. CASE Interrupted
    BY <1>7 DEF Interrupted, VC!Interrupt, VC!InterruptGuest, VC!InterruptHost
  <1>8. CASE Main
    BY <1>8 DEF Main, VC!MainStep, VC!SpawnVcpu, VC!SpawnFails, VC!SpawnFailsSend, VC!AllSpawned,
      VC!JoinVcpu, VC!Return, Vcpu
  <1>9. CASE GuestRegister \/ GuestEnds \/ \E i \in MM!Queues : GuestNotify(i)
    BY <1>9 DEF GuestRegister, GuestEnds, GuestNotify, VC!ExitToDevice, VC!ExitAndLeave
  <1>10. CASE GuestMemory \/ GuestReceive
    <2>1. work' = work
      BY <1>10 DEF GuestMemory, GuestReceive, MM!DriverAlloc, MM!DriverOffer, MM!IsrEnter,
        MM!IsrCollect, MM!IsrLeave
    <2> QED  BY <1>10, <2>1 DEF GuestMemory, GuestReceive
  <1> QED
    BY <1>1, <1>2, <1>3, <1>4, <1>5, <1>6, <1>7, <1>8, <1>9, <1>10 DEF Next, VcpuThread, Guest

\* The composition takes only steps that the transport allows: the guest's
\* driver runs only when queue_notify() does not (run_loop, handle, poll).
THEOREM ImplementsVirtioMmioCorrect == FairSpec => ImplementsVirtioMmio
  <1>1. Init => MM!Init
    BY DEF Init
  <1> QED
    BY <1>1, ControlInit, ControlNext, TransportPart, PTL
    DEF FairSpec, Spec, ImplementsVirtioMmio, MM!Spec

-----------------------------------------------------------------------------
(* Frames, with a driver that sets the device up once.                     *)

\* The frames in the buffers of the chains in s.
Frames(b, s) == [k \in DOMAIN s |-> b[s[k]]]

\* The chains of the RX queue that the device has returned.
Returned == MP!ReturnedIn(queue[RX])

NetType ==
    /\ rx_pending \in Seq(Nat) /\ accepted \in Seq(Nat) /\ received \in Seq(Nat)
    /\ buf \in [MP!Heads -> Nat]
    /\ arrived \in Nat

\* A chain is taken from the RX queue only for a frame that is there.
RxInv == chain # MP!NoChain /\ Head(work) = RX => rx_pending # << >>

\* What holds of the parts.
PartsInv == ControlInv /\ MP!MmioInv /\ MP!OnceInv

NetInv == PartsInv /\ NetType /\ RxInv /\ FramesConserved /\ NoStuckFrame

\* The frames of some chains are a sequence as long as the chains are.
LEMMA FramesSeq ==
    ASSUME NEW b \in [MP!Heads -> Nat], NEW s \in Seq(MP!Heads)
    PROVE  Frames(b, s) \in Seq(Nat) /\ Len(Frames(b, s)) = Len(s)
  <1>1. Len(s) \in Nat /\ DOMAIN s = 1..Len(s) /\ \A k \in 1..Len(s) : s[k] \in MP!Heads
    BY LenProperties, ElementOfSeq
  <1> QED  BY <1>1 DEF Frames

\* A frame is put into the buffer of a chain that is then returned.
LEMMA FramesAppend ==
    ASSUME NEW b \in [MP!Heads -> Nat], NEW s \in Seq(MP!Heads), NEW h \in MP!Heads, NEW f \in Nat,
           \A k \in 1..Len(s) : s[k] # h
    PROVE  Frames([b EXCEPT ![h] = f], Append(s, h)) = Append(Frames(b, s), f)
  <1> DEFINE c == [b EXCEPT ![h] = f]
             t == Append(s, h)
  <1>1. /\ Len(s) \in Nat /\ DOMAIN s = 1..Len(s)
        /\ \A k \in 1..Len(s) : s[k] \in MP!Heads
    BY LenProperties, ElementOfSeq
  <1>2. /\ t \in Seq(MP!Heads) /\ Len(t) = Len(s) + 1 /\ DOMAIN t = 1..Len(t)
        /\ t[Len(s) + 1] = h /\ \A k \in 1..Len(s) : t[k] = s[k]
    BY <1>1, AppendProperties
  <1>3. c \in [MP!Heads -> Nat] /\ c[h] = f /\ \A k \in 1..Len(s) : c[s[k]] = b[s[k]]
    BY <1>1
  <1>4. Frames(b, s) \in Seq(Nat) /\ Len(Frames(b, s)) = Len(s)
    BY FramesSeq
  <1> HIDE DEF c, t
  <1>5. Frames(c, t) \in Seq(Nat) /\ Len(Frames(c, t)) = Len(s) + 1
    BY <1>2, <1>3, FramesSeq
  <1> DEFINE x == Frames(c, t)
             y == Append(Frames(b, s), f)
  <1>6. y \in Seq(Nat) /\ Len(y) = Len(s) + 1
    BY <1>4, AppendProperties
  <1>7. ASSUME NEW k \in 1..(Len(s) + 1) PROVE x[k] = y[k]
    <2>1. CASE k = Len(s) + 1
      <3>1. x[k] = f
        BY <1>2, <1>3, <2>1 DEF Frames
      <3> QED  BY <1>4, <2>1, <3>1, AppendProperties
    <2>2. CASE k # Len(s) + 1
      <3>1. k \in 1..Len(s)
        BY <1>1, <2>2
      <3>2. x[k] = b[s[k]]
        BY <1>2, <1>3, <3>1 DEF Frames
      <3>3. y[k] = Frames(b, s)[k]
        BY <1>4, <3>1, AppendProperties
      <3> QED  BY <1>1, <3>1, <3>2, <3>3 DEF Frames
    <2> QED  BY <2>1, <2>2
  <1> HIDE DEF x, y
  <1>8. x = y
    BY <1>5, <1>6, <1>7, SeqEqual DEF x
  <1> QED  BY <1>8 DEF x, y, c, t

\* The frame of the first chain is the first frame.
LEMMA FramesTail ==
    ASSUME NEW b \in [MP!Heads -> Nat], NEW s \in Seq(MP!Heads), s # << >>
    PROVE  /\ Frames(b, s) # << >> /\ Head(Frames(b, s)) = b[Head(s)]
           /\ Tail(Frames(b, s)) = Frames(b, Tail(s))
  <1> DEFINE x == Frames(b, s)
             t == Tail(s)
             y == Frames(b, t)
  <1>1. /\ Len(s) \in Nat /\ Len(s) > 0 /\ DOMAIN s = 1..Len(s)
        /\ Head(s) = s[1] /\ t \in Seq(MP!Heads) /\ Len(t) = Len(s) - 1
        /\ DOMAIN t = 1..Len(t) /\ \A k \in 1..Len(t) : t[k] = s[k + 1]
    BY LenProperties, EmptySeq, HeadTailProperties
  <1>2. x \in Seq(Nat) /\ Len(x) = Len(s)
    BY FramesSeq
  <1> HIDE DEF t
  <1>3. y \in Seq(Nat) /\ Len(y) = Len(s) - 1
    BY <1>1, FramesSeq
  <1>4. x[1] = b[s[1]] /\ \A k \in 1..(Len(s) - 1) : x[k + 1] = b[s[k + 1]]
    BY <1>1 DEF Frames
  <1>5. \A k \in 1..(Len(s) - 1) : y[k] = b[s[k + 1]]
    BY <1>1 DEF Frames
  <1> HIDE DEF x, y
  <1>6. /\ x # << >> /\ Head(x) = x[1] /\ Tail(x) \in Seq(Nat) /\ Len(Tail(x)) = Len(s) - 1
        /\ \A k \in 1..(Len(s) - 1) : Tail(x)[k] = x[k + 1]
    BY <1>1, <1>2, LenProperties, EmptySeq, HeadTailProperties
  <1>7. Tail(x) = y
    <2>1. \A k \in 1..(Len(s) - 1) : Tail(x)[k] = y[k]
      BY <1>4, <1>5, <1>6
    <2> HIDE DEF x
    <2> DEFINE z == Tail(x)
    <2>2. z \in Seq(Nat) /\ Len(z) = Len(y) /\ \A k \in 1..Len(z) : z[k] = y[k]
      BY <1>3, <1>6, <2>1
    <2> HIDE DEF z
    <2>3. z = y
      BY <1>3, <2>2, SeqEqual
    <2> QED  BY <2>3 DEF z
  <1> QED  BY <1>1, <1>4, <1>6, <1>7 DEF x, y, t

\* Every step keeps what holds of the parts.
LEMMA PartsNext ==
    ASSUME MaxProbes <= 1
    PROVE  PartsInv /\ [Next]_vars => PartsInv'
  <1> SUFFICES ASSUME PartsInv, [Next]_vars PROVE PartsInv'
    OBVIOUS
  <1>1. ControlInv'
    BY ControlNext DEF PartsInv
  <1>2. [MP!Next]_MP!mmioVars
    BY TransportPart, SameTransport DEF PartsInv, MM!mmioVars, MP!mmioVars
  <1>3. MP!MmioInv'
    BY <1>2, Transport, MP!TypeNext, MP!LineNext, MP!SetupNext DEF PartsInv, MP!MmioInv
  <1>4. MP!OnceInv'
    BY <1>2, Transport, MP!OnceNext DEF PartsInv
  <1> QED  BY <1>1, <1>3, <1>4 DEF PartsInv

\* The transport is what it is for the driver.
LEMMA PartsFacts ==
    ASSUME PartsInv
    PROVE  /\ Returned \in Seq(MP!Heads)
           /\ InUsedRing = Frames(buf, Returned)
           /\ chain \in MP!Heads \cup {MP!NoChain}
           /\ drv \in MP!DriverType
           /\ work = << >> => chain = MP!NoChain
           /\ pc[Vcpu] = "guest" => work = << >>
           /\ queue[RX].ready = 1 => queue[RX].num = Num
  <1>1. RX \in MP!Queues
    BY DEF RX, MM!RX, MP!RX, MP!Queues
  <1>2. Returned \in Seq(MP!Heads)
    <2>1. CASE MP!Allocated(RX)
      BY <1>1, <2>1, Transport, MP!FlightBounds DEF PartsInv, MP!OnceInv, Returned
    <2>2. CASE ~MP!Allocated(RX)
      <3>1. MP!Unused(queue[RX])
        BY <1>1, <2>2 DEF PartsInv, MP!OnceInv, MP!Allocated
      <3> QED  BY <3>1, Transport, MP!UnusedFacts, EmptySeq DEF Returned
    <2> QED  BY <2>1, <2>2
  <1>3. InUsedRing = Frames(buf, Returned)
    BY SameTransport DEF InUsedRing, Frames, Returned, MP!ReturnedIn
  <1>4. chain \in MP!Heads \cup {MP!NoChain} /\ drv \in MP!DriverType
    BY DEF PartsInv, MP!MmioInv, MP!TypeOK
  <1>5. /\ work = << >> => chain = MP!NoChain
        /\ queue[RX].ready = 1 => queue[RX].num = Num
    BY <1>1 DEF PartsInv, MP!OnceInv
  <1>6. pc[Vcpu] = "guest" => work = << >>
    BY DEF PartsInv, ControlInv, VC!LeftPcs
  <1> QED  BY <1>2, <1>3, <1>4, <1>5, <1>6

\* The device returns an RX chain.
LEMMA RxPush ==
    ASSUME PartsInv, ServePush(RX)
    PROVE  /\ chain \in MP!Heads /\ chain # MP!NoChain /\ Head(work) = RX
           /\ MP!ReturnedIn(queue'[RX]) = Append(Returned, chain)
           /\ \A k \in 1..Len(Returned) : Returned[k] # chain
  <1>1. RX \in MP!Queues /\ MP!NotifyPush(RX)
    BY SameTransport DEF ServePush, RX, MM!RX, MP!RX, MP!Queues
  <1>2. chain # MP!NoChain /\ Head(work) = RX
    BY <1>1 DEF MP!NotifyPush
  <1> QED  BY <1>1, <1>2, Transport, MP!OncePush DEF PartsInv, Returned

\* The driver collects an RX chain.
LEMMA RxCollect ==
    ASSUME PartsInv, GuestReceive
    PROVE  /\ Returned # << >>
           /\ MP!ReturnedIn(queue'[RX]) = Tail(Returned)
           /\ received' = Append(received, buf[Head(Returned)])
  <1>1. RX \in MP!Queues /\ MP!GuestRuns /\ MP!IsrCollect(RX)
    BY SameTransport, PartsFacts DEF GuestReceive, InGuest, RX, MM!RX, MP!RX, MP!Queues, MP!GuestRuns
  <1>2. received' = Append(received, buf[MP!UsedHead(queue[RX])])
    BY SameTransport DEF GuestReceive
  <1> QED  BY <1>1, <1>2, Transport, MP!OnceCollect DEF PartsInv, Returned

\* The steps of the device and the driver that return or collect no RX chain.
DeviceQuiet ==
    \/ TakePending \/ GuestRegister \/ GuestMemory
    \/ \E i \in MM!Queues : ServeDone(i) \/ ServePop(i) \/ GuestNotify(i)
    \/ ServePush(TX)

\* They leave the returned chains, and the buffers, alone.
LEMMA RxQuiet ==
    ASSUME MaxProbes <= 1, PartsInv, DeviceQuiet
    PROVE  MP!ReturnedIn(queue'[RX]) = Returned
  <1> USE Transport, SameTransport DEF PartsInv, Returned
  <1>0. /\ RX \in MP!Queues /\ TX \in MP!Queues /\ RX # TX
        /\ UsedQueues \subseteq MP!Queues
    BY NetAssumption DEF RX, TX, MM!RX, MM!TX, MP!RX, MP!TX, MP!Queues
  <1>1. pc[Vcpu] = "guest" => MP!GuestRuns
    BY PartsFacts DEF MP!GuestRuns
  <1>2. CASE TakePending
    BY <1>2 DEF TakePending, mmioVars, MM!StartPoll
  <1>3. CASE GuestRegister
    <2>1. MP!GuestRuns /\ (MP!DriverSetup \/ MP!IsrStatus \/ MP!IsrAck)
      BY <1>1, <1>3 DEF GuestRegister, VC!ExitToDevice, VC!Goto, MM!DriverSetup
    <2> QED  BY <1>0, <2>1, MP!OnceSetup, MP!OnceQuiet
  <1>4. CASE GuestMemory
    <2>1. /\ MP!GuestRuns
          /\ \/ MP!DriverSetup \/ MP!IsrEnter \/ MP!IsrLeave \/ MP!IsrCollect(TX)
             \/ \E i \in MP!Queues : MP!DriverOffer(i)
      BY <1>0, <1>1, <1>4 DEF GuestMemory, InGuest, MM!DriverSetup
    <2> QED  BY <1>0, <2>1, MP!OnceSetup, MP!OnceQuiet, MP!OnceOffer, MP!OnceCollect
  <1>5. ASSUME NEW i \in MM!Queues, ServeDone(i) \/ GuestNotify(i)
        PROVE  queue' = queue
    BY <1>5 DEF ServeDone, GuestNotify, MM!NotifyDone, MM!DriverNotify, MM!WriteQueueNotify
  <1>6. ASSUME NEW i \in MM!Queues, ServePop(i) PROVE MP!ReturnedIn(queue'[RX]) = Returned
    <2>1. MP!NotifyPop(i, TRUE)
      <3>1. can_process(i) = TRUE
        BY <1>6 DEF ServePop, MM!NotifyPop, can_process
      <3> QED  BY <1>6, <3>1, Zenon DEF ServePop
    <2> QED  BY <1>0, <2>1, MP!OncePop
  <1>7. CASE ServePush(TX)
    BY <1>0, <1>7, MP!OncePush DEF ServePush
  <1> QED  BY <1>2, <1>3, <1>4, <1>5, <1>6, <1>7 DEF DeviceQuiet

\* The steps that do not touch the transport.
HostOnly ==
    LeaveDevice \/ FailDevice \/ VcpuOnly \/ Interrupted \/ Main \/ GuestEnds \/ RxKick \/ RxKickSend

\* All steps, by what they do to the frames.
LEMMA FrameCases ==
    ASSUME [Next]_vars
    PROVE  UNCHANGED vars \/ HostOnly \/ DeviceQuiet \/ ServePush(RX) \/ GuestReceive
           \/ RxFrame \/ RxDrop
  <1>1. MM!Queues = {RX, TX}
    BY DEF MM!Queues, RX, TX
  <1> QED  BY <1>1 DEF Next, VcpuThread, Guest, HostOnly, DeviceQuiet

\* Sequences of frames can be put together in any order.
LEMMA Assoc == \A x, y, z \in Seq(Nat) : (x \o y) \o z = x \o (y \o z)
  <1>1. ASSUME NEW x \in Seq(Nat), NEW y \in Seq(Nat), NEW z \in Seq(Nat)
        PROVE  (x \o y) \o z = x \o (y \o z)
    BY ConcatAssociative, SMTT(20)
  <1> QED  BY <1>1

\* The same frames in front of equal ends.
LEMMA SameFront ==
    ASSUME NEW a \in Seq(Nat), NEW d \in Seq(Nat), NEW u \in Seq(Nat), NEW t, d \o u = t
    PROVE  (a \o d) \o u = a \o t /\ a \o d \in Seq(Nat)
  <1>1. (a \o d) \o u = a \o (d \o u)
    BY Assoc, Zenon
  <1>2. a \o d \in Seq(Nat)
    BY ConcatProperties
  <1> QED  BY <1>1, <1>2, Zenon

\* Sequences regrouped.
LEMMA Regroup ==
    ASSUME NEW a \in Seq(Nat), NEW b \in Seq(Nat), NEW c \in Seq(Nat)
    PROVE  /\ \A f \in Nat : (a \o b) \o Append(c, f) = Append((a \o b) \o c, f)
           /\ c # << >> => (a \o Append(b, Head(c))) \o Tail(c) = (a \o b) \o c
           /\ b # << >> => (Append(a, Head(b)) \o Tail(b)) \o c = (a \o b) \o c
  <1>1. /\ a \o b \in Seq(Nat) /\ (a \o b) \o c \in Seq(Nat)
        /\ \A f \in Nat : <<f>> \in Seq(Nat)
    BY ConcatProperties
  <1>2. ASSUME NEW f \in Nat PROVE (a \o b) \o Append(c, f) = Append((a \o b) \o c, f)
    BY <1>1, AppendIsConcat, ConcatAssociative, SMTT(20)
  <1>3. ASSUME NEW s \in Seq(Nat), NEW t \in Seq(Nat), t # << >>
        PROVE  /\ Head(t) \in Nat /\ Tail(t) \in Seq(Nat) /\ t = <<Head(t)>> \o Tail(t)
               /\ Append(s, Head(t)) \in Seq(Nat) /\ Append(s, Head(t)) \o Tail(t) = s \o t
    <2>1. Head(t) \in Nat /\ Tail(t) \in Seq(Nat) /\ t = <<Head(t)>> \o Tail(t)
      BY <1>3, HeadTailProperties
    <2>2. Append(s, Head(t)) = s \o <<Head(t)>> /\ <<Head(t)>> \in Seq(Nat)
      BY <1>1, <2>1, AppendIsConcat
    <2>3. (s \o <<Head(t)>>) \o Tail(t) = s \o t /\ s \o <<Head(t)>> \in Seq(Nat)
      BY <2>1, <2>2, SameFront, SMTT(20)
    <2> QED  BY <2>1, <2>2, <2>3
  <1>4. ASSUME c # << >> PROVE (a \o Append(b, Head(c))) \o Tail(c) = (a \o b) \o c
    <2>1. /\ Append(b, Head(c)) \in Seq(Nat) /\ Tail(c) \in Seq(Nat)
          /\ Append(b, Head(c)) \o Tail(c) = b \o c
      BY <1>3, <1>4
    <2>2. PICK d \in Seq(Nat) : d = Append(b, Head(c))
      BY <2>1
    <2>3. PICK u \in Seq(Nat) : u = Tail(c)
      BY <2>1
    <2>4. d \o u = b \o c
      BY <2>1, <2>2, <2>3
    <2>5. (a \o d) \o u = a \o (d \o u)
      BY Assoc, ZenonT(60)
    <2>6. (a \o b) \o c = a \o (b \o c)
      BY Assoc, ZenonT(60)
    <2>7. (a \o d) \o u = (a \o b) \o c
      BY <2>4, <2>5, <2>6, Zenon
    <2> QED  BY <2>2, <2>3, <2>7
  <1>5. ASSUME b # << >> PROVE (Append(a, Head(b)) \o Tail(b)) \o c = (a \o b) \o c
    BY <1>3, <1>5
  <1> QED  BY <1>2, <1>4, <1>5

\* Every step keeps the frames.
LEMMA FramesNext ==
    ASSUME MaxProbes <= 1, NetInv, [Next]_vars
    PROVE  NetType' /\ RxInv' /\ FramesConserved'
  <1>0. PartsInv /\ PartsInv' /\ NetType /\ RxInv /\ FramesConserved
    BY PartsNext DEF NetInv
  <1>1. /\ rx_pending \in Seq(Nat) /\ accepted \in Seq(Nat) /\ received \in Seq(Nat)
        /\ buf \in [MP!Heads -> Nat] /\ arrived \in Nat
    BY <1>0 DEF NetType
  <1> DEFINE i == Frames(buf, Returned)
             j == Frames(buf', Returned')
  <1>2. /\ InUsedRing = i /\ Returned \in Seq(MP!Heads)
        /\ (received \o i) \o rx_pending = accepted /\ Len(rx_pending) <= RX_PENDING_MAX
    BY <1>0, PartsFacts DEF FramesConserved
  <1>3. InUsedRing' = j
    BY <1>0, SameTransport DEF InUsedRing, Frames, Returned, MP!ReturnedIn
  <1>4. i \in Seq(Nat)
    BY <1>1, <1>2, FramesSeq
  <1>5. Len(rx_pending) \in Nat /\ RX_PENDING_MAX \in Nat /\ Returned' = MP!ReturnedIn(queue'[RX])
    BY <1>1, LenProperties, NetAssumption DEF Returned, RX, MM!RX
  <1> HIDE DEF i, j
  <1>6. CASE UNCHANGED <<netVars, queue>> /\ (UNCHANGED <<work, chain>> \/ chain' = MP!NoChain)
    <2>1. UNCHANGED <<rx_pending, buf, arrived, accepted, received>> /\ j = i
      BY <1>5, <1>6 DEF netVars, i, j, Returned
    <2> QED  BY <1>0, <1>1, <1>2, <1>3, <1>6, <2>1 DEF NetType, RxInv, FramesConserved, RX, MM!RX
  <1>7. CASE RxFrame
    <2>1. /\ arrived' = arrived + 1 /\ rx_pending' = Append(rx_pending, arrived')
          /\ accepted' = Append(accepted, arrived') /\ Len(rx_pending) < RX_PENDING_MAX
          /\ UNCHANGED <<buf, received, queue, chain, work>>
      BY <1>7 DEF RxFrame, mmioVars
    <2>2. j = i
      BY <1>5, <2>1 DEF i, j, Returned
    <2>3. NetType' /\ arrived' \in Nat
      BY <1>1, <2>1, AppendProperties DEF NetType
    <2>4. rx_pending' # << >> /\ Len(rx_pending') = Len(rx_pending) + 1
      BY <1>1, <2>1, <2>3, AppendProperties
    <2>5. (received \o i) \o Append(rx_pending, arrived')
            = Append((received \o i) \o rx_pending, arrived')
      BY <1>1, <1>4, <2>3, Regroup, SMTT(20)
    <2>6. (received' \o j) \o rx_pending' = accepted'
      BY <1>2, <2>1, <2>2, <2>5, Zenon
    <2>7. RxInv' /\ Len(rx_pending') <= RX_PENDING_MAX
      BY <1>5, <2>1, <2>4 DEF RxInv
    <2> QED  BY <1>3, <2>3, <2>6, <2>7, Zenon DEF FramesConserved
  <1>8. CASE ServePush(RX)
    <2>1. /\ chain \in MP!Heads /\ rx_pending # << >>
          /\ Returned' = Append(Returned, chain)
          /\ \A k \in 1..Len(Returned) : Returned[k] # chain
      BY <1>0, <1>5, <1>8, RxPush DEF RxInv
    <2>2. /\ buf' = [buf EXCEPT ![chain] = Head(rx_pending)] /\ rx_pending' = Tail(rx_pending)
          /\ UNCHANGED <<arrived, accepted, received>> /\ chain' = MP!NoChain
      BY <1>8, SameTransport DEF ServePush, RxProcess, MM!NotifyPush
    <2>3. Head(rx_pending) \in Nat /\ Tail(rx_pending) \in Seq(Nat)
          /\ Len(Tail(rx_pending)) = Len(rx_pending) - 1
      BY <1>1, <2>1, HeadTailProperties
    <2>4. j = Append(i, Head(rx_pending))
      BY <1>1, <1>2, <2>1, <2>2, <2>3, FramesAppend DEF i, j
    <2>5. NetType'
      BY <1>1, <2>1, <2>2, <2>3 DEF NetType
    <2>6. (received \o Append(i, Head(rx_pending))) \o Tail(rx_pending)
            = (received \o i) \o rx_pending
      BY <1>1, <1>4, <2>1, Regroup, ZenonT(40)
    <2>7. (received' \o j) \o rx_pending' = accepted'
      BY <1>2, <2>2, <2>4, <2>6, Zenon
    <2>8. RxInv'
      BY <2>2 DEF RxInv, MP!NoChain
    <2>9. Len(rx_pending') <= RX_PENDING_MAX
      BY <1>2, <1>5, <2>2, <2>3
    <2> QED  BY <1>3, <2>5, <2>7, <2>8, <2>9, Zenon DEF FramesConserved
  <1>9. CASE GuestReceive
    <2>1. /\ Returned # << >> /\ Returned' = Tail(Returned)
          /\ received' = Append(received, buf[Head(Returned)])
      BY <1>0, <1>5, <1>9, RxCollect
    <2>2. UNCHANGED <<rx_pending, buf, arrived, accepted, work, chain>>
      BY <1>9 DEF GuestReceive, MM!IsrCollect
    <2>3. i # << >> /\ Head(i) = buf[Head(Returned)] /\ Tail(i) = j
      BY <1>1, <1>2, <2>1, <2>2, FramesTail DEF i, j
    <2>4. Head(Returned) \in MP!Heads
      BY <1>2, <2>1, HeadTailProperties
    <2>5. NetType'
      BY <1>1, <2>1, <2>2, <2>4, AppendProperties DEF NetType
    <2>6. (Append(received, Head(i)) \o Tail(i)) \o rx_pending = (received \o i) \o rx_pending
      BY <1>1, <1>4, <2>3, Regroup
    <2>7. (received' \o j) \o rx_pending' = accepted'
      BY <1>2, <2>1, <2>2, <2>3, <2>6, Zenon
    <2>8. RxInv' /\ Len(rx_pending') <= RX_PENDING_MAX
      BY <1>0, <1>2, <2>2 DEF RxInv, RX, MM!RX
    <2> QED  BY <1>3, <2>5, <2>7, <2>8, Zenon DEF FramesConserved
  <1>10. CASE DeviceQuiet
    <2>1. UNCHANGED <<rx_pending, buf, arrived, accepted, received>>
      BY <1>10 DEF DeviceQuiet, TakePending, GuestRegister, GuestMemory, ServeDone, ServePop,
        GuestNotify, ServePush, netVars, RX, TX, MM!RX, MM!TX
    <2>2. j = i
      BY <1>0, <1>5, <1>10, <2>1, RxQuiet DEF i, j
    <2>3. NetType' /\ FramesConserved'
      BY <1>0, <1>1, <1>2, <1>3, <2>1, <2>2 DEF NetType, FramesConserved
    <2>4. RxInv'
      <3> USE DEF RxInv
      <3>1. RX = 0 /\ TX = 1 /\ (work = << >> => chain = MP!NoChain)
            /\ (pc[Vcpu] = "guest" => work = << >>)
        BY <1>0, PartsFacts DEF RX, TX, MM!RX, MM!TX
      <3>2. CASE TakePending
        BY <1>0, <2>1, <3>1, <3>2 DEF TakePending, MM!StartPoll, mmioVars
      <3>3. CASE GuestRegister \/ GuestMemory \/ \E k \in MM!Queues : GuestNotify(k)
        <4>1. pc[Vcpu] = "guest" /\ chain' = chain
          BY <3>3 DEF GuestRegister, GuestMemory, GuestNotify, InGuest, VC!ExitToDevice, VC!Goto,
            MM!DriverReset, MM!DriverSel, MM!DriverUnready, MM!DriverNum, MM!DriverAddrLow,
            MM!DriverAddrHigh, MM!DriverReady, MM!DriverOk, MM!IsrStatus, MM!IsrAck,
            MM!DriverAlloc, MM!DriverOffer, MM!IsrEnter, MM!IsrCollect, MM!IsrLeave,
            MM!DriverNotify, MM!WriteStatus, MM!WriteQueueSel, MM!WriteQueueNum,
            MM!WriteQueueReady, MM!WriteAddrLow, MM!WriteAddrHigh, MM!WriteQueueNotify,
            MM!WriteInterruptAck
        <4>2. chain' = MP!NoChain
          BY <3>1, <4>1
        <4> QED  BY <4>2 DEF MP!NoChain
      <3>4. ASSUME NEW k \in MM!Queues, ServeDone(k) \/ ServePush(TX) PROVE RxInv'
        <4>1. chain' = MP!NoChain
          BY <3>4, SameTransport DEF ServeDone, ServePush, MM!NotifyDone, MM!NotifyPush, MM!Serving
        <4> QED  BY <4>1 DEF MP!NoChain
      <3>5. ASSUME NEW k \in MM!Queues, ServePop(k) PROVE RxInv'
        <4>1. Head(work) = k /\ work' = work /\ (k = RX => rx_pending # << >>)
          BY <3>5 DEF ServePop, MM!NotifyPop, MM!Serving, can_process
        <4> QED  BY <2>1, <4>1
      <3>6. RX \in MM!Queues
        BY DEF RX, MM!Queues
      <3> QED  BY <1>10, <3>2, <3>3, <3>4, <3>5, <3>6 DEF DeviceQuiet
    <2> QED  BY <2>3, <2>4
  <1>11. CASE RxDrop
    <2>1. /\ arrived' = arrived + 1
          /\ UNCHANGED <<rx_pending, buf, accepted, received, queue, work, chain>>
      BY <1>11 DEF RxDrop, mmioVars
    <2>2. j = i
      BY <1>5, <2>1 DEF i, j, Returned
    <2> QED  BY <1>0, <1>1, <1>2, <1>3, <2>1, <2>2 DEF NetType, RxInv, FramesConserved, RX, MM!RX
  <1>12. CASE RxKick
    <2>1. UNCHANGED <<rx_pending, buf, arrived, accepted, received, queue, work, chain>>
      BY <1>12 DEF RxKick, mmioVars
    <2>2. j = i
      BY <1>5, <2>1 DEF i, j, Returned
    <2> QED  BY <1>0, <1>1, <1>2, <1>3, <2>1, <2>2 DEF NetType, RxInv, FramesConserved, RX, MM!RX
  <1>13. CASE HostOnly \/ UNCHANGED vars
    <2>1. CASE ~RxKick
      BY <1>6, <1>13, <2>1 DEF HostOnly, LeaveDevice, FailDevice, VcpuOnly, Interrupted, Main,
        GuestEnds, RxKickSend, mmioVars, vars
    <2> QED  BY <1>12, <2>1
  <1> QED
    BY <1>7, <1>8, <1>9, <1>10, <1>11, <1>13, FrameCases

\* What the device or the driver does to the RX queue, as NoStuckFrame sees it.
LEMMA ReadyKept ==
    ASSUME PartsInv,
           \/ ServePush(TX) \/ ServePop(TX) \/ GuestReceive
           \/ MM!IsrCollect(TX) \/ MM!DriverOffer(TX)
    PROVE  /\ queue'[RX].ready = queue[RX].ready
           /\ MM!HasAvail(queue'[RX]) <=> MM!HasAvail(queue[RX])
  <1>1. queue \in [{0, 1} -> MP!QueueType] /\ RX = 0 /\ TX = 1
    BY DEF PartsInv, MP!MmioInv, MP!TypeOK, MP!Queues, MP!RX, MP!TX, RX, TX, MM!RX, MM!TX
  <1>2. CASE ~GuestReceive
    <2>1. \E q : queue' = [queue EXCEPT ![TX] = q]
      <3>1. CASE ServePush(TX) \/ ServePop(TX)
        BY <3>1 DEF ServePush, ServePop, MM!NotifyPush, MM!NotifyPop
      <3>2. CASE MM!IsrCollect(TX) \/ MM!DriverOffer(TX)
        BY <3>2 DEF MM!IsrCollect, MM!DriverOffer
      <3> QED  BY <1>2, <3>1, <3>2
    <2>2. queue'[0] = queue[0]
      BY <1>1, <2>1
    <2> QED  BY <1>1, <2>2
  <1>3. CASE GuestReceive
    <2>1. queue' = [queue EXCEPT ![0] = MM!Collect(queue[0])]
      BY <1>1, <1>3 DEF GuestReceive, MM!IsrCollect
    <2>2. /\ queue'[0].ready = queue[0].ready /\ queue'[0].avail_idx = queue[0].avail_idx
          /\ queue'[0].last_avail_idx = queue[0].last_avail_idx
      BY <1>1, <2>1 DEF MM!Collect, MP!QueueType
    <2> QED  BY <1>1, <2>2 DEF MM!HasAvail
  <1> QED  BY <1>2, <1>3

\* Every step keeps a frame and a buffer from being stuck.
LEMMA StuckNext ==
    ASSUME MaxProbes <= 1, NetInv, [Next]_vars
    PROVE  NoStuckFrame'
  <1>0. PartsInv /\ NetType /\ NoStuckFrame /\ ControlInv
    BY DEF NetInv, PartsInv
  <1>1. /\ work = << >> => chain = MP!NoChain
        /\ pc[Vcpu] = "guest" => work = << >>
        /\ drv \in MP!DriverType /\ RX = 0 /\ TX = 1
        /\ queue[RX].ready = 1 => queue[RX].num = Num
    BY <1>0, PartsFacts DEF RX, TX, MM!RX, MM!TX
  <1>2. pc \in [{Vcpu} -> VC!VcpuPcs]
    BY <1>0, OneVcpu DEF ControlInv
  \* A step that at most brings the end nearer.
  <1>3. ASSUME UNCHANGED <<rx_pending, work>>, RxReady' => RxReady, Ending => Ending',
               rx_pc = "kick" => rx_pc' = "kick" \/ devices_pending',
               devices_pending => devices_pending', RX \in drv.notify => RX \in drv'.notify
        PROVE  NoStuckFrame'
    BY <1>0, <1>1, <1>3 DEF NoStuckFrame, RX, MM!RX
  <1>4. CASE UNCHANGED vars
    BY <1>3, <1>4 DEF vars, vmVars, mmioVars, netVars, RxReady, Ending, MM!HasAvail, RX, MM!RX
  <1>5. CASE RxFrame
    <2>1. /\ rx_pc' = IF Len(rx_pending') = 1 THEN "kick" ELSE "read"
          /\ rx_pending' = Append(rx_pending, arrived') /\ arrived' = arrived + 1
          /\ UNCHANGED <<queue, work, drv, devices_pending, should_stop, pc>> /\ rx_pc = "read"
      BY <1>5 DEF RxFrame, vmVars, mmioVars
    <2>2. CASE rx_pending = << >>
      <3>1. Len(rx_pending') = 1
        BY <2>1, <2>2
      <3> QED  BY <2>1, <3>1 DEF NoStuckFrame
    <2>3. CASE rx_pending # << >>
      BY <1>0, <2>1, <2>3 DEF NoStuckFrame, RxReady, Ending, MM!HasAvail, RX, MM!RX
    <2> QED  BY <2>2, <2>3
  <1>6. CASE RxDrop \/ RxKick \/ RxKickSend
    <2>1. /\ UNCHANGED <<rx_pending, queue, work, drv, should_stop, pc>>
          /\ rx_pc = "kick" => rx_pc' = "kick" \/ devices_pending'
          /\ devices_pending => devices_pending'
      BY <1>6 DEF RxDrop, RxKick, RxKickSend, vmVars, mmioVars, netVars, VC!Kick, VC!KickSend,
        VC!vcpuVars
    <2> QED  BY <1>3, <2>1 DEF RxReady, Ending, MM!HasAvail, RX, MM!RX
  <1>7. ASSUME NEW i \in MM!Queues, ServeDone(i) PROVE NoStuckFrame'
    <2>1. /\ UNCHANGED <<queue, drv, rx_pending, rx_pc, devices_pending, should_stop, pc>>
          /\ Head(work) = i /\ work # << >>
          /\ queue[i].ready = 0 \/ queue[i].num = 0 \/ ~can_process(i) \/ ~MM!HasAvail(queue[i])
      BY <1>7 DEF ServeDone, MM!NotifyDone, MM!Serving, vmVars, netVars
    <2>2. CASE i = RX
      BY <1>1, <2>1, <2>2, NetAssumption DEF NoStuckFrame, RxReady, can_process, RX, MM!RX
    <2>3. CASE i # RX
      BY <1>0, <1>1, <2>1, <2>3 DEF NoStuckFrame, RxReady, Ending, MM!HasAvail, RX, MM!RX
    <2> QED  BY <2>2, <2>3
  <1>8. ASSUME NEW i \in MM!Queues, ServePop(i) \/ ServePush(i) PROVE NoStuckFrame'
    <2>1. /\ UNCHANGED <<work, drv, rx_pc, devices_pending, should_stop, pc>>
          /\ Head(work) = i /\ work # << >>
      BY <1>8 DEF ServePop, ServePush, MM!NotifyPop, MM!NotifyPush, MM!Serving, vmVars, netVars
    <2>2. CASE i = RX
      BY <2>1, <2>2 DEF NoStuckFrame, RX, MM!RX
    <2>3. CASE i = TX
      <3>1. rx_pending' = rx_pending
        BY <1>1, <1>8, <2>3 DEF ServePop, ServePush, netVars
      <3>2. RxReady' => RxReady
        BY <1>0, <1>8, <2>3, ReadyKept DEF RxReady, RX, MM!RX
      <3> QED  BY <1>3, <2>1, <3>1, <3>2 DEF Ending
    <2> QED  BY <2>2, <2>3 DEF MM!Queues, RX, TX
  <1>9. CASE TakePending
    <2>1. CASE devices_pending
      BY <1>9, <2>1 DEF TakePending, MM!StartPoll, NoStuckFrame, RX, MM!RX
    <2>2. CASE ~devices_pending
      BY <1>0, <1>2, <1>9, <2>2 DEF TakePending, VC!TakeDevicesPending, mmioVars, netVars,
        NoStuckFrame, RxReady, Ending, MM!HasAvail, VC!LeftPcs, RX, MM!RX
    <2> QED  BY <2>1, <2>2
  <1>10. CASE LeaveDevice \/ FailDevice \/ VcpuOnly \/ Interrupted \/ Main \/ GuestEnds
    <2>1. UNCHANGED <<mmioVars, netVars, devices_pending>>
      BY <1>10 DEF LeaveDevice, FailDevice, VcpuOnly, Interrupted, Main, GuestEnds,
        VC!PollMmioDevices, VC!HandleExit, VC!DeviceError, VC!SetRunPtr, VC!RegisterVcpuThread,
        VC!CheckStop, VC!EnterKvmRun, VC!ClearImmediateExit, VC!UnregisterVcpuThread,
        VC!ClearRunPtr, VC!LeaverStop, VC!LeaverStopSend, VC!DropVcpu, VC!EndThread, VC!Interrupt,
        VC!InterruptGuest, VC!InterruptHost, VC!MainStep, VC!SpawnVcpu, VC!SpawnFails,
        VC!SpawnFailsSend, VC!AllSpawned, VC!JoinVcpu, VC!Return, VC!ExitAndLeave
    <2>2. Ending => Ending'
      <3> USE <1>2 DEF Ending, VC!LeftPcs, VC!Goto, VC!vcpuVars
      <3>1. CASE LeaveDevice \/ FailDevice \/ GuestEnds
        BY <3>1 DEF LeaveDevice, FailDevice, GuestEnds, VC!PollMmioDevices, VC!HandleExit,
          VC!DeviceError, VC!ExitAndLeave
      <3>2. CASE VcpuOnly
        BY <3>2 DEF VcpuOnly, VC!SetRunPtr, VC!RegisterVcpuThread, VC!CheckStop, VC!EnterKvmRun,
          VC!ClearImmediateExit, VC!UnregisterVcpuThread, VC!ClearRunPtr, VC!LeaverStop,
          VC!LeaverStopSend, VC!DropVcpu, VC!EndThread, VC!StoreStop
      <3>3. CASE Interrupted
        BY <3>3 DEF Interrupted, VC!Interrupt, VC!InterruptGuest, VC!InterruptHost
      <3>4. CASE Main
        <4>1. VC!SpawnVcpu => pc[Vcpu] = "unspawned" /\ UNCHANGED should_stop
          BY <1>0 DEF ControlInv, VC!SpawnVcpu
        <4> QED  BY <3>4, <4>1 DEF Main, VC!MainStep, VC!SpawnFails, VC!SpawnFailsSend,
          VC!AllSpawned, VC!JoinVcpu, VC!Return, VC!StoreStop
      <3> QED  BY <1>10, <3>1, <3>2, <3>3, <3>4
    <2> QED  BY <1>3, <2>1, <2>2 DEF mmioVars, netVars, RxReady, MM!HasAvail, RX, MM!RX
  <1>11. CASE GuestRegister \/ GuestMemory
    <2>1. /\ UNCHANGED <<rx_pending, rx_pc, devices_pending, should_stop>> /\ MP!GuestRuns
          /\ pc[Vcpu] = "guest"
      BY <1>1, <1>11 DEF GuestRegister, GuestMemory, InGuest, vmVars, netVars, VC!ExitToDevice,
        VC!Goto, MP!GuestRuns
    <2>2. ~Ending \/ should_stop
      BY <2>1 DEF Ending, VC!LeftPcs
    <2>3. CASE MM!DriverSetup
      <3>1. ~MP!HasAvail(queue'[RX])
        BY <1>0, <1>1, <2>1, <2>3, SameTransport, Transport, MP!OnceSetup
        DEF PartsInv, MP!Queues, MP!RX, MP!TX
      <3> QED  BY <3>1 DEF NoStuckFrame, RxReady, MM!HasAvail, MP!HasAvail, RX, MM!RX
    <2>4. CASE MM!DriverOffer(RX)
      BY <1>1, <2>4 DEF MM!DriverOffer, NoStuckFrame, MP!DriverType, RX, MM!RX
    <2>5. CASE MM!IsrEnter \/ MM!IsrLeave \/ MM!IsrStatus \/ MM!IsrAck
      <3>1. UNCHANGED <<queue, work>> /\ drv'.notify = drv.notify
        BY <1>1, <2>5 DEF MM!IsrEnter, MM!IsrLeave, MM!IsrStatus, MM!IsrAck, MM!WriteInterruptAck,
          MP!DriverType
      <3> QED  BY <1>3, <2>1, <2>2, <3>1 DEF Ending, RxReady, MM!HasAvail, RX, MM!RX
    <2>6. CASE MM!DriverOffer(TX) \/ MM!IsrCollect(TX)
      <3>1. work' = work /\ (RX \in drv.notify => RX \in drv'.notify)
        BY <1>1, <2>6 DEF MM!DriverOffer, MM!IsrCollect, MP!DriverType
      <3>2. RxReady' => RxReady
        BY <1>0, <2>6, ReadyKept DEF RxReady, RX, MM!RX
      <3> QED  BY <1>3, <2>1, <2>2, <3>1, <3>2 DEF Ending
    <2>7. UsedQueues \subseteq {RX, TX}
      BY <1>1, NetAssumption
    <2> QED
      BY <1>11, <2>3, <2>4, <2>5, <2>6, <2>7 DEF GuestRegister, GuestMemory, MM!DriverSetup
  <1>12. CASE GuestReceive
    <2>1. UNCHANGED <<rx_pending, rx_pc, devices_pending, should_stop, pc, work, drv>>
      BY <1>12 DEF GuestReceive, MM!IsrCollect, vmVars
    <2>2. RxReady' => RxReady
      BY <1>0, <1>12, ReadyKept DEF RxReady, RX, MM!RX
    <2> QED  BY <1>3, <2>1, <2>2 DEF Ending
  <1>13. ASSUME NEW i \in MM!Queues, GuestNotify(i) PROVE NoStuckFrame'
    <2>1. /\ UNCHANGED <<rx_pending, rx_pc, devices_pending, should_stop, queue>>
          /\ pc[Vcpu] = "guest" /\ work' = <<i>> /\ drv' = [drv EXCEPT !.notify = @ \ {i}]
      BY <1>13 DEF GuestNotify, VC!ExitToDevice, VC!Goto, MM!DriverNotify, MM!WriteQueueNotify,
        netVars
    <2>2. CASE i = RX
      BY <2>1, <2>2 DEF NoStuckFrame, RX, MM!RX
    <2>3. CASE i # RX
      <3>1. RX \in drv.notify => RX \in drv'.notify
        BY <1>1, <2>1, <2>3 DEF MP!DriverType
      <3>2. work = << >> /\ (Ending => should_stop)
        BY <1>1, <2>1 DEF Ending, VC!LeftPcs
      <3> QED  BY <1>0, <2>1, <3>1, <3>2 DEF NoStuckFrame, RxReady, Ending, MM!HasAvail, RX, MM!RX
    <2> QED  BY <2>2, <2>3
  <1> QED
    BY <1>4, <1>5, <1>6, <1>7, <1>8, <1>9, <1>10, <1>11, <1>12, <1>13 DEF Next, VcpuThread, Guest

\* Initially there is no frame.
LEMMA NetInit == Init => NetInv
  <1> SUFFICES ASSUME Init PROVE NetInv
    OBVIOUS
  <1>1. PartsInv
    <2>1. MP!Init
      BY SameTransport DEF Init
    <2> QED  BY <2>1, ControlInit, Transport, MP!MmioInit, MP!OnceInit DEF PartsInv
  <1>2. NetType
    BY Transport, SameTransport, EmptySeq DEF Init, NetType
  <1>3. RxInv /\ NoStuckFrame
    BY SameTransport DEF Init, MM!Init, RxInv, NoStuckFrame
  <1>4. FramesConserved
    <2>1. Returned = << >>
      <3>1. MP!Unused(queue[RX])
        BY DEF Init, MM!Init, MM!NewQueue, MP!Unused, RX, MM!RX, MM!Queues, MM!TX
      <3> QED  BY <3>1, Transport, MP!UnusedFacts DEF Returned
    <2>2. InUsedRing = << >>
      BY <1>1, <2>1, PartsFacts DEF Frames
    <2> QED  BY <2>2, NetAssumption DEF Init, FramesConserved
  <1> QED  BY <1>1, <1>2, <1>3, <1>4 DEF NetInv

\* NetInv holds in every state.
LEMMA NetInvariance ==
    ASSUME MaxProbes <= 1
    PROVE  Spec => []NetInv
  <1>1. NetInv /\ [Next]_vars => NetInv'
    BY PartsNext, FramesNext, StuckNext DEF NetInv
  <1> QED  BY <1>1, NetInit, PTL DEF Spec

\* With a driver that sets the device up once, no accepted frame is lost,
\* duplicated or overtaken, and rx_pending stays within its limit, however the
\* tap's thread, the vcpu thread and the guest interleave (net.rs, mmio.rs).
THEOREM FramesConservedOnce ==
    ASSUME MaxProbes <= 1
    PROVE  FairSpec => []FramesConserved
  <1>1. NetInv => FramesConserved
    BY DEF NetInv
  <1> QED  BY <1>1, NetInvariance, PTL DEF FairSpec

\* With a driver that sets the device up once, a frame and a buffer for it
\* never both wait with nobody bound to bring them together (start_rx_thread,
\* kick(), run_loop and queue_notify).
THEOREM NoStuckFrameOnce ==
    ASSUME MaxProbes <= 1
    PROVE  FairSpec => []NoStuckFrame
  <1>1. NetInv => NoStuckFrame
    BY DEF NetInv
  <1> QED  BY <1>1, NetInvariance, PTL DEF FairSpec
=============================================================================
