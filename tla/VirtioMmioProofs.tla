-------------------------- MODULE VirtioMmioProofs --------------------------
(***************************************************************************)
(* Invariance proofs for the transport, for every ring size, index width   *)
(* and number of setups.                                                   *)
(***************************************************************************)
EXTENDS VirtioMmio, VringProofs

-----------------------------------------------------------------------------
(* The inductive invariant.                                                *)

\* The VRING bit and the line go up and down together.  The handler has taken
\* the interrupt when it reads INTERRUPT_STATUS and finds the bit, and nothing
\* rises anew until it has acknowledged; at any other time what is up has an
\* interrupt latched.  When the handler is off, a used chain has put it up.
LineInv ==
    /\ irq_status = irq.level
    /\ drv.isr \in {"off", "collect"} => irq.latched = irq.level
    /\ drv.isr \in {"status", "ack"} => irq.level /\ ~irq.latched
    /\ drv.isr = "ack" => drv.isr_status
    /\ drv.isr = "off" /\ (\E i \in Queues : HasUsed(queue[i])) => irq.latched

\* Queue i has been programmed in this setup.
Programmed(i) == queue[i].ready = 1 /\ addr[i] = WantedAddr(i, drv.probes)

\* How far the setup has got: the queue registers address the queue that is
\* being set up, the queues before it are programmed, and of its own address
\* what has been written so far is right.
SetupInv ==
    /\ drv.pc \in {"unready", "alloc", "num", "addr_lo", "addr_hi", "ready"} =>
           curr_queue = drv.setup
    /\ drv.pc = "addr_hi" =>
           addr[drv.setup] = [lo |-> WantedAddr(drv.setup, drv.probes).lo, hi |-> 0]
    /\ drv.pc = "ready" => addr[drv.setup] = WantedAddr(drv.setup, drv.probes)
    /\ drv.pc \notin {"reset", "ok", "live"} /\ drv.setup = TX => Programmed(RX)
    /\ drv.pc \in {"ok", "live"} => \A i \in Queues : Programmed(i)

MmioInv == TypeOK /\ LineInv /\ SetupInv

\* The invariant holds initially.
LEMMA MmioInit == Init => MmioInv
  <1> SUFFICES ASSUME Init PROVE MmioInv
    OBVIOUS
  <1>1. TypeOK
    BY NewQueueFacts, MaxProbesAssumption
    DEF Init, TypeOK, DriverType, Queues, RX, TX, IrqType, IrqIdle, NoChain
  <1>2. LineInv
    BY NewQueueFacts DEF Init, LineInv, IrqIdle
  <1>3. SetupInv
    BY DEF Init, SetupInv
  <1> QED  BY <1>1, <1>2, <1>3 DEF MmioInv

\* The register writes of the driver keep the types.
LEMMA TypeRegister == ASSUME TypeOK, DriverSetup PROVE TypeOK'
  <1> USE DEF TypeOK, DriverType, Queues, RX, TX
  <1>1. CASE DriverReset
    <2>1. drv.probes + 1 \in 0..MaxProbes
      BY <1>1, MaxProbesAssumption DEF DriverReset
    <2> QED  BY <1>1, <2>1 DEF DriverReset, WriteStatus
  <1>2. CASE DriverSel
    BY <1>2 DEF DriverSel, WriteQueueSel
  <1>3. CASE DriverUnready
    BY <1>3 DEF DriverUnready, WriteQueueReady, QueueType
  <1>4. CASE DriverAlloc
    BY <1>4, AllocFacts DEF DriverAlloc
  <1>5. CASE DriverNum
    BY <1>5 DEF DriverNum, WriteQueueNum, QueueType
  <1>a. WantedAddr(drv.setup, drv.probes) \in [lo : {0, 1}, hi : {0, 1}]
    <2>1. drv.setup + drv.probes \in Int
      OBVIOUS
    <2>2. \A x \in Int : x % 2 \in {0, 1}
      OBVIOUS
    <2> QED  BY <2>1, <2>2 DEF WantedAddr
  <1>6. CASE DriverAddrLow
    BY <1>6, <1>a DEF DriverAddrLow, WriteAddrLow
  <1>7. CASE DriverAddrHigh
    <2>1. WantedAddr(drv.setup, drv.probes).hi \in {0, 1}
      BY <1>a
    <2>2. addr' = [addr EXCEPT ![curr_queue].hi =
                      IF @ = 1 THEN 1 ELSE WantedAddr(drv.setup, drv.probes).hi]
      BY <1>7 DEF DriverAddrHigh, WriteAddrHigh
    <2>3. addr' \in [Queues -> [lo : {0, 1}, hi : {0, 1}]]
      BY <2>1, <2>2
    <2> QED  BY <1>7, <2>3 DEF DriverAddrHigh, WriteAddrHigh
  <1>8. CASE DriverReady
    <2>1. queue' \in [Queues -> QueueType]
      BY <1>8 DEF DriverReady, WriteQueueReady, QueueType
    <2>2. drv' \in DriverType
      BY <1>8 DEF DriverReady
    <2> QED  BY <1>8, <2>1, <2>2 DEF DriverReady, WriteQueueReady
  <1>9. CASE DriverOk
    BY <1>9 DEF DriverOk, WriteStatus
  <1> QED  BY <1>1, <1>2, <1>3, <1>4, <1>5, <1>6, <1>7, <1>8, <1>9 DEF DriverSetup

\* So do the driver's use of the queues and its interrupt handler.
LEMMA TypeGuest ==
    ASSUME TypeOK, Isr \/ \E i \in Queues : DriverOffer(i) \/ DriverNotify(i)
    PROVE  TypeOK'
  <1> USE DEF TypeOK, DriverType, IrqType
  <1>1. ASSUME NEW i \in Queues, DriverOffer(i) PROVE TypeOK'
    <2>1. PICK h \in queue[i].free : queue' = [queue EXCEPT ![i] = Publish(StageChain(@, h))]
      BY <1>1 DEF DriverOffer
    <2>2. h \in Heads
      BY <2>1 DEF QueueType
    <2> QED  BY <1>1, <2>1, <2>2, OfferFacts DEF DriverOffer
  <1>2. ASSUME NEW i \in Queues, DriverNotify(i) PROVE TypeOK'
    BY <1>2 DEF DriverNotify, WriteQueueNotify, Queues
  <1>3. CASE IsrEnter
    BY <1>3 DEF IsrEnter, TakeIrq
  <1>4. CASE IsrStatus
    BY <1>4 DEF IsrStatus
  <1>5. CASE IsrAck
    BY <1>5 DEF IsrAck, WriteInterruptAck, UpdateIrq
  <1>6. ASSUME NEW i \in Queues, IsrCollect(i) PROVE TypeOK'
    BY <1>6, CollectFacts DEF IsrCollect
  <1>7. CASE IsrLeave
    BY <1>7 DEF IsrLeave
  <1> QED  BY <1>1, <1>2, <1>3, <1>4, <1>5, <1>6, <1>7 DEF Isr

\* So does the device's loop.
LEMMA TypeService ==
    ASSUME TypeOK, StartPoll \/ \E i \in Queues : Service(i)
    PROVE  TypeOK'
  <1> USE DEF TypeOK
  <1>1. CASE StartPoll
    BY <1>1 DEF StartPoll
  <1>2. ASSUME NEW i \in Queues, NotifyDone(i, FALSE) \/ NotifyDone(i, TRUE) PROVE TypeOK'
    <2>1. work \in {<<RX>>, <<TX>>, <<RX, TX>>} /\ work' = Tail(work)
      BY <1>2 DEF NotifyDone, Serving
    <2>2. work' \in {<< >>, <<TX>>}
      <3>1. Tail(<<RX>>) = << >> /\ Tail(<<TX>>) = << >>
        OBVIOUS
      <3>2. Tail(<<RX, TX>>) = <<TX>>
        OBVIOUS
      <3> QED  BY <2>1, <3>1, <3>2
    <2> QED  BY <1>2, <2>2 DEF NotifyDone
  <1>3. ASSUME NEW i \in Queues, NotifyPop(i, TRUE) PROVE TypeOK'
    BY <1>3, PopFacts DEF NotifyPop
  <1>4. ASSUME NEW i \in Queues, NotifyPush(i) PROVE TypeOK'
    BY <1>4, PushFacts DEF NotifyPush, UpdateIrq, IrqType
  <1> QED  BY <1>1, <1>2, <1>3, <1>4 DEF Service

\* Every step keeps the types.
LEMMA TypeNext == TypeOK /\ [Next]_mmioVars => TypeOK'
  <1>1. UNCHANGED mmioVars /\ TypeOK => TypeOK'
    BY DEF mmioVars, TypeOK
  <1> QED  BY <1>1, TypeRegister, TypeGuest, TypeService DEF Next, Guest

-----------------------------------------------------------------------------
(* The interrupt.                                                          *)

\* A step that touches neither the line nor the handler, and makes no queue
\* one with used chains, keeps LineInv.
LEMMA LineKept ==
    ASSUME LineInv, irq' = irq, irq_status' = irq_status,
           drv'.isr = drv.isr, drv'.isr_status = drv.isr_status,
           \A i \in Queues : HasUsed(queue'[i]) => HasUsed(queue[i])
    PROVE  LineInv'
  BY DEF LineInv

\* The setup of the queues keeps LineInv: only new rings change what is used.
LEMMA LineSetup == ASSUME TypeOK, LineInv, DriverSetup PROVE LineInv'
  <1>1. /\ irq' = irq /\ irq_status' = irq_status
        /\ drv'.isr = drv.isr /\ drv'.isr_status = drv.isr_status
    BY DEF DriverSetup, DriverReset, DriverSel, DriverUnready, DriverAlloc, DriverNum,
        DriverAddrLow, DriverAddrHigh, DriverReady, DriverOk, WriteStatus, WriteQueueSel,
        WriteQueueReady, WriteQueueNum, WriteAddrLow, WriteAddrHigh, TypeOK, DriverType
  <1>2. \A i \in Queues : HasUsed(queue'[i]) => HasUsed(queue[i])
    <2>1. CASE DriverAlloc
      BY <2>1, AllocFacts DEF DriverAlloc, TypeOK, DriverType
    <2>2. CASE DriverUnready \/ DriverReady
      <3>1. PICK val \in {0, 1} : queue' = [queue EXCEPT ![curr_queue].ready = val]
        BY <2>2 DEF DriverUnready, DriverReady, WriteQueueReady
      <3> QED  BY <3>1 DEF TypeOK, QueueType, HasUsed
    <2>3. CASE DriverNum
      BY <2>3 DEF DriverNum, WriteQueueNum, TypeOK, QueueType, HasUsed
    <2>4. CASE DriverReset \/ DriverSel \/ DriverAddrLow \/ DriverAddrHigh \/ DriverOk
      BY <2>4 DEF DriverReset, DriverSel, DriverAddrLow, DriverAddrHigh, DriverOk,
        WriteStatus, WriteQueueSel, WriteAddrLow, WriteAddrHigh
    <2> QED  BY <2>1, <2>2, <2>3, <2>4 DEF DriverSetup
  <1> QED  BY <1>1, <1>2, LineKept

\* Every step keeps LineInv.
LEMMA LineNext == TypeOK /\ LineInv /\ [Next]_mmioVars => LineInv'
  <1> SUFFICES ASSUME TypeOK, LineInv, [Next]_mmioVars PROVE LineInv'
    OBVIOUS
  <1>0. /\ irq \in IrqType /\ drv \in DriverType /\ irq_status \in BOOLEAN
        /\ queue \in [Queues -> QueueType]
    BY DEF TypeOK
  <1>1. CASE UNCHANGED mmioVars
    BY <1>1, LineKept DEF mmioVars
  <1>2. CASE StartPoll
    BY <1>2, LineKept DEF StartPoll
  <1>3. ASSUME NEW i \in Queues, NotifyDone(i, FALSE) \/ NotifyDone(i, TRUE) PROVE LineInv'
    BY <1>3, LineKept DEF NotifyDone
  <1>4. ASSUME NEW i \in Queues, NotifyPop(i, TRUE) PROVE LineInv'
    <2>1. \A j \in Queues : HasUsed(queue'[j]) => HasUsed(queue[j])
      BY <1>0, <1>4, PopFacts DEF NotifyPop
    <2> QED  BY <1>4, <2>1, LineKept DEF NotifyPop
  <1>5. ASSUME NEW i \in Queues, NotifyPush(i) PROVE LineInv'
    <2>1. /\ irq_status' = TRUE /\ drv' = drv
          /\ irq'.level = TRUE /\ irq'.latched = (irq.latched \/ ~irq.level)
      BY <1>0, <1>5 DEF NotifyPush, UpdateIrq
    <2> QED  BY <1>0, <2>1 DEF LineInv, IrqType, DriverType
  <1>6. CASE DriverSetup
    BY <1>6, LineSetup
  <1>7. ASSUME NEW i \in Queues, DriverOffer(i) PROVE LineInv'
    <2>1. PICK h \in queue[i].free : queue' = [queue EXCEPT ![i] = Publish(StageChain(@, h))]
      BY <1>7 DEF DriverOffer
    <2>2. h \in Heads
      BY <1>0, <2>1 DEF QueueType
    <2>3. \A j \in Queues : HasUsed(queue'[j]) => HasUsed(queue[j])
      BY <1>0, <2>1, <2>2, OfferFacts
    <2>4. drv'.isr = drv.isr /\ drv'.isr_status = drv.isr_status
      BY <1>0, <1>7 DEF DriverOffer, DriverType
    <2> QED  BY <1>7, <2>3, <2>4, LineKept DEF DriverOffer
  <1>8. ASSUME NEW i \in Queues, DriverNotify(i) PROVE LineInv'
    <2>1. drv'.isr = drv.isr /\ drv'.isr_status = drv.isr_status
      BY <1>0, <1>8 DEF DriverNotify, DriverType
    <2> QED  BY <1>8, <2>1, LineKept DEF DriverNotify, WriteQueueNotify
  <1>9. CASE IsrEnter
    BY <1>0, <1>9 DEF IsrEnter, TakeIrq, LineInv, IrqType, DriverType
  <1>10. CASE IsrStatus
    BY <1>0, <1>10 DEF IsrStatus, LineInv, IrqType, DriverType
  <1>11. CASE IsrAck
    BY <1>0, <1>11 DEF IsrAck, WriteInterruptAck, UpdateIrq, LineInv, IrqType, DriverType
  <1>12. ASSUME NEW i \in Queues, IsrCollect(i) PROVE LineInv'
    BY <1>0, <1>12 DEF IsrCollect, LineInv
  <1>13. CASE IsrLeave
    BY <1>0, <1>13 DEF IsrLeave, LineInv, DriverType
  <1> QED
    BY <1>1, <1>2, <1>3, <1>4, <1>5, <1>6, <1>7, <1>8, <1>9, <1>10, <1>11, <1>12, <1>13
    DEF Next, Service, Guest, Isr

-----------------------------------------------------------------------------
(* The setup of the queues.                                                *)

\* A step that leaves the registers and the driver's progress alone keeps
\* SetupInv.
LEMMA SetupKept ==
    ASSUME SetupInv, curr_queue' = curr_queue, addr' = addr,
           drv'.pc = drv.pc, drv'.setup = drv.setup, drv'.probes = drv.probes,
           \A i \in Queues : queue'[i].ready = queue[i].ready
    PROVE  SetupInv'
  BY DEF SetupInv, Programmed, WantedAddr, Queues, RX, TX

\* Every step keeps SetupInv.
LEMMA SetupNext == TypeOK /\ SetupInv /\ [Next]_mmioVars => SetupInv'
  <1> SUFFICES ASSUME TypeOK, SetupInv, [Next]_mmioVars PROVE SetupInv'
    OBVIOUS
  <1>0. /\ drv \in DriverType /\ queue \in [Queues -> QueueType]
        /\ addr \in [Queues -> [lo : {0, 1}, hi : {0, 1}]] /\ curr_queue \in Queues
    BY DEF TypeOK
  <1>1. CASE UNCHANGED mmioVars \/ StartPoll
    BY <1>1, SetupKept DEF mmioVars, StartPoll
  <1>2. ASSUME NEW i \in Queues, Service(i) PROVE SetupInv'
    <2>1. curr_queue' = curr_queue /\ addr' = addr /\ drv' = drv
      BY <1>2 DEF Service, NotifyDone, NotifyPop, NotifyPush
    <2>2. \A j \in Queues : queue'[j].ready = queue[j].ready
      <3>1. CASE NotifyDone(i, FALSE) \/ NotifyDone(i, TRUE)
        BY <3>1 DEF NotifyDone
      <3>2. CASE NotifyPop(i, TRUE)
        BY <1>0, <3>2, PopFacts DEF NotifyPop
      <3>3. CASE NotifyPush(i)
        <4>1. chain \in Heads
          BY <3>3 DEF NotifyPush, TypeOK
        <4> QED  BY <1>0, <3>3, <4>1, PushFacts DEF NotifyPush
      <3> QED  BY <1>2, <3>1, <3>2, <3>3 DEF Service
    <2> QED  BY <2>1, <2>2, SetupKept
  <1>3. CASE Isr
    <2>1. /\ curr_queue' = curr_queue /\ addr' = addr
          /\ drv'.pc = drv.pc /\ drv'.setup = drv.setup /\ drv'.probes = drv.probes
      BY <1>0, <1>3 DEF Isr, IsrEnter, IsrStatus, IsrAck, IsrCollect, IsrLeave,
        WriteInterruptAck, DriverType
    <2>2. \A j \in Queues : queue'[j].ready = queue[j].ready
      BY <1>0, <1>3, CollectFacts
      DEF Isr, IsrEnter, IsrStatus, IsrAck, IsrCollect, IsrLeave, WriteInterruptAck
    <2> QED  BY <2>1, <2>2, SetupKept
  <1>4. ASSUME NEW i \in Queues, DriverOffer(i) PROVE SetupInv'
    <2>1. PICK h \in queue[i].free : queue' = [queue EXCEPT ![i] = Publish(StageChain(@, h))]
      BY <1>4 DEF DriverOffer
    <2>2. h \in Heads
      BY <1>0, <2>1 DEF QueueType
    <2>3. \A j \in Queues : queue'[j].ready = queue[j].ready
      BY <1>0, <2>1, <2>2, OfferFacts
    <2>4. drv'.pc = drv.pc /\ drv'.setup = drv.setup /\ drv'.probes = drv.probes
      BY <1>0, <1>4 DEF DriverOffer, DriverType
    <2> QED  BY <1>4, <2>3, <2>4, SetupKept DEF DriverOffer
  <1>5. ASSUME NEW i \in Queues, DriverNotify(i) PROVE SetupInv'
    <2>1. drv'.pc = drv.pc /\ drv'.setup = drv.setup /\ drv'.probes = drv.probes
      BY <1>0, <1>5 DEF DriverNotify, DriverType
    <2> QED  BY <1>5, <2>1, SetupKept DEF DriverNotify, WriteQueueNotify
  <1> USE DEF SetupInv, Programmed, Queues, RX, TX, DriverType
  <1>6. CASE DriverReset
    BY <1>0, <1>6 DEF DriverReset, WriteStatus
  <1>7. CASE DriverSel
    BY <1>0, <1>7 DEF DriverSel, WriteQueueSel
  <1>8. CASE DriverUnready
    BY <1>0, <1>8 DEF DriverUnready, WriteQueueReady, QueueType
  <1>9. CASE DriverAlloc
    <2>1. \A j \in Queues : queue'[j].ready = queue[j].ready
      BY <1>0, <1>9, AllocFacts DEF DriverAlloc
    <2> QED  BY <1>0, <1>9, <2>1 DEF DriverAlloc
  <1>10. CASE DriverNum
    BY <1>0, <1>10 DEF DriverNum, WriteQueueNum, QueueType
  <1>11. CASE DriverAddrLow
    BY <1>0, <1>11 DEF DriverAddrLow, WriteAddrLow
  <1>12. CASE DriverAddrHigh
    BY <1>0, <1>12 DEF DriverAddrHigh, WriteAddrHigh, WantedAddr
  <1>13. CASE DriverReady
    BY <1>0, <1>13 DEF DriverReady, WriteQueueReady, QueueType
  <1>14. CASE DriverOk
    BY <1>0, <1>14 DEF DriverOk, WriteStatus
  <1> QED
    BY <1>1, <1>2, <1>3, <1>4, <1>5, <1>6, <1>7, <1>8, <1>9, <1>10, <1>11, <1>12, <1>13, <1>14
    DEF Next, Guest, DriverSetup

-----------------------------------------------------------------------------
\* The invariant holds in every behaviour.
LEMMA MmioInvariance == Spec => []MmioInv
  <1>1. MmioInv /\ [Next]_mmioVars => MmioInv'
    BY TypeNext, LineNext, SetupNext DEF MmioInv
  <1> QED  BY <1>1, MmioInit, PTL DEF Spec

\* Registers, rings and the driver have their types in every state.
THEOREM TypeCorrect == Spec => []TypeOK
  <1>1. MmioInv => TypeOK
    BY DEF MmioInv
  <1> QED  BY <1>1, MmioInvariance, PTL

\* No used chain is left behind, however chains are used between the handler's
\* read of INTERRUPT_STATUS and its INTERRUPT_ACK, and across setups
\* (queue_notify, INTERRUPT_ACK in handle()).
THEOREM NoLostInterruptCorrect == Spec => []NoLostInterrupt
  <1>1. MmioInv => NoLostInterrupt
    BY DEF MmioInv, TypeOK, DriverType, LineInv, NoLostInterrupt
  <1> QED  BY <1>1, MmioInvariance, PTL

\* A live driver finds its rings in every queue, after any number of setups
\* (QUEUE_SEL, QUEUE_READY and the address registers in handle()).
THEOREM QueuesProgrammedCorrect == Spec => []QueuesProgrammed
  <1>1. MmioInv => QueuesProgrammed
    BY DEF MmioInv, SetupInv, Programmed, QueuesProgrammed
  <1> QED  BY <1>1, MmioInvariance, PTL

-----------------------------------------------------------------------------
(* A driver that sets the device up once.  A second setup finds the old    *)
(* last_avail_idx and breaks what follows (TakesOnlyAvailable).            *)

\* The indices of a queue that no chain has been through.
Unused(q) ==
    /\ q.last_avail_idx = 0 /\ q.avail_idx = 0 /\ q.shadow = 0
    /\ q.used_idx = 0 /\ q.last_used = 0

\* The chain that the device has taken from queue i.
TakenFrom(i) == IF chain # NoChain /\ Head(work) = i THEN <<chain>> ELSE << >>

\* Queue i has its rings.
Allocated(i) ==
    \/ drv.pc \in {"ok", "live"}
    \/ drv.pc \in {"num", "addr_lo", "addr_hi", "ready"} /\ drv.setup = i
    \/ drv.pc # "reset" /\ drv.setup = TX /\ i = RX

\* No chain is in flight before the driver is live; from then on the chains
\* of each queue are in one place each.  A queue that is ready has its size.
OnceInv ==
    /\ drv.pc # "reset" => drv.probes > 0
    /\ chain # NoChain => work # << >> /\ drv.pc = "live"
    /\ drv.pc # "live" => \A i \in Queues : Unused(queue[i])
    /\ \A i \in Queues : Allocated(i) => FlightInv(queue[i], TakenFrom(i))
    /\ drv.pc \in {"addr_lo", "addr_hi", "ready"} => queue[curr_queue].num = Num
    /\ \A i \in Queues : queue[i].ready = 1 => queue[i].num = Num

\* No chain has been used before the driver is live.
LEMMA UnusedFacts ==
    ASSUME NEW p, Unused(p)
    PROVE  ~HasAvail(p) /\ ~HasUsed(p) /\ ReturnedIn(p) = << >>
  <1>1. Dist(0, 0) = 0
    BY IndexFacts, DistFacts
  <1> QED  BY <1>1 DEF Unused, HasAvail, HasUsed, ReturnedIn, Between

\* All chains of an unused queue are free.
LEMMA UnusedFree ==
    ASSUME NEW p, Unused(p), FlightInv(p, << >>)
    PROVE  p.free = Heads
  <1>1. Dist(0, 0) = 0
    BY IndexFacts, DistFacts
  <1>2. StagedIn(p) = << >> /\ OfferedIn(p) = << >> /\ ReturnedIn(p) = << >>
    BY <1>1 DEF Unused, StagedIn, OfferedIn, ReturnedIn, Between
  <1>3. Flight(p, << >>) = << >> /\ 1..Len(<< >>) = {}
    BY <1>2 DEF Flight
  <1>4. p.free \in SUBSET Heads
    BY DEF FlightInv, QueueType
  <1> QED  BY <1>3, <1>4 DEF FlightInv, Holds

\* Initially nothing is set up.
LEMMA OnceInit == Init => OnceInv
  BY DEF Init, OnceInv, Unused, NewQueue, Allocated, NoChain, Queues, RX, TX

\* A register access of the setup, and what the queues look like after it.
LEMMA OnceSetup ==
    ASSUME MaxProbes <= 1, MmioInv, OnceInv, GuestRuns, DriverSetup
    PROVE  /\ OnceInv'
           /\ \A i \in Queues : /\ ReturnedIn(queue'[i]) = ReturnedIn(queue[i])
                                /\ ~HasAvail(queue'[i])
  <1>0. /\ drv \in DriverType /\ queue \in [Queues -> QueueType] /\ curr_queue \in Queues
        /\ queue' \in [Queues -> QueueType] /\ drv' \in DriverType
    BY TypeRegister DEF MmioInv, TypeOK
  <1>1. /\ chain = NoChain /\ chain' = NoChain
        /\ \A i \in Queues : TakenFrom(i) = << >> /\ TakenFrom(i)' = << >>
    <2>1. chain = NoChain
      BY DEF GuestRuns, OnceInv
    <2>2. chain' = chain
      BY DEF DriverSetup, DriverReset, DriverSel, DriverUnready, DriverAlloc, DriverNum,
        DriverAddrLow, DriverAddrHigh, DriverReady, DriverOk, WriteStatus, WriteQueueSel,
        WriteQueueReady, WriteQueueNum, WriteAddrLow, WriteAddrHigh
    <2> QED  BY <2>1, <2>2 DEF TakenFrom
  <1>2. drv.pc # "live" /\ \A i \in Queues : Unused(queue[i])
    <2>1. drv.pc = "live" => drv.probes > 0 /\ drv.probes \in 0..MaxProbes
      BY <1>0 DEF OnceInv, DriverType
    <2>2. ~(drv.pc = "live" /\ drv.probes < MaxProbes)
      BY <2>1, MaxProbesAssumption
    <2>3. drv.pc # "live"
      BY <2>2 DEF DriverSetup, DriverReset, DriverSel, DriverUnready, DriverAlloc, DriverNum,
        DriverAddrLow, DriverAddrHigh, DriverReady, DriverOk
    <2> QED  BY <2>3 DEF OnceInv
  <1>3. \A i \in Queues : Unused(queue'[i])
    <2>1. CASE DriverAlloc
      BY <1>0, <1>2, <2>1 DEF DriverAlloc, AllocRings, NewQueue, Unused, QueueType
    <2>2. CASE DriverUnready \/ DriverReady
      <3>1. PICK val \in {0, 1} : queue' = [queue EXCEPT ![curr_queue].ready = val]
        BY <2>2 DEF DriverUnready, DriverReady, WriteQueueReady
      <3> QED  BY <1>0, <1>2, <3>1 DEF QueueType, Unused
    <2>3. CASE DriverNum
      BY <1>0, <1>2, <2>3 DEF DriverNum, WriteQueueNum, QueueType, Unused
    <2>4. CASE DriverReset \/ DriverSel \/ DriverAddrLow \/ DriverAddrHigh \/ DriverOk
      BY <1>2, <2>4 DEF DriverReset, DriverSel, DriverAddrLow, DriverAddrHigh, DriverOk,
        WriteStatus, WriteQueueSel, WriteAddrLow, WriteAddrHigh
    <2> QED  BY <2>1, <2>2, <2>3, <2>4 DEF DriverSetup
  <1>4. \A i \in Queues : /\ ReturnedIn(queue'[i]) = ReturnedIn(queue[i])
                         /\ ~HasAvail(queue'[i])
    BY <1>2, <1>3, UnusedFacts
  <1>5. drv'.probes > 0
    <2>1. drv.probes \in Nat /\ (drv.pc # "reset" => drv.probes > 0)
      BY <1>0, MaxProbesAssumption DEF OnceInv, DriverType
    <2>2. CASE DriverReset
      BY <1>0, <2>1, <2>2 DEF DriverReset, DriverType
    <2>3. CASE ~DriverReset
      <3>1. drv.pc # "reset" /\ drv'.probes = drv.probes
        BY <1>0, <2>3 DEF DriverSetup, DriverSel, DriverUnready, DriverAlloc, DriverNum,
          DriverAddrLow, DriverAddrHigh, DriverReady, DriverOk, DriverType
      <3> QED  BY <2>1, <3>1
    <2> QED  BY <2>2, <2>3
  <1>6. \A i \in Queues : Allocated(i)' => FlightInv(queue'[i], << >>)
    <2> SUFFICES ASSUME NEW i \in Queues, Allocated(i)' PROVE queue'[i].free = Heads
      BY <1>0, <1>3, FlightEmpty DEF Unused
    <2>1. CASE DriverAlloc /\ i = drv.setup
      BY <1>0, <2>1 DEF DriverAlloc, AllocRings, NewQueue, QueueType
    <2>2. CASE ~(DriverAlloc /\ i = drv.setup)
      <3>1. Allocated(i) /\ queue'[i].free = queue[i].free
        <4> USE DEF Allocated, Queues, RX, TX, DriverType, QueueType
        <4>1. CASE DriverAlloc
          BY <1>0, <2>2, <4>1 DEF DriverAlloc
        <4>2. CASE DriverReset
          BY <1>0, <4>2 DEF DriverReset, WriteStatus
        <4>3. CASE DriverSel
          BY <1>0, <4>3 DEF DriverSel, WriteQueueSel
        <4>4. CASE DriverUnready
          BY <1>0, <4>4 DEF DriverUnready, WriteQueueReady
        <4>5. CASE DriverNum
          BY <1>0, <4>5 DEF DriverNum, WriteQueueNum
        <4>6. CASE DriverAddrLow \/ DriverAddrHigh
          BY <1>0, <4>6 DEF DriverAddrLow, DriverAddrHigh, WriteAddrLow, WriteAddrHigh
        <4>7. CASE DriverReady
          BY <1>0, <4>7 DEF DriverReady, WriteQueueReady
        <4>8. CASE DriverOk
          BY <1>0, <4>8 DEF DriverOk, WriteStatus
        <4> QED  BY <4>1, <4>2, <4>3, <4>4, <4>5, <4>6, <4>7, <4>8 DEF DriverSetup
      <3> QED  BY <1>1, <1>2, <3>1, UnusedFree DEF OnceInv
    <2> QED  BY <2>1, <2>2
  <1>7. /\ drv'.pc \in {"addr_lo", "addr_hi", "ready"} => queue'[curr_queue'].num = Num
        /\ \A i \in Queues : queue'[i].ready = 1 => queue'[i].num = Num
    <2> USE DEF OnceInv, QueueType, DriverType
    <2>1. CASE DriverAlloc
      BY <1>0, <2>1 DEF DriverAlloc, AllocRings, NewQueue
    <2>2. CASE DriverReset
      BY <1>0, <2>2 DEF DriverReset, WriteStatus
    <2>3. CASE DriverSel
      BY <1>0, <2>3 DEF DriverSel, WriteQueueSel
    <2>4. CASE DriverUnready
      BY <1>0, <2>4 DEF DriverUnready, WriteQueueReady
    <2>5. CASE DriverNum
      BY <1>0, <2>5 DEF DriverNum, WriteQueueNum
    <2>6. CASE DriverAddrLow \/ DriverAddrHigh
      BY <1>0, <2>6 DEF DriverAddrLow, DriverAddrHigh, WriteAddrLow, WriteAddrHigh
    <2>7. CASE DriverReady
      BY <1>0, <2>7 DEF DriverReady, WriteQueueReady
    <2>8. CASE DriverOk
      BY <1>0, <2>8 DEF DriverOk, WriteStatus
    <2> QED  BY <2>1, <2>2, <2>3, <2>4, <2>5, <2>6, <2>7, <2>8 DEF DriverSetup
  <1> QED  BY <1>1, <1>3, <1>4, <1>5, <1>6, <1>7 DEF OnceInv

\* A step that leaves the setup alone keeps OnceInv if it keeps the flight.
LEMMA OnceKept ==
    ASSUME MmioInv, OnceInv, queue' \in [Queues -> QueueType], curr_queue' = curr_queue,
           drv'.pc = drv.pc, drv'.setup = drv.setup, drv'.probes = drv.probes,
           chain' # NoChain => work' # << >> /\ drv.pc = "live",
           drv.pc # "live" => queue' = queue /\ chain' = NoChain,
           drv.pc = "live" => \A i \in Queues : FlightInv(queue'[i], TakenFrom(i)'),
           \A i \in Queues : queue'[i].ready = queue[i].ready /\ queue'[i].num = queue[i].num
    PROVE  OnceInv'
  <1>1. ASSUME NEW i \in Queues, Allocated(i)' PROVE FlightInv(queue'[i], TakenFrom(i)')
    <2>1. CASE drv.pc = "live"
      BY <2>1
    <2>2. CASE drv.pc # "live"
      <3>1. chain = NoChain /\ chain' = NoChain
        BY <2>2 DEF OnceInv
      <3>2. TakenFrom(i) = << >> /\ TakenFrom(i)' = << >> /\ Allocated(i)
        BY <1>1, <3>1 DEF TakenFrom, Allocated
      <3> QED  BY <2>2, <3>2 DEF OnceInv
    <2> QED  BY <2>1, <2>2
  <1>2. curr_queue \in Queues
    BY DEF MmioInv, TypeOK
  <1> QED  BY <1>1, <1>2 DEF OnceInv

\* The device takes chains from a live driver only, and gives them back.
LEMMA OncePop ==
    ASSUME MmioInv, OnceInv, NEW i \in Queues, NotifyPop(i, TRUE)
    PROVE  OnceInv' /\ \A j \in Queues : ReturnedIn(queue'[j]) = ReturnedIn(queue[j])
  <1>0. queue \in [Queues -> QueueType] /\ curr_queue \in Queues
    BY DEF MmioInv, TypeOK
  <1>1. /\ HasAvail(queue[i]) /\ chain = NoChain /\ work # << >> /\ Head(work) = i
        /\ chain' = NextHead(queue[i]) /\ work' = work /\ drv' = drv /\ curr_queue' = curr_queue
        /\ queue' = [queue EXCEPT ![i] = PopAvail(queue[i])]
    BY DEF NotifyPop, Serving
  <1>2. drv.pc = "live"
    BY <1>1, UnusedFacts DEF OnceInv
  <1>3. \A j \in Queues : FlightInv(queue[j], << >>)
    BY <1>1, <1>2 DEF OnceInv, TakenFrom, Allocated
  <1>4. /\ FlightInv(PopAvail(queue[i]), <<chain'>>) /\ chain' \in Heads
        /\ ReturnedIn(PopAvail(queue[i])) = ReturnedIn(queue[i])
    BY <1>1, <1>3, FlightPop
  <1>5. chain' # NoChain
    BY <1>4, RingAssumption DEF Heads, NoChain
  <1>6. \A j \in Queues : /\ TakenFrom(j)' = IF j = i THEN <<chain'>> ELSE << >>
                          /\ queue'[j] = IF j = i THEN PopAvail(queue[i]) ELSE queue[j]
    BY <1>0, <1>1, <1>5 DEF TakenFrom
  <1>7. \A j \in Queues : /\ FlightInv(queue'[j], TakenFrom(j)')
                          /\ ReturnedIn(queue'[j]) = ReturnedIn(queue[j])
    BY <1>3, <1>4, <1>6
  <1>8. /\ queue' \in [Queues -> QueueType]
        /\ \A j \in Queues : queue'[j].ready = queue[j].ready /\ queue'[j].num = queue[j].num
    <2> DEFINE p == PopAvail(queue[i])
    <2>1. p \in QueueType /\ p.ready = queue[i].ready /\ p.num = queue[i].num
      BY <1>0, <1>4 DEF FlightInv, PopAvail, QueueType
    <2>2. queue' = [queue EXCEPT ![i] = p]
      BY <1>1
    <2> HIDE DEF p
    <2> QED  BY <1>0, <2>1, <2>2
  <1> QED  BY <1>1, <1>2, <1>7, <1>8, OnceKept

\* What push_used() does: the chain is among the returned ones, and was not.
LEMMA OncePush ==
    ASSUME MmioInv, OnceInv, NEW i \in Queues, NotifyPush(i)
    PROVE  /\ OnceInv'
           /\ \A j \in Queues : j # i => ReturnedIn(queue'[j]) = ReturnedIn(queue[j])
           /\ ReturnedIn(queue'[i]) = Append(ReturnedIn(queue[i]), chain)
           /\ chain \in Heads /\ ReturnedIn(queue[i]) \in Seq(Heads)
           /\ \A k \in 1..Len(ReturnedIn(queue[i])) : ReturnedIn(queue[i])[k] # chain
  <1>0. queue \in [Queues -> QueueType] /\ curr_queue \in Queues
    BY DEF MmioInv, TypeOK
  <1>1. /\ chain # NoChain /\ chain \in Heads /\ work # << >> /\ Head(work) = i
        /\ chain' = NoChain /\ work' = work /\ drv' = drv /\ curr_queue' = curr_queue
        /\ queue' = [queue EXCEPT ![i] = PushUsed(queue[i], chain)]
    BY DEF NotifyPush, MmioInv, TypeOK
  <1>2. drv.pc = "live"
    BY <1>1 DEF OnceInv
  <1>3. /\ FlightInv(queue[i], <<chain>>)
        /\ \A j \in Queues : j # i => FlightInv(queue[j], << >>)
    BY <1>1, <1>2 DEF OnceInv, TakenFrom, Allocated
  <1> DEFINE p == PushElem(queue[i], chain)
             r == ReturnedIn(queue[i])
  <1>4. /\ FlightInv(p, <<chain>>) /\ ReturnedIn(p) = r
        /\ p.used_ring[p.used_idx % Num] = chain
    BY <1>1, <1>3, FlightElem
  <1>5. PushUsed(queue[i], chain) = PushIdx(p)
    BY DEF PushUsed
  <1> HIDE DEF p
  <1>6. /\ FlightInv(PushIdx(p), << >>)
        /\ ReturnedIn(PushIdx(p)) = Append(r, chain)
    BY <1>1, <1>4, FlightIdx
  <1>7. \A j \in Queues : /\ TakenFrom(j)' = << >>
                          /\ queue'[j] = IF j = i THEN PushIdx(p) ELSE queue[j]
    BY <1>0, <1>1, <1>5 DEF TakenFrom
  <1>8. /\ queue' \in [Queues -> QueueType]
        /\ \A j \in Queues : queue'[j].ready = queue[j].ready /\ queue'[j].num = queue[j].num
    <2>1. p \in QueueType /\ p.ready = queue[i].ready /\ p.num = queue[i].num
      BY <1>0, <1>4 DEF FlightInv, p, PushElem, QueueType
    <2>2. PushIdx(p) \in QueueType /\ PushIdx(p).ready = p.ready /\ PushIdx(p).num = p.num
      BY <1>6, <2>1 DEF FlightInv, PushIdx, QueueType
    <2>3. queue' = [queue EXCEPT ![i] = PushIdx(p)]
      BY <1>1, <1>5
    <2> QED  BY <1>0, <2>1, <2>2, <2>3
  <1>9. \A j \in Queues : FlightInv(queue'[j], TakenFrom(j)')
    BY <1>3, <1>6, <1>7
  <1>10. OnceInv'
    BY <1>1, <1>2, <1>8, <1>9, OnceKept
  <1>11. r \in Seq(Heads) /\ \A k \in 1..Len(r) : r[k] # chain
    BY <1>1, <1>3, TakenNotReturned
  <1> QED  BY <1>1, <1>6, <1>7, <1>10, <1>11

\* A live driver offers a chain.
LEMMA OnceOffer ==
    ASSUME MmioInv, OnceInv, GuestRuns, NEW i \in Queues, DriverOffer(i)
    PROVE  OnceInv' /\ \A j \in Queues : ReturnedIn(queue'[j]) = ReturnedIn(queue[j])
  <1>0. queue \in [Queues -> QueueType] /\ curr_queue \in Queues /\ drv \in DriverType
    BY DEF MmioInv, TypeOK
  <1>1. PICK h \in queue[i].free :
            queue' = [queue EXCEPT ![i] = Publish(StageChain(queue[i], h))]
    BY DEF DriverOffer
  <1>2. /\ drv.pc = "live" /\ chain = NoChain /\ chain' = NoChain /\ curr_queue' = curr_queue
        /\ drv'.pc = drv.pc /\ drv'.setup = drv.setup /\ drv'.probes = drv.probes
    BY <1>0 DEF DriverOffer, GuestRuns, OnceInv, DriverType
  <1>3. \A j \in Queues : /\ TakenFrom(j) = << >> /\ TakenFrom(j)' = << >>
                          /\ FlightInv(queue[j], << >>)
    BY <1>2 DEF OnceInv, TakenFrom, Allocated
  <1> DEFINE s == StageChain(queue[i], h)
             p == Publish(s)
  <1>4. FlightInv(s, << >>) /\ ReturnedIn(s) = ReturnedIn(queue[i])
    BY <1>1, <1>3, FlightStage
  <1>5. s.ready = queue[i].ready /\ s.num = queue[i].num
    BY <1>0 DEF StageChain, QueueType
  <1> HIDE DEF s
  <1>6. FlightInv(p, << >>) /\ ReturnedIn(p) = ReturnedIn(s)
    BY <1>4, FlightPublish
  <1>7. p \in QueueType /\ p.ready = s.ready /\ p.num = s.num
    BY <1>4, <1>6 DEF FlightInv, Publish, QueueType
  <1>8. queue' = [queue EXCEPT ![i] = p]
    BY <1>1 DEF s
  <1> HIDE DEF p
  <1>9. /\ queue' \in [Queues -> QueueType]
        /\ \A j \in Queues : queue'[j] = IF j = i THEN p ELSE queue[j]
    BY <1>0, <1>7, <1>8
  <1>10. \A j \in Queues : /\ FlightInv(queue'[j], TakenFrom(j)')
                           /\ ReturnedIn(queue'[j]) = ReturnedIn(queue[j])
                           /\ queue'[j].ready = queue[j].ready /\ queue'[j].num = queue[j].num
    BY <1>3, <1>4, <1>5, <1>6, <1>7, <1>9
  <1> QED  BY <1>2, <1>9, <1>10, OnceKept

\* The handler of a live driver collects a chain.
LEMMA OnceCollect ==
    ASSUME MmioInv, OnceInv, GuestRuns, NEW i \in Queues, IsrCollect(i)
    PROVE  /\ OnceInv'
           /\ \A j \in Queues : j # i => ReturnedIn(queue'[j]) = ReturnedIn(queue[j])
           /\ ReturnedIn(queue[i]) \in Seq(Heads) /\ ReturnedIn(queue[i]) # << >>
           /\ ReturnedIn(queue'[i]) = Tail(ReturnedIn(queue[i]))
           /\ UsedHead(queue[i]) = Head(ReturnedIn(queue[i]))
  <1>0. queue \in [Queues -> QueueType] /\ curr_queue \in Queues /\ drv \in DriverType
    BY DEF MmioInv, TypeOK
  <1>1. /\ HasUsed(queue[i]) /\ queue' = [queue EXCEPT ![i] = Collect(queue[i])]
        /\ chain' = chain /\ chain = NoChain /\ drv' = drv /\ curr_queue' = curr_queue
    BY DEF IsrCollect, GuestRuns, OnceInv
  <1>2. drv.pc = "live"
    BY <1>1, UnusedFacts DEF OnceInv
  <1>3. \A j \in Queues : /\ TakenFrom(j) = << >> /\ TakenFrom(j)' = << >>
                          /\ FlightInv(queue[j], << >>)
    BY <1>1, <1>2 DEF OnceInv, TakenFrom, Allocated
  <1> DEFINE p == Collect(queue[i])
  <1>4. /\ FlightInv(p, << >>)
        /\ ReturnedIn(queue[i]) # << >> /\ ReturnedIn(p) = Tail(ReturnedIn(queue[i]))
        /\ UsedHead(queue[i]) = Head(ReturnedIn(queue[i]))
    BY <1>1, <1>3, FlightCollect
  <1>5. p.ready = queue[i].ready /\ p.num = queue[i].num /\ p \in QueueType
    BY <1>0, <1>4 DEF Collect, QueueType, FlightInv
  <1>6. queue' = [queue EXCEPT ![i] = p]
    BY <1>1
  <1> HIDE DEF p
  <1>7. /\ queue' \in [Queues -> QueueType]
        /\ \A j \in Queues : queue'[j] = IF j = i THEN p ELSE queue[j]
    BY <1>0, <1>5, <1>6
  <1>8. \A j \in Queues : /\ FlightInv(queue'[j], TakenFrom(j)')
                          /\ queue'[j].ready = queue[j].ready /\ queue'[j].num = queue[j].num
    BY <1>3, <1>4, <1>5, <1>7
  <1>9. ReturnedIn(queue[i]) \in Seq(Heads)
    BY <1>3, FlightBounds
  <1>10. OnceInv'
    BY <1>1, <1>2, <1>7, <1>8, OnceKept
  <1> QED  BY <1>4, <1>7, <1>9, <1>10

\* The other steps leave the rings alone.
LEMMA OnceQuiet ==
    ASSUME MmioInv, OnceInv,
           \/ UNCHANGED mmioVars \/ StartPoll
           \/ \E i \in Queues : NotifyDone(i, FALSE) \/ NotifyDone(i, TRUE)
           \/ GuestRuns /\ (IsrEnter \/ IsrStatus \/ IsrAck \/ IsrLeave)
           \/ GuestRuns /\ \E i \in Queues : DriverNotify(i)
    PROVE  OnceInv' /\ queue' = queue
  <1>0. queue \in [Queues -> QueueType] /\ curr_queue \in Queues /\ drv \in DriverType
    BY DEF MmioInv, TypeOK
  <1>1. /\ queue' = queue /\ curr_queue' = curr_queue /\ chain' = chain
        /\ drv'.pc = drv.pc /\ drv'.setup = drv.setup /\ drv'.probes = drv.probes
        /\ chain = NoChain \/ work' = work
    BY <1>0 DEF mmioVars, StartPoll, NotifyDone, Serving, GuestRuns, IsrEnter, IsrStatus, IsrAck,
        IsrLeave, DriverNotify, WriteInterruptAck, WriteQueueNotify, OnceInv, DriverType
  <1>2. \A i \in Queues : TakenFrom(i)' = TakenFrom(i)
    BY <1>1 DEF TakenFrom
  <1>3. drv.pc = "live" => \A i \in Queues : FlightInv(queue'[i], TakenFrom(i)')
    BY <1>1, <1>2 DEF OnceInv, Allocated
  <1>4. /\ chain' # NoChain => work' # << >> /\ drv.pc = "live"
        /\ drv.pc # "live" => queue' = queue /\ chain' = NoChain
        /\ queue' \in [Queues -> QueueType]
    BY <1>0, <1>1 DEF OnceInv
  <1>5. \A i \in Queues : queue'[i].ready = queue[i].ready /\ queue'[i].num = queue[i].num
    BY <1>1
  <1> QED  BY <1>1, <1>3, <1>4, <1>5, OnceKept

\* Every step of a driver that sets the device up once keeps OnceInv.
LEMMA OnceNext ==
    ASSUME MaxProbes <= 1
    PROVE  MmioInv /\ OnceInv /\ [Next]_mmioVars => OnceInv'
  <1> SUFFICES ASSUME MmioInv, OnceInv, [Next]_mmioVars PROVE OnceInv'
    OBVIOUS
  <1>1. CASE UNCHANGED mmioVars \/ StartPoll
    BY <1>1, OnceQuiet
  <1>2. ASSUME NEW i \in Queues, Service(i) PROVE OnceInv'
    BY <1>2, OnceQuiet, OncePop, OncePush DEF Service
  <1>3. ASSUME GuestRuns, Guest PROVE OnceInv'
    BY <1>3, OnceSetup, OnceQuiet, OnceOffer, OnceCollect DEF Guest, Isr
  <1> QED  BY <1>1, <1>2, <1>3 DEF Next

\* With one setup the device only ever works on chains that it was given:
\* what the comment on pop_avail() says, and a second setup breaks.
THEOREM TakesOnlyAvailableOnce ==
    ASSUME MaxProbes <= 1
    PROVE  Spec => []TakesOnlyAvailable
  <1>1. MmioInv /\ OnceInv => TakesOnlyAvailable
    <2> SUFFICES ASSUME MmioInv, OnceInv, chain # NoChain
                 PROVE  chain \notin queue[Head(work)].free
      BY DEF TakesOnlyAvailable
    <2>1. drv.pc = "live" /\ Head(work) \in Queues
      BY DEF OnceInv, MmioInv, TypeOK, Queues
    <2>2. FlightInv(queue[Head(work)], <<chain>>)
      BY <2>1 DEF OnceInv, Allocated, TakenFrom
    <2> QED  BY <2>2, TakenNotReturned DEF MmioInv, TypeOK
  <1>2. MmioInv /\ OnceInv /\ [Next]_mmioVars => OnceInv'
    BY OnceNext
  <1> QED  BY <1>1, <1>2, OnceInit, MmioInvariance, PTL DEF Spec
=============================================================================
