-------------------------- MODULE VirtioBlkProofs ---------------------------
(***************************************************************************)
(* The virtqueue implements ChainQueue and loses no chain, and what the    *)
(* disk answers is true: for every ring size, index width and disk.        *)
(***************************************************************************)
EXTENDS VirtioBlk, VringProofs

-----------------------------------------------------------------------------
(* The rings.                                                              *)

DevPcs == {"avail_idx", "avail_slot", "process", "used_elem", "used_idx", "error"}

VqType == q \in QueueType /\ dev_pc \in DevPcs /\ chain \in Heads

\* The chains in flight, the one that is due back first in front.
InFlight == (Returned \o Taken) \o (Offered \o Staged)

\* The chains in flight are the ones that are not free, so that no ring ever
\* holds more than Num; the device that was told of a chain finds it, and the
\* used element it has written stays until the index covers it.
VqInv ==
    /\ VqType
    /\ Holds(InFlight, q.free)
    /\ dev_pc = "avail_slot" => HasAvail(q)
    /\ dev_pc = "used_idx" => q.used_ring[q.used_idx % Num] = chain

\* The parts of the chains in flight are those of a queue.
LEMMA VqFlight ==
    /\ Staged = StagedIn(q) /\ Offered = OfferedIn(q) /\ Returned = ReturnedIn(q)
    /\ Staged' = StagedIn(q') /\ Offered' = OfferedIn(q') /\ Returned' = ReturnedIn(q')
    /\ InFlight = Flight(q, Taken) /\ InFlight' = Flight(q', Taken')
    /\ Taken = IF InDevice THEN <<chain>> ELSE << >>
    /\ VqInv => FlightInv(q, Taken)
    /\ FlightInv(q', Taken') => q' \in QueueType /\ Holds(InFlight, q.free)'
  <1>1. Staged = StagedIn(q) /\ Offered = OfferedIn(q) /\ Returned = ReturnedIn(q)
    BY DEF Staged, Offered, Returned, StagedIn, OfferedIn, ReturnedIn
  <1>2. Staged' = StagedIn(q') /\ Offered' = OfferedIn(q') /\ Returned' = ReturnedIn(q')
    BY DEF Staged, Offered, Returned, StagedIn, OfferedIn, ReturnedIn
  <1>3. InFlight = Flight(q, Taken) /\ InFlight' = Flight(q', Taken')
    BY <1>1, <1>2 DEF InFlight, Flight
  <1>4. Taken = IF InDevice THEN <<chain>> ELSE << >>
    BY DEF Taken
  <1>5. VqInv => FlightInv(q, Taken)
    BY <1>3, <1>4 DEF VqInv, VqType, FlightInv
  <1>6. FlightInv(q', Taken') => q' \in QueueType /\ Holds(InFlight, q.free)'
    BY <1>3 DEF FlightInv, Holds
  <1> QED  BY <1>1, <1>2, <1>3, <1>4, <1>5, <1>6

\* The parts are sequences of heads, and the device has at most one chain.
LEMMA VqBounds ==
    ASSUME VqInv
    PROVE  /\ QueueFields(q) /\ chain \in Heads
           /\ Staged \in Seq(Heads) /\ Offered \in Seq(Heads)
           /\ Taken \in Seq(Heads) /\ Returned \in Seq(Heads)
           /\ Len(Taken) = IF InDevice THEN 1 ELSE 0
  <1>1. FlightInv(q, Taken) /\ chain \in Heads
    BY VqFlight DEF VqInv, VqType
  <1>2. /\ QueueFields(q) /\ StagedIn(q) \in Seq(Heads) /\ OfferedIn(q) \in Seq(Heads)
        /\ ReturnedIn(q) \in Seq(Heads) /\ Taken \in Seq(Heads)
    BY <1>1, FlightBounds
  <1>3. Len(Taken) = IF InDevice THEN 1 ELSE 0
    BY VqFlight
  <1> QED  BY <1>1, <1>2, <1>3, VqFlight

\* The driver stages a chain.
LEMMA StageStep ==
    ASSUME VqInv, NEW h \in q.free, q' = StageChain(q, h), UNCHANGED <<dev_pc, chain>>
    PROVE  /\ VqInv'
           /\ Abstract!Stage(h)
           /\ Offered' = Offered /\ Taken' = Taken /\ Returned' = Returned
           /\ Staged' = Append(Staged, h)
           /\ InFlight' = Append(InFlight, h)
  <1>1. FlightInv(q, Taken)
    BY VqFlight
  <1>2. Taken' = Taken
    BY DEF Taken, InDevice
  <1>3. /\ FlightInv(q', Taken) /\ Flight(q', Taken) = Append(Flight(q, Taken), h)
        /\ StagedIn(q') = Append(StagedIn(q), h)
        /\ OfferedIn(q') = OfferedIn(q) /\ ReturnedIn(q') = ReturnedIn(q)
        /\ q'.free = q.free \ {h} /\ q'.last_avail_idx = q.last_avail_idx
        /\ q'.avail_idx = q.avail_idx
        /\ q'.used_ring = q.used_ring /\ q'.used_idx = q.used_idx
    BY <1>1, FlightStage
  <1>4. /\ Offered' = Offered /\ Returned' = Returned /\ Staged' = Append(Staged, h)
        /\ InFlight' = Append(InFlight, h)
        /\ q' \in QueueType /\ Holds(InFlight, q.free)'
    BY <1>2, <1>3, VqFlight
  <1>5. VqInv'
    BY <1>3, <1>4 DEF VqInv, VqType, HasAvail
  <1> QED  BY <1>2, <1>3, <1>4, <1>5 DEF Abstract!Stage

\* The driver makes the staged chains visible.
LEMMA PublishStep ==
    ASSUME VqInv, DriverPublish
    PROVE  /\ VqInv'
           /\ Abstract!Offer
           /\ InFlight' = InFlight
           /\ Offered' = Offered \o Staged /\ Staged' = << >>
           /\ Taken' = Taken /\ Returned' = Returned
  <1>1. FlightInv(q, Taken) /\ q' = Publish(q) /\ HasStaged(q)
    BY VqFlight DEF DriverPublish
  <1>2. Taken' = Taken
    BY DEF Taken, InDevice, DriverPublish
  <1>3. /\ FlightInv(q', Taken) /\ Flight(q', Taken) = Flight(q, Taken)
        /\ StagedIn(q') = << >> /\ OfferedIn(q') = OfferedIn(q) \o StagedIn(q)
        /\ ReturnedIn(q') = ReturnedIn(q)
        /\ q'.free = q.free /\ q'.used_ring = q.used_ring /\ q'.used_idx = q.used_idx
        /\ HasAvail(q') /\ StagedIn(q) # << >>
    BY <1>1, FlightPublish
  <1>4. /\ Offered' = Offered \o Staged /\ Staged' = << >> /\ Staged # << >>
        /\ Returned' = Returned /\ InFlight' = InFlight
        /\ q' \in QueueType /\ Holds(InFlight, q.free)'
    BY <1>2, <1>3, VqFlight
  <1>5. VqInv'
    BY <1>3, <1>4 DEF VqInv, VqType, DriverPublish
  <1> QED  BY <1>2, <1>3, <1>4, <1>5 DEF Abstract!Offer

\* The driver collects the chain that is due back first.
LEMMA CollectStep ==
    ASSUME VqInv, DriverCollect
    PROVE  /\ VqInv'
           /\ Abstract!Collect
           /\ InFlight # << >> /\ InFlight' = Tail(InFlight)
           /\ Returned # << >> /\ UsedHead(q) = Head(Returned) /\ UsedHead(q) = InFlight[1]
           /\ Returned' = Tail(Returned) /\ Taken' = Taken
           /\ Offered' = Offered /\ Staged' = Staged
  <1>1. FlightInv(q, Taken) /\ q' = Collect(q) /\ HasUsed(q)
    BY VqFlight DEF DriverCollect
  <1>2. Taken' = Taken
    BY DEF Taken, InDevice, DriverCollect
  <1>3. /\ FlightInv(q', Taken)
        /\ Flight(q, Taken) # << >> /\ Flight(q', Taken) = Tail(Flight(q, Taken))
        /\ ReturnedIn(q) # << >> /\ ReturnedIn(q') = Tail(ReturnedIn(q))
        /\ UsedHead(q) = Head(ReturnedIn(q)) /\ UsedHead(q) = Head(Flight(q, Taken))
        /\ OfferedIn(q') = OfferedIn(q) /\ StagedIn(q') = StagedIn(q)
        /\ q'.free = q.free \cup {UsedHead(q)} /\ q'.last_avail_idx = q.last_avail_idx
        /\ q'.avail_idx = q.avail_idx
        /\ q'.used_ring = q.used_ring /\ q'.used_idx = q.used_idx
    BY <1>1, FlightCollect
  <1>4. /\ InFlight # << >> /\ InFlight' = Tail(InFlight) /\ UsedHead(q) = Head(InFlight)
        /\ Returned # << >> /\ UsedHead(q) = Head(Returned) /\ Returned' = Tail(Returned)
        /\ Offered' = Offered /\ Staged' = Staged
        /\ q' \in QueueType /\ Holds(InFlight, q.free)'
    BY <1>2, <1>3, VqFlight
  <1>5. VqInv'
    BY <1>3, <1>4 DEF VqInv, VqType, DriverCollect, HasAvail
  <1>6. InFlight[1] = Head(InFlight)
    BY <1>4 DEF VqInv, Holds
  <1> QED  BY <1>2, <1>3, <1>4, <1>5, <1>6 DEF Abstract!Collect

\* The device takes the chain that was offered first.
LEMMA TakeStep ==
    ASSUME VqInv, ReadAvailSlot
    PROVE  /\ VqInv'
           /\ Abstract!Take
           /\ InFlight' = InFlight
           /\ Returned' = Returned /\ Taken = << >> /\ Taken' = <<chain'>> /\ Staged' = Staged
           /\ Offered # << >> /\ chain' = Head(Offered) /\ Offered' = Tail(Offered)
  <1>1. q' = PopAvail(q) /\ chain' = NextHead(q) /\ HasAvail(q) /\ dev_pc' = "process"
    BY DEF ReadAvailSlot, VqInv
  <1>2. Taken = << >> /\ Taken' = <<chain'>>
    BY <1>1 DEF Taken, InDevice, ReadAvailSlot
  <1>3. FlightInv(q, << >>)
    BY <1>2, VqFlight
  <1>4. /\ FlightInv(q', <<chain'>>) /\ Flight(q', <<chain'>>) = Flight(q, << >>)
        /\ OfferedIn(q) # << >> /\ chain' = Head(OfferedIn(q)) /\ chain' \in Heads
        /\ OfferedIn(q') = Tail(OfferedIn(q))
        /\ ReturnedIn(q') = ReturnedIn(q) /\ StagedIn(q') = StagedIn(q)
        /\ q'.free = q.free
    BY <1>1, <1>3, FlightPop
  <1>5. /\ InFlight' = InFlight /\ Returned' = Returned /\ Staged' = Staged
        /\ Offered # << >> /\ chain' = Head(Offered) /\ Offered' = Tail(Offered)
        /\ q' \in QueueType /\ Holds(InFlight, q.free)'
    BY <1>2, <1>4, VqFlight
  <1>6. VqInv'
    BY <1>1, <1>4, <1>5 DEF VqInv, VqType, DevPcs
  <1> QED  BY <1>2, <1>4, <1>5, <1>6 DEF Abstract!Take

\* The device looks at avail.idx, and processes a chain: it holds what it held.
LEMMA QuietStep ==
    ASSUME VqInv, ReadAvailIdx \/ Processed \/ ProcessFails
    PROVE  /\ VqInv'
           /\ InFlight' = InFlight
           /\ Returned' = Returned /\ Taken' = Taken
           /\ Offered' = Offered /\ Staged' = Staged
           /\ q' = q
  <1>1. /\ q' = q /\ chain' = chain /\ dev_pc' \in DevPcs /\ dev_pc' # "used_idx"
        /\ InDevice' = InDevice
        /\ dev_pc' = "avail_slot" => HasAvail(q)
    BY DEF ReadAvailIdx, Processed, ProcessFails, DevPcs, InDevice
  <1>2. Returned' = Returned /\ Taken' = Taken /\ Offered' = Offered /\ Staged' = Staged
    BY <1>1 DEF Returned, Taken, Offered, Staged
  <1>3. InFlight' = InFlight
    BY <1>2 DEF InFlight
  <1>4. VqInv'
    BY <1>1, <1>3 DEF VqInv, VqType, Holds
  <1> QED  BY <1>1, <1>2, <1>3, <1>4

\* The device writes the used element: the driver has read what was there.
LEMMA ElemStep ==
    ASSUME VqInv, WriteUsedElem
    PROVE  /\ VqInv'
           /\ InFlight' = InFlight
           /\ Returned' = Returned /\ Taken' = Taken
           /\ Offered' = Offered /\ Staged' = Staged
           /\ q'.free = q.free
  <1>1. /\ q' = PushElem(q, chain) /\ chain' = chain /\ dev_pc' = "used_idx"
        /\ chain \in Heads
    BY DEF WriteUsedElem, VqInv, VqType
  <1>2. Taken = <<chain>> /\ Taken' = <<chain>>
    BY <1>1 DEF Taken, InDevice, WriteUsedElem
  <1>3. FlightInv(q, <<chain>>)
    BY <1>2, VqFlight
  <1>4. /\ FlightInv(q', <<chain>>) /\ Flight(q', <<chain>>) = Flight(q, <<chain>>)
        /\ ReturnedIn(q') = ReturnedIn(q)
        /\ OfferedIn(q') = OfferedIn(q) /\ StagedIn(q') = StagedIn(q)
        /\ q'.free = q.free
        /\ q'.used_ring[q'.used_idx % Num] = chain
    BY <1>1, <1>3, FlightElem
  <1>5. /\ InFlight' = InFlight /\ Returned' = Returned
        /\ Offered' = Offered /\ Staged' = Staged
        /\ q' \in QueueType /\ Holds(InFlight, q.free)'
    BY <1>2, <1>4, VqFlight
  <1>6. VqInv'
    BY <1>1, <1>4, <1>5 DEF VqInv, VqType, DevPcs
  <1> QED  BY <1>2, <1>4, <1>5, <1>6

\* The index covers the element: the chain is back.
LEMMA ReturnStep ==
    ASSUME VqInv, WriteUsedIdx
    PROVE  /\ VqInv'
           /\ Abstract!Return
           /\ InFlight' = InFlight
           /\ Taken = <<chain>> /\ Taken' = << >>
           /\ Returned' = Append(Returned, chain)
           /\ Offered' = Offered /\ Staged' = Staged
  <1>1. /\ q' = PushIdx(q) /\ chain' = chain /\ dev_pc' = "avail_idx"
        /\ chain \in Heads /\ q.used_ring[q.used_idx % Num] = chain
    BY DEF WriteUsedIdx, VqInv, VqType
  <1>2. Taken = <<chain>> /\ Taken' = << >>
    BY <1>1 DEF Taken, InDevice, WriteUsedIdx
  <1>3. FlightInv(q, <<chain>>)
    BY <1>2, VqFlight
  <1>4. /\ FlightInv(q', << >>) /\ Flight(q', << >>) = Flight(q, <<chain>>)
        /\ ReturnedIn(q') = Append(ReturnedIn(q), chain)
        /\ OfferedIn(q') = OfferedIn(q) /\ StagedIn(q') = StagedIn(q)
        /\ q'.free = q.free
    BY <1>1, <1>3, FlightIdx
  <1>5. /\ InFlight' = InFlight /\ Returned' = Append(Returned, chain)
        /\ Offered' = Offered /\ Staged' = Staged
        /\ q' \in QueueType /\ Holds(InFlight, q.free)'
    BY <1>2, <1>4, VqFlight
  <1>6. VqInv'
    BY <1>1, <1>5 DEF VqInv, VqType, DevPcs
  <1>7. Taken # << >> /\ Returned \o <<chain>> = Append(Returned, chain)
    BY <1>1, <1>2, VqBounds, AppendIsConcat
  <1> QED  BY <1>2, <1>4, <1>5, <1>6, <1>7 DEF Abstract!Return

-----------------------------------------------------------------------------
(* The queue in the disk.                                                  *)

\* Processing a chain, in the queue's terms.
LEMMA ProcessIsQuiet == Process => Processed \/ ProcessFails
  BY DEF Process, ProcessIn, ProcessOut, ProcessFlush, ProcessUnknown, ProcessMalformed,
         Answer, AnswerPanics

\* The machine starts with empty rings and an empty flight.
LEMMA VqInvInit == BlkInit => VqInv /\ Abstract!Init
  <1> SUFFICES ASSUME BlkInit PROVE VqInv /\ Abstract!Init
    OBVIOUS
  <1>1. /\ q.last_avail_idx = 0 /\ q.avail_idx = 0 /\ q.shadow = 0
        /\ q.used_idx = 0 /\ q.last_used = 0 /\ q.free = Heads
        /\ q \in QueueType /\ dev_pc = "avail_idx" /\ chain = 0 /\ chain \in Heads
    BY IndexFacts DEF BlkInit, Init, AllocRings, NewQueue, ZeroRing, QueueType
  <1>2. Taken = << >>
    BY <1>1 DEF Taken, InDevice
  <1>3. /\ FlightInv(q, << >>) /\ Flight(q, << >>) = << >>
        /\ StagedIn(q) = << >> /\ OfferedIn(q) = << >> /\ ReturnedIn(q) = << >>
    BY <1>1, FlightEmpty
  <1>4. Staged = << >> /\ Offered = << >> /\ Returned = << >>
    BY <1>3, VqFlight
  <1>5. InFlight = Flight(q, << >>)
    BY <1>2, VqFlight
  <1>6. Holds(InFlight, q.free)
    BY <1>3, <1>5 DEF FlightInv
  <1>7. VqInv
    BY <1>1, <1>6 DEF VqInv, VqType, DevPcs
  <1> QED  BY <1>1, <1>2, <1>4, <1>7 DEF Abstract!Init

\* Each step of the disk and its driver is a step of ChainQueue, or none.
LEMMA VqInvNext ==
    ASSUME VqInv, [Next]_vars
    PROVE  VqInv' /\ [Abstract!Next]_(Abstract!cqVars)
  <1> USE DEF Abstract!Next, Abstract!cqVars
  <1>1. CASE \E r \in Requests : Submit(r)
    <2>1. PICK h \in q.free : q' = StageChain(q, h)
      BY <1>1 DEF Submit
    <2>2. UNCHANGED <<dev_pc, chain>>
      BY <1>1 DEF Submit
    <2>3. h \in Heads
      BY VqBounds DEF QueueFields
    <2> QED  BY <2>1, <2>2, <2>3, StageStep
  <1>2. CASE PublishRequests
    BY <1>2, PublishStep DEF PublishRequests
  <1>3. CASE CollectRequest
    BY <1>3, CollectStep DEF CollectRequest
  <1>4. CASE Process
    BY <1>4, ProcessIsQuiet, QuietStep
  <1>5. CASE ReadAvailIdx
    BY <1>5, QuietStep
  <1>6. CASE ReadAvailSlot
    BY <1>6, TakeStep
  <1>7. CASE WriteUsedElem
    BY <1>7, ElemStep
  <1>8. CASE WriteUsedIdx
    BY <1>8, ReturnStep
  <1>9. CASE UNCHANGED vars
    <2>1. q' = q /\ dev_pc' = dev_pc /\ chain' = chain
      BY <1>9 DEF vars, vqVars
    <2>2. Returned' = Returned /\ Taken' = Taken /\ Offered' = Offered /\ Staged' = Staged
      BY <2>1 DEF Returned, Taken, InDevice, Offered, Staged
    <2>3. InFlight' = InFlight
      BY <2>2 DEF InFlight
    <2>4. VqInv'
      BY <2>1, <2>3 DEF VqInv, VqType, Holds
    <2> QED  BY <2>1, <2>2, <2>4
  <1> QED  BY <1>1, <1>2, <1>3, <1>4, <1>5, <1>6, <1>7, <1>8, <1>9 DEF Next, Device, Ring

\* A virtqueue is a queue of chains across the wrap-around of its indices, for
\* every ring size and index width (pop_avail(), push_used()).
THEOREM ImplementsChainQueueCorrect == FairSpec => ImplementsChainQueue
  <1>1. BlkInit => VqInv /\ Abstract!Init
    BY VqInvInit
  <1>2. VqInv /\ [Next]_vars => VqInv' /\ [Abstract!Next]_(Abstract!cqVars)
    BY VqInvNext
  <1> QED  BY <1>1, <1>2, PTL DEF FairSpec, ImplementsChainQueue, Abstract!Spec

-----------------------------------------------------------------------------
(* No chain is lost.                                                       *)

Has(s, h) == \E i \in 1..Len(s) : s[i] = h

\* A head is in a concatenation if it is in one of the two sequences.
LEMMA ConcatHas ==
    ASSUME NEW s \in Seq(Heads), NEW t \in Seq(Heads), NEW h
    PROVE  Has(s \o t, h) <=> Has(s, h) \/ Has(t, h)
  <1> DEFINE u == s \o t
  <1>1. /\ Len(u) = Len(s) + Len(t) /\ Len(s) \in Nat /\ Len(t) \in Nat
        /\ \A i \in 1..(Len(s) + Len(t)) : u[i] = IF i <= Len(s) THEN s[i] ELSE t[i - Len(s)]
    BY ConcatProperties
  <1> HIDE DEF u
  <1>2. ASSUME Has(u, h) PROVE Has(s, h) \/ Has(t, h)
    <2>1. PICK i \in 1..(Len(s) + Len(t)) : u[i] = h
      BY <1>1, <1>2 DEF Has
    <2>2. CASE i <= Len(s)
      <3>1. i \in 1..Len(s) /\ s[i] = h
        BY <1>1, <2>1, <2>2
      <3> QED  BY <3>1 DEF Has
    <2>3. CASE ~(i <= Len(s))
      <3>1. i - Len(s) \in 1..Len(t) /\ t[i - Len(s)] = h
        BY <1>1, <2>1, <2>3
      <3> QED  BY <3>1 DEF Has
    <2> QED  BY <2>2, <2>3
  <1>3. ASSUME Has(s, h) PROVE Has(u, h)
    <2>1. PICK i \in 1..Len(s) : s[i] = h
      BY <1>3 DEF Has
    <2>2. i \in 1..Len(u) /\ u[i] = h
      BY <1>1, <2>1
    <2> QED  BY <2>2 DEF Has
  <1>4. ASSUME Has(t, h) PROVE Has(u, h)
    <2>1. PICK i \in 1..Len(t) : t[i] = h
      BY <1>4 DEF Has
    <2>2. i + Len(s) \in 1..Len(u) /\ ~(i + Len(s) <= Len(s)) /\ (i + Len(s)) - Len(s) = i
      BY <1>1, <2>1
    <2>3. u[i + Len(s)] = h
      BY <1>1, <2>1, <2>2
    <2> QED  BY <2>2, <2>3 DEF Has
  <1> QED  BY <1>2, <1>3, <1>4 DEF u

\* What VqInv says of the chains in flight is what ChainsConserved says.
LEMMA ConservedFromInv ==
    ASSUME VqInv
    PROVE  ChainsConserved
  <1> DEFINE so == Staged \o Offered
             sot == so \o Taken
             all == sot \o Returned
             rt == Returned \o Taken
             os == Offered \o Staged
  <1>1. /\ Staged \in Seq(Heads) /\ Offered \in Seq(Heads)
        /\ Taken \in Seq(Heads) /\ Returned \in Seq(Heads)
    BY VqBounds
  <1>2. /\ so \in Seq(Heads) /\ Len(so) = Len(Staged) + Len(Offered)
        /\ rt \in Seq(Heads) /\ Len(rt) = Len(Returned) + Len(Taken)
        /\ os \in Seq(Heads) /\ Len(os) = Len(Offered) + Len(Staged)
    BY <1>1, ConcatProperties
  <1>3. InFlight = rt \o os
    BY DEF InFlight
  <1>4. \A h : /\ Has(so, h) <=> Has(Staged, h) \/ Has(Offered, h)
               /\ Has(rt, h) <=> Has(Returned, h) \/ Has(Taken, h)
               /\ Has(os, h) <=> Has(Offered, h) \/ Has(Staged, h)
    BY <1>1, ConcatHas
  <1> HIDE DEF so, rt, os
  <1>5. sot \in Seq(Heads) /\ Len(sot) = Len(so) + Len(Taken)
    BY <1>1, <1>2, ConcatProperties
  <1>6. \A h : Has(sot, h) <=> Has(so, h) \/ Has(Taken, h)
    BY <1>1, <1>2, ConcatHas
  <1> HIDE DEF sot
  <1>7. all \in Seq(Heads) /\ Len(all) = Len(sot) + Len(Returned)
    BY <1>1, <1>5, ConcatProperties
  <1>8. \A h : Has(all, h) <=> Has(sot, h) \/ Has(Returned, h)
    BY <1>1, <1>5, ConcatHas
  <1>9. Len(InFlight) = Len(rt) + Len(os)
    BY <1>2, <1>3, ConcatProperties
  <1>10. \A h : Has(InFlight, h) <=> Has(rt, h) \/ Has(os, h)
    BY <1>2, <1>3, ConcatHas
  <1>11. Staged \o Offered \o Taken \o Returned = all
    BY DEF so, sot
  <1> HIDE DEF all
  <1>12. Len(all) = Num - Cardinality(q.free)
    <2>1. Len(InFlight) = Num - Cardinality(q.free)
      BY DEF VqInv, Holds
    <2>2. /\ Len(Staged) \in Nat /\ Len(Offered) \in Nat /\ Len(Taken) \in Nat
          /\ Len(Returned) \in Nat
      BY <1>1, LenProperties
    <2> QED  BY <1>2, <1>5, <1>7, <1>9, <2>1, <2>2
  <1>13. \A h \in Heads \ q.free : \E i \in DOMAIN all : all[i] = h
    <2> SUFFICES ASSUME NEW h \in Heads \ q.free PROVE Has(all, h)
      BY <1>7, LenProperties DEF Has
    <2>1. Has(InFlight, h)
      BY DEF VqInv, Holds, Has
    <2> QED  BY <1>4, <1>6, <1>8, <1>10, <2>1
  <1> QED  BY <1>11, <1>12, <1>13 DEF ChainsConserved

\* No chain is lost or doubled between the driver, the rings and the device,
\* for every ring size and index width (queue.rs).
THEOREM ChainsConservedCorrect == FairSpec => []ChainsConserved
  <1>1. BlkInit => VqInv
    BY VqInvInit
  <1>2. VqInv /\ [Next]_vars => VqInv'
    BY VqInvNext
  <1>3. VqInv => ChainsConserved
    BY ConservedFromInv
  <1> QED  BY <1>1, <1>2, <1>3, PTL DEF FairSpec

-----------------------------------------------------------------------------
(* What the disk answers.                                                  *)

Statuses == {"none", "ok", "ioerr", "unsupp"}

DiskType ==
    /\ req \in [Heads -> RequestType]
    /\ data \in [Heads -> Seq(Values)]
    /\ status \in [Heads -> Statuses]
    /\ used_len \in [Heads -> Nat]
    /\ disk \in [Bytes -> Values]
    /\ expect \in [Bytes -> SUBSET Values]

\* How many of the chains in flight are answered: those returned, and the one
\* the device has processed and is returning.
Done == Len(Returned) + (IF dev_pc \in {"used_elem", "used_idx"} THEN 1 ELSE 0)

\* An answer that is true as far as the request alone can tell.
TrueAnswer(r, bytes, st, len) ==
    /\ st # "none"
    /\ len <= Len(bytes) + 1
    /\ st # "ok" => len = 1
    /\ Len(bytes) + 1 < U32 /\ st = "ok" => len = Len(bytes) + 1
    /\ r.type \in {"in", "out"} /\ st = "ok" => OnDisk(r)
    /\ r.type = "in" /\ st = "ok" => Len(bytes) = r.len

Covers(r, b) == r.type = "out" /\ OnDisk(r) /\ b \in Named(r)

\* Byte b may hold v once the first n of the requests in s are answered: one of
\* them wrote it, or it was there, and no acknowledged write came after it.
MayHold(v, b, n, s, rq, st, ex) ==
    \/ /\ v \in ex[b]
       /\ \A j \in 1..n : ~(Covers(rq[s[j]], b) /\ st[s[j]] = "ok")
    \/ \E i \in 1..n :
        /\ Covers(rq[s[i]], b) /\ rq[s[i]].value = v
        /\ \A j \in (i + 1)..n : ~(Covers(rq[s[j]], b) /\ st[s[j]] = "ok")

\* Answers are true, and buffers are empty until there is one, or a panic.
AnswersInv ==
    \A i \in 1..Len(InFlight) :
        IF i <= Done
        THEN TrueAnswer(req[InFlight[i]], data[InFlight[i]],
                        status[InFlight[i]], used_len[InFlight[i]])
        ELSE data[InFlight[i]] = << >> \/ dev_pc = "error"

\* The file holds what the requests answered so far may have left there.
FileInv ==
    \A b \in Bytes : MayHold(disk[b], b, Done, InFlight, req, status, expect)

\* A read returns what the requests answered before it may have left there.
ReadsInv ==
    \A i \in 1..Done :
        req[InFlight[i]].type = "in" /\ status[InFlight[i]] = "ok" =>
            \A k \in 1..req[InFlight[i]].len :
                MayHold(data[InFlight[i]][k], Start(req[InFlight[i]]) + k - 1, i - 1,
                        InFlight, req, status, expect)

DiskInv == VqInv /\ DiskType /\ AnswersInv /\ FileInv /\ ReadsInv

\* MayHold depends on the first n requests and on what b held before them.
LEMMA MayHoldKept ==
    ASSUME NEW v, NEW b, NEW n \in Nat, NEW s, NEW rq, NEW st, NEW ex,
           NEW s2, NEW rq2, NEW st2, NEW ex2,
           MayHold(v, b, n, s, rq, st, ex), ex2[b] = ex[b],
           \A j \in 1..n : /\ s2[j] = s[j] /\ rq2[s[j]] = rq[s[j]] /\ st2[s[j]] = st[s[j]]
    PROVE  MayHold(v, b, n, s2, rq2, st2, ex2)
  <1>1. \A i \in 1..n : \A j \in (i + 1)..n : j \in 1..n
    OBVIOUS
  <1>2. CASE v \in ex[b] /\ \A j \in 1..n : ~(Covers(rq[s[j]], b) /\ st[s[j]] = "ok")
    BY <1>2 DEF MayHold
  <1>3. ASSUME NEW i \in 1..n, Covers(rq[s[i]], b) /\ rq[s[i]].value = v,
               \A j \in (i + 1)..n : ~(Covers(rq[s[j]], b) /\ st[s[j]] = "ok")
        PROVE  MayHold(v, b, n, s2, rq2, st2, ex2)
    <2>1. Covers(rq2[s2[i]], b) /\ rq2[s2[i]].value = v
      BY <1>3
    <2>2. \A j \in (i + 1)..n : ~(Covers(rq2[s2[j]], b) /\ st2[s2[j]] = "ok")
      BY <1>1, <1>3
    <2> QED  BY <2>1, <2>2 DEF MayHold
  <1> QED  BY <1>2, <1>3 DEF MayHold

\* The status of a later request does not matter.
LEMMA MayHoldStatus ==
    ASSUME NEW v, NEW b, NEW n \in Nat, NEW s, NEW rq, NEW st, NEW ex, NEW st2,
           MayHold(v, b, n, s, rq, st, ex),
           \A j \in 1..n : st2[s[j]] = st[s[j]]
    PROVE  MayHold(v, b, n, s, rq, st2, ex)
  <1>1. \A j \in 1..n : /\ s[j] = s[j] /\ rq[s[j]] = rq[s[j]] /\ st2[s[j]] = st[s[j]]
    OBVIOUS
  <1>2. ex[b] = ex[b]
    OBVIOUS
  <1> QED  BY <1>1, <1>2, MayHoldKept

\* One more request that is no acknowledged write of b.
LEMMA MayHoldOneMore ==
    ASSUME NEW v, NEW b, NEW n \in Nat, NEW s, NEW rq, NEW st, NEW ex,
           MayHold(v, b, n, s, rq, st, ex),
           ~(Covers(rq[s[n + 1]], b) /\ st[s[n + 1]] = "ok")
    PROVE  MayHold(v, b, n + 1, s, rq, st, ex)
  <1>1. \A j \in 1..(n + 1) : j \in 1..n \/ j = n + 1
    OBVIOUS
  <1>2. CASE v \in ex[b] /\ \A j \in 1..n : ~(Covers(rq[s[j]], b) /\ st[s[j]] = "ok")
    BY <1>1, <1>2 DEF MayHold
  <1>3. ASSUME NEW i \in 1..n, Covers(rq[s[i]], b) /\ rq[s[i]].value = v,
               \A j \in (i + 1)..n : ~(Covers(rq[s[j]], b) /\ st[s[j]] = "ok")
        PROVE  MayHold(v, b, n + 1, s, rq, st, ex)
    <2>1. i \in 1..(n + 1) /\ \A j \in (i + 1)..(n + 1) : j \in (i + 1)..n \/ j = n + 1
      OBVIOUS
    <2>2. \A j \in (i + 1)..(n + 1) : ~(Covers(rq[s[j]], b) /\ st[s[j]] = "ok")
      BY <1>3, <2>1
    <2> QED  BY <1>3, <2>1, <2>2 DEF MayHold
  <1> QED  BY <1>2, <1>3 DEF MayHold

\* One more request that writes b.
LEMMA MayHoldWrite ==
    ASSUME NEW b, NEW n \in Nat, NEW s, NEW rq, NEW st, NEW ex, Covers(rq[s[n + 1]], b)
    PROVE  MayHold(rq[s[n + 1]].value, b, n + 1, s, rq, st, ex)
  <1>1. n + 1 \in 1..(n + 1) /\ \A j \in ((n + 1) + 1)..(n + 1) : FALSE
    OBVIOUS
  <1> QED  BY <1>1 DEF MayHold

\* The first request is collected: what it may have left is what b may hold now.
LEMMA MayHoldCollect ==
    ASSUME NEW v, NEW b, NEW n \in Nat, NEW s, NEW rq, NEW st, NEW ex,
           NEW s2, NEW rq2, NEW st2, NEW ex2,
           MayHold(v, b, n + 1, s, rq, st, ex),
           ~Covers(rq[s[1]], b) => ex2[b] = ex[b],
           Covers(rq[s[1]], b) /\ st[s[1]] = "ok" => ex2[b] = {rq[s[1]].value},
           Covers(rq[s[1]], b) /\ st[s[1]] # "ok" => ex2[b] = ex[b] \cup {rq[s[1]].value},
           \A j \in 1..n : /\ s2[j] = s[j + 1] /\ rq2[s[j + 1]] = rq[s[j + 1]]
                           /\ st2[s[j + 1]] = st[s[j + 1]]
    PROVE  MayHold(v, b, n, s2, rq2, st2, ex2)
  <1>1. /\ 1 \in 1..(n + 1) /\ \A j \in 1..n : j + 1 \in 1..(n + 1) /\ j + 1 \in (1 + 1)..(n + 1)
        /\ \A i \in 1..(n + 1) : i = 1 \/ (i - 1 \in 1..n /\ (i - 1) + 1 = i)
    OBVIOUS
  <1>2. CASE v \in ex[b] /\ \A j \in 1..(n + 1) : ~(Covers(rq[s[j]], b) /\ st[s[j]] = "ok")
    <2>1. v \in ex2[b]
      BY <1>1, <1>2
    <2>2. \A j \in 1..n : ~(Covers(rq2[s2[j]], b) /\ st2[s2[j]] = "ok")
      BY <1>1, <1>2
    <2> QED  BY <2>1, <2>2 DEF MayHold
  <1>3. ASSUME NEW i \in 1..(n + 1), Covers(rq[s[i]], b) /\ rq[s[i]].value = v,
               \A j \in (i + 1)..(n + 1) : ~(Covers(rq[s[j]], b) /\ st[s[j]] = "ok")
        PROVE  MayHold(v, b, n, s2, rq2, st2, ex2)
    <2>1. CASE i = 1
      <3>1. v \in ex2[b]
        BY <1>3, <2>1
      <3>2. \A j \in 1..n : ~(Covers(rq2[s2[j]], b) /\ st2[s2[j]] = "ok")
        BY <1>1, <1>3, <2>1
      <3> QED  BY <3>1, <3>2 DEF MayHold
    <2>2. CASE i # 1
      <3> DEFINE m == i - 1
      <3>1. m \in 1..n /\ m + 1 = i
        BY <1>1, <2>2
      <3>2. \A j \in (m + 1)..n : j \in 1..n /\ j + 1 \in (i + 1)..(n + 1)
        BY <3>1
      <3> HIDE DEF m
      <3>3. Covers(rq2[s2[m]], b) /\ rq2[s2[m]].value = v
        BY <1>3, <3>1
      <3>4. \A j \in (m + 1)..n : ~(Covers(rq2[s2[j]], b) /\ st2[s2[j]] = "ok")
        BY <1>3, <3>2
      <3> QED  BY <3>1, <3>3, <3>4 DEF MayHold
    <2> QED  BY <2>1, <2>2
  <1> QED  BY <1>2, <1>3 DEF MayHold

\* The bytes of a request on the disk are bytes of the file.
LEMMA OnDiskBytes ==
    ASSUME NEW r \in RequestType, OnDisk(r)
    PROVE  /\ Start(r) \in Nat /\ r.len \in Nat
           /\ \A k \in 1..r.len : Start(r) + k - 1 \in Bytes /\ Start(r) + k - 1 \in Named(r)
  <1>1. r.sector \in Nat /\ r.len \in Nat /\ SECTOR_SIZE \in Nat /\ FileLen \in Nat
    BY DiskAssumption DEF RequestType
  <1>2. Start(r) \in Nat
    BY <1>1 DEF Start
  <1>3. Start(r) + r.len <= capacity * SECTOR_SIZE
    BY DEF OnDisk
  <1>4. capacity * SECTOR_SIZE <= FileLen /\ capacity * SECTOR_SIZE \in Int
    <2> DEFINE d == FileLen \div SECTOR_SIZE
               m == FileLen % SECTOR_SIZE
    <2>1. SECTOR_SIZE > 0
      BY DiskAssumption
    <2>2. d \in Int /\ m \in 0..(SECTOR_SIZE - 1) /\ FileLen = d * SECTOR_SIZE + m
      BY <1>1, <2>1
    <2> HIDE DEF d, m
    <2>3. d * SECTOR_SIZE \in Int
      BY <1>1, <2>2
    <2>4. d * SECTOR_SIZE <= FileLen
      BY <1>1, <2>2, <2>3
    <2> QED  BY <2>3, <2>4 DEF capacity, d
  <1> DEFINE c == capacity * SECTOR_SIZE
  <1>5. c \in Int /\ c <= FileLen /\ Start(r) + r.len <= c
    BY <1>3, <1>4
  <1> HIDE DEF c
  <1>6. \A k \in 1..r.len : Start(r) + k - 1 \in Bytes /\ Start(r) + k - 1 \in Named(r)
    BY <1>1, <1>2, <1>5 DEF Bytes, Named
  <1> QED  BY <1>1, <1>2, <1>6

\* disk_offset() lets no request through that is not on the disk.
LEMMA OffsetOnDisk ==
    ASSUME NEW r \in RequestType, Offset(r) # PastEnd
    PROVE  Offset(r) = Start(r) /\ OnDisk(r)
  BY DEF Offset, disk_offset, Start, OnDisk

\* The chains that are answered come first, and the chain in the device next.
LEMMA DoneFacts ==
    ASSUME VqInv
    PROVE  /\ Done \in Nat /\ Done <= Len(InFlight) /\ Len(InFlight) \in Nat
           /\ Len(Returned) \in Nat /\ Len(Returned) <= Done
           /\ \A i \in 1..Len(Returned) : Returned[i] = InFlight[i]
           /\ \A i \in 1..Len(InFlight) : InFlight[i] \in Heads \ q.free
           /\ \A i, j \in 1..Len(InFlight) : InFlight[i] = InFlight[j] => i = j
           /\ InDevice => /\ Len(Returned) + 1 \in 1..Len(InFlight)
                          /\ InFlight[Len(Returned) + 1] = chain
  <1> DEFINE rt == Returned \o Taken
             os == Offered \o Staged
  <1>1. /\ rt \in Seq(Heads) /\ os \in Seq(Heads) /\ Returned \in Seq(Heads) /\ Taken \in Seq(Heads)
        /\ Len(rt) = Len(Returned) + Len(Taken)
        /\ \A i \in 1..(Len(Returned) + Len(Taken)) :
               rt[i] = IF i <= Len(Returned) THEN Returned[i] ELSE Taken[i - Len(Returned)]
    BY VqBounds, ConcatProperties
  <1>2. Len(rt) \in Nat /\ Len(os) \in Nat /\ Len(Returned) \in Nat /\ Len(Taken) \in Nat
    BY <1>1, LenProperties
  <1>3. InFlight = rt \o os
    BY DEF InFlight
  <1> HIDE DEF rt, os
  <1>4. /\ Len(InFlight) = Len(rt) + Len(os)
        /\ \A i \in 1..(Len(rt) + Len(os)) : InFlight[i] = IF i <= Len(rt) THEN rt[i] ELSE os[i - Len(rt)]
    BY <1>1, <1>3, ConcatProperties
  <1>5. \A i \in 1..Len(Returned) : Returned[i] = InFlight[i]
    <2> SUFFICES ASSUME NEW i \in 1..Len(Returned) PROVE Returned[i] = InFlight[i]
      OBVIOUS
    <2>1. /\ i \in 1..(Len(rt) + Len(os)) /\ i <= Len(rt)
          /\ i \in 1..(Len(Returned) + Len(Taken)) /\ i <= Len(Returned)
      BY <1>1, <1>2
    <2> QED  BY <1>1, <1>4, <2>1
  <1>6. /\ Done \in Nat /\ Len(Returned) <= Done /\ Done <= Len(InFlight)
    <2>1. dev_pc \in {"used_elem", "used_idx"} => Len(Taken) = 1
      BY VqBounds DEF InDevice
    <2>2. Len(InFlight) = Len(Returned) + Len(Taken) + Len(os)
      BY <1>1, <1>4
    <2>3. (Done = Len(Returned) + 1 /\ Len(Taken) = 1) \/ Done = Len(Returned) + 0
      BY <2>1 DEF Done
    <2> DEFINE a == Len(Returned)
               t == Len(Taken)
               o == Len(os)
               l == Len(InFlight)
    <2>4. a \in Nat /\ t \in Nat /\ o \in Nat /\ l = a + t + o
          /\ ((Done = a + 1 /\ t = 1) \/ Done = a + 0)
      BY <1>2, <2>2, <2>3
    <2> HIDE DEF a, t, o, l
    <2>5. Done \in Nat /\ a <= Done /\ Done <= l
      BY <2>4
    <2> QED  BY <2>5 DEF a, l
  <1>7. /\ \A i \in 1..Len(InFlight) : InFlight[i] \in Heads \ q.free
        /\ \A i, j \in 1..Len(InFlight) : InFlight[i] = InFlight[j] => i = j
    BY DEF VqInv, Holds
  <1>8. ASSUME InDevice
        PROVE  Len(Returned) + 1 \in 1..Len(InFlight) /\ InFlight[Len(Returned) + 1] = chain
    <2>1. Taken = <<chain>> /\ Len(Taken) = 1 /\ Taken[1] = chain
      BY <1>8 DEF Taken
    <2> DEFINE n == Len(Returned) + 1
    <2>2. /\ n \in 1..(Len(rt) + Len(os)) /\ n <= Len(rt) /\ n \in 1..(Len(Returned) + Len(Taken))
          /\ ~(n <= Len(Returned)) /\ n - Len(Returned) = 1
      BY <1>1, <1>2, <2>1
    <2> HIDE DEF n
    <2>3. InFlight[n] = rt[n] /\ rt[n] = Taken[1]
      BY <1>1, <1>4, <2>2
    <2> QED  BY <1>4, <2>1, <2>2, <2>3 DEF n
  <1> QED  BY <1>2, <1>4, <1>5, <1>6, <1>7, <1>8

\* A step that answers nothing, collects nothing and leaves what was answered
\* alone.
LEMMA NothingNew ==
    ASSUME DiskInv, VqInv', Done' = Done,
           disk' = disk, expect' = expect,
           \A i \in 1..Done :
               /\ InFlight'[i] = InFlight[i]
               /\ req'[InFlight[i]] = req[InFlight[i]] /\ data'[InFlight[i]] = data[InFlight[i]]
               /\ status'[InFlight[i]] = status[InFlight[i]]
               /\ used_len'[InFlight[i]] = used_len[InFlight[i]],
           \A i \in 1..Len(InFlight') : i > Done => data'[InFlight'[i]] = << >> \/ dev_pc' = "error"
    PROVE  (AnswersInv /\ FileInv /\ ReadsInv)'
  <1>1. Done \in Nat /\ Done <= Len(InFlight) /\ Len(InFlight) \in Nat
    BY DoneFacts DEF DiskInv
  <1>2. AnswersInv'
    <2> SUFFICES ASSUME NEW i \in 1..Len(InFlight')
                 PROVE  IF i <= Done
                        THEN TrueAnswer(req'[InFlight'[i]], data'[InFlight'[i]],
                                        status'[InFlight'[i]], used_len'[InFlight'[i]])
                        ELSE data'[InFlight'[i]] = << >> \/ dev_pc' = "error"
      BY DEF AnswersInv, TrueAnswer
    <2>1. CASE i <= Done
      <3>1. i \in 1..Done /\ i \in 1..Len(InFlight)
        BY <1>1, <2>1
      <3>2. TrueAnswer(req[InFlight[i]], data[InFlight[i]],
                       status[InFlight[i]], used_len[InFlight[i]])
        BY <2>1, <3>1 DEF DiskInv, AnswersInv
      <3> QED  BY <2>1, <3>1, <3>2
    <2>2. CASE ~(i <= Done)
      <3>1. i > Done
        BY <1>1, <2>2
      <3> QED  BY <2>2, <3>1
    <2> QED  BY <2>1, <2>2
  <1>3. FileInv'
    <2> SUFFICES ASSUME NEW b \in Bytes
                 PROVE  MayHold(disk'[b], b, Done', InFlight', req', status', expect')
      BY DEF FileInv, MayHold, Covers, OnDisk, Named, Start, capacity, Bytes
    <2>1. MayHold(disk[b], b, Done, InFlight, req, status, expect)
      BY DEF DiskInv, FileInv
    <2>2. MayHold(disk[b], b, Done, InFlight', req', status', expect')
      BY <1>1, <2>1, MayHoldKept
    <2> QED  BY <2>2
  <1>4. ReadsInv'
    <2> SUFFICES ASSUME NEW i \in 1..Done,
                        req'[InFlight'[i]].type = "in", status'[InFlight'[i]] = "ok",
                        NEW k \in 1..req'[InFlight'[i]].len
                 PROVE  MayHold(data'[InFlight'[i]][k], Start(req'[InFlight'[i]]) + k - 1, i - 1,
                                InFlight', req', status', expect')
      BY DEF ReadsInv
    <2>1. MayHold(data[InFlight[i]][k], Start(req[InFlight[i]]) + k - 1, i - 1,
                  InFlight, req, status, expect)
      BY DEF DiskInv, ReadsInv
    <2>2. i - 1 \in Nat /\ \A j \in 1..(i - 1) : j \in 1..Done
      BY <1>1
    <2>3. MayHold(data[InFlight[i]][k], Start(req[InFlight[i]]) + k - 1, i - 1,
                  InFlight', req', status', expect')
      BY <2>1, <2>2, MayHoldKept
    <2> QED  BY <2>3
  <1> QED  BY <1>2, <1>3, <1>4

\* A step that leaves the requests alone.
LEMMA RequestsKept ==
    ASSUME DiskInv, VqInv', Done' = Done, InFlight' = InFlight, UNCHANGED blkVars,
           dev_pc = "error" => dev_pc' = "error"
    PROVE  DiskInv'
  <1>1. /\ req' = req /\ data' = data /\ status' = status /\ used_len' = used_len
        /\ disk' = disk /\ expect' = expect
    BY DEF blkVars
  <1>2. DiskType'
    BY <1>1 DEF DiskInv, DiskType, Bytes
  <1>3. Done \in Nat
    BY DoneFacts DEF DiskInv
  <1>4. \A i \in 1..Len(InFlight') : i > Done => data'[InFlight'[i]] = << >> \/ dev_pc' = "error"
    <2> SUFFICES ASSUME NEW i \in 1..Len(InFlight), i > Done
                 PROVE  data[InFlight[i]] = << >> \/ dev_pc = "error"
      BY <1>1
    <2>1. ~(i <= Done)
      BY <1>3
    <2> QED  BY <2>1 DEF DiskInv, AnswersInv
  <1>5. (AnswersInv /\ FileInv /\ ReadsInv)'
    BY <1>1, <1>4, NothingNew
  <1> QED  BY <1>2, <1>5 DEF DiskInv

\* The driver submits a request.
LEMMA SubmitKeeps ==
    ASSUME DiskInv, NEW r \in Requests, Submit(r)
    PROVE  DiskInv'
  <1>1. PICK h \in q.free :
            /\ q' = StageChain(q, h)
            /\ req' = [req EXCEPT ![h] = r]
            /\ data' = [data EXCEPT ![h] = << >>]
            /\ status' = [status EXCEPT ![h] = "none"]
            /\ used_len' = [used_len EXCEPT ![h] = 0]
    BY DEF Submit
  <1>2. UNCHANGED <<dev_pc, chain, disk, expect>>
    BY DEF Submit
  <1>3. h \in Heads
    BY VqBounds DEF DiskInv, QueueFields
  <1>4. VqInv' /\ InFlight' = Append(InFlight, h) /\ Returned' = Returned
    BY <1>1, <1>2, StageStep DEF DiskInv
  <1>5. Done' = Done
    BY <1>2, <1>4 DEF Done
  <1>6. /\ Done \in Nat /\ Done <= Len(InFlight) /\ Len(InFlight) \in Nat
        /\ \A i \in 1..Len(InFlight) : InFlight[i] \in Heads /\ InFlight[i] # h
    BY DoneFacts DEF DiskInv
  <1>7. /\ Len(InFlight') = Len(InFlight) + 1 /\ InFlight'[Len(InFlight) + 1] = h
        /\ \A i \in 1..Len(InFlight) : InFlight'[i] = InFlight[i]
    <2>1. InFlight \in Seq(Heads)
      BY DEF DiskInv, VqInv, Holds
    <2> QED  BY <1>3, <1>4, <2>1
  <1>8. DiskType'
    <2>1. r \in RequestType /\ << >> \in Seq(Values) /\ "none" \in Statuses
      BY DiskAssumption DEF Statuses
    <2> QED  BY <1>1, <1>2, <1>3, <2>1 DEF DiskInv, DiskType, Bytes
  <1>9. \A i \in 1..Done : i \in 1..Len(InFlight)
    BY <1>6
  <1>10. \A i \in 1..Done :
             /\ InFlight'[i] = InFlight[i]
             /\ req'[InFlight[i]] = req[InFlight[i]] /\ data'[InFlight[i]] = data[InFlight[i]]
             /\ status'[InFlight[i]] = status[InFlight[i]]
             /\ used_len'[InFlight[i]] = used_len[InFlight[i]]
    BY <1>1, <1>6, <1>7, <1>9 DEF DiskInv, DiskType
  <1>11. \A i \in 1..Len(InFlight') : i > Done => data'[InFlight'[i]] = << >> \/ dev_pc' = "error"
    <2> SUFFICES ASSUME NEW i \in 1..(Len(InFlight) + 1), i > Done
                 PROVE  data'[InFlight'[i]] = << >> \/ dev_pc' = "error"
      BY <1>7
    <2>1. CASE i = Len(InFlight) + 1
      BY <1>1, <1>3, <1>7, <2>1 DEF DiskInv, DiskType
    <2>2. CASE i # Len(InFlight) + 1
      <3>1. i \in 1..Len(InFlight) /\ ~(i <= Done)
        BY <1>6, <2>2
      <3>2. data[InFlight[i]] = << >> \/ dev_pc' = "error"
        BY <1>2, <3>1 DEF DiskInv, AnswersInv
      <3> QED  BY <1>1, <1>6, <1>7, <3>1, <3>2 DEF DiskInv, DiskType
    <2> QED  BY <2>1, <2>2
  <1>12. (AnswersInv /\ FileInv /\ ReadsInv)'
    BY <1>2, <1>4, <1>5, <1>10, <1>11, NothingNew
  <1> QED  BY <1>4, <1>8, <1>12 DEF DiskInv

\* The driver collects a request: the rest move up.
LEMMA CollectKeeps ==
    ASSUME DiskInv, CollectRequest
    PROVE  DiskInv'
  <1> DEFINE h == InFlight[1]
  <1>1. /\ VqInv' /\ InFlight # << >> /\ InFlight' = Tail(InFlight)
        /\ Returned # << >> /\ Returned' = Tail(Returned) /\ UsedHead(q) = h
        /\ Returned \in Seq(Heads) /\ InFlight \in Seq(Heads)
    BY CollectStep, VqBounds DEF DiskInv, CollectRequest, VqInv, Holds
  <1>2. /\ expect' = Expected(h) /\ disk' = disk /\ dev_pc' = dev_pc
        /\ req' = [req EXCEPT ![h] = NoRequest]
        /\ data' = [data EXCEPT ![h] = << >>]
        /\ status' = [status EXCEPT ![h] = "none"]
        /\ used_len' = [used_len EXCEPT ![h] = 0]
    BY <1>1 DEF CollectRequest, DriverCollect
  <1>3. /\ Done \in Nat /\ Done <= Len(InFlight) /\ Len(InFlight) \in Nat
        /\ Len(Returned) \in Nat /\ Len(Returned) <= Done
        /\ \A i \in 1..Len(InFlight) : InFlight[i] \in Heads
        /\ \A i, j \in 1..Len(InFlight) : InFlight[i] = InFlight[j] => i = j
    BY DoneFacts DEF DiskInv
  <1>4. /\ Len(InFlight') = Len(InFlight) - 1
        /\ \A i \in 1..Len(InFlight') : InFlight'[i] = InFlight[i + 1]
        /\ Len(Returned') = Len(Returned) - 1 /\ Len(Returned) > 0
    BY <1>1, HeadTailProperties
  <1>5. Done' = Done - 1 /\ Done > 0
    BY <1>2, <1>3, <1>4 DEF Done
  <1> DEFINE n == Done - 1
  <1>6. n \in Nat /\ n + 1 = Done /\ n <= Len(InFlight') /\ Done' = n
    BY <1>3, <1>4, <1>5
  <1>7. h \in Heads
    BY <1>3, <1>5
  <1>8. \A i \in 1..Len(InFlight') :
            /\ i + 1 \in 1..Len(InFlight) /\ i + 1 # 1
            /\ InFlight'[i] = InFlight[i + 1] /\ InFlight[i + 1] \in Heads /\ InFlight[i + 1] # h
    <2> SUFFICES ASSUME NEW i \in 1..Len(InFlight')
                 PROVE  /\ i + 1 \in 1..Len(InFlight) /\ i + 1 # 1
                        /\ InFlight'[i] = InFlight[i + 1] /\ InFlight[i + 1] \in Heads
                        /\ InFlight[i + 1] # h
      OBVIOUS
    <2>1. i + 1 \in 1..Len(InFlight) /\ i + 1 # 1 /\ 1 \in 1..Len(InFlight)
      BY <1>3, <1>4
    <2> QED  BY <1>3, <1>4, <2>1
  <1>9. \A i \in 1..Len(InFlight') :
            /\ req'[InFlight[i + 1]] = req[InFlight[i + 1]]
            /\ data'[InFlight[i + 1]] = data[InFlight[i + 1]]
            /\ status'[InFlight[i + 1]] = status[InFlight[i + 1]]
            /\ used_len'[InFlight[i + 1]] = used_len[InFlight[i + 1]]
    BY <1>2, <1>8 DEF DiskInv, DiskType
  <1>10. \A b \in Bytes :
             /\ ~Covers(req[InFlight[1]], b) => expect'[b] = expect[b]
             /\ Covers(req[InFlight[1]], b) /\ status[InFlight[1]] = "ok" =>
                    expect'[b] = {req[InFlight[1]].value}
             /\ Covers(req[InFlight[1]], b) /\ status[InFlight[1]] # "ok" =>
                    expect'[b] = expect[b] \cup {req[InFlight[1]].value}
    BY <1>2 DEF Expected, Covers
  <1> HIDE DEF h, n
  <1>11. DiskType'
    <2>1. NoRequest \in RequestType
      BY DiskAssumption DEF NoRequest, RequestType, Types
    <2>2. << >> \in Seq(Values) /\ "none" \in Statuses
      BY DEF Statuses
    <2>3. /\ req' \in [Heads -> RequestType] /\ data' \in [Heads -> Seq(Values)]
          /\ status' \in [Heads -> Statuses] /\ used_len' \in [Heads -> Nat]
          /\ disk' \in [Bytes -> Values]
      BY <1>2, <1>7, <2>1, <2>2 DEF DiskInv, DiskType
    <2>4. expect' \in [Bytes -> SUBSET Values]
      <3>1. req[h].value \in Values
        BY <1>7 DEF DiskInv, DiskType, RequestType
      <3> QED  BY <1>2, <3>1 DEF Expected, DiskInv, DiskType
    <2> QED  BY <2>3, <2>4 DEF DiskType, Bytes
  <1>12. AnswersInv'
    <2> SUFFICES ASSUME NEW i \in 1..Len(InFlight')
                 PROVE  IF i <= n
                        THEN TrueAnswer(req'[InFlight'[i]], data'[InFlight'[i]],
                                        status'[InFlight'[i]], used_len'[InFlight'[i]])
                        ELSE data'[InFlight'[i]] = << >> \/ dev_pc' = "error"
      BY <1>6 DEF AnswersInv
    <2>1. i <= n <=> i + 1 <= Done
      BY <1>6
    <2>2. i + 1 \in 1..Len(InFlight)
      BY <1>8
    <2>3. IF i + 1 <= Done
          THEN TrueAnswer(req[InFlight[i + 1]], data[InFlight[i + 1]],
                          status[InFlight[i + 1]], used_len[InFlight[i + 1]])
          ELSE data[InFlight[i + 1]] = << >> \/ dev_pc = "error"
      BY <2>2 DEF DiskInv, AnswersInv
    <2> QED  BY <1>2, <1>8, <1>9, <2>1, <2>3
  <1>13. \A j \in 1..n : /\ j \in 1..Len(InFlight') /\ InFlight'[j] = InFlight[j + 1]
                         /\ req'[InFlight[j + 1]] = req[InFlight[j + 1]]
                         /\ status'[InFlight[j + 1]] = status[InFlight[j + 1]]
    <2>1. \A j \in 1..n : j \in 1..Len(InFlight')
      BY <1>3, <1>4, <1>6
    <2> QED  BY <1>8, <1>9, <2>1
  <1>14. FileInv'
    <2> SUFFICES ASSUME NEW b \in Bytes
                 PROVE  MayHold(disk'[b], b, n, InFlight', req', status', expect')
      BY <1>6 DEF FileInv
    <2>1. MayHold(disk[b], b, n + 1, InFlight, req, status, expect)
      BY <1>6 DEF DiskInv, FileInv
    <2>2. MayHold(disk[b], b, n, InFlight', req', status', expect')
      BY <1>6, <1>10, <1>13, <2>1, MayHoldCollect, SMTT(20)
    <2> QED  BY <1>2, <2>2
  <1>15. ReadsInv'
    <2> SUFFICES ASSUME NEW i \in 1..n,
                        req'[InFlight'[i]].type = "in", status'[InFlight'[i]] = "ok",
                        NEW k \in 1..req'[InFlight'[i]].len
                 PROVE  MayHold(data'[InFlight'[i]][k], Start(req'[InFlight'[i]]) + k - 1, i - 1,
                                InFlight', req', status', expect')
      BY <1>6 DEF ReadsInv
    <2> DEFINE g == InFlight[i + 1]
               b == Start(req[g]) + k - 1
               m == i - 1
    <2>1. /\ i + 1 \in 1..Done /\ i \in 1..Len(InFlight') /\ i + 1 \in 1..Len(InFlight)
          /\ i + 1 <= Done /\ (i + 1) - 1 = (i - 1) + 1 /\ m \in Nat
          /\ \A j \in 1..m : j \in 1..n
      BY <1>3, <1>6, <1>13
    <2>2. /\ req'[InFlight'[i]] = req[g] /\ data'[InFlight'[i]] = data[g]
          /\ status'[InFlight'[i]] = status[g] /\ g \in Heads
      BY <1>8, <1>9, <2>1
    <2>3. req[g].type = "in" /\ status[g] = "ok" /\ k \in 1..req[g].len
      BY <2>2
    <2>4. MayHold(data[g][k], b, m + 1, InFlight, req, status, expect)
      BY <2>1, <2>3 DEF DiskInv, ReadsInv
    <2>5. b \in Bytes
      BY <2>1, <2>2, <2>3, OnDiskBytes DEF DiskInv, DiskType, AnswersInv, TrueAnswer
    <2> HIDE DEF g, b, m
    <2>6. MayHold(data[g][k], b, m, InFlight', req', status', expect')
      <3>1. \A j \in 1..m : /\ InFlight'[j] = InFlight[j + 1]
                            /\ req'[InFlight[j + 1]] = req[InFlight[j + 1]]
                            /\ status'[InFlight[j + 1]] = status[InFlight[j + 1]]
        BY <1>13, <2>1
      <3>2. m \in Nat
        BY <2>1
      <3> QED  BY <1>10, <2>4, <2>5, <3>1, <3>2, MayHoldCollect
    <2>7. MayHold(data[g][k], Start(req[g]) + k - 1, i - 1, InFlight', req', status', expect')
      BY <2>6 DEF b, m
    <2> QED  BY <2>2, <2>7
  <1> QED  BY <1>1, <1>11, <1>12, <1>14, <1>15 DEF DiskInv

\* The chain the device works on is the next to be answered.
LEMMA ChainFacts ==
    ASSUME DiskInv, dev_pc = "process"
    PROVE  /\ Done \in Nat /\ Done + 1 \in 1..Len(InFlight) /\ InFlight[Done + 1] = chain
           /\ Done = Len(Returned) /\ chain \in Heads
           /\ \A i \in 1..Len(InFlight) : i # Done + 1 => InFlight[i] # chain /\ InFlight[i] \in Heads
           /\ data[chain] = << >>
           /\ req[chain] \in RequestType
  <1>1. Done = Len(Returned) + 0 /\ Len(Returned) \in Nat
    BY DoneFacts DEF Done, DiskInv
  <1>2. Done + 1 \in 1..Len(InFlight) /\ InFlight[Done + 1] = chain /\ Done = Len(Returned)
    <2>1. InDevice
      BY DEF InDevice
    <2> QED  BY <1>1, <2>1, DoneFacts DEF DiskInv
  <1>3. \A i \in 1..Len(InFlight) : i # Done + 1 => InFlight[i] # chain /\ InFlight[i] \in Heads
    BY <1>2, DoneFacts DEF DiskInv
  <1>4. data[chain] = << >>
    <2>1. ~(Done + 1 <= Done)
      BY <1>1
    <2> QED  BY <1>2, <2>1 DEF DiskInv, AnswersInv
  <1>5. chain \in Heads
    BY DEF DiskInv, VqInv, VqType
  <1> QED  BY <1>1, <1>2, <1>3, <1>4, <1>5 DEF DiskInv, DiskType

LEMMA ProcessedFacts ==
    ASSUME DiskInv, Processed
    PROVE  /\ VqInv' /\ InFlight' = InFlight /\ Done' = Done + 1
           /\ Done \in Nat /\ Done + 1 \in 1..Len(InFlight) /\ InFlight[Done + 1] = chain
           /\ chain \in Heads
           /\ \A i \in 1..Len(InFlight) : i # Done + 1 => InFlight[i] # chain /\ InFlight[i] \in Heads
           /\ data[chain] = << >>
           /\ req[chain] \in RequestType
  <1>1. dev_pc = "process" /\ dev_pc' = "used_elem"
    BY DEF Processed
  <1>2. VqInv' /\ InFlight' = InFlight /\ Returned' = Returned
    BY QuietStep DEF DiskInv
  <1>3. Done' = Len(Returned) + 1
    BY <1>1, <1>2 DEF Done
  <1> QED  BY <1>1, <1>2, <1>3, ChainFacts

\* The device answers a request, and did to the file and to the buffers what
\* the answer says.
LEMMA AnswerKeeps ==
    ASSUME DiskInv, Processed, NEW bytes \in Seq(Values), NEW st \in Statuses, NEW len \in Nat,
           req' = req, expect' = expect, disk' \in [Bytes -> Values],
           data' = [data EXCEPT ![chain] = bytes],
           status' = [status EXCEPT ![chain] = st],
           used_len' = [used_len EXCEPT ![chain] = len],
           TrueAnswer(req[chain], bytes, st, len),
           \A b \in Bytes :
               \/ disk'[b] = disk[b] /\ ~(Covers(req[chain], b) /\ st = "ok")
               \/ disk'[b] = req[chain].value /\ Covers(req[chain], b),
           req[chain].type = "in" /\ st = "ok" =>
               \A k \in 1..req[chain].len :
                   /\ Start(req[chain]) + k - 1 \in Bytes
                   /\ bytes[k] = disk[Start(req[chain]) + k - 1]
    PROVE  DiskInv'
  <1> DEFINE n == Done
  <1>1. /\ VqInv' /\ InFlight' = InFlight /\ Done' = n + 1
        /\ n \in Nat /\ n + 1 \in 1..Len(InFlight) /\ InFlight[n + 1] = chain
        /\ chain \in Heads
        /\ \A i \in 1..Len(InFlight) : i # n + 1 => InFlight[i] # chain /\ InFlight[i] \in Heads
    BY ProcessedFacts
  <1>2. Len(InFlight) \in Nat
    BY DoneFacts DEF DiskInv
  <1>3. \A i \in 1..n : i \in 1..Len(InFlight) /\ i # n + 1
    BY <1>1, <1>2
  <1>4. /\ data'[chain] = bytes /\ status'[chain] = st /\ used_len'[chain] = len
        /\ \A i \in 1..Len(InFlight) : i # n + 1 =>
               /\ data'[InFlight[i]] = data[InFlight[i]]
               /\ status'[InFlight[i]] = status[InFlight[i]]
               /\ used_len'[InFlight[i]] = used_len[InFlight[i]]
    BY <1>1 DEF DiskInv, DiskType
  <1>5. DiskType'
    BY <1>1 DEF DiskInv, DiskType, Bytes
  <1> HIDE DEF n
  <1>6. AnswersInv'
    <2> SUFFICES ASSUME NEW i \in 1..Len(InFlight)
                 PROVE  IF i <= n + 1
                        THEN TrueAnswer(req'[InFlight[i]], data'[InFlight[i]],
                                        status'[InFlight[i]], used_len'[InFlight[i]])
                        ELSE data'[InFlight[i]] = << >> \/ dev_pc' = "error"
      BY <1>1 DEF AnswersInv
    <2>1. CASE i = n + 1
      <3>1. i <= n + 1
        BY <1>1, <2>1
      <3> QED  BY <1>1, <1>4, <2>1, <3>1
    <2>2. CASE i # n + 1
      <3>1. i <= n + 1 <=> i <= n
        BY <1>1, <2>2
      <3>2. IF i <= n
            THEN TrueAnswer(req[InFlight[i]], data[InFlight[i]],
                            status[InFlight[i]], used_len[InFlight[i]])
            ELSE data[InFlight[i]] = << >>
        BY DEF DiskInv, AnswersInv, Processed, n
      <3> QED  BY <1>4, <2>2, <3>1, <3>2
    <2> QED  BY <2>1, <2>2
  <1>7. \A j \in 1..n : status'[InFlight[j]] = status[InFlight[j]]
    BY <1>3, <1>4
  <1>8. FileInv'
    <2> SUFFICES ASSUME NEW b \in Bytes
                 PROVE  MayHold(disk'[b], b, n + 1, InFlight, req', status', expect')
      BY <1>1 DEF FileInv
    <2>1. CASE disk'[b] = disk[b] /\ ~(Covers(req[chain], b) /\ st = "ok")
      <3>1. MayHold(disk[b], b, n, InFlight, req, status, expect)
        BY DEF DiskInv, FileInv, n
      <3>2. MayHold(disk[b], b, n, InFlight, req', status', expect')
        <4>1. MayHold(disk[b], b, n, InFlight, req, status', expect)
          BY <1>1, <1>7, <3>1, MayHoldStatus
        <4> QED  BY <4>1
      <3>3. ~(Covers(req'[InFlight[n + 1]], b) /\ status'[InFlight[n + 1]] = "ok")
        BY <1>1, <1>4, <2>1
      <3>4. MayHold(disk[b], b, n + 1, InFlight, req', status', expect')
        BY <1>1, <3>2, <3>3, MayHoldOneMore
      <3> QED  BY <2>1, <3>4
    <2>2. CASE disk'[b] = req[chain].value /\ Covers(req[chain], b)
      <3>1. Covers(req'[InFlight[n + 1]], b) /\ disk'[b] = req'[InFlight[n + 1]].value
        BY <1>1, <2>2
      <3>2. MayHold(req'[InFlight[n + 1]].value, b, n + 1, InFlight, req', status', expect')
        BY <1>1, <3>1, MayHoldWrite
      <3> QED  BY <3>1, <3>2
    <2> QED  BY <2>1, <2>2
  <1>9. ReadsInv'
    <2> SUFFICES ASSUME NEW i \in 1..(n + 1),
                        req'[InFlight[i]].type = "in", status'[InFlight[i]] = "ok",
                        NEW k \in 1..req'[InFlight[i]].len
                 PROVE  MayHold(data'[InFlight[i]][k], Start(req'[InFlight[i]]) + k - 1, i - 1,
                                InFlight, req', status', expect')
      BY <1>1 DEF ReadsInv
    <2> DEFINE g == InFlight[i]
               b == Start(req[g]) + k - 1
               m == i - 1
    <2>1. m \in Nat /\ \A j \in 1..m : j \in 1..n
      BY <1>1
    <2>2. MayHold(data'[g][k], b, m, InFlight, req, status, expect)
      <3>1. CASE i = n + 1
        <4>1. g = chain /\ m = Done
          BY <1>1, <3>1 DEF n
        <4>2. b \in Bytes /\ data'[g][k] = disk[b]
          BY <1>4, <4>1
        <4>3. MayHold(disk[b], b, Done, InFlight, req, status, expect)
          BY <4>2 DEF DiskInv, FileInv
        <4> QED  BY <4>1, <4>2, <4>3
      <3>2. CASE i # n + 1
        <4>1. i \in 1..Done /\ i \in 1..Len(InFlight)
          BY <1>1, <1>3, <3>2 DEF n
        <4>2. data'[g] = data[g] /\ status'[g] = status[g]
          BY <1>4, <3>2, <4>1
        <4>3. MayHold(data[g][k], b, m, InFlight, req, status, expect)
          BY <4>1, <4>2 DEF DiskInv, ReadsInv
        <4> QED  BY <4>2, <4>3
      <3> QED  BY <3>1, <3>2
    <2> HIDE DEF g, b, m
    <2>3. \A j \in 1..m : status'[InFlight[j]] = status[InFlight[j]]
      BY <1>7, <2>1
    <2>4. MayHold(data'[g][k], b, m, InFlight, req', status', expect')
      <3>1. MayHold(data'[g][k], b, m, InFlight, req, status', expect)
        BY <2>1, <2>2, <2>3, MayHoldStatus
      <3> QED  BY <3>1
    <2> QED  BY <2>4 DEF g, b, m
  <1> QED  BY <1>1, <1>5, <1>6, <1>8, <1>9 DEF DiskInv

\* An answer that did not panic.
LEMMA AnsweredFacts ==
    ASSUME NEW st, NEW written, Answer(st, written), Processed
    PROVE  /\ status' = [status EXCEPT ![chain] = st]
           /\ used_len' = [used_len EXCEPT ![chain] = (written + 1) % U32]
  BY DEF Answer, AnswerPanics, Processed, ProcessFails

\* The status byte alone fits a u32, and its answer does not panic.
LEMMA OneFits == (0 + 1) % U32 = 1 /\ 0 + 1 # U32
  BY DiskAssumption

LEMMA AnswersStatusOnly == ASSUME NEW st, Answer(st, 0) PROVE Processed
  BY OneFits DEF Answer, AnswerPanics

\* What is left of a read's length never exceeds it, and is all of it if it fits.
LEMMA LengthFacts ==
    ASSUME NEW n \in Nat
    PROVE  LET len == (Truncated(n) + 1) % U32
           IN  /\ len \in Nat /\ len <= n + 1
               /\ n + 1 < U32 => len = n + 1
  <1>1. /\ U32 \in Nat /\ U32 > 1
        /\ n % U32 \in Nat /\ n % U32 <= n
        /\ n < U32 => n % U32 = n
    BY DiskAssumption
  <1> DEFINE m == n % U32
  <1> HIDE DEF m
  <1>2. m \in Nat /\ (m + 1) % U32 \in Nat /\ (m + 1) % U32 <= m + 1
        /\ m + 1 < U32 => (m + 1) % U32 = m + 1
    BY <1>1 DEF m
  <1> QED  BY <1>1, <1>2 DEF m, Truncated

\* A read whose length overflows panics: its data is filled, and no one is told.
LEMMA ProcessInPanics ==
    ASSUME DiskInv, ProcessIn, ~Processed
    PROVE  DiskInv'
  <1> DEFINE r == req[chain]
  <1>1. Offset(r) # PastEnd /\ ReadBytes(r, r.len) /\ Answer("ok", Truncated(r.len))
    BY AnswersStatusOnly DEF ProcessIn
  <1>2. /\ status' = [status EXCEPT ![chain] = "ok"] /\ used_len' = used_len /\ ProcessFails
        /\ req' = req /\ disk' = disk /\ expect' = expect /\ r.type = "in"
    BY <1>1 DEF Answer, AnswerPanics, ProcessIn
  <1>3. /\ VqInv' /\ InFlight' = InFlight /\ Returned' = Returned
        /\ dev_pc = "process" /\ dev_pc' = "error"
    BY <1>2, QuietStep DEF DiskInv, ProcessFails
  <1>4. Done' = Done
    BY <1>3 DEF Done
  <1>5. /\ Done \in Nat /\ Done + 1 \in 1..Len(InFlight) /\ chain \in Heads /\ r \in RequestType
        /\ \A i \in 1..Len(InFlight) : i # Done + 1 => InFlight[i] # chain /\ InFlight[i] \in Heads
    BY <1>3, ChainFacts
  <1> HIDE DEF r
  <1> DEFINE bytes == [k \in 1..r.len |-> disk[Start(r) + k - 1]]
  <1>6. /\ Offset(r) = Start(r) /\ r.len \in Nat
        /\ \A k \in 1..r.len : Start(r) + k - 1 \in Bytes
    BY <1>1, <1>5, OffsetOnDisk, OnDiskBytes
  <1>7. bytes \in Seq(Values) /\ data' = [data EXCEPT ![chain] = bytes]
    <2>1. disk \in [Bytes -> Values]
      BY DEF DiskInv, DiskType
    <2>2. bytes \in Seq(Values)
      BY <1>6, <2>1
    <2>3. data' = [data EXCEPT ![chain] = bytes]
      BY <1>1, <1>6 DEF ReadBytes
    <2> QED  BY <2>2, <2>3
  <1> HIDE DEF bytes
  <1>8. DiskType'
    <2>1. "ok" \in Statuses
      BY DEF Statuses
    <2> QED  BY <1>2, <1>5, <1>7, <2>1 DEF DiskInv, DiskType, Bytes
  <1>9. \A i \in 1..Done :
            /\ InFlight'[i] = InFlight[i]
            /\ req'[InFlight[i]] = req[InFlight[i]] /\ data'[InFlight[i]] = data[InFlight[i]]
            /\ status'[InFlight[i]] = status[InFlight[i]]
            /\ used_len'[InFlight[i]] = used_len[InFlight[i]]
    <2>1. Len(InFlight) \in Nat
      BY DoneFacts DEF DiskInv
    <2>2. \A i \in 1..Done : i \in 1..Len(InFlight) /\ i # Done + 1
      BY <1>5, <2>1
    <2> QED  BY <1>2, <1>3, <1>5, <1>7, <2>2 DEF DiskInv, DiskType
  <1>10. (AnswersInv /\ FileInv /\ ReadsInv)'
    BY <1>2, <1>3, <1>4, <1>9, NothingNew
  <1> QED  BY <1>3, <1>8, <1>10 DEF DiskInv

\* read()
LEMMA ProcessInKeeps ==
    ASSUME DiskInv, ProcessIn, Processed
    PROVE  DiskInv'
  <1> DEFINE r == req[chain]
  <1>1. Processed /\ r.type = "in" /\ req' = req /\ disk' = disk /\ expect' = expect
    BY DEF ProcessIn
  <1>2. r \in RequestType /\ chain \in Heads /\ data[chain] = << >>
    BY <1>1, ProcessedFacts
  <1>3. disk \in [Bytes -> Values] /\ data \in [Heads -> Seq(Values)]
    BY DEF DiskInv, DiskType
  <1>4. \A b : ~Covers(r, b)
    BY <1>1 DEF Covers
  <1>5. \A b \in Bytes : disk'[b] = disk[b] /\ ~Covers(r, b)
    BY <1>1, <1>4
  <1>6. Statuses = {"none", "ok", "ioerr", "unsupp"}
    BY DEF Statuses
  <1> HIDE DEF r
  <1>7. CASE Offset(r) = PastEnd /\ Answer("ioerr", 0) /\ UNCHANGED data
    <2>1. data' = [data EXCEPT ![chain] = << >>] /\ << >> \in Seq(Values)
      BY <1>2, <1>3, <1>7
    <2>2. status' = [status EXCEPT ![chain] = "ioerr"] /\ used_len' = [used_len EXCEPT ![chain] = 1]
      BY <1>1, <1>7, AnsweredFacts, OneFits
    <2>3. TrueAnswer(r, << >>, "ioerr", 1)
      BY DEF TrueAnswer
    <2> QED  BY <1>1, <1>3, <1>5, <1>6, <2>1, <2>2, <2>3, AnswerKeeps DEF r
  <1>8. CASE Offset(r) # PastEnd /\ ReadBytes(r, r.len) /\ Answer("ok", Truncated(r.len))
    <2> DEFINE bytes == [k \in 1..r.len |-> disk[Start(r) + k - 1]]
    <2>1. /\ Offset(r) = Start(r) /\ OnDisk(r) /\ r.len \in Nat
          /\ \A k \in 1..r.len : Start(r) + k - 1 \in Bytes
      BY <1>2, <1>8, OffsetOnDisk, OnDiskBytes
    <2>2. bytes \in Seq(Values) /\ Len(bytes) = r.len
          /\ \A k \in 1..r.len : bytes[k] = disk[Start(r) + k - 1]
      BY <1>3, <2>1
    <2>3. data' = [data EXCEPT ![chain] = bytes]
      BY <1>8, <2>1 DEF ReadBytes
    <2> DEFINE len == (Truncated(r.len) + 1) % U32
    <2>4. status' = [status EXCEPT ![chain] = "ok"] /\ used_len' = [used_len EXCEPT ![chain] = len]
      BY <1>1, <1>8, AnsweredFacts
    <2> HIDE DEF bytes
    <2>5. TrueAnswer(r, bytes, "ok", len) /\ len \in Nat
      <3>1. /\ len \in Nat /\ len <= r.len + 1
            /\ r.len + 1 < U32 => len = r.len + 1
        BY <2>1, LengthFacts
      <3> HIDE DEF len
      <3> QED  BY <2>1, <2>2, <3>1 DEF TrueAnswer
    <2> HIDE DEF len
    <2> QED  BY <1>1, <1>3, <1>5, <1>6, <2>1, <2>2, <2>3, <2>4, <2>5, AnswerKeeps DEF r
  <1>9. CASE /\ Offset(r) # PastEnd /\ \E n \in 0..r.len - 1 : ReadBytes(r, n)
             /\ Answer("ioerr", 0)
    <2>1. PICK n \in 0..r.len - 1 : ReadBytes(r, n)
      BY <1>9
    <2> DEFINE bytes == [k \in 1..n |-> disk[Start(r) + k - 1]]
    <2>2. /\ Offset(r) = Start(r) /\ OnDisk(r) /\ r.len \in Nat /\ n \in Nat
          /\ \A k \in 1..r.len : Start(r) + k - 1 \in Bytes
      BY <1>2, <1>9, OffsetOnDisk, OnDiskBytes
    <2>3. \A k \in 1..n : Start(r) + k - 1 \in Bytes
      <3>1. \A k \in 1..n : k \in 1..r.len
        BY <2>2
      <3> QED  BY <2>2, <3>1
    <2>4. bytes \in Seq(Values) /\ Len(bytes) = n
      BY <1>3, <2>2, <2>3
    <2>5. data' = [data EXCEPT ![chain] = bytes]
      BY <2>1, <2>2 DEF ReadBytes
    <2>6. status' = [status EXCEPT ![chain] = "ioerr"] /\ used_len' = [used_len EXCEPT ![chain] = 1]
      BY <1>1, <1>9, AnsweredFacts, OneFits
    <2> HIDE DEF bytes
    <2>7. TrueAnswer(r, bytes, "ioerr", 1)
      BY <2>2, <2>4 DEF TrueAnswer
    <2> QED  BY <1>1, <1>3, <1>5, <1>6, <2>4, <2>5, <2>6, <2>7, AnswerKeeps DEF r
  <1> QED  BY <1>7, <1>8, <1>9 DEF ProcessIn, r

\* write()
LEMMA ProcessOutKeeps ==
    ASSUME DiskInv, ProcessOut
    PROVE  DiskInv'
  <1> DEFINE r == req[chain]
  <1>1. Processed /\ r.type = "out" /\ req' = req /\ data' = data /\ expect' = expect
    BY AnswersStatusOnly DEF ProcessOut
  <1>2. r \in RequestType /\ chain \in Heads /\ data[chain] = << >>
    BY <1>1, ProcessedFacts
  <1>3. disk \in [Bytes -> Values] /\ data \in [Heads -> Seq(Values)] /\ r.value \in Values
    BY <1>2 DEF DiskInv, DiskType, RequestType
  <1>4. data' = [data EXCEPT ![chain] = << >>] /\ << >> \in Seq(Values)
    BY <1>1, <1>2, <1>3
  <1>5. Statuses = {"none", "ok", "ioerr", "unsupp"}
    BY DEF Statuses
  <1>6. r.type # "in"
    BY <1>1
  <1> HIDE DEF r
  <1>7. CASE Offset(r) = PastEnd /\ Answer("ioerr", 0) /\ UNCHANGED disk
    <2>1. status' = [status EXCEPT ![chain] = "ioerr"] /\ used_len' = [used_len EXCEPT ![chain] = 1]
      BY <1>1, <1>7, AnsweredFacts, OneFits
    <2>2. TrueAnswer(r, << >>, "ioerr", 1)
      BY DEF TrueAnswer
    <2> QED  BY <1>1, <1>3, <1>4, <1>5, <1>6, <1>7, <2>1, <2>2, AnswerKeeps DEF r
  <1>8. CASE Offset(r) # PastEnd /\ WriteBytes(r, r.len) /\ Answer("ok", 0)
    <2>1. Offset(r) = Start(r) /\ OnDisk(r)
      BY <1>2, <1>8, OffsetOnDisk
    <2>2. disk' = [b \in Bytes |-> IF b \in Named(r) THEN r.value ELSE disk[b]]
      BY <1>8, <2>1 DEF WriteBytes, Named
    <2>3. disk' \in [Bytes -> Values]
      BY <1>3, <2>2
    <2>4. \A b \in Bytes : \/ disk'[b] = disk[b] /\ ~Covers(r, b)
                           \/ disk'[b] = r.value /\ Covers(r, b)
      BY <1>1, <2>1, <2>2 DEF Covers, r
    <2>5. status' = [status EXCEPT ![chain] = "ok"] /\ used_len' = [used_len EXCEPT ![chain] = 1]
      BY <1>1, <1>8, AnsweredFacts, OneFits
    <2>6. TrueAnswer(r, << >>, "ok", 1)
      BY <1>6, <2>1 DEF TrueAnswer
    <2> QED  BY <1>1, <1>4, <1>5, <1>6, <2>3, <2>4, <2>5, <2>6, AnswerKeeps DEF r
  <1>9. CASE /\ Offset(r) # PastEnd /\ \E n \in 0..r.len - 1 : WriteBytes(r, n)
             /\ Answer("ioerr", 0)
    <2>1. PICK n \in 0..r.len - 1 : WriteBytes(r, n)
      BY <1>9
    <2>2. Offset(r) = Start(r) /\ OnDisk(r) /\ Start(r) \in Nat /\ r.len \in Nat
      BY <1>2, <1>9, OffsetOnDisk, OnDiskBytes
    <2> DEFINE part == Start(r)..(Start(r) + n - 1)
    <2>3. disk' = [b \in Bytes |-> IF b \in part THEN r.value ELSE disk[b]]
      BY <2>1, <2>2 DEF WriteBytes
    <2>4. \A b \in part : b \in Named(r)
      BY <2>2 DEF Named
    <2> HIDE DEF part
    <2>5. disk' \in [Bytes -> Values]
      BY <1>3, <2>3
    <2>6. \A b \in Bytes : \/ disk'[b] = disk[b]
                           \/ disk'[b] = r.value /\ Covers(r, b)
      BY <1>1, <2>2, <2>3, <2>4 DEF Covers, r
    <2>7. status' = [status EXCEPT ![chain] = "ioerr"] /\ used_len' = [used_len EXCEPT ![chain] = 1]
      BY <1>1, <1>9, AnsweredFacts, OneFits
    <2>8. TrueAnswer(r, << >>, "ioerr", 1)
      BY DEF TrueAnswer
    <2> QED  BY <1>1, <1>4, <1>5, <1>6, <2>5, <2>6, <2>7, <2>8, AnswerKeeps DEF r
  <1> QED  BY <1>7, <1>8, <1>9 DEF ProcessOut, r

\* A flush, or a type the device does not know.
LEMMA ProcessOtherKeeps ==
    ASSUME DiskInv, ProcessFlush \/ ProcessUnknown
    PROVE  DiskInv'
  <1> DEFINE r == req[chain]
  <1>1. /\ Processed /\ r.type \notin {"in", "out"}
        /\ req' = req /\ data' = data /\ disk' = disk /\ expect' = expect
    BY AnswersStatusOnly DEF ProcessFlush, ProcessUnknown
  <1>2. chain \in Heads /\ data[chain] = << >>
    BY <1>1, ProcessedFacts
  <1>3. disk \in [Bytes -> Values] /\ data \in [Heads -> Seq(Values)]
    BY DEF DiskInv, DiskType
  <1>4. data' = [data EXCEPT ![chain] = << >>] /\ << >> \in Seq(Values)
    BY <1>1, <1>2, <1>3
  <1>5. \A b \in Bytes : disk'[b] = disk[b] /\ ~Covers(r, b)
    BY <1>1 DEF Covers
  <1>6. PICK st \in {"ok", "ioerr", "unsupp"} :
            status' = [status EXCEPT ![chain] = st] /\ used_len' = [used_len EXCEPT ![chain] = 1]
    <2>1. PICK st \in {"ok", "ioerr", "unsupp"} : Answer(st, 0)
      BY DEF ProcessFlush, ProcessUnknown
    <2> QED  BY <1>1, <2>1, AnsweredFacts, OneFits
  <1>7. TrueAnswer(r, << >>, st, 1) /\ st \in Statuses
    BY <1>1 DEF TrueAnswer, Statuses
  <1> HIDE DEF r
  <1>8. r.type # "in"
    BY <1>1 DEF r
  <1> QED  BY <1>1, <1>3, <1>4, <1>5, <1>6, <1>7, <1>8, AnswerKeeps DEF r

\* At the start no request has been answered and the file is as the driver knows it.
LEMMA DiskInvInit == BlkInit => DiskInv
  <1> SUFFICES ASSUME BlkInit PROVE DiskInv
    OBVIOUS
  <1>1. VqInv
    BY VqInvInit
  <1>2. Returned = << >> /\ dev_pc = "avail_idx" /\ q.free = Heads
    <2>1. Returned = << >>
      BY VqInvInit DEF Abstract!Init
    <2> QED  BY <2>1, VqInvInit DEF Abstract!Init, BlkInit, Init
  <1>3. Done = 0
    BY <1>2 DEF Done
  <1>4. Len(InFlight) = 0
    <2>1. Len(InFlight) = Num - Num
      <3>1. Cardinality(Heads) = Num
        BY RingAssumption, FS_Interval DEF Heads
      <3>2. Len(InFlight) = Num - Cardinality(q.free)
        BY <1>1 DEF VqInv, Holds
      <3> QED  BY <1>2, <3>1, <3>2
    <2> QED  BY <2>1, RingAssumption
  <1>5. DiskType
    <2>1. NoRequest \in RequestType
      BY DiskAssumption DEF NoRequest, RequestType, Types
    <2> QED  BY <2>1, DiskAssumption DEF BlkInit, DiskType, Statuses
  <1>6. AnswersInv /\ ReadsInv
    BY <1>3, <1>4 DEF AnswersInv, ReadsInv
  <1>7. FileInv
    BY <1>3 DEF FileInv, MayHold, BlkInit
  <1> QED  BY <1>1, <1>5, <1>6, <1>7 DEF DiskInv

\* Every step keeps what the file, the answers and the driver's knowledge owe each other.
LEMMA DiskInvNext ==
    ASSUME DiskInv, [Next]_vars
    PROVE  DiskInv'
  <1>1. CASE \E r \in Requests : Submit(r)
    BY <1>1, SubmitKeeps
  <1>2. CASE PublishRequests
    <2>1. VqInv' /\ InFlight' = InFlight /\ Returned' = Returned /\ dev_pc' = dev_pc
      BY <1>2, PublishStep DEF PublishRequests, DiskInv, DriverPublish
    <2>2. Done' = Done
      BY <2>1 DEF Done
    <2> QED  BY <1>2, <2>1, <2>2, RequestsKept DEF PublishRequests
  <1>3. CASE CollectRequest
    BY <1>3, CollectKeeps
  <1>4. CASE ProcessIn
    BY <1>4, ProcessInKeeps, ProcessInPanics
  <1>5. CASE ProcessOut
    BY <1>5, ProcessOutKeeps
  <1>6. CASE ProcessFlush \/ ProcessUnknown
    BY <1>6, ProcessOtherKeeps
  <1>7. CASE (ProcessMalformed \/ ReadAvailIdx) /\ UNCHANGED blkVars
    <2>1. /\ ReadAvailIdx \/ Processed \/ ProcessFails
          /\ dev_pc \notin {"used_elem", "used_idx"} /\ dev_pc' \notin {"used_elem", "used_idx"}
      BY <1>7 DEF ProcessMalformed, ReadAvailIdx, ProcessFails
    <2>2. VqInv' /\ InFlight' = InFlight /\ Returned' = Returned
      BY <2>1, QuietStep DEF DiskInv
    <2>3. Done' = Done
      BY <2>1, <2>2 DEF Done
    <2> QED  BY <1>7, <2>1, <2>2, <2>3, RequestsKept DEF ProcessMalformed, ReadAvailIdx, ProcessFails
  <1>8. CASE ReadAvailSlot /\ UNCHANGED blkVars
    <2>1. /\ VqInv' /\ InFlight' = InFlight /\ Returned' = Returned
          /\ dev_pc = "avail_slot" /\ dev_pc' = "process"
      BY <1>8, TakeStep DEF DiskInv, ReadAvailSlot
    <2>2. Done' = Done
      BY <2>1 DEF Done
    <2> QED  BY <1>8, <2>1, <2>2, RequestsKept
  <1>9. CASE WriteUsedElem /\ UNCHANGED blkVars
    <2>1. /\ VqInv' /\ InFlight' = InFlight /\ Returned' = Returned
          /\ dev_pc = "used_elem" /\ dev_pc' = "used_idx"
      BY <1>9, ElemStep DEF DiskInv, WriteUsedElem
    <2>2. Done' = Done
      BY <2>1 DEF Done
    <2> QED  BY <1>9, <2>1, <2>2, RequestsKept
  <1>10. CASE WriteUsedIdx /\ UNCHANGED blkVars
    <2>1. /\ VqInv' /\ InFlight' = InFlight /\ Returned' = Append(Returned, chain)
          /\ dev_pc = "used_idx" /\ dev_pc' = "avail_idx"
      BY <1>10, ReturnStep DEF DiskInv, WriteUsedIdx
    <2>2. Len(Returned') = Len(Returned) + 1 /\ Len(Returned) \in Nat
      <3>1. Returned \in Seq(Heads) /\ chain \in Heads
        BY VqBounds DEF DiskInv, QueueFields
      <3> QED  BY <2>1, <3>1
    <2>3. Done' = Done
      BY <2>1, <2>2 DEF Done
    <2> QED  BY <1>10, <2>1, <2>3, RequestsKept
  <1>11. CASE UNCHANGED vars
    <2>1. q' = q /\ dev_pc' = dev_pc /\ chain' = chain /\ UNCHANGED blkVars
      BY <1>11 DEF vars, vqVars
    <2>2. Returned' = Returned /\ Taken' = Taken /\ Offered' = Offered /\ Staged' = Staged
      BY <2>1 DEF Returned, Taken, InDevice, Offered, Staged
    <2>3. InFlight' = InFlight /\ Done' = Done
      BY <2>1, <2>2 DEF InFlight, Done
    <2>4. VqInv'
      BY <2>1, <2>3 DEF DiskInv, VqInv, VqType, Holds
    <2> QED  BY <2>1, <2>3, <2>4, RequestsKept
  <1>12. ProcessMalformed => UNCHANGED blkVars
    BY DEF ProcessMalformed
  <1> QED  BY <1>1, <1>2, <1>3, <1>4, <1>5, <1>6, <1>7, <1>8, <1>9, <1>10, <1>11, <1>12
           DEF Next, Device, Ring, Process

\* DiskInv says of every answered chain what the two properties say of the
\* returned ones.
LEMMA AnswersFromInv ==
    ASSUME DiskInv
    PROVE  UsedLenTrue /\ AnswersTrue
  <1>1. /\ Len(Returned) \in Nat /\ Len(Returned) <= Done /\ Done <= Len(InFlight) /\ Done \in Nat
        /\ \A i \in 1..Len(Returned) : Returned[i] = InFlight[i]
        /\ Len(InFlight) \in Nat
        /\ \A i \in 1..Len(InFlight) : InFlight[i] \in Heads
    BY DoneFacts DEF DiskInv
  <1>2. Returned \in Seq(Heads) /\ DOMAIN Returned = 1..Len(Returned)
    BY VqBounds, LenProperties DEF DiskInv
  <1>3. \A i \in 1..Len(Returned) :
            TrueAnswer(req[Returned[i]], data[Returned[i]], status[Returned[i]], used_len[Returned[i]])
    <2> SUFFICES ASSUME NEW i \in 1..Len(Returned)
                 PROVE  TrueAnswer(req[InFlight[i]], data[InFlight[i]],
                                   status[InFlight[i]], used_len[InFlight[i]])
      BY <1>1
    <2>1. i \in 1..Len(InFlight) /\ i <= Done
      BY <1>1
    <2> QED  BY <2>1 DEF DiskInv, AnswersInv
  <1>4. UsedLenTrue
    BY <1>2, <1>3 DEF UsedLenTrue, TrueAnswer
  <1>5. ASSUME Returned # << >>
        PROVE  LET h == Head(Returned)
                   r == req[h]
               IN  /\ status[h] # "none"
                   /\ r.type \in {"in", "out"} /\ status[h] = "ok" => OnDisk(r)
                   /\ r.type = "in" /\ status[h] = "ok" =>
                         /\ Len(data[h]) = r.len
                         /\ \A k \in 1..r.len : data[h][k] \in expect[Start(r) + k - 1]
    <2> DEFINE h == Head(Returned)
    <2>1. 1 \in 1..Len(Returned) /\ 1 \in 1..Done /\ h = Returned[1] /\ h = InFlight[1]
      BY <1>1, <1>2, <1>5
    <2> HIDE DEF h
    <2>2. TrueAnswer(req[h], data[h], status[h], used_len[h])
      BY <1>3, <2>1
    <2>3. ASSUME req[h].type = "in", status[h] = "ok", NEW k \in 1..req[h].len
          PROVE  data[h][k] \in expect[Start(req[h]) + k - 1]
      <3>1. MayHold(data[h][k], Start(req[h]) + k - 1, 1 - 1, InFlight, req, status, expect)
        BY <2>1, <2>3 DEF DiskInv, ReadsInv
      <3> QED  BY <3>1 DEF MayHold
    <2> QED  BY <2>2, <2>3 DEF TrueAnswer, h
  <1> QED  BY <1>4, <1>5 DEF AnswersTrue

\* What the driver is told of the request it collects next is true: a read
\* that was acknowledged returns what the writes acknowledged before it left,
\* whatever the ring, the disk and the faults (read(), write(), disk_offset()).
THEOREM AnswersTrueCorrect == FairSpec => []AnswersTrue
  <1>1. BlkInit => DiskInv
    BY DiskInvInit
  <1>2. DiskInv /\ [Next]_vars => DiskInv'
    BY DiskInvNext
  <1>3. DiskInv => AnswersTrue
    BY AnswersFromInv
  <1> QED  BY <1>1, <1>2, <1>3, PTL DEF FairSpec

\* The used length promises no byte that was not written, and counts them all
\* after a success (process()).
THEOREM UsedLenTrueCorrect == FairSpec => []UsedLenTrue
  <1>1. BlkInit => DiskInv
    BY DiskInvInit
  <1>2. DiskInv /\ [Next]_vars => DiskInv'
    BY DiskInvNext
  <1>3. DiskInv => UsedLenTrue
    BY AnswersFromInv
  <1> QED  BY <1>1, <1>2, <1>3, PTL DEF FairSpec

=============================================================================
