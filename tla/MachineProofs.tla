--------------------------- MODULE MachineProofs ----------------------------
(***************************************************************************)
(* Invariance proofs for main() and the ring of coalesced writes, for      *)
(* every command line, every size of the ring and every number of writes.  *)
(***************************************************************************)
EXTENDS Machine, SequenceTheorems, WellFoundedInduction, TLAPS

-----------------------------------------------------------------------------
(* Places in the ring: the arithmetic modulo ENTRIES, once and for all.    *)

\* The number of entries from place a up to, and without, place b
Dist(a, b) == (b - a) % ENTRIES

\* The place of the k-th entry from place a
Place(a, k) == (a + k - 1) % ENTRIES

\* The indices wrap at most once, so a remainder is a case distinction.
LEMMA RingArithmetic ==
    /\ \A a, b \in Slots : Dist(a, b) = IF b >= a THEN b - a ELSE (b - a) + ENTRIES
    /\ \A a \in Slots : After(a) = IF a = ENTRIES - 1 THEN 0 ELSE a + 1
    /\ \A a \in Slots, k \in 1..ENTRIES :
          Place(a, k) = IF a + k - 1 < ENTRIES THEN a + k - 1 ELSE (a + k - 1) - ENTRIES
  <1>1. \A x \in Slots : x % ENTRIES = x
    BY RingSizeAssumption DEF Slots
  <1>2. \A x \in ENTRIES..(2 * ENTRIES - 1) : x % ENTRIES = x - ENTRIES
    BY RingSizeAssumption
  <1>3. \A x \in (1 - ENTRIES)..(-1) : x % ENTRIES = x + ENTRIES
    BY RingSizeAssumption
  <1>4. \A a, b \in Slots : Dist(a, b) = IF b >= a THEN b - a ELSE (b - a) + ENTRIES
    BY <1>1, <1>3, RingSizeAssumption DEF Dist, Slots
  <1>5. \A a \in Slots : After(a) = IF a = ENTRIES - 1 THEN 0 ELSE a + 1
    <2> SUFFICES ASSUME NEW a \in Slots PROVE After(a) = IF a = ENTRIES - 1 THEN 0 ELSE a + 1
      OBVIOUS
    <2>1. CASE a = ENTRIES - 1
      BY <1>2, <2>1, RingSizeAssumption DEF After, Slots
    <2>2. CASE a # ENTRIES - 1
      BY <1>1, <2>2, RingSizeAssumption DEF After, Slots
    <2> QED  BY <2>1, <2>2
  <1>6. ASSUME NEW a \in Slots, NEW k \in 1..ENTRIES
        PROVE  Place(a, k) = IF a + k - 1 < ENTRIES THEN a + k - 1 ELSE (a + k - 1) - ENTRIES
    <2>1. CASE a + k - 1 < ENTRIES
      <3>1. a + k - 1 \in Slots
        BY <2>1, RingSizeAssumption DEF Slots
      <3> QED  BY <1>1, <2>1, <3>1 DEF Place
    <2>2. CASE ~(a + k - 1 < ENTRIES)
      <3>1. a + k - 1 \in ENTRIES..(2 * ENTRIES - 1)
        BY <2>2, RingSizeAssumption DEF Slots
      <3> QED  BY <1>2, <2>2, <3>1 DEF Place
    <2> QED  BY <2>1, <2>2
  <1> QED  BY <1>4, <1>5, <1>6

\* Distances are below the ring's size, and 0 only between equal places.
LEMMA DistBounds ==
    ASSUME NEW a \in Slots, NEW b \in Slots
    PROVE  Dist(a, b) \in 0..(ENTRIES - 1) /\ (Dist(a, b) = 0 <=> a = b)
  <1>1. Dist(a, b) = IF b >= a THEN b - a ELSE (b - a) + ENTRIES
    BY RingArithmetic
  <1>2. ENTRIES \in Nat /\ a \in 0..(ENTRIES - 1) /\ b \in 0..(ENTRIES - 1)
    BY RingSizeAssumption DEF Slots
  <1> QED  BY ONLY <1>1, <1>2

\* Appending to a ring that is not full makes it one longer (KvmQueue).
LEMMA DistGrows ==
    ASSUME NEW a \in Slots, NEW b \in Slots, After(b) # a
    PROVE  After(b) \in Slots /\ Dist(a, After(b)) = Dist(a, b) + 1
  <1>1. After(b) = IF b = ENTRIES - 1 THEN 0 ELSE b + 1
    BY RingArithmetic
  <1>2. After(b) \in Slots
    BY <1>1, RingSizeAssumption DEF Slots
  <1>3. /\ Dist(a, b) = IF b >= a THEN b - a ELSE (b - a) + ENTRIES
        /\ Dist(a, After(b)) = IF After(b) >= a THEN After(b) - a ELSE (After(b) - a) + ENTRIES
    BY <1>2, RingArithmetic
  <1> QED  BY <1>1, <1>2, <1>3, RingSizeAssumption DEF Slots

\* Reading an entry leaves one less (drain).
LEMMA DistShrinks ==
    ASSUME NEW a \in Slots, NEW b \in Slots, a # b
    PROVE  After(a) \in Slots /\ Dist(After(a), b) = Dist(a, b) - 1
  <1>1. After(a) = IF a = ENTRIES - 1 THEN 0 ELSE a + 1
    BY RingArithmetic
  <1>2. After(a) \in Slots
    BY <1>1, RingSizeAssumption DEF Slots
  <1>3. /\ Dist(a, b) = IF b >= a THEN b - a ELSE (b - a) + ENTRIES
        /\ Dist(After(a), b) = IF b >= After(a) THEN b - After(a) ELSE (b - After(a)) + ENTRIES
    BY <1>2, RingArithmetic
  <1> QED  BY <1>1, <1>2, <1>3, RingSizeAssumption DEF Slots

\* The entries from a up to b are in places other than b; the next is in b.
LEMMA PlaceFacts ==
    ASSUME NEW a \in Slots, NEW b \in Slots
    PROVE  /\ Place(a, 1) = a
           /\ Place(a, Dist(a, b) + 1) = b
           /\ \A k \in 1..Dist(a, b) : Place(a, k) \in Slots /\ Place(a, k) # b
           /\ \A k \in 1..(ENTRIES - 1) : Place(After(a), k) = Place(a, k + 1)
  <1>1. Dist(a, b) \in 0..(ENTRIES - 1)
    BY DistBounds
  <1>2. Place(a, 1) = a
    BY RingArithmetic, RingSizeAssumption DEF Slots
  <1>3. Dist(a, b) + 1 \in 1..ENTRIES
    BY <1>1, RingSizeAssumption
  <1>4. Place(a, Dist(a, b) + 1) = b
    BY <1>3, RingArithmetic, RingSizeAssumption DEF Slots
  <1>5. ASSUME NEW k \in 1..Dist(a, b) PROVE Place(a, k) \in Slots /\ Place(a, k) # b
    <2>1. k \in 1..ENTRIES
      BY <1>1, RingSizeAssumption
    <2>2. Place(a, k) = IF a + k - 1 < ENTRIES THEN a + k - 1 ELSE (a + k - 1) - ENTRIES
      BY <2>1, RingArithmetic
    <2>3. Dist(a, b) = IF b >= a THEN b - a ELSE (b - a) + ENTRIES
      BY RingArithmetic
    <2> QED  BY <1>1, <2>2, <2>3, RingSizeAssumption DEF Slots
  <1>6. ASSUME NEW k \in 1..(ENTRIES - 1) PROVE Place(After(a), k) = Place(a, k + 1)
    <2>1. After(a) = IF a = ENTRIES - 1 THEN 0 ELSE a + 1
      BY RingArithmetic
    <2>2. k \in 1..ENTRIES /\ k + 1 \in 1..ENTRIES /\ After(a) \in Slots
      BY <2>1, RingSizeAssumption DEF Slots
    <2>3. Place(After(a), k) = IF After(a) + k - 1 < ENTRIES THEN After(a) + k - 1
                               ELSE (After(a) + k - 1) - ENTRIES
      BY <2>2, RingArithmetic
    <2>4. Place(a, k + 1) = IF a + (k + 1) - 1 < ENTRIES THEN a + (k + 1) - 1
                            ELSE (a + (k + 1) - 1) - ENTRIES
      BY <2>2, RingArithmetic
    <2> QED  BY <2>1, <2>3, <2>4, RingSizeAssumption DEF Slots
  <1> QED  BY <1>2, <1>4, <1>5, <1>6

-----------------------------------------------------------------------------
(* The ring.                                                               *)

\* A reader is in drain()'s loop.
Draining == lock # "none" /\ vcpu # "access"

\* The first entry that is still to be read
From == IF Draining THEN i ELSE first

\* Who is where: the write of an exit is the guest's last, the vcpu's thread
\* takes the lock only while its guest waits, so nothing is queued behind
\* its back, and the reader's place is between KVM's two indices.
RingOrder ==
    /\ vcpu = "guest" => own = 0
    /\ own # 0 => own = written
    /\ vcpu = "access" => lock = "vcpu" /\ first = last
    /\ lock = "vcpu" => vcpu # "guest" /\ end = last
    /\ Draining => /\ Dist(first, i) + Dist(i, last) = Dist(first, last)
                   /\ Dist(i, end) <= Dist(i, last)

\* What is where: the writes applied, then those queued, then the one being
\* handled are numbered without a gap.
RingNumbers ==
    /\ \A k \in 1..Len(applied) : applied[k] = k
    /\ \A k \in 1..Dist(From, last) : entries[Place(From, k)] = Len(applied) + k
    /\ written = Len(applied) + Dist(From, last) + (IF own = 0 THEN 0 ELSE 1)

RingInv == TypeOK /\ RingOrder /\ RingNumbers

\* The ring starts empty.
LEMMA RingInit == Init => RingInv
  <1> SUFFICES ASSUME Init PROVE RingInv
    OBVIOUS
  <1>1. 0 \in Slots /\ Dist(0, 0) = 0
    BY DistBounds, RingSizeAssumption DEF Slots
  <1>2. applied = << >> /\ Len(applied) = 0 /\ applied \in Seq(1..MaxWrites)
    BY DEF Init
  <1>3. TypeOK
    BY <1>1, <1>2, RingSizeAssumption DEF Init, TypeOK
  <1>4. RingOrder
    BY DEF Init, RingOrder, Draining
  <1>5. From = 0
    BY DEF Init, From, Draining
  <1>6. RingNumbers
    BY <1>1, <1>2, <1>5 DEF Init, RingNumbers
  <1> QED  BY <1>3, <1>4, <1>6 DEF RingInv

\* KVM appends a write: it never overwrites an entry still to be read.
LEMMA KvmQueueInv ==
    ASSUME RingInv, KvmQueue
    PROVE  RingInv'
  <1>0. TypeOK /\ RingOrder /\ RingNumbers
    BY DEF RingInv
  <1>1. /\ vcpu = "guest" /\ written < MaxWrites /\ After(last) # first
        /\ written' = written + 1 /\ entries' = [entries EXCEPT ![last] = written + 1]
        /\ last' = After(last)
        /\ first' = first /\ lock' = lock /\ i' = i /\ end' = end /\ vcpu' = vcpu
        /\ own' = own /\ applied' = applied
    BY DEF KvmQueue, Full
  <1>2. own = 0 /\ lock # "vcpu"
    BY <1>0, <1>1 DEF RingOrder
  <1>3. first \in Slots /\ last \in Slots /\ i \in Slots /\ end \in Slots
    BY <1>0 DEF TypeOK
  <1>4. After(last) \in Slots /\ Dist(first, After(last)) = Dist(first, last) + 1
    BY <1>1, <1>3, DistGrows
  <1>5. From \in Slots /\ From' = From /\ Draining' = Draining
    BY <1>1, <1>3 DEF From, Draining
  <1>6. ASSUME Draining
        PROVE  After(last) # i /\ Dist(i, After(last)) = Dist(i, last) + 1
    <2>1. Dist(first, i) + Dist(i, last) = Dist(first, last)
      BY <1>0, <1>6 DEF RingOrder
    <2>2. /\ Dist(first, i) \in 0..(ENTRIES - 1) /\ Dist(i, last) \in 0..(ENTRIES - 1)
          /\ Dist(first, After(last)) \in 0..(ENTRIES - 1)
          /\ Dist(i, After(last)) \in 0..(ENTRIES - 1)
          /\ Dist(first, last) \in 0..(ENTRIES - 1)
      BY <1>3, <1>4, DistBounds
    <2>3. After(last) # i
      <3> SUFFICES ASSUME After(last) = i PROVE FALSE
        OBVIOUS
      <3>1. Dist(first, i) = Dist(first, last) + 1
        BY <1>4
      <3> QED  BY <2>1, <2>2, <3>1, RingSizeAssumption
    <2> QED  BY <1>3, <2>3, DistGrows
  <1>7. After(last) # From /\ Dist(From, After(last)) = Dist(From, last) + 1
    BY <1>1, <1>4, <1>6 DEF From
  <1>8. /\ Dist(From, last) \in 0..(ENTRIES - 1)
        /\ Dist(From, last) + 1 \in 0..(ENTRIES - 1)
    BY <1>3, <1>4, <1>5, <1>7, DistBounds
  <1>9. TypeOK'
    <2>1. written + 1 \in 0..MaxWrites
      BY <1>0, <1>1, RingSizeAssumption DEF TypeOK
    <2>2. entries' \in [Slots -> 0..MaxWrites]
      BY <1>0, <1>1, <2>1 DEF TypeOK
    <2> QED  BY <1>0, <1>1, <1>4, <2>1, <2>2 DEF TypeOK
  <1>10. RingOrder'
    <2>1. Draining => Dist(first, i) + Dist(i, After(last)) = Dist(first, After(last))
      <3> SUFFICES ASSUME Draining
                   PROVE  Dist(first, i) + Dist(i, After(last)) = Dist(first, After(last))
        OBVIOUS
      <3>1. Dist(first, i) + Dist(i, last) = Dist(first, last)
        BY <1>0 DEF RingOrder
      <3>2. Dist(first, i) \in 0..(ENTRIES - 1) /\ Dist(i, last) \in 0..(ENTRIES - 1)
        BY <1>3, DistBounds
      <3> QED  BY <1>4, <1>6, <3>1, <3>2, RingSizeAssumption
    <2>2. Draining => Dist(i, end) <= Dist(i, After(last))
      <3> SUFFICES ASSUME Draining PROVE Dist(i, end) <= Dist(i, After(last))
        OBVIOUS
      <3>1. Dist(i, end) <= Dist(i, last)
        BY <1>0 DEF RingOrder
      <3>2. Dist(i, end) \in 0..(ENTRIES - 1) /\ Dist(i, last) \in 0..(ENTRIES - 1)
        BY <1>3, DistBounds
      <3> QED  BY <1>6, <3>1, <3>2, RingSizeAssumption
    <2> QED  BY <1>0, <1>1, <1>2, <1>5, <2>1, <2>2 DEF RingOrder
  <1>11. RingNumbers'
    <2>1. Len(applied) \in Nat /\ written = Len(applied) + Dist(From, last)
      BY <1>0, <1>2, <1>8 DEF TypeOK, RingNumbers
    <2>2. ASSUME NEW k \in 1..(Dist(From, last) + 1)
          PROVE  entries'[Place(From, k)] = Len(applied) + k
      <3>1. CASE k = Dist(From, last) + 1
        <4>1. Place(From, k) = last
          BY <1>3, <1>5, <3>1, PlaceFacts
        <4>2. entries'[last] = written + 1
          BY <1>0, <1>1, <1>3 DEF TypeOK
        <4> QED  BY <1>8, <2>1, <3>1, <4>1, <4>2
      <3>2. CASE k \in 1..Dist(From, last)
        <4>1. Place(From, k) \in Slots /\ Place(From, k) # last
          BY <1>3, <1>5, <3>2, PlaceFacts
        <4>2. entries'[Place(From, k)] = entries[Place(From, k)]
          BY <1>0, <1>1, <4>1 DEF TypeOK
        <4> QED  BY <1>0, <3>2, <4>2 DEF RingNumbers
      <3> QED  BY <1>8, <3>1, <3>2
    <2>3. written + 1 = Len(applied) + (Dist(From, last) + 1) + 0
      BY <1>8, <2>1
    <2> QED  BY <1>0, <1>1, <1>2, <1>5, <1>7, <2>2, <2>3 DEF RingNumbers
  <1> QED  BY <1>9, <1>10, <1>11 DEF RingInv

\* The guest leaves for the VMM with a write or another access; it had no
\* write in hand.
LEMMA ExitInv ==
    ASSUME RingInv, ExitFull \/ ExitAccess
    PROVE  RingInv'
  <1>0. TypeOK /\ RingOrder /\ RingNumbers
    BY DEF RingInv
  <1>1. /\ vcpu = "guest" /\ vcpu' = "exit"
        /\ entries' = entries /\ first' = first /\ last' = last /\ lock' = lock
        /\ i' = i /\ end' = end /\ applied' = applied
    BY DEF ExitFull, ExitAccess
  <1>2. own = 0 /\ lock # "vcpu"
    BY <1>0, <1>1 DEF RingOrder
  <1>3. \/ own' = 0 /\ written' = written
        \/ own' = written + 1 /\ written' = written + 1 /\ written < MaxWrites
    BY DEF ExitFull, ExitAccess
  <1>4. Draining' = Draining /\ From' = From
    BY <1>1 DEF Draining, From
  <1>5. TypeOK'
    BY <1>0, <1>1, <1>3, RingSizeAssumption DEF TypeOK
  <1>6. RingOrder'
    BY <1>0, <1>1, <1>2, <1>3, <1>4 DEF RingOrder
  <1>7. RingNumbers'
    <2>1. From \in Slots /\ last \in Slots
      BY <1>0 DEF TypeOK, From
    <2>2. Dist(From, last) \in 0..(ENTRIES - 1)
      BY <2>1, DistBounds
    <2>3. Len(applied) \in Nat /\ written \in Nat /\ written = Len(applied) + Dist(From, last)
      BY <1>0, <1>2, <2>2 DEF TypeOK, RingNumbers
    <2>4. written' = Len(applied) + Dist(From, last) + (IF own' = 0 THEN 0 ELSE 1)
      BY <1>3, <2>2, <2>3
    <2> QED  BY <1>0, <1>1, <1>4, <2>4 DEF RingNumbers
  <1> QED  BY <1>5, <1>6, <1>7 DEF RingInv

\* A reader takes the lock and reads both indices: it begins at the first
\* entry.
LEMMA LockInv ==
    ASSUME RingInv, VcpuLock \/ FrontendLock
    PROVE  RingInv'
  <1>0. TypeOK /\ RingOrder /\ RingNumbers
    BY DEF RingInv
  <1>1. /\ lock = "none" /\ lock' \in {"vcpu", "frontend"}
        /\ lock' = "vcpu" => vcpu = "exit"
        /\ i' = first /\ end' = last /\ first' = first /\ last' = last
        /\ entries' = entries /\ vcpu' = vcpu /\ own' = own /\ written' = written
        /\ applied' = applied
    BY DEF VcpuLock, FrontendLock, DrainBegin
  <1>2. vcpu # "access"
    BY <1>0, <1>1 DEF RingOrder
  <1>3. From = first /\ From' = first /\ Draining'
    BY <1>1, <1>2 DEF From, Draining
  <1>4. first \in Slots /\ last \in Slots
    BY <1>0 DEF TypeOK
  <1>5. Dist(first, first) = 0 /\ Dist(first, last) \in 0..(ENTRIES - 1)
    BY <1>4, DistBounds
  <1>6. TypeOK'
    BY <1>0, <1>1 DEF TypeOK
  <1>7. RingOrder'
    BY <1>0, <1>1, <1>2, <1>5 DEF RingOrder
  <1>8. RingNumbers'
    BY <1>0, <1>1, <1>3 DEF RingNumbers
  <1> QED  BY <1>6, <1>7, <1>8 DEF RingInv

\* A reader applies the next entry, which is the oldest write left.
LEMMA DrainEntryInv ==
    ASSUME RingInv, DrainEntry
    PROVE  RingInv'
  <1>0. TypeOK /\ RingOrder /\ RingNumbers
    BY DEF RingInv
  <1>1. /\ Draining /\ i # end
        /\ applied' = Append(applied, entries[i]) /\ i' = After(i)
        /\ entries' = entries /\ first' = first /\ last' = last /\ lock' = lock
        /\ end' = end /\ vcpu' = vcpu /\ own' = own /\ written' = written
    BY DEF DrainEntry, Draining
  <1>2. first \in Slots /\ last \in Slots /\ i \in Slots /\ end \in Slots
    BY <1>0 DEF TypeOK
  <1>3. /\ Dist(i, end) \in 0..(ENTRIES - 1) /\ Dist(i, end) # 0
        /\ Dist(i, last) \in 0..(ENTRIES - 1) /\ Dist(first, i) \in 0..(ENTRIES - 1)
        /\ Dist(first, last) \in 0..(ENTRIES - 1)
    BY <1>1, <1>2, DistBounds
  <1>4. /\ Dist(first, i) + Dist(i, last) = Dist(first, last)
        /\ Dist(i, end) <= Dist(i, last)
    BY <1>0, <1>1 DEF RingOrder
  <1>5. Dist(i, last) # 0 /\ i # last
    <2>1. Dist(i, last) # 0
      BY <1>3, <1>4, RingSizeAssumption
    <2> QED  BY <1>2, <2>1, DistBounds
  <1>6. /\ After(i) \in Slots
        /\ Dist(After(i), end) = Dist(i, end) - 1
        /\ Dist(After(i), last) = Dist(i, last) - 1
    BY <1>1, <1>2, <1>5, DistShrinks
  <1>7. Dist(first, After(i)) = Dist(first, i) + 1
    <2>1. After(i) # first
      <3> SUFFICES ASSUME After(i) = first PROVE FALSE
        OBVIOUS
      <3>1. Dist(first, last) = Dist(i, last) - 1
        BY <1>6
      <3> QED  BY <1>3, <1>4, <3>1, RingSizeAssumption
    <2> QED  BY <1>2, <2>1, DistGrows
  <1>8. From = i /\ From' = After(i) /\ Draining'
    BY <1>1 DEF From, Draining
  <1>9. Len(applied) \in Nat /\ entries[i] = Len(applied) + 1 /\ applied \in Seq(1..MaxWrites)
    <2>1. Len(applied) \in Nat /\ applied \in Seq(1..MaxWrites)
      BY <1>0 DEF TypeOK
    <2>2. 1 \in 1..Dist(i, last)
      BY <1>3, <1>5, RingSizeAssumption
    <2>3. Place(i, 1) = i
      BY <1>2, PlaceFacts
    <2> QED  BY <1>0, <1>8, <2>1, <2>2, <2>3 DEF RingNumbers
  <1>10. entries[i] \in 1..MaxWrites
    BY <1>0, <1>2, <1>9 DEF TypeOK
  <1>11. /\ applied' \in Seq(1..MaxWrites) /\ Len(applied') = Len(applied) + 1
         /\ applied'[Len(applied) + 1] = entries[i]
         /\ \A k \in 1..Len(applied) : applied'[k] = applied[k]
    BY <1>1, <1>9, <1>10
  <1>12. TypeOK'
    BY <1>0, <1>1, <1>6, <1>11 DEF TypeOK
  <1>13. RingOrder'
    <2>1. Dist(first, After(i)) + Dist(After(i), last) = Dist(first, last)
      BY <1>3, <1>4, <1>6, <1>7, RingSizeAssumption
    <2>2. Dist(After(i), end) <= Dist(After(i), last)
      BY <1>3, <1>4, <1>6, RingSizeAssumption
    <2> QED  BY <1>0, <1>1, <2>1, <2>2 DEF RingOrder, Draining
  <1>14. RingNumbers'
    <2>1. \A k \in 1..Len(applied) : applied[k] = k
      BY <1>0 DEF RingNumbers
    <2>2. \A k \in 1..Len(applied') : applied'[k] = k
      BY <1>9, <1>11, <2>1
    <2>3. ASSUME NEW k \in 1..(Dist(i, last) - 1)
          PROVE  entries[Place(After(i), k)] = Len(applied') + k
      <3>1. k \in 1..(ENTRIES - 1) /\ k + 1 \in 1..Dist(i, last)
        BY <1>3, RingSizeAssumption
      <3>2. Place(After(i), k) = Place(i, k + 1)
        BY <1>2, <3>1, PlaceFacts
      <3>3. entries[Place(i, k + 1)] = Len(applied) + (k + 1)
        BY <1>0, <1>8, <3>1 DEF RingNumbers
      <3> QED  BY <1>9, <1>11, <3>2, <3>3
    <2>4. written = Len(applied) + Dist(i, last) + (IF own = 0 THEN 0 ELSE 1)
      BY <1>0, <1>8 DEF RingNumbers
    <2>5. written = Len(applied') + (Dist(i, last) - 1) + (IF own = 0 THEN 0 ELSE 1)
      BY <1>3, <1>9, <1>11, <2>4
    <2> QED  BY <1>1, <1>6, <1>8, <2>2, <2>3, <2>5 DEF RingNumbers
  <1> QED  BY <1>12, <1>13, <1>14 DEF RingInv

\* A reader gives the entries it has read back to KVM; on the vcpu's thread
\* that empties the ring.
LEMMA DrainEndInv ==
    ASSUME RingInv, DrainEnd
    PROVE  RingInv'
  <1>0. TypeOK /\ RingOrder /\ RingNumbers
    BY DEF RingInv
  <1>1. /\ Draining /\ i = end /\ first' = end
        /\ IF lock = "vcpu" THEN vcpu' = "access" /\ lock' = lock
                            ELSE lock' = "none" /\ vcpu' = vcpu
        /\ entries' = entries /\ last' = last /\ i' = i /\ end' = end /\ own' = own
        /\ written' = written /\ applied' = applied
    BY DEF DrainEnd, Draining
  <1>2. From = i /\ From' = i /\ ~Draining'
    BY <1>1 DEF From, Draining
  <1>3. TypeOK'
    BY <1>0, <1>1 DEF TypeOK
  <1>4. RingOrder'
    BY <1>0, <1>1, <1>2 DEF RingOrder, Draining, TypeOK
  <1>5. RingNumbers'
    BY <1>0, <1>1, <1>2 DEF RingNumbers
  <1> QED  BY <1>3, <1>4, <1>5 DEF RingInv

\* The access of the exit: a write in hand is the guest's last, and comes
\* after all that were queued.
LEMMA VcpuAccessInv ==
    ASSUME RingInv, VcpuAccess
    PROVE  RingInv'
  <1>0. TypeOK /\ RingOrder /\ RingNumbers
    BY DEF RingInv
  <1>1. /\ vcpu = "access" /\ own' = 0 /\ vcpu' = "guest" /\ lock' = "none"
        /\ applied' = (IF own = 0 THEN applied ELSE Append(applied, own))
        /\ entries' = entries /\ first' = first /\ last' = last /\ i' = i /\ end' = end
        /\ written' = written
    BY DEF VcpuAccess
  <1>2. first = last /\ From = first /\ From' = first /\ ~Draining'
    BY <1>0, <1>1 DEF RingOrder, From, Draining
  <1>3. Dist(first, last) = 0
    BY <1>0, <1>2, DistBounds DEF TypeOK
  <1>4. Len(applied) \in Nat /\ applied \in Seq(1..MaxWrites) /\ own \in 0..MaxWrites
    BY <1>0 DEF TypeOK
  <1>5. CASE own = 0
    BY <1>0, <1>1, <1>2, <1>5 DEF RingInv, TypeOK, RingOrder, RingNumbers
  <1>6. CASE own # 0
    <2>1. own = written /\ written = Len(applied) + 1
      BY <1>0, <1>2, <1>3, <1>4, <1>6 DEF RingOrder, RingNumbers
    <2>2. own \in 1..MaxWrites
      BY <1>4, <1>6, RingSizeAssumption
    <2>3. /\ applied' \in Seq(1..MaxWrites) /\ Len(applied') = Len(applied) + 1
          /\ applied'[Len(applied) + 1] = own
          /\ \A k \in 1..Len(applied) : applied'[k] = applied[k]
      BY <1>1, <1>4, <1>6, <2>2
    <2>4. TypeOK'
      BY <1>0, <1>1, <2>3, RingSizeAssumption DEF TypeOK
    <2>5. RingOrder'
      BY <1>1, <1>2 DEF RingOrder
    <2>6. \A k \in 1..Len(applied') : applied'[k] = k
      <3>1. \A k \in 1..Len(applied) : applied[k] = k
        BY <1>0 DEF RingNumbers
      <3> QED  BY <1>4, <2>1, <2>3, <3>1
    <2>7. RingNumbers'
      BY <1>1, <1>2, <1>3, <1>4, <2>1, <2>3, <2>6 DEF RingNumbers
    <2> QED  BY <2>4, <2>5, <2>7 DEF RingInv
  <1> QED  BY <1>5, <1>6

\* Every step of KVM, of the vcpu's thread and of a frontend keeps the ring.
LEMMA RingNext == RingInv /\ [Next]_vars => RingInv'
  <1> SUFFICES ASSUME RingInv, [Next]_vars PROVE RingInv'
    OBVIOUS
  <1>1. CASE UNCHANGED vars
    BY <1>1 DEF vars, RingInv, TypeOK, RingOrder, RingNumbers, Draining, From
  <1> QED  BY <1>1, KvmQueueInv, ExitInv, LockInv, DrainEntryInv, DrainEndInv,
              VcpuAccessInv DEF Next

\* What a concatenation has where.
LEMMA ConcatFacts ==
    ASSUME NEW S, NEW s \in Seq(S), NEW t \in Seq(S)
    PROVE  /\ s \o t \in Seq(S) /\ Len(s \o t) = Len(s) + Len(t)
           /\ \A k \in 1..Len(s) : (s \o t)[k] = s[k]
           /\ \A k \in 1..(Len(s) + Len(t)) : k > Len(s) => (s \o t)[k] = t[k - Len(s)]
  <1>1. s \o t \in Seq(S) /\ Len(s \o t) = Len(s) + Len(t)
    OBVIOUS
  <1>2. \A k \in 1..Len(s) : (s \o t)[k] = s[k]
    OBVIOUS
  <1>3. \A k \in 1..(Len(s) + Len(t)) : k > Len(s) => (s \o t)[k] = t[k - Len(s)]
    OBVIOUS
  <1> QED  BY <1>1, <1>2, <1>3

\* Numbered without a gap, the writes are the guest's in its order; and the
\* ring is empty when an access is handled.
LEMMA RingSafe == RingInv => WritesConserved /\ AccessSeesWrites
  <1> SUFFICES ASSUME RingInv PROVE WritesConserved /\ AccessSeesWrites
    OBVIOUS
  <1>0. TypeOK /\ RingOrder /\ RingNumbers
    BY DEF RingInv
  <1> DEFINE n == Dist(From, last)
  <1>1. Queued = [k \in 1..n |-> entries[Place(From, k)]]
    BY DEF Queued, From, Draining, Dist, Place
  <1>2. From \in Slots /\ last \in Slots
    BY <1>0 DEF TypeOK, From
  <1>3. n \in Nat
    BY <1>2, DistBounds, RingSizeAssumption
  <1>4. \A k \in 1..n : entries[Place(From, k)] = Len(applied) + k
    BY <1>0 DEF RingNumbers
  <1>5. Len(applied) \in Nat /\ applied \in Seq(Nat)
    <2>1. applied \in Seq(1..MaxWrites)
      BY <1>0 DEF TypeOK
    <2>2. Len(applied) \in Nat /\ applied \in [1..Len(applied) -> 1..MaxWrites]
      BY <2>1, LenProperties
    <2>3. applied \in [1..Len(applied) -> Nat]
      BY <2>2, RingSizeAssumption
    <2> QED  BY <2>2, <2>3
  <1>6. \A k \in 1..Len(applied) : applied[k] = k
    BY <1>0 DEF RingNumbers
  <1>7. written = Len(applied) + n + (IF own = 0 THEN 0 ELSE 1) /\ (own # 0 => own = written)
    BY <1>0 DEF RingNumbers, RingOrder
  <1>8. AccessSeesWrites
    <2> SUFFICES ASSUME vcpu = "access" PROVE Queued = << >>
      BY DEF AccessSeesWrites
    <2>1. n = 0
      BY <1>0, <1>2, DistBounds DEF RingOrder, From, Draining
    <2> QED  BY <1>1, <2>1
  <1> HIDE DEF n
  <1>9. WritesConserved
    <2> DEFINE q == Queued
               o == IF own = 0 THEN << >> ELSE <<own>>
               s == (applied \o q) \o o
    <2>1. q \in Seq(Nat) /\ Len(q) = n /\ \A k \in 1..n : q[k] = Len(applied) + k
      BY <1>1, <1>3, <1>4, <1>5
    <2>2. written \in Nat /\ own \in Nat
      BY <1>0 DEF TypeOK
    <2>3. o \in Seq(Nat) /\ Len(o) = (IF own = 0 THEN 0 ELSE 1) /\ (own # 0 => o[1] = own)
      BY <2>2
    <2> HIDE DEF q, o
    <2>4. /\ applied \o q \in Seq(Nat) /\ Len(applied \o q) = Len(applied) + n
          /\ \A k \in 1..Len(applied) : (applied \o q)[k] = applied[k]
          /\ \A k \in 1..(Len(applied) + n) :
                k > Len(applied) => (applied \o q)[k] = q[k - Len(applied)]
      BY <1>5, <2>1, ConcatFacts
    <2>5. \A k \in 1..(Len(applied) + n) : (applied \o q)[k] = k
      BY <1>3, <1>5, <1>6, <2>1, <2>4
    <2> DEFINE t == applied \o q
    <2>6. t \in Seq(Nat) /\ Len(t) = Len(applied) + n /\ \A k \in 1..Len(t) : t[k] = k
      BY <2>4, <2>5
    <2> HIDE DEF t
    <2>7. /\ t \o o \in Seq(Nat) /\ Len(t \o o) = Len(t) + Len(o)
          /\ \A k \in 1..Len(t) : (t \o o)[k] = t[k]
          /\ \A k \in 1..(Len(t) + Len(o)) : k > Len(t) => (t \o o)[k] = o[k - Len(t)]
      BY <2>3, <2>6, ConcatFacts
    <2>8. Len(t \o o) = written
      BY <1>3, <1>5, <1>7, <2>3, <2>6, <2>7
    <2>9. ASSUME NEW k \in 1..written PROVE (t \o o)[k] = k
      <3>1. CASE k <= Len(t)
        BY <1>3, <1>5, <2>6, <2>7, <3>1
      <3>2. CASE k > Len(t)
        <4>1. own # 0 /\ k = Len(t) + 1 /\ k = written /\ k - Len(t) = 1
          BY <1>3, <1>5, <1>7, <2>3, <2>6, <3>2
        <4>2. (t \o o)[k] = o[1]
          BY <2>3, <2>6, <2>7, <4>1
        <4> QED  BY <1>7, <2>3, <4>1, <4>2
      <3>3. Len(t) \in Nat
        BY <2>6
      <3>4. k <= Len(t) \/ k > Len(t)
        BY <2>2, <3>3
      <3> QED  BY <3>1, <3>2, <3>4
    <2>10. DOMAIN (t \o o) = 1..written
      BY <2>2, <2>7, <2>8
    <2>11. t \o o = [k \in 1..written |-> (t \o o)[k]]
      <3>1. t \o o \in [1..Len(t \o o) -> Nat]
        BY <2>7, LenProperties
      <3> QED  BY <2>8, <3>1
    <2>12. t \o o = [k \in 1..written |-> k]
      BY <2>9, <2>11
    <2> QED  BY <2>12 DEF WritesConserved, t, q, o
  <1> QED  BY <1>8, <1>9

-----------------------------------------------------------------------------
\* The machine implements the ring alone: a step of main(), of the terminal's
\* thread or of the devices' setup leaves the ring as it is, and the others
\* are steps of the ring (drain() and coalesce_pio() called from main.rs and
\* vga.rs).
LEMMA MachineImplementsRing == MachineSpec => Spec
  <1>1. MachineInit => Init
    BY DEF MachineInit
  <1>2. [MachineNext]_machineVars => [Next]_vars
    BY DEF MachineNext, machineVars, Main, TtyStarts, TtyEnds, RingVcpu, RingFrontend,
       Ended, Next
  <1> QED  BY <1>1, <1>2, PTL DEF MachineSpec, Spec

\* No DAC write is lost, applied twice or overtaken between the guest and the
\* device, whoever drains the ring and whenever KVM appends to it.
THEOREM WritesConservedCorrect == MachineSpec => []WritesConserved
  <1>1. Spec => []WritesConserved
    BY RingInit, RingNext, RingSafe, PTL DEF Spec
  <1> QED  BY <1>1, MachineImplementsRing

\* A register access of the guest finds every write it made before applied.
THEOREM AccessSeesWritesCorrect == MachineSpec => []AccessSeesWrites
  <1>1. Spec => []AccessSeesWrites
    BY RingInit, RingNext, RingSafe, PTL DEF Spec
  <1> QED  BY <1>1, MachineImplementsRing

-----------------------------------------------------------------------------
(* The terminal.                                                           *)

\* From the moment main() restored the terminal until the process ended
RestoredInv ==
    pc \in {"return", "exited"} => terminal = "cooked" \/ tty = "late" \/ ~m.stdin_tty

\* The user has the terminal back when main() has returned, unless its thread
\* only got to raw mode after main() restored it (restore_tty, start_tty).
THEOREM TerminalRestoredCorrect == MachineSpec => []TerminalRestored
  <1>1. MachineInit => RestoredInv
    BY DEF MachineInit, RestoredInv
  <1>2. RestoredInv /\ [MachineNext]_machineVars => RestoredInv'
    <2> SUFFICES ASSUME RestoredInv, [MachineNext]_machineVars PROVE RestoredInv'
      OBVIOUS
    <2>1. CASE Main
      <3>1. CASE RestoreTty
        BY <3>1 DEF RestoreTty, RestoredInv
      <3>2. CASE Return
        BY <3>2 DEF Return, RestoredInv, ttyVars
      <3>3. CASE ~RestoreTty /\ ~Return
        <4>1. pc' \notin {"return", "exited"}
          BY <2>1, <3>3 DEF Main, HostFails, Fail, Create, ArchInitX86, ArchInitArm, AddLow,
             AddHigh, Load, InitMmio, InitDisks, InitIo, SplitDelete, SplitAdd, SplitDone,
             DupLog, CoalescePio, StartRfb, RunEnds
        <4> QED  BY <4>1 DEF RestoredInv
      <3> QED  BY <3>1, <3>2, <3>3
    <2>2. CASE TtyStarts \/ TtyEnds
      BY <2>2 DEF TtyStarts, TtyEnds, Process, RestoredInv
    <2>3. CASE UNCHANGED mainVars
      BY <2>3 DEF mainVars, setupVars, RestoredInv
    <2> QED  BY <2>1, <2>2, <2>3 DEF MachineNext, RingVcpu, RingFrontend, Ended, machineVars
  <1>3. RestoredInv => TerminalRestored
    BY DEF RestoredInv, TerminalRestored
  <1> QED  BY <1>1, <1>2, <1>3, PTL DEF MachineSpec

-----------------------------------------------------------------------------
(* Memory: what main() has set up when, said in full.                      *)

Size(n) == n > 0 /\ n % PAGE_SIZE = 0

HighSize == m.memory - MMIO_START

LowRegion(slot) == [base |-> LowBase, size |-> LowSize, slot |-> slot]
HighRegion == [base |-> HIGH_RAM_START, size |-> HighSize, slot |-> 1]

RegionsAre(slot) ==
    regions = IF HasHigh THEN <<LowRegion(slot), HighRegion>> ELSE <<LowRegion(slot)>>

Mapped(id, base, size, log, region, off) ==
    [id |-> id, base |-> base, size |-> size, log |-> log, region |-> region, off |-> off]

LowSlot == Mapped(0, LowBase, LowSize, FALSE, 1, 0)
HighSlots == IF HasHigh THEN {Mapped(1, HIGH_RAM_START, HighSize, FALSE, 2, 0)} ELSE {}
NextSlot == IF HasHigh THEN 2 ELSE 1

\* The end of the framebuffer's last page
FramebufferEnd == VGA_FRAMEBUFFER + FRAMEBUFFER_PAGES * PAGE_SIZE

\* The three parts of the first region, and the slots they get
PartBefore == [base |-> 0, size |-> VGA_FRAMEBUFFER, log |-> FALSE, region |-> 1, off |-> 0]
PartLogged == [base |-> VGA_FRAMEBUFFER, size |-> FRAMEBUFFER_PAGES * PAGE_SIZE, log |-> TRUE,
               region |-> 1, off |-> VGA_FRAMEBUFFER]
PartAfter == [base |-> FramebufferEnd, size |-> LowSize - FramebufferEnd, log |-> FALSE,
              region |-> 1, off |-> FramebufferEnd]

HasAfter == LowSize # FramebufferEnd

\* What is left to add, after none, one and two of them
AllParts ==
    IF HasAfter THEN <<PartBefore, PartLogged, PartAfter>> ELSE <<PartBefore, PartLogged>>
LoggedParts == IF HasAfter THEN <<PartLogged, PartAfter>> ELSE <<PartLogged>>
LastParts == IF HasAfter THEN <<PartAfter>> ELSE << >>

SlotBefore == PartAsSlot(PartBefore, 0)
SlotLogged == PartAsSlot(PartLogged, NextSlot)
SlotAfter == PartAsSlot(PartAfter, NextSlot + 1)

\* Nothing added yet
MemNone == regions = << >> /\ slots = {} /\ next_slot = 0

\* The first region of a machine with two
MemLow ==
    /\ HasHigh
    /\ regions = <<LowRegion(0)>> /\ slots = {LowSlot} /\ next_slot = 1
    /\ Size(LowSize) /\ LowBase % PAGE_SIZE = 0

\* All regions, a slot each
Sized == Size(LowSize) /\ LowBase % PAGE_SIZE = 0 /\ (HasHigh => Size(HighSize))

MemAdded ==
    /\ RegionsAre(0) /\ slots = {LowSlot} \cup HighSlots /\ next_slot = NextSlot
    /\ Sized

\* The framebuffer is in the first region of an x86_64 machine.
HasFramebuffer ==
    /\ m.arch = "x86_64"
    /\ Sized
    /\ LowBase = 0 /\ LowSize >= FramebufferEnd

\* In log_dirty_pages(), with none, one, two or all of the parts added
MemSplitting ==
    /\ HasFramebuffer
    /\ RegionsAre(0)
    /\ \/ /\ parts = AllParts
          /\ free_slot = 0 /\ slots = HighSlots /\ next_slot = NextSlot
       \/ /\ parts = LoggedParts
          /\ free_slot = NoSlot /\ slots = HighSlots \cup {SlotBefore}
          /\ next_slot = NextSlot
       \/ /\ parts = LastParts
          /\ free_slot = NoSlot /\ slots = HighSlots \cup {SlotBefore, SlotLogged}
          /\ next_slot = NextSlot + 1
          /\ vga.log_slot = NextSlot
       \/ /\ HasAfter /\ parts = << >>
          /\ slots = HighSlots \cup {SlotBefore, SlotLogged, SlotAfter}
          /\ vga.log_slot = NextSlot

MemSplit ==
    /\ HasFramebuffer
    /\ RegionsAre(NoSlot)
    /\ slots = HighSlots \cup {SlotBefore, SlotLogged} \cup (IF HasAfter THEN {SlotAfter} ELSE {})
    /\ vga.log_slot = NextSlot

\* Before the devices of x86_64, the regions are there if there is anything
\* to boot.
MemSet == IF m.boot = "none" THEN MemNone ELSE MemAdded

VgaType == [on : BOOLEAN, framebuffer : BOOLEAN, region : Nat, log_slot : Int,
            log_pages : Int, log_fd : {"none", "own"}, ring : BOOLEAN]

\* What the Vga has when its log was set up
VgaLogged == vga.region # 0 /\ vga.log_fd = "own" /\ vga.log_pages = FRAMEBUFFER_PAGES

Pcs == {"start", "arch", "low", "high", "load", "mmio", "disks", "io", "delete", "parts",
        "dup", "ring", "rfb", "run", "restore", "return", "exited", "failed"}

\* What holds at each step of main()
SetupInv ==
    /\ m \in Machines
    /\ pc \in Pcs
    /\ vga \in VgaType
    /\ pc \in {"start", "arch", "low"} => MemNone
    /\ pc \in {"low", "high", "load"} => m.boot # "none"
    /\ pc = "high" => MemLow
    /\ pc = "load" => MemAdded
    /\ pc \in {"mmio", "disks", "io"} => MemSet
    /\ pc \in {"start", "arch", "low", "high", "load", "mmio", "disks", "io"} => vga = NoVga
    /\ pc \in {"io", "delete", "parts", "dup", "ring"} => m.arch = "x86_64"
    /\ pc \in {"delete", "parts", "dup", "ring"} => ~vga.on
    /\ pc \in {"delete", "parts", "dup"} => vga.framebuffer
    /\ pc = "delete" => MemAdded /\ HasFramebuffer
    /\ pc = "parts" => MemSplitting
    /\ pc = "dup" => MemSplit
    /\ pc \in {"ring", "rfb", "run"} => IF vga.framebuffer THEN MemSplit ELSE MemSet
    /\ vga.framebuffer /\ (vga.on \/ pc \in {"ring", "rfb", "run"}) => VgaLogged
    /\ fault # "code"

\* The addresses of the layout
LEMMA Addresses ==
    /\ MMIO_START \in Nat /\ MMIO_START > 1408 /\ MMIO_START % 8 = 0
    /\ HIGH_RAM_START \in Nat /\ HIGH_RAM_START > MMIO_START /\ HIGH_RAM_START % 8 = 0
    /\ LOAD_ADDR \in Nat /\ LOAD_ADDR % 8 = 0
  BY SMT DEF MMIO_START, HIGH_RAM_START, LOAD_ADDR

\* The numbers of the layout: the machine's memory in two ranges, the second
\* above the first, and the pages of the framebuffer.
LEMMA Layout ==
    ASSUME m \in Machines
    PROVE  /\ m.memory \in Nat /\ LowSize \in Nat /\ LowBase \in Nat /\ HighSize \in Int
           /\ HasHigh => /\ LowBase = 0 /\ LowSize = MMIO_START /\ HighSize > 0
                         /\ m.arch = "x86_64" /\ m.boot = "linux"
           /\ m.arch = "x86_64" => LowBase = 0
           /\ m.arch \in {"x86_64", "aarch64"} /\ m.boot \in {"linux", "binary", "none"}
  BY MachinesAssumption, Addresses DEF LowSize, LowBase, HighSize, HasHigh, Pvh, MinOf

\* The logged pages: from the framebuffer's first byte to the end of a page.
LEMMA LoggedPages ==
    /\ LogStart(VGA_FRAMEBUFFER) = 1280
    /\ LogEnd(VGA_FRAMEBUFFER, VGA_FRAMEBUFFER_SIZE) = 1408
    /\ FramebufferEnd = 1408
  BY DEF LogStart, LogEnd, AlignUp, AlignDown, PAGE_SIZE, VGA_FRAMEBUFFER,
     VGA_FRAMEBUFFER_SIZE, FramebufferEnd, FRAMEBUFFER_PAGES

\* Short sequences put together
LEMMA ShortSeqs ==
    ASSUME NEW a, NEW b, NEW c
    PROVE  /\ <<a>> \o <<b>> = <<a, b>>
           /\ <<a, b>> \o <<c>> = <<a, b, c>>
           /\ Append(<<a>>, b) = <<a, b>>
  <1> DEFINE S == {a, b, c}
  <1>1. <<a>> \in Seq(S) /\ <<b>> \in Seq(S) /\ <<c>> \in Seq(S) /\ <<a, b>> \in Seq(S)
        /\ <<a, b, c>> \in Seq(S)
    OBVIOUS
  <1>2. <<a>> \o <<b>> = <<a, b>>
    <2> DEFINE u == <<a>> \o <<b>>
    <2>1. u \in Seq(S) /\ Len(u) = 2 /\ u[1] = a /\ u[2] = b
      BY <1>1
    <2> HIDE DEF u, S
    <2>2. \A k \in 1..Len(u) : u[k] = <<a, b>>[k]
      BY <2>1
    <2>3. Len(<<a, b>>) = 2
      OBVIOUS
    <2>4. u = <<a, b>>
      BY <1>1, <2>1, <2>2, <2>3, SeqEqual
    <2> QED  BY <2>4 DEF u
  <1>3. <<a, b>> \o <<c>> = <<a, b, c>>
    <2> DEFINE u == <<a, b>> \o <<c>>
    <2>1. u \in Seq(S) /\ Len(u) = 3 /\ u[1] = a /\ u[2] = b /\ u[3] = c
      BY <1>1
    <2> HIDE DEF u, S
    <2>2. \A k \in 1..Len(u) : u[k] = <<a, b, c>>[k]
      BY <2>1
    <2>3. Len(<<a, b, c>>) = 3
      OBVIOUS
    <2>4. u = <<a, b, c>>
      BY <1>1, <2>1, <2>2, <2>3, SeqEqual
    <2> QED  BY <2>4 DEF u
  <1>4. Append(<<a>>, b) = <<a, b>>
    <2> DEFINE u == Append(<<a>>, b)
    <2>1. u \in Seq(S) /\ Len(u) = 2 /\ u[1] = a /\ u[2] = b
      BY <1>1
    <2> HIDE DEF u, S
    <2>2. \A k \in 1..Len(u) : u[k] = <<a, b>>[k]
      BY <2>1
    <2>3. Len(<<a, b>>) = 2
      OBVIOUS
    <2>4. u = <<a, b>>
      BY <1>1, <2>1, <2>2, <2>3, SeqEqual
    <2> QED  BY <2>4 DEF u
  <1> QED  BY <1>2, <1>3, <1>4

\* A machine's regions by their index
LEMMA RegionFacts ==
    ASSUME NEW sl, RegionsAre(sl)
    PROVE  /\ DOMAIN regions = (IF HasHigh THEN {1, 2} ELSE {1})
           /\ Len(regions) = (IF HasHigh THEN 2 ELSE 1)
           /\ regions[1].base = LowBase /\ regions[1].size = LowSize /\ regions[1].slot = sl
           /\ HasHigh => regions[2].base = HIGH_RAM_START /\ regions[2].size = HighSize
  BY DEF RegionsAre, LowRegion, HighRegion

\* log_dirty_pages() finds the first region.
LEMMA SplitsFirst ==
    ASSUME m \in Machines, HasFramebuffer, NEW slot, RegionsAre(slot)
    PROVE  SplitIdx = 1
  <1>1. SplitIdx = gpa_to_host(1280, 128)
    BY LoggedPages DEF SplitIdx, SplitRegion
  <1>2. 1 \in DOMAIN regions /\ Covers(regions[1], 1280, 128)
    <2>1. 1 \in DOMAIN regions /\ regions[1].base = LowBase /\ regions[1].size = LowSize
      BY RegionFacts
    <2>2. LowBase = 0 /\ LowSize \in Nat /\ LowSize >= 1408
      BY LoggedPages, Layout DEF HasFramebuffer
    <2> QED  BY <2>1, <2>2 DEF Covers
  <1>3. DOMAIN regions \subseteq {1, 2}
    BY RegionFacts
  <1> DEFINE holds == {j \in DOMAIN regions : Covers(regions[j], 1280, 128)}
  <1>4. 1 \in holds /\ \A j \in holds : 1 <= j
    BY <1>2, <1>3
  <1>5. \A h \in holds : (\A j \in holds : h <= j) => h = 1
    BY <1>3, <1>4
  <1>6. (CHOOSE h \in holds : \A j \in holds : h <= j) = 1
    BY <1>4, <1>5
  <1> QED  BY <1>1, <1>4, <1>6 DEF gpa_to_host

\* Its parts: the third only when there is memory behind the framebuffer.
LEMMA PartsAre ==
    ASSUME m \in Machines, HasFramebuffer, RegionsAre(0)
    PROVE  Parts(1, VGA_FRAMEBUFFER, VGA_FRAMEBUFFER_SIZE) = AllParts
  <1>1. regions[1].base = 0 /\ regions[1].size = LowSize
    BY RegionFacts DEF HasFramebuffer
  <1>2. LowSize \in Nat
    BY Layout
  <1>3. Parts(1, VGA_FRAMEBUFFER, VGA_FRAMEBUFFER_SIZE) =
          (<<PartBefore>> \o <<PartLogged>>) \o LastParts
    <2> DEFINE before == IF 0 = 1280 THEN << >>
                         ELSE <<[base |-> 0, size |-> 1280 - 0, log |-> FALSE, region |-> 1,
                                 off |-> 0 - 0]>>
               logged == IF 1280 = 1408 THEN << >>
                         ELSE <<[base |-> 1280, size |-> 1408 - 1280, log |-> TRUE, region |-> 1,
                                 off |-> 1280 - 0]>>
               behind  == [base |-> 1408, size |-> (0 + LowSize) - 1408, log |-> FALSE,
                          region |-> 1, off |-> 1408 - 0]
               after  == IF 1408 = 0 + LowSize THEN << >> ELSE <<behind>>
    <2>1. Parts(1, VGA_FRAMEBUFFER, VGA_FRAMEBUFFER_SIZE) = before \o logged \o after
      BY <1>1, LoggedPages DEF Parts
    <2>2. before = <<PartBefore>>
      BY DEF PartBefore, VGA_FRAMEBUFFER
    <2>3. logged = <<PartLogged>>
      BY DEF PartLogged, VGA_FRAMEBUFFER, FRAMEBUFFER_PAGES, PAGE_SIZE
    <2>4. after = LastParts
      <3>1. /\ 0 + LowSize = LowSize /\ (0 + LowSize) - 1408 = LowSize - 1408
            /\ 1408 - 0 = 1408 /\ (HasAfter <=> LowSize # 1408)
        BY <1>2, LoggedPages DEF HasAfter
      <3>2. PartAfter = [base |-> 1408, size |-> LowSize - 1408, log |-> FALSE, region |-> 1,
                         off |-> 1408]
        BY LoggedPages DEF PartAfter
      <3>3. behind = PartAfter
        BY <1>2, <3>1, <3>2
      <3> HIDE DEF behind
      <3>4. CASE HasAfter
        BY <1>2, <3>1, <3>3, <3>4 DEF LastParts
      <3>5. CASE ~HasAfter
        BY <3>1, <3>5 DEF LastParts
      <3> QED  BY <3>4, <3>5
    <2> HIDE DEF before, logged, after
    <2> QED  BY <2>1, <2>2, <2>3, <2>4
  <1>4. (<<PartBefore>> \o <<PartLogged>>) \o LastParts = <<PartBefore, PartLogged>> \o LastParts
    BY ShortSeqs
  <1>5. <<PartBefore, PartLogged>> \o LastParts = AllParts
    <2>1. CASE HasAfter
      BY <2>1, ShortSeqs DEF LastParts, AllParts
    <2>2. CASE ~HasAfter
      <3>1. \A a, b : <<a, b>> \o << >> = <<a, b>>
        OBVIOUS
      <3> QED  BY <2>2, <3>1 DEF LastParts, AllParts
    <2> QED  BY <2>1, <2>2
  <1> QED  BY <1>3, <1>4, <1>5

-----------------------------------------------------------------------------
\* The slots of a machine that was not split tile its regions.
LEMMA AddedTiles ==
    ASSUME m \in Machines, MemAdded
    PROVE  SlotsTile /\ \A s \in slots : s.log = FALSE
  <1>1. RegionsAre(0) /\ slots = {LowSlot} \cup HighSlots
    BY DEF MemAdded
  <1>2. LowSize \in Nat /\ LowBase \in Nat /\ HighSize \in Int
    BY Layout
  <1> DEFINE sl == LowSlot
             sh == Mapped(1, HIGH_RAM_START, HighSize, FALSE, 2, 0)
  <1>3. /\ sl.id = 0 /\ sl.base = LowBase /\ sl.size = LowSize /\ sl.log = FALSE
        /\ sl.region = 1 /\ sl.off = 0
    BY DEF LowSlot, Mapped
  <1>4. /\ sh.id = 1 /\ sh.base = HIGH_RAM_START /\ sh.size = HighSize /\ sh.log = FALSE
        /\ sh.region = 2 /\ sh.off = 0
    BY DEF Mapped
  <1>5. /\ \A s \in slots : s = sl \/ (s = sh /\ HasHigh)
        /\ sl \in slots /\ (HasHigh => sh \in slots)
    BY <1>1 DEF HighSlots
  <1> HIDE DEF sl, sh
  <1>6. HasHigh => LowBase = 0 /\ LowSize = MMIO_START /\ HighSize > 0
    BY Layout
  <1>7. SlotsDisjoint
    BY <1>2, <1>3, <1>4, <1>5, <1>6, Addresses DEF SlotsDisjoint, Overlap
  <1>8. /\ DOMAIN regions = (IF HasHigh THEN {1, 2} ELSE {1})
        /\ regions[1].base = LowBase /\ regions[1].size = LowSize
        /\ HasHigh => regions[2].base = HIGH_RAM_START /\ regions[2].size = HighSize
    BY <1>1, RegionFacts
  <1>9. SlotsInPlace
    <2>1. ASSUME NEW s \in slots
          PROVE  /\ s.region \in DOMAIN regions
                 /\ Covers(regions[s.region], s.base, s.size)
                 /\ s.off = s.base - regions[s.region].base
      <3>1. CASE s = sl
        BY <1>2, <1>3, <1>8, <3>1 DEF Covers
      <3>2. CASE s = sh /\ HasHigh
        BY <1>2, <1>4, <1>8, <3>2, Addresses DEF Covers
      <3> QED  BY <1>5, <3>1, <3>2
    <2> QED  BY <2>1 DEF SlotsInPlace
  <1>10. SlotsCover
    <2>1. ASSUME NEW j \in DOMAIN regions
          PROVE  /\ \E s \in {t \in slots : t.region = j} : s.base = regions[j].base
                 /\ \A s \in {t \in slots : t.region = j} :
                       s.base + s.size \in {regions[j].base + regions[j].size}
                         \cup {t.base : t \in {u \in slots : u.region = j}}
      <3>1. CASE j = 1
        BY <1>3, <1>4, <1>5, <1>8, <3>1
      <3>2. CASE j = 2 /\ HasHigh
        BY <1>3, <1>4, <1>5, <1>8, <3>2
      <3> QED  BY <1>8, <3>1, <3>2
    <2> QED  BY <2>1 DEF SlotsCover
  <1>11. \A s \in slots : s.log = FALSE
    BY <1>3, <1>4, <1>5
  <1> QED  BY <1>7, <1>9, <1>10, <1>11 DEF SlotsTile

\* So do those of one that was, and the logged ones are the framebuffer's.
LEMMA SplitTiles ==
    ASSUME m \in Machines, MemSplit
    PROVE  /\ SlotsTile
           /\ {s.id : s \in {t \in slots : t.log}} = {NextSlot}
           /\ \A s \in slots : s.log => s.base = VGA_FRAMEBUFFER
                                        /\ s.size = FRAMEBUFFER_PAGES * PAGE_SIZE
  <1>1. /\ RegionsAre(NoSlot) /\ HasFramebuffer
        /\ slots = HighSlots \cup {SlotBefore, SlotLogged}
                     \cup (IF HasAfter THEN {SlotAfter} ELSE {})
    BY DEF MemSplit
  <1>2. LowSize \in Nat /\ HighSize \in Int /\ LowSize >= 1408 /\ LowBase = 0
    BY <1>1, Layout, LoggedPages DEF HasFramebuffer
  <1> DEFINE sb == SlotBefore
             sl == SlotLogged
             sa == SlotAfter
             sh == Mapped(1, HIGH_RAM_START, HighSize, FALSE, 2, 0)
  <1>3. /\ \A s \in slots : s = sb \/ s = sl \/ (s = sa /\ LowSize # 1408) \/ (s = sh /\ HasHigh)
        /\ sb \in slots /\ sl \in slots
        /\ (LowSize # 1408 => sa \in slots) /\ (HasHigh => sh \in slots)
    <2>1. HasAfter <=> LowSize # 1408
      BY LoggedPages DEF HasAfter
    <2>2. HighSlots = IF HasHigh THEN {sh} ELSE {}
      BY DEF HighSlots
    <2> HIDE DEF sh
    <2> QED  BY <1>1, <2>1, <2>2
  <1>4. /\ sb.id = 0 /\ sb.base = 0 /\ sb.size = 1280 /\ sb.log = FALSE
        /\ sb.region = 1 /\ sb.off = 0
    BY DEF SlotBefore, PartAsSlot, PartBefore, VGA_FRAMEBUFFER
  <1>5. /\ sl.id = NextSlot /\ sl.base = 1280 /\ sl.size = 128 /\ sl.log = TRUE
        /\ sl.region = 1 /\ sl.off = 1280
    BY DEF SlotLogged, PartAsSlot, PartLogged, VGA_FRAMEBUFFER, FRAMEBUFFER_PAGES, PAGE_SIZE
  <1>6. /\ sa.id = NextSlot + 1 /\ sa.base = 1408 /\ sa.size = LowSize - 1408 /\ sa.log = FALSE
        /\ sa.region = 1 /\ sa.off = 1408
    BY LoggedPages DEF SlotAfter, PartAsSlot, PartAfter
  <1>7. /\ sh.id = 1 /\ sh.base = HIGH_RAM_START /\ sh.size = HighSize /\ sh.log = FALSE
        /\ sh.region = 2 /\ sh.off = 0
    BY DEF Mapped
  <1> HIDE DEF sb, sl, sa, sh
  <1>8. /\ HasHigh => LowSize = MMIO_START /\ HighSize > 0
        /\ NextSlot = (IF HasHigh THEN 2 ELSE 1)
    BY Layout DEF NextSlot
  <1>9. SlotsDisjoint
    BY <1>2, <1>3, <1>4, <1>5, <1>6, <1>7, <1>8, Addresses DEF SlotsDisjoint, Overlap
  <1>10. /\ DOMAIN regions = (IF HasHigh THEN {1, 2} ELSE {1})
         /\ regions[1].base = 0 /\ regions[1].size = LowSize
         /\ HasHigh => regions[2].base = HIGH_RAM_START /\ regions[2].size = HighSize
    BY <1>1, <1>2, RegionFacts
  <1>11. SlotsInPlace
    <2>1. ASSUME NEW s \in slots
          PROVE  /\ s.region \in DOMAIN regions
                 /\ Covers(regions[s.region], s.base, s.size)
                 /\ s.off = s.base - regions[s.region].base
      <3>1. CASE s = sb \/ s = sl \/ s = sa
        BY <1>2, <1>4, <1>5, <1>6, <1>10, <3>1 DEF Covers
      <3>2. CASE s = sh /\ HasHigh
        BY <1>2, <1>7, <1>10, <3>2, Addresses DEF Covers
      <3> QED  BY <1>3, <3>1, <3>2
    <2> QED  BY <2>1 DEF SlotsInPlace
  <1>12. SlotsCover
    <2>1. ASSUME NEW j \in DOMAIN regions
          PROVE  /\ \E s \in {t \in slots : t.region = j} : s.base = regions[j].base
                 /\ \A s \in {t \in slots : t.region = j} :
                       s.base + s.size \in {regions[j].base + regions[j].size}
                         \cup {t.base : t \in {u \in slots : u.region = j}}
      <3>1. CASE j = 1
        BY <1>2, <1>3, <1>4, <1>5, <1>6, <1>7, <1>10, <3>1
      <3>2. CASE j = 2 /\ HasHigh
        BY <1>2, <1>3, <1>4, <1>5, <1>6, <1>7, <1>10, <3>2, Addresses
      <3> QED  BY <1>10, <3>1, <3>2
    <2> QED  BY <2>1 DEF SlotsCover
  <1>13. \A s \in slots : s.log => s = sl
    BY <1>3, <1>4, <1>6, <1>7
  <1>14. {s.id : s \in {t \in slots : t.log}} = {NextSlot}
    BY <1>3, <1>5, <1>13
  <1>15. \A s \in slots : s.log => s.base = VGA_FRAMEBUFFER /\ s.size = FRAMEBUFFER_PAGES * PAGE_SIZE
    BY <1>5, <1>13 DEF VGA_FRAMEBUFFER, FRAMEBUFFER_PAGES, PAGE_SIZE
  <1> QED  BY <1>9, <1>11, <1>12, <1>14, <1>15 DEF SlotsTile

\* What the invariant says of a machine that runs.
LEMMA SetupSafe == SetupInv => MemoryWhole
  <1> SUFFICES ASSUME SetupInv PROVE MemoryWhole
    OBVIOUS
  <1>1. m \in Machines /\ fault # "code"
    BY DEF SetupInv
  <1>3. ASSUME pc = "run", vga.framebuffer
        PROVE  /\ SlotsTile
               /\ {s.id : s \in {t \in slots : t.log}} = {vga.log_slot}
               /\ \A s \in slots : s.log =>
                     /\ s.base = VGA_FRAMEBUFFER
                     /\ s.size = vga.log_pages * PAGE_SIZE
                     /\ vga.log_pages = FRAMEBUFFER_PAGES
    <2>1. MemSplit /\ VgaLogged
      BY <1>3 DEF SetupInv
    <2>2. vga.log_slot = NextSlot /\ vga.log_pages = FRAMEBUFFER_PAGES
      BY <2>1 DEF MemSplit, VgaLogged
    <2> QED  BY <1>1, <2>1, <2>2, SplitTiles
  <1>4. ASSUME pc = "run", ~vga.framebuffer
        PROVE  SlotsTile /\ \A s \in slots : s.log = FALSE
    <2>1. CASE MemNone
      BY <2>1 DEF MemNone, SlotsTile, SlotsDisjoint, SlotsInPlace, SlotsCover
    <2>2. CASE MemAdded
      BY <1>1, <2>2, AddedTiles
    <2> QED  BY <1>4, <2>1, <2>2 DEF SetupInv, MemSet
  <1>5. MemoryWhole
    BY <1>1, <1>3, <1>4 DEF MemoryWhole
  <1> QED  BY <1>5

-----------------------------------------------------------------------------
\* What is said of a machine's layout depends on the machine alone.
LEMMA SameMachine ==
    ASSUME m' = m
    PROVE  /\ LowSize' = LowSize /\ LowBase' = LowBase /\ HighSize' = HighSize
           /\ HasHigh' = HasHigh /\ NextSlot' = NextSlot
           /\ LowSlot' = LowSlot /\ HighSlots' = HighSlots
           /\ \A sl : LowRegion(sl)' = LowRegion(sl)
           /\ HighRegion' = HighRegion
           /\ Sized' = Sized /\ HasFramebuffer' = HasFramebuffer /\ HasAfter' = HasAfter
           /\ AllParts' = AllParts /\ LoggedParts' = LoggedParts /\ LastParts' = LastParts
           /\ SlotLogged' = SlotLogged /\ SlotAfter' = SlotAfter
  <1>1. LowSize' = LowSize /\ LowBase' = LowBase /\ HighSize' = HighSize /\ HasHigh' = HasHigh
    BY DEF LowSize, LowBase, HighSize, HasHigh, Pvh
  <1>2. NextSlot' = NextSlot /\ LowSlot' = LowSlot /\ HighSlots' = HighSlots
    BY <1>1 DEF NextSlot, LowSlot, HighSlots, Mapped
  <1>3. (\A sl : LowRegion(sl)' = LowRegion(sl)) /\ HighRegion' = HighRegion
    BY <1>1 DEF LowRegion, HighRegion
  <1>4. Sized' = Sized /\ HasFramebuffer' = HasFramebuffer /\ HasAfter' = HasAfter
    BY <1>1 DEF Sized, HasFramebuffer, HasAfter, Size
  <1>5. PartAfter' = PartAfter
    BY <1>1 DEF PartAfter
  <1>6. AllParts' = AllParts /\ LoggedParts' = LoggedParts /\ LastParts' = LastParts
    BY <1>4, <1>5 DEF AllParts, LoggedParts, LastParts
  <1>7. SlotLogged' = SlotLogged /\ SlotAfter' = SlotAfter
    BY <1>2, <1>5 DEF SlotLogged, SlotAfter, PartAsSlot
  <1> QED  BY <1>1, <1>2, <1>3, <1>4, <1>6, <1>7

\* Steps that leave the memory alone leave it as it was said to be.
LEMMA MemKept ==
    ASSUME m' = m, UNCHANGED memVars
    PROVE  /\ MemNone => MemNone'
           /\ MemLow => MemLow'
           /\ MemAdded => MemAdded'
           /\ MemSet => MemSet'
           /\ HasFramebuffer => HasFramebuffer'
           /\ MemSplit /\ vga'.log_slot = vga.log_slot => MemSplit'
           /\ MemSplitting /\ vga' = vga /\ UNCHANGED splitVars => MemSplitting'
  <1>1. regions' = regions /\ slots' = slots /\ next_slot' = next_slot
    BY DEF memVars
  <1>2. MemNone => MemNone'
    BY <1>1 DEF MemNone
  <1>3. MemLow => MemLow'
    BY <1>1, SameMachine DEF MemLow, Size
  <1>4. \A sl : RegionsAre(sl) => RegionsAre(sl)'
    BY <1>1, SameMachine DEF RegionsAre
  <1>5. MemAdded => MemAdded'
    BY <1>1, <1>4, SameMachine DEF MemAdded
  <1>6. MemSet => MemSet'
    BY <1>2, <1>5 DEF MemSet
  <1>7. MemSplit /\ vga'.log_slot = vga.log_slot => MemSplit'
    BY <1>1, <1>4, SameMachine DEF MemSplit, SlotBefore, PartBefore
  <1>8. MemSplitting /\ vga' = vga /\ UNCHANGED splitVars => MemSplitting'
    BY <1>1, <1>4, SameMachine DEF MemSplitting, splitVars, SlotBefore, PartBefore
  <1> QED  BY <1>2, <1>3, <1>5, <1>6, <1>7, <1>8, SameMachine

\* main() starts with no memory and no display.
LEMMA SetupInit == MachineInit => SetupInv
  <1> SUFFICES ASSUME MachineInit PROVE SetupInv
    OBVIOUS
  <1>1. NoVga \in VgaType /\ NoVga.framebuffer = FALSE
    BY DEF NoVga, VgaType, NoSlot
  <1> QED  BY <1>1 DEF MachineInit, MemInit, SetupInv, MemNone, Pcs

\* Giving up, for any reason but the code's own, keeps the invariant.
LEMMA FailInv ==
    ASSUME SetupInv, NEW why \in {"host", "user"}, Fail(why)
    PROVE  SetupInv'
  BY DEF SetupInv, Fail, Pcs, VgaLogged

\* The steps before the devices
LEMMA BootInv ==
    ASSUME SetupInv, HostFails \/ Create \/ ArchInitX86 \/ ArchInitArm \/ Load
                     \/ InitMmio \/ InitDisks
    PROVE  SetupInv'
  <1>1. CASE HostFails
    BY <1>1, FailInv DEF HostFails
  <1>2. CASE Create
    BY <1>2, MemKept DEF Create, SetupInv, Pcs, VgaLogged
  <1>3. CASE ArchInitX86 \/ ArchInitArm
    <2>1. /\ pc = "arch" /\ pc' = IF m.boot = "none" THEN "mmio" ELSE "low"
          /\ UNCHANGED memVars /\ m' = m /\ vga' = vga /\ fault' = fault
      BY <1>3 DEF ArchInitX86, ArchInitArm
    <2> QED  BY <2>1, MemKept DEF SetupInv, Pcs, VgaLogged, MemSet
  <1>4. CASE Load
    <2>1. CASE Fail("user")
      BY <2>1, FailInv
    <2>2. CASE ~Fail("user")
      <3>1. /\ pc = "load" /\ pc' = "mmio"
            /\ UNCHANGED memVars /\ m' = m /\ vga' = vga /\ fault' = fault
        BY <1>4, <2>2 DEF Load
      <3> QED  BY <3>1, MemKept DEF SetupInv, Pcs, VgaLogged, MemSet
    <2> QED  BY <2>1, <2>2
  <1>5. CASE InitMmio
    BY <1>5, MemKept DEF InitMmio, SetupInv, Pcs, VgaLogged
  <1>6. CASE InitDisks
    <2>1. /\ pc = "disks" /\ pc' = IF m.arch = "aarch64" THEN "rfb" ELSE "io"
          /\ UNCHANGED memVars /\ m' = m /\ vga' = vga /\ fault' = fault
      BY <1>6 DEF InitDisks
    <2>2. vga = NoVga /\ NoVga.framebuffer = FALSE
      BY <2>1 DEF SetupInv, NoVga
    <2>3. m \in Machines /\ MemSet'
      BY <2>1, MemKept DEF SetupInv
    <2>4. m.arch \in {"x86_64", "aarch64"}
      BY <2>3, MachinesAssumption
    <2> QED  BY <2>1, <2>2, <2>3, <2>4 DEF SetupInv, Pcs
  <1> QED  BY <1>1, <1>2, <1>3, <1>4, <1>5, <1>6

\* The regions are added one by one.
LEMMA AddInv ==
    ASSUME SetupInv, AddLow \/ AddHigh
    PROVE  SetupInv'
  <1>0. m \in Machines
    BY DEF SetupInv
  <1>1. CASE Fail("user")
    BY <1>1, FailInv
  <1>2. CASE AddLow /\ ~Fail("user")
    <2>1. /\ pc = "low" /\ add_mem_region(LowSize, LowBase)
          /\ pc' = IF HasHigh THEN "high" ELSE "load"
          /\ m' = m /\ vga' = vga /\ fault' = fault
      BY <1>2 DEF AddLow
    <2>2. regions = << >> /\ slots = {} /\ next_slot = 0 /\ m.boot # "none"
      BY <2>1 DEF SetupInv, MemNone
    <2>3. NewRegionSlot(LowSize, LowBase) = LowSlot
      BY <2>2 DEF NewRegionSlot, LowSlot, Mapped
    <2>4. /\ slots' = {LowSlot} /\ next_slot' = 1
          /\ LowSlot.size > 0 /\ LowSlot.base % PAGE_SIZE = 0 /\ LowSlot.size % PAGE_SIZE = 0
      BY <2>1, <2>2, <2>3 DEF add_mem_region, KvmTakes
    <2>5. regions' = <<LowRegion(0)>>
      <3>1. \A x : Append(<< >>, x) = <<x>>
        OBVIOUS
      <3> QED  BY <2>1, <2>2, <3>1 DEF add_mem_region, LowRegion
    <2>6. Size(LowSize) /\ LowBase % PAGE_SIZE = 0
      BY <2>4 DEF Size, LowSlot, Mapped
    <2>7. CASE HasHigh
      <3>1. MemLow'
        BY <2>1, <2>4, <2>5, <2>6, <2>7, SameMachine DEF MemLow, Size
      <3> QED  BY <2>1, <2>2, <2>7, <3>1 DEF SetupInv, Pcs, VgaLogged
    <2>8. CASE ~HasHigh
      <3>1. RegionsAre(0)'
        BY <2>1, <2>5, <2>8, SameMachine DEF RegionsAre
      <3>2. Sized'
        BY <2>1, <2>6, <2>8, SameMachine DEF Sized
      <3>3. slots' = ({LowSlot} \cup HighSlots)' /\ next_slot' = NextSlot'
        BY <2>1, <2>4, <2>8, SameMachine DEF HighSlots, NextSlot
      <3>4. MemAdded'
        BY <3>1, <3>2, <3>3 DEF MemAdded
      <3> QED  BY <2>1, <2>2, <2>8, <3>4 DEF SetupInv, Pcs, VgaLogged
    <2> QED  BY <2>7, <2>8
  <1>3. CASE AddHigh /\ ~Fail("user")
    <2>1. /\ pc = "high" /\ add_mem_region(HighSize, HIGH_RAM_START) /\ pc' = "load"
          /\ m' = m /\ vga' = vga /\ fault' = fault
      BY <1>3 DEF AddHigh, HighSize
    <2>2. MemLow /\ m.boot # "none"
      BY <2>1 DEF SetupInv
    <2> DEFINE sh == Mapped(1, HIGH_RAM_START, HighSize, FALSE, 2, 0)
    <2>3. NewRegionSlot(HighSize, HIGH_RAM_START) = sh
      BY <2>2 DEF MemLow, NewRegionSlot, Mapped
    <2>4. sh.size = HighSize
      BY DEF Mapped
    <2>5. slots' = {LowSlot} \cup {sh} /\ next_slot' = 2 /\ sh.size > 0 /\ sh.size % PAGE_SIZE = 0
      <3> HIDE DEF sh
      <3>1. slots = {LowSlot} /\ next_slot = 1
        BY <2>2 DEF MemLow
      <3> QED  BY <2>1, <2>3, <3>1 DEF add_mem_region, KvmTakes
    <2>6. regions' = <<LowRegion(0), HighRegion>>
      <3>1. regions' = Append(<<LowRegion(0)>>, HighRegion)
        BY <2>1, <2>2 DEF MemLow, add_mem_region, HighRegion
      <3> QED  BY <3>1, ShortSeqs
    <2>7. RegionsAre(0)'
      BY <2>1, <2>2, <2>6, SameMachine DEF RegionsAre, MemLow
    <2>8. Sized'
      BY <2>1, <2>2, <2>4, <2>5, SameMachine DEF Sized, MemLow, Size
    <2>9. slots' = ({LowSlot} \cup HighSlots)' /\ next_slot' = NextSlot'
      BY <2>1, <2>2, <2>5, SameMachine DEF HighSlots, NextSlot, MemLow
    <2>10. MemAdded'
      BY <2>7, <2>8, <2>9 DEF MemAdded
    <2> QED  BY <2>1, <2>2, <2>10 DEF SetupInv, Pcs, VgaLogged
  <1> QED  BY <1>1, <1>2, <1>3

\* The framebuffer is there only when the first region of x86_64 reaches over
\* its last page.
LEMMA FramebufferThere ==
    ASSUME m \in Machines, m.arch = "x86_64", MemSet,
           gpa_to_host(VGA_FRAMEBUFFER, VGA_FRAMEBUFFER_SIZE) # 0
    PROVE  MemAdded /\ HasFramebuffer
  <1> DEFINE holds == {j \in DOMAIN regions : Covers(regions[j], 1280, 125)}
  <1>1. holds # {}
    BY DEF gpa_to_host, VGA_FRAMEBUFFER, VGA_FRAMEBUFFER_SIZE
  <1>2. MemAdded
    <2> SUFFICES ASSUME MemNone PROVE FALSE
      BY DEF MemSet
    <2>1. DOMAIN regions = {}
      BY DEF MemNone
    <2> QED  BY <1>1, <2>1
  <1>3. RegionsAre(0) /\ Sized
    BY <1>2 DEF MemAdded
  <1>4. /\ DOMAIN regions = (IF HasHigh THEN {1, 2} ELSE {1})
        /\ regions[1].base = LowBase /\ regions[1].size = LowSize
        /\ HasHigh => regions[2].base = HIGH_RAM_START
    BY <1>3, RegionFacts
  <1>5. LowBase = 0 /\ LowSize \in Nat
    BY Layout
  <1>6. PICK j \in DOMAIN regions : Covers(regions[j], 1280, 125)
    BY <1>1
  <1>7. j = 1
    <2> SUFFICES ASSUME j = 2, HasHigh PROVE FALSE
      BY <1>4
    <2> QED  BY <1>4, <1>6, Addresses DEF Covers
  <1>8. 1280 + 125 <= LowSize
    BY <1>4, <1>5, <1>6, <1>7 DEF Covers
  <1>9. LowSize % 8 = 0
    BY <1>3 DEF Sized, Size, PAGE_SIZE
  <1>10. LowSize >= 1408
    BY <1>5, <1>8, <1>9
  <1> QED  BY <1>2, <1>3, <1>5, <1>10, LoggedPages DEF HasFramebuffer

\* KVM takes each part of the split: whole pages that no other slot has.
LEMMA PartsTaken ==
    ASSUME m \in Machines, HasFramebuffer
    PROVE  /\ KvmTakes(HighSlots, SlotBefore)
           /\ KvmTakes(HighSlots \cup {SlotBefore}, SlotLogged)
           /\ HasAfter => KvmTakes(HighSlots \cup {SlotBefore, SlotLogged}, SlotAfter)
  <1>1. /\ LowSize \in Nat /\ LowSize >= 1408 /\ LowSize % 8 = 0
        /\ HasHigh => LowSize = MMIO_START /\ HighSize > 0
        /\ HighSize \in Int
        /\ NextSlot = (IF HasHigh THEN 2 ELSE 1)
        /\ (HasAfter <=> LowSize # 1408)
    BY Layout, LoggedPages DEF HasFramebuffer, Sized, Size, PAGE_SIZE, NextSlot, HasAfter
  <1>2. /\ SlotBefore.id = 0 /\ SlotBefore.base = 0 /\ SlotBefore.size = 1280
    BY DEF SlotBefore, PartAsSlot, PartBefore, VGA_FRAMEBUFFER
  <1>3. SlotLogged.id = NextSlot /\ SlotLogged.base = 1280 /\ SlotLogged.size = 128
    BY DEF SlotLogged, PartAsSlot, PartLogged, VGA_FRAMEBUFFER, FRAMEBUFFER_PAGES, PAGE_SIZE
  <1>4. SlotAfter.id = NextSlot + 1 /\ SlotAfter.base = 1408 /\ SlotAfter.size = LowSize - 1408
    BY LoggedPages DEF SlotAfter, PartAsSlot, PartAfter
  <1>5. \A t \in HighSlots : HasHigh /\ t.id = 1 /\ t.base = HIGH_RAM_START /\ t.size = HighSize
    BY DEF HighSlots, Mapped
  <1>6. KvmTakes(HighSlots, SlotBefore)
    BY <1>1, <1>2, <1>5, Addresses DEF KvmTakes, Overlap, PAGE_SIZE
  <1>7. KvmTakes(HighSlots \cup {SlotBefore}, SlotLogged)
    BY <1>1, <1>2, <1>3, <1>5, Addresses DEF KvmTakes, Overlap, PAGE_SIZE
  <1>8. HasAfter => KvmTakes(HighSlots \cup {SlotBefore, SlotLogged}, SlotAfter)
    BY <1>1, <1>2, <1>3, <1>4, <1>5, Addresses DEF KvmTakes, Overlap, PAGE_SIZE
  <1> QED  BY <1>6, <1>7, <1>8

\* The Vga's fields after a field is set
LEMMA VgaFields ==
    ASSUME vga \in VgaType
    PROVE  /\ \A b \in BOOLEAN :
                 /\ [vga EXCEPT !.framebuffer = b] \in VgaType
                 /\ [vga EXCEPT !.framebuffer = b].framebuffer = b
                 /\ [vga EXCEPT !.framebuffer = b].on = vga.on
           /\ \A x \in Int :
                 /\ [vga EXCEPT !.log_slot = x] \in VgaType
                 /\ [vga EXCEPT !.log_slot = x].log_slot = x
                 /\ [vga EXCEPT !.log_slot = x].on = vga.on
                 /\ [vga EXCEPT !.log_slot = x].framebuffer = vga.framebuffer
  BY DEF VgaType

\* Setting up the display
LEMMA InitIoInv ==
    ASSUME SetupInv, InitIo
    PROVE  SetupInv'
  <1> DEFINE there == gpa_to_host(VGA_FRAMEBUFFER, VGA_FRAMEBUFFER_SIZE) # 0
  <1>1. /\ pc = "io" /\ pc' = IF there THEN "delete" ELSE "ring"
        /\ vga' = [vga EXCEPT !.framebuffer = there]
        /\ UNCHANGED memVars /\ m' = m /\ fault' = fault
    BY DEF InitIo
  <1>2. /\ m \in Machines /\ m.arch = "x86_64" /\ MemSet /\ vga \in VgaType /\ vga = NoVga
    BY <1>1 DEF SetupInv
  <1>3. there \in BOOLEAN /\ NoVga.on = FALSE
    BY DEF NoVga
  <1>4. there => MemAdded /\ HasFramebuffer
    BY <1>2, FramebufferThere
  <1> HIDE DEF there
  <1>5. vga' \in VgaType /\ vga'.framebuffer = there /\ vga'.on = FALSE
    BY <1>1, <1>2, <1>3, VgaFields
  <1>6. (there => MemAdded' /\ HasFramebuffer') /\ MemSet'
    BY <1>1, <1>2, <1>4, MemKept
  <1>7. CASE there
    BY <1>1, <1>2, <1>5, <1>6, <1>7 DEF SetupInv, Pcs
  <1>8. CASE ~there
    BY <1>1, <1>2, <1>3, <1>5, <1>6, <1>8 DEF SetupInv, Pcs
  <1> QED  BY <1>7, <1>8

\* log_dirty_pages(): the slot is deleted.
LEMMA SplitDeleteInv ==
    ASSUME SetupInv, SplitDelete
    PROVE  SetupInv'
  <1>1. /\ pc = "delete" /\ m \in Machines /\ MemAdded /\ HasFramebuffer
    BY DEF SplitDelete, SetupInv
  <1>2. RegionsAre(0) /\ slots = {LowSlot} \cup HighSlots /\ next_slot = NextSlot
    BY <1>1 DEF MemAdded
  <1>3. SplitIdx = 1 /\ regions[1].slot = 0
    BY <1>1, <1>2, SplitsFirst, RegionFacts
  <1>4. /\ DeleteSlot(0) /\ free_slot' = 0
        /\ parts' = Parts(1, VGA_FRAMEBUFFER, VGA_FRAMEBUFFER_SIZE)
        /\ pc' = "parts" /\ m' = m /\ vga' = vga /\ fault' = fault
    BY <1>3 DEF SplitDelete, NoSlot
  <1>5. parts' = AllParts
    BY <1>1, <1>2, <1>4, PartsAre
  <1>6. slots' = HighSlots /\ regions' = regions /\ next_slot' = next_slot
    <2>1. LowSlot.id = 0
      BY DEF LowSlot, Mapped
    <2>2. \A s \in HighSlots : s.id # 0
      BY DEF HighSlots, Mapped
    <2> QED  BY <1>2, <1>4, <2>1, <2>2 DEF DeleteSlot
  <1>7. RegionsAre(0)'
    BY <1>2, <1>4, <1>6, SameMachine DEF RegionsAre
  <1>8. MemSplitting'
    BY <1>1, <1>2, <1>4, <1>5, <1>6, <1>7, SameMachine DEF MemSplitting
  <1> QED  BY <1>4, <1>8 DEF SetupInv, SplitDelete, Pcs

\* log_dirty_pages(): a part is added; KVM takes each.
LEMMA SplitAddInv ==
    ASSUME SetupInv, SplitAdd
    PROVE  SetupInv'
  <1>0. /\ pc = "parts" /\ parts # << >> /\ m \in Machines /\ MemSplitting /\ HasFramebuffer
        /\ RegionsAre(0) /\ vga \in VgaType
    BY DEF SplitAdd, SetupInv, MemSplitting
  <1> DEFINE id == PartSlot(free_slot)
             s == PartAsSlot(Head(parts), id)
  <1>1. ASSUME KvmTakes(slots, s)
        PROVE  /\ slots' = slots \cup {s}
               /\ next_slot' = IF free_slot = NoSlot THEN next_slot + 1 ELSE next_slot
               /\ regions' = regions
               /\ vga' = IF Head(parts).log THEN [vga EXCEPT !.log_slot = id] ELSE vga
               /\ free_slot' = NoSlot /\ parts' = Tail(parts)
               /\ m' = m /\ pc' = "parts" /\ fault' = fault
    BY <1>0, <1>1 DEF SplitAdd, AddPart
  <1>2. NextSlot \in Int
    BY DEF NextSlot
  <1>3. ASSUME m' = m, regions' = regions PROVE RegionsAre(0)'
    BY <1>0, <1>3, SameMachine DEF RegionsAre
  <1>4. SlotBefore' = SlotBefore
    BY DEF SlotBefore, PartBefore
  <1>5. CASE parts = AllParts /\ free_slot = 0 /\ slots = HighSlots /\ next_slot = NextSlot
    <2>1. Head(parts) = PartBefore /\ Tail(parts) = LoggedParts
      BY <1>5 DEF AllParts, LoggedParts
    <2>2. s = SlotBefore
      BY <1>5, <2>1 DEF SlotBefore, PartSlot, NoSlot
    <2>3. KvmTakes(slots, s)
      BY <1>0, <1>5, <2>2, PartsTaken
    <2>4. /\ slots' = HighSlots \cup {SlotBefore} /\ next_slot' = NextSlot /\ regions' = regions
          /\ free_slot' = NoSlot /\ parts' = LoggedParts
          /\ m' = m /\ pc' = "parts" /\ fault' = fault
      <3>1. free_slot # NoSlot
        BY <1>5 DEF NoSlot
      <3> HIDE DEF s, id
      <3> QED  BY <1>1, <1>5, <2>1, <2>2, <2>3, <3>1
    <2>5. vga' = vga
      BY <1>1, <2>1, <2>3 DEF PartBefore
    <2>6. MemSplitting'
      BY <1>0, <1>3, <1>4, <2>4, SameMachine DEF MemSplitting
    <2> QED  BY <1>0, <2>4, <2>5, <2>6 DEF SetupInv
  <1>6. CASE parts = LoggedParts /\ free_slot = NoSlot /\ slots = HighSlots \cup {SlotBefore}
             /\ next_slot = NextSlot
    <2>1. Head(parts) = PartLogged /\ Tail(parts) = LastParts
      BY <1>6 DEF LoggedParts, LastParts
    <2>2. id = NextSlot /\ s = SlotLogged
      BY <1>6, <2>1 DEF SlotLogged, PartSlot, NoSlot
    <2>3. KvmTakes(slots, s)
      BY <1>0, <1>6, <2>2, PartsTaken
    <2>4. /\ slots' = (HighSlots \cup {SlotBefore}) \cup {SlotLogged}
          /\ next_slot' = NextSlot + 1 /\ regions' = regions
          /\ free_slot' = NoSlot /\ parts' = LastParts
          /\ m' = m /\ pc' = "parts" /\ fault' = fault
      BY <1>1, <1>6, <2>1, <2>2, <2>3 DEF NoSlot
    <2>5. vga' = [vga EXCEPT !.log_slot = NextSlot]
      <3>1. PartLogged.log = TRUE
        BY DEF PartLogged
      <3> QED  BY <1>1, <2>1, <2>2, <2>3, <3>1
    <2>6. /\ vga' \in VgaType /\ vga'.log_slot = NextSlot /\ vga'.on = vga.on
          /\ vga'.framebuffer = vga.framebuffer
      BY <1>0, <1>2, <2>5, VgaFields
    <2>7. slots' = HighSlots \cup {SlotBefore, SlotLogged}
      BY <2>4
    <2>8. MemSplitting'
      BY <1>0, <1>3, <1>4, <2>4, <2>6, <2>7, SameMachine DEF MemSplitting
    <2> QED  BY <1>0, <2>4, <2>6, <2>8 DEF SetupInv
  <1>7. CASE parts = LastParts /\ free_slot = NoSlot
             /\ slots = HighSlots \cup {SlotBefore, SlotLogged}
             /\ next_slot = NextSlot + 1 /\ vga.log_slot = NextSlot
    <2>1. HasAfter /\ Head(parts) = PartAfter /\ Tail(parts) = << >>
      BY <1>0, <1>7 DEF LastParts
    <2>2. id = NextSlot + 1 /\ s = SlotAfter
      BY <1>7, <2>1 DEF SlotAfter, PartSlot, NoSlot
    <2>3. KvmTakes(slots, s)
      BY <1>0, <1>7, <2>1, <2>2, PartsTaken
    <2>4. /\ slots' = (HighSlots \cup {SlotBefore, SlotLogged}) \cup {SlotAfter}
          /\ regions' = regions /\ parts' = << >>
          /\ m' = m /\ pc' = "parts" /\ fault' = fault
      BY <1>1, <1>7, <2>1, <2>2, <2>3
    <2>5. vga' = vga
      <3>1. PartAfter.log = FALSE
        BY DEF PartAfter
      <3> QED  BY <1>1, <2>1, <2>3, <3>1
    <2>6. slots' = HighSlots \cup {SlotBefore, SlotLogged, SlotAfter}
      BY <2>4
    <2>7. MemSplitting'
      BY <1>0, <1>3, <1>4, <1>7, <2>1, <2>4, <2>5, <2>6, SameMachine DEF MemSplitting
    <2> QED  BY <1>0, <2>4, <2>5, <2>7 DEF SetupInv
  <1> QED  BY <1>0, <1>5, <1>6, <1>7 DEF MemSplitting

\* log_dirty_pages(): the region no longer has a slot of its own.
LEMMA SplitDoneInv ==
    ASSUME SetupInv, SplitDone
    PROVE  SetupInv'
  <1>1. /\ pc = "parts" /\ parts = << >> /\ m \in Machines /\ MemSplitting /\ HasFramebuffer
        /\ RegionsAre(0)
    BY DEF SplitDone, SetupInv, MemSplitting
  <1>2. SplitIdx = 1
    BY <1>1, SplitsFirst
  <1>3. /\ regions' = [regions EXCEPT ![1].slot = NoSlot] /\ pc' = "dup"
        /\ slots' = slots /\ m' = m /\ vga' = vga /\ fault' = fault
    BY <1>2 DEF SplitDone
  <1>4. AllParts # << >> /\ LoggedParts # << >> /\ (LastParts = << >> <=> ~HasAfter)
    BY DEF AllParts, LoggedParts, LastParts
  <1>5. /\ slots = HighSlots \cup {SlotBefore, SlotLogged}
                     \cup (IF HasAfter THEN {SlotAfter} ELSE {})
        /\ vga.log_slot = NextSlot
    BY <1>1, <1>4 DEF MemSplitting
  <1>6. RegionsAre(NoSlot)'
    <2>1. [LowRegion(0) EXCEPT !.slot = NoSlot] = LowRegion(NoSlot)
      BY DEF LowRegion
    <2>2. CASE HasHigh
      <3>1. regions = <<LowRegion(0), HighRegion>>
        BY <1>1, <2>2 DEF RegionsAre
      <3>2. [<<LowRegion(0), HighRegion>> EXCEPT ![1].slot = NoSlot]
              = <<[LowRegion(0) EXCEPT !.slot = NoSlot], HighRegion>>
        OBVIOUS
      <3>3. regions' = <<LowRegion(NoSlot), HighRegion>>
        BY <1>3, <2>1, <3>1, <3>2
      <3> QED  BY <1>3, <2>2, <3>3, SameMachine DEF RegionsAre
    <2>3. CASE ~HasHigh
      <3>1. regions = <<LowRegion(0)>>
        BY <1>1, <2>3 DEF RegionsAre
      <3>2. [<<LowRegion(0)>> EXCEPT ![1].slot = NoSlot]
              = <<[LowRegion(0) EXCEPT !.slot = NoSlot]>>
        OBVIOUS
      <3>3. regions' = <<LowRegion(NoSlot)>>
        BY <1>3, <2>1, <3>1, <3>2
      <3> QED  BY <1>3, <2>3, <3>3, SameMachine DEF RegionsAre
    <2> QED  BY <2>2, <2>3
  <1>7. SlotBefore' = SlotBefore
    BY DEF SlotBefore, PartBefore
  <1>8. MemSplit'
    BY <1>1, <1>3, <1>5, <1>6, <1>7, SameMachine DEF MemSplit
  <1> QED  BY <1>1, <1>3, <1>8 DEF SetupInv, Pcs

\* The log's descriptor, the ring and the RFB server
LEMMA DevicesInv ==
    ASSUME SetupInv, DupLog \/ CoalescePio \/ StartRfb
    PROVE  SetupInv'
  <1>0. m \in Machines /\ vga \in VgaType
    BY DEF SetupInv
  <1>1. CASE DupLog
    <2>1. /\ pc = "dup" /\ pc' = "ring"
          /\ vga' = [vga EXCEPT !.log_fd = "own", !.region = SplitIdx,
                                !.log_pages = (LogEnd(VGA_FRAMEBUFFER, VGA_FRAMEBUFFER_SIZE)
                                                 - LogStart(VGA_FRAMEBUFFER)) \div PAGE_SIZE]
          /\ UNCHANGED memVars /\ m' = m /\ fault' = fault
      BY <1>1 DEF DupLog
    <2>2. MemSplit /\ m.arch = "x86_64" /\ vga.framebuffer /\ ~vga.on
      BY <2>1 DEF SetupInv
    <2>3. SplitIdx = 1
      BY <1>0, <2>2, SplitsFirst DEF MemSplit
    <2>4. (LogEnd(VGA_FRAMEBUFFER, VGA_FRAMEBUFFER_SIZE) - LogStart(VGA_FRAMEBUFFER))
             \div PAGE_SIZE = 16
      BY LoggedPages DEF PAGE_SIZE
    <2>5. vga' = [vga EXCEPT !.log_fd = "own", !.region = 1, !.log_pages = 16]
      BY <2>1, <2>3, <2>4
    <2>6. /\ vga' \in VgaType /\ vga'.log_fd = "own" /\ vga'.region = 1 /\ vga'.log_pages = 16
          /\ vga'.log_slot = vga.log_slot /\ vga'.on = vga.on
          /\ vga'.framebuffer = vga.framebuffer
      <3> DEFINE v1 == [vga EXCEPT !.log_fd = "own"]
                 v2 == [v1 EXCEPT !.region = 1]
                 v3 == [v2 EXCEPT !.log_pages = 16]
      <3>1. /\ v1 \in VgaType /\ v1.log_fd = "own" /\ v1.log_slot = vga.log_slot
            /\ v1.on = vga.on /\ v1.framebuffer = vga.framebuffer
        BY <1>0 DEF VgaType
      <3>2. vga' = v3
        BY <2>5
      <3> HIDE DEF v1
      <3>3. /\ v2 \in VgaType /\ v2.log_fd = "own" /\ v2.region = 1
            /\ v2.log_slot = vga.log_slot /\ v2.on = vga.on /\ v2.framebuffer = vga.framebuffer
        BY <3>1 DEF VgaType
      <3> HIDE DEF v2
      <3>4. /\ v3 \in VgaType /\ v3.log_fd = "own" /\ v3.region = 1 /\ v3.log_pages = 16
            /\ v3.log_slot = vga.log_slot /\ v3.on = vga.on /\ v3.framebuffer = vga.framebuffer
        BY <3>3 DEF VgaType
      <3> QED  BY <3>2, <3>4
    <2>7. VgaLogged'
      BY <2>6 DEF VgaLogged, FRAMEBUFFER_PAGES
    <2>8. MemSplit'
      BY <2>1, <2>2, <2>6, MemKept
    <2> QED  BY <1>0, <2>1, <2>2, <2>6, <2>7, <2>8 DEF SetupInv, Pcs
  <1>2. CASE CoalescePio
    <2>1. PICK b \in BOOLEAN : vga' = [vga EXCEPT !.on = TRUE, !.ring = b]
      BY <1>2 DEF CoalescePio
    <2>2. pc = "ring" /\ pc' = "rfb" /\ UNCHANGED memVars /\ m' = m /\ fault' = fault
      BY <1>2 DEF CoalescePio
    <2>3. /\ vga' \in VgaType /\ vga'.log_fd = vga.log_fd /\ vga'.region = vga.region
          /\ vga'.log_pages = vga.log_pages /\ vga'.log_slot = vga.log_slot
          /\ vga'.framebuffer = vga.framebuffer
      BY <1>0, <2>1 DEF VgaType
    <2>4. vga.framebuffer => VgaLogged'
      BY <2>2, <2>3 DEF SetupInv, VgaLogged
    <2>5. IF vga'.framebuffer THEN MemSplit' ELSE MemSet'
      BY <2>2, <2>3, MemKept DEF SetupInv
    <2> QED  BY <1>0, <2>2, <2>3, <2>4, <2>5 DEF SetupInv, Pcs
  <1>3. CASE StartRfb
    <2>1. pc = "rfb" /\ pc' = "run" /\ UNCHANGED memVars /\ m' = m /\ fault' = fault /\ vga' = vga
      BY <1>3 DEF StartRfb
    <2>2. IF vga'.framebuffer THEN MemSplit' ELSE MemSet'
      BY <2>1, MemKept DEF SetupInv
    <2> QED  BY <1>0, <2>1, <2>2 DEF SetupInv, Pcs, VgaLogged
  <1> QED  BY <1>1, <1>2, <1>3

\* The way out
LEMMA ExitMainInv ==
    ASSUME SetupInv, RunEnds \/ RestoreTty \/ Return
    PROVE  SetupInv'
  <1>1. CASE RunEnds
    <2>1. NoVga \in VgaType /\ NoVga.framebuffer = FALSE
      BY DEF NoVga, VgaType, NoSlot
    <2>2. /\ pc' = "restore" /\ (vga' = vga \/ vga' = NoVga) /\ m' = m /\ fault' = fault
      BY <1>1 DEF RunEnds
    <2> QED  BY <2>1, <2>2 DEF SetupInv, Pcs, VgaLogged
  <1>2. CASE RestoreTty \/ Return
    <2>1. pc' \in {"return", "exited"} /\ vga' = vga /\ m' = m /\ fault' = fault
      BY <1>2 DEF RestoreTty, Return
    <2> QED  BY <2>1 DEF SetupInv, Pcs, VgaLogged
  <1> QED  BY <1>1, <1>2

\* Every step of the process keeps what was set up.
LEMMA SetupNext == SetupInv /\ [MachineNext]_machineVars => SetupInv'
  <1> SUFFICES ASSUME SetupInv, [MachineNext]_machineVars PROVE SetupInv'
    OBVIOUS
  <1>1. CASE Main
    BY <1>1, BootInv, AddInv, InitIoInv, SplitDeleteInv, SplitAddInv, SplitDoneInv,
       DevicesInv, ExitMainInv DEF Main
  <1>2. CASE TtyStarts \/ TtyEnds \/ UNCHANGED mainVars
    <2>1. UNCHANGED memVars /\ m' = m /\ pc' = pc /\ vga' = vga /\ fault' = fault
          /\ UNCHANGED splitVars
      BY <1>2 DEF TtyStarts, TtyEnds, mainVars, setupVars, splitVars
    <2> QED  BY <2>1, MemKept DEF SetupInv, VgaLogged
  <1> QED  BY <1>1, <1>2 DEF MachineNext, RingVcpu, RingFrontend, Ended, machineVars

-----------------------------------------------------------------------------
(* What is loaded where, and how the vcpu starts.                          *)

\* What set_ip() finds: the mode the vcpu is created in
SetupMode ==
    IF m.arch = "x86_64" THEN [ResetMode EXCEPT !.flat = TRUE]
    ELSE [pe |-> TRUE, paging |-> FALSE, bits |-> 64, flat |-> TRUE]

\* A piece is in the first region.
PlacedLow(p) == p.start < LowSize /\ p.start + p.len <= LowSize

StartRegs ==
    IF m.boot # "linux" THEN FirstRegs(SetupMode)
    ELSE IF Pvh
    THEN [ip |-> m.segments[1].start, info |-> hvm_base, cpu |-> protected_mode_setup]
    ELSE [ip |-> LOAD_ADDR + KERN_OFFS, info |-> LOAD_ADDR, cpu |-> SetupMode]

\* From Load to the guest's end: the pieces of the boot are where they are
\* said to be, and so are the registers.
Loaded ==
    /\ m.boot # "none" => \A k \in DOMAIN ToLoad : PlacedLow(ToLoad[k])
    /\ m.boot = "linux" /\ ~Pvh => m.dtb # NoFile
    /\ HeaderRead
    /\ pieces = IF m.boot = "none" THEN << >> ELSE ToLoad
    /\ regs = StartRegs

LoadedPcs == {"mmio", "disks", "io", "delete", "parts", "dup", "ring", "rfb", "run"}

LoadInv ==
    /\ pc \in {"start", "arch", "low", "high", "load"} => pieces = << >>
    /\ pc \in {"start", "arch"} => regs.cpu = ResetMode
    /\ pc \in {"low", "high", "load"} => regs = FirstRegs(SetupMode)
    /\ pc \in {"high", "load"} => HeaderRead
    /\ pc \in LoadedPcs => Loaded

LEMMA LoadInit == MachineInit => LoadInv
  BY DEF MachineInit, LoadInv, LoadedPcs

\* What is loaded, and where, depends on the machine alone.
LEMMA SameBoot ==
    ASSUME m' = m
    PROVE  /\ SetupMode' = SetupMode /\ StartRegs' = StartRegs /\ ToLoad' = ToLoad /\ Pvh' = Pvh
           /\ HeaderRead' = HeaderRead
           /\ \A c : FirstRegs(c)' = FirstRegs(c)
           /\ \A p : PlacedLow(p)' = PlacedLow(p)
  <1>1. SetupMode' = SetupMode /\ (\A c : FirstRegs(c)' = FirstRegs(c)) /\ Pvh' = Pvh
    BY DEF SetupMode, FirstRegs, Pvh
  <1>2. StartRegs' = StartRegs
    BY <1>1 DEF StartRegs, FirstRegs
  <1>3. \A p : PlacedLow(p)' = PlacedLow(p)
    BY <1>1 DEF PlacedLow, LowSize
  <1>4. KernelPieces' = KernelPieces /\ ArmPieces' = ArmPieces
    BY DEF KernelPieces, ArmPieces
  <1>5. NameStart' = NameStart /\ InitrdStart' = InitrdStart
    BY DEF NameStart, InitrdStart
  <1>6. InitrdPieces' = InitrdPieces
    BY <1>5 DEF InitrdPieces
  <1>7. CmdlineStart' = CmdlineStart /\ MemmapStart' = MemmapStart
        /\ ModlistStart' = ModlistStart
    BY DEF CmdlineStart, MemmapStart, ModlistStart
  <1>8. InfoPieces' = InfoPieces
    BY <1>7 DEF InfoPieces
  <1>9. ToLoad' = ToLoad
    BY <1>1, <1>4, <1>6, <1>8 DEF ToLoad
  <1>10. HeaderRead' = HeaderRead
    BY DEF HeaderRead
  <1> QED  BY <1>1, <1>2, <1>3, <1>9, <1>10

LEMMA LoadedKept ==
    ASSUME Loaded, m' = m, pieces' = pieces, regs' = regs
    PROVE  Loaded'
  BY SameBoot DEF Loaded

\* The vcpu is created, and nothing is loaded when there is nothing to boot.
LEMMA ArchInitLoad ==
    ASSUME SetupInv, LoadInv, ArchInitX86 \/ ArchInitArm
    PROVE  LoadInv'
  <1>1. /\ pc = "arch" /\ pc' = IF m.boot = "none" THEN "mmio" ELSE "low"
        /\ m' = m /\ pieces' = pieces
    BY DEF ArchInitX86, ArchInitArm
  <1>2. pieces = << >> /\ regs.cpu = ResetMode /\ m \in Machines
    BY <1>1 DEF LoadInv, SetupInv
  <1>3. regs' = FirstRegs(SetupMode)
    BY <1>2 DEF ArchInitX86, ArchInitArm, SetupMode
  <1>4. CASE m.boot = "none"
    <2>1. m.boot # "linux" /\ StartRegs = FirstRegs(SetupMode) /\ HeaderRead
      BY <1>4 DEF StartRegs, HeaderRead
    <2>2. Loaded'
      BY <1>1, <1>2, <1>3, <1>4, <2>1, SameBoot DEF Loaded
    <2> QED  BY <1>1, <1>4, <2>2 DEF LoadInv
  <1>5. CASE m.boot # "none"
    BY <1>1, <1>2, <1>3, <1>5, SameBoot DEF LoadInv, LoadedPcs
  <1> QED  BY <1>4, <1>5

\* What does not fit the first region is not loaded.
LEMMA LoadLoad ==
    ASSUME SetupInv, LoadInv, Load
    PROVE  LoadInv'
  <1>1. CASE Fail("user")
    BY <1>1 DEF Fail, LoadInv, LoadedPcs
  <1>2. CASE ~Fail("user")
    <2>1. /\ pc = "load" /\ pc' = "mmio" /\ m' = m
          /\ \A k \in DOMAIN ToLoad : Fits(ToLoad[k])
          /\ m.boot = "linux" /\ ~Pvh => m.dtb # NoFile
          /\ pieces' = ToLoad /\ regs' = EntryRegs
      BY <1>2 DEF Load
    <2>2. /\ m \in Machines /\ m.boot # "none" /\ MemAdded /\ regs = FirstRegs(SetupMode)
          /\ HeaderRead
      BY <2>1 DEF SetupInv, LoadInv
    <2>3. regions[1].size = LowSize
      BY <2>2, RegionFacts DEF MemAdded
    <2>4. \A k \in DOMAIN ToLoad : PlacedLow(ToLoad[k])
      BY <2>1, <2>3 DEF Fits, PlacedLow
    <2>5. EntryRegs = StartRegs
      BY <2>2, MachinesAssumption DEF EntryRegs, StartRegs, Pvh, FirstRegs
    <2>6. Loaded'
      BY <2>1, <2>2, <2>4, <2>5, SameBoot DEF Loaded
    <2> QED  BY <2>1, <2>6 DEF LoadInv
  <1> QED  BY <1>1, <1>2

\* Every step of the process keeps what was loaded as it was.
LEMMA LoadNext == SetupInv /\ LoadInv /\ [MachineNext]_machineVars => LoadInv'
  <1> SUFFICES ASSUME SetupInv, LoadInv, [MachineNext]_machineVars PROVE LoadInv'
    OBVIOUS
  <1>1. ASSUME NEW why, Fail(why) PROVE LoadInv'
    BY <1>1 DEF Fail, LoadInv, LoadedPcs
  <1>2. CASE HostFails \/ Create \/ AddLow \/ AddHigh
    <2>1. CASE pc' = "failed"
      BY <2>1 DEF LoadInv, LoadedPcs
    <2>2. CASE pc' # "failed"
      <3>1. /\ m' = m /\ pieces' = pieces /\ regs' = regs
            /\ \/ pc = "start" /\ pc' = "arch"
               \/ pc = "low" /\ pc' \in {"high", "load"} /\ HeaderRead
               \/ pc = "high" /\ pc' = "load"
        BY <1>2, <2>2 DEF HostFails, Create, AddLow, AddHigh, Fail
      <3> QED  BY <3>1, SameBoot DEF LoadInv, LoadedPcs
    <2> QED  BY <2>1, <2>2
  <1>3. CASE InitMmio \/ InitDisks \/ InitIo \/ SplitDelete \/ SplitAdd \/ SplitDone
             \/ DupLog \/ CoalescePio \/ StartRfb
    <2>1. CASE pc' = "failed"
      BY <2>1 DEF LoadInv, LoadedPcs
    <2>2. CASE pc' # "failed"
      <3>1. /\ m' = m /\ pieces' = pieces /\ regs' = regs
            /\ pc \in LoadedPcs /\ pc' \in LoadedPcs
        BY <1>3, <2>2 DEF InitMmio, InitDisks, InitIo, SplitDelete, SplitAdd, SplitDone,
           DupLog, CoalescePio, StartRfb, Fail, LoadedPcs
      <3>2. Loaded'
        BY <3>1, LoadedKept DEF LoadInv
      <3> QED  BY <3>1, <3>2 DEF LoadInv, LoadedPcs
    <2> QED  BY <2>1, <2>2
  <1>4. CASE RunEnds \/ RestoreTty \/ Return
    <2>1. pc' \in {"restore", "return", "exited"}
      BY <1>4 DEF RunEnds, RestoreTty, Return
    <2> QED  BY <2>1 DEF LoadInv, LoadedPcs
  <1>5. CASE TtyStarts \/ TtyEnds \/ UNCHANGED mainVars
    <2>1. m' = m /\ pc' = pc /\ pieces' = pieces /\ regs' = regs
      BY <1>5 DEF TtyStarts, TtyEnds, mainVars, setupVars
    <2>2. Loaded => Loaded'
      BY <2>1, LoadedKept
    <2> QED  BY <2>1, <2>2, SameBoot DEF LoadInv
  <1> QED
    BY <1>2, <1>3, <1>4, <1>5, ArchInitLoad, LoadLoad
    DEF MachineNext, Main, RingVcpu, RingFrontend, Ended, machineVars

-----------------------------------------------------------------------------
(* The layout of a boot.                                                   *)

\* A set of naturals that has a member has a least one.
LEMMA Least ==
    ASSUME NEW T \in SUBSET Nat, T # {}
    PROVE  \E x \in T : \A y \in T : x <= y
  <1> DEFINE R == OpToRel(<, Nat)
  <1>1. IsWellFoundedOn(R, Nat)
    BY NatLessThanWellFounded
  <1>2. \A x, y \in Nat : y < x => <<y, x>> \in R
    BY DEF OpToRel
  <1> HIDE DEF R
  <1>3. PICK x \in T : \A y \in T : <<y, x>> \notin R
    BY <1>1, WFMin
  <1>4. \A y \in T : ~(y < x)
    BY <1>2, <1>3
  <1>5. \A y \in T : x <= y
    BY <1>4
  <1> QED  BY <1>5

\* e is the largest of the first j numbers of f, or 0.
Largest(f, j, e) == e \in {0} \cup {f[k] : k \in 1..j} /\ \A k \in 1..j : f[k] <= e

\* There is one: the least j without it cannot be.
LEMMA LargestOf ==
    ASSUME NEW n \in Nat, NEW f \in [1..n -> Nat]
    PROVE  \E e : Largest(f, n, e)
  <1> DEFINE T == {j \in 0..n : ~\E e : Largest(f, j, e)}
  <1> SUFFICES ASSUME T # {} PROVE FALSE
    <2>1. n \in 0..n
      OBVIOUS
    <2> QED  BY <2>1
  <1>1. PICK j \in T : \A l \in T : j <= l
    <2>1. T \in SUBSET Nat
      OBVIOUS
    <2> HIDE DEF T
    <2> QED  BY <2>1, Least
  <1>2. j # 0
    <2>1. Largest(f, 0, 0)
      BY DEF Largest
    <2> QED  BY <2>1
  <1>3. j - 1 \in 0..n /\ j \in 1..n /\ j - 1 < j
    BY <1>2
  <1>4. j - 1 \notin T
    <2> HIDE DEF T
    <2>1. j - 1 \in Nat /\ j \in Nat /\ ~(j <= j - 1)
      BY <1>3
    <2> QED  BY <1>1, <2>1
  <1>5. PICK e : Largest(f, j - 1, e)
    BY <1>3, <1>4
  <1>6. /\ 1..(j - 1) \subseteq 1..j /\ 1..(j - 1) \subseteq 1..n /\ j \in 1..j
        /\ \A k \in 1..j : k = j \/ k \in 1..(j - 1)
    BY <1>3
  <1>7. e \in Nat /\ f[j] \in Nat /\ \A k \in 1..(j - 1) : f[k] \in Nat /\ f[k] <= e
    BY <1>3, <1>5, <1>6 DEF Largest
  <1>8. CASE f[j] <= e
    <2>1. e \in {0} \cup {f[k] : k \in 1..j}
      BY <1>5, <1>6 DEF Largest
    <2>2. Largest(f, j, e)
      BY <1>6, <1>7, <1>8, <2>1 DEF Largest
    <2> QED  BY <2>2
  <1>9. CASE e < f[j]
    <2>1. \A k \in 1..j : f[k] <= f[j]
      BY <1>6, <1>7, <1>9
    <2>2. Largest(f, j, f[j])
      BY <1>6, <2>1 DEF Largest
    <2> QED  BY <2>2
  <1> QED  BY <1>7, <1>8, <1>9

\* A kernel's segments
LEMMA Segments ==
    ASSUME m \in Machines
    PROVE  /\ Len(m.segments) \in Nat \ {0}
           /\ DOMAIN m.segments = 1..Len(m.segments)
           /\ \A k \in 1..Len(m.segments) :
                 /\ m.segments[k].start \in Nat /\ m.segments[k].filesz \in Nat
                 /\ m.segments[k].memsz \in Nat
                 /\ m.segments[k].memsz >= m.segments[k].filesz
           /\ \A k, l \in 1..Len(m.segments) : k # l =>
                 ~Overlap(m.segments[k].start, m.segments[k].memsz,
                          m.segments[l].start, m.segments[l].memsz)
           /\ m.cmdline \in 1..257
           /\ m.initramfs \in Nat \cup {NoFile} /\ m.dtb \in Nat \cup {NoFile}
           /\ m.load_addr \in Nat
  <1> DEFINE S == [start : Nat, filesz : Nat, memsz : Nat]
  <1>1. m.segments \in Seq(S) /\ m.segments # << >>
    BY MachinesAssumption
  <1>2. /\ Len(m.segments) \in Nat \ {0}
        /\ DOMAIN m.segments = 1..Len(m.segments)
        /\ \A k \in 1..Len(m.segments) : m.segments[k] \in S
    <2> HIDE DEF S
    <2> QED  BY <1>1, EmptySeq
  <1>3. \A k, l \in 1..Len(m.segments) : k # l =>
           ~Overlap(m.segments[k].start, m.segments[k].memsz,
                    m.segments[l].start, m.segments[l].memsz)
    <2>1. \A k, l \in DOMAIN m.segments : k # l =>
             ~Overlap(m.segments[k].start, m.segments[k].memsz,
                      m.segments[l].start, m.segments[l].memsz)
      BY MachinesAssumption
    <2> QED  BY <1>2, <2>1
  <1>4. \A k \in 1..Len(m.segments) : m.segments[k].memsz >= m.segments[k].filesz
    BY <1>2, MachinesAssumption
  <1>5. /\ m.cmdline \in 1..257 /\ m.load_addr \in Nat
        /\ m.initramfs \in Nat \cup {NoFile} /\ m.dtb \in Nat \cup {NoFile}
    BY MachinesAssumption DEF MaxCmdline
  <1> QED  BY <1>2, <1>3, <1>4, <1>5

\* One of them.
LEMMA SegmentIs ==
    ASSUME m \in Machines, NEW k \in 1..Len(m.segments)
    PROVE  /\ m.segments[k].start \in Nat /\ m.segments[k].filesz \in Nat
           /\ m.segments[k].memsz \in Nat /\ m.segments[k].memsz >= m.segments[k].filesz
           /\ \A l \in 1..Len(m.segments) : k # l =>
                 ~Overlap(m.segments[k].start, m.segments[k].memsz,
                          m.segments[l].start, m.segments[l].memsz)
  BY Segments

\* The image ends where its last segment does, with .bss (load_elf).
LEMMA ImageEnd ==
    ASSUME m \in Machines
    PROVE  /\ LastAddr(m.segments) \in Nat
           /\ \A k \in 1..Len(m.segments) :
                 m.segments[k].start + m.segments[k].memsz <= LastAddr(m.segments)
  <1> DEFINE n == Len(m.segments)
             f == [k \in 1..n |-> m.segments[k].start + m.segments[k].memsz]
             ends == {0} \cup {f[k] : k \in 1..n}
  <1>1. n \in Nat /\ DOMAIN m.segments = 1..n
    BY Segments
  <1>2. f \in [1..n -> Nat]
    BY Segments
  <1>3. {m.segments[k].start + m.segments[k].memsz : k \in DOMAIN m.segments} = {f[k] : k \in 1..n}
    BY <1>1
  <1>4. LastAddr(m.segments) = CHOOSE e \in ends : \A g \in ends : g <= e
    BY <1>3 DEF LastAddr
  <1>5. \A k \in 1..n : f[k] = m.segments[k].start + m.segments[k].memsz
    OBVIOUS
  <1> HIDE DEF f, n
  <1>6. PICK e \in ends : \A k \in 1..n : f[k] <= e
    BY <1>1, <1>2, LargestOf DEF Largest
  <1>7. ends \subseteq Nat
    BY <1>2
  <1>8. \A g \in ends : g <= e
    BY <1>6, <1>7
  <1> HIDE DEF ends
  <1>9. LastAddr(m.segments) \in ends /\ \A g \in ends : g <= LastAddr(m.segments)
    BY <1>4, <1>8
  <1>10. \A k \in 1..n : f[k] \in ends
    BY DEF ends
  <1> QED  BY <1>5, <1>7, <1>9, <1>10 DEF n

\* Rounding up to a page
LEMMA AlignedUp ==
    ASSUME NEW a \in Nat
    PROVE  AlignUp(a) \in Nat /\ AlignUp(a) >= a /\ AlignUp(a) < a + 8
  BY DEF AlignUp, AlignDown, PAGE_SIZE

\* The places above the start info
LEMMA InfoPlaces ==
    ASSUME m \in Machines
    PROVE  /\ hvm_base = 128 /\ CmdlineStart = 136
           /\ MemmapStart \in Nat /\ MemmapStart >= 136 + m.cmdline
           /\ MemmapStart < 144 + m.cmdline
           /\ ModlistStart \in Nat /\ ModlistStart > MemmapStart
           /\ ModlistStart < MemmapStart + 9
           /\ m.cmdline \in 1..257
           /\ InfoEnd = ModlistStart + 1 /\ InfoEnd \in Nat /\ InfoEnd < 1278
  <1>1. hvm_base = 128 /\ CmdlineStart = 136
    BY DEF hvm_base, CmdlineStart, AlignUp, AlignDown, PAGE_SIZE
  <1>2. m.cmdline \in 1..257
    BY Segments
  <1>3. MemmapStart \in Nat /\ MemmapStart >= 136 + m.cmdline /\ MemmapStart < 144 + m.cmdline
    <2>1. 136 + m.cmdline \in Nat
      BY <1>2
    <2>2. MemmapStart = AlignUp(136 + m.cmdline)
      BY <1>1 DEF MemmapStart
    <2>3. /\ AlignUp(136 + m.cmdline) \in Nat
          /\ AlignUp(136 + m.cmdline) >= 136 + m.cmdline
          /\ AlignUp(136 + m.cmdline) < (136 + m.cmdline) + 8
      BY <2>1, AlignedUp
    <2> QED  BY <1>2, <2>2, <2>3
  <1>4. ModlistStart \in Nat /\ ModlistStart >= MemmapStart + 1 /\ ModlistStart < MemmapStart + 9
    <2>1. MemmapStart + 1 \in Nat
      BY <1>3
    <2> QED  BY <1>3, <2>1, AlignedUp DEF ModlistStart
  <1>5. InfoEnd = ModlistStart + 1
    BY DEF InfoEnd
  <1> QED  BY <1>1, <1>2, <1>3, <1>4, <1>5

\* The places behind the image
LEMMA InitrdPlaces ==
    ASSUME m \in Machines
    PROVE  /\ NameStart \in Nat /\ NameStart >= LastAddr(m.segments)
           /\ InitrdStart \in Nat /\ InitrdStart > NameStart
           /\ HeapStart \in Nat /\ HeapStart >= LastAddr(m.segments)
           /\ m.initramfs # NoFile => /\ m.initramfs \in Nat
                                      /\ HeapStart = InitrdStart + m.initramfs
  <1>1. LastAddr(m.segments) \in Nat
    BY ImageEnd
  <1>2. NameStart \in Nat /\ NameStart >= LastAddr(m.segments)
    BY <1>1, AlignedUp DEF NameStart
  <1>3. InitrdStart \in Nat /\ InitrdStart >= NameStart + 1
    BY <1>2, AlignedUp DEF InitrdStart
  <1>4. m.initramfs # NoFile => m.initramfs \in Nat /\ HeapStart = InitrdStart + m.initramfs
    BY Segments DEF HeapStart
  <1>5. m.initramfs = NoFile => HeapStart = LastAddr(m.segments)
    BY DEF HeapStart
  <1> QED  BY <1>1, <1>2, <1>3, <1>4, <1>5

\* How many pieces an initramfs makes
Modules == IF m.initramfs = NoFile THEN 0 ELSE 2

\* A piece by what it is
Is(p, what, start, len) == p.what = what /\ p.start = start /\ p.len = len

LEMMA PieceIs ==
    \A what, start, len : Is(Piece(what, start, len), what, start, len)
  BY DEF Is, Piece

\* The elements of two sequences put together
LEMMA BothParts ==
    ASSUME NEW S, NEW s \in Seq(S), NEW t \in Seq(S)
    PROVE  /\ s \o t \in Seq(S) /\ Len(s \o t) = Len(s) + Len(t)
           /\ \A k \in 1..Len(s) : (s \o t)[k] = s[k]
           /\ \A k \in 1..Len(t) : (s \o t)[Len(s) + k] = t[k]
  <1>1. Len(s) \in Nat /\ Len(t) \in Nat
    OBVIOUS
  <1>2. \A k \in 1..Len(s) : (s \o t)[k] = s[k]
    BY <1>1, ConcatProperties
  <1>3. ASSUME NEW k \in 1..Len(t) PROVE (s \o t)[Len(s) + k] = t[k]
    <2>1. Len(s) + k \in 1..(Len(s) + Len(t)) /\ ~(Len(s) + k <= Len(s))
          /\ (Len(s) + k) - Len(s) = k
      BY <1>1
    <2> QED  BY <2>1, ConcatProperties
  <1> QED  BY <1>2, <1>3, ConcatProperties

\* A PVH boot's pieces: the kernel's, the initramfs' two if there is one, and
\* the four of the start info.
LEMMA PvhPieces ==
    ASSUME m \in Machines, Pvh
    PROVE  LET n == Len(m.segments) + Modules
           IN  /\ DOMAIN ToLoad = 1..(n + 4)
               /\ \A k \in 1..Len(m.segments) :
                     Is(ToLoad[k], "kernel", m.segments[k].start, m.segments[k].filesz)
               /\ m.initramfs # NoFile =>
                     /\ Is(ToLoad[n - 1], "name", NameStart, 1)
                     /\ Is(ToLoad[n], "initramfs", InitrdStart, m.initramfs)
               /\ Is(ToLoad[n + 1], "cmdline", CmdlineStart, m.cmdline)
               /\ Is(ToLoad[n + 2], "memmap", MemmapStart, 1)
               /\ Is(ToLoad[n + 3], "modlist", ModlistStart, IF m.initramfs = NoFile THEN 0 ELSE 1)
               /\ Is(ToLoad[n + 4], "info", hvm_base, 1)
  <1> DEFINE s == Len(m.segments)
             n == s + Modules
             S == {KernelPieces[k] : k \in 1..s} \cup {InitrdPieces[k] : k \in 1..Modules}
                     \cup {InfoPieces[k] : k \in 1..4}
  <1>1. s \in Nat /\ DOMAIN m.segments = 1..s /\ Modules \in {0, 2}
    BY Segments DEF Modules
  <1>2. KernelPieces \in Seq(S) /\ Len(KernelPieces) = s
        /\ \A k \in 1..s :
              Is(KernelPieces[k], "kernel", m.segments[k].start, m.segments[k].filesz)
    <2>1. KernelPieces = [k \in 1..s |-> Piece("kernel", m.segments[k].start, m.segments[k].filesz)]
      BY <1>1 DEF KernelPieces
    <2>2. \A k \in 1..s : KernelPieces[k] \in S
      OBVIOUS
    <2> HIDE DEF S, s
    <2>3. KernelPieces \in [1..s -> S]
      BY <2>1, <2>2
    <2>4. KernelPieces \in Seq(S) /\ Len(KernelPieces) = s
      BY <1>1, <2>3
    <2> QED  BY <2>1, <2>4, PieceIs
  <1>3. /\ InitrdPieces \in Seq(S) /\ Len(InitrdPieces) = Modules
        /\ m.initramfs # NoFile =>
              /\ Is(InitrdPieces[1], "name", NameStart, 1)
              /\ Is(InitrdPieces[2], "initramfs", InitrdStart, m.initramfs)
    <2>1. CASE m.initramfs = NoFile
      <3>1. InitrdPieces = << >> /\ Modules = 0
        BY <2>1 DEF InitrdPieces, Modules
      <3> QED  BY <2>1, <3>1
    <2>2. CASE m.initramfs # NoFile
      <3> DEFINE a == Piece("name", NameStart, 1)
                 b == Piece("initramfs", InitrdStart, m.initramfs)
      <3>1. InitrdPieces = <<a, b>> /\ Modules = 2
        BY <2>2 DEF InitrdPieces, Modules
      <3>2. Is(a, "name", NameStart, 1) /\ Is(b, "initramfs", InitrdStart, m.initramfs)
        BY PieceIs
      <3>3. InitrdPieces[1] \in S /\ InitrdPieces[2] \in S
        BY <3>1
      <3> HIDE DEF a, b, S
      <3> QED  BY <3>1, <3>2, <3>3
    <2> QED  BY <2>1, <2>2
  <1>4. /\ InfoPieces \in Seq(S) /\ Len(InfoPieces) = 4
        /\ Is(InfoPieces[1], "cmdline", CmdlineStart, m.cmdline)
        /\ Is(InfoPieces[2], "memmap", MemmapStart, 1)
        /\ Is(InfoPieces[3], "modlist", ModlistStart, IF m.initramfs = NoFile THEN 0 ELSE 1)
        /\ Is(InfoPieces[4], "info", hvm_base, 1)
    <2> DEFINE a == Piece("cmdline", CmdlineStart, m.cmdline)
               b == Piece("memmap", MemmapStart, 1)
               c == Piece("modlist", ModlistStart, IF m.initramfs = NoFile THEN 0 ELSE 1)
               d == Piece("info", hvm_base, 1)
    <2>1. InfoPieces = <<a, b, c, d>>
      BY DEF InfoPieces
    <2>2. /\ Is(a, "cmdline", CmdlineStart, m.cmdline)
          /\ Is(b, "memmap", MemmapStart, 1)
          /\ Is(c, "modlist", ModlistStart, IF m.initramfs = NoFile THEN 0 ELSE 1)
          /\ Is(d, "info", hvm_base, 1)
      BY PieceIs
    <2>3. \A k \in 1..4 : InfoPieces[k] \in S
      OBVIOUS
    <2> HIDE DEF a, b, c, d, S
    <2>4. InfoPieces \in Seq(S) /\ Len(InfoPieces) = 4
      BY <2>1, <2>3
    <2> QED  BY <2>1, <2>2, <2>4
  <1> HIDE DEF S
  <1> DEFINE t == KernelPieces \o InitrdPieces
  <1>5. /\ t \in Seq(S) /\ Len(t) = n
        /\ \A k \in 1..s : t[k] = KernelPieces[k]
        /\ \A k \in 1..Modules : t[s + k] = InitrdPieces[k]
    BY <1>1, <1>2, <1>3, BothParts
  <1>6. ToLoad = t \o InfoPieces
    BY DEF ToLoad, Pvh
  <1>7. n \in Nat
    BY <1>1
  <1> HIDE DEF t, n
  <1>8. /\ ToLoad \in Seq(S) /\ Len(ToLoad) = n + 4
        /\ \A k \in 1..n : ToLoad[k] = t[k]
        /\ \A k \in 1..4 : ToLoad[n + k] = InfoPieces[k]
    <2>1. /\ t \o InfoPieces \in Seq(S) /\ Len(t \o InfoPieces) = Len(t) + Len(InfoPieces)
          /\ \A k \in 1..Len(t) : (t \o InfoPieces)[k] = t[k]
          /\ \A k \in 1..Len(InfoPieces) : (t \o InfoPieces)[Len(t) + k] = InfoPieces[k]
      <3>1. t \in Seq(S) /\ InfoPieces \in Seq(S)
        BY <1>4, <1>5
      <3> QED  BY <3>1, BothParts
    <2> QED  BY <1>4, <1>5, <1>6, <2>1
  <1>9. DOMAIN ToLoad = 1..(n + 4)
    BY <1>7, <1>8
  <1>10. \A k \in 1..s : ToLoad[k] = KernelPieces[k]
    <2>1. s \in Nat /\ s <= n
      BY <1>1 DEF n
    <2> HIDE DEF s
    <2> SUFFICES ASSUME NEW k \in 1..s PROVE ToLoad[k] = KernelPieces[k]
      OBVIOUS
    <2>2. k \in 1..n
      BY <1>7, <2>1
    <2> QED  BY <1>5, <1>8, <2>2
  <1>11. m.initramfs # NoFile =>
            ToLoad[n - 1] = InitrdPieces[1] /\ ToLoad[n] = InitrdPieces[2]
    <2> SUFFICES ASSUME m.initramfs # NoFile
                 PROVE  ToLoad[n - 1] = InitrdPieces[1] /\ ToLoad[n] = InitrdPieces[2]
      OBVIOUS
    <2>1. Modules = 2
      BY DEF Modules
    <2>2. t[s + 1] = InitrdPieces[1] /\ t[s + 2] = InitrdPieces[2]
      BY <1>5, <2>1
    <2>3. n - 1 = s + 1 /\ n = s + 2 /\ n - 1 \in 1..n /\ n \in 1..n
      BY <1>1, <2>1 DEF n
    <2> QED  BY <1>8, <2>2, <2>3
  <1>12. /\ ToLoad[n + 1] = InfoPieces[1] /\ ToLoad[n + 2] = InfoPieces[2]
         /\ ToLoad[n + 3] = InfoPieces[3] /\ ToLoad[n + 4] = InfoPieces[4]
    <2>1. ASSUME NEW k \in 1..4 PROVE ToLoad[n + k] = InfoPieces[k]
      BY <1>7, <1>8
    <2>2. 1 \in 1..4 /\ 2 \in 1..4 /\ 3 \in 1..4 /\ 4 \in 1..4
      OBVIOUS
    <2> QED  BY <2>1, <2>2
  <1> QED  BY <1>2, <1>3, <1>4, <1>9, <1>10, <1>11, <1>12 DEF n

\* What each piece of a PVH boot is
LEMMA PvhPiece ==
    ASSUME m \in Machines, Pvh, NEW a \in DOMAIN ToLoad
    PROVE  LET n == Len(m.segments) + Modules
           IN  /\ a \in Nat
               /\ \/ /\ a \in 1..Len(m.segments)
                     /\ Is(ToLoad[a], "kernel", m.segments[a].start, m.segments[a].filesz)
                  \/ m.initramfs # NoFile /\ a = n - 1 /\ Is(ToLoad[a], "name", NameStart, 1)
                  \/ /\ m.initramfs # NoFile /\ a = n
                     /\ Is(ToLoad[a], "initramfs", InitrdStart, m.initramfs)
                  \/ a = n + 1 /\ Is(ToLoad[a], "cmdline", CmdlineStart, m.cmdline)
                  \/ a = n + 2 /\ Is(ToLoad[a], "memmap", MemmapStart, 1)
                  \/ /\ a = n + 3
                     /\ Is(ToLoad[a], "modlist", ModlistStart, IF m.initramfs = NoFile THEN 0 ELSE 1)
                  \/ a = n + 4 /\ Is(ToLoad[a], "info", hvm_base, 1)
  <1> DEFINE s == Len(m.segments)
             n == s + Modules
  <1>1. s \in Nat /\ Modules = (IF m.initramfs = NoFile THEN 0 ELSE 2)
    BY Segments DEF Modules
  <1>2. a \in 1..(n + 4)
    BY PvhPieces
  <1>3. \/ a \in 1..s
        \/ m.initramfs # NoFile /\ a = n - 1
        \/ m.initramfs # NoFile /\ a = n
        \/ a = n + 1 \/ a = n + 2 \/ a = n + 3 \/ a = n + 4
    <2> HIDE DEF s
    <2> QED  BY <1>1, <1>2
  <1>4. a \in Nat
    BY <1>1, <1>2
  <1> QED  BY <1>3, <1>4, PvhPieces

\* The kernel's pieces end with the image, the initramfs is behind it, and the
\* start info has pages of its own in the first MiB.
LEMMA PvhZones ==
    ASSUME m \in Machines, Pvh, NEW a \in DOMAIN ToLoad
    PROVE  LET p == ToLoad[a]
           IN  /\ p.start \in Nat /\ p.len \in Nat
               /\ \/ /\ p.what = "kernel" /\ p.start + p.len <= LastAddr(m.segments)
                     /\ \E k \in DOMAIN m.segments : p.start = m.segments[k].start
                  \/ /\ p.what \in {"cmdline", "memmap", "modlist", "info"}
                     /\ p.start >= 128 /\ p.start + p.len <= InfoEnd
                  \/ /\ p.what \in {"name", "initramfs"}
                     /\ p.start >= LastAddr(m.segments) /\ p.start + p.len <= HeapStart
  <1> DEFINE p == ToLoad[a]
             s == Len(m.segments)
             L == LastAddr(m.segments)
  <1>1. /\ L \in Nat /\ HeapStart \in Nat /\ HeapStart >= L
        /\ NameStart \in Nat /\ NameStart >= L /\ InitrdStart \in Nat /\ InitrdStart > NameStart
        /\ m.initramfs # NoFile => /\ m.initramfs \in Nat
                                   /\ HeapStart = InitrdStart + m.initramfs
    BY ImageEnd, InitrdPlaces
  <1>2. CASE a \in 1..s /\ Is(p, "kernel", m.segments[a].start, m.segments[a].filesz)
    <2>1. /\ m.segments[a].start \in Nat /\ m.segments[a].filesz \in Nat
          /\ m.segments[a].memsz \in Nat
          /\ m.segments[a].memsz >= m.segments[a].filesz
          /\ m.segments[a].start + m.segments[a].memsz <= L
          /\ a \in DOMAIN m.segments
      BY <1>2, Segments, ImageEnd
    <2> HIDE DEF L, p
    <2>2. p.what = "kernel" /\ p.start = m.segments[a].start /\ p.len = m.segments[a].filesz
      BY <1>2 DEF Is
    <2>3. p.start + p.len <= L
      BY <1>1, <2>1, <2>2
    <2> QED  BY <1>1, <2>1, <2>2, <2>3 DEF L, p
  <1>3. CASE m.initramfs # NoFile /\ Is(p, "name", NameStart, 1)
    <2> HIDE DEF L, p
    <2> QED  BY <1>1, <1>3 DEF Is, L, p
  <1>4. CASE m.initramfs # NoFile /\ Is(p, "initramfs", InitrdStart, m.initramfs)
    <2> HIDE DEF L, p
    <2> QED  BY <1>1, <1>4 DEF Is, L, p
  <1>5. CASE \/ Is(p, "cmdline", CmdlineStart, m.cmdline)
             \/ Is(p, "memmap", MemmapStart, 1)
             \/ Is(p, "modlist", ModlistStart, IF m.initramfs = NoFile THEN 0 ELSE 1)
             \/ Is(p, "info", hvm_base, 1)
    <2>1. /\ p.what \in {"cmdline", "memmap", "modlist", "info"}
          /\ \/ p.start = CmdlineStart /\ p.len = m.cmdline
             \/ p.start = MemmapStart /\ p.len = 1
             \/ p.start = ModlistStart /\ p.len \in {0, 1}
             \/ p.start = hvm_base /\ p.len = 1
      BY <1>5 DEF Is
    <2> HIDE DEF L, p
    <2>2. p.start \in Nat /\ p.len \in Nat /\ p.start >= 128 /\ p.start + p.len <= InfoEnd
      BY <2>1, InfoPlaces
    <2> QED  BY <2>1, <2>2 DEF p
  <1> QED  BY <1>2, <1>3, <1>4, <1>5, PvhPiece

\* Ranges that lie apart do so when they shrink.
LEMMA OverlapShrinks ==
    ASSUME NEW a \in Nat, NEW b \in Nat, NEW c \in Nat, NEW d \in Nat,
           NEW b1 \in Nat, NEW d1 \in Nat, b1 <= b, d1 <= d, ~Overlap(a, b, c, d)
    PROVE  ~Overlap(a, b1, c, d1)
  BY DEF Overlap

\* What is written over lies below the end of the start info, and is no part
\* of that.
LEMMA PvhKept ==
    ASSUME m \in Machines, Pvh, NEW a \in DOMAIN ToLoad, NEW b \in DOMAIN ToLoad, a < b,
           PiecesOverlap(ToLoad[a], ToLoad[b])
    PROVE  ToLoad[a].what \in {"kernel", "name", "initramfs"} /\ ToLoad[a].start < InfoEnd
  <1> DEFINE s == Len(m.segments)
             n == s + Modules
  <1>0. s \in Nat /\ n \in Nat /\ s <= n /\ (m.initramfs # NoFile => n = s + 2)
    <2>1. s \in Nat /\ Modules = (IF m.initramfs = NoFile THEN 0 ELSE 2)
      BY Segments DEF Modules
    <2> HIDE DEF s
    <2> QED  BY <2>1
  <1>1. CASE a \in 1..s /\ b \in 1..s
    <2>1. /\ Is(ToLoad[a], "kernel", m.segments[a].start, m.segments[a].filesz)
          /\ Is(ToLoad[b], "kernel", m.segments[b].start, m.segments[b].filesz)
      BY <1>1, PvhPieces
    <2>2. ~Overlap(m.segments[a].start, m.segments[a].memsz,
                   m.segments[b].start, m.segments[b].memsz)
      <3>1. a # b /\ a \in 1..Len(m.segments) /\ b \in 1..Len(m.segments)
        BY <1>1
      <3> QED  BY ONLY m \in Machines, <3>1, SegmentIs
    <2>3. /\ m.segments[a].start \in Nat /\ m.segments[a].filesz \in Nat
          /\ m.segments[a].memsz \in Nat /\ m.segments[a].memsz >= m.segments[a].filesz
          /\ m.segments[b].start \in Nat /\ m.segments[b].filesz \in Nat
          /\ m.segments[b].memsz \in Nat /\ m.segments[b].memsz >= m.segments[b].filesz
      <3>1. a \in 1..Len(m.segments) /\ b \in 1..Len(m.segments)
        BY <1>1
      <3> QED  BY ONLY m \in Machines, <3>1, SegmentIs
    <2>4. ~Overlap(m.segments[a].start, m.segments[a].filesz,
                   m.segments[b].start, m.segments[b].filesz)
      BY <2>2, <2>3, OverlapShrinks
    <2> QED  BY <2>1, <2>4 DEF Is, PiecesOverlap
  <1>2. CASE a \in 1..s /\ b \notin 1..s
    <2>1. ToLoad[a].what = "kernel" /\ ToLoad[b].what # "kernel"
      <3>1. Is(ToLoad[a], "kernel", m.segments[a].start, m.segments[a].filesz)
        BY <1>2, PvhPieces
      <3>2. \/ Is(ToLoad[b], "name", NameStart, 1)
            \/ Is(ToLoad[b], "initramfs", InitrdStart, m.initramfs)
            \/ Is(ToLoad[b], "cmdline", CmdlineStart, m.cmdline)
            \/ Is(ToLoad[b], "memmap", MemmapStart, 1)
            \/ Is(ToLoad[b], "modlist", ModlistStart, IF m.initramfs = NoFile THEN 0 ELSE 1)
            \/ Is(ToLoad[b], "info", hvm_base, 1)
        BY <1>2, PvhPiece
      <3>3. ToLoad[b].what \in {"name", "initramfs", "cmdline", "memmap", "modlist", "info"}
        BY <3>2 DEF Is
      <3> QED  BY <3>1, <3>3 DEF Is
    <2>2. LastAddr(m.segments) \in Nat
      BY ImageEnd
    <2>3. /\ ToLoad[a].start \in Nat /\ ToLoad[a].len \in Nat
          /\ ToLoad[a].start + ToLoad[a].len <= LastAddr(m.segments)
      BY <2>1, PvhZones
    <2>4. /\ ToLoad[b].start \in Nat /\ ToLoad[b].len \in Nat /\ InfoEnd \in Nat
          /\ \/ ToLoad[b].start + ToLoad[b].len <= InfoEnd
             \/ ToLoad[b].start >= LastAddr(m.segments)
      BY <2>1, PvhZones, InfoPlaces
    <2>5. ToLoad[a].start < ToLoad[b].start + ToLoad[b].len
          /\ ToLoad[b].start < ToLoad[a].start + ToLoad[a].len
      BY DEF PiecesOverlap, Overlap
    <2> QED  BY <2>1, <2>2, <2>3, <2>4, <2>5
  <1>3. CASE a \notin 1..s
    <2> DEFINE p == ToLoad[a]
               q == ToLoad[b]
               Info(r, c) ==
                   \/ c = n + 1 /\ Is(r, "cmdline", CmdlineStart, m.cmdline)
                   \/ c = n + 2 /\ Is(r, "memmap", MemmapStart, 1)
                   \/ /\ c = n + 3
                      /\ Is(r, "modlist", ModlistStart, IF m.initramfs = NoFile THEN 0 ELSE 1)
                   \/ c = n + 4 /\ Is(r, "info", hvm_base, 1)
    <2>1. a \in Nat /\ b \in Nat /\ b \notin 1..s
      BY <1>0, <1>3, PvhPiece
    <2>2. /\ \/ m.initramfs # NoFile /\ a = n - 1 /\ Is(p, "name", NameStart, 1)
             \/ m.initramfs # NoFile /\ a = n /\ Is(p, "initramfs", InitrdStart, m.initramfs)
             \/ Info(p, a)
          /\ \/ m.initramfs # NoFile /\ b = n - 1 /\ Is(q, "name", NameStart, 1)
             \/ m.initramfs # NoFile /\ b = n /\ Is(q, "initramfs", InitrdStart, m.initramfs)
             \/ Info(q, b)
      BY <1>3, <2>1, PvhPiece
    <2>3. /\ p.start \in Nat /\ p.len \in Nat /\ q.start \in Nat /\ q.len \in Nat
      BY PvhZones
    <2>4. Info(q, b) => q.what \notin {"kernel", "name", "initramfs"}
      BY DEF Is
    <2>5. Info(q, b) => q.start + q.len <= InfoEnd
      BY <2>4, PvhZones
    <2>6. InfoEnd \in Nat
      BY InfoPlaces
    <2>7. /\ NameStart \in Nat /\ NameStart >= LastAddr(m.segments)
          /\ InitrdStart \in Nat /\ InitrdStart > NameStart
      BY InitrdPlaces
    <2> HIDE DEF p, q, n
    <2>8. CASE Info(p, a) /\ Info(q, b)
      <3>1. b <= n + 4
        BY <1>0, <2>8
      <3>2. \/ a = n + 1 /\ p.start = CmdlineStart /\ p.len = m.cmdline
            \/ a = n + 2 /\ p.start = MemmapStart /\ p.len = 1
            \/ a = n + 3 /\ p.start = ModlistStart /\ p.len \in {0, 1}
        BY <1>0, <2>8, <3>1 DEF Is
      <3>3. \/ b = n + 2 /\ q.start = MemmapStart /\ q.len = 1
            \/ b = n + 3 /\ q.start = ModlistStart /\ q.len \in {0, 1}
            \/ b = n + 4 /\ q.start = hvm_base /\ q.len = 1
        BY <1>0, <2>8, <3>2 DEF Is
      <3> HIDE DEF Info
      <3>4. p.start + p.len <= q.start \/ q.start + q.len <= p.start
        <4>1. /\ CmdlineStart = 136 /\ hvm_base = 128 /\ m.cmdline \in Nat /\ m.cmdline >= 1
              /\ MemmapStart \in Nat /\ MemmapStart >= 136 + m.cmdline
              /\ ModlistStart \in Nat /\ ModlistStart >= MemmapStart + 1
          BY InfoPlaces
        <4>2. CASE b = n + 4 /\ q.start = hvm_base /\ q.len = 1
          <5>1. p.start >= 136
            BY <3>2, <4>1
          <5> QED  BY <2>3, <4>1, <4>2, <5>1
        <4>3. CASE b # n + 4
          <5>1. \/ a = n + 1 /\ p.start + p.len <= MemmapStart
                \/ a = n + 2 /\ p.start + p.len <= ModlistStart
            BY <1>0, <2>1, <3>2, <3>3, <4>1, <4>3
          <5>2. \/ b = n + 2 /\ q.start = MemmapStart
                \/ b = n + 3 /\ q.start = ModlistStart
            BY <3>3, <4>3
          <5> QED  BY <1>0, <2>1, <2>3, <4>1, <5>1, <5>2
        <4> QED  BY <1>0, <3>3, <4>2, <4>3
      <3> QED  BY <2>3, <3>4 DEF PiecesOverlap, Overlap, p, q
    <2> HIDE DEF Info
    <2>9. CASE ~Info(p, a) /\ Info(q, b)
      <3>1. p.what \in {"name", "initramfs"}
        BY <2>2, <2>9 DEF Is
      <3>2. p.start < q.start + q.len
        BY DEF PiecesOverlap, Overlap, p, q
      <3> QED  BY <2>3, <2>5, <2>6, <2>9, <3>1, <3>2 DEF p
    <2>10. CASE Info(p, a) /\ ~Info(q, b)
      <3>1. a > n
        BY <1>0, <2>10 DEF Info
      <3>2. b <= n
        BY <1>0, <2>2, <2>10
      <3> QED  BY <1>0, <2>1, <3>1, <3>2
    <2>11. CASE ~Info(p, a) /\ ~Info(q, b)
      <3>1. Is(p, "name", NameStart, 1) /\ Is(q, "initramfs", InitrdStart, m.initramfs)
        BY <1>0, <2>2, <2>11
      <3>2. p.start + p.len <= q.start
        BY <2>7, <3>1 DEF Is
      <3> QED  BY <2>3, <3>2 DEF PiecesOverlap, Overlap, p, q
    <2> QED  BY <2>8, <2>9, <2>10, <2>11
  <1> QED  BY <1>1, <1>2, <1>3

\* The memory map's entries
LEMMA MemmapIs ==
    ASSUME m \in Machines
    PROVE  /\ DOMAIN Memmap = IF HasHigh THEN 1..4 ELSE 1..3
           /\ Memmap[1].addr = 0 /\ Memmap[1].size = 1278 /\ Memmap[1].ram
           /\ Memmap[2].addr = 1278 /\ Memmap[2].size = 770 /\ ~Memmap[2].ram
           /\ Memmap[3].addr = 2048 /\ Memmap[3].size = Minus(LowSize, 2048) /\ Memmap[3].ram
           /\ HasHigh => /\ Memmap[4].addr = HIGH_RAM_START /\ Memmap[4].size = HighSize
                         /\ Memmap[4].ram
  <1> DEFINE a == [addr |-> 0, size |-> EBDA_START, ram |-> TRUE]
             b == [addr |-> EBDA_START, size |-> HIMEM_START - EBDA_START, ram |-> FALSE]
             c == [addr |-> HIMEM_START, size |-> Minus(LowSize, HIMEM_START), ram |-> TRUE]
             d == [addr |-> HIGH_RAM_START, size |-> HighSize, ram |-> TRUE]
             S == {a, b, c, d}
             high == IF HasHigh THEN <<d>> ELSE << >>
  <1>1. Memmap = <<a, b, c>> \o high
    BY DEF Memmap, HighSize
  <1>2. /\ a.addr = 0 /\ a.size = 1278 /\ a.ram
        /\ b.addr = 1278 /\ b.size = 770 /\ ~b.ram
        /\ c.addr = 2048 /\ c.size = Minus(LowSize, 2048) /\ c.ram
        /\ d.addr = HIGH_RAM_START /\ d.size = HighSize /\ d.ram
    BY DEF EBDA_START, HIMEM_START
  <1>3. a \in S /\ b \in S /\ c \in S /\ d \in S
    OBVIOUS
  <1> HIDE DEF a, b, c, d, S
  <1>4. /\ <<a, b, c>> \in Seq(S) /\ Len(<<a, b, c>>) = 3
        /\ <<d>> \in Seq(S) /\ Len(<<d>>) = 1 /\ << >> \in Seq(S) /\ Len(<< >>) = 0
    BY <1>3
  <1>5. CASE HasHigh
    <2>1. high = <<d>>
      BY <1>5
    <2>2. /\ Memmap \in Seq(S) /\ Len(Memmap) = 4
          /\ \A k \in 1..3 : Memmap[k] = <<a, b, c>>[k]
          /\ Memmap[3 + 1] = <<d>>[1]
      <3>1. \A k \in 1..1 : (<<a, b, c>> \o <<d>>)[3 + k] = <<d>>[k]
        BY <1>4, BothParts
      <3>2. 1 \in 1..1
        OBVIOUS
      <3> HIDE DEF high
      <3> QED  BY <1>1, <1>4, <2>1, <3>1, <3>2, BothParts
    <2>3. Memmap[1] = a /\ Memmap[2] = b /\ Memmap[3] = c /\ Memmap[4] = d
      BY <2>2
    <2>4. DOMAIN Memmap = 1..4
      BY <2>2
    <2> QED  BY <1>2, <1>5, <2>3, <2>4
  <1>6. CASE ~HasHigh
    <2>1. high = << >>
      BY <1>6
    <2>2. Memmap = <<a, b, c>>
      BY <1>1, <1>4, <2>1, ConcatEmptySeq
    <2>3. Memmap[1] = a /\ Memmap[2] = b /\ Memmap[3] = c /\ DOMAIN Memmap = 1..3
      BY <2>2
    <2> QED  BY <1>2, <1>6, <2>3
  <1> QED  BY <1>5, <1>6

\* What a region covers is found.
LEMMA HostFound ==
    ASSUME NEW sl, RegionsAre(sl), NEW a, NEW n,
           NEW j \in DOMAIN regions, Covers(regions[j], a, n)
    PROVE  gpa_to_host(a, n) # 0
  <1> DEFINE holds == {k \in DOMAIN regions : Covers(regions[k], a, n)}
  <1>1. holds \subseteq {1, 2} /\ j \in holds
    BY RegionFacts
  <1>2. gpa_to_host(a, n) = CHOOSE k \in holds : \A l \in holds : k <= l
    BY <1>1 DEF gpa_to_host
  <1> HIDE DEF holds
  <1>3. \E k \in holds : \A l \in holds : k <= l
    <2>1. CASE 1 \in holds
      BY <1>1, <2>1
    <2>2. CASE 1 \notin holds
      <3>1. \A l \in holds : l = 2
        BY <1>1, <2>2
      <3>2. 2 \in holds
        BY <1>1, <3>1
      <3> QED  BY <3>1, <3>2
    <2> QED  BY <2>1, <2>2
  <1>4. gpa_to_host(a, n) \in holds
    BY <1>2, <1>3
  <1> QED  BY <1>1, <1>4

\* The regions of a machine that runs
LEMMA RunRegions ==
    ASSUME SetupInv, pc = "run", m.boot # "none"
    PROVE  Sized /\ \E sl : RegionsAre(sl)
  <1>1. MemSplit \/ MemAdded
    BY DEF SetupInv, MemSet
  <1> QED  BY <1>1 DEF MemSplit, MemAdded, HasFramebuffer

\* The third range's size wraps exactly when memory ends below the first MiB.
LEMMA ThirdRange ==
    ASSUME m \in Machines, Pvh
    PROVE  /\ LowSize \in Nat /\ LowBase = 0 /\ m.memory \in Nat /\ m.boot = "linux"
           /\ HighSize \in Int /\ (HasHigh => HighSize > 0 /\ LowSize = MMIO_START)
           /\ m.memory >= 2048 => LowSize >= 2048 /\ Minus(LowSize, 2048) = LowSize - 2048
           /\ m.memory < 2048 => /\ ~HasHigh /\ Minus(LowSize, 2048) > 0
                                 /\ Minus(LowSize, 2048) \in Int
                                 /\ 2048 + Minus(LowSize, 2048) > LowSize
  <1>1. /\ LowSize \in Nat /\ m.memory \in Nat /\ HighSize \in Int
        /\ HasHigh => HighSize > 0 /\ LowSize = MMIO_START
    BY Layout
  <1>2. LowBase = 0 /\ m.boot = "linux"
    BY DEF LowBase, Pvh
  <1>3. LowSize = (IF m.memory < 6291456 THEN m.memory ELSE 6291456)
    BY DEF LowSize, MinOf, MMIO_START
  <1>4. HasHigh => m.memory > 6291456
    BY DEF HasHigh, MMIO_START
  <1>5. U64 \in Nat /\ U64 > 6291456
    BY U64Assumption DEF MMIO_START
  <1>6. Minus(LowSize, 2048) = IF LowSize < 2048 THEN LowSize - 2048 + U64 ELSE LowSize - 2048
    BY DEF Minus
  <1>7. ASSUME m.memory >= 2048
        PROVE  LowSize >= 2048 /\ Minus(LowSize, 2048) = LowSize - 2048
    BY <1>1, <1>3, <1>6, <1>7
  <1>8. ASSUME m.memory < 2048
        PROVE  /\ ~HasHigh /\ Minus(LowSize, 2048) > 0 /\ Minus(LowSize, 2048) \in Int
               /\ 2048 + Minus(LowSize, 2048) > LowSize
    BY <1>1, <1>3, <1>4, <1>5, <1>6, <1>8
  <1> QED  BY <1>1, <1>2, <1>7, <1>8

\* With a MiB of memory the map is of RAM that is there, in ranges of their
\* own, without the framebuffer.
LEMMA MapIsTrue ==
    ASSUME SetupInv, pc = "run", Pvh, m.memory >= 2048
    PROVE  MapTrue
  <1>1. m \in Machines
    BY DEF SetupInv
  <1>2. /\ LowSize \in Nat /\ LowBase = 0 /\ m.boot = "linux" /\ LowSize >= 2048
        /\ HighSize \in Int /\ (HasHigh => HighSize > 0 /\ LowSize = MMIO_START)
        /\ Minus(LowSize, 2048) = LowSize - 2048
    BY <1>1, ThirdRange
  <1>3. PICK sl : RegionsAre(sl)
    BY <1>2, RunRegions
  <1>4. /\ DOMAIN Memmap = (IF HasHigh THEN 1..4 ELSE 1..3)
        /\ Memmap[1].addr = 0 /\ Memmap[1].size = 1278 /\ Memmap[1].ram
        /\ Memmap[2].addr = 1278 /\ Memmap[2].size = 770 /\ ~Memmap[2].ram
        /\ Memmap[3].addr = 2048 /\ Memmap[3].size = LowSize - 2048 /\ Memmap[3].ram
        /\ HasHigh => /\ Memmap[4].addr = HIGH_RAM_START /\ Memmap[4].size = HighSize
                      /\ Memmap[4].ram
    BY <1>1, <1>2, MemmapIs
  <1>5. /\ DOMAIN regions = (IF HasHigh THEN {1, 2} ELSE {1})
        /\ regions[1].base = 0 /\ regions[1].size = LowSize
        /\ HasHigh => regions[2].base = HIGH_RAM_START /\ regions[2].size = HighSize
    BY <1>2, <1>3, RegionFacts
  <1>6. \A k \in Ram : k = 1 \/ k = 3 \/ (k = 4 /\ HasHigh)
    BY <1>4 DEF Ram
  <1>7. \A k \in Ram : gpa_to_host(Memmap[k].addr, Memmap[k].size) # 0
    <2>1. 1 \in DOMAIN regions /\ Covers(regions[1], 0, 1278)
      BY <1>2, <1>5 DEF Covers
    <2>2. 1 \in DOMAIN regions /\ Covers(regions[1], 2048, LowSize - 2048)
      BY <1>2, <1>5 DEF Covers
    <2>3. HasHigh => 2 \in DOMAIN regions /\ Covers(regions[2], HIGH_RAM_START, HighSize)
      BY <1>2, <1>5, Addresses DEF Covers
    <2>4. gpa_to_host(0, 1278) # 0
      BY <1>3, <2>1, HostFound
    <2>5. gpa_to_host(2048, LowSize - 2048) # 0
      BY <1>3, <2>2, HostFound
    <2>6. HasHigh => gpa_to_host(HIGH_RAM_START, HighSize) # 0
      BY <1>3, <2>3, HostFound
    <2>7. TAKE k \in Ram
    <2> QED  BY <1>4, <1>6, <2>4, <2>5, <2>6
  <1>8. \A k \in Ram, l \in DOMAIN Memmap : k # l =>
           ~Overlap(Memmap[k].addr, Memmap[k].size, Memmap[l].addr, Memmap[l].size)
    <2> SUFFICES ASSUME NEW k \in Ram, NEW l \in DOMAIN Memmap, k # l
                 PROVE  ~Overlap(Memmap[k].addr, Memmap[k].size, Memmap[l].addr, Memmap[l].size)
      OBVIOUS
    <2>1. k \in {1, 3} \/ (k = 4 /\ HasHigh)
      BY <1>6
    <2>2. l \in {1, 2, 3} \/ (l = 4 /\ HasHigh)
      BY <1>4
    <2>3. \/ Memmap[k].size <= 0
          \/ Memmap[k].addr + Memmap[k].size <= Memmap[l].addr
          \/ Memmap[l].addr + Memmap[l].size <= Memmap[k].addr
      <3>1. CASE k = 1
        BY <1>2, <1>4, <2>2, <3>1, Addresses
      <3>2. CASE k = 3
        BY <1>2, <1>4, <2>2, <3>2, Addresses
      <3>3. CASE k = 4 /\ HasHigh
        BY <1>2, <1>4, <2>2, <3>3, Addresses
      <3> QED  BY <2>1, <3>1, <3>2, <3>3
    <2>4. /\ Memmap[k].addr \in Int /\ Memmap[k].size \in Int
          /\ Memmap[l].addr \in Int /\ Memmap[l].size \in Int
      BY <1>2, <1>4, <2>1, <2>2, Addresses
    <2> QED  BY <2>3, <2>4 DEF Overlap
  <1>9. \A k \in Ram : ~Overlap(Memmap[k].addr, Memmap[k].size,
                                VGA_FRAMEBUFFER, VGA_FRAMEBUFFER_SIZE)
    <2> SUFFICES ASSUME NEW k \in Ram
                 PROVE  ~Overlap(Memmap[k].addr, Memmap[k].size, 1280, 125)
      BY DEF VGA_FRAMEBUFFER, VGA_FRAMEBUFFER_SIZE
    <2>1. k \in {1, 3} \/ (k = 4 /\ HasHigh)
      BY <1>6
    <2> QED  BY <1>2, <1>4, <2>1, Addresses DEF Overlap
  <1> QED  BY <1>7, <1>8, <1>9 DEF MapTrue

\* With less, it names RAM that is not there.
LEMMA MapIsFalse ==
    ASSUME SetupInv, pc = "run", Pvh, m.memory < 2048
    PROVE  ~MapTrue
  <1>1. m \in Machines
    BY DEF SetupInv
  <1> DEFINE size == Minus(LowSize, 2048)
  <1>2. /\ LowSize \in Nat /\ LowBase = 0 /\ m.boot = "linux" /\ ~HasHigh
        /\ size \in Int /\ size > 0 /\ 2048 + size > LowSize
    BY <1>1, ThirdRange
  <1>3. PICK sl : RegionsAre(sl)
    BY <1>2, RunRegions
  <1>4. 3 \in DOMAIN Memmap /\ Memmap[3].addr = 2048 /\ Memmap[3].size = size /\ Memmap[3].ram
    BY <1>1, <1>2, MemmapIs
  <1>5. DOMAIN regions = {1} /\ regions[1].base = 0 /\ regions[1].size = LowSize
    BY <1>2, <1>3, RegionFacts
  <1> HIDE DEF size
  <1>6. ~Covers(regions[1], 2048, size)
    BY <1>2, <1>5 DEF Covers
  <1>7. gpa_to_host(2048, size) = 0
    BY <1>5, <1>6 DEF gpa_to_host
  <1>8. 3 \in Ram
    BY <1>4 DEF Ram
  <1> QED  BY <1>2, <1>4, <1>7, <1>8 DEF MapTrue

\* .bss is behind the start info and before the initramfs.
LEMMA BssIsFree ==
    ASSUME m \in Machines, Pvh, pieces = ToLoad
    PROVE  BssFree
  <1> SUFFICES ASSUME NEW k \in DOMAIN m.segments, NEW a \in DOMAIN ToLoad,
                      m.segments[k].start >= InfoEnd, ToLoad[a].what # "kernel"
               PROVE  ~Overlap(m.segments[k].start, m.segments[k].memsz,
                               ToLoad[a].start, ToLoad[a].len)
    BY DEF BssFree
  <1>1. /\ m.segments[k].start \in Nat /\ m.segments[k].memsz \in Nat
        /\ m.segments[k].start + m.segments[k].memsz <= LastAddr(m.segments)
        /\ LastAddr(m.segments) \in Nat /\ InfoEnd \in Nat
    <2>1. k \in 1..Len(m.segments)
      BY Segments
    <2>2. m.segments[k].start \in Nat /\ m.segments[k].memsz \in Nat
      BY ONLY m \in Machines, <2>1, SegmentIs
    <2>3. /\ m.segments[k].start + m.segments[k].memsz <= LastAddr(m.segments)
          /\ LastAddr(m.segments) \in Nat
      BY ONLY m \in Machines, <2>1, ImageEnd
    <2>4. InfoEnd \in Nat
      BY InfoPlaces
    <2> QED  BY <2>2, <2>3, <2>4
  <1>2. /\ ToLoad[a].start \in Nat /\ ToLoad[a].len \in Nat
        /\ \/ ToLoad[a].start + ToLoad[a].len <= InfoEnd
           \/ ToLoad[a].start >= LastAddr(m.segments)
    BY PvhZones
  <1> QED  BY <1>1, <1>2 DEF Overlap

\* A kernel above the first MiB, which fits low memory, has its RAM there, and
\* every piece is in that or is start info.
LEMMA HighLayout ==
    ASSUME m \in Machines, Pvh, KernelHigh, \A a \in DOMAIN ToLoad : PlacedLow(ToLoad[a])
    PROVE  /\ LowSize \in Nat /\ LowSize > 2048 /\ Minus(LowSize, 2048) = LowSize - 2048
           /\ LastAddr(m.segments) \in Nat /\ LastAddr(m.segments) >= 2048
           /\ \A a \in DOMAIN ToLoad :
                 /\ ToLoad[a].start \in Nat /\ ToLoad[a].len \in Nat
                 /\ ToLoad[a].start + ToLoad[a].len <= LowSize
                 /\ ToLoad[a].start + ToLoad[a].len <= HeapStart
                 /\ \/ /\ ToLoad[a].what \in {"kernel", "name", "initramfs"}
                       /\ ToLoad[a].start >= 2048
                    \/ /\ ToLoad[a].what \in {"cmdline", "memmap", "modlist", "info"}
                       /\ ToLoad[a].start + ToLoad[a].len < 1278
  <1>1. /\ 1 \in 1..Len(m.segments) /\ m.segments[1].start \in Nat
        /\ m.segments[1].memsz \in Nat /\ 1 \in DOMAIN m.segments
    BY Segments
  <1>2. \A k \in DOMAIN m.segments : m.segments[k].start >= 2048
    BY DEF KernelHigh, HIMEM_START
  <1>3. 1 \in DOMAIN ToLoad /\ ToLoad[1].start = m.segments[1].start
    <2>1. Len(m.segments) \in Nat /\ Modules \in Nat
      BY Segments DEF Modules
    <2>2. /\ DOMAIN ToLoad = 1..(Len(m.segments) + Modules + 4)
          /\ \A k \in 1..Len(m.segments) :
                Is(ToLoad[k], "kernel", m.segments[k].start, m.segments[k].filesz)
      BY PvhPieces
    <2>3. Is(ToLoad[1], "kernel", m.segments[1].start, m.segments[1].filesz)
      BY <1>1, <2>2, Zenon
    <2>4. 1 \in DOMAIN ToLoad
      <3>1. 1 \in 1..(Len(m.segments) + Modules + 4)
        BY ONLY <1>1, <2>1
      <3> QED  BY ONLY <3>1, <2>2
    <2> QED  BY <2>3, <2>4, Zenon DEF Is
  <1>4. LowSize \in Nat /\ LowSize > 2048
    <2>1. ToLoad[1].start < LowSize
      BY <1>3 DEF PlacedLow
    <2> QED  BY <1>1, <1>2, <1>3, <2>1, ThirdRange
  <1>5. Minus(LowSize, 2048) = LowSize - 2048
    BY <1>4 DEF Minus
  <1>6. LastAddr(m.segments) \in Nat /\ LastAddr(m.segments) >= 2048
    BY <1>1, <1>2, ImageEnd
  <1>7. HeapStart \in Nat /\ HeapStart >= LastAddr(m.segments)
    BY InitrdPlaces
  <1>8. InfoEnd \in Nat /\ InfoEnd < 1278
    BY InfoPlaces
  <1>9. ASSUME NEW a \in DOMAIN ToLoad
        PROVE  /\ ToLoad[a].start \in Nat /\ ToLoad[a].len \in Nat
               /\ ToLoad[a].start + ToLoad[a].len <= LowSize
               /\ ToLoad[a].start + ToLoad[a].len <= HeapStart
               /\ \/ /\ ToLoad[a].what \in {"kernel", "name", "initramfs"}
                     /\ ToLoad[a].start >= 2048
                  \/ /\ ToLoad[a].what \in {"cmdline", "memmap", "modlist", "info"}
                     /\ ToLoad[a].start + ToLoad[a].len < 1278
    <2> DEFINE p == ToLoad[a]
    <2>1. /\ p.start \in Nat /\ p.len \in Nat
          /\ \/ /\ p.what = "kernel" /\ p.start + p.len <= LastAddr(m.segments)
                /\ \E k \in DOMAIN m.segments : p.start = m.segments[k].start
             \/ /\ p.what \in {"cmdline", "memmap", "modlist", "info"}
                /\ p.start >= 128 /\ p.start + p.len <= InfoEnd
             \/ /\ p.what \in {"name", "initramfs"}
                /\ p.start >= LastAddr(m.segments) /\ p.start + p.len <= HeapStart
      BY PvhZones
    <2>2. p.start + p.len <= LowSize
      BY DEF PlacedLow
    <2> HIDE DEF p
    <2>3. CASE p.what = "kernel" /\ p.start + p.len <= LastAddr(m.segments)
               /\ \E k \in DOMAIN m.segments : p.start = m.segments[k].start
      <3>1. p.start >= 2048
        BY <1>2, <2>3
      <3> QED  BY <1>6, <1>7, <2>1, <2>2, <2>3, <3>1 DEF p
    <2>4. CASE p.what \in {"cmdline", "memmap", "modlist", "info"}
               /\ p.start >= 128 /\ p.start + p.len <= InfoEnd
      BY <1>6, <1>7, <1>8, <2>1, <2>2, <2>4 DEF p
    <2>5. CASE p.what \in {"name", "initramfs"}
               /\ p.start >= LastAddr(m.segments) /\ p.start + p.len <= HeapStart
      BY <1>6, <1>7, <2>1, <2>2, <2>5 DEF p
    <2> QED  BY <2>1, <2>3, <2>4, <2>5
  <1> QED  BY <1>4, <1>5, <1>6, <1>9

\* What such a kernel was given is in RAM, and its command line ends before
\* anything else begins.
LEMMA PiecesAreInRam ==
    ASSUME m \in Machines, Pvh, KernelHigh, pieces = ToLoad,
           \A a \in DOMAIN ToLoad : PlacedLow(ToLoad[a])
    PROVE  PiecesInRam
  <1>1. LowSize \in Nat /\ LowSize > 2048 /\ Minus(LowSize, 2048) = LowSize - 2048
    BY HighLayout
  <1>2. /\ Memmap[1].addr = 0 /\ Memmap[1].size = 1278 /\ 1 \in Ram
        /\ Memmap[3].addr = 2048 /\ Memmap[3].size = LowSize - 2048 /\ 3 \in Ram
    BY <1>1, MemmapIs DEF Ram
  <1> SUFFICES ASSUME NEW a \in DOMAIN ToLoad
               PROVE  /\ \E k \in Ram :
                            /\ Memmap[k].addr <= ToLoad[a].start
                            /\ ToLoad[a].start + ToLoad[a].len <= Memmap[k].addr + Memmap[k].size
                      /\ ToLoad[a].start = CmdlineStart + m.cmdline => ToLoad[a].what = "memmap"
    BY DEF PiecesInRam
  <1>3. /\ ToLoad[a].start \in Nat /\ ToLoad[a].len \in Nat
        /\ ToLoad[a].start + ToLoad[a].len <= LowSize
        /\ \/ /\ ToLoad[a].what \in {"kernel", "name", "initramfs"}
              /\ ToLoad[a].start >= 2048
           \/ /\ ToLoad[a].what \in {"cmdline", "memmap", "modlist", "info"}
              /\ ToLoad[a].start + ToLoad[a].len < 1278
    BY HighLayout
  <1>4. CASE ToLoad[a].start >= 2048
    <2>1. /\ Memmap[3].addr <= ToLoad[a].start
          /\ ToLoad[a].start + ToLoad[a].len <= Memmap[3].addr + Memmap[3].size
      BY <1>1, <1>2, <1>3, <1>4
    <2>2. ToLoad[a].start # CmdlineStart + m.cmdline
      BY <1>4, InfoPlaces
    <2> QED  BY <1>2, <2>1, <2>2
  <1>5. CASE ToLoad[a].start < 2048
    <2>1. /\ ToLoad[a].what \notin {"kernel", "name", "initramfs"}
          /\ ToLoad[a].start + ToLoad[a].len < 1278
      BY <1>3, <1>5
    <2>2. /\ Memmap[1].addr <= ToLoad[a].start
          /\ ToLoad[a].start + ToLoad[a].len <= Memmap[1].addr + Memmap[1].size
      BY <1>2, <1>3, <2>1
    <2>3. ASSUME ToLoad[a].start = CmdlineStart + m.cmdline PROVE ToLoad[a].what = "memmap"
      <3>1. /\ CmdlineStart = 136 /\ hvm_base = 128 /\ m.cmdline \in 1..257
            /\ MemmapStart \in Nat /\ MemmapStart >= 136 + m.cmdline
            /\ ModlistStart \in Nat /\ ModlistStart > MemmapStart
        BY InfoPlaces
      <3>2. \/ Is(ToLoad[a], "cmdline", CmdlineStart, m.cmdline)
            \/ Is(ToLoad[a], "memmap", MemmapStart, 1)
            \/ Is(ToLoad[a], "modlist", ModlistStart, IF m.initramfs = NoFile THEN 0 ELSE 1)
            \/ Is(ToLoad[a], "info", hvm_base, 1)
        BY <2>1, PvhPiece DEF Is
      <3> QED  BY <2>3, <3>1, <3>2 DEF Is
    <2> QED  BY <1>2, <2>2, <2>3
  <1> QED  BY <1>3, <1>4, <1>5

\* Its heap begins where the last piece ends, and there is one if low memory
\* goes further.
LEMMA HeapIsFree ==
    ASSUME m \in Machines, Pvh, KernelHigh, pieces = ToLoad,
           \A a \in DOMAIN ToLoad : PlacedLow(ToLoad[a])
    PROVE  HeapFree
  <1>1. /\ LowSize \in Nat /\ LowSize > 2048 /\ Minus(LowSize, 2048) = LowSize - 2048
        /\ LastAddr(m.segments) \in Nat /\ LastAddr(m.segments) >= 2048
    BY HighLayout
  <1>2. HeapStart \in Nat /\ HeapStart >= LastAddr(m.segments)
    BY InitrdPlaces
  <1>3. HighSize \in Int /\ (HasHigh => HighSize > 0 /\ LowSize = MMIO_START)
    BY ThirdRange
  <1>4. /\ DOMAIN Memmap = (IF HasHigh THEN 1..4 ELSE 1..3)
        /\ Memmap[1].addr = 0 /\ Memmap[1].size = 1278
        /\ ~Memmap[2].ram
        /\ Memmap[3].addr = 2048 /\ Memmap[3].size = LowSize - 2048 /\ Memmap[3].ram
        /\ HasHigh => Memmap[4].addr = HIGH_RAM_START /\ Memmap[4].size = HighSize
    BY <1>1, MemmapIs
  <1>5. ASSUME HeapStart < LowSize PROVE \E k \in HeapIn : HeapEnd(k) = LowSize
    <2>1. 3 \in Ram
      BY <1>4 DEF Ram
    <2>2. HeapEnd(3) = LowSize
      BY <1>1, <1>4 DEF HeapEnd
    <2>3. 3 \in HeapIn
      BY <1>1, <1>2, <1>4, <1>5, <2>1, <2>2 DEF HeapIn
    <2> QED  BY <2>2, <2>3
  <1>6. ASSUME NEW k \in HeapIn, NEW l \in HeapIn PROVE k = l
    <2>1. /\ k \in DOMAIN Memmap /\ Memmap[k].ram /\ Memmap[k].addr <= HeapStart
          /\ HeapStart < Memmap[k].addr + Memmap[k].size
          /\ l \in DOMAIN Memmap /\ Memmap[l].ram /\ Memmap[l].addr <= HeapStart
          /\ HeapStart < Memmap[l].addr + Memmap[l].size
      BY DEF HeapIn, HeapEnd, Ram
    <2>2. /\ k \in {1, 3} \/ (k = 4 /\ HasHigh)
          /\ l \in {1, 3} \/ (l = 4 /\ HasHigh)
      BY <1>4, <2>1
    <2> QED  BY <1>1, <1>2, <1>3, <1>4, <2>1, <2>2, Addresses
  <1>7. ASSUME NEW k \in HeapIn, NEW a \in DOMAIN ToLoad
        PROVE  ~Overlap(HeapStart, HeapEnd(k) - HeapStart, ToLoad[a].start, ToLoad[a].len)
    <2>1. /\ ToLoad[a].start \in Nat /\ ToLoad[a].len \in Nat
          /\ ToLoad[a].start + ToLoad[a].len <= HeapStart
      BY HighLayout
    <2> QED  BY <1>2, <2>1 DEF Overlap
  <1>8. \A k \in HeapIn : HeapIn = {k}
    BY <1>6
  <1> QED  BY <1>5, <1>7, <1>8 DEF HeapFree

\* A PVH guest's pieces, map and heap
LEMMA PvhWhole ==
    ASSUME SetupInv, LoadInv, pc = "run", Pvh
    PROVE  /\ PiecesKept
           /\ MapTrue <=> m.memory >= HIMEM_START
           /\ BssFree
           /\ KernelHigh => PiecesInRam /\ HeapFree
  <1>1. m \in Machines /\ Loaded /\ m.boot = "linux"
    BY DEF SetupInv, LoadInv, LoadedPcs, Pvh
  <1>2. pieces = ToLoad /\ \A a \in DOMAIN ToLoad : PlacedLow(ToLoad[a])
    BY <1>1 DEF Loaded
  <1>3. PiecesKept
    BY <1>1, <1>2, PvhKept DEF PiecesKept, Damaged
  <1>4. MapTrue <=> m.memory >= 2048
    <2>1. m.memory \in Nat
      BY <1>1, Layout
    <2> QED  BY <2>1, MapIsTrue, MapIsFalse
  <1> QED  BY <1>1, <1>2, <1>3, <1>4, BssIsFree, PiecesAreInRam, HeapIsFree DEF HIMEM_START

\* An aarch64 boot's pieces
LEMMA ArmPiecesAre ==
    ArmPieces = IF m.initramfs = NoFile
                THEN <<Piece("dtb", 0, m.dtb),
                       Piece("kernel", KERN_OFFS, m.segments[1].filesz)>>
                ELSE <<Piece("dtb", 0, m.dtb),
                       Piece("initramfs", INITRAMFS_OFFS, m.initramfs),
                       Piece("kernel", KERN_OFFS, m.segments[1].filesz)>>
  <1> DEFINE a == Piece("dtb", 0, m.dtb)
             b == Piece("initramfs", INITRAMFS_OFFS, m.initramfs)
             c == Piece("kernel", KERN_OFFS, m.segments[1].filesz)
             t == IF m.initramfs = NoFile THEN << >> ELSE <<b>>
  <1>1. ArmPieces = (<<a>> \o t) \o <<c>>
    BY DEF ArmPieces
  <1> HIDE DEF a, b, c
  <1>2. <<a>> \o << >> = <<a>>
    <2>1. <<a>> \in Seq({a})
      OBVIOUS
    <2> QED  BY <2>1, ConcatEmptySeq
  <1>3. <<a>> \o <<c>> = <<a, c>> /\ <<a>> \o <<b>> = <<a, b>> /\ <<a, b>> \o <<c>> = <<a, b, c>>
    BY ShortSeqs
  <1>4. CASE m.initramfs = NoFile
    <2>1. t = << >>
      BY <1>4
    <2> HIDE DEF t
    <2>2. ArmPieces = <<a, c>>
      BY <1>1, <1>2, <1>3, <2>1
    <2> QED  BY <1>4, <2>2 DEF a, c
  <1>5. CASE m.initramfs # NoFile
    <2>1. t = <<b>>
      BY <1>5
    <2> HIDE DEF t
    <2>2. ArmPieces = <<a, b, c>>
      BY <1>1, <1>3, <2>1
    <2> QED  BY <1>5, <2>2 DEF a, b, c
  <1> QED  BY <1>4, <1>5

\* A file that outgrew its place is written over by the next one, and no
\* other; the vcpu is told where they are.
LEMMA ArmPlaced ==
    ASSUME m \in Machines, m.boot = "linux", ~Pvh, HeaderRead, m.dtb # NoFile, pieces = ToLoad
    PROVE  /\ \A a \in DOMAIN pieces : Damaged(a) <=> Outgrown(pieces[a])
           /\ \E a \in DOMAIN pieces : pieces[a].what = "kernel" /\ pieces[a].start = KERN_OFFS
           /\ \E a \in DOMAIN pieces : pieces[a].what = "dtb" /\ pieces[a].start = 0
  <1> DEFINE d == Piece("dtb", 0, m.dtb)
             i1 == Piece("initramfs", INITRAMFS_OFFS, m.initramfs)
             k1 == Piece("kernel", KERN_OFFS, m.segments[1].filesz)
  <1>1. m.arch = "aarch64" /\ pieces = ArmPieces
    <2>1. m.arch \in {"x86_64", "aarch64"}
      BY MachinesAssumption
    <2>2. m.boot # "binary"
      OBVIOUS
    <2> QED  BY <2>1, <2>2 DEF ToLoad, Pvh
  <1>2. /\ m.dtb \in Nat /\ m.initramfs \in Nat \cup {-1} /\ NoFile = -1
        /\ m.segments[1].filesz \in Nat /\ m.segments[1].filesz > 0
        /\ INITRAMFS_OFFS = 4096 /\ KERN_OFFS = 8192
    <2>1. 1 \in 1..Len(m.segments)
      BY Segments
    <2>2. m.segments[1].filesz \in Nat
      BY <2>1, Segments
    <2> QED  BY <1>1, <2>2, Segments DEF HeaderRead, INITRAMFS_OFFS, KERN_OFFS, NoFile
  <1>3. /\ d.what = "dtb" /\ d.start = 0 /\ d.len = m.dtb
        /\ i1.what = "initramfs" /\ i1.start = 4096 /\ i1.len = m.initramfs
        /\ k1.what = "kernel" /\ k1.start = 8192 /\ k1.len = m.segments[1].filesz
    BY <1>2 DEF Piece
  <1>4. pieces = IF m.initramfs = NoFile THEN <<d, k1>> ELSE <<d, i1, k1>>
    BY <1>1, ArmPiecesAre
  <1> HIDE DEF d, i1, k1
  <1>5. /\ PiecesOverlap(d, k1) <=> m.dtb > 8192
        /\ m.initramfs # NoFile =>
              /\ PiecesOverlap(d, i1) <=> m.initramfs > 0 /\ m.dtb > 4096
              /\ PiecesOverlap(i1, k1) <=> m.initramfs > 4096
    BY <1>2, <1>3 DEF PiecesOverlap, Overlap
  <1>6. /\ Outgrown(d) <=> m.dtb > (IF m.initramfs > 0 THEN 4096 ELSE 8192)
        /\ Outgrown(i1) <=> m.initramfs > 4096
        /\ ~Outgrown(k1)
    BY <1>2, <1>3 DEF Outgrown
  <1>7. CASE m.initramfs = NoFile
    <2>1. DOMAIN pieces = {1, 2} /\ pieces[1] = d /\ pieces[2] = k1
      BY <1>4, <1>7
    <2>2. /\ Damaged(1) <=> PiecesOverlap(d, k1)
          /\ ~Damaged(2)
      BY <2>1 DEF Damaged
    <2> QED  BY <1>2, <1>3, <1>5, <1>6, <1>7, <2>1, <2>2
  <1>8. CASE m.initramfs # NoFile
    <2>1. DOMAIN pieces = {1, 2, 3} /\ pieces[1] = d /\ pieces[2] = i1 /\ pieces[3] = k1
      BY <1>4, <1>8
    <2>2. /\ Damaged(1) <=> PiecesOverlap(d, i1) \/ PiecesOverlap(d, k1)
          /\ Damaged(2) <=> PiecesOverlap(i1, k1)
          /\ ~Damaged(3)
      BY <2>1 DEF Damaged
    <2> QED  BY <1>2, <1>3, <1>5, <1>6, <1>8, <2>1, <2>2
  <1> QED  BY <1>7, <1>8

\* A binary is one piece.
LEMMA BinaryPlaced ==
    ASSUME m.boot = "binary"
    PROVE  /\ DOMAIN ToLoad = {1}
           /\ ToLoad[1].what = "kernel" /\ ToLoad[1].start = m.load_addr
  BY DEF ToLoad, Piece

\* Linux has RAM where no device is.
LEMMA DevicePagesFree ==
    ASSUME SetupInv, pc = "run", m.boot = "linux",
           NEW page \in MmioPages(m.arch), NEW r \in DOMAIN regions
    PROVE  ~Overlap(page, PAGE_SIZE, regions[r].base, regions[r].size)
  <1>1. m \in Machines
    BY DEF SetupInv
  <1>2. PICK sl : RegionsAre(sl)
    BY RunRegions
  <1>3. /\ DOMAIN regions = (IF HasHigh THEN {1, 2} ELSE {1})
        /\ regions[1].base = LowBase /\ regions[1].size = LowSize
        /\ HasHigh => regions[2].base = HIGH_RAM_START /\ regions[2].size = HighSize
    BY <1>2, RegionFacts
  <1>4. /\ LowSize \in Nat /\ LowBase \in Nat /\ HighSize \in Int
        /\ m.arch \in {"x86_64", "aarch64"}
        /\ HasHigh => m.arch = "x86_64"
    BY <1>1, Layout
  <1>5. CASE m.arch = "x86_64"
    <2>1. page \in {6815744, 6815872}
      BY <1>5 DEF MmioPages
    <2>2. LowBase = 0 /\ LowSize <= 6291456
      <3>1. Pvh /\ m.memory \in Nat
        BY <1>1, <1>5, MachinesAssumption DEF Pvh
      <3> QED  BY <1>5, <3>1 DEF LowBase, LowSize, MinOf, MMIO_START
    <2>3. HIGH_RAM_START = 8388608
      BY DEF HIGH_RAM_START
    <2> QED  BY <1>3, <1>4, <2>1, <2>2, <2>3 DEF Overlap, PAGE_SIZE
  <1>6. CASE m.arch = "aarch64"
    <2>1. page \in {262144, 262272, 294912, 327680}
      BY <1>6 DEF MmioPages
    <2>2. LowBase = 2097152 /\ ~HasHigh
      BY <1>4, <1>6 DEF LowBase, LOAD_ADDR
    <2> QED  BY <1>3, <1>4, <2>1, <2>2 DEF Overlap, PAGE_SIZE
  <1> QED  BY <1>4, <1>5, <1>6

\* What the two invariants say of a vcpu that starts.
LEMMA LoadSafe == SetupInv /\ LoadInv => BootWhole
  <1> SUFFICES ASSUME SetupInv, LoadInv, pc = "run"
               PROVE  /\ PiecesKept
                      /\ m.boot # "none" => \E a \in DOMAIN pieces :
                            /\ pieces[a].what = "kernel"
                            /\ regs.ip = regions[1].base + pieces[a].start
                      /\ m.boot = "linux" => \E a \in DOMAIN pieces :
                            /\ pieces[a].what \in {"info", "dtb"}
                            /\ regs.info = regions[1].base + pieces[a].start
                      /\ m.arch = "x86_64" =>
                            regs.cpu.flat /\ ~regs.cpu.paging /\ (regs.cpu.pe <=> Pvh)
    BY DevicePagesFree, PvhWhole DEF BootWhole
  <1>1. m \in Machines /\ Loaded
    BY DEF SetupInv, LoadInv, LoadedPcs
  <1>2. m.arch \in {"x86_64", "aarch64"} /\ m.boot \in {"linux", "binary", "none"}
        /\ LowBase \in Nat /\ m.load_addr \in Nat
    BY <1>1, Layout, MachinesAssumption
  <1>3. m.boot # "none" => regions[1].base = LowBase
    BY <1>1, RunRegions, RegionFacts
  <1>4. m.arch = "x86_64" => regs.cpu.flat /\ ~regs.cpu.paging /\ (regs.cpu.pe <=> Pvh)
    <2> SUFFICES ASSUME m.arch = "x86_64"
                 PROVE  regs.cpu.flat /\ ~regs.cpu.paging /\ (regs.cpu.pe <=> Pvh)
      OBVIOUS
    <2>1. SetupMode.flat = TRUE /\ SetupMode.paging = FALSE /\ SetupMode.pe = FALSE
      BY DEF SetupMode, ResetMode
    <2>2. /\ protected_mode_setup.flat = TRUE /\ protected_mode_setup.paging = FALSE
          /\ protected_mode_setup.pe = TRUE
      BY DEF protected_mode_setup
    <2>3. regs.cpu = IF Pvh THEN protected_mode_setup ELSE SetupMode
      BY <1>1 DEF Loaded, StartRegs, FirstRegs, Pvh
    <2> QED  BY <2>1, <2>2, <2>3
  <1>5. CASE m.boot = "none"
    <2>1. pieces = << >> /\ ~Pvh
      BY <1>1, <1>5 DEF Loaded, Pvh
    <2> QED  BY <1>4, <1>5, <2>1 DEF PiecesKept
  <1>6. CASE m.boot = "binary"
    <2>1. pieces = ToLoad /\ ~Pvh
      BY <1>1, <1>6 DEF Loaded, Pvh
    <2>2. regs.ip = m.load_addr
      BY <1>1, <1>6 DEF Loaded, StartRegs, FirstRegs
    <2>3. LowBase = 0
      BY <1>6 DEF LowBase
    <2>4. PiecesKept
      <3>1. DOMAIN pieces = {1} /\ pieces[1].what = "kernel"
        BY <1>6, <2>1, BinaryPlaced
      <3> QED  BY <2>1, <3>1 DEF PiecesKept, Damaged, Outgrown
    <2> QED  BY <1>2, <1>3, <1>4, <1>6, <2>1, <2>2, <2>3, <2>4, BinaryPlaced
  <1>7. CASE m.boot = "linux" /\ ~Pvh
    <2>1. pieces = ToLoad /\ m.dtb # NoFile /\ HeaderRead
      BY <1>1, <1>7 DEF Loaded
    <2>2. regs.ip = LOAD_ADDR + KERN_OFFS /\ regs.info = LOAD_ADDR
      BY <1>1, <1>7 DEF Loaded, StartRegs
    <2>3. LowBase = LOAD_ADDR /\ LOAD_ADDR \in Nat
      BY <1>2, <1>7, Addresses DEF LowBase, Pvh
    <2>4. LOAD_ADDR = LOAD_ADDR + 0
      BY <2>3
    <2>5. \E a \in DOMAIN pieces :
             pieces[a].what = "kernel" /\ regs.ip = regions[1].base + pieces[a].start
      BY <1>1, <1>3, <1>7, <2>1, <2>2, <2>3, ArmPlaced
    <2>6. \E a \in DOMAIN pieces :
             /\ pieces[a].what \in {"info", "dtb"}
             /\ regs.info = regions[1].base + pieces[a].start
      BY <1>1, <1>3, <1>7, <2>1, <2>2, <2>3, <2>4, ArmPlaced
    <2>7. PiecesKept
      BY <1>1, <1>7, <2>1, ArmPlaced DEF PiecesKept
    <2> QED  BY <1>4, <1>7, <2>5, <2>6, <2>7
  <1>8. CASE Pvh
    <2>1. pieces = ToLoad /\ m.boot = "linux"
      BY <1>1, <1>8 DEF Loaded, Pvh
    <2>2. regs.ip = m.segments[1].start /\ regs.info = hvm_base
      BY <1>1, <1>8, <2>1 DEF Loaded, StartRegs
    <2>3. LowBase = 0
      BY <1>8 DEF LowBase, Pvh
    <2> DEFINE n == Len(m.segments) + Modules
    <2>4. Len(m.segments) \in Nat \ {0} /\ Modules \in Nat
      BY <1>1, Segments DEF Modules
    <2>5. /\ 1 \in DOMAIN ToLoad /\ ToLoad[1].what = "kernel"
          /\ ToLoad[1].start = m.segments[1].start /\ m.segments[1].start \in Nat
      <3>1. 1 \in 1..Len(m.segments) /\ 1 \in 1..(n + 4)
        BY <2>4
      <3> QED  BY <1>1, <1>8, <3>1, PvhPieces, Segments DEF Is
    <2>6. /\ n + 4 \in DOMAIN ToLoad /\ ToLoad[n + 4].what = "info"
          /\ ToLoad[n + 4].start = hvm_base
      <3>1. n + 4 \in 1..(n + 4)
        BY <2>4
      <3> QED  BY <1>1, <1>8, <3>1, PvhPieces DEF Is
    <2>7. regs.ip = 0 + ToLoad[1].start /\ regs.info = 0 + hvm_base
      BY <2>2, <2>5, InfoPlaces DEF hvm_base
    <2>8. \E a \in DOMAIN pieces :
             pieces[a].what = "kernel" /\ regs.ip = regions[1].base + pieces[a].start
      BY <1>3, <2>1, <2>3, <2>5, <2>7
    <2>9. \E a \in DOMAIN pieces :
             /\ pieces[a].what \in {"info", "dtb"}
             /\ regs.info = regions[1].base + pieces[a].start
      <3> HIDE DEF n
      <3> QED  BY <1>3, <2>1, <2>3, <2>6, <2>7
    <2> QED  BY <1>4, <1>8, <2>8, <2>9, PvhWhole
  <1> QED  BY <1>2, <1>5, <1>6, <1>7, <1>8

-----------------------------------------------------------------------------
\* No vcpu runs on memory with a hole in it, the dirty log is kept of the
\* framebuffer's pages and no others, and KVM is never asked for a split it
\* must refuse: for every size of memory and every boot (add_mem_region,
\* log_dirty_pages).
THEOREM MemoryWholeCorrect == MachineSpec => []MemoryWhole
  BY SetupInit, SetupNext, SetupSafe, PTL DEF MachineSpec

\* A vcpu starts in its kernel and mode, with no piece of the boot data
\* overwritten but those BootWhole names, and a PVH guest's memory map is true
\* exactly if there is a MiB of memory: for every kernel whose segments do not
\* overlap, wherever it is linked, every command line, initramfs, device tree
\* and size of memory, and a build with or without overflow checks
\* (arch_load_linux of both architectures, load_elf, load_data_to_memory).
THEOREM BootWholeCorrect == MachineSpec => []BootWhole
  BY SetupInit, SetupNext, LoadInit, LoadNext, LoadSafe, PTL DEF MachineSpec
=============================================================================
