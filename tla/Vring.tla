------------------------------- MODULE Vring -------------------------------
(***************************************************************************)
(* One split virtqueue as its two sides see it: the rings in guest memory, *)
(* the device's VringQueue (src/src/virtio/queue.rs) and the private       *)
(* indices of the guest's driver (external).  Free-running indices are u16 *)
(* in the code and wrap modulo IdxMod here.  A chain is named by its head. *)
(***************************************************************************)
EXTENDS Integers, FiniteSets

CONSTANTS
    Num,        \* VringQueue::num, entries of the rings
    IdxMod      \* 2^16 in the code

\* The driver chooses a power of two no larger than queue_num_max (256).
ASSUME RingAssumption ==
    /\ Num \in Nat \ {0}
    /\ IdxMod \in Nat
    /\ Num < IdxMod
    /\ IdxMod % Num = 0

Heads == 0..(Num - 1)
Indices == 0..(IdxMod - 1)

\* A ring slot, and a used element, that was never written reads as 0.
ZeroRing == [i \in Heads |-> 0]

\* u16::wrapping_add(1)
IncIdx(i) == (i + 1) % IdxMod

\* How far index b is ahead of index a.
Dist(a, b) == (b - a) % IdxMod

\* The entries of a ring from index a up to, not including, index b.
Between(ring, a, b) == [i \in 1..Dist(a, b) |-> ring[(a + i - 1) % Num]]

QueueType ==
    [ready : {0, 1}, num : {0, Num}, last_avail_idx : Indices,
     avail_idx : Indices, avail_ring : [Heads -> Heads],
     used_idx : Indices, used_ring : [Heads -> Heads],
     shadow : Indices, last_used : Indices, free : SUBSET Heads]

\* VringQueue::new, and a driver that has yet to set the queue up.
NewQueue ==
    [ready |-> 0, num |-> 0, last_avail_idx |-> 0,
     avail_idx |-> 0, avail_ring |-> ZeroRing,
     used_idx |-> 0, used_ring |-> ZeroRing,
     shadow |-> 0, last_used |-> 0, free |-> {}]

\* The driver allocates zeroed rings for a queue (external); the device's own
\* fields stay as they are.
AllocRings(q) ==
    [NewQueue EXCEPT !.free = Heads, !.ready = q.ready, !.num = q.num,
                     !.last_avail_idx = q.last_avail_idx]

-----------------------------------------------------------------------------
(* The device's side.                                                      *)

\* Mutant: the indices are compared with <, which fails at the wrap.
HasAvailLess(q) == q.last_avail_idx < q.avail_idx

HasAvail(q) == q.last_avail_idx # q.avail_idx

\* pop_avail(): the head in the next slot, and the queue afterwards.
NextHead(q) == q.avail_ring[q.last_avail_idx % Num]

PopAvail(q) == [q EXCEPT !.last_avail_idx = IncIdx(@)]

\* push_used(): the element first, then, behind the fence, the index.

\* Mutant: the used element goes to the slot of the device's avail index.
PushElemAtAvail(q, h) == [q EXCEPT !.used_ring[q.last_avail_idx % Num] = h]

PushElem(q, h) == [q EXCEPT !.used_ring[q.used_idx % Num] = h]
PushIdx(q) == [q EXCEPT !.used_idx = IncIdx(@)]
PushUsed(q, h) == PushIdx(PushElem(q, h))

-----------------------------------------------------------------------------
(* The driver's side (external).                                           *)

StageChain(q, h) ==
    [q EXCEPT !.avail_ring[q.shadow % Num] = h,
              !.shadow = IncIdx(@),
              !.free = @ \ {h}]

HasStaged(q) == q.shadow # q.avail_idx
Publish(q) == [q EXCEPT !.avail_idx = q.shadow]

HasUsed(q) == q.last_used # q.used_idx
UsedHead(q) == q.used_ring[q.last_used % Num]
Collect(q) ==
    [q EXCEPT !.last_used = IncIdx(@), !.free = @ \cup {UsedHead(q)}]
=============================================================================
