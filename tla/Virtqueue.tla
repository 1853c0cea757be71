----------------------------- MODULE Virtqueue -----------------------------
(***************************************************************************)
(* The driver and the device on one virtqueue, running concurrently: the   *)
(* device's queue_notify loop may run in one vcpu thread while another     *)
(* vcpu runs the driver, which is what the fences in queue.rs are for.     *)
(* The device reads the index, then the slot; it processes the chain; it   *)
(* writes the used element, then the used index.  What processing does is  *)
(* the device's, see VirtioBlk.  Shown to implement ChainQueue.            *)
(***************************************************************************)
EXTENDS Vring, Sequences

VARIABLES
    q,          \* the queue, see Vring
    dev_pc,     \* where the device is in queue_notify
    chain       \* DescChain::head of the chain it works on

vqVars == <<q, dev_pc, chain>>

Init ==
    /\ q = [AllocRings(NewQueue) EXCEPT !.ready = 1, !.num = Num]
    /\ dev_pc = "avail_idx"
    /\ chain = 0

DriverStage ==
    /\ \E h \in q.free : q' = StageChain(q, h)
    /\ UNCHANGED <<dev_pc, chain>>

DriverPublish ==
    /\ HasStaged(q)
    /\ q' = Publish(q)
    /\ UNCHANGED <<dev_pc, chain>>

DriverCollect ==
    /\ HasUsed(q)
    /\ q' = Collect(q)
    /\ UNCHANGED <<dev_pc, chain>>

\* pop_avail() reads avail.idx and finds a chain.
ReadAvailIdx ==
    /\ dev_pc = "avail_idx"
    /\ HasAvail(q)
    /\ dev_pc' = "avail_slot"
    /\ UNCHANGED <<q, chain>>

\* Mutant: last_avail_idx is advanced before the slot is read.
AdvanceBeforeRead ==
    /\ dev_pc = "avail_slot"
    /\ chain' = q.avail_ring[IncIdx(q.last_avail_idx) % Num]
    /\ q' = PopAvail(q)
    /\ dev_pc' = "process"

\* It reads the slot and advances last_avail_idx; process() follows.
ReadAvailSlot ==
    /\ dev_pc = "avail_slot"
    /\ chain' = NextHead(q)
    /\ q' = PopAvail(q)
    /\ dev_pc' = "process"

\* process() returns a length, or an error that ends the VM: push_used() is
\* not reached.
Processed ==
    /\ dev_pc = "process"
    /\ dev_pc' = "used_elem"
    /\ UNCHANGED <<q, chain>>

ProcessFails ==
    /\ dev_pc = "process"
    /\ dev_pc' = "error"
    /\ UNCHANGED <<q, chain>>

WriteUsedElem ==
    /\ dev_pc = "used_elem"
    /\ q' = PushElem(q, chain)
    /\ dev_pc' = "used_idx"
    /\ UNCHANGED chain

WriteUsedIdx ==
    /\ dev_pc = "used_idx"
    /\ q' = PushIdx(q)
    /\ dev_pc' = "avail_idx"
    /\ UNCHANGED chain

-----------------------------------------------------------------------------
(* Properties.                                                             *)

InDevice == dev_pc \in {"process", "used_elem", "used_idx", "error"}

\* The chains in each stage of their life, oldest first.
Staged   == Between(q.avail_ring, q.avail_idx, q.shadow)
Offered  == Between(q.avail_ring, q.last_avail_idx, q.avail_idx)
Taken    == IF InDevice THEN <<chain>> ELSE << >>
Returned == Between(q.used_ring, q.last_used, q.used_idx)

\* The virtqueue is a queue of chains, across index wrap-around: chains are
\* taken in the order they were offered, each is returned once, and no slot
\* is overwritten before the other side has read it (pop_avail, push_used).
Abstract == INSTANCE ChainQueue WITH
    free <- q.free, staged <- Staged, offered <- Offered,
    taken <- Taken, returned <- Returned

ImplementsChainQueue == Abstract!Spec

\* Every chain is in one place only: with the driver, in one of the rings or
\* with the device; none is lost and none is in two places.
ChainsConserved ==
    LET inFlight == Staged \o Offered \o Taken \o Returned
    IN  /\ Len(inFlight) = Num - Cardinality(q.free)
        /\ \A h \in Heads \ q.free : \E i \in DOMAIN inFlight : inFlight[i] = h

=============================================================================
