---------------------------- MODULE GuestMemory -----------------------------
(***************************************************************************)
(* Guest memory as the VMM keeps it (VM::guest_memory) and as KVM maps it  *)
(* (memory slots): add_mem_region() and log_dirty_pages() of               *)
(* src/src/main.rs.  Addresses and sizes are multiples of 512 bytes, which *)
(* is exact for every constant of the code.                                *)
(***************************************************************************)
EXTENDS Integers, Sequences

PAGE_SIZE == 8

VARIABLES
    regions,        \* VM::guest_memory: [base, size, slot]
    slots,          \* KVM's: [id, base, size, log, region, off]
    next_slot       \* VM::next_slot

memVars == <<regions, slots, next_slot>>

NoSlot == -1

MemInit ==
    /\ regions = << >>
    /\ slots = {}
    /\ next_slot = 0

AlignDown(a) == a - (a % PAGE_SIZE)
AlignUp(a) == AlignDown(a + PAGE_SIZE - 1)

\* The n units from a and the k units from b have one in common.
Overlap(a, n, b, k) == n > 0 /\ k > 0 /\ a < b + k /\ b < a + n

Covers(r, a, n) == r.base <= a /\ a + n <= r.base + r.size

\* The first region that holds all of it, 0 if none does
gpa_to_host(a, n) ==
    LET holds == {i \in DOMAIN regions : Covers(regions[i], a, n)}
    IN  IF holds = {} THEN 0 ELSE CHOOSE i \in holds : \A j \in holds : i <= j

-----------------------------------------------------------------------------
(* KVM_SET_USER_MEMORY_REGION (external).                                  *)

\* KVM takes whole pages that no slot maps yet.
KvmTakes(in, s) ==
    /\ s.size > 0
    /\ s.base % PAGE_SIZE = 0 /\ s.size % PAGE_SIZE = 0
    /\ \A t \in in : t.id # s.id /\ ~Overlap(s.base, s.size, t.base, t.size)

-----------------------------------------------------------------------------
(* add_mem_region()                                                        *)

NewRegionSlot(size, base) ==
    [id |-> next_slot, base |-> base, size |-> size, log |-> FALSE,
     region |-> Len(regions) + 1, off |-> 0]

add_mem_region(size, base) ==
    /\ KvmTakes(slots, NewRegionSlot(size, base))
    /\ slots' = slots \cup {NewRegionSlot(size, base)}
    /\ regions' = Append(regions, [base |-> base, size |-> size, slot |-> next_slot])
    /\ next_slot' = next_slot + 1

-----------------------------------------------------------------------------
(* log_dirty_pages(): the slot is deleted and added again in parts.        *)

LogStart(a) == AlignDown(a)
LogEnd(a, n) == AlignUp(a + n)

\* The region that is split, 0 for "No memory region covers"
SplitRegion(a, n) == gpa_to_host(LogStart(a), LogEnd(a, n) - LogStart(a))

\* Before, logged, after; empty ones are passed over.
Parts(i, a, n) ==
    LET r == regions[i]
        Part(from, to, log) ==
            IF from = to THEN << >>
            ELSE <<[base |-> from, size |-> to - from, log |-> log, region |-> i,
                    off |-> from - r.base]>>
    IN  Part(r.base, LogStart(a), FALSE)
          \o Part(LogStart(a), LogEnd(a, n), TRUE)
          \o Part(LogEnd(a, n), r.base + r.size, FALSE)

\* A memory_size of 0 deletes the slot.
DeleteSlot(id) ==
    /\ slots' = {s \in slots : s.id # id}
    /\ UNCHANGED <<regions, next_slot>>

\* The first part reuses the slot of the region.
PartSlot(free_slot) == IF free_slot = NoSlot THEN next_slot ELSE free_slot

PartAsSlot(p, id) ==
    [id |-> id, base |-> p.base, size |-> p.size, log |-> p.log,
     region |-> p.region, off |-> p.off]

AddPart(p, free_slot) ==
    LET id == PartSlot(free_slot)
    IN  /\ KvmTakes(slots, PartAsSlot(p, id))
        /\ slots' = slots \cup {PartAsSlot(p, id)}
        /\ next_slot' = IF free_slot = NoSlot THEN next_slot + 1 ELSE next_slot
        /\ UNCHANGED regions

-----------------------------------------------------------------------------
(* What a guest may rely on.                                               *)

SlotsDisjoint ==
    \A s, t \in slots : s # t => s.id # t.id /\ ~Overlap(s.base, s.size, t.base, t.size)

\* A slot shows the part of its region that belongs at its address.
SlotsInPlace ==
    \A s \in slots :
        /\ s.region \in DOMAIN regions
        /\ Covers(regions[s.region], s.base, s.size)
        /\ s.off = s.base - regions[s.region].base

\* From the start of each region to its end, slot follows slot.
SlotsCover ==
    \A i \in DOMAIN regions :
        LET mine == {s \in slots : s.region = i}
            stops == {regions[i].base + regions[i].size} \cup {s.base : s \in mine}
        IN  /\ \E s \in mine : s.base = regions[i].base
            /\ \A s \in mine : s.base + s.size \in stops

SlotsTile == SlotsDisjoint /\ SlotsInPlace /\ SlotsCover
=============================================================================
