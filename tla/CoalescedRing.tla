--------------------------- MODULE CoalescedRing ----------------------------
(***************************************************************************)
(* The ring in which KVM queues the guest's DAC writes instead of exiting  *)
(* (CoalescedRing and coalesce_pio() of src/src/main.rs) and its readers:  *)
(* Vga::handle() on the vcpu thread and Vga::render() on frontend threads, *)
(* both under the device's lock.  KVM appends while a reader drains.       *)
(*                                                                         *)
(* The writes are numbered in the order the guest makes them.  The guest   *)
(* has one vcpu, as main() creates it.                                     *)
(***************************************************************************)
EXTENDS Integers, Sequences

CONSTANTS
    ENTRIES,        \* CoalescedRing::ENTRIES
    MaxWrites       \* bound on the writes of the guest

ASSUME RingSizeAssumption ==
    /\ ENTRIES \in Nat /\ ENTRIES > 1
    /\ MaxWrites \in Nat

VARIABLES
    entries,        \* the ring's slots
    first, last,    \* its indices: the reader's and KVM's
    lock,           \* who holds the Mutex<Vga>
    i, end,         \* the locals of drain()
    vcpu,           \* what the vcpu does
    own,            \* the write it exited with, 0 for another access
    written,        \* writes the guest has made
    applied         \* history: the writes the device has applied, in order

vars == <<entries, first, last, lock, i, end, vcpu, own, written, applied>>

Slots == 0..ENTRIES - 1
After(n) == (n + 1) % ENTRIES

Init ==
    /\ entries = [s \in Slots |-> 0]
    /\ first = 0 /\ last = 0
    /\ lock = "none"
    /\ i = 0 /\ end = 0
    /\ vcpu = "guest"
    /\ own = 0
    /\ written = 0
    /\ applied = << >>

-----------------------------------------------------------------------------
(* KVM and the guest.                                                      *)

Full == After(last) = first

KvmQueue ==
    /\ vcpu = "guest" /\ written < MaxWrites
    /\ ~Full
    /\ written' = written + 1
    /\ entries' = [entries EXCEPT ![last] = written']
    /\ last' = After(last)
    /\ UNCHANGED <<first, lock, i, end, vcpu, own, applied>>

\* "When the ring is full, a write exits as usual."
ExitFull ==
    /\ vcpu = "guest" /\ written < MaxWrites
    /\ Full
    /\ written' = written + 1
    /\ own' = written'
    /\ vcpu' = "exit"
    /\ UNCHANGED <<entries, first, last, lock, i, end, applied>>

\* Reads, and writes to the other VGA ports, always exit.
ExitAccess ==
    /\ vcpu = "guest"
    /\ own' = 0
    /\ vcpu' = "exit"
    /\ UNCHANGED <<entries, first, last, lock, i, end, written, applied>>

-----------------------------------------------------------------------------
(* The readers.  drain() takes `first` and `last` once, before the loop.   *)

\* Mutant: the entries are freed before they are read.
DrainBeginFrees ==
    /\ i' = first
    /\ end' = last
    /\ first' = last

DrainBegin ==
    /\ i' = first
    /\ end' = last
    /\ UNCHANGED first

VcpuLock ==
    /\ vcpu = "exit" /\ lock = "none"
    /\ lock' = "vcpu"
    /\ DrainBegin
    /\ UNCHANGED <<entries, last, vcpu, own, written, applied>>

FrontendLock ==
    /\ lock = "none"
    /\ lock' = "frontend"
    /\ DrainBegin
    /\ UNCHANGED <<entries, last, vcpu, own, written, applied>>

DrainEntry ==
    /\ lock # "none" /\ vcpu # "access"
    /\ i # end
    /\ applied' = Append(applied, entries[i])
    /\ i' = After(i)
    /\ UNCHANGED <<entries, first, last, lock, end, vcpu, own, written>>

\* Mutant: one entry stays behind.
DrainEndShort ==
    /\ lock # "none" /\ vcpu # "access"
    /\ i = end
    /\ first' = IF end = first THEN first ELSE (end - 1) % ENTRIES
    /\ IF lock = "vcpu" THEN vcpu' = "access" /\ UNCHANGED lock
                        ELSE lock' = "none" /\ UNCHANGED vcpu
    /\ UNCHANGED <<entries, last, i, end, own, written, applied>>

\* The drained entries are KVM's again.  A frontend is done with the ring;
\* the vcpu thread goes on to the access it exited for.
DrainEnd ==
    /\ lock # "none" /\ vcpu # "access"
    /\ i = end
    /\ first' = end
    /\ IF lock = "vcpu" THEN vcpu' = "access" /\ UNCHANGED lock
                        ELSE lock' = "none" /\ UNCHANGED vcpu
    /\ UNCHANGED <<entries, last, i, end, own, written, applied>>

\* The access of the exit: its own write, or another register.
VcpuAccess ==
    /\ vcpu = "access"
    /\ applied' = IF own = 0 THEN applied ELSE Append(applied, own)
    /\ own' = 0
    /\ vcpu' = "guest"
    /\ lock' = "none"
    /\ UNCHANGED <<entries, first, last, i, end, written>>

-----------------------------------------------------------------------------
Next ==
    \/ KvmQueue \/ ExitFull \/ ExitAccess
    \/ VcpuLock \/ FrontendLock \/ DrainEntry \/ DrainEnd \/ VcpuAccess

Spec == Init /\ [][Next]_vars

-----------------------------------------------------------------------------
(* Properties.                                                             *)

TypeOK ==
    /\ entries \in [Slots -> 0..MaxWrites]
    /\ first \in Slots /\ last \in Slots
    /\ lock \in {"none", "vcpu", "frontend"}
    /\ i \in Slots /\ end \in Slots
    /\ vcpu \in {"guest", "exit", "access"}
    /\ own \in 0..MaxWrites
    /\ written \in 0..MaxWrites
    /\ applied \in Seq(1..MaxWrites)

\* What is still to be read, from the position the readers have reached.
Queued ==
    LET from == IF lock # "none" /\ vcpu # "access" THEN i ELSE first
    IN  [k \in 1..(last - from) % ENTRIES |-> entries[(from + k - 1) % ENTRIES]]

\* No write is lost, applied twice or overtaken: what the device has applied,
\* what is queued and the write being handled are the guest's writes, in its
\* order ("or writes reorder", CoalescedRing).
WritesConserved ==
    applied \o Queued \o (IF own = 0 THEN << >> ELSE <<own>>)
        = [k \in 1..written |-> k]

\* A register access sees every write the guest made before it ("applied, in
\* order, before any other register access", vga.rs).
AccessSeesWrites == vcpu = "access" => Queued = << >>
=============================================================================
