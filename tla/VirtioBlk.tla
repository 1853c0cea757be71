----------------------------- MODULE VirtioBlk ------------------------------
(***************************************************************************)
(* The disk (src/src/virtio/blk.rs) at the device's end of a virtqueue.    *)
(* The driver (external) keeps requests in flight and collects them in     *)
(* order; the device reads and writes the image file, which may fail at    *)
(* any byte.                                                               *)
(*                                                                         *)
(* Bytes are scaled: a sector has SECTOR_SIZE of them, u64 wraps at U64    *)
(* and u32, the used element's length, at U32.  A request is its header's  *)
(* type and sector, the bytes of its data buffers (put together: the code  *)
(* goes through them in order) and, for a write, the value it writes to all *)
(* of them.                                                                *)
(***************************************************************************)
EXTENDS Virtqueue

CONSTANTS
    SECTOR_SIZE,
    U64,            \* 2^64 in the code
    U32,            \* 2^32 in the code
    FileLen,        \* bytes of the image file, no need of whole sectors
    Values,         \* what a byte may hold
    Requests,       \* the requests the driver may make
    MaxFaults       \* bound on failing file operations

Types == {"in", "out", "flush", "unknown", "malformed"}
RequestType == [type : Types, sector : 0..U64 - 1, len : 0..U64 - 1, value : Values]

ASSUME DiskAssumption ==
    /\ SECTOR_SIZE \in Nat \ {0}
    /\ U32 \in Nat /\ U32 > 1
    /\ U64 \in Nat /\ FileLen \in Nat /\ FileLen < U64
    /\ 0 \in Values
    /\ Requests \subseteq RequestType
    /\ MaxFaults \in Nat

VARIABLES
    req,            \* the request in each chain
    data,           \* the data buffers of a read: the bytes written so far
    status,         \* the status byte
    used_len,       \* the length in the used element
    disk,           \* the image file
    expect,         \* driver's: what each byte may hold, from what it collected
    faults

blkVars == <<req, data, status, used_len, disk, expect, faults>>
vars == <<vqVars, blkVars>>

Bytes == 0..FileLen - 1

\* VirtioBlk::new(): whole sectors only.
capacity == FileLen \div SECTOR_SIZE

NoRequest == [type |-> "unknown", sector |-> 0, len |-> 0, value |-> 0]

BlkInit ==
    /\ Init
    /\ req = [h \in Heads |-> NoRequest]
    /\ data = [h \in Heads |-> << >>]
    /\ status = [h \in Heads |-> "none"]
    /\ used_len = [h \in Heads |-> 0]
    /\ disk = [b \in Bytes |-> 0]
    /\ expect = [b \in Bytes |-> {0}]
    /\ faults = 0

-----------------------------------------------------------------------------
(* The driver (external).                                                  *)

Submit(r) ==
    /\ \E h \in q.free :
        /\ q' = StageChain(q, h)
        /\ req' = [req EXCEPT ![h] = r]
        /\ data' = [data EXCEPT ![h] = << >>]
        /\ status' = [status EXCEPT ![h] = "none"]
        /\ used_len' = [used_len EXCEPT ![h] = 0]
    /\ UNCHANGED <<dev_pc, chain, disk, expect, faults>>

PublishRequests == DriverPublish /\ UNCHANGED blkVars

\* The bytes a request names, by arithmetic that does not wrap.
Start(r) == r.sector * SECTOR_SIZE
Named(r) == Start(r)..(Start(r) + r.len - 1)
OnDisk(r) == Start(r) + r.len <= capacity * SECTOR_SIZE

\* An acknowledged write has happened, a failed one may have, in part; one
\* past the end has not.
Expected(h) ==
    LET r == req[h]
    IN  [b \in Bytes |->
            IF r.type # "out" \/ ~OnDisk(r) \/ b \notin Named(r) THEN expect[b]
            ELSE IF status[h] = "ok" THEN {r.value}
            ELSE expect[b] \cup {r.value}]

CollectRequest ==
    /\ DriverCollect
    /\ expect' = Expected(UsedHead(q))
    /\ req' = [req EXCEPT ![UsedHead(q)] = NoRequest]
    /\ data' = [data EXCEPT ![UsedHead(q)] = << >>]
    /\ status' = [status EXCEPT ![UsedHead(q)] = "none"]
    /\ used_len' = [used_len EXCEPT ![UsedHead(q)] = 0]
    /\ UNCHANGED <<disk, faults>>

-----------------------------------------------------------------------------
(* The device.                                                             *)

PastEnd == -1

\* Mutant: the arithmetic wraps.
disk_offset_wrapping(sector, len) ==
    LET offset == (sector * SECTOR_SIZE) % U64
    IN  IF (offset + len) % U64 <= capacity * SECTOR_SIZE THEN offset ELSE PastEnd

\* checked_mul() and checked_add(), then the end against the capacity
disk_offset(sector, len) ==
    LET offset == sector * SECTOR_SIZE
        end == offset + len
    IN  IF offset < U64 /\ end < U64 /\ end <= capacity * SECTOR_SIZE
        THEN offset ELSE PastEnd

Offset(r) == disk_offset(r.sector, r.len)

\* A file operation that fails.
Fault == faults < MaxFaults /\ faults' = faults + 1

\* `written + 1` overflows a u32: a build with overflow checks panics with the
\* status written, and no other build does.
AnswerPanics(st, written) ==
    /\ written + 1 = U32
    /\ status' = [status EXCEPT ![chain] = st]
    /\ UNCHANGED used_len
    /\ ProcessFails

\* Mutant: the status byte is not counted.
AnswerUncounted(st, written) ==
    \/ /\ status' = [status EXCEPT ![chain] = st]
       /\ used_len' = [used_len EXCEPT ![chain] = written]
       /\ Processed
    \/ AnswerPanics(st, written)

\* The status byte, and the length with it.
Answer(st, written) ==
    \/ /\ status' = [status EXCEPT ![chain] = st]
       /\ used_len' = [used_len EXCEPT ![chain] = (written + 1) % U32]
       /\ Processed
    \/ AnswerPanics(st, written)

\* The first n bytes of the request's buffers are filled from the file.
ReadBytes(r, n) ==
    data' = [data EXCEPT ![chain] = [k \in 1..n |-> disk[Offset(r) + k - 1]]]

WriteBytes(r, n) ==
    disk' = [b \in Bytes |->
                IF b \in Offset(r)..(Offset(r) + n - 1) THEN r.value ELSE disk[b]]

\* `total as u32`
Truncated(len) == len % U32

\* read(): a failing read_exact_at() has filled what came before it.
ProcessIn ==
    LET r == req[chain]
    IN  /\ r.type = "in"
        /\ \/ /\ Offset(r) = PastEnd
              /\ Answer("ioerr", 0)
              /\ UNCHANGED <<data, faults>>
           \/ /\ Offset(r) # PastEnd
              /\ ReadBytes(r, r.len)
              /\ Answer("ok", Truncated(r.len))
              /\ UNCHANGED faults
           \/ /\ Offset(r) # PastEnd /\ Fault
              /\ \E n \in 0..r.len - 1 : ReadBytes(r, n)
              /\ Answer("ioerr", 0)
        /\ UNCHANGED <<req, disk, expect>>

\* write(): write_all_at() may fail with some of it written.
ProcessOut ==
    LET r == req[chain]
    IN  /\ r.type = "out"
        /\ \/ /\ Offset(r) = PastEnd
              /\ Answer("ioerr", 0)
              /\ UNCHANGED <<disk, faults>>
           \/ /\ Offset(r) # PastEnd
              /\ WriteBytes(r, r.len)
              /\ Answer("ok", 0)
              /\ UNCHANGED faults
           \/ /\ Offset(r) # PastEnd /\ Fault
              /\ \E n \in 0..r.len - 1 : WriteBytes(r, n)
              /\ Answer("ioerr", 0)
        /\ UNCHANGED <<req, data, expect>>

\* sync_data()
ProcessFlush ==
    /\ req[chain].type = "flush"
    /\ \/ Answer("ok", 0) /\ UNCHANGED faults
       \/ Fault /\ Answer("ioerr", 0)
    /\ UNCHANGED <<req, data, disk, expect>>

ProcessUnknown ==
    /\ req[chain].type = "unknown"
    /\ Answer("unsupp", 0)
    /\ UNCHANGED <<req, data, disk, expect, faults>>

\* No header, or no buffer for the status.
ProcessMalformed ==
    /\ req[chain].type = "malformed"
    /\ ProcessFails
    /\ UNCHANGED blkVars

Process == ProcessIn \/ ProcessOut \/ ProcessFlush \/ ProcessUnknown \/ ProcessMalformed

Ring ==
    /\ ReadAvailIdx \/ ReadAvailSlot \/ WriteUsedElem \/ WriteUsedIdx
    /\ UNCHANGED blkVars

Device == Ring \/ Process

-----------------------------------------------------------------------------
Next ==
    \/ \E r \in Requests : Submit(r)
    \/ PublishRequests
    \/ CollectRequest
    \/ Device

\* The device drains a queue once it was notified; the driver collects what
\* was returned and publishes what it staged.
Fairness == WF_vars(Device) /\ WF_vars(CollectRequest) /\ WF_vars(PublishRequests)

FairSpec == BlkInit /\ [][Next]_vars /\ Fairness

-----------------------------------------------------------------------------
(* Properties.                                                             *)

\* What the driver is told of the request it collects next is true.  A read
\* acknowledged returns, at every byte, what the acknowledged writes left
\* there, or what a failed one may have; nothing past the end of the disk is
\* acknowledged, by sectors whose byte address wraps either (disk_offset(),
\* read(), write()).
AnswersTrue ==
    Returned # << >> =>
        LET h == Head(Returned)
            r == req[h]
        IN  /\ status[h] # "none"
            /\ r.type \in {"in", "out"} /\ status[h] = "ok" => OnDisk(r)
            /\ r.type = "in" /\ status[h] = "ok" =>
                  /\ Len(data[h]) = r.len
                  /\ \A k \in 1..r.len : data[h][k] \in expect[Start(r) + k - 1]

\* The used length promises no byte the device did not write, whatever
\* `total as u32` cuts off and wherever `written + 1` wraps.  After a success
\* that fits a u32 it "counts every byte written to the guest" (process()); a
\* failed request is told of its status byte alone, also when a read filled a
\* part of its buffers before the file failed.
UsedLenTrue ==
    \A i \in DOMAIN Returned :
        LET h == Returned[i]
            total == Len(data[h]) + 1
        IN  /\ used_len[h] <= total
            /\ status[h] # "ok" => used_len[h] = 1
            /\ total < U32 /\ status[h] = "ok" => used_len[h] = total

\* The answer's length does not fit a u32: the request with which a build with
\* overflow checks panics.
LenOverflows(r) == r.type = "in" /\ Truncated(r.len) + 1 = U32

\* A request comes back whatever the disk does: "only a malformed request is
\* an error for the VMM" (process()), or one whose length overflows.
RequestsComeBack ==
    \A h \in Heads :
        h \notin q.free
            ~> \/ h \in q.free
               \/ dev_pc = "error" /\ (req[chain].type = "malformed" \/ LenOverflows(req[chain]))
=============================================================================
