----------------------------- MODULE VirtioMmio -----------------------------
(***************************************************************************)
(* The virtio-mmio transport (src/src/virtio/mmio.rs) of one device with   *)
(* its queues, and a guest driver that probes the device, possibly more    *)
(* than once, and then uses it.                                            *)
(*                                                                         *)
(* The guest has one vcpu.  It is stopped while its own register access is *)
(* handled and while its thread polls the devices after a kick, so guest   *)
(* steps happen only when `work` is empty; the loop of queue_notify() runs *)
(* one chain at a time because device threads go on meanwhile.             *)
(***************************************************************************)
EXTENDS Vring, IrqLine, Sequences

CONSTANT
    MaxProbes       \* how often the driver may set the device up

ASSUME MaxProbesAssumption == MaxProbes \in Nat

VARIABLES
    status,         \* VirtioMmio::status
    curr_queue,     \* VirtioMmio::curr_queue
    queue,          \* VirtioMmio::queue, the rings and the driver's indices
    addr,           \* ring address registers of each queue, [lo, hi]
    irq_status,     \* VirtioMmio::irq_status, its VRING bit
    irq,            \* the interrupt line
    work,           \* queues that queue_notify() has still to serve
    chain,          \* head of the chain in process(), or NoChain
    drv             \* the driver: see DriverType

mmioVars == <<status, curr_queue, queue, addr, irq_status, irq, work, chain, drv>>

-----------------------------------------------------------------------------
RX == 0
TX == 1
Queues == {RX, TX}      \* 0..VRING_QUEUES_MAX-1
NoChain == -1

\* What the driver wants in the address registers of queue i at its p-th
\* setup: both halves change from one setup to the next.
WantedAddr(i, p) == [lo |-> (i + p) % 2, hi |-> (i + p + 1) % 2]

DriverType ==
    [pc : {"reset", "sel", "unready", "alloc", "num", "addr_lo", "addr_hi",
           "ready", "ok", "live"},
     setup : Queues,                \* the queue being set up
     probes : 0..MaxProbes,
     notify : SUBSET Queues,        \* published, QUEUE_NOTIFY still to be written
     isr : {"off", "status", "ack", "collect"},
     isr_status : BOOLEAN]          \* INTERRUPT_STATUS as the handler read it

Init ==
    /\ status = 0
    /\ curr_queue = 0
    /\ queue = [i \in Queues |-> NewQueue]
    /\ addr = [i \in Queues |-> [lo |-> 0, hi |-> 0]]
    /\ irq_status = FALSE
    /\ irq = IrqIdle
    /\ work = << >>
    /\ chain = NoChain
    /\ drv = [pc |-> "reset", setup |-> RX, probes |-> 0, notify |-> {},
              isr |-> "off", isr_status |-> FALSE]

-----------------------------------------------------------------------------
(* VirtioMmio::handle(), by register.  A write to a queue register goes to *)
(* selected_queue(), the one QUEUE_SEL chose.                              *)

\* STATUS is stored and has no other effect.
WriteStatus(val) ==
    /\ status' = val
    /\ UNCHANGED <<curr_queue, queue, addr, irq_status, irq, work, chain>>

WriteQueueSel(val) ==
    /\ curr_queue' = val
    /\ UNCHANGED <<status, queue, addr, irq_status, irq, work, chain>>

\* QUEUE_NUM
WriteQueueNum(val) ==
    /\ queue' = [queue EXCEPT ![curr_queue].num = val]
    /\ UNCHANGED <<status, curr_queue, addr, irq_status, irq, work, chain>>

\* QUEUE_READY
WriteQueueReady(val) ==
    /\ queue' = [queue EXCEPT ![curr_queue].ready = val]
    /\ UNCHANGED <<status, curr_queue, addr, irq_status, irq, work, chain>>

\* Mutant: the low half is or-ed in like the high half.
OrAddrLow(val) ==
    /\ addr' = [addr EXCEPT ![curr_queue].lo = IF @ = 1 THEN 1 ELSE val]
    /\ UNCHANGED <<status, curr_queue, queue, irq_status, irq, work, chain>>

\* QUEUE_{DESC,AVAIL,USED}_LOW assigns the whole register.
WriteAddrLow(val) ==
    /\ addr' = [addr EXCEPT ![curr_queue] = [lo |-> val, hi |-> 0]]
    /\ UNCHANGED <<status, curr_queue, queue, irq_status, irq, work, chain>>

\* QUEUE_{DESC,AVAIL,USED}_HIGH ors its value into the upper half.
WriteAddrHigh(val) ==
    /\ addr' = [addr EXCEPT ![curr_queue].hi = IF @ = 1 THEN 1 ELSE val]
    /\ UNCHANGED <<status, curr_queue, queue, irq_status, irq, work, chain>>

\* QUEUE_NOTIFY starts queue_notify() on queue i.
WriteQueueNotify(i) ==
    /\ work' = <<i>>
    /\ UNCHANGED <<status, curr_queue, queue, addr, irq_status, irq, chain>>

\* Mutant: the line stays up.
AckKeepsLine(val) ==
    /\ irq_status' = (irq_status /\ ~val)
    /\ UNCHANGED <<status, curr_queue, queue, addr, irq, work, chain>>

\* INTERRUPT_ACK clears the bits of val and lowers the line, whatever is left.
WriteInterruptAck(val) ==
    /\ irq_status' = (irq_status /\ ~val)
    /\ irq' = UpdateIrq(irq, FALSE)
    /\ UNCHANGED <<status, curr_queue, queue, addr, work, chain>>

-----------------------------------------------------------------------------
(* VirtioMmio::poll() and queue_notify().  `can` is the device's answer to *)
(* can_process().                                                          *)

\* poll() serves every queue.
StartPoll ==
    /\ work = << >>
    /\ work' = <<RX, TX>>
    /\ UNCHANGED <<status, curr_queue, queue, addr, irq_status, irq, chain, drv>>

Serving(i) == work # << >> /\ Head(work) = i /\ chain = NoChain

\* The queue is not ready, the device cannot process, or nothing is available.
NotifyDone(i, can) ==
    /\ Serving(i)
    /\ queue[i].ready = 0 \/ queue[i].num = 0 \/ ~can \/ ~HasAvail(queue[i])
    /\ work' = Tail(work)
    /\ UNCHANGED <<status, curr_queue, queue, addr, irq_status, irq, chain, drv>>

NotifyPop(i, can) ==
    /\ Serving(i)
    /\ queue[i].ready # 0 /\ queue[i].num # 0
    /\ can
    /\ HasAvail(queue[i])
    /\ chain' = NextHead(queue[i])
    /\ queue' = [queue EXCEPT ![i] = PopAvail(@)]
    /\ UNCHANGED <<status, curr_queue, addr, irq_status, irq, work, drv>>

\* process() is done: push_used(), the VRING bit and the line.
NotifyPush(i) ==
    /\ work # << >> /\ Head(work) = i
    /\ chain # NoChain
    /\ queue' = [queue EXCEPT ![i] = PushUsed(@, chain)]
    /\ irq_status' = TRUE
    /\ irq' = UpdateIrq(irq, TRUE)
    /\ chain' = NoChain
    /\ UNCHANGED <<status, curr_queue, addr, work, drv>>

-----------------------------------------------------------------------------
(* The guest's driver (external): the order of accesses of a virtio-mmio   *)
(* driver, one access per step.  GuestRuns guards every step.              *)

GuestRuns == work = << >>

DriverReset ==
    /\ drv.pc \in {"reset", "live"}
    /\ drv.probes < MaxProbes
    /\ drv.isr = "off" /\ drv.notify = {}
    /\ WriteStatus(0)
    /\ drv' = [drv EXCEPT !.pc = "sel", !.setup = RX, !.probes = @ + 1]

DriverSel ==
    /\ drv.pc = "sel"
    /\ WriteQueueSel(drv.setup)
    /\ drv' = [drv EXCEPT !.pc = "unready"]

\* Tearing the old queue down, if there was one.
DriverUnready ==
    /\ drv.pc = "unready"
    /\ WriteQueueReady(0)
    /\ drv' = [drv EXCEPT !.pc = "alloc"]

\* New rings, in guest memory.
DriverAlloc ==
    /\ drv.pc = "alloc"
    /\ queue' = [queue EXCEPT ![drv.setup] = AllocRings(@)]
    /\ drv' = [drv EXCEPT !.pc = "num"]
    /\ UNCHANGED <<status, curr_queue, addr, irq_status, irq, work, chain>>

DriverNum ==
    /\ drv.pc = "num"
    /\ WriteQueueNum(Num)
    /\ drv' = [drv EXCEPT !.pc = "addr_lo"]

DriverAddrLow ==
    /\ drv.pc = "addr_lo"
    /\ WriteAddrLow(WantedAddr(drv.setup, drv.probes).lo)
    /\ drv' = [drv EXCEPT !.pc = "addr_hi"]

DriverAddrHigh ==
    /\ drv.pc = "addr_hi"
    /\ WriteAddrHigh(WantedAddr(drv.setup, drv.probes).hi)
    /\ drv' = [drv EXCEPT !.pc = "ready"]

DriverReady ==
    /\ drv.pc = "ready"
    /\ WriteQueueReady(1)
    /\ drv' = IF drv.setup = RX THEN [drv EXCEPT !.pc = "sel", !.setup = TX]
                                ELSE [drv EXCEPT !.pc = "ok"]

DriverOk ==
    /\ drv.pc = "ok"
    /\ WriteStatus(1)
    /\ drv' = [drv EXCEPT !.pc = "live"]

\* Live: add a buffer and publish it, in guest memory; then notify.
DriverOffer(i) ==
    /\ drv.pc = "live"
    /\ \E h \in queue[i].free :
           queue' = [queue EXCEPT ![i] = Publish(StageChain(@, h))]
    /\ drv' = [drv EXCEPT !.notify = @ \cup {i}]
    /\ UNCHANGED <<status, curr_queue, addr, irq_status, irq, work, chain>>

DriverNotify(i) ==
    /\ i \in drv.notify
    /\ drv' = [drv EXCEPT !.notify = @ \ {i}]
    /\ WriteQueueNotify(i)

\* The interrupt handler: read INTERRUPT_STATUS, acknowledge what was read,
\* and, if the VRING bit was there, collect the used chains.
IsrEnter ==
    /\ drv.isr = "off"
    /\ irq.latched
    /\ irq' = TakeIrq(irq)
    /\ drv' = [drv EXCEPT !.isr = "status"]
    /\ UNCHANGED <<status, curr_queue, queue, addr, irq_status, work, chain>>

\* INTERRUPT_STATUS is a read: nothing of the device changes.
IsrStatus ==
    /\ drv.isr = "status"
    /\ drv' = [drv EXCEPT !.isr = "ack", !.isr_status = irq_status]
    /\ UNCHANGED <<status, curr_queue, queue, addr, irq_status, irq, work, chain>>

IsrAck ==
    /\ drv.isr = "ack"
    /\ WriteInterruptAck(drv.isr_status)
    /\ drv' = [drv EXCEPT !.isr = IF drv.isr_status THEN "collect" ELSE "off",
                          !.isr_status = FALSE]

IsrCollect(i) ==
    /\ drv.isr = "collect"
    /\ HasUsed(queue[i])
    /\ queue' = [queue EXCEPT ![i] = Collect(@)]
    /\ UNCHANGED <<status, curr_queue, addr, irq_status, irq, work, chain, drv>>

IsrLeave ==
    /\ drv.isr = "collect"
    /\ \A i \in Queues : ~HasUsed(queue[i])
    /\ drv' = [drv EXCEPT !.isr = "off"]
    /\ UNCHANGED <<status, curr_queue, queue, addr, irq_status, irq, work, chain>>

DriverSetup ==
    \/ DriverReset \/ DriverSel \/ DriverUnready \/ DriverAlloc \/ DriverNum
    \/ DriverAddrLow \/ DriverAddrHigh \/ DriverReady \/ DriverOk

Isr == IsrEnter \/ IsrStatus \/ IsrAck \/ (\E i \in Queues : IsrCollect(i)) \/ IsrLeave

-----------------------------------------------------------------------------
(* The transport by itself: the device may say of each queue whether it    *)
(* can process, and a kick may come at any time.                           *)

Service(i) == \/ NotifyDone(i, FALSE) \/ NotifyDone(i, TRUE)
              \/ NotifyPop(i, TRUE) \/ NotifyPush(i)

Guest == \/ DriverSetup \/ Isr
         \/ \E i \in Queues : DriverOffer(i) \/ DriverNotify(i)

Next ==
    \/ StartPoll
    \/ \E i \in Queues : Service(i)
    \/ GuestRuns /\ Guest

Spec == Init /\ [][Next]_mmioVars

-----------------------------------------------------------------------------
(* Properties.                                                             *)

TypeOK ==
    /\ status \in {0, 1}
    /\ curr_queue \in Queues
    /\ queue \in [Queues -> QueueType]
    /\ addr \in [Queues -> [lo : {0, 1}, hi : {0, 1}]]
    /\ irq_status \in BOOLEAN
    /\ irq \in IrqType
    /\ work \in {<< >>, <<RX>>, <<TX>>, <<RX, TX>>}
    /\ chain \in Heads \cup {NoChain}
    /\ drv \in DriverType

\* A live driver finds in every queue the rings it set up: each register
\* write reached the queue it was meant for, and no half of an address is
\* left over from an earlier setup.
QueuesProgrammed ==
    drv.pc = "live" =>
        \A i \in Queues : /\ queue[i].ready = 1
                          /\ addr[i] = WantedAddr(i, drv.probes)

\* "Takes the next chain the driver made available": the chain the device
\* works on is not one the driver still owns (pop_avail).
TakesOnlyAvailable ==
    chain # NoChain => chain \notin queue[Head(work)].free

\* No used chain is left behind: when the handler is not running and a chain
\* is waiting to be collected, an interrupt is latched; and a handler that
\* looks at INTERRUPT_STATUS then finds the VRING bit.  Chains used between
\* its read and its acknowledge included (INTERRUPT_ACK lowers the line and
\* drops the bit, so nothing would announce them again).
NoLostInterrupt ==
    drv.pc = "live" /\ (\E i \in Queues : HasUsed(queue[i])) =>
        \/ drv.isr = "off" /\ irq.latched
        \/ drv.isr = "status" /\ irq_status
        \/ drv.isr = "ack" /\ drv.isr_status
        \/ drv.isr = "collect"
=============================================================================
