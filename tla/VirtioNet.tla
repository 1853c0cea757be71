----------------------------- MODULE VirtioNet -----------------------------
(***************************************************************************)
(* virtio-net (src/src/virtio/net.rs) composed with its transport and with *)
(* the vcpu thread that runs it.                                           *)
(*                                                                         *)
(* The RX thread blocks on the tap, queues frames in rx_pending and kicks  *)
(* the vcpu when the queue goes non-empty.  The vcpu thread moves frames   *)
(* into RX buffers when it polls the devices after a kick, or when the     *)
(* guest notifies the RX queue.  Steps of VmControl and VirtioMmio are     *)
(* taken together where the code does both: a register access is a vcpu    *)
(* exit, and poll() runs between take_devices_pending() and KVM_RUN.       *)
(***************************************************************************)
EXTENDS Integers, Sequences

CONSTANTS
    Num, IdxMod, MaxProbes,     \* see VirtioMmio
    RX_PENDING_MAX,             \* frames queued at most, 256 in the code
    UsedQueues,                 \* the queues the driver puts chains in
    MaxFrames                   \* bound on the frames that arrive at the tap

ASSUME NetAssumption ==
    /\ Num \in Nat \ {0}
    /\ IdxMod \in Nat
    /\ Num < IdxMod
    /\ IdxMod % Num = 0
    /\ MaxProbes \in Nat
    /\ RX_PENDING_MAX \in Nat \ {0}
    /\ MaxFrames \in Nat
    /\ UsedQueues \subseteq {0, 1}

VARIABLES
    \* VmControl, with the one vcpu that main() creates
    should_stop, devices_pending, vcpu_threads, pc, run_ptr, immediate_exit,
    result, sigpending, kick_pc, stop_pc, main_pc, main_i, res,
    \* VirtioMmio
    status, curr_queue, queue, addr, irq_status, irq, work, chain, drv,
    \* VirtioNet
    rx_pending,     \* VirtioNet::rx_pending
    rx_pc,          \* where the RX thread is outside kick()
    buf,            \* the frame in each RX buffer, by head
    arrived,        \* frames that came from the tap; frame n is the n-th
    accepted,       \* history: the frames that were queued, in order
    received        \* history: the frames the driver collected, in order

Vcpu == 1
RxThread == "rx"

VC == INSTANCE VmControl WITH
    N <- 1, Kickers <- {RxThread}, Stoppers <- {}
MM == INSTANCE VirtioMmio

vmVars == <<should_stop, devices_pending, vcpu_threads, pc, run_ptr, immediate_exit,
            result, sigpending, kick_pc, stop_pc, main_pc, main_i, res>>
mmioVars == <<status, curr_queue, queue, addr, irq_status, irq, work, chain, drv>>
netVars == <<rx_pending, rx_pc, buf, arrived, accepted, received>>
vars == <<vmVars, mmioVars, netVars>>

RX == MM!RX
TX == MM!TX

Init ==
    /\ VC!Init
    /\ MM!Init
    /\ rx_pending = << >>
    /\ rx_pc = "read"
    /\ buf = [h \in MM!Heads |-> 0]
    /\ arrived = 0
    /\ accepted = << >>
    /\ received = << >>

-----------------------------------------------------------------------------
(* The RX thread.                                                          *)

\* Mutant: the kick depends on the length before the push.
RxFrameKickIfFull ==
    /\ rx_pc = "read" /\ kick_pc[RxThread] = "idle"
    /\ arrived < MaxFrames
    /\ arrived' = arrived + 1
    /\ Len(rx_pending) < RX_PENDING_MAX
    /\ rx_pending' = Append(rx_pending, arrived')
    /\ accepted' = Append(accepted, arrived')
    /\ rx_pc' = IF Len(rx_pending) = 1 THEN "kick" ELSE "read"
    /\ UNCHANGED <<vmVars, mmioVars, buf, received>>

\* A frame is read from the tap and queued; was_empty decides on the kick.
RxFrame ==
    /\ rx_pc = "read" /\ kick_pc[RxThread] = "idle"
    /\ arrived < MaxFrames
    /\ arrived' = arrived + 1
    /\ Len(rx_pending) < RX_PENDING_MAX
    /\ rx_pending' = Append(rx_pending, arrived')
    /\ accepted' = Append(accepted, arrived')
    /\ rx_pc' = IF Len(rx_pending') = 1 THEN "kick" ELSE "read"
    /\ UNCHANGED <<vmVars, mmioVars, buf, received>>

\* The queue is full: the frame is dropped.
RxDrop ==
    /\ rx_pc = "read" /\ kick_pc[RxThread] = "idle"
    /\ arrived < MaxFrames
    /\ Len(rx_pending) >= RX_PENDING_MAX
    /\ arrived' = arrived + 1
    /\ UNCHANGED <<vmVars, mmioVars, rx_pending, rx_pc, buf, accepted, received>>

RxKick ==
    /\ rx_pc = "kick"
    /\ rx_pc' = "read"
    /\ VC!Kick(RxThread)
    /\ UNCHANGED <<mmioVars, rx_pending, buf, arrived, accepted, received>>

RxKickSend == VC!KickSend(RxThread) /\ UNCHANGED <<mmioVars, netVars>>

-----------------------------------------------------------------------------
(* The device in the vcpu thread.                                          *)

can_process(i) == i # RX \/ rx_pending # << >>

InDevice == pc[Vcpu] \in {"poll", "handle"}

ServeDone(i) ==
    /\ InDevice
    /\ MM!NotifyDone(i, can_process(i))
    /\ UNCHANGED <<vmVars, netVars>>

ServePop(i) ==
    /\ InDevice
    /\ MM!NotifyPop(i, can_process(i))
    /\ UNCHANGED <<vmVars, netVars>>

\* Mutant: the frame is looked at and stays in the queue.
RxProcessPeek ==
    /\ buf' = [buf EXCEPT ![chain] = Head(rx_pending)]
    /\ UNCHANGED rx_pending

\* process() on RX: the frame at the front goes into the chain's buffers.
RxProcess ==
    /\ buf' = [buf EXCEPT ![chain] = Head(rx_pending)]
    /\ rx_pending' = Tail(rx_pending)

\* process() and push_used().  A TX frame goes to the tap.
ServePush(i) ==
    /\ InDevice
    /\ MM!NotifyPush(i)
    /\ IF i = RX THEN RxProcess ELSE UNCHANGED <<rx_pending, buf>>
    /\ UNCHANGED <<vmVars, rx_pc, arrived, accepted, received>>

\* Mutant: a kick serves the RX queue only.
TakePendingRxOnly ==
    /\ VC!TakeDevicesPending(Vcpu)
    /\ IF devices_pending THEN MM!WriteQueueNotify(RX) /\ UNCHANGED drv
                          ELSE UNCHANGED mmioVars
    /\ UNCHANGED netVars

\* poll_mmio_devices() starts when take_devices_pending() said so.
TakePending ==
    /\ VC!TakeDevicesPending(Vcpu)
    /\ IF devices_pending THEN MM!StartPoll ELSE UNCHANGED mmioVars
    /\ UNCHANGED netVars

\* poll() or handle() returns once every queue was served.
LeaveDevice ==
    /\ work = << >>
    /\ VC!PollMmioDevices(Vcpu) \/ VC!HandleExit(Vcpu)
    /\ UNCHANGED <<mmioVars, netVars>>

\* A device fails: the loop of queue_notify() is left where it is.
FailDevice == VC!DeviceError(Vcpu) /\ UNCHANGED <<mmioVars, netVars>>

\* The rest of the vcpu thread does not touch the device.
VcpuOnly ==
    /\ \/ VC!SetRunPtr(Vcpu) \/ VC!RegisterVcpuThread(Vcpu) \/ VC!CheckStop(Vcpu)
       \/ VC!EnterKvmRun(Vcpu) \/ VC!ClearImmediateExit(Vcpu)
       \/ VC!UnregisterVcpuThread(Vcpu) \/ VC!ClearRunPtr(Vcpu)
       \/ VC!LeaverStop(Vcpu) \/ VC!LeaverStopSend(Vcpu)
       \/ VC!DropVcpu(Vcpu) \/ VC!EndThread(Vcpu)
    /\ UNCHANGED <<mmioVars, netVars>>

Interrupted == VC!Interrupt(Vcpu) /\ UNCHANGED <<mmioVars, netVars>>

Main == VC!MainStep /\ UNCHANGED <<mmioVars, netVars>>

-----------------------------------------------------------------------------
(* The guest, while the vcpu is in it: memory accesses and register        *)
(* accesses of the driver, and the end of the guest.                       *)

InGuest == pc[Vcpu] = "guest"

GuestRegister ==
    /\ VC!ExitToDevice(Vcpu)
    /\ \/ MM!DriverReset \/ MM!DriverSel \/ MM!DriverUnready \/ MM!DriverNum
       \/ MM!DriverAddrLow \/ MM!DriverAddrHigh \/ MM!DriverReady \/ MM!DriverOk
       \/ MM!IsrStatus \/ MM!IsrAck
    /\ UNCHANGED netVars

GuestNotify(i) ==
    /\ VC!ExitToDevice(Vcpu)
    /\ MM!DriverNotify(i)
    /\ UNCHANGED netVars

GuestMemory ==
    /\ InGuest
    /\ \/ MM!DriverAlloc
       \/ \E i \in UsedQueues : MM!DriverOffer(i)
       \/ MM!IsrEnter \/ MM!IsrCollect(TX) \/ MM!IsrLeave
    /\ UNCHANGED <<vmVars, netVars>>

\* The driver collects an RX chain and hands its frame up.
GuestReceive ==
    /\ InGuest
    /\ MM!IsrCollect(RX)
    /\ received' = Append(received, buf[MM!UsedHead(queue[RX])])
    /\ UNCHANGED <<vmVars, rx_pending, rx_pc, buf, arrived, accepted>>

GuestEnds == VC!ExitAndLeave(Vcpu) /\ UNCHANGED <<mmioVars, netVars>>

-----------------------------------------------------------------------------
VcpuThread ==
    \/ TakePending \/ LeaveDevice \/ FailDevice \/ VcpuOnly
    \/ \E i \in MM!Queues : ServeDone(i) \/ ServePop(i) \/ ServePush(i)

Guest ==
    \/ GuestRegister \/ GuestMemory \/ GuestReceive \/ GuestEnds
    \/ \E i \in MM!Queues : GuestNotify(i)

Next ==
    \/ /\ VC!Running
       /\ \/ RxFrame \/ RxDrop \/ RxKick \/ RxKickSend
          \/ VcpuThread \/ Interrupted \/ Main \/ Guest
    \/ VC!Running = FALSE /\ UNCHANGED vars

Spec == Init /\ [][Next]_vars

\* Host threads and signals are fair.  Of the guest only this: a driver that
\* has published an RX buffer gets to notify, however often the vcpu exits
\* in between.
Fairness ==
    /\ WF_vars(VC!Running /\ VcpuThread)
    /\ WF_vars(VC!Running /\ Interrupted)
    /\ WF_vars(VC!Running /\ (RxKick \/ RxKickSend))
    /\ WF_vars(VC!Running /\ Main)
    /\ SF_vars(VC!Running /\ GuestNotify(RX))

FairSpec == Spec /\ Fairness

-----------------------------------------------------------------------------
(* Properties.                                                             *)

TypeOK ==
    /\ VC!TypeOK
    /\ MM!TypeOK
    /\ rx_pending \in Seq(1..MaxFrames)
    /\ rx_pc \in {"read", "kick"}
    /\ buf \in [MM!Heads -> 0..MaxFrames]
    /\ arrived \in 0..MaxFrames
    /\ accepted \in Seq(1..MaxFrames)
    /\ received \in Seq(1..MaxFrames)

\* Frames in buffers the device has returned and the driver not yet collected.
InUsedRing ==
    LET used == MM!Between(queue[RX].used_ring, queue[RX].last_used, queue[RX].used_idx)
    IN  [k \in DOMAIN used |-> buf[used[k]]]

\* No accepted frame is lost, duplicated or overtaken: what the driver has
\* received, what lies in returned buffers and what is still pending are
\* together the accepted frames in the order they came.  Those pending are
\* never more than RX_PENDING_MAX, however slow the vcpu is.
FramesConserved ==
    /\ received \o InUsedRing \o rx_pending = accepted
    /\ Len(rx_pending) <= RX_PENDING_MAX

\* The VM has begun to end: nothing is delivered any more.
Ending == should_stop \/ pc[Vcpu] \in VC!LeftPcs \cup {"unregister"}

RxReady == queue[RX].ready = 1 /\ MM!HasAvail(queue[RX])

\* "While frames are still pending, the guest refilling its RX buffers
\* triggers the next delivery": a frame and a buffer for it never both wait
\* unless the RX thread is about to kick, a kick is pending, the device is
\* serving the queue, or the driver is about to notify (start_rx_thread).
NoStuckFrame ==
    rx_pending # << >> /\ RxReady =>
        \/ Ending
        \/ rx_pc = "kick"
        \/ devices_pending
        \/ work # << >> /\ Head(work) = RX
        \/ RX \in drv.notify

\* A pending frame for which the driver has posted a buffer is delivered,
\* unless the VM ends.
FrameDelivered ==
    (rx_pending # << >> /\ RxReady) ~> (rx_pending = << >> \/ ~RxReady \/ Ending)

\* The composition takes only steps that the transport allows.
ImplementsVirtioMmio == MM!Spec
=============================================================================
