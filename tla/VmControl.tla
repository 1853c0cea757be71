----------------------------- MODULE VmControl -----------------------------
(***************************************************************************)
(* Vcpu threads, device threads and the main thread of Hearth, and what    *)
(* they share: struct VmControl, the per-thread KVM_RUN_PTR and the        *)
(* immediate_exit byte of every vcpu's kvm_run (src/src/main.rs).          *)
(*                                                                         *)
(* A device thread that has work for the guest calls kick(): it stores     *)
(* devices_pending and signals the first registered vcpu thread.  stop()   *)
(* stores should_stop and signals every registered one.  The signal has to *)
(* reach a vcpu wherever it is: in the guest it makes KVM_RUN return       *)
(* EINTR; anywhere else its handler sets immediate_exit, so that the next  *)
(* KVM_RUN returns at once.                                                *)
(*                                                                         *)
(* A step is what one thread does between two points where another thread  *)
(* can see or change the shared state: one atomic load, store or swap, or  *)
(* one section under the vcpu_threads mutex.                               *)
(***************************************************************************)
EXTENDS Integers, Sequences

CONSTANTS
    N,          \* vcpus 1..N, in the order VM::run spawns and joins them
    Kickers,    \* device threads that call VmControl::kick (the tap RX thread)
    Stoppers    \* frontend threads that call VmControl::stop (the tty thread)

ASSUME NAssumption == N \in Nat \ {0}

VARIABLES
    should_stop,        \* VmControl::should_stop
    devices_pending,    \* VmControl::devices_pending
    vcpu_threads,       \* VmControl::vcpu_threads, the Vec under the mutex
    pc,                 \* where each vcpu thread is
    run_ptr,            \* whether the thread's KVM_RUN_PTR is non-null
    immediate_exit,     \* immediate_exit in the vcpu's kvm_run
    result,             \* how the vcpu thread's closure ends
    sigpending,         \* vcpu threads with a kick signal not yet delivered
    kick_pc,            \* where each device thread is
    stop_pc,            \* where each frontend thread is
    main_pc,            \* where the main thread is in VM::run
    main_i,             \* the vcpu it spawns or joins next
    res                 \* what VM::run will return

vcpuVars == <<pc, run_ptr, immediate_exit, result>>
mainVars == <<main_pc, main_i, res>>
vars == <<should_stop, devices_pending, vcpu_threads, vcpuVars, sigpending,
          kick_pc, stop_pc, mainVars>>

-----------------------------------------------------------------------------
Vcpus == 1..N

\* The points of VCPU::run_loop between register and unregister.
LoopPcs == {"check_stop", "check_pending", "poll", "kvm_run", "guest",
            "eintr", "handle", "reset_send", "unregister"}

\* The points of the thread's closure, in program order, around the loop.
StartPcs == {"unspawned", "set_ptr", "register"}
LeftPcs  == {"clear_ptr", "stop", "stop_send", "drop", "exiting", "done"}

VcpuPcs == StartPcs \cup LoopPcs \cup LeftPcs

\* A thread exists, and can take a signal, from spawn until it ends.
Alive(v) == pc[v] \notin {"unspawned", "done"}

\* kvm_run is mapped until the VCPU is dropped.
Mapped(v) == pc[v] \notin {"exiting", "done"}

Registered(v) == \E i \in DOMAIN vcpu_threads : vcpu_threads[i] = v

\* Threads whose id is stale: VM::run has joined them.
Joined == {v \in Vcpus : main_pc = "join" /\ v < main_i}

Init ==
    /\ should_stop = FALSE
    /\ devices_pending = FALSE
    /\ vcpu_threads = << >>
    /\ pc = [v \in Vcpus |-> "unspawned"]
    /\ run_ptr = [v \in Vcpus |-> FALSE]
    /\ immediate_exit = [v \in Vcpus |-> FALSE]
    /\ result = [v \in Vcpus |-> "none"]
    /\ sigpending = {}
    /\ kick_pc = [k \in Kickers |-> "idle"]
    /\ stop_pc = [s \in Stoppers |-> "idle"]
    /\ main_pc = "spawn"
    /\ main_i = 1
    /\ res = "ok"

-----------------------------------------------------------------------------
(* The methods of VmControl, each in its two steps: store, then signal.    *)

StoreStop == should_stop' = TRUE

\* Mutant: stop() signals only the first registered thread.
SignalAllOnlyFirst ==
    sigpending' = sigpending \cup
        {v \in Vcpus : /\ vcpu_threads # << >>
                       /\ v = Head(vcpu_threads)
                       /\ Alive(v)}

\* pthread_kill on every registered thread, under the mutex.
SignalAll ==
    sigpending' = sigpending \cup {v \in Vcpus : Registered(v) /\ Alive(v)}

\* Mutant: kick() only stores the flag.
SignalNobody == UNCHANGED sigpending

\* pthread_kill on the first registered thread, if there is one.
SignalFirst ==
    sigpending' = sigpending \cup
        {v \in Vcpus : /\ vcpu_threads # << >>
                       /\ v = Head(vcpu_threads)
                       /\ Alive(v)}

\* Vec::retain(|t| t != v).  An id is pushed once, so it drops one entry.
Without(s, v) ==
    IF \E i \in DOMAIN s : s[i] = v
    THEN LET k == CHOOSE i \in DOMAIN s : s[i] = v
         IN  [j \in 1..(Len(s) - 1) |-> IF j < k THEN s[j] ELSE s[j + 1]]
    ELSE s

-----------------------------------------------------------------------------
(* A vcpu thread: the closure of VM::run, VCPU::run and run_loop.          *)

Goto(v, from, to) ==
    /\ pc[v] = from
    /\ pc' = [pc EXCEPT ![v] = to]

SetRunPtr(v) ==
    /\ Goto(v, "set_ptr", "register")
    /\ run_ptr' = [run_ptr EXCEPT ![v] = TRUE]
    /\ UNCHANGED <<should_stop, devices_pending, vcpu_threads, immediate_exit,
                   result, sigpending, kick_pc, stop_pc, mainVars>>

RegisterVcpuThread(v) ==
    /\ Goto(v, "register", "check_stop")
    /\ vcpu_threads' = Append(vcpu_threads, v)
    /\ UNCHANGED <<should_stop, devices_pending, run_ptr, immediate_exit,
                   result, sigpending, kick_pc, stop_pc, mainVars>>

\* should_stop() at the top of the loop; a stopped loop returns Ok.
CheckStop(v) ==
    /\ pc[v] = "check_stop"
    /\ pc' = [pc EXCEPT ![v] = IF should_stop THEN "unregister"
                                              ELSE "check_pending"]
    /\ result' = [result EXCEPT ![v] = IF should_stop THEN "ok" ELSE @]
    /\ UNCHANGED <<should_stop, devices_pending, vcpu_threads, run_ptr,
                   immediate_exit, sigpending, kick_pc, stop_pc, mainVars>>

\* take_devices_pending() swaps the flag and decides whether to poll.
TakeDevicesPending(v) ==
    /\ pc[v] = "check_pending"
    /\ pc' = [pc EXCEPT ![v] = IF devices_pending THEN "poll" ELSE "kvm_run"]
    /\ devices_pending' = FALSE
    /\ UNCHANGED <<should_stop, vcpu_threads, run_ptr, immediate_exit, result,
                   sigpending, kick_pc, stop_pc, mainVars>>

\* poll_mmio_devices() returns Ok.
PollMmioDevices(v) ==
    /\ Goto(v, "poll", "kvm_run")
    /\ UNCHANGED <<should_stop, devices_pending, vcpu_threads, run_ptr,
                   immediate_exit, result, sigpending, kick_pc, stop_pc,
                   mainVars>>

\* The KVM_RUN ioctl: EINTR at entry if immediate_exit is set.
EnterKvmRun(v) ==
    /\ pc[v] = "kvm_run"
    /\ pc' = [pc EXCEPT ![v] = IF immediate_exit[v] THEN "eintr" ELSE "guest"]
    /\ UNCHANGED <<should_stop, devices_pending, vcpu_threads, run_ptr,
                   immediate_exit, result, sigpending, kick_pc, stop_pc,
                   mainVars>>

\* Mutant: the handler relies on the signal alone and sets nothing.
KickHandlerEmpty(v) ==
    /\ v \in sigpending
    /\ sigpending' = sigpending \ {v}
    /\ UNCHANGED immediate_exit

\* kick_handler() on thread v: on return to user mode, at any point of the
\* thread's code.
KickHandler(v) ==
    /\ v \in sigpending
    /\ sigpending' = sigpending \ {v}
    /\ immediate_exit' =
           [immediate_exit EXCEPT ![v] = @ \/ run_ptr[v]]

\* A signal in the guest ends KVM_RUN with EINTR; the handler runs first.
InterruptGuest(v) ==
    /\ Goto(v, "guest", "eintr")
    /\ KickHandler(v)
    /\ UNCHANGED <<should_stop, devices_pending, vcpu_threads, run_ptr, result,
                   kick_pc, stop_pc, mainVars>>

\* A signal while the thread runs its own code.
InterruptHost(v) ==
    /\ Alive(v)
    /\ pc[v] # "guest"
    /\ KickHandler(v)
    /\ UNCHANGED <<should_stop, devices_pending, vcpu_threads, pc, run_ptr,
                   result, kick_pc, stop_pc, mainVars>>

\* Mutant: the EINTR branch retries KVM_RUN instead of `continue`.
RetryKvmRun(v) ==
    /\ Goto(v, "eintr", "kvm_run")
    /\ immediate_exit' = [immediate_exit EXCEPT ![v] = FALSE]
    /\ UNCHANGED <<should_stop, devices_pending, vcpu_threads, run_ptr, result,
                   sigpending, kick_pc, stop_pc, mainVars>>

\* The EINTR branch: immediate_exit = 0; continue.
ClearImmediateExit(v) ==
    /\ Goto(v, "eintr", "check_stop")
    /\ immediate_exit' = [immediate_exit EXCEPT ![v] = FALSE]
    /\ UNCHANGED <<should_stop, devices_pending, vcpu_threads, run_ptr, result,
                   sigpending, kick_pc, stop_pc, mainVars>>

\* KVM_EXIT_IO or KVM_EXIT_MMIO.
ExitToDevice(v) ==
    /\ Goto(v, "guest", "handle")
    /\ UNCHANGED <<should_stop, devices_pending, vcpu_threads, run_ptr,
                   immediate_exit, result, sigpending, kick_pc, stop_pc,
                   mainVars>>

\* handle_io() or handle_mmio() returns Ok.
HandleExit(v) ==
    /\ Goto(v, "handle", "check_stop")
    /\ UNCHANGED <<should_stop, devices_pending, vcpu_threads, run_ptr,
                   immediate_exit, result, sigpending, kick_pc, stop_pc,
                   mainVars>>

\* The device is the i8042 and the guest resets: stop() in the handler.
HandleReset(v) ==
    /\ Goto(v, "handle", "reset_send")
    /\ StoreStop
    /\ UNCHANGED <<devices_pending, vcpu_threads, run_ptr, immediate_exit,
                   result, sigpending, kick_pc, stop_pc, mainVars>>

HandleResetSend(v) ==
    /\ Goto(v, "reset_send", "check_stop")
    /\ SignalAll
    /\ UNCHANGED <<should_stop, devices_pending, vcpu_threads, run_ptr,
                   immediate_exit, result, kick_pc, stop_pc, mainVars>>

\* A device returns Err from poll or handle and `?` leaves the loop.
DeviceError(v) ==
    /\ pc[v] \in {"poll", "handle"}
    /\ pc' = [pc EXCEPT ![v] = "unregister"]
    /\ result' = [result EXCEPT ![v] = "err"]
    /\ UNCHANGED <<should_stop, devices_pending, vcpu_threads, run_ptr,
                   immediate_exit, sigpending, kick_pc, stop_pc, mainVars>>

\* The exits that end the loop: shutdown, hlt, fail entry and unknown ones
\* with Ok, an internal error and a failed KVM_RUN with Err.
ExitAndLeave(v) ==
    /\ Goto(v, "guest", "unregister")
    /\ \E r \in {"ok", "err"} : result' = [result EXCEPT ![v] = r]
    /\ UNCHANGED <<should_stop, devices_pending, vcpu_threads, run_ptr,
                   immediate_exit, sigpending, kick_pc, stop_pc, mainVars>>

\* A device panics (the unwraps of virtio/queue.rs, say): the unwinding
\* thread skips unregister, the null store and stop(), and drops the VCPU.
Panic(v) ==
    /\ pc[v] \in {"poll", "handle"}
    /\ pc' = [pc EXCEPT ![v] = "drop"]
    /\ result' = [result EXCEPT ![v] = "panic"]
    /\ UNCHANGED <<should_stop, devices_pending, vcpu_threads, run_ptr,
                   immediate_exit, sigpending, kick_pc, stop_pc, mainVars>>

\* Mutant: the thread stays in vcpu_threads.
ForgetToUnregister(v) ==
    /\ Goto(v, "unregister", "clear_ptr")
    /\ UNCHANGED <<should_stop, devices_pending, vcpu_threads, run_ptr,
                   immediate_exit, result, sigpending, kick_pc, stop_pc,
                   mainVars>>

UnregisterVcpuThread(v) ==
    /\ Goto(v, "unregister", "clear_ptr")
    /\ vcpu_threads' = Without(vcpu_threads, v)
    /\ UNCHANGED <<should_stop, devices_pending, run_ptr, immediate_exit,
                   result, sigpending, kick_pc, stop_pc, mainVars>>

\* Mutant: KVM_RUN_PTR is left set.
KeepRunPtr(v) ==
    /\ Goto(v, "clear_ptr", "stop")
    /\ UNCHANGED <<should_stop, devices_pending, vcpu_threads, run_ptr,
                   immediate_exit, result, sigpending, kick_pc, stop_pc,
                   mainVars>>

ClearRunPtr(v) ==
    /\ Goto(v, "clear_ptr", "stop")
    /\ run_ptr' = [run_ptr EXCEPT ![v] = FALSE]
    /\ UNCHANGED <<should_stop, devices_pending, vcpu_threads, immediate_exit,
                   result, sigpending, kick_pc, stop_pc, mainVars>>

\* The closure's vm_thread.control.stop().
LeaverStop(v) ==
    /\ Goto(v, "stop", "stop_send")
    /\ StoreStop
    /\ UNCHANGED <<devices_pending, vcpu_threads, run_ptr, immediate_exit,
                   result, sigpending, kick_pc, stop_pc, mainVars>>

LeaverStopSend(v) ==
    /\ Goto(v, "stop_send", "drop")
    /\ SignalAll
    /\ UNCHANGED <<should_stop, devices_pending, vcpu_threads, run_ptr,
                   immediate_exit, result, kick_pc, stop_pc, mainVars>>

\* The closure ends and drops the VCPU: munmap of kvm_run.
DropVcpu(v) ==
    /\ Goto(v, "drop", "exiting")
    /\ UNCHANGED <<should_stop, devices_pending, vcpu_threads, run_ptr,
                   immediate_exit, result, sigpending, kick_pc, stop_pc,
                   mainVars>>

\* The thread ends; a signal still pending for it is gone.
EndThread(v) ==
    /\ Goto(v, "exiting", "done")
    /\ sigpending' = sigpending \ {v}
    /\ UNCHANGED <<should_stop, devices_pending, vcpu_threads, run_ptr,
                   immediate_exit, result, kick_pc, stop_pc, mainVars>>

-----------------------------------------------------------------------------
(* Device and frontend threads.                                            *)

Kick(k) ==
    /\ kick_pc[k] = "idle"
    /\ devices_pending' = TRUE
    /\ kick_pc' = [kick_pc EXCEPT ![k] = "send"]
    /\ UNCHANGED <<should_stop, vcpu_threads, vcpuVars, sigpending, stop_pc,
                   mainVars>>

KickSend(k) ==
    /\ kick_pc[k] = "send"
    /\ SignalFirst
    /\ kick_pc' = [kick_pc EXCEPT ![k] = "idle"]
    /\ UNCHANGED <<should_stop, devices_pending, vcpu_threads, vcpuVars,
                   stop_pc, mainVars>>

\* The tty thread at Ctrl-A x or at the end of stdin; it then ends.
Stop(s) ==
    /\ stop_pc[s] = "idle"
    /\ StoreStop
    /\ stop_pc' = [stop_pc EXCEPT ![s] = "send"]
    /\ UNCHANGED <<devices_pending, vcpu_threads, vcpuVars, sigpending,
                   kick_pc, mainVars>>

StopSend(s) ==
    /\ stop_pc[s] = "send"
    /\ SignalAll
    /\ stop_pc' = [stop_pc EXCEPT ![s] = "ended"]
    /\ UNCHANGED <<should_stop, devices_pending, vcpu_threads, vcpuVars,
                   kick_pc, mainVars>>

-----------------------------------------------------------------------------
(* The main thread: VM::run.                                               *)

SpawnVcpu ==
    /\ main_pc = "spawn"
    /\ main_i \in Vcpus
    /\ pc' = [pc EXCEPT ![main_i] = "set_ptr"]
    /\ main_i' = main_i + 1
    /\ UNCHANGED <<should_stop, devices_pending, vcpu_threads, run_ptr,
                   immediate_exit, result, sigpending, kick_pc, stop_pc,
                   main_pc, res>>

\* Builder::spawn fails: stop(), remember the error, spawn no more.
SpawnFails ==
    /\ main_pc = "spawn"
    /\ main_i \in Vcpus
    /\ StoreStop
    /\ main_pc' = "stop_send"
    /\ res' = "err"
    /\ UNCHANGED <<devices_pending, vcpu_threads, vcpuVars, sigpending,
                   kick_pc, stop_pc, main_i>>

SpawnFailsSend ==
    /\ main_pc = "stop_send"
    /\ SignalAll
    /\ main_pc' = "join"
    /\ main_i' = 1
    /\ UNCHANGED <<should_stop, devices_pending, vcpu_threads, vcpuVars,
                   kick_pc, stop_pc, res>>

AllSpawned ==
    /\ main_pc = "spawn"
    /\ main_i = N + 1
    /\ main_pc' = "join"
    /\ main_i' = 1
    /\ UNCHANGED <<should_stop, devices_pending, vcpu_threads, vcpuVars,
                   sigpending, kick_pc, stop_pc, res>>

\* What thread.join() makes of it: a panic becomes an error.
JoinResult(v) == IF result[v] = "panic" THEN "err" ELSE result[v]

\* Mutant: the result is taken before the thread has ended.
JoinTooEarly ==
    /\ main_pc = "join"
    /\ main_i \in Vcpus
    /\ pc[main_i] # "unspawned"
    /\ res' = IF res = "ok" THEN JoinResult(main_i) ELSE res
    /\ main_i' = main_i + 1
    /\ UNCHANGED <<should_stop, devices_pending, vcpu_threads, vcpuVars,
                   sigpending, kick_pc, stop_pc, main_pc>>

\* Mutant: the last thread's result overwrites an earlier error.
JoinKeepsLast ==
    /\ main_pc = "join"
    /\ main_i \in Vcpus
    /\ pc[main_i] = "done"
    /\ res' = JoinResult(main_i)
    /\ main_i' = main_i + 1
    /\ UNCHANGED <<should_stop, devices_pending, vcpu_threads, vcpuVars,
                   sigpending, kick_pc, stop_pc, main_pc>>

\* thread.join(); the first error in join order is kept.
JoinVcpu ==
    /\ main_pc = "join"
    /\ main_i \in Vcpus
    /\ pc[main_i] = "done"
    /\ res' = IF res = "ok" THEN JoinResult(main_i) ELSE res
    /\ main_i' = main_i + 1
    /\ UNCHANGED <<should_stop, devices_pending, vcpu_threads, vcpuVars,
                   sigpending, kick_pc, stop_pc, main_pc>>

\* VM::run returns and main ends the process, and with it every thread.
Return ==
    /\ main_pc = "join"
    /\ main_i \in Vcpus => pc[main_i] = "unspawned"
    /\ main_pc' = "exited"
    /\ UNCHANGED <<should_stop, devices_pending, vcpu_threads, vcpuVars,
                   sigpending, kick_pc, stop_pc, main_i, res>>

-----------------------------------------------------------------------------
\* What a vcpu thread does by itself.  ExitToDevice and ExitAndLeave are the
\* guest's choice.
VcpuStep(v) ==
    \/ SetRunPtr(v) \/ RegisterVcpuThread(v) \/ CheckStop(v)
    \/ TakeDevicesPending(v) \/ PollMmioDevices(v) \/ EnterKvmRun(v)
    \/ ClearImmediateExit(v)
    \/ HandleExit(v) \/ HandleReset(v) \/ HandleResetSend(v)
    \/ DeviceError(v) \/ Panic(v)
    \/ UnregisterVcpuThread(v) \/ ClearRunPtr(v)
    \/ LeaverStop(v) \/ LeaverStopSend(v) \/ DropVcpu(v) \/ EndThread(v)

Interrupt(v) == InterruptGuest(v) \/ InterruptHost(v)

GuestStep(v) == ExitToDevice(v) \/ ExitAndLeave(v)

MainStep ==
    SpawnVcpu \/ SpawnFails \/ SpawnFailsSend \/ AllSpawned \/ JoinVcpu \/ Return

Running == main_pc # "exited"

Terminated == main_pc = "exited" /\ UNCHANGED vars

Next ==
    \/ /\ Running
       /\ \/ \E v \in Vcpus : VcpuStep(v) \/ Interrupt(v) \/ GuestStep(v)
          \/ \E k \in Kickers : Kick(k) \/ KickSend(k)
          \/ \E s \in Stoppers : Stop(s) \/ StopSend(s)
          \/ MainStep
    \/ Terminated

Spec == Init /\ [][Next]_vars

\* The host scheduler runs every thread that can run and delivers signals.
\* Nothing makes the guest exit, a device kick or a user quit.
Fairness ==
    /\ \A v \in Vcpus : /\ WF_vars(Running /\ VcpuStep(v))
                        /\ WF_vars(Running /\ Interrupt(v))
    /\ \A k \in Kickers : WF_vars(Running /\ KickSend(k))
    /\ \A s \in Stoppers : WF_vars(Running /\ StopSend(s))
    /\ WF_vars(Running /\ MainStep)

FairSpec == Spec /\ Fairness

-----------------------------------------------------------------------------
(* Properties.                                                             *)

TypeOK ==
    /\ should_stop \in BOOLEAN
    /\ devices_pending \in BOOLEAN
    /\ vcpu_threads \in Seq(Vcpus)
    /\ pc \in [Vcpus -> VcpuPcs]
    /\ run_ptr \in [Vcpus -> BOOLEAN]
    /\ immediate_exit \in [Vcpus -> BOOLEAN]
    /\ result \in [Vcpus -> {"none", "ok", "err", "panic"}]
    /\ sigpending \in SUBSET Vcpus
    /\ kick_pc \in [Kickers -> {"idle", "send"}]
    /\ stop_pc \in [Stoppers -> {"idle", "send", "ended"}]
    /\ main_pc \in {"spawn", "stop_send", "join", "exited"}
    /\ main_i \in 1..(N + 1)
    /\ res \in {"ok", "err"}

\* Some thread has stored should_stop and has yet to signal the vcpus.
StopInFlight ==
    \/ \E v \in Vcpus : pc[v] \in {"reset_send", "stop_send"}
    \/ \E s \in Stoppers : stop_pc[s] = "send"
    \/ main_pc = "stop_send"

\* Vcpu v is past the check of a flag and still bound to come back to it:
\* its next KVM_RUN, or the one it is in, returns EINTR.
WillBeInterrupted(v) ==
    \/ v \in sigpending
    \/ immediate_exit[v] /\ pc[v] # "guest"

\* The points between the should_stop check and the end of KVM_RUN.
PastStopCheck == {"check_pending", "poll", "kvm_run", "guest"}

\* The points between the devices_pending check and the end of KVM_RUN.
PastPendingCheck == {"poll", "kvm_run", "guest"}

\* Some vcpu thread has panicked.
Panicked == \E v \in Vcpus : result[v] = "panic"

\* A stop is never lost: once stop() has stored the flag and signalled, no
\* vcpu thread is on its way into the guest, or in it, without an interrupt
\* coming (VmControl::stop, register_vcpu_thread, run_loop, kick_handler).
NoLostStop ==
    should_stop /\ ~StopInFlight =>
        \A v \in Vcpus : pc[v] \in PastStopCheck => WillBeInterrupted(v)

\* A kick is never lost: while devices_pending is set and the VM is not
\* stopping, the kicker has yet to signal or some vcpu thread comes back to
\* take_devices_pending() without any help from the guest (VmControl::kick).
\* A thread that panicked stays registered and may be the one kick() picks.
NoLostKick ==
    devices_pending /\ ~should_stop /\ ~Panicked =>
        \/ \E k \in Kickers : kick_pc[k] = "send"
        \/ \E v \in Vcpus : pc[v] \in PastPendingCheck => WillBeInterrupted(v)

\* A thread that ends in any way but a panic is not in vcpu_threads once it
\* is joined, so kick() and stop() do not signal its stale id
\* (unregister_vcpu_thread).
NoStaleThreadId ==
    \A v \in Vcpus : Registered(v) /\ result[v] # "panic" => v \notin Joined

\* "Kicks only reach registered threads, and a thread is unregistered under
\* the same lock, so pthread_kill never sees a stale thread id": the comment
\* above register_vcpu_thread, which leaves panics out of account.
NeverStaleThreadId == \A v \in Vcpus : Registered(v) => v \notin Joined

\* kick_handler never writes through a dangling pointer: while a signal can
\* arrive, a non-null KVM_RUN_PTR of a thread that did not panic points to a
\* mapped kvm_run (VCPU::run clears it before the closure drops the VCPU).
NoDanglingRunPtr ==
    \A v \in Vcpus : Alive(v) /\ run_ptr[v] /\ result[v] # "panic" => Mapped(v)

\* VM::run returns an error exactly if a vcpu ended with one, panicked or
\* could not be spawned, in whatever order the vcpus ended.
ErrorsReported ==
    main_pc = "exited" =>
        (res = "err" <=> \E v \in Vcpus : \/ result[v] \in {"err", "panic"}
                                          \/ pc[v] = "unspawned")

\* A stopped VM comes to its end, panics or not, whoever called stop() (a
\* frontend, the i8042's reset, the first vcpu to leave or a failed spawn):
\* every vcpu leaves its loop and VM::run returns (VmControl::stop, "Makes
\* every vcpu thread leave its run loop").
StopTerminates == should_stop ~> main_pc = "exited"

\* A kick is served without help from the guest, unless the VM ends first
\* or a vcpu thread panics (VmControl::kick, "makes a vcpu thread poll the
\* MMIO devices").
KickServed == devices_pending ~> (~devices_pending \/ Panicked \/ main_pc = "exited")
=============================================================================
