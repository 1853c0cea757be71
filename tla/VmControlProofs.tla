-------------------------- MODULE VmControlProofs --------------------------
(* Invariance proofs for VmControl, for every number of vcpus and threads. *)
EXTENDS VmControl, TLAPS

USE NAssumption

-----------------------------------------------------------------------------
(* vcpu_threads: what Vec::push and Vec::retain do to it.                  *)

Distinct(s) == \A i, j \in DOMAIN s : s[i] = s[j] => i = j

Holds(s, v) == \E i \in DOMAIN s : s[i] = v

\* Pushing an id that is not there adds exactly this id and keeps the ids
\* distinct (register_vcpu_thread).
LEMMA AppendFacts ==
    ASSUME NEW S, NEW s \in Seq(S), NEW v \in S, Distinct(s), ~Holds(s, v)
    PROVE  /\ Append(s, v) \in Seq(S)
           /\ Distinct(Append(s, v))
           /\ \A w : Holds(Append(s, v), w) <=> Holds(s, w) \/ w = v
  <1> DEFINE t == Append(s, v)
  <1>1. t \in Seq(S) /\ Len(t) = Len(s) + 1
    OBVIOUS
  <1>2. \A i \in 1..Len(s) : t[i] = s[i]
    OBVIOUS
  <1>3. t[Len(s) + 1] = v
    OBVIOUS
  <1>4. DOMAIN t = 1..(Len(s) + 1) /\ DOMAIN s = 1..Len(s) /\ Len(s) \in Nat
    BY <1>1
  <1> HIDE DEF t
  <1>5. Distinct(t)
    BY <1>2, <1>3, <1>4 DEF Distinct, Holds
  <1>6. \A w : Holds(t, w) <=> Holds(s, w) \/ w = v
    <2> SUFFICES ASSUME NEW w PROVE Holds(t, w) <=> Holds(s, w) \/ w = v
      OBVIOUS
    <2>1. Holds(t, w) => Holds(s, w) \/ w = v
      BY <1>2, <1>3, <1>4 DEF Holds
    <2>2. Holds(s, w) => Holds(t, w)
      BY <1>2, <1>3, <1>4 DEF Holds
    <2>3. Holds(t, v)
      BY <1>3, <1>4 DEF Holds
    <2> QED  BY <2>1, <2>2, <2>3
  <1> QED  BY <1>1, <1>5, <1>6 DEF t

\* Retaining the ids other than v drops exactly v and keeps the ids
\* distinct (unregister_vcpu_thread).
LEMMA WithoutFacts ==
    ASSUME NEW S, NEW s \in Seq(S), NEW v \in S, Distinct(s)
    PROVE  /\ Without(s, v) \in Seq(S)
           /\ Distinct(Without(s, v))
           /\ \A w : Holds(Without(s, v), w) <=> Holds(s, w) /\ w # v
  <1> DEFINE t == Without(s, v)
  <1>0. DOMAIN s = 1..Len(s) /\ Len(s) \in Nat /\ \A i \in DOMAIN s : s[i] \in S
    OBVIOUS
  <1>1. CASE ~Holds(s, v)
    <2>1. t = s
      BY <1>1 DEF Without, Holds
    <2> QED  BY <1>1, <2>1 DEF Holds
  <1>2. CASE Holds(s, v)
    <2> DEFINE k == CHOOSE i \in DOMAIN s : s[i] = v
    <2>1. k \in 1..Len(s) /\ s[k] = v
      BY <1>0, <1>2 DEF Holds
    <2>2. t = [j \in 1..(Len(s) - 1) |-> IF j < k THEN s[j] ELSE s[j + 1]]
      BY <1>2 DEF Without, Holds
    <2> HIDE DEF k, t
    <2>3. \A j \in 1..(Len(s) - 1) : t[j] = IF j < k THEN s[j] ELSE s[j + 1]
      BY <2>2
    <2>4. Len(s) - 1 \in Nat
      BY <1>0, <2>1
    <2>5. t \in Seq(S)
      <3>1. \A j \in 1..(Len(s) - 1) : t[j] \in S
        BY <1>0, <2>1, <2>3
      <3>2. t \in [1..(Len(s) - 1) -> S]
        BY <2>2, <2>3, <3>1
      <3> QED  BY <2>4, <3>2
    <2>6. DOMAIN t = 1..(Len(s) - 1)
      BY <2>2
    <2>7. \A i \in DOMAIN s : s[i] = v => i = k
      BY <1>0, <2>1 DEF Distinct
    <2>8. Distinct(t)
      BY <1>0, <2>1, <2>3, <2>6 DEF Distinct
    <2>9. \A w : Holds(t, w) <=> Holds(s, w) /\ w # v
      <3> SUFFICES ASSUME NEW w PROVE Holds(t, w) <=> Holds(s, w) /\ w # v
        OBVIOUS
      <3>1. ASSUME Holds(t, w) PROVE Holds(s, w) /\ w # v
        <4>1. PICK j \in 1..(Len(s) - 1) : t[j] = w
          BY <2>6, <3>1 DEF Holds
        <4>2. CASE j < k
          BY <1>0, <2>1, <2>3, <2>7, <4>1, <4>2 DEF Holds
        <4>3. CASE ~(j < k)
          <5>1. j + 1 \in DOMAIN s /\ s[j + 1] = w /\ j + 1 # k
            BY <1>0, <2>1, <2>3, <4>1, <4>3
          <5> QED  BY <2>7, <5>1 DEF Holds
        <4> QED  BY <4>2, <4>3
      <3>2. ASSUME Holds(s, w), w # v PROVE Holds(t, w)
        <4>1. PICK i \in 1..Len(s) : s[i] = w
          BY <1>0, <3>2 DEF Holds
        <4>2. i # k
          BY <2>1, <3>2, <4>1
        <4>3. CASE i < k
          <5>1. i \in DOMAIN t /\ t[i] = w
            BY <1>0, <2>1, <2>3, <2>6, <4>1, <4>3
          <5> QED  BY <5>1 DEF Holds
        <4>4. CASE i > k
          <5>1. i - 1 \in DOMAIN t /\ ~(i - 1 < k) /\ (i - 1) + 1 = i
            BY <1>0, <2>1, <2>6, <4>1, <4>4
          <5>2. t[i - 1] = w
            BY <2>3, <2>6, <4>1, <5>1
          <5> QED  BY <5>1, <5>2 DEF Holds
        <4> QED  BY <1>0, <2>1, <4>2, <4>3, <4>4
      <3> QED  BY <3>1, <3>2
    <2> QED  BY <2>5, <2>8, <2>9 DEF t
  <1> QED  BY <1>1, <1>2

-----------------------------------------------------------------------------
(* The facts that hold with and without panics.                            *)

\* vcpu_threads holds every thread in its run loop, once, and none that has
\* yet to register.
RegInv ==
    /\ Distinct(vcpu_threads)
    /\ \A v \in Vcpus : pc[v] \in LoopPcs => Holds(vcpu_threads, v)
    /\ \A v \in Vcpus : pc[v] \in StartPcs => ~Holds(vcpu_threads, v)

\* KVM_RUN_PTR is set before a thread registers and until it unregistered; a
\* thread that has left its loop has a result; VM::run spawns each vcpu once.
ThreadInv ==
    /\ \A v \in Vcpus : pc[v] \in LoopPcs \cup {"register"} => run_ptr[v]
    /\ \A v \in Vcpus : pc[v] \in LeftPcs \cup {"unregister"} => result[v] # "none"
    /\ main_pc = "spawn" => \A v \in Vcpus : v >= main_i => pc[v] = "unspawned"

BaseInv == TypeOK /\ RegInv /\ ThreadInv

\* The base invariant holds initially.
LEMMA BaseInit == Init => BaseInv
  <1> SUFFICES ASSUME Init PROVE BaseInv
    OBVIOUS
  <1>1. TypeOK
    <2>1. vcpu_threads \in Seq(Vcpus)
      BY DEF Init
    <2>2. main_i \in 1..(N + 1)
      BY DEF Init
    <2> QED  BY <2>1, <2>2 DEF Init, TypeOK, VcpuPcs, StartPcs
  <1>2. RegInv
    BY DEF Init, RegInv, Distinct, Holds, LoopPcs
  <1>3. ThreadInv
    BY DEF Init, ThreadInv, LoopPcs, LeftPcs
  <1> QED  BY <1>1, <1>2, <1>3 DEF BaseInv

\* Every step keeps the types.
LEMMA TypeOKNext == BaseInv /\ [Next]_vars => TypeOK'
  <1> SUFFICES ASSUME BaseInv, [Next]_vars PROVE TypeOK'
    OBVIOUS
  <1> USE DEF Goto, vcpuVars, mainVars
  <1>1. ASSUME NEW v \in Vcpus, SetRunPtr(v) PROVE TypeOK'
    BY <1>1 DEF SetRunPtr, BaseInv, TypeOK, VcpuPcs, StartPcs, LoopPcs, LeftPcs, Vcpus
  <1>2. ASSUME NEW v \in Vcpus, RegisterVcpuThread(v) PROVE TypeOK'
    <2>1. vcpu_threads' \in Seq(Vcpus)
      BY <1>2, AppendFacts DEF RegisterVcpuThread, BaseInv, TypeOK, RegInv, StartPcs
    <2> QED  BY <1>2, <2>1 DEF RegisterVcpuThread, BaseInv, TypeOK, VcpuPcs, LoopPcs
  <1>3. ASSUME NEW v \in Vcpus, CheckStop(v) PROVE TypeOK'
    BY <1>3 DEF CheckStop, BaseInv, TypeOK, VcpuPcs, StartPcs, LoopPcs, LeftPcs, Vcpus
  <1>4. ASSUME NEW v \in Vcpus, TakeDevicesPending(v) PROVE TypeOK'
    BY <1>4 DEF TakeDevicesPending, BaseInv, TypeOK, VcpuPcs, StartPcs, LoopPcs, LeftPcs, Vcpus
  <1>5. ASSUME NEW v \in Vcpus, PollMmioDevices(v) PROVE TypeOK'
    BY <1>5 DEF PollMmioDevices, BaseInv, TypeOK, VcpuPcs, StartPcs, LoopPcs, LeftPcs, Vcpus
  <1>6. ASSUME NEW v \in Vcpus, EnterKvmRun(v) PROVE TypeOK'
    BY <1>6 DEF EnterKvmRun, BaseInv, TypeOK, VcpuPcs, StartPcs, LoopPcs, LeftPcs, Vcpus
  <1>7. ASSUME NEW v \in Vcpus, ClearImmediateExit(v) PROVE TypeOK'
    BY <1>7 DEF ClearImmediateExit, BaseInv, TypeOK, VcpuPcs, StartPcs, LoopPcs, LeftPcs, Vcpus
  <1>8. ASSUME NEW v \in Vcpus, HandleExit(v) PROVE TypeOK'
    BY <1>8 DEF HandleExit, BaseInv, TypeOK, VcpuPcs, StartPcs, LoopPcs, LeftPcs, Vcpus
  <1>9. ASSUME NEW v \in Vcpus, HandleReset(v) PROVE TypeOK'
    BY <1>9 DEF HandleReset, StoreStop, BaseInv, TypeOK, VcpuPcs, StartPcs, LoopPcs, LeftPcs, Vcpus
  <1>10. ASSUME NEW v \in Vcpus, HandleResetSend(v) PROVE TypeOK'
    BY <1>10 DEF HandleResetSend, SignalAll, BaseInv, TypeOK, VcpuPcs, StartPcs, LoopPcs, LeftPcs, Vcpus
  <1>11. ASSUME NEW v \in Vcpus, DeviceError(v) PROVE TypeOK'
    BY <1>11 DEF DeviceError, BaseInv, TypeOK, VcpuPcs, StartPcs, LoopPcs, LeftPcs, Vcpus
  <1>12. ASSUME NEW v \in Vcpus, Panic(v) PROVE TypeOK'
    BY <1>12 DEF Panic, BaseInv, TypeOK, VcpuPcs, StartPcs, LoopPcs, LeftPcs, Vcpus
  <1>13. ASSUME NEW v \in Vcpus, UnregisterVcpuThread(v) PROVE TypeOK'
    <2>1. vcpu_threads' \in Seq(Vcpus)
      BY <1>13, WithoutFacts DEF UnregisterVcpuThread, BaseInv, TypeOK, RegInv
    <2> QED  BY <1>13, <2>1 DEF UnregisterVcpuThread, BaseInv, TypeOK, VcpuPcs, LeftPcs
  <1>14. ASSUME NEW v \in Vcpus, ClearRunPtr(v) PROVE TypeOK'
    BY <1>14 DEF ClearRunPtr, BaseInv, TypeOK, VcpuPcs, StartPcs, LoopPcs, LeftPcs, Vcpus
  <1>15. ASSUME NEW v \in Vcpus, LeaverStop(v) PROVE TypeOK'
    BY <1>15 DEF LeaverStop, StoreStop, BaseInv, TypeOK, VcpuPcs, StartPcs, LoopPcs, LeftPcs, Vcpus
  <1>16. ASSUME NEW v \in Vcpus, LeaverStopSend(v) PROVE TypeOK'
    BY <1>16 DEF LeaverStopSend, SignalAll, BaseInv, TypeOK, VcpuPcs, StartPcs, LoopPcs, LeftPcs, Vcpus
  <1>17. ASSUME NEW v \in Vcpus, DropVcpu(v) PROVE TypeOK'
    BY <1>17 DEF DropVcpu, BaseInv, TypeOK, VcpuPcs, StartPcs, LoopPcs, LeftPcs, Vcpus
  <1>18. ASSUME NEW v \in Vcpus, EndThread(v) PROVE TypeOK'
    BY <1>18 DEF EndThread, BaseInv, TypeOK, VcpuPcs, StartPcs, LoopPcs, LeftPcs, Vcpus
  <1>19. ASSUME NEW v \in Vcpus, InterruptGuest(v) PROVE TypeOK'
    BY <1>19 DEF InterruptGuest, KickHandler, BaseInv, TypeOK, VcpuPcs, StartPcs, LoopPcs, LeftPcs, Vcpus
  <1>20. ASSUME NEW v \in Vcpus, InterruptHost(v) PROVE TypeOK'
    BY <1>20 DEF InterruptHost, KickHandler, BaseInv, TypeOK, VcpuPcs, StartPcs, LoopPcs, LeftPcs, Vcpus
  <1>21. ASSUME NEW v \in Vcpus, ExitToDevice(v) PROVE TypeOK'
    BY <1>21 DEF ExitToDevice, BaseInv, TypeOK, VcpuPcs, StartPcs, LoopPcs, LeftPcs, Vcpus
  <1>22. ASSUME NEW v \in Vcpus, ExitAndLeave(v) PROVE TypeOK'
    BY <1>22 DEF ExitAndLeave, BaseInv, TypeOK, VcpuPcs, StartPcs, LoopPcs, LeftPcs, Vcpus
  <1>23. ASSUME NEW k \in Kickers, Kick(k) PROVE TypeOK'
    BY <1>23 DEF Kick, BaseInv, TypeOK, VcpuPcs, StartPcs, LoopPcs, LeftPcs, Vcpus
  <1>24. ASSUME NEW k \in Kickers, KickSend(k) PROVE TypeOK'
    BY <1>24 DEF KickSend, SignalFirst, BaseInv, TypeOK, VcpuPcs, StartPcs, LoopPcs, LeftPcs, Vcpus
  <1>25. ASSUME NEW s \in Stoppers, Stop(s) PROVE TypeOK'
    BY <1>25 DEF Stop, StoreStop, BaseInv, TypeOK, VcpuPcs, StartPcs, LoopPcs, LeftPcs, Vcpus
  <1>26. ASSUME NEW s \in Stoppers, StopSend(s) PROVE TypeOK'
    BY <1>26 DEF StopSend, SignalAll, BaseInv, TypeOK, VcpuPcs, StartPcs, LoopPcs, LeftPcs, Vcpus
  <1>27. ASSUME SpawnVcpu PROVE TypeOK'
    BY <1>27 DEF SpawnVcpu, BaseInv, TypeOK, VcpuPcs, StartPcs, LoopPcs, LeftPcs, Vcpus
  <1>28. ASSUME SpawnFails PROVE TypeOK'
    BY <1>28 DEF SpawnFails, StoreStop, BaseInv, TypeOK, VcpuPcs, StartPcs, LoopPcs, LeftPcs, Vcpus
  <1>29. ASSUME SpawnFailsSend PROVE TypeOK'
    <2>1. main_i' \in 1..(N + 1)
      BY <1>29 DEF SpawnFailsSend
    <2> QED  BY <1>29, <2>1 DEF SpawnFailsSend, SignalAll, BaseInv, TypeOK
  <1>30. ASSUME AllSpawned PROVE TypeOK'
    <2>1. main_i' \in 1..(N + 1)
      BY <1>30 DEF AllSpawned
    <2> QED  BY <1>30, <2>1 DEF AllSpawned, BaseInv, TypeOK
  <1>31. ASSUME JoinVcpu PROVE TypeOK'
    <2>1. JoinResult(main_i) \in {"ok", "err"}
      BY <1>31 DEF JoinVcpu, JoinResult, BaseInv, TypeOK, ThreadInv, LeftPcs
    <2> QED  BY <1>31, <2>1 DEF JoinVcpu, JoinResult, BaseInv, TypeOK, Vcpus
  <1>32. ASSUME Return PROVE TypeOK'
    BY <1>32 DEF Return, BaseInv, TypeOK, VcpuPcs, StartPcs, LoopPcs, LeftPcs, Vcpus
  <1>33. CASE UNCHANGED vars
    BY <1>33 DEF vars, vcpuVars, mainVars, BaseInv, TypeOK, VcpuPcs, StartPcs, LoopPcs, LeftPcs, Vcpus
  <1> QED
    BY <1>1, <1>2, <1>3, <1>4, <1>5, <1>6, <1>7, <1>8, <1>9, <1>10, <1>11, <1>12, <1>13, <1>14, <1>15, <1>16, <1>17, <1>18, <1>19, <1>20, <1>21, <1>22, <1>23, <1>24, <1>25, <1>26, <1>27, <1>28, <1>29, <1>30, <1>31, <1>32, <1>33
    DEF Next, VcpuStep, Interrupt, GuestStep, MainStep, Terminated

\* Every step keeps vcpu_threads in accord with where the threads are.
LEMMA RegInvNext == BaseInv /\ [Next]_vars => RegInv'
  <1> SUFFICES ASSUME BaseInv, [Next]_vars PROVE RegInv'
    OBVIOUS
  <1> USE DEF Goto, vcpuVars, mainVars
  <1>1. ASSUME NEW v \in Vcpus, SetRunPtr(v) PROVE RegInv'
    BY <1>1 DEF SetRunPtr, BaseInv, TypeOK, RegInv, StartPcs, LoopPcs
  <1>2. ASSUME NEW v \in Vcpus, RegisterVcpuThread(v) PROVE RegInv'
    <2>1. ~Holds(vcpu_threads, v)
      BY <1>2 DEF RegisterVcpuThread, BaseInv, RegInv, StartPcs
    <2>2. /\ Distinct(vcpu_threads')
          /\ \A w : Holds(vcpu_threads', w) <=> Holds(vcpu_threads, w) \/ w = v
      BY <1>2, <2>1, AppendFacts DEF RegisterVcpuThread, BaseInv, TypeOK, RegInv
    <2> QED  BY <1>2, <2>2 DEF RegisterVcpuThread, BaseInv, TypeOK, RegInv, StartPcs, LoopPcs
  <1>3. ASSUME NEW v \in Vcpus, CheckStop(v) PROVE RegInv'
    BY <1>3 DEF CheckStop, BaseInv, TypeOK, RegInv, StartPcs, LoopPcs
  <1>4. ASSUME NEW v \in Vcpus, TakeDevicesPending(v) PROVE RegInv'
    BY <1>4 DEF TakeDevicesPending, BaseInv, TypeOK, RegInv, StartPcs, LoopPcs
  <1>5. ASSUME NEW v \in Vcpus, PollMmioDevices(v) PROVE RegInv'
    BY <1>5 DEF PollMmioDevices, BaseInv, TypeOK, RegInv, StartPcs, LoopPcs
  <1>6. ASSUME NEW v \in Vcpus, EnterKvmRun(v) PROVE RegInv'
    BY <1>6 DEF EnterKvmRun, BaseInv, TypeOK, RegInv, StartPcs, LoopPcs
  <1>7. ASSUME NEW v \in Vcpus, ClearImmediateExit(v) PROVE RegInv'
    BY <1>7 DEF ClearImmediateExit, BaseInv, TypeOK, RegInv, StartPcs, LoopPcs
  <1>8. ASSUME NEW v \in Vcpus, HandleExit(v) PROVE RegInv'
    BY <1>8 DEF HandleExit, BaseInv, TypeOK, RegInv, StartPcs, LoopPcs
  <1>9. ASSUME NEW v \in Vcpus, HandleReset(v) PROVE RegInv'
    BY <1>9 DEF HandleReset, StoreStop, BaseInv, TypeOK, RegInv, StartPcs, LoopPcs
  <1>10. ASSUME NEW v \in Vcpus, HandleResetSend(v) PROVE RegInv'
    BY <1>10 DEF HandleResetSend, SignalAll, BaseInv, TypeOK, RegInv, StartPcs, LoopPcs
  <1>11. ASSUME NEW v \in Vcpus, DeviceError(v) PROVE RegInv'
    BY <1>11 DEF DeviceError, BaseInv, TypeOK, RegInv, StartPcs, LoopPcs
  <1>12. ASSUME NEW v \in Vcpus, Panic(v) PROVE RegInv'
    BY <1>12 DEF Panic, BaseInv, TypeOK, RegInv, StartPcs, LoopPcs
  <1>13. ASSUME NEW v \in Vcpus, UnregisterVcpuThread(v) PROVE RegInv'
    <2>1. /\ Distinct(vcpu_threads')
          /\ \A w : Holds(vcpu_threads', w) <=> Holds(vcpu_threads, w) /\ w # v
      BY <1>13, WithoutFacts DEF UnregisterVcpuThread, BaseInv, TypeOK, RegInv
    <2> QED  BY <1>13, <2>1 DEF UnregisterVcpuThread, BaseInv, TypeOK, RegInv, StartPcs, LoopPcs
  <1>14. ASSUME NEW v \in Vcpus, ClearRunPtr(v) PROVE RegInv'
    BY <1>14 DEF ClearRunPtr, BaseInv, TypeOK, RegInv, StartPcs, LoopPcs
  <1>15. ASSUME NEW v \in Vcpus, LeaverStop(v) PROVE RegInv'
    BY <1>15 DEF LeaverStop, StoreStop, BaseInv, TypeOK, RegInv, StartPcs, LoopPcs
  <1>16. ASSUME NEW v \in Vcpus, LeaverStopSend(v) PROVE RegInv'
    BY <1>16 DEF LeaverStopSend, SignalAll, BaseInv, TypeOK, RegInv, StartPcs, LoopPcs
  <1>17. ASSUME NEW v \in Vcpus, DropVcpu(v) PROVE RegInv'
    BY <1>17 DEF DropVcpu, BaseInv, TypeOK, RegInv, StartPcs, LoopPcs
  <1>18. ASSUME NEW v \in Vcpus, EndThread(v) PROVE RegInv'
    BY <1>18 DEF EndThread, BaseInv, TypeOK, RegInv, StartPcs, LoopPcs
  <1>19. ASSUME NEW v \in Vcpus, InterruptGuest(v) PROVE RegInv'
    BY <1>19 DEF InterruptGuest, KickHandler, BaseInv, TypeOK, RegInv, StartPcs, LoopPcs
  <1>20. ASSUME NEW v \in Vcpus, InterruptHost(v) PROVE RegInv'
    BY <1>20 DEF InterruptHost, KickHandler, BaseInv, TypeOK, RegInv, StartPcs, LoopPcs
  <1>21. ASSUME NEW v \in Vcpus, ExitToDevice(v) PROVE RegInv'
    BY <1>21 DEF ExitToDevice, BaseInv, TypeOK, RegInv, StartPcs, LoopPcs
  <1>22. ASSUME NEW v \in Vcpus, ExitAndLeave(v) PROVE RegInv'
    BY <1>22 DEF ExitAndLeave, BaseInv, TypeOK, RegInv, StartPcs, LoopPcs
  <1>23. ASSUME NEW k \in Kickers, Kick(k) PROVE RegInv'
    BY <1>23 DEF Kick, BaseInv, TypeOK, RegInv, StartPcs, LoopPcs
  <1>24. ASSUME NEW k \in Kickers, KickSend(k) PROVE RegInv'
    BY <1>24 DEF KickSend, SignalFirst, BaseInv, TypeOK, RegInv, StartPcs, LoopPcs
  <1>25. ASSUME NEW s \in Stoppers, Stop(s) PROVE RegInv'
    BY <1>25 DEF Stop, StoreStop, BaseInv, TypeOK, RegInv, StartPcs, LoopPcs
  <1>26. ASSUME NEW s \in Stoppers, StopSend(s) PROVE RegInv'
    BY <1>26 DEF StopSend, SignalAll, BaseInv, TypeOK, RegInv, StartPcs, LoopPcs
  <1>27. ASSUME SpawnVcpu PROVE RegInv'
    <2>1. pc[main_i] = "unspawned"
      BY <1>27 DEF SpawnVcpu, BaseInv, ThreadInv, Vcpus
    <2> QED  BY <1>27, <2>1 DEF SpawnVcpu, BaseInv, TypeOK, RegInv, StartPcs, LoopPcs
  <1>28. ASSUME SpawnFails PROVE RegInv'
    BY <1>28 DEF SpawnFails, StoreStop, BaseInv, TypeOK, RegInv, StartPcs, LoopPcs
  <1>29. ASSUME SpawnFailsSend PROVE RegInv'
    BY <1>29 DEF SpawnFailsSend, SignalAll, BaseInv, TypeOK, RegInv, StartPcs, LoopPcs
  <1>30. ASSUME AllSpawned PROVE RegInv'
    BY <1>30 DEF AllSpawned, BaseInv, TypeOK, RegInv, StartPcs, LoopPcs
  <1>31. ASSUME JoinVcpu PROVE RegInv'
    BY <1>31 DEF JoinVcpu, JoinResult, BaseInv, TypeOK, RegInv, StartPcs, LoopPcs
  <1>32. ASSUME Return PROVE RegInv'
    BY <1>32 DEF Return, BaseInv, TypeOK, RegInv, StartPcs, LoopPcs
  <1>33. CASE UNCHANGED vars
    BY <1>33 DEF vars, vcpuVars, mainVars, BaseInv, TypeOK, RegInv, StartPcs, LoopPcs
  <1> QED
    BY <1>1, <1>2, <1>3, <1>4, <1>5, <1>6, <1>7, <1>8, <1>9, <1>10, <1>11, <1>12, <1>13, <1>14, <1>15, <1>16, <1>17, <1>18, <1>19, <1>20, <1>21, <1>22, <1>23, <1>24, <1>25, <1>26, <1>27, <1>28, <1>29, <1>30, <1>31, <1>32, <1>33
    DEF Next, VcpuStep, Interrupt, GuestStep, MainStep, Terminated

\* Every step keeps the pointer, the result and the spawn order.
LEMMA ThreadInvNext == BaseInv /\ [Next]_vars => ThreadInv'
  <1> SUFFICES ASSUME BaseInv, [Next]_vars PROVE ThreadInv'
    OBVIOUS
  <1> USE DEF Goto, vcpuVars, mainVars
  <1>1. ASSUME NEW v \in Vcpus, SetRunPtr(v) PROVE ThreadInv'
    BY <1>1 DEF SetRunPtr, BaseInv, TypeOK, ThreadInv, LoopPcs, LeftPcs, Vcpus
  <1>2. ASSUME NEW v \in Vcpus, RegisterVcpuThread(v) PROVE ThreadInv'
    BY <1>2 DEF RegisterVcpuThread, BaseInv, TypeOK, ThreadInv, LoopPcs, LeftPcs, Vcpus
  <1>3. ASSUME NEW v \in Vcpus, CheckStop(v) PROVE ThreadInv'
    BY <1>3 DEF CheckStop, BaseInv, TypeOK, ThreadInv, LoopPcs, LeftPcs, Vcpus
  <1>4. ASSUME NEW v \in Vcpus, TakeDevicesPending(v) PROVE ThreadInv'
    BY <1>4 DEF TakeDevicesPending, BaseInv, TypeOK, ThreadInv, LoopPcs, LeftPcs, Vcpus
  <1>5. ASSUME NEW v \in Vcpus, PollMmioDevices(v) PROVE ThreadInv'
    BY <1>5 DEF PollMmioDevices, BaseInv, TypeOK, ThreadInv, LoopPcs, LeftPcs, Vcpus
  <1>6. ASSUME NEW v \in Vcpus, EnterKvmRun(v) PROVE ThreadInv'
    BY <1>6 DEF EnterKvmRun, BaseInv, TypeOK, ThreadInv, LoopPcs, LeftPcs, Vcpus
  <1>7. ASSUME NEW v \in Vcpus, ClearImmediateExit(v) PROVE ThreadInv'
    BY <1>7 DEF ClearImmediateExit, BaseInv, TypeOK, ThreadInv, LoopPcs, LeftPcs, Vcpus
  <1>8. ASSUME NEW v \in Vcpus, HandleExit(v) PROVE ThreadInv'
    BY <1>8 DEF HandleExit, BaseInv, TypeOK, ThreadInv, LoopPcs, LeftPcs, Vcpus
  <1>9. ASSUME NEW v \in Vcpus, HandleReset(v) PROVE ThreadInv'
    BY <1>9 DEF HandleReset, StoreStop, BaseInv, TypeOK, ThreadInv, LoopPcs, LeftPcs, Vcpus
  <1>10. ASSUME NEW v \in Vcpus, HandleResetSend(v) PROVE ThreadInv'
    BY <1>10 DEF HandleResetSend, SignalAll, BaseInv, TypeOK, ThreadInv, LoopPcs, LeftPcs, Vcpus
  <1>11. ASSUME NEW v \in Vcpus, DeviceError(v) PROVE ThreadInv'
    BY <1>11 DEF DeviceError, BaseInv, TypeOK, ThreadInv, LoopPcs, LeftPcs, Vcpus
  <1>12. ASSUME NEW v \in Vcpus, Panic(v) PROVE ThreadInv'
    BY <1>12 DEF Panic, BaseInv, TypeOK, ThreadInv, LoopPcs, LeftPcs, Vcpus
  <1>13. ASSUME NEW v \in Vcpus, UnregisterVcpuThread(v) PROVE ThreadInv'
    BY <1>13 DEF UnregisterVcpuThread, BaseInv, TypeOK, ThreadInv, LoopPcs, LeftPcs, Vcpus
  <1>14. ASSUME NEW v \in Vcpus, ClearRunPtr(v) PROVE ThreadInv'
    BY <1>14 DEF ClearRunPtr, BaseInv, TypeOK, ThreadInv, LoopPcs, LeftPcs, Vcpus
  <1>15. ASSUME NEW v \in Vcpus, LeaverStop(v) PROVE ThreadInv'
    BY <1>15 DEF LeaverStop, StoreStop, BaseInv, TypeOK, ThreadInv, LoopPcs, LeftPcs, Vcpus
  <1>16. ASSUME NEW v \in Vcpus, LeaverStopSend(v) PROVE ThreadInv'
    BY <1>16 DEF LeaverStopSend, SignalAll, BaseInv, TypeOK, ThreadInv, LoopPcs, LeftPcs, Vcpus
  <1>17. ASSUME NEW v \in Vcpus, DropVcpu(v) PROVE ThreadInv'
    BY <1>17 DEF DropVcpu, BaseInv, TypeOK, ThreadInv, LoopPcs, LeftPcs, Vcpus
  <1>18. ASSUME NEW v \in Vcpus, EndThread(v) PROVE ThreadInv'
    BY <1>18 DEF EndThread, BaseInv, TypeOK, ThreadInv, LoopPcs, LeftPcs, Vcpus
  <1>19. ASSUME NEW v \in Vcpus, InterruptGuest(v) PROVE ThreadInv'
    BY <1>19 DEF InterruptGuest, KickHandler, BaseInv, TypeOK, ThreadInv, LoopPcs, LeftPcs, Vcpus
  <1>20. ASSUME NEW v \in Vcpus, InterruptHost(v) PROVE ThreadInv'
    BY <1>20 DEF InterruptHost, KickHandler, BaseInv, TypeOK, ThreadInv, LoopPcs, LeftPcs, Vcpus
  <1>21. ASSUME NEW v \in Vcpus, ExitToDevice(v) PROVE ThreadInv'
    BY <1>21 DEF ExitToDevice, BaseInv, TypeOK, ThreadInv, LoopPcs, LeftPcs, Vcpus
  <1>22. ASSUME NEW v \in Vcpus, ExitAndLeave(v) PROVE ThreadInv'
    BY <1>22 DEF ExitAndLeave, BaseInv, TypeOK, ThreadInv, LoopPcs, LeftPcs, Vcpus
  <1>23. ASSUME NEW k \in Kickers, Kick(k) PROVE ThreadInv'
    BY <1>23 DEF Kick, BaseInv, TypeOK, ThreadInv, LoopPcs, LeftPcs, Vcpus
  <1>24. ASSUME NEW k \in Kickers, KickSend(k) PROVE ThreadInv'
    BY <1>24 DEF KickSend, SignalFirst, BaseInv, TypeOK, ThreadInv, LoopPcs, LeftPcs, Vcpus
  <1>25. ASSUME NEW s \in Stoppers, Stop(s) PROVE ThreadInv'
    BY <1>25 DEF Stop, StoreStop, BaseInv, TypeOK, ThreadInv, LoopPcs, LeftPcs, Vcpus
  <1>26. ASSUME NEW s \in Stoppers, StopSend(s) PROVE ThreadInv'
    BY <1>26 DEF StopSend, SignalAll, BaseInv, TypeOK, ThreadInv, LoopPcs, LeftPcs, Vcpus
  <1>27. ASSUME SpawnVcpu PROVE ThreadInv'
    BY <1>27 DEF SpawnVcpu, BaseInv, TypeOK, ThreadInv, LoopPcs, LeftPcs, Vcpus
  <1>28. ASSUME SpawnFails PROVE ThreadInv'
    BY <1>28 DEF SpawnFails, StoreStop, BaseInv, TypeOK, ThreadInv, LoopPcs, LeftPcs, Vcpus
  <1>29. ASSUME SpawnFailsSend PROVE ThreadInv'
    BY <1>29 DEF SpawnFailsSend, SignalAll, BaseInv, TypeOK, ThreadInv, LoopPcs, LeftPcs, Vcpus
  <1>30. ASSUME AllSpawned PROVE ThreadInv'
    BY <1>30 DEF AllSpawned, BaseInv, TypeOK, ThreadInv, LoopPcs, LeftPcs, Vcpus
  <1>31. ASSUME JoinVcpu PROVE ThreadInv'
    BY <1>31 DEF JoinVcpu, JoinResult, BaseInv, TypeOK, ThreadInv, LoopPcs, LeftPcs, Vcpus
  <1>32. ASSUME Return PROVE ThreadInv'
    BY <1>32 DEF Return, BaseInv, TypeOK, ThreadInv, LoopPcs, LeftPcs, Vcpus
  <1>33. CASE UNCHANGED vars
    BY <1>33 DEF vars, vcpuVars, mainVars, BaseInv, TypeOK, ThreadInv, LoopPcs, LeftPcs, Vcpus
  <1> QED
    BY <1>1, <1>2, <1>3, <1>4, <1>5, <1>6, <1>7, <1>8, <1>9, <1>10, <1>11, <1>12, <1>13, <1>14, <1>15, <1>16, <1>17, <1>18, <1>19, <1>20, <1>21, <1>22, <1>23, <1>24, <1>25, <1>26, <1>27, <1>28, <1>29, <1>30, <1>31, <1>32, <1>33
    DEF Next, VcpuStep, Interrupt, GuestStep, MainStep, Terminated

\* The base invariant is inductive.
LEMMA BaseInvariance == Spec => []BaseInv
  <1>1. Init => BaseInv
    BY BaseInit
  <1>2. BaseInv /\ [Next]_vars => BaseInv'
    BY TypeOKNext, RegInvNext, ThreadInvNext DEF BaseInv
  <1> QED  BY <1>1, <1>2, PTL DEF Spec

\* Every variable keeps its type, whatever the threads, signals and panics.
THEOREM TypeCorrect == Spec => []TypeOK
  <1>1. BaseInv => TypeOK
    BY DEF BaseInv
  <1> QED  BY <1>1, BaseInvariance, PTL

-----------------------------------------------------------------------------
(* A stop is never lost.                                                   *)

\* Registered, as VmControl defines it, is membership in vcpu_threads.
LEMMA RegisteredHolds == \A v : Registered(v) <=> Holds(vcpu_threads, v)
  BY DEF Registered, Holds

\* After SignalAll every thread in its loop has a signal pending.
LEMMA SignalAllReaches ==
    ASSUME BaseInv, SignalAll, NEW v \in Vcpus, pc[v] \in LoopPcs
    PROVE  v \in sigpending'
  BY RegisteredHolds DEF BaseInv, RegInv, SignalAll, Alive, LoopPcs

\* Every step keeps NoLostStop.
LEMMA NoLostStopNext == BaseInv /\ NoLostStop /\ [Next]_vars => NoLostStop'
  <1> SUFFICES ASSUME BaseInv, NoLostStop, [Next]_vars,
                      should_stop', ~StopInFlight',
                      NEW u \in Vcpus, pc'[u] \in PastStopCheck
               PROVE  WillBeInterrupted(u)'
    BY DEF NoLostStop
  <1> USE DEF Goto, vcpuVars, mainVars
  <1>1. ASSUME NEW v \in Vcpus, SetRunPtr(v) PROVE WillBeInterrupted(u)'
    BY <1>1 DEF SetRunPtr, BaseInv, TypeOK, ThreadInv, NoLostStop, StopInFlight, WillBeInterrupted, PastStopCheck, LoopPcs
  <1>2. ASSUME NEW v \in Vcpus, RegisterVcpuThread(v) PROVE WillBeInterrupted(u)'
    BY <1>2 DEF RegisterVcpuThread, BaseInv, TypeOK, ThreadInv, NoLostStop, StopInFlight, WillBeInterrupted, PastStopCheck, LoopPcs
  <1>3. ASSUME NEW v \in Vcpus, CheckStop(v) PROVE WillBeInterrupted(u)'
    BY <1>3 DEF CheckStop, BaseInv, TypeOK, ThreadInv, NoLostStop, StopInFlight, WillBeInterrupted, PastStopCheck, LoopPcs
  <1>4. ASSUME NEW v \in Vcpus, TakeDevicesPending(v) PROVE WillBeInterrupted(u)'
    BY <1>4 DEF TakeDevicesPending, BaseInv, TypeOK, ThreadInv, NoLostStop, StopInFlight, WillBeInterrupted, PastStopCheck, LoopPcs
  <1>5. ASSUME NEW v \in Vcpus, PollMmioDevices(v) PROVE WillBeInterrupted(u)'
    BY <1>5 DEF PollMmioDevices, BaseInv, TypeOK, ThreadInv, NoLostStop, StopInFlight, WillBeInterrupted, PastStopCheck, LoopPcs
  <1>6. ASSUME NEW v \in Vcpus, EnterKvmRun(v) PROVE WillBeInterrupted(u)'
    BY <1>6 DEF EnterKvmRun, BaseInv, TypeOK, ThreadInv, NoLostStop, StopInFlight, WillBeInterrupted, PastStopCheck, LoopPcs
  <1>7. ASSUME NEW v \in Vcpus, ClearImmediateExit(v) PROVE WillBeInterrupted(u)'
    BY <1>7 DEF ClearImmediateExit, BaseInv, TypeOK, ThreadInv, NoLostStop, StopInFlight, WillBeInterrupted, PastStopCheck, LoopPcs
  <1>8. ASSUME NEW v \in Vcpus, HandleExit(v) PROVE WillBeInterrupted(u)'
    BY <1>8 DEF HandleExit, BaseInv, TypeOK, ThreadInv, NoLostStop, StopInFlight, WillBeInterrupted, PastStopCheck, LoopPcs
  <1>9. ASSUME NEW v \in Vcpus, HandleReset(v) PROVE WillBeInterrupted(u)'
    BY <1>9 DEF HandleReset, StoreStop, BaseInv, TypeOK, ThreadInv, NoLostStop, StopInFlight, WillBeInterrupted, PastStopCheck, LoopPcs
  <1>10. ASSUME NEW v \in Vcpus, HandleResetSend(v) PROVE WillBeInterrupted(u)'
    <2>1. pc[u] \in LoopPcs
      BY <1>10 DEF HandleResetSend, BaseInv, TypeOK, PastStopCheck, LoopPcs
    <2>2. u \in sigpending'
      BY <1>10, <2>1, SignalAllReaches DEF HandleResetSend
    <2> QED  BY <2>2 DEF WillBeInterrupted
  <1>11. ASSUME NEW v \in Vcpus, DeviceError(v) PROVE WillBeInterrupted(u)'
    BY <1>11 DEF DeviceError, BaseInv, TypeOK, ThreadInv, NoLostStop, StopInFlight, WillBeInterrupted, PastStopCheck, LoopPcs
  <1>12. ASSUME NEW v \in Vcpus, Panic(v) PROVE WillBeInterrupted(u)'
    BY <1>12 DEF Panic, BaseInv, TypeOK, ThreadInv, NoLostStop, StopInFlight, WillBeInterrupted, PastStopCheck, LoopPcs
  <1>13. ASSUME NEW v \in Vcpus, UnregisterVcpuThread(v) PROVE WillBeInterrupted(u)'
    BY <1>13 DEF UnregisterVcpuThread, BaseInv, TypeOK, ThreadInv, NoLostStop, StopInFlight, WillBeInterrupted, PastStopCheck, LoopPcs
  <1>14. ASSUME NEW v \in Vcpus, ClearRunPtr(v) PROVE WillBeInterrupted(u)'
    BY <1>14 DEF ClearRunPtr, BaseInv, TypeOK, ThreadInv, NoLostStop, StopInFlight, WillBeInterrupted, PastStopCheck, LoopPcs
  <1>15. ASSUME NEW v \in Vcpus, LeaverStop(v) PROVE WillBeInterrupted(u)'
    BY <1>15 DEF LeaverStop, StoreStop, BaseInv, TypeOK, ThreadInv, NoLostStop, StopInFlight, WillBeInterrupted, PastStopCheck, LoopPcs
  <1>16. ASSUME NEW v \in Vcpus, LeaverStopSend(v) PROVE WillBeInterrupted(u)'
    <2>1. pc[u] \in LoopPcs
      BY <1>16 DEF LeaverStopSend, BaseInv, TypeOK, PastStopCheck, LoopPcs
    <2>2. u \in sigpending'
      BY <1>16, <2>1, SignalAllReaches DEF LeaverStopSend
    <2> QED  BY <2>2 DEF WillBeInterrupted
  <1>17. ASSUME NEW v \in Vcpus, DropVcpu(v) PROVE WillBeInterrupted(u)'
    BY <1>17 DEF DropVcpu, BaseInv, TypeOK, ThreadInv, NoLostStop, StopInFlight, WillBeInterrupted, PastStopCheck, LoopPcs
  <1>18. ASSUME NEW v \in Vcpus, EndThread(v) PROVE WillBeInterrupted(u)'
    BY <1>18 DEF EndThread, BaseInv, TypeOK, ThreadInv, NoLostStop, StopInFlight, WillBeInterrupted, PastStopCheck, LoopPcs
  <1>19. ASSUME NEW v \in Vcpus, InterruptGuest(v) PROVE WillBeInterrupted(u)'
    BY <1>19 DEF InterruptGuest, KickHandler, BaseInv, TypeOK, ThreadInv, NoLostStop, StopInFlight, WillBeInterrupted, PastStopCheck, LoopPcs
  <1>20. ASSUME NEW v \in Vcpus, InterruptHost(v) PROVE WillBeInterrupted(u)'
    BY <1>20 DEF InterruptHost, KickHandler, BaseInv, TypeOK, ThreadInv, NoLostStop, StopInFlight, WillBeInterrupted, PastStopCheck, LoopPcs
  <1>21. ASSUME NEW v \in Vcpus, ExitToDevice(v) PROVE WillBeInterrupted(u)'
    BY <1>21 DEF ExitToDevice, BaseInv, TypeOK, ThreadInv, NoLostStop, StopInFlight, WillBeInterrupted, PastStopCheck, LoopPcs
  <1>22. ASSUME NEW v \in Vcpus, ExitAndLeave(v) PROVE WillBeInterrupted(u)'
    BY <1>22 DEF ExitAndLeave, BaseInv, TypeOK, ThreadInv, NoLostStop, StopInFlight, WillBeInterrupted, PastStopCheck, LoopPcs
  <1>23. ASSUME NEW k \in Kickers, Kick(k) PROVE WillBeInterrupted(u)'
    BY <1>23 DEF Kick, BaseInv, TypeOK, ThreadInv, NoLostStop, StopInFlight, WillBeInterrupted, PastStopCheck, LoopPcs
  <1>24. ASSUME NEW k \in Kickers, KickSend(k) PROVE WillBeInterrupted(u)'
    BY <1>24 DEF KickSend, SignalFirst, BaseInv, TypeOK, ThreadInv, NoLostStop, StopInFlight, WillBeInterrupted, PastStopCheck, LoopPcs
  <1>25. ASSUME NEW s \in Stoppers, Stop(s) PROVE WillBeInterrupted(u)'
    BY <1>25 DEF Stop, StoreStop, BaseInv, TypeOK, ThreadInv, NoLostStop, StopInFlight, WillBeInterrupted, PastStopCheck, LoopPcs
  <1>26. ASSUME NEW s \in Stoppers, StopSend(s) PROVE WillBeInterrupted(u)'
    <2>1. pc[u] \in LoopPcs
      BY <1>26 DEF StopSend, BaseInv, TypeOK, PastStopCheck, LoopPcs
    <2>2. u \in sigpending'
      BY <1>26, <2>1, SignalAllReaches DEF StopSend
    <2> QED  BY <2>2 DEF WillBeInterrupted
  <1>27. ASSUME SpawnVcpu PROVE WillBeInterrupted(u)'
    BY <1>27 DEF SpawnVcpu, BaseInv, TypeOK, ThreadInv, NoLostStop, StopInFlight, WillBeInterrupted, PastStopCheck, LoopPcs
  <1>28. ASSUME SpawnFails PROVE WillBeInterrupted(u)'
    BY <1>28 DEF SpawnFails, StoreStop, BaseInv, TypeOK, ThreadInv, NoLostStop, StopInFlight, WillBeInterrupted, PastStopCheck, LoopPcs
  <1>29. ASSUME SpawnFailsSend PROVE WillBeInterrupted(u)'
    <2>1. pc[u] \in LoopPcs
      BY <1>29 DEF SpawnFailsSend, BaseInv, TypeOK, PastStopCheck, LoopPcs
    <2>2. u \in sigpending'
      BY <1>29, <2>1, SignalAllReaches DEF SpawnFailsSend
    <2> QED  BY <2>2 DEF WillBeInterrupted
  <1>30. ASSUME AllSpawned PROVE WillBeInterrupted(u)'
    BY <1>30 DEF AllSpawned, BaseInv, TypeOK, ThreadInv, NoLostStop, StopInFlight, WillBeInterrupted, PastStopCheck, LoopPcs
  <1>31. ASSUME JoinVcpu PROVE WillBeInterrupted(u)'
    BY <1>31 DEF JoinVcpu, JoinResult, BaseInv, TypeOK, ThreadInv, NoLostStop, StopInFlight, WillBeInterrupted, PastStopCheck, LoopPcs
  <1>32. ASSUME Return PROVE WillBeInterrupted(u)'
    BY <1>32 DEF Return, BaseInv, TypeOK, ThreadInv, NoLostStop, StopInFlight, WillBeInterrupted, PastStopCheck, LoopPcs
  <1>33. CASE UNCHANGED vars
    BY <1>33 DEF vars, vcpuVars, mainVars, BaseInv, TypeOK, ThreadInv, NoLostStop, StopInFlight, WillBeInterrupted, PastStopCheck, LoopPcs
  <1> QED
    BY <1>1, <1>2, <1>3, <1>4, <1>5, <1>6, <1>7, <1>8, <1>9, <1>10, <1>11, <1>12, <1>13, <1>14, <1>15, <1>16, <1>17, <1>18, <1>19, <1>20, <1>21, <1>22, <1>23, <1>24, <1>25, <1>26, <1>27, <1>28, <1>29, <1>30, <1>31, <1>32, <1>33
    DEF Next, VcpuStep, Interrupt, GuestStep, MainStep, Terminated

\* However many threads stop the VM, and however their stores and signals
\* interleave with the vcpu threads, panics included, no vcpu goes into the
\* guest and stays there after a stop.
THEOREM StopNeverLost == Spec => []NoLostStop
  <1>1. Init => NoLostStop
    BY DEF Init, NoLostStop
  <1>2. BaseInv /\ NoLostStop /\ [Next]_vars => NoLostStop'
    BY NoLostStopNext
  <1> QED  BY <1>1, <1>2, BaseInvariance, PTL DEF Spec

-----------------------------------------------------------------------------
(* What a thread that does not panic guarantees: it leaves its loop        *)
(* through unregister and clears its KVM_RUN_PTR.                          *)

\* A thread that has panicked.
Unwound(v) == result[v] = "panic"

\* Of the threads that did not panic, only those in their loop are
\* registered and only those that can still take a kick have a non-null
\* KVM_RUN_PTR; a panic leads straight to the end of the thread; only ended
\* threads are joined.
OrderlyInv ==
    /\ \A v \in Vcpus : Holds(vcpu_threads, v) => Unwound(v) \/ pc[v] \in LoopPcs
    /\ \A v \in Vcpus : run_ptr[v] =>
           Unwound(v) \/ pc[v] \in LoopPcs \cup {"register", "clear_ptr"}
    /\ \A v \in Vcpus : Unwound(v) => pc[v] \in {"drop", "exiting", "done"}
    /\ main_pc = "join" => \A v \in Vcpus : v < main_i => pc[v] = "done"

\* Every step keeps OrderlyInv.
LEMMA OrderlyInvNext == BaseInv /\ OrderlyInv /\ [Next]_vars => OrderlyInv'
  <1> SUFFICES ASSUME BaseInv, OrderlyInv, [Next]_vars PROVE OrderlyInv'
    OBVIOUS
  <1> USE DEF Goto, vcpuVars, mainVars, Unwound
  <1>1. ASSUME NEW v \in Vcpus, SetRunPtr(v) PROVE OrderlyInv'
    BY <1>1 DEF SetRunPtr, BaseInv, TypeOK, ThreadInv, OrderlyInv, LoopPcs, Vcpus
  <1>2. ASSUME NEW v \in Vcpus, RegisterVcpuThread(v) PROVE OrderlyInv'
    <2>1. ~Holds(vcpu_threads, v)
      BY <1>2 DEF RegisterVcpuThread, BaseInv, RegInv, StartPcs
    <2>2. \A w : Holds(vcpu_threads', w) <=> Holds(vcpu_threads, w) \/ w = v
      BY <1>2, <2>1, AppendFacts DEF RegisterVcpuThread, BaseInv, TypeOK, RegInv
    <2> QED  BY <1>2, <2>2 DEF RegisterVcpuThread, BaseInv, TypeOK, OrderlyInv, LoopPcs
  <1>3. ASSUME NEW v \in Vcpus, CheckStop(v) PROVE OrderlyInv'
    BY <1>3 DEF CheckStop, BaseInv, TypeOK, ThreadInv, OrderlyInv, LoopPcs, Vcpus
  <1>4. ASSUME NEW v \in Vcpus, TakeDevicesPending(v) PROVE OrderlyInv'
    BY <1>4 DEF TakeDevicesPending, BaseInv, TypeOK, ThreadInv, OrderlyInv, LoopPcs, Vcpus
  <1>5. ASSUME NEW v \in Vcpus, PollMmioDevices(v) PROVE OrderlyInv'
    BY <1>5 DEF PollMmioDevices, BaseInv, TypeOK, ThreadInv, OrderlyInv, LoopPcs, Vcpus
  <1>6. ASSUME NEW v \in Vcpus, EnterKvmRun(v) PROVE OrderlyInv'
    BY <1>6 DEF EnterKvmRun, BaseInv, TypeOK, ThreadInv, OrderlyInv, LoopPcs, Vcpus
  <1>7. ASSUME NEW v \in Vcpus, ClearImmediateExit(v) PROVE OrderlyInv'
    BY <1>7 DEF ClearImmediateExit, BaseInv, TypeOK, ThreadInv, OrderlyInv, LoopPcs, Vcpus
  <1>8. ASSUME NEW v \in Vcpus, HandleExit(v) PROVE OrderlyInv'
    BY <1>8 DEF HandleExit, BaseInv, TypeOK, ThreadInv, OrderlyInv, LoopPcs, Vcpus
  <1>9. ASSUME NEW v \in Vcpus, HandleReset(v) PROVE OrderlyInv'
    BY <1>9 DEF HandleReset, StoreStop, BaseInv, TypeOK, ThreadInv, OrderlyInv, LoopPcs, Vcpus
  <1>10. ASSUME NEW v \in Vcpus, HandleResetSend(v) PROVE OrderlyInv'
    BY <1>10 DEF HandleResetSend, SignalAll, BaseInv, TypeOK, ThreadInv, OrderlyInv, LoopPcs, Vcpus
  <1>11. ASSUME NEW v \in Vcpus, DeviceError(v) PROVE OrderlyInv'
    BY <1>11 DEF DeviceError, BaseInv, TypeOK, ThreadInv, OrderlyInv, LoopPcs, Vcpus
  <1>12. ASSUME NEW v \in Vcpus, Panic(v) PROVE OrderlyInv'
    BY <1>12 DEF Panic, BaseInv, TypeOK, ThreadInv, OrderlyInv, LoopPcs, Vcpus
  <1>13. ASSUME NEW v \in Vcpus, UnregisterVcpuThread(v) PROVE OrderlyInv'
    <2>1. \A w : Holds(vcpu_threads', w) <=> Holds(vcpu_threads, w) /\ w # v
      BY <1>13, WithoutFacts DEF UnregisterVcpuThread, BaseInv, TypeOK, RegInv
    <2> QED  BY <1>13, <2>1 DEF UnregisterVcpuThread, BaseInv, TypeOK, OrderlyInv, LoopPcs
  <1>14. ASSUME NEW v \in Vcpus, ClearRunPtr(v) PROVE OrderlyInv'
    BY <1>14 DEF ClearRunPtr, BaseInv, TypeOK, ThreadInv, OrderlyInv, LoopPcs, Vcpus
  <1>15. ASSUME NEW v \in Vcpus, LeaverStop(v) PROVE OrderlyInv'
    BY <1>15 DEF LeaverStop, StoreStop, BaseInv, TypeOK, ThreadInv, OrderlyInv, LoopPcs, Vcpus
  <1>16. ASSUME NEW v \in Vcpus, LeaverStopSend(v) PROVE OrderlyInv'
    BY <1>16 DEF LeaverStopSend, SignalAll, BaseInv, TypeOK, ThreadInv, OrderlyInv, LoopPcs, Vcpus
  <1>17. ASSUME NEW v \in Vcpus, DropVcpu(v) PROVE OrderlyInv'
    BY <1>17 DEF DropVcpu, BaseInv, TypeOK, ThreadInv, OrderlyInv, LoopPcs, Vcpus
  <1>18. ASSUME NEW v \in Vcpus, EndThread(v) PROVE OrderlyInv'
    BY <1>18 DEF EndThread, BaseInv, TypeOK, ThreadInv, OrderlyInv, LoopPcs, Vcpus
  <1>19. ASSUME NEW v \in Vcpus, InterruptGuest(v) PROVE OrderlyInv'
    BY <1>19 DEF InterruptGuest, KickHandler, BaseInv, TypeOK, ThreadInv, OrderlyInv, LoopPcs, Vcpus
  <1>20. ASSUME NEW v \in Vcpus, InterruptHost(v) PROVE OrderlyInv'
    BY <1>20 DEF InterruptHost, KickHandler, BaseInv, TypeOK, ThreadInv, OrderlyInv, LoopPcs, Vcpus
  <1>21. ASSUME NEW v \in Vcpus, ExitToDevice(v) PROVE OrderlyInv'
    BY <1>21 DEF ExitToDevice, BaseInv, TypeOK, ThreadInv, OrderlyInv, LoopPcs, Vcpus
  <1>22. ASSUME NEW v \in Vcpus, ExitAndLeave(v) PROVE OrderlyInv'
    BY <1>22 DEF ExitAndLeave, BaseInv, TypeOK, ThreadInv, OrderlyInv, LoopPcs, Vcpus
  <1>23. ASSUME NEW k \in Kickers, Kick(k) PROVE OrderlyInv'
    BY <1>23 DEF Kick, BaseInv, TypeOK, ThreadInv, OrderlyInv, LoopPcs, Vcpus
  <1>24. ASSUME NEW k \in Kickers, KickSend(k) PROVE OrderlyInv'
    BY <1>24 DEF KickSend, SignalFirst, BaseInv, TypeOK, ThreadInv, OrderlyInv, LoopPcs, Vcpus
  <1>25. ASSUME NEW s \in Stoppers, Stop(s) PROVE OrderlyInv'
    BY <1>25 DEF Stop, StoreStop, BaseInv, TypeOK, ThreadInv, OrderlyInv, LoopPcs, Vcpus
  <1>26. ASSUME NEW s \in Stoppers, StopSend(s) PROVE OrderlyInv'
    BY <1>26 DEF StopSend, SignalAll, BaseInv, TypeOK, ThreadInv, OrderlyInv, LoopPcs, Vcpus
  <1>27. ASSUME SpawnVcpu PROVE OrderlyInv'
    BY <1>27 DEF SpawnVcpu, BaseInv, TypeOK, ThreadInv, OrderlyInv, LoopPcs, Vcpus
  <1>28. ASSUME SpawnFails PROVE OrderlyInv'
    BY <1>28 DEF SpawnFails, StoreStop, BaseInv, TypeOK, ThreadInv, OrderlyInv, LoopPcs, Vcpus
  <1>29. ASSUME SpawnFailsSend PROVE OrderlyInv'
    BY <1>29 DEF SpawnFailsSend, SignalAll, BaseInv, TypeOK, ThreadInv, OrderlyInv, LoopPcs, Vcpus
  <1>30. ASSUME AllSpawned PROVE OrderlyInv'
    BY <1>30 DEF AllSpawned, BaseInv, TypeOK, ThreadInv, OrderlyInv, LoopPcs, Vcpus
  <1>31. ASSUME JoinVcpu PROVE OrderlyInv'
    BY <1>31 DEF JoinVcpu, JoinResult, BaseInv, TypeOK, ThreadInv, OrderlyInv, LoopPcs, Vcpus
  <1>32. ASSUME Return PROVE OrderlyInv'
    BY <1>32 DEF Return, BaseInv, TypeOK, ThreadInv, OrderlyInv, LoopPcs, Vcpus
  <1>33. CASE UNCHANGED vars
    BY <1>33 DEF vars, vcpuVars, mainVars, BaseInv, TypeOK, ThreadInv, OrderlyInv, LoopPcs, Vcpus
  <1> QED
    BY <1>1, <1>2, <1>3, <1>4, <1>5, <1>6, <1>7, <1>8, <1>9, <1>10, <1>11, <1>12, <1>13, <1>14, <1>15, <1>16, <1>17, <1>18, <1>19, <1>20, <1>21, <1>22, <1>23, <1>24, <1>25, <1>26, <1>27, <1>28, <1>29, <1>30, <1>31, <1>32, <1>33
    DEF Next, VcpuStep, Interrupt, GuestStep, MainStep, Terminated

\* OrderlyInv is an invariant.
LEMMA OrderlyInvariance == Spec => []OrderlyInv
  <1>1. Init => OrderlyInv
    BY DEF Init, OrderlyInv, Holds, Unwound
  <1>2. BaseInv /\ OrderlyInv /\ [Next]_vars => OrderlyInv'
    BY OrderlyInvNext
  <1> QED  BY <1>1, <1>2, BaseInvariance, PTL DEF Spec

\* pthread_kill never sees the id of a joined thread that did not panic
\* (VmControl's kick, stop and unregister_vcpu_thread).
THEOREM NoStaleKill == Spec => []NoStaleThreadId
  <1>1. OrderlyInv => NoStaleThreadId
    BY RegisteredHolds DEF OrderlyInv, NoStaleThreadId, Joined, LoopPcs, Unwound
  <1> QED  BY <1>1, OrderlyInvariance, PTL

\* In a thread that did not panic, the signal handler never writes to an
\* unmapped kvm_run (kick_handler, VCPU::run).
THEOREM HandlerWritesMapped == Spec => []NoDanglingRunPtr
  <1>1. OrderlyInv => NoDanglingRunPtr
    BY DEF OrderlyInv, NoDanglingRunPtr, Mapped, LoopPcs, Unwound
  <1> QED  BY <1>1, OrderlyInvariance, PTL

-----------------------------------------------------------------------------
(* A kick is never lost.                                                   *)

\* After SignalFirst some vcpu comes back to take_devices_pending().
LEMMA SignalFirstReaches ==
    ASSUME BaseInv, OrderlyInv, SignalFirst, ~Panicked
    PROVE  \E v \in Vcpus : pc[v] \in PastPendingCheck => v \in sigpending'
  <1>1. CASE vcpu_threads = << >>
    <2>1. 1 \in Vcpus
      BY DEF Vcpus
    <2>2. ~Holds(vcpu_threads, 1)
      BY <1>1 DEF Holds
    <2>3. pc[1] \notin PastPendingCheck
      BY <2>1, <2>2 DEF BaseInv, RegInv, PastPendingCheck, LoopPcs
    <2> QED  BY <2>1, <2>3
  <1>2. CASE vcpu_threads # << >>
    <2> DEFINE h == Head(vcpu_threads)
    <2>1. h \in Vcpus /\ Holds(vcpu_threads, h)
      BY <1>2 DEF BaseInv, TypeOK, Holds
    <2>2. pc[h] \in LoopPcs
      BY <2>1 DEF OrderlyInv, Unwound, Panicked
    <2>3. h \in sigpending'
      BY <1>2, <2>1, <2>2 DEF SignalFirst, Alive, LoopPcs
    <2> QED  BY <2>1, <2>3
  <1> QED  BY <1>1, <1>2

\* A panic is never undone: only a thread in its loop gets a new result.
LEMMA PanickedStays ==
    ASSUME BaseInv, OrderlyInv, [Next]_vars, Panicked
    PROVE  Panicked'
  <1> USE DEF Goto, vcpuVars, mainVars
  <1>1. PICK w \in Vcpus : result[w] = "panic"
    BY DEF Panicked
  <1>2. pc[w] \in {"drop", "exiting", "done"}
    BY <1>1 DEF OrderlyInv, Unwound
  <1> SUFFICES result'[w] = "panic"
    BY DEF Panicked
  <1>3. ASSUME NEW v \in Vcpus, CheckStop(v) \/ DeviceError(v) \/ ExitAndLeave(v) \/ Panic(v)
        PROVE  result'[w] = "panic"
    BY <1>1, <1>2, <1>3 DEF CheckStop, DeviceError, ExitAndLeave, Panic, BaseInv, TypeOK
  <1>4. ASSUME NEW v \in Vcpus, VcpuStep(v) PROVE result'[w] = "panic"
    BY <1>1, <1>3, <1>4 DEF VcpuStep, SetRunPtr, RegisterVcpuThread, TakeDevicesPending,
        PollMmioDevices, EnterKvmRun, ClearImmediateExit, HandleExit, HandleReset,
        HandleResetSend, UnregisterVcpuThread, ClearRunPtr, LeaverStop, LeaverStopSend,
        DropVcpu, EndThread
  <1>5. ASSUME NEW v \in Vcpus, Interrupt(v) \/ GuestStep(v) PROVE result'[w] = "panic"
    BY <1>1, <1>3, <1>5 DEF Interrupt, InterruptGuest, InterruptHost, GuestStep, ExitToDevice
  <1>6. ASSUME NEW k \in Kickers, Kick(k) \/ KickSend(k) PROVE result'[w] = "panic"
    BY <1>1, <1>6 DEF Kick, KickSend
  <1>7. ASSUME NEW s \in Stoppers, Stop(s) \/ StopSend(s) PROVE result'[w] = "panic"
    BY <1>1, <1>7 DEF Stop, StopSend
  <1>8. ASSUME MainStep PROVE result'[w] = "panic"
    BY <1>1, <1>8 DEF MainStep, SpawnVcpu, SpawnFails, SpawnFailsSend, AllSpawned, JoinVcpu, Return
  <1>9. CASE UNCHANGED vars
    BY <1>1, <1>9 DEF vars
  <1> QED  BY <1>4, <1>5, <1>6, <1>7, <1>8, <1>9 DEF Next, Terminated

\* Every step keeps NoLostKick.
LEMMA NoLostKickNext ==
    BaseInv /\ OrderlyInv /\ NoLostKick /\ [Next]_vars => NoLostKick'
  <1> SUFFICES ASSUME BaseInv, OrderlyInv, NoLostKick, [Next]_vars,
                      devices_pending', ~should_stop', ~Panicked',
                      ~ \E k \in Kickers : kick_pc'[k] = "send"
               PROVE  \E u \in Vcpus :
                          pc'[u] \in PastPendingCheck => WillBeInterrupted(u)'
    BY DEF NoLostKick
  <1>0. ~Panicked
    BY PanickedStays
  <1> USE <1>0 DEF Goto, vcpuVars, mainVars
  <1>1. ASSUME NEW v \in Vcpus, SetRunPtr(v) PROVE \E u \in Vcpus : pc'[u] \in PastPendingCheck => WillBeInterrupted(u)'
    BY <1>1 DEF SetRunPtr, BaseInv, TypeOK, ThreadInv, NoLostKick, WillBeInterrupted, PastPendingCheck, LoopPcs
  <1>2. ASSUME NEW v \in Vcpus, RegisterVcpuThread(v) PROVE \E u \in Vcpus : pc'[u] \in PastPendingCheck => WillBeInterrupted(u)'
    BY <1>2 DEF RegisterVcpuThread, BaseInv, TypeOK, ThreadInv, NoLostKick, WillBeInterrupted, PastPendingCheck, LoopPcs
  <1>3. ASSUME NEW v \in Vcpus, CheckStop(v) PROVE \E u \in Vcpus : pc'[u] \in PastPendingCheck => WillBeInterrupted(u)'
    BY <1>3 DEF CheckStop, BaseInv, TypeOK, ThreadInv, NoLostKick, WillBeInterrupted, PastPendingCheck, LoopPcs
  <1>4. ASSUME NEW v \in Vcpus, TakeDevicesPending(v) PROVE \E u \in Vcpus : pc'[u] \in PastPendingCheck => WillBeInterrupted(u)'
    BY <1>4 DEF TakeDevicesPending, BaseInv, TypeOK, ThreadInv, NoLostKick, WillBeInterrupted, PastPendingCheck, LoopPcs
  <1>5. ASSUME NEW v \in Vcpus, PollMmioDevices(v) PROVE \E u \in Vcpus : pc'[u] \in PastPendingCheck => WillBeInterrupted(u)'
    BY <1>5 DEF PollMmioDevices, BaseInv, TypeOK, ThreadInv, NoLostKick, WillBeInterrupted, PastPendingCheck, LoopPcs
  <1>6. ASSUME NEW v \in Vcpus, EnterKvmRun(v) PROVE \E u \in Vcpus : pc'[u] \in PastPendingCheck => WillBeInterrupted(u)'
    BY <1>6 DEF EnterKvmRun, BaseInv, TypeOK, ThreadInv, NoLostKick, WillBeInterrupted, PastPendingCheck, LoopPcs
  <1>7. ASSUME NEW v \in Vcpus, ClearImmediateExit(v) PROVE \E u \in Vcpus : pc'[u] \in PastPendingCheck => WillBeInterrupted(u)'
    BY <1>7 DEF ClearImmediateExit, BaseInv, TypeOK, ThreadInv, NoLostKick, WillBeInterrupted, PastPendingCheck, LoopPcs
  <1>8. ASSUME NEW v \in Vcpus, HandleExit(v) PROVE \E u \in Vcpus : pc'[u] \in PastPendingCheck => WillBeInterrupted(u)'
    BY <1>8 DEF HandleExit, BaseInv, TypeOK, ThreadInv, NoLostKick, WillBeInterrupted, PastPendingCheck, LoopPcs
  <1>9. ASSUME NEW v \in Vcpus, HandleReset(v) PROVE \E u \in Vcpus : pc'[u] \in PastPendingCheck => WillBeInterrupted(u)'
    BY <1>9 DEF HandleReset, StoreStop, BaseInv, TypeOK, ThreadInv, NoLostKick, WillBeInterrupted, PastPendingCheck, LoopPcs
  <1>10. ASSUME NEW v \in Vcpus, HandleResetSend(v) PROVE \E u \in Vcpus : pc'[u] \in PastPendingCheck => WillBeInterrupted(u)'
    BY <1>10 DEF HandleResetSend, SignalAll, BaseInv, TypeOK, ThreadInv, NoLostKick, WillBeInterrupted, PastPendingCheck, LoopPcs
  <1>11. ASSUME NEW v \in Vcpus, DeviceError(v) PROVE \E u \in Vcpus : pc'[u] \in PastPendingCheck => WillBeInterrupted(u)'
    BY <1>11 DEF DeviceError, BaseInv, TypeOK, ThreadInv, NoLostKick, WillBeInterrupted, PastPendingCheck, LoopPcs
  <1>12. ASSUME NEW v \in Vcpus, Panic(v) PROVE \E u \in Vcpus : pc'[u] \in PastPendingCheck => WillBeInterrupted(u)'
    BY <1>12 DEF Panic, BaseInv, TypeOK, ThreadInv, NoLostKick, WillBeInterrupted, PastPendingCheck, LoopPcs
  <1>13. ASSUME NEW v \in Vcpus, UnregisterVcpuThread(v) PROVE \E u \in Vcpus : pc'[u] \in PastPendingCheck => WillBeInterrupted(u)'
    BY <1>13 DEF UnregisterVcpuThread, BaseInv, TypeOK, ThreadInv, NoLostKick, WillBeInterrupted, PastPendingCheck, LoopPcs
  <1>14. ASSUME NEW v \in Vcpus, ClearRunPtr(v) PROVE \E u \in Vcpus : pc'[u] \in PastPendingCheck => WillBeInterrupted(u)'
    BY <1>14 DEF ClearRunPtr, BaseInv, TypeOK, ThreadInv, NoLostKick, WillBeInterrupted, PastPendingCheck, LoopPcs
  <1>15. ASSUME NEW v \in Vcpus, LeaverStop(v) PROVE \E u \in Vcpus : pc'[u] \in PastPendingCheck => WillBeInterrupted(u)'
    BY <1>15 DEF LeaverStop, StoreStop, BaseInv, TypeOK, ThreadInv, NoLostKick, WillBeInterrupted, PastPendingCheck, LoopPcs
  <1>16. ASSUME NEW v \in Vcpus, LeaverStopSend(v) PROVE \E u \in Vcpus : pc'[u] \in PastPendingCheck => WillBeInterrupted(u)'
    BY <1>16 DEF LeaverStopSend, SignalAll, BaseInv, TypeOK, ThreadInv, NoLostKick, WillBeInterrupted, PastPendingCheck, LoopPcs
  <1>17. ASSUME NEW v \in Vcpus, DropVcpu(v) PROVE \E u \in Vcpus : pc'[u] \in PastPendingCheck => WillBeInterrupted(u)'
    BY <1>17 DEF DropVcpu, BaseInv, TypeOK, ThreadInv, NoLostKick, WillBeInterrupted, PastPendingCheck, LoopPcs
  <1>18. ASSUME NEW v \in Vcpus, EndThread(v) PROVE \E u \in Vcpus : pc'[u] \in PastPendingCheck => WillBeInterrupted(u)'
    BY <1>18 DEF EndThread, BaseInv, TypeOK, ThreadInv, NoLostKick, WillBeInterrupted, PastPendingCheck, LoopPcs
  <1>19. ASSUME NEW v \in Vcpus, InterruptGuest(v) PROVE \E u \in Vcpus : pc'[u] \in PastPendingCheck => WillBeInterrupted(u)'
    BY <1>19 DEF InterruptGuest, KickHandler, BaseInv, TypeOK, ThreadInv, NoLostKick, WillBeInterrupted, PastPendingCheck, LoopPcs
  <1>20. ASSUME NEW v \in Vcpus, InterruptHost(v) PROVE \E u \in Vcpus : pc'[u] \in PastPendingCheck => WillBeInterrupted(u)'
    BY <1>20 DEF InterruptHost, KickHandler, BaseInv, TypeOK, ThreadInv, NoLostKick, WillBeInterrupted, PastPendingCheck, LoopPcs
  <1>21. ASSUME NEW v \in Vcpus, ExitToDevice(v) PROVE \E u \in Vcpus : pc'[u] \in PastPendingCheck => WillBeInterrupted(u)'
    BY <1>21 DEF ExitToDevice, BaseInv, TypeOK, ThreadInv, NoLostKick, WillBeInterrupted, PastPendingCheck, LoopPcs
  <1>22. ASSUME NEW v \in Vcpus, ExitAndLeave(v) PROVE \E u \in Vcpus : pc'[u] \in PastPendingCheck => WillBeInterrupted(u)'
    BY <1>22 DEF ExitAndLeave, BaseInv, TypeOK, ThreadInv, NoLostKick, WillBeInterrupted, PastPendingCheck, LoopPcs
  <1>23. ASSUME NEW k \in Kickers, Kick(k) PROVE \E u \in Vcpus : pc'[u] \in PastPendingCheck => WillBeInterrupted(u)'
    BY <1>23 DEF Kick, BaseInv, TypeOK, ThreadInv, NoLostKick, WillBeInterrupted, PastPendingCheck, LoopPcs
  <1>24. ASSUME NEW k \in Kickers, KickSend(k) PROVE \E u \in Vcpus : pc'[u] \in PastPendingCheck => WillBeInterrupted(u)'
    <2>1. PICK u \in Vcpus : pc[u] \in PastPendingCheck => u \in sigpending'
      BY <1>24, SignalFirstReaches DEF KickSend
    <2> QED  BY <1>24, <2>1 DEF KickSend, WillBeInterrupted
  <1>25. ASSUME NEW s \in Stoppers, Stop(s) PROVE \E u \in Vcpus : pc'[u] \in PastPendingCheck => WillBeInterrupted(u)'
    BY <1>25 DEF Stop, StoreStop, BaseInv, TypeOK, ThreadInv, NoLostKick, WillBeInterrupted, PastPendingCheck, LoopPcs
  <1>26. ASSUME NEW s \in Stoppers, StopSend(s) PROVE \E u \in Vcpus : pc'[u] \in PastPendingCheck => WillBeInterrupted(u)'
    BY <1>26 DEF StopSend, SignalAll, BaseInv, TypeOK, ThreadInv, NoLostKick, WillBeInterrupted, PastPendingCheck, LoopPcs
  <1>27. ASSUME SpawnVcpu PROVE \E u \in Vcpus : pc'[u] \in PastPendingCheck => WillBeInterrupted(u)'
    BY <1>27 DEF SpawnVcpu, BaseInv, TypeOK, ThreadInv, NoLostKick, WillBeInterrupted, PastPendingCheck, LoopPcs
  <1>28. ASSUME SpawnFails PROVE \E u \in Vcpus : pc'[u] \in PastPendingCheck => WillBeInterrupted(u)'
    BY <1>28 DEF SpawnFails, StoreStop, BaseInv, TypeOK, ThreadInv, NoLostKick, WillBeInterrupted, PastPendingCheck, LoopPcs
  <1>29. ASSUME SpawnFailsSend PROVE \E u \in Vcpus : pc'[u] \in PastPendingCheck => WillBeInterrupted(u)'
    BY <1>29 DEF SpawnFailsSend, SignalAll, BaseInv, TypeOK, ThreadInv, NoLostKick, WillBeInterrupted, PastPendingCheck, LoopPcs
  <1>30. ASSUME AllSpawned PROVE \E u \in Vcpus : pc'[u] \in PastPendingCheck => WillBeInterrupted(u)'
    BY <1>30 DEF AllSpawned, BaseInv, TypeOK, ThreadInv, NoLostKick, WillBeInterrupted, PastPendingCheck, LoopPcs
  <1>31. ASSUME JoinVcpu PROVE \E u \in Vcpus : pc'[u] \in PastPendingCheck => WillBeInterrupted(u)'
    BY <1>31 DEF JoinVcpu, JoinResult, BaseInv, TypeOK, ThreadInv, NoLostKick, WillBeInterrupted, PastPendingCheck, LoopPcs
  <1>32. ASSUME Return PROVE \E u \in Vcpus : pc'[u] \in PastPendingCheck => WillBeInterrupted(u)'
    BY <1>32 DEF Return, BaseInv, TypeOK, ThreadInv, NoLostKick, WillBeInterrupted, PastPendingCheck, LoopPcs
  <1>33. CASE UNCHANGED vars
    BY <1>33 DEF vars, vcpuVars, mainVars, BaseInv, TypeOK, ThreadInv, NoLostKick, WillBeInterrupted, PastPendingCheck, LoopPcs
  <1> QED
    BY <1>1, <1>2, <1>3, <1>4, <1>5, <1>6, <1>7, <1>8, <1>9, <1>10, <1>11, <1>12, <1>13, <1>14, <1>15, <1>16, <1>17, <1>18, <1>19, <1>20, <1>21, <1>22, <1>23, <1>24, <1>25, <1>26, <1>27, <1>28, <1>29, <1>30, <1>31, <1>32, <1>33
    DEF Next, VcpuStep, Interrupt, GuestStep, MainStep, Terminated

\* Unless a thread has panicked, a kick that was signalled leaves some vcpu on
\* its way back to take_devices_pending(), wherever the threads were when it
\* came (VmControl::kick, VCPU::run_loop, kick_handler).
THEOREM KickNeverLost == Spec => []NoLostKick
  <1>1. Init => NoLostKick
    BY DEF Init, NoLostKick
  <1>2. BaseInv /\ OrderlyInv /\ NoLostKick /\ [Next]_vars => NoLostKick'
    BY NoLostKickNext
  <1> QED  BY <1>1, <1>2, BaseInvariance, OrderlyInvariance, PTL DEF Spec

-----------------------------------------------------------------------------
(* VM::run reports every error.                                            *)

\* Vcpu v has ended with an error that VM::run has to report.
Failed(v) == result[v] \in {"err", "panic"}

\* What res stands for at every point of VM::run: before joining, whether a
\* spawn has failed; while joining, that or a failed vcpu among the joined.
ReportInv ==
    /\ main_pc = "spawn" =>
           /\ res = "ok"
           /\ \A v \in Vcpus : v < main_i => pc[v] # "unspawned"
    /\ main_pc = "stop_send" => res = "err" /\ \E v \in Vcpus : pc[v] = "unspawned"
    /\ main_pc = "join" =>
           (res = "err" <=>
                \E v \in Vcpus : pc[v] = "unspawned" \/ (v < main_i /\ Failed(v)))
    /\ ErrorsReported

\* A step of any thread but the main one.
OtherStep ==
    \/ \E v \in Vcpus : VcpuStep(v) \/ Interrupt(v) \/ GuestStep(v)
    \/ \E k \in Kickers : Kick(k) \/ KickSend(k)
    \/ \E s \in Stoppers : Stop(s) \/ StopSend(s)

\* The other threads leave the main thread's variables, the threads that are
\* yet to be spawned and the results of the ended ones alone.
LEMMA OtherStepFrame ==
    ASSUME BaseInv, OtherStep
    PROVE  /\ UNCHANGED mainVars
           /\ \A w \in Vcpus : pc'[w] = "unspawned" <=> pc[w] = "unspawned"
           /\ \A w \in Vcpus : pc[w] = "done" => result'[w] = result[w]
  <1> DEFINE Frame ==
        /\ UNCHANGED mainVars
        /\ \A w \in Vcpus : pc'[w] = "unspawned" <=> pc[w] = "unspawned"
        /\ \A w \in Vcpus : pc[w] = "done" => result'[w] = result[w]
  <1> USE DEF Goto, vcpuVars, mainVars
  <1>1. ASSUME NEW v \in Vcpus, CheckStop(v) \/ DeviceError(v) \/ Panic(v) \/ ExitAndLeave(v)
        PROVE  Frame
    BY <1>1 DEF CheckStop, DeviceError, Panic, ExitAndLeave, BaseInv, TypeOK
  <1>2. ASSUME NEW v \in Vcpus,
               \/ SetRunPtr(v) \/ RegisterVcpuThread(v) \/ TakeDevicesPending(v)
               \/ PollMmioDevices(v) \/ EnterKvmRun(v) \/ ClearImmediateExit(v)
        PROVE  Frame
    BY <1>2 DEF SetRunPtr, RegisterVcpuThread, TakeDevicesPending, PollMmioDevices,
        EnterKvmRun, ClearImmediateExit, BaseInv, TypeOK
  <1>3. ASSUME NEW v \in Vcpus,
               \/ HandleExit(v) \/ HandleReset(v) \/ HandleResetSend(v)
               \/ UnregisterVcpuThread(v) \/ ClearRunPtr(v)
        PROVE  Frame
    BY <1>3 DEF HandleExit, HandleReset, HandleResetSend, UnregisterVcpuThread,
        ClearRunPtr, BaseInv, TypeOK
  <1>4. ASSUME NEW v \in Vcpus,
               LeaverStop(v) \/ LeaverStopSend(v) \/ DropVcpu(v) \/ EndThread(v)
        PROVE  Frame
    BY <1>4 DEF LeaverStop, LeaverStopSend, DropVcpu, EndThread, BaseInv, TypeOK
  <1>5. ASSUME NEW v \in Vcpus, Interrupt(v) \/ ExitToDevice(v)
        PROVE  Frame
    BY <1>5 DEF Interrupt, InterruptGuest, InterruptHost, ExitToDevice, BaseInv, TypeOK
  <1>6. ASSUME NEW k \in Kickers, Kick(k) \/ KickSend(k)
        PROVE  Frame
    BY <1>6 DEF Kick, KickSend
  <1>7. ASSUME NEW s \in Stoppers, Stop(s) \/ StopSend(s)
        PROVE  Frame
    BY <1>7 DEF Stop, StopSend
  <1> HIDE DEF Frame
  <1>8. Frame
    BY <1>1, <1>2, <1>3, <1>4, <1>5, <1>6, <1>7 DEF OtherStep, VcpuStep, GuestStep
  <1> QED  BY <1>8 DEF Frame

\* Every step keeps ReportInv.
LEMMA ReportInvNext ==
    BaseInv /\ OrderlyInv /\ ReportInv /\ [Next]_vars => ReportInv'
  <1> SUFFICES ASSUME BaseInv, OrderlyInv, ReportInv, [Next]_vars PROVE ReportInv'
    OBVIOUS
  <1>0. main_i \in Int /\ \A v \in Vcpus : v \in Int
    BY DEF BaseInv, TypeOK, Vcpus
  <1>1. ASSUME Running, OtherStep PROVE ReportInv'
    <2>1. /\ main_pc' = main_pc /\ main_i' = main_i /\ res' = res
          /\ \A w \in Vcpus : pc'[w] = "unspawned" <=> pc[w] = "unspawned"
          /\ \A w \in Vcpus : pc[w] = "done" => result'[w] = result[w]
      BY <1>1, OtherStepFrame DEF mainVars
    <2>2. main_pc = "join" => \A w \in Vcpus : w < main_i => (Failed(w)' <=> Failed(w))
      BY <2>1 DEF OrderlyInv, Failed
    <2>3. main_pc' # "exited"
      BY <1>1, <2>1 DEF Running
    <2> QED  BY <2>1, <2>2, <2>3 DEF ReportInv, ErrorsReported
  <1>2. ASSUME SpawnVcpu PROVE ReportInv'
    <2>1. /\ main_pc' = "spawn" /\ res' = "ok"
          /\ main_i' = main_i + 1
      BY <1>2 DEF SpawnVcpu, ReportInv
    <2>2. \A v \in Vcpus : v < main_i' => pc'[v] # "unspawned"
      BY <1>0, <1>2, <2>1 DEF SpawnVcpu, ReportInv, BaseInv, TypeOK
    <2> QED  BY <2>1, <2>2 DEF ReportInv, ErrorsReported
  <1>3. ASSUME SpawnFails PROVE ReportInv'
    <2>1. pc[main_i] = "unspawned" /\ main_i \in Vcpus
      BY <1>0, <1>3 DEF SpawnFails, BaseInv, ThreadInv
    <2> QED  BY <1>3, <2>1 DEF SpawnFails, vcpuVars, ReportInv, ErrorsReported
  <1>4. ASSUME SpawnFailsSend PROVE ReportInv'
    BY <1>4 DEF SpawnFailsSend, vcpuVars, ReportInv, ErrorsReported
  <1>5. ASSUME AllSpawned PROVE ReportInv'
    <2>1. \A v \in Vcpus : pc'[v] # "unspawned" /\ ~(v < main_i')
      BY <1>5 DEF AllSpawned, vcpuVars, ReportInv, Vcpus
    <2>2. main_pc' = "join" /\ res' = "ok"
      BY <1>5 DEF AllSpawned, ReportInv
    <2> QED  BY <2>1, <2>2 DEF ReportInv, ErrorsReported
  <1>6. ASSUME JoinVcpu PROVE ReportInv'
    <2>1. /\ main_pc = "join" /\ main_pc' = "join" /\ main_i' = main_i + 1
          /\ pc' = pc /\ result' = result /\ main_i \in Vcpus
      BY <1>6 DEF JoinVcpu, vcpuVars
    <2>2. \A v \in Vcpus : v < main_i' <=> v < main_i \/ v = main_i
      BY <1>0, <2>1
    <2>3. res' = "err" <=> res = "err" \/ Failed(main_i)
      <3>1. result[main_i] \in {"ok", "err", "panic"}
        BY <1>6 DEF JoinVcpu, BaseInv, TypeOK, ThreadInv, LeftPcs
      <3>2. res \in {"ok", "err"} /\ res' = IF res = "ok" THEN JoinResult(main_i) ELSE res
        BY <1>6 DEF JoinVcpu, BaseInv, TypeOK
      <3> QED  BY <3>1, <3>2 DEF JoinResult, Failed
    <2>4. \A v : Failed(v)' <=> Failed(v)
      BY <2>1 DEF Failed
    <2> QED  BY <2>1, <2>2, <2>3, <2>4 DEF ReportInv, ErrorsReported
  <1>7. ASSUME Return PROVE ReportInv'
    <2>1. /\ main_pc = "join" /\ main_pc' = "exited" /\ res' = res
          /\ pc' = pc /\ result' = result
          /\ main_i \in Vcpus => pc[main_i] = "unspawned"
      BY <1>7 DEF Return, vcpuVars
    <2>2. CASE main_i \in Vcpus
      BY <2>1, <2>2 DEF ReportInv, ErrorsReported
    <2>3. CASE main_i \notin Vcpus
      <3>1. \A v \in Vcpus : v < main_i
        BY <2>3 DEF BaseInv, TypeOK, Vcpus
      <3> QED  BY <2>1, <3>1 DEF ReportInv, ErrorsReported, Failed
    <2> QED  BY <2>2, <2>3
  <1>8. CASE UNCHANGED vars
    BY <1>8 DEF vars, vcpuVars, mainVars, ReportInv, ErrorsReported, Failed
  <1> QED
    BY <1>1, <1>2, <1>3, <1>4, <1>5, <1>6, <1>7, <1>8
    DEF Next, OtherStep, MainStep, Terminated

\* VM::run returns an error exactly if a vcpu failed, panicked or could not be
\* spawned, in whatever order the vcpus end (VM::run's spawn and join loops).
THEOREM ErrorsReportedCorrect == Spec => []ErrorsReported
  <1>1. Init => ReportInv
    BY DEF Init, ReportInv, ErrorsReported, Vcpus
  <1>2. BaseInv /\ OrderlyInv /\ ReportInv /\ [Next]_vars => ReportInv'
    BY ReportInvNext
  <1>3. ReportInv => ErrorsReported
    BY DEF ReportInv
  <1> QED  BY <1>1, <1>2, <1>3, BaseInvariance, OrderlyInvariance, PTL DEF Spec
=============================================================================
