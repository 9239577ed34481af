------------------------- MODULE PowerSuspendProofs -------------------------
(* For any number of binder threads: one daemon, and mutual exclusion of the      *)
(* writers of /sys/power/state.                                                   *)
EXTENDS PowerSuspend, TLAPS

\* Each kind of thread stays in its own code.
Roles ==
    /\ \A t \in Callers : pc[t] \in CallerLabels \cup SuspendLabels
    /\ \A d \in Daemons : pc[d] \in DaemonLabels \cup SuspendLabels

IInv == TypeOK /\ Roles /\ SuspendExclusion /\ OneDaemon

USE DistinctAssumption

\* The initial state of the service satisfies the inductive invariant.
LEMMA InitIInv == Init => IInv
<1> SUFFICES ASSUME Init PROVE IInv
  OBVIOUS
<1> USE DEF Init, Threads, CallerLabels, DaemonLabels, SuspendLabels
<1>1. TypeOK
  <2>1. 0 \in 0..MaxEvents
    OBVIOUS
  <2>2. pc \in [Threads -> CallerLabels \cup DaemonLabels \cup SuspendLabels]
    OBVIOUS
  <2> QED BY <2>1, <2>2, Zenon DEF TypeOK
<1>2. Roles
  BY DEF Roles
<1>3. SuspendExclusion
  BY DEF SuspendExclusion
<1>4. OneDaemon
  <2>1. \A d \in Daemons : ~Alive(d)
    BY DEF Alive
  <2> QED BY <2>1, Zenon DEF OneDaemon
<1> QED BY <1>1, <1>2, <1>3, <1>4 DEF IInv

\* A step of a binder thread keeps the inductive invariant.
LEMMA CallerIInv ==
    ASSUME IInv, NEW t \in Callers, CallerNext(t)
    PROVE  IInv'
<1> USE DEF IInv, TypeOK, Roles, SuspendExclusion, OneDaemon, Alive, Threads, told,
            CallerLabels, DaemonLabels, SuspendLabels
<1>1. ASSUME NEW c \in Callbacks \cup {NoCallback}, RegisterCallback(t, c) PROVE IInv'
  BY <1>1 DEF RegisterCallback
<1>2. CASE StartSuspendEnter(t)
  BY <1>2 DEF StartSuspendEnter, Goto
<1>3. CASE StartSuspendNotify(t)
  BY <1>3 DEF StartSuspendNotify
<1>4. CASE StartSuspendSpawn(t)
  BY <1>4 DEF StartSuspendSpawn
<1>5. CASE StopSuspend(t)
  BY <1>5 DEF StopSuspend
<1>6. CASE ForceSuspend(t)
  BY <1>6 DEF ForceSuspend, Goto
<1>7. ASSUME NEW n \in Names, SuspendBlock(t, n) PROVE IInv'
  BY <1>7 DEF SuspendBlock
<1>8. ASSUME NEW n \in Names, SuspendUnblock(t, n) PROVE IInv'
  BY <1>8 DEF SuspendUnblock
<1> QED BY <1>1, <1>2, <1>3, <1>4, <1>5, <1>6, <1>7, <1>8 DEF CallerNext

\* A step of AutoSuspendLoop outside DoSuspend keeps the inductive invariant.
LEMMA LoopIInv ==
    ASSUME IInv, NEW d \in Daemons, LoopNext(d) \/ SpuriousWakeup(d)
    PROVE  IInv'
<1> USE DEF IInv, TypeOK, Roles, SuspendExclusion, OneDaemon, Alive, Threads, told,
            CallerLabels, DaemonLabels, SuspendLabels
<1>1. CASE ReadWakeCount(d)
  BY <1>1 DEF ReadWakeCount
<1>2. CASE CheckRetry(d)
  BY <1>2 DEF CheckRetry, Goto
<1>3. CASE Park(d)
  BY <1>3 DEF Park, Goto
<1>4. CASE WriteWakeCount(d)
  BY <1>4 DEF WriteWakeCount, Goto
<1>5. CASE SpuriousWakeup(d)
  BY <1>5 DEF SpuriousWakeup, Goto
<1> QED BY <1>1, <1>2, <1>3, <1>4, <1>5 DEF LoopNext

\* A step of NotifyCallback or DoSuspend, on either kind of thread, keeps it.
LEMMA SuspendIInv ==
    ASSUME IInv, NEW t \in Threads, SuspendNext(t)
    PROVE  IInv'
<1> USE DEF IInv, TypeOK, Roles, SuspendExclusion, OneDaemon, Alive, Threads, told,
            CallerLabels, DaemonLabels, SuspendLabels, AfterSuspend
<1>1. CASE NotifyCallback(t)
  BY <1>1 DEF NotifyCallback, Goto
<1>2. CASE CallCallback(t)
  <2>1. PICK c \in {seen[t], callback} \ {NoCallback} :
            \/ Goto(t, "callSuspend", "lock") /\ asleep' = (asleep \/ c = callback)
            \/ Goto(t, "callWakeup", AfterSuspend(t)) /\ asleep' = (asleep /\ c # callback)
    BY <1>2, Zenon DEF CallCallback
  <2>2. asleep' \in BOOLEAN
    BY <2>1, Zenon
  <2> QED  BY <1>2, <2>1, <2>2 DEF CallCallback, Goto
<1>3. CASE DoSuspendLock(t)
  BY <1>3 DEF DoSuspendLock, Goto
<1>4. CASE DoSuspendRetry(t)
  BY <1>4 DEF DoSuspendRetry, vars
<1>5. CASE DoSuspendDone(t)
  BY <1>5 DEF DoSuspendDone, Goto
<1>6. CASE CallDies(t)
  <2> USE <1>6 DEF CallDies
  <2>1. TypeOK'
    <3>1. 0 \in 0..MaxEvents
      OBVIOUS
    <3>2. count' \in [Daemons -> 0..MaxEvents]
      BY <3>1
    <3> QED  BY <3>2
  <2>2. Roles' /\ SuspendExclusion'
    OBVIOUS
  <2>3. OneDaemon'
    <3>1. \A d \in Daemons : ~Alive(d)'
      OBVIOUS
    <3> QED  BY <3>1, Zenon
  <2> QED  BY <2>1, <2>2, <2>3
<1> QED BY <1>1, <1>2, <1>3, <1>4, <1>5, <1>6 DEF SuspendNext

\* Every step of the service, and every stutter, keeps the inductive invariant.
LEMMA NextIInv == IInv /\ [Next]_vars => IInv'
<1> SUFFICES ASSUME IInv, [Next]_vars PROVE IInv'
  OBVIOUS
<1>1. CASE \E t \in Callers : CallerNext(t)
  BY <1>1, CallerIInv
<1>2. CASE \E d \in Daemons : LoopNext(d) \/ SpuriousWakeup(d)
  BY <1>2, LoopIInv
<1>3. CASE \E t \in Threads : SuspendNext(t)
  BY <1>3, SuspendIInv
<1>4. CASE WakeupEvent
  BY <1>4 DEF WakeupEvent, IInv, TypeOK, Roles, SuspendExclusion, OneDaemon, Alive, Threads, told
<1>5. CASE UNCHANGED vars
  BY <1>5 DEF vars, IInv, TypeOK, Roles, SuspendExclusion, OneDaemon, Alive, Threads, told
<1> QED BY <1>1, <1>2, <1>3, <1>4, <1>5 DEF Next

\* The state of the suspend service keeps its types.
THEOREM TypeCorrect == Spec => []TypeOK
<1>1. IInv => TypeOK
  BY DEF IInv
<1> QED BY <1>1, InitIInv, NextIInv, PTL DEF Spec

\* StartSuspend never starts a second AutoSuspendLoop, and suspending_ is true exactly
\* while one runs, for any number of callers.
THEOREM OneDaemonHolds == Spec => []OneDaemon
<1>1. IInv => OneDaemon
  BY DEF IInv
<1> QED BY <1>1, InitIInv, NextIInv, PTL DEF Spec

\* mutex_ is held exactly by the thread inside DoSuspend's or StartSuspend's critical
\* section, so no two threads write /sys/power/state together.
THEOREM SuspendExclusionHolds == Spec => []SuspendExclusion
<1>1. IInv => SuspendExclusion
  BY DEF IInv
<1> QED BY <1>1, InitIInv, NextIInv, PTL DEF Spec

\* While a thread stays in DoSuspend's critical section no call takes or drops a wake lock
\* or replaces the callback.
THEOREM FrozenDuringStateWriteHolds == Spec => FrozenDuringStateWrite
<1> DEFINE Frozen == (\E t \in Threads : pc[t] = "state" /\ pc'[t] = "state") => UNCHANGED <<wakeLocks, callback>>
<1>1. IInv /\ [Next]_vars => [Frozen]_vars
  <2> SUFFICES ASSUME IInv, Next, NEW s \in Threads, pc[s] = "state", pc'[s] = "state"
               PROVE  UNCHANGED <<wakeLocks, callback>>
    BY DEF vars
  <2>1. mutex = s /\ mutex # NoThread
    BY DEF IInv, SuspendExclusion, Threads
  <2>2. ASSUME NEW t \in Callers, CallerNext(t) PROVE UNCHANGED <<wakeLocks, callback>>
    BY <2>1, <2>2 DEF CallerNext, RegisterCallback, StartSuspendEnter, StartSuspendNotify,
       StartSuspendSpawn, StopSuspend, ForceSuspend, SuspendBlock, SuspendUnblock
  <2>3. ASSUME NEW d \in Daemons, LoopNext(d) \/ SpuriousWakeup(d)
        PROVE  UNCHANGED <<wakeLocks, callback>>
    BY <2>3 DEF LoopNext, ReadWakeCount, CheckRetry, Park, WriteWakeCount, SpuriousWakeup
  <2>4. ASSUME NEW t \in Threads, SuspendNext(t) PROVE UNCHANGED <<wakeLocks, callback>>
    BY <2>4 DEF SuspendNext, NotifyCallback, CallCallback, CallDies, DoSuspendLock, DoSuspendRetry,
       DoSuspendDone, vars
  <2>5. CASE WakeupEvent
    BY <2>5 DEF WakeupEvent
  <2> QED BY <2>2, <2>3, <2>4, <2>5 DEF Next
<1> QED BY <1>1, InitIInv, NextIInv, PTL DEF Spec, FrozenDuringStateWrite
=============================================================================
