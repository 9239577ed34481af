---------------------------- MODULE PowerSuspend ----------------------------
(***************************************************************************)
(* The suspend service of the power HDI: the binder threads that call      *)
(* PowerInterfaceImpl and the detached thread that runs AutoSuspendLoop.   *)
(* The kernel's /sys/power files are external: wakeup_count accepts a      *)
(* write only of its present value while no wake lock is held, and a write *)
(* to /sys/power/state may succeed, fail, or fail with EINTR or EBUSY.     *)
(***************************************************************************)
EXTENDS Integers, FiniteSets

CONSTANTS Callers,      \* binder threads
          Daemons,      \* identities a spawned AutoSuspendLoop may get
          Callbacks,    \* callback objects a client may register
          Names,        \* wake lock names, never empty
          MaxEvents,    \* bound on the kernel's wakeup events
          NoThread,     \* nobody holds mutex_
          NoCallback    \* callback_ == nullptr

ASSUME DistinctAssumption ==
    /\ Callers \cap Daemons = {}
    /\ NoThread \notin Callers \cup Daemons
    /\ NoCallback \notin Callbacks
    /\ MaxEvents \in Nat

VARIABLES mutex,          \* the holder of mutex_
          suspending,     \* suspending_
          suspendRetry,   \* suspendRetry_
          callback,       \* callback_
          seen,           \* callback_ as each thread found it when it tested it
          asleep,         \* was the client of callback_ told OnSuspend, and not OnWakeup since?
          pc,             \* where each thread is
          count,          \* the wakeupCount each daemon holds
          events,         \* the kernel's wakeup count
          wakeLocks       \* the names held in /sys/power/wake_lock

told == <<seen, asleep>>
vars == <<mutex, suspending, suspendRetry, callback, told, pc, count, events, wakeLocks>>

Threads == Callers \cup Daemons

CallerLabels == {"idle", "startLocked"}

DaemonLabels == {"unborn", "sleep", "check", "park", "waiting", "write"}

SuspendLabels == {"onSuspend", "callSuspend", "lock", "state", "onWakeup", "callWakeup"}

TypeOK ==
    /\ mutex \in Threads \cup {NoThread}
    /\ suspending \in BOOLEAN
    /\ suspendRetry \in BOOLEAN
    /\ callback \in Callbacks \cup {NoCallback}
    /\ seen \in [Threads -> Callbacks \cup {NoCallback}]
    /\ asleep \in BOOLEAN
    /\ pc \in [Threads -> CallerLabels \cup DaemonLabels \cup SuspendLabels]
    /\ count \in [Daemons -> 0..MaxEvents]
    /\ events \in 0..MaxEvents
    /\ wakeLocks \subseteq Names

Init ==
    /\ mutex = NoThread
    /\ suspending = FALSE
    /\ suspendRetry = FALSE
    /\ callback = NoCallback
    /\ seen = [t \in Threads |-> NoCallback]
    /\ asleep = FALSE
    /\ pc = [t \in Threads |-> IF t \in Callers THEN "idle" ELSE "unborn"]
    /\ count = [d \in Daemons |-> 0]
    /\ events = 0
    /\ wakeLocks = {}

Goto(t, from, to) ==
    /\ pc[t] = from
    /\ pc' = [pc EXCEPT ![t] = to]

\* Where a thread goes once DoSuspend and its second notification are over.
AfterSuspend(t) == IF t \in Daemons THEN "sleep" ELSE "idle"

-----------------------------------------------------------------------------
(* Calls of the binder threads *)

\* A client may replace its callback or, with a null one, take it back.
RegisterCallback(t, c) ==
    /\ pc[t] = "idle"
    /\ mutex = NoThread
    /\ callback' = c
    /\ asleep' = (asleep /\ c = callback)
    /\ UNCHANGED <<mutex, suspending, suspendRetry, seen, pc, count, events, wakeLocks>>

\* StartSuspend takes mutex_ and asks for retries; StopSuspend and ForceSuspend
\* write suspendRetry_ without the lock and may run before it goes on.
StartSuspendEnter(t) ==
    /\ Goto(t, "idle", "startLocked")
    /\ mutex = NoThread
    /\ mutex' = t
    /\ suspendRetry' = TRUE
    /\ UNCHANGED <<suspending, callback, told, count, events, wakeLocks>>

\* A running daemon is notified: it wakes if it is waiting, else nothing remembers it.
StartSuspendNotify(t) ==
    /\ pc[t] = "startLocked"
    /\ suspending
    /\ \/ \E d \in Daemons :
            /\ pc[d] = "waiting"
            /\ pc' = [pc EXCEPT ![t] = "idle", ![d] = "write"]
       \/ /\ \A d \in Daemons : pc[d] # "waiting"
          /\ pc' = [pc EXCEPT ![t] = "idle"]
    /\ mutex' = NoThread
    /\ UNCHANGED <<suspending, suspendRetry, callback, told, count, events, wakeLocks>>

\* Mutant: suspending_ is not tested.
SpawnUntested(t) ==
    /\ pc[t] = "startLocked"
    /\ suspending' = TRUE
    /\ \E d \in Daemons :
         /\ pc[d] = "unborn"
         /\ pc' = [pc EXCEPT ![t] = "idle", ![d] = "sleep"]
    /\ mutex' = NoThread
    /\ UNCHANGED <<suspendRetry, callback, told, count, events, wakeLocks>>

StartSuspendSpawn(t) ==
    /\ pc[t] = "startLocked"
    /\ ~suspending
    /\ suspending' = TRUE
    /\ \E d \in Daemons :
         /\ pc[d] = "unborn"
         /\ pc' = [pc EXCEPT ![t] = "idle", ![d] = "sleep"]
    /\ mutex' = NoThread
    /\ UNCHANGED <<suspendRetry, callback, told, count, events, wakeLocks>>

StopSuspend(t) ==
    /\ pc[t] = "idle"
    /\ suspendRetry' = FALSE
    /\ UNCHANGED <<mutex, suspending, callback, told, pc, count, events, wakeLocks>>

ForceSuspend(t) ==
    /\ Goto(t, "idle", "onSuspend")
    /\ suspendRetry' = FALSE
    /\ UNCHANGED <<mutex, suspending, callback, told, count, events, wakeLocks>>

\* Mutant: no lock_guard.
SuspendBlockUnlocked(t, n) ==
    /\ pc[t] = "idle"
    /\ wakeLocks' \in {wakeLocks, wakeLocks \cup {n}}
    /\ UNCHANGED <<mutex, suspending, suspendRetry, callback, told, pc, count, events>>

\* Opening or writing the file may fail, which leaves the kernel as it was.
SuspendBlock(t, n) ==
    /\ pc[t] = "idle"
    /\ mutex = NoThread
    /\ wakeLocks' \in {wakeLocks, wakeLocks \cup {n}}
    /\ UNCHANGED <<mutex, suspending, suspendRetry, callback, told, pc, count, events>>

SuspendUnblock(t, n) ==
    /\ pc[t] = "idle"
    /\ mutex = NoThread
    /\ wakeLocks' \in {wakeLocks, wakeLocks \ {n}}
    /\ UNCHANGED <<mutex, suspending, suspendRetry, callback, told, pc, count, events>>

-----------------------------------------------------------------------------
(* AutoSuspendLoop, one action per step another thread can see *)

\* ReadWakeCount returns nothing, or the kernel's present count.
ReadWakeCount(d) ==
    /\ pc[d] = "sleep"
    /\ \/ UNCHANGED <<pc, count>>
       \/ /\ pc' = [pc EXCEPT ![d] = "check"]
          /\ count' = [count EXCEPT ![d] = events]
    /\ UNCHANGED <<mutex, suspending, suspendRetry, callback, told, events, wakeLocks>>

\* Mutant: the loop never waits.
NeverPark(d) ==
    /\ Goto(d, "check", "write")
    /\ UNCHANGED <<mutex, suspending, suspendRetry, callback, told, count, events, wakeLocks>>

CheckRetry(d) ==
    /\ Goto(d, "check", IF suspendRetry THEN "write" ELSE "park")
    /\ UNCHANGED <<mutex, suspending, suspendRetry, callback, told, count, events, wakeLocks>>

\* Between the check and this step a notification finds nobody waiting.
Park(d) ==
    /\ Goto(d, "park", "waiting")
    /\ UNCHANGED <<mutex, suspending, suspendRetry, callback, told, count, events, wakeLocks>>

\* suspendCv_.wait has no predicate: a spurious wakeup goes straight on.
SpuriousWakeup(d) ==
    /\ Goto(d, "waiting", "write")
    /\ UNCHANGED <<mutex, suspending, suspendRetry, callback, told, count, events, wakeLocks>>

\* The kernel takes the count only when no event came since it was read.
KernelAccepts(d) == count[d] = events /\ wakeLocks = {}

WriteWakeCount(d) ==
    /\ \/ /\ KernelAccepts(d)
          /\ Goto(d, "write", "onSuspend")
       \/ Goto(d, "write", "sleep")
    /\ UNCHANGED <<mutex, suspending, suspendRetry, callback, told, count, events, wakeLocks>>

-----------------------------------------------------------------------------
(* NotifyCallback and DoSuspend, run by the daemon and by ForceSuspend *)

\* The null check and the call are two reads of callback_, both without mutex_.
NotifyCallback(t) ==
    /\ \/ /\ callback = NoCallback
          /\ \/ Goto(t, "onSuspend", "lock")
             \/ Goto(t, "onWakeup", AfterSuspend(t))
       \/ /\ callback # NoCallback
          /\ \/ Goto(t, "onSuspend", "callSuspend")
             \/ Goto(t, "onWakeup", "callWakeup")
    /\ seen' = [seen EXCEPT ![t] = callback]
    /\ UNCHANGED <<mutex, suspending, suspendRetry, callback, asleep, count, events, wakeLocks>>

\* Mutant: the client is told nothing after a suspend.
CallSuspendOnly(t) ==
    /\ \E c \in {seen[t], callback} \ {NoCallback} :
        \/ Goto(t, "callSuspend", "lock") /\ asleep' = (asleep \/ c = callback)
        \/ Goto(t, "callWakeup", AfterSuspend(t)) /\ UNCHANGED asleep
    /\ seen' = [seen EXCEPT ![t] = NoCallback]
    /\ UNCHANGED <<mutex, suspending, suspendRetry, callback, count, events, wakeLocks>>

\* If callback_ was replaced since the check, the call may still reach the client it
\* was.
CallCallback(t) ==
    /\ \E c \in {seen[t], callback} \ {NoCallback} :
        \/ Goto(t, "callSuspend", "lock") /\ asleep' = (asleep \/ c = callback)
        \/ Goto(t, "callWakeup", AfterSuspend(t)) /\ asleep' = (asleep /\ c # callback)
    /\ seen' = [seen EXCEPT ![t] = NoCallback]
    /\ UNCHANGED <<mutex, suspending, suspendRetry, callback, count, events, wakeLocks>>

\* Or it finds a null pointer or an object that went with the last reference to it:
\* the process dies, and is started again with nothing but what the kernel keeps.
CallDies(t) ==
    /\ pc[t] \in {"callSuspend", "callWakeup"}
    /\ callback # seen[t]
    /\ mutex' = NoThread
    /\ suspending' = FALSE
    /\ suspendRetry' = FALSE
    /\ callback' = NoCallback
    /\ asleep' = FALSE
    /\ seen' = [s \in Threads |-> NoCallback]
    /\ pc' = [s \in Threads |-> IF s \in Callers THEN "idle" ELSE "unborn"]
    /\ count' = [d \in Daemons |-> 0]
    /\ UNCHANGED <<events, wakeLocks>>

\* Mutant: no lock_guard.
DoSuspendUnlocked(t) ==
    /\ Goto(t, "lock", "state")
    /\ mutex' = t
    /\ UNCHANGED <<suspending, suspendRetry, callback, told, count, events, wakeLocks>>

DoSuspendLock(t) ==
    /\ Goto(t, "lock", "state")
    /\ mutex = NoThread
    /\ mutex' = t
    /\ UNCHANGED <<suspending, suspendRetry, callback, told, count, events, wakeLocks>>

\* EINTR or EBUSY: the write is tried again with mutex_ still held.
DoSuspendRetry(t) ==
    /\ pc[t] = "state"
    /\ UNCHANGED vars

\* The file does not open, or its write succeeds or fails for good.
DoSuspendDone(t) ==
    /\ Goto(t, "state", "onWakeup")
    /\ mutex' = NoThread
    /\ UNCHANGED <<suspending, suspendRetry, callback, told, count, events, wakeLocks>>

-----------------------------------------------------------------------------
\* External: the kernel counts a wakeup event.
WakeupEvent ==
    /\ events < MaxEvents
    /\ events' = events + 1
    /\ UNCHANGED <<mutex, suspending, suspendRetry, callback, told, pc, count, wakeLocks>>

CallerNext(t) ==
    \/ \E c \in Callbacks \cup {NoCallback} : RegisterCallback(t, c)
    \/ StartSuspendEnter(t)
    \/ StartSuspendNotify(t)
    \/ StartSuspendSpawn(t)
    \/ StopSuspend(t)
    \/ ForceSuspend(t)
    \/ \E n \in Names : SuspendBlock(t, n) \/ SuspendUnblock(t, n)

LoopNext(d) ==
    \/ ReadWakeCount(d)
    \/ CheckRetry(d)
    \/ Park(d)
    \/ WriteWakeCount(d)

SuspendNext(t) ==
    \/ NotifyCallback(t)
    \/ CallCallback(t)
    \/ CallDies(t)
    \/ DoSuspendLock(t)
    \/ DoSuspendRetry(t)
    \/ DoSuspendDone(t)

Next ==
    \/ \E t \in Callers : CallerNext(t)
    \/ \E d \in Daemons : LoopNext(d) \/ SpuriousWakeup(d)
    \/ \E t \in Threads : SuspendNext(t)
    \/ WakeupEvent

Spec == Init /\ [][Next]_vars

\* Threads that hold no lock keep running, std::mutex is acquired by a thread
\* that keeps finding it free, and the kernel answers EBUSY only finitely often.
Fairness ==
    /\ \A t \in Callers : WF_vars(StartSuspendNotify(t) \/ StartSuspendSpawn(t))
    /\ \A d \in Daemons : WF_vars(LoopNext(d))
    /\ \A t \in Threads : /\ WF_vars(NotifyCallback(t) \/ CallCallback(t))
                          /\ SF_vars(DoSuspendLock(t))
                          /\ WF_vars(DoSuspendDone(t))

FairSpec == Spec /\ Fairness

-----------------------------------------------------------------------------
(* Properties *)

Alive(d) == pc[d] # "unborn"

\* However StartSuspend calls of several binder threads interleave, at most one
\* AutoSuspendLoop runs, and it runs exactly when suspending_ says so.
OneDaemon ==
    /\ \A d, e \in Daemons : Alive(d) /\ Alive(e) => d = e
    /\ suspending <=> \E d \in Daemons : Alive(d)

\* mutex_ is held by the one thread that writes /sys/power/state or is inside
\* StartSuspend, so a ForceSuspend and the daemon never write the state together.
SuspendExclusion ==
    \A t \in Threads : pc[t] \in {"state", "startLocked"} <=> mutex = t

\* No call gets a wake lock or replaces the callback while a thread stays inside
\* DoSuspend's critical section.
FrozenDuringStateWrite ==
    [][(\E t \in Threads : pc[t] = "state" /\ pc'[t] = "state") => UNCHANGED <<wakeLocks, callback>>]_vars

\* Once StopSuspend is the last word and the condition variable wakes spuriously only
\* finitely often, the daemon eventually starts no more suspends.
StopEventuallyQuiet ==
    (<>[]~suspendRetry /\ <>[][\A d \in Daemons : ~SpuriousWakeup(d)]_vars)
        => <>[](\A d \in Daemons : pc[d] \notin SuspendLabels)

\* A client told OnSuspend, by the daemon or by ForceSuspend, is later told OnWakeup
\* unless its callback is replaced or taken back, or the process dies, in between:
\* the thread that told it has to win mutex_ against the other callers, and tests
\* callback_ anew.
SuspendCallbackPaired == asleep ~> ~asleep
=============================================================================
