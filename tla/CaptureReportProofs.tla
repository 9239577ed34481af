------------------------ MODULE CaptureReportProofs ------------------------
(***************************************************************************)
(* Proofs about the captures of several streams, single or continuous, for *)
(* any number of streams and frames and whatever the clock says.           *)
(***************************************************************************)
EXTENDS CaptureReport, FiniteSetTheorems, TLAPS

\* The streams that have been at Sync with frame i.
Arrived(i) == {t \in Streams : frame[t] > i \/ (frame[t] = i /\ pc[t] # "arrive")}

\* Inside Sync, past it, and about to be.
AtSync == {"decide", "wait", "asleep", "last"}
Passed == {"shutter", "ended"}
Past == {"last", "shutter", "ended"}

\* Nobody has gone past Sync with t's frame.
Leads(t) == \A u \in Streams : frame[u] <= frame[t] /\ (frame[u] = frame[t] => pc[u] \notin Passed)

\* Those a semaphore may have counted: the ones in it with a frame that nobody is past.
InSync(r) == {t \in Streams : pc[t] \in AtSync /\ Request(t) = r /\ Leads(t)}

SyncTypes ==
    /\ pc \in [Streams -> {"arrive", "decide", "wait", "asleep", "last", "shutter", "ended", "done"}]
    /\ frame \in [Streams -> 1..(Len(Frames) + 1)]
    /\ syncCount \in [Requests -> Nat]
    /\ \A s \in Streams : pc[s] = "done" <=> frame[s] = Len(Frames) + 1

CountedInSync == \A r \in Requests : syncCount[r] <= Cardinality(InSync(r))

\* A stream that is past Sync with its frame, or with the frame before, has all others at Sync.
AllArrived ==
    /\ \A s \in Streams : pc[s] \in Past => Arrived(frame[s]) = Streams
    /\ \A s \in Streams : frame[s] > 1 => Arrived(frame[s] - 1) = Streams

SyncInv == SyncTypes /\ CountedInSync /\ AllArrived
-----------------------------------------------------------------------------
\* The groups that SendMessage has put together, wherever they are now.
Groups == messageBox \union calls \union reported

Sent == UNION Groups

Senders(g) == {m.stream : m \in g}

\* A frame is past Sync with a stamp that it was given.
Stamped == \A s \in Streams : pc[s] \in Passed => <<stamp[Request(s)], frame[s]>> \in given

SentTypes ==
    \A m \in Sent :
        /\ m = [stream |-> m.stream, request |-> m.request, frame |-> m.frame, stamp |-> m.stamp, type |-> m.type]
        /\ m.stream \in Streams
        /\ m.frame \in 1..Len(Frames)
        /\ m.request = Frames[m.frame]
        /\ <<m.stamp, m.frame>> \in given

\* A group has messages of one type and with one stamp.
GroupsAgree == \A g \in Groups : IsFiniteSet(g) /\ \A m, n \in g : m.stamp = n.stamp /\ m.type = n.type

CallsComplete == \A g \in calls \union reported : Complete(g)

BoxInv == stamp \in [Requests -> Stamps] /\ Stamped /\ SentTypes /\ GroupsAgree /\ CallsComplete
-----------------------------------------------------------------------------
(* Sync *)

\* A stream that is not done has a frame to deliver, and a request.
LEMMA HasRequest ==
  ASSUME SyncTypes, NEW s \in Streams, pc[s] # "done"
  PROVE  frame[s] \in 1..Len(Frames) /\ Request(s) \in Requests /\ Request(s) = Frames[frame[s]]
<1>1. frame[s] \in 1..(Len(Frames) + 1) /\ frame[s] # Len(Frames) + 1
  BY DEF SyncTypes
<1>2. Len(Frames) \in Nat
  BY ReportAssumption
<1>3. frame[s] \in 1..Len(Frames)
  BY <1>1, <1>2
<1> QED BY <1>3, ReportAssumption DEF Request

\* Those that a semaphore may have counted are streams, with one frame.
LEMMA InSyncCount ==
  ASSUME NEW r
  PROVE  /\ IsFiniteSet(InSync(r))
         /\ Cardinality(InSync(r)) \in Nat
         /\ Cardinality(Streams) \in Nat
         /\ Cardinality(InSync(r)) >= Cardinality(Streams) => InSync(r) = Streams
<1>1. InSync(r) \in SUBSET Streams /\ IsFiniteSet(Streams)
  BY ReportAssumption DEF InSync
<1>2. /\ IsFiniteSet(InSync(r)) /\ Cardinality(InSync(r)) <= Cardinality(Streams)
      /\ Cardinality(InSync(r)) = Cardinality(Streams) => InSync(r) = Streams
  BY <1>1, FS_Subset
<1>3. Cardinality(InSync(r)) \in Nat /\ Cardinality(Streams) \in Nat
  BY <1>1, <1>2, FS_CardinalityType
<1> QED BY <1>2, <1>3

\* In the beginning no stream has a frame and no barrier has counted one.
LEMMA InitSync == Init => SyncInv
<1> SUFFICES ASSUME Init PROVE SyncInv
  OBVIOUS
<1>0. Len(Frames) \in Nat /\ (Frames = <<>> <=> Len(Frames) = 0)
  BY ReportAssumption
<1>1. SyncTypes
  BY <1>0 DEF SyncTypes, Init
<1>2. CountedInSync
  <2> SUFFICES ASSUME NEW r \in Requests PROVE syncCount[r] <= Cardinality(InSync(r))
    BY DEF CountedInSync
  <2> QED BY InSyncCount DEF Init
<1>3. AllArrived
  BY DEF AllArrived, Init, Past
<1> QED BY <1>1, <1>2, <1>3 DEF SyncInv

\* A step that takes no stream back, and starts no stream's next frame before all have
\* arrived with the one it delivers, keeps AllArrived.
LEMMA StillArrived ==
  ASSUME SyncInv, SyncTypes',
         \A i \in 1..Len(Frames) : Arrived(i) \subseteq Arrived(i)',
         \A s \in Streams :
            \/ frame'[s] = frame[s] /\ (pc'[s] \in Past => pc[s] \in Past \/ Arrived(frame[s]) = Streams)
            \/ frame'[s] = frame[s] + 1 /\ pc'[s] \notin Past /\ pc[s] \in Past
  PROVE  AllArrived'
<1>0. Len(Frames) \in Nat
  BY ReportAssumption
<1>1. \A i \in 1..Len(Frames) : Arrived(i) = Streams => Arrived(i)' = Streams
  BY DEF Arrived
<1>2. ASSUME NEW s \in Streams, pc'[s] \in Past PROVE Arrived(frame[s])' = Streams
  <2>1. frame'[s] = frame[s] /\ Arrived(frame[s]) = Streams
    BY <1>2 DEF SyncInv, AllArrived
  <2>2. frame'[s] \in 1..(Len(Frames) + 1) /\ pc'[s] # "done"
    BY <1>2 DEF SyncTypes, Past
  <2>3. frame'[s] \in 1..Len(Frames)
    BY <2>2, <1>0 DEF SyncTypes
  <2> QED BY <2>1, <2>3, <1>1 DEF Arrived
<1>3. ASSUME NEW s \in Streams, frame'[s] > 1 PROVE Arrived(frame[s] - 1)' = Streams
  <2>1. frame'[s] \in 1..(Len(Frames) + 1) /\ frame[s] \in 1..(Len(Frames) + 1)
    BY DEF SyncTypes, SyncInv
  <2>2. frame'[s] - 1 \in 1..Len(Frames)
    BY <2>1, <1>0, <1>3
  <2>3. Arrived(frame'[s] - 1) = Streams
    <3>1. CASE frame'[s] = frame[s]
      BY <3>1, <1>3 DEF SyncInv, AllArrived
    <3>2. CASE frame'[s] = frame[s] + 1 /\ pc[s] \in Past
      BY <3>2, <2>1 DEF SyncInv, AllArrived
    <3> QED BY <3>1, <3>2
  <2> QED BY <2>2, <2>3, <1>1 DEF Arrived
<1> QED BY <1>2, <1>3 DEF AllArrived

\* A step after which a semaphore counts what it did, or nothing, and may have counted
\* those that it might before.
LEMMA StillCounted ==
  ASSUME SyncInv, SyncTypes',
         \A r \in Requests : syncCount'[r] = 0 \/ (syncCount'[r] = syncCount[r] /\ InSync(r) \subseteq InSync(r)')
  PROVE  CountedInSync'
<1> SUFFICES ASSUME NEW r \in Requests PROVE syncCount'[r] <= Cardinality(InSync(r)')
  BY DEF CountedInSync
<1>1. InSync(r)' \in SUBSET Streams /\ IsFiniteSet(Streams)
  BY ReportAssumption DEF InSync
<1>2. IsFiniteSet(InSync(r)') /\ Cardinality(InSync(r)') \in Nat
  BY <1>1, FS_Subset, FS_CardinalityType
<1>3. syncCount[r] \in Nat /\ syncCount[r] <= Cardinality(InSync(r)) /\ Cardinality(InSync(r)) \in Nat
  BY InSyncCount DEF SyncInv, SyncTypes, CountedInSync
<1>4. InSync(r) \subseteq InSync(r)' => Cardinality(InSync(r)) <= Cardinality(InSync(r)')
  <2>1. InSync(r) \subseteq InSync(r)' => InSync(r) \in SUBSET (InSync(r)')
    OBVIOUS
  <2> QED BY <2>1, <1>2, FS_Subset
<1> QED BY <1>2, <1>3, <1>4

\* A stream that arrives finds nobody past Sync with its frame, so that Arrive adds one to
\* the counter and one to those it may count.
LEMMA ArriveSync ==
  ASSUME SyncInv, NEW s \in Streams, Arrive(s)
  PROVE  SyncInv'
<1>1. SyncTypes /\ pc[s] = "arrive" /\ frame' = frame /\ pc' = [pc EXCEPT ![s] = "decide"]
  BY DEF SyncInv, Arrive, Goes
<1>2. frame[s] \in 1..Len(Frames) /\ Request(s) \in Requests /\ Request(s) = Frames[frame[s]]
  BY <1>1, HasRequest
<1>3. syncCount' = [syncCount EXCEPT ![Request(s)] = @ + 1]
  BY DEF Arrive
<1>4. SyncTypes'
  BY <1>1, <1>2, <1>3 DEF SyncTypes
<1>5. \A i \in 1..Len(Frames) : Arrived(i) \subseteq Arrived(i)'
  BY <1>1 DEF Arrived, SyncTypes
<1>6. Leads(s)
  <2> SUFFICES ASSUME NEW u \in Streams PROVE frame[u] <= frame[s] /\ (frame[u] = frame[s] => pc[u] \notin Passed)
    BY DEF Leads
  <2>1. frame[u] \in Nat /\ frame[s] \in Nat /\ frame[s] >= 1
    BY <1>1 DEF SyncTypes
  <2>2. ASSUME frame[u] > frame[s] PROVE FALSE
    <3>1. s \in Arrived(frame[u] - 1)
      BY <2>1, <2>2 DEF SyncInv, AllArrived
    <3> QED BY <1>1, <2>1, <2>2, <3>1 DEF Arrived
  <2>3. ASSUME frame[u] = frame[s], pc[u] \in Passed PROVE FALSE
    <3>1. s \in Arrived(frame[u])
      BY <2>3 DEF SyncInv, AllArrived, Past, Passed
    <3> QED BY <1>1, <2>1, <2>3, <3>1 DEF Arrived
  <2> QED BY <2>1, <2>2, <2>3
<1>7. \A t \in Streams : Request(t)' = Request(t) /\ (Leads(t)' <=> Leads(t))
  <2>1. \A t \in Streams : Request(t)' = Request(t)
    BY <1>1 DEF Request
  <2>2. \A u \in Streams : pc'[u] \in Passed <=> pc[u] \in Passed
    BY <1>1 DEF SyncTypes, Passed
  <2> QED BY <1>1, <2>1, <2>2 DEF Leads
<1>8. CountedInSync'
  <2> SUFFICES ASSUME NEW r \in Requests PROVE syncCount'[r] <= Cardinality(InSync(r)')
    BY DEF CountedInSync
  <2>1. syncCount[r] \in Nat /\ syncCount[r] <= Cardinality(InSync(r))
    BY <1>1 DEF SyncInv, SyncTypes, CountedInSync
  <2>2. IsFiniteSet(InSync(r)) /\ Cardinality(InSync(r)) \in Nat
    BY InSyncCount
  <2>3. \A t \in Streams : t # s => pc'[t] = pc[t]
    BY <1>1 DEF SyncTypes
  <2>4. pc'[s] = "decide"
    BY <1>1 DEF SyncTypes
  <2>5. CASE r = Request(s)
    <3>1. InSync(r)' = InSync(r) \union {s} /\ s \notin InSync(r)
      BY <1>1, <1>6, <1>7, <2>3, <2>4, <2>5 DEF InSync, AtSync
    <3>2. Cardinality(InSync(r)') = Cardinality(InSync(r)) + 1
      BY <3>1, <2>2, FS_AddElement
    <3>3. syncCount'[r] = syncCount[r] + 1
      BY <2>5, <1>3, <1>1 DEF SyncTypes
    <3> QED BY <3>2, <3>3, <2>1, <2>2
  <2>6. CASE r # Request(s)
    <3>1. InSync(r)' = InSync(r)
      BY <1>7, <2>3, <2>6 DEF InSync
    <3>2. syncCount'[r] = syncCount[r]
      BY <2>6, <1>3, <1>1 DEF SyncTypes
    <3> QED BY <3>1, <3>2, <2>1
  <2> QED BY <2>5, <2>6
<1>9. AllArrived'
  <2>1. \A t \in Streams : frame'[t] = frame[t] /\ (pc'[t] \in Past => pc[t] \in Past)
    BY <1>1 DEF SyncTypes, Past
  <2> QED BY <2>1, <1>4, <1>5, StillArrived
<1> QED BY <1>4, <1>8, <1>9 DEF SyncInv

\* Decide takes a stream for the last one only when all have arrived: the counter that it
\* reads, whoever changed it, counts no more than those with one frame.
LEMMA DecideSync ==
  ASSUME SyncInv, NEW s \in Streams, Decide(s)
  PROVE  SyncInv'
<1>1. /\ SyncTypes /\ pc[s] = "decide" /\ frame' = frame /\ syncCount' = syncCount
      /\ \/ pc' = [pc EXCEPT ![s] = "wait"]
         \/ pc' = [pc EXCEPT ![s] = "last"] /\ ~(syncCount[Request(s)] < Cardinality(Streams))
  BY DEF SyncInv, Decide, Goes, semVars
<1>2. frame[s] \in 1..Len(Frames) /\ Request(s) \in Requests /\ Request(s) = Frames[frame[s]]
  BY <1>1, HasRequest
<1>3. SyncTypes'
  BY <1>1, <1>2 DEF SyncTypes
<1>4. \A i \in 1..Len(Frames) : Arrived(i) \subseteq Arrived(i)'
  BY <1>1 DEF Arrived, SyncTypes
<1>5. ASSUME ~(syncCount[Request(s)] < Cardinality(Streams))
      PROVE  Arrived(frame[s]) = Streams
  <2>1. syncCount[Request(s)] \in Nat /\ syncCount[Request(s)] <= Cardinality(InSync(Request(s)))
    BY <1>2, <1>1 DEF SyncInv, SyncTypes, CountedInSync
  <2>2. InSync(Request(s)) = Streams
    <3> DEFINE r == Request(s)
    <3>1. /\ Cardinality(InSync(r)) \in Nat /\ Cardinality(Streams) \in Nat
          /\ Cardinality(InSync(r)) >= Cardinality(Streams) => InSync(r) = Streams
      BY InSyncCount
    <3> HIDE DEF r
    <3>2. syncCount[r] \in Nat /\ syncCount[r] <= Cardinality(InSync(r)) /\ ~(syncCount[r] < Cardinality(Streams))
      BY <2>1, <1>5 DEF r
    <3>3. InSync(r) = Streams
      BY <3>1, <3>2
    <3> QED BY <3>3 DEF r
  <2>3. \A t \in Streams : pc[t] \in AtSync /\ frame[t] <= frame[s] /\ frame[s] <= frame[t]
    BY <2>2 DEF InSync, Leads
  <2>4. \A t \in Streams : frame[t] \in Nat /\ pc[t] # "arrive"
    BY <2>3, <1>1 DEF AtSync, SyncTypes
  <2> QED BY <2>3, <2>4 DEF Arrived
<1>6. CountedInSync'
  <2>1. \A t \in Streams : (pc'[t] \in AtSync <=> pc[t] \in AtSync) /\ (pc'[t] \in Passed <=> pc[t] \in Passed)
    BY <1>1 DEF SyncTypes, AtSync, Passed
  <2>2. \A t \in Streams : Request(t)' = Request(t)
    BY <1>1 DEF Request
  <2>3. \A r \in Requests : InSync(r) \subseteq InSync(r)'
    BY <1>1, <2>1, <2>2 DEF InSync, Leads
  <2> QED BY <1>1, <1>3, <2>3, StillCounted
<1>7. AllArrived'
  <2>1. \A t \in Streams : frame'[t] = frame[t] /\ (pc'[t] \in Past => pc[t] \in Past \/ Arrived(frame[t]) = Streams)
    BY <1>1, <1>5 DEF SyncTypes, Past
  <2> QED BY <2>1, <1>3, <1>4, StillArrived
<1> QED BY <1>3, <1>6, <1>7 DEF SyncInv

\* Going to sleep in RequestSemaphore::Sync leaves counters and frames alone.
LEMMA SleepSync ==
  ASSUME SyncInv, NEW s \in Streams, Sleep(s)
  PROVE  SyncInv'
<1>1. SyncTypes /\ pc[s] = "wait" /\ frame' = frame /\ syncCount' = syncCount /\ pc' = [pc EXCEPT ![s] = "asleep"]
  BY DEF SyncInv, Sleep, Goes, semVars
<1>2. SyncTypes'
  BY <1>1 DEF SyncTypes
<1>3. \A i \in 1..Len(Frames) : Arrived(i) \subseteq Arrived(i)'
  BY <1>1 DEF Arrived, SyncTypes
<1>4. CountedInSync'
  <2>1. \A t \in Streams : (pc'[t] \in AtSync <=> pc[t] \in AtSync) /\ (pc'[t] \in Passed <=> pc[t] \in Passed)
    BY <1>1 DEF SyncTypes, AtSync, Passed
  <2>2. \A t \in Streams : Request(t)' = Request(t)
    BY <1>1 DEF Request
  <2>3. \A r \in Requests : InSync(r) \subseteq InSync(r)'
    BY <1>1, <2>1, <2>2 DEF InSync, Leads
  <2> QED BY <1>1, <1>2, <2>3, StillCounted
<1>5. \A t \in Streams : frame'[t] = frame[t] /\ (pc'[t] \in Past => pc[t] \in Past)
  BY <1>1 DEF SyncTypes, Past
<1>6. AllArrived'
  BY <1>2, <1>3, <1>5, StillArrived
<1> QED BY <1>2, <1>4, <1>6 DEF SyncInv

\* A release that is not late finds every stream in or past its semaphore with its frame.
LEMMA ReleaseFinds ==
  ASSUME SyncInv, NEW s \in Streams, pc[s] = "last", ~Late(s),
         NEW t \in Streams, pc[t] \notin {"arrive", "done"}, Request(t) = Request(s)
  PROVE  frame[t] = frame[s]
<1>1. SyncTypes /\ t \in Arrived(frame[s])
  BY DEF SyncInv, AllArrived, Past
<1>2. frame[t] \in 1..Len(Frames) /\ frame[s] \in 1..Len(Frames) /\ Len(Frames) \in Nat
  BY <1>1, HasRequest, ReportAssumption
<1>3. ~(frame[s] < frame[t])
  BY <1>2 DEF Late
<1> QED BY <1>1, <1>2, <1>3 DEF Arrived

\* Release wakes only streams that wait with the same frame, unless it is late.
LEMMA ReleaseSync ==
  ASSUME SyncInv, NEW s \in Streams, Release(s), ~Late(s)
  PROVE  SyncInv'
<1>1. /\ SyncTypes /\ pc[s] = "last" /\ frame' = frame /\ pc' = Released(s)
      /\ syncCount' = [syncCount EXCEPT ![Request(s)] = 0]
  BY DEF SyncInv, Release
<1>2. frame[s] \in 1..Len(Frames) /\ Request(s) \in Requests /\ Request(s) = Frames[frame[s]]
  BY <1>1, HasRequest
<1>3. \A t \in Streams :
         \/ pc'[t] = pc[t]
         \/ t = s /\ pc'[t] = "shutter"
         \/ pc[t] = "asleep" /\ pc'[t] = "shutter" /\ Request(t) = Request(s)
  BY <1>1 DEF Released
<1>4. pc' \in [Streams -> {"arrive", "decide", "wait", "asleep", "last", "shutter", "ended", "done"}]
  BY <1>1 DEF Released, SyncTypes
<1>5. SyncTypes'
  <2>1. \A t \in Streams : pc'[t] = "done" <=> pc[t] = "done"
    BY <1>1, <1>3
  <2>2. syncCount' \in [Requests -> Nat]
    BY <1>1 DEF SyncTypes
  <2> QED BY <1>1, <1>4, <2>1, <2>2 DEF SyncTypes
<1>6. \A i \in 1..Len(Frames) : Arrived(i) \subseteq Arrived(i)'
  BY <1>1, <1>3 DEF Arrived
<1>7. CountedInSync'
  <2>1. ASSUME NEW r \in Requests, r # Request(s), NEW t \in InSync(r) PROVE t \in InSync(r)'
    <3>1. t \in Streams /\ pc[t] \in AtSync /\ Request(t) = r /\ Leads(t)
      BY <2>1 DEF InSync
    <3>2. pc'[t] = pc[t] /\ frame'[t] = frame[t] /\ Request(t)' = r
      BY <1>1, <1>3, <2>1, <3>1 DEF Request
    <3>3. ASSUME NEW u \in Streams, frame[u] = frame[t] PROVE pc'[u] = pc[u]
      <4>1. Request(u) = r
        BY <3>1, <3>3 DEF Request
      <4> QED BY <1>3, <2>1, <4>1
    <3>4. Leads(t)'
      BY <1>1, <3>1, <3>3 DEF Leads
    <3> QED BY <3>1, <3>2, <3>4 DEF InSync
  <2>2. \A r \in Requests : r # Request(s) => syncCount'[r] = syncCount[r] /\ InSync(r) \subseteq InSync(r)'
    BY <1>1, <2>1 DEF SyncTypes
  <2>3. syncCount'[Request(s)] = 0
    BY <1>1, <1>2 DEF SyncTypes
  <2> QED BY <2>2, <2>3, <1>5, StillCounted
<1>8. Arrived(frame[s]) = Streams
  BY <1>1 DEF SyncInv, AllArrived, Past
<1>9. ASSUME NEW t \in Streams, pc[t] = "asleep", Request(t) = Request(s)
      PROVE  frame[t] = frame[s]
  BY <1>1, <1>9, ReleaseFinds
<1>10. AllArrived'
  <2>1. \A t \in Streams : frame'[t] = frame[t] /\ (pc'[t] \in Past => pc[t] \in Past \/ Arrived(frame[t]) = Streams)
    BY <1>1, <1>3, <1>8, <1>9
  <2> QED BY <2>1, <1>5, <1>6, StillArrived
<1> QED BY <1>5, <1>7, <1>10 DEF SyncInv

\* The messages of a frame are sent past Sync, so a stream starts its next frame when all
\* others have arrived with this one.
LEMMA SendSync ==
  ASSUME SyncInv, NEW s \in Streams, SendShutter(s) \/ SendEnded(s)
  PROVE  SyncInv'
<1>1. SyncTypes /\ pc[s] \in {"shutter", "ended"} /\ syncCount' = syncCount
  BY DEF SyncInv, SendShutter, SendEnded, semVars
<1>2. \/ frame' = frame /\ pc' = [pc EXCEPT ![s] = "ended"]
      \/ /\ frame' = [frame EXCEPT ![s] = @ + 1]
         /\ pc' = [pc EXCEPT ![s] = IF frame[s] = Len(Frames) THEN "done" ELSE "arrive"]
  BY DEF SendShutter, SendEnded, NextFrame, Goes
<1>3. frame[s] \in 1..Len(Frames) /\ Len(Frames) \in Nat
  BY <1>1, HasRequest, ReportAssumption
<1>4. SyncTypes'
  <2>1. CASE frame' = frame /\ pc' = [pc EXCEPT ![s] = "ended"]
    BY <2>1, <1>1, <1>3 DEF SyncTypes
  <2>2. CASE /\ frame' = [frame EXCEPT ![s] = @ + 1]
             /\ pc' = [pc EXCEPT ![s] = IF frame[s] = Len(Frames) THEN "done" ELSE "arrive"]
    <3>1. frame[s] + 1 \in 1..(Len(Frames) + 1) /\ (frame[s] + 1 = Len(Frames) + 1 <=> frame[s] = Len(Frames))
      BY <1>3
    <3> QED BY <2>2, <3>1, <1>1, <1>3 DEF SyncTypes
  <2> QED BY <1>2, <2>1, <2>2
<1>5. \A i \in 1..Len(Frames) : Arrived(i) \subseteq Arrived(i)'
  <2>1. CASE frame' = frame /\ pc' = [pc EXCEPT ![s] = "ended"]
    BY <2>1, <1>1 DEF Arrived, SyncTypes
  <2>2. CASE frame' = [frame EXCEPT ![s] = @ + 1] /\ \A t \in Streams \ {s} : pc'[t] = pc[t]
    BY <2>2, <1>1, <1>3 DEF Arrived, SyncTypes
  <2> QED BY <1>2, <2>1, <2>2, <1>1 DEF SyncTypes
<1>6. CountedInSync'
  <2>1. ASSUME NEW r \in Requests, NEW t \in InSync(r) PROVE t \in InSync(r)'
    <3>1. t \in Streams /\ pc[t] \in AtSync /\ Request(t) = r /\ Leads(t)
      BY <2>1 DEF InSync
    <3>2. t # s
      BY <1>1, <3>1 DEF AtSync
    <3>3. \A u \in Streams : u # s => pc'[u] = pc[u] /\ frame'[u] = frame[u]
      BY <1>1, <1>2 DEF SyncTypes
    <3>4. pc'[t] = pc[t] /\ frame'[t] = frame[t] /\ Request(t)' = r
      BY <3>1, <3>2, <3>3 DEF Request
    <3>5. frame[s] < frame[t] /\ frame[s] \in Nat /\ frame[t] \in Nat
      BY <1>1, <3>1 DEF Leads, Passed, SyncTypes
    <3>6. frame'[s] <= frame[t] /\ (frame'[s] = frame[t] => pc'[s] \notin Passed)
      BY <1>1, <1>2, <1>3, <3>5 DEF SyncTypes, Passed
    <3>7. Leads(t)'
      <4>1. \A u \in Streams : frame[u] <= frame[t] /\ (frame[u] = frame[t] => pc[u] \notin Passed)
        BY <3>1 DEF Leads
      <4> QED BY <3>3, <3>4, <3>6, <4>1 DEF Leads
    <3> QED BY <3>1, <3>4, <3>7 DEF InSync
  <2> QED BY <1>1, <1>4, <2>1, StillCounted
<1>7. AllArrived'
  <2>1. \A t \in Streams :
           \/ frame'[t] = frame[t] /\ (pc'[t] \in Past => pc[t] \in Past)
           \/ frame'[t] = frame[t] + 1 /\ pc'[t] \notin Past /\ pc[t] \in Past
    BY <1>1, <1>2 DEF SyncTypes, Past
  <2> QED BY <2>1, <1>4, <1>5, StillArrived
<1> QED BY <1>4, <1>6, <1>7 DEF SyncInv

\* Every step that leaves the streams together keeps the invariant of the barrier.
LEMMA NextSync ==
  ASSUME SyncInv, [Next]_vars, ~astray'
  PROVE  SyncInv'
<1>1. CASE UNCHANGED <<streamVars, syncCount>>
  <2>1. pc' = pc /\ frame' = frame /\ syncCount' = syncCount
    BY <1>1 DEF streamVars
  <2>2. SyncTypes' /\ AllArrived'
    BY <2>1 DEF SyncInv, SyncTypes, AllArrived, Arrived
  <2>3. \A r \in Requests : InSync(r)' = InSync(r)
    BY <2>1 DEF InSync, Leads, Request
  <2> QED BY <2>1, <2>2, <2>3, StillCounted DEF SyncInv
<1>2. CASE HandlerNext
  <2>1. UNCHANGED <<streamVars, syncCount>>
    BY <1>2 DEF HandlerNext, AwaitMessage, CollectMessages, ReportMessage, semVars
  <2> QED BY <2>1, <1>1
<1>3. CASE UNCHANGED vars
  <2>1. UNCHANGED <<streamVars, syncCount>>
    BY <1>3 DEF vars, semVars
  <2> QED BY <2>1, <1>1
<1>4. ASSUME NEW s \in Streams, StreamNext(s) PROVE SyncInv'
  <2>1. Release(s) => ~Late(s)
    BY Zenon DEF Release
  <2> QED BY <1>4, <2>1, ArriveSync, DecideSync, SleepSync, ReleaseSync, SendSync DEF StreamNext
<1>5. ASSUME NEW s \in Streams, WakeUp(s) PROVE FALSE
  BY <1>5 DEF WakeUp
<1> QED BY <1>2, <1>3, <1>4, <1>5 DEF Next

\* Streams that have gone astray stay so.
LEMMA AstrayStays ==
  ASSUME [Next]_vars, ~astray'
  PROVE  ~astray
<1>1. CASE UNCHANGED astray
  BY <1>1
<1>2. ASSUME NEW s \in Streams, Release(s) PROVE ~astray
  BY <1>2, Zenon DEF Release
<1>3. ASSUME NEW s \in Streams, WakeUp(s) PROVE ~astray
  BY <1>3 DEF WakeUp
<1>4. UNCHANGED astray \/ \E s \in Streams : Release(s) \/ WakeUp(s)
  BY DEF Next, HandlerNext, AwaitMessage, CollectMessages, ReportMessage, StreamNext, Arrive, Decide, Sleep,
         SendShutter, SendEnded, vars, semVars
<1> QED BY <1>1, <1>2, <1>3, <1>4

\* No stream goes past Sync with a frame before all others have arrived there with it, for
\* every number of streams and frames, in single and in continuous captures, until a wait
\* ends unnotified or a late release wakes those of a later frame.
THEOREM InStepHolds == Spec => []InStep
<1>1. astray \/ SyncInv => InStep
  <2> SUFFICES ASSUME SyncInv, NEW s \in Streams, NEW t \in Streams
               PROVE  /\ pc[s] \in {"shutter", "ended"} =>
                            frame[t] > frame[s] \/ (frame[t] = frame[s] /\ pc[t] # "arrive")
                      /\ frame[s] <= frame[t] + 1
    BY DEF InStep
  <2>1. frame[s] \in Nat /\ frame[t] \in Nat /\ frame[s] >= 1 /\ frame[t] >= 1
    BY DEF SyncInv, SyncTypes
  <2>2. pc[s] \in {"shutter", "ended"} => t \in Arrived(frame[s])
    BY DEF SyncInv, AllArrived, Past
  <2>3. frame[s] > 1 => t \in Arrived(frame[s] - 1)
    BY DEF SyncInv, AllArrived
  <2> QED BY <2>1, <2>2, <2>3 DEF Arrived
<1>2. (astray \/ SyncInv) /\ [Next]_vars => (astray \/ SyncInv)'
  BY NextSync, AstrayStays
<1> QED BY <1>1, <1>2, InitSync, PTL DEF Spec
-----------------------------------------------------------------------------
(* SendMessage and the message thread *)

\* In the beginning no message has been sent.
LEMMA InitBox == Init => BoxInv
<1> SUFFICES ASSUME Init PROVE BoxInv
  OBVIOUS
<1>1. Groups = {} /\ Sent = {}
  BY DEF Groups, Sent, Init
<1>2. stamp \in [Requests -> Stamps]
  BY DEF Init, Stamps
<1>3. Stamped
  BY DEF Stamped, Passed, Init
<1>4. SentTypes /\ GroupsAgree /\ CallsComplete
  BY <1>1 DEF SentTypes, GroupsAgree, CallsComplete, Groups
<1> QED BY <1>2, <1>3, <1>4 DEF BoxInv

\* A step that neither sends a message, nor gives a stamp, nor takes a stream past Sync.
LEMMA StillBoxed ==
  ASSUME BoxInv, UNCHANGED <<stamp, given, frame, boxVars>>,
         \A t \in Streams : pc'[t] \in Passed => pc[t] \in Passed
  PROVE  BoxInv'
<1>1. /\ stamp' = stamp /\ given' = given /\ frame' = frame
      /\ messageBox' = messageBox /\ calls' = calls /\ reported' = reported
  BY DEF boxVars
<1>2. Groups' = Groups /\ Sent' = Sent
  BY <1>1 DEF Groups, Sent
<1>3. Stamped'
  BY <1>1 DEF BoxInv, Stamped, Request
<1>4. SentTypes' /\ GroupsAgree' /\ CallsComplete'
  BY <1>1, <1>2 DEF BoxInv, SentTypes, GroupsAgree, CallsComplete, Complete
<1> QED BY <1>1, <1>3, <1>4 DEF BoxInv

\* Release stamps the frame of all that are past Sync with its request.
LEMMA ReleaseBox ==
  ASSUME BoxInv, SyncInv, NEW s \in Streams, Release(s), ~Late(s)
  PROVE  BoxInv'
<1>1. /\ SyncTypes /\ pc[s] = "last" /\ frame' = frame /\ pc' = Released(s)
      /\ messageBox' = messageBox /\ calls' = calls /\ reported' = reported
  BY DEF SyncInv, Release, boxVars
<1>2. PICK time \in Times : /\ stamp' = [stamp EXCEPT ![Request(s)] = time]
                           /\ given' = given \union {<<time, frame[s]>>}
  BY DEF Release
<1>3. Request(s) \in Requests
  BY <1>1, HasRequest
<1>4. stamp' \in [Requests -> Stamps]
  BY <1>2 DEF BoxInv, Stamps
<1>5. Groups' = Groups /\ Sent' = Sent
  BY <1>1 DEF Groups, Sent
<1>6. Stamped'
  <2> SUFFICES ASSUME NEW t \in Streams, pc'[t] \in Passed PROVE <<stamp'[Request(t)], frame[t]>> \in given'
    BY <1>1 DEF Stamped, Request
  <2>1. \/ pc[t] \in Passed \/ t = s
        \/ pc[t] = "asleep" /\ Request(t) = Request(s)
    BY <1>1 DEF Released, Passed
  <2>2. pc[t] \notin {"arrive", "done"} /\ Request(t) \in Requests
    <3>1. pc[t] \notin {"arrive", "done"}
      BY <2>1, <1>1 DEF Passed
    <3> QED BY <3>1, <1>1, HasRequest
  <2>3. CASE Request(t) = Request(s)
    <3>1. frame[t] = frame[s]
      BY <2>2, <2>3, <1>1, ReleaseFinds
    <3>2. stamp'[Request(t)] = time
      BY <2>3, <1>2, <1>3 DEF BoxInv
    <3> QED BY <3>1, <3>2, <1>2
  <2>4. CASE Request(t) # Request(s)
    <3>1. stamp'[Request(t)] = stamp[Request(t)] /\ pc[t] \in Passed
      BY <2>1, <2>2, <2>4, <1>2 DEF BoxInv
    <3>2. <<stamp[Request(t)], frame[t]>> \in given
      BY <3>1 DEF BoxInv, Stamped
    <3> QED BY <3>1, <3>2, <1>2
  <2> QED BY <2>3, <2>4
<1>7. SentTypes'
  BY <1>2, <1>5 DEF BoxInv, SentTypes
<1>8. GroupsAgree' /\ CallsComplete'
  BY <1>1, <1>5 DEF BoxInv, GroupsAgree, CallsComplete, Complete
<1> QED BY <1>4, <1>6, <1>7, <1>8 DEF BoxInv

\* The groups after SendMessage: the message's own group, new or grown, is of one type and stamp.
LEMMA SendGroups ==
  ASSUME BoxInv, NEW m, SendMessage(m), UNCHANGED <<calls, reported>>
  PROVE  Sent' = Sent \union {m} /\ GroupsAgree'
<1>2. CASE messageBox' = messageBox \union {{m}}
  <2>1. Groups' = Groups \union {{m}}
    BY <1>2 DEF Groups
  <2>2. Sent' = Sent \union {m}
    BY <2>1 DEF Sent
  <2>3. IsFiniteSet({m})
    BY FS_Singleton
  <2>4. GroupsAgree'
    BY <2>1, <2>3 DEF BoxInv, GroupsAgree
  <2> QED BY <2>2, <2>4
<1>3. ASSUME NEW g \in Peers(m), messageBox' = (messageBox \ {g}) \union {g \union {m}}
      PROVE  Sent' = Sent \union {m} /\ GroupsAgree'
  <2> DEFINE h == g \union {m}
  <2>1. g \in Groups /\ g \in messageBox
    BY DEF Peers, Groups
  <2>2. Groups' = (messageBox \ {g}) \union calls \union reported \union {h}
    BY <1>3 DEF Groups
  <2>3. Sent' = Sent \union {m}
    <3>1. Groups = ((messageBox \ {g}) \union calls \union reported) \union {g}
      BY <2>1 DEF Groups
    <3>2. ASSUME NEW R, Groups = R \union {g}, Groups' = R \union {g \union {m}}
          PROVE  Sent' = Sent \union {m}
      <4>1. \A x : x \in Sent <=> (\E k \in R : x \in k) \/ x \in g
        BY <3>2 DEF Sent
      <4>2. Sent' = UNION (R \union {g \union {m}})
        BY <3>2 DEF Sent
      <4>3. \A x : x \in Sent' <=> (\E k \in R \union {g \union {m}} : x \in k)
        BY <4>2
      <4>4. \A x : (\E k \in R \union {g \union {m}} : x \in k) <=> (\E k \in R : x \in k) \/ x \in g \union {m}
        OBVIOUS
      <4> QED BY <4>1, <4>3, <4>4
    <3>3. \E R : Groups = R \union {g} /\ Groups' = R \union {g \union {m}}
      BY <3>1, <2>2
    <3> QED BY <3>2, <3>3
  <2>4. IsFiniteSet(g) /\ \A n, k \in g : n.stamp = k.stamp /\ n.type = k.type
    BY <2>1 DEF BoxInv, GroupsAgree
  <2>5. \A n \in g : n.stamp = m.stamp /\ n.type = m.type
    BY <2>4 DEF Peers
  <2>6. IsFiniteSet(h)
    BY <2>4, FS_AddElement
  <2>7. \A n, k \in h : n.stamp = k.stamp /\ n.type = k.type
    BY <2>5
  <2>8. \A k \in Groups' : k = h \/ k \in Groups
    BY <2>2 DEF Groups
  <2>9. GroupsAgree'
    BY <2>6, <2>7, <2>8 DEF BoxInv, GroupsAgree
  <2> QED BY <2>3, <2>9
<1> QED BY <1>2, <1>3 DEF SendMessage

\* The shutter or the end of a frame is sent from OnFrame with a stamp that the frame was given.
LEMMA SendBox ==
  ASSUME BoxInv, SyncInv, NEW s \in Streams, SendShutter(s) \/ SendEnded(s)
  PROVE  BoxInv'
<1>1. /\ pc[s] \in Passed /\ SendMessage(MessageOf(s, pc[s]))
      /\ stamp' = stamp /\ given' = given /\ UNCHANGED <<calls, reported>>
  BY DEF SendShutter, SendEnded, semVars, Passed
<1>2. \/ frame' = frame /\ pc' = [pc EXCEPT ![s] = "ended"] /\ pc[s] = "shutter"
      \/ /\ frame' = [frame EXCEPT ![s] = @ + 1]
         /\ pc' = [pc EXCEPT ![s] = IF frame[s] = Len(Frames) THEN "done" ELSE "arrive"]
  BY DEF SendShutter, SendEnded, NextFrame, Goes
<1> SUFFICES ASSUME NEW m, m = MessageOf(s, pc[s]) PROVE BoxInv'
  OBVIOUS
<1>3. Sent' = Sent \union {m} /\ GroupsAgree'
  BY <1>1, SendGroups
<1>4. frame[s] \in 1..Len(Frames) /\ Request(s) \in Requests /\ Request(s) = Frames[frame[s]]
  BY <1>1, HasRequest DEF SyncInv, Passed
<1>5. /\ m = [stream |-> m.stream, request |-> m.request, frame |-> m.frame, stamp |-> m.stamp, type |-> m.type]
      /\ m.stream = s /\ m.frame = frame[s] /\ m.request = Request(s) /\ m.stamp = stamp[Request(s)]
  BY DEF MessageOf
<1>6. <<m.stamp, m.frame>> \in given
  BY <1>1, <1>5 DEF BoxInv, Stamped
<1>7. SentTypes'
  BY <1>1, <1>3, <1>4, <1>5, <1>6 DEF BoxInv, SentTypes
<1>8. Stamped'
  <2> SUFFICES ASSUME NEW t \in Streams, pc'[t] \in Passed PROVE <<stamp[Request(t)'], frame'[t]>> \in given
    BY <1>1 DEF Stamped
  <2>1. pc[t] \in Passed /\ frame'[t] = frame[t]
    BY <1>1, <1>2 DEF SyncInv, SyncTypes, Passed
  <2>2. Request(t)' = Request(t)
    BY <2>1 DEF Request
  <2> QED BY <2>1, <2>2 DEF BoxInv, Stamped
<1>9. CallsComplete'
  BY <1>1 DEF BoxInv, CallsComplete, Complete
<1> QED BY <1>1, <1>3, <1>7, <1>8, <1>9 DEF BoxInv

\* The message thread moves complete groups, and leaves the streams alone.
LEMMA HandlerBox ==
  ASSUME BoxInv, HandlerNext
  PROVE  BoxInv'
<1>1. pc' = pc /\ frame' = frame /\ stamp' = stamp /\ given' = given
  BY DEF HandlerNext, AwaitMessage, CollectMessages, ReportMessage, streamVars, semVars
<1>2. Groups' \subseteq Groups /\ CallsComplete'
  <2>1. CASE AwaitMessage
    BY <2>1 DEF AwaitMessage, Groups, BoxInv, CallsComplete, Complete
  <2>2. CASE CollectMessages
    BY <2>2 DEF CollectMessages, Groups, BoxInv, CallsComplete, Complete
  <2>3. CASE ReportMessage
    BY <2>3 DEF ReportMessage, Groups, BoxInv, CallsComplete, Complete
  <2> QED BY <2>1, <2>2, <2>3 DEF HandlerNext
<1>3. Sent' \subseteq Sent
  BY <1>2 DEF Sent
<1>4. Stamped' /\ SentTypes'
  BY <1>1, <1>3 DEF BoxInv, Stamped, SentTypes, Request
<1>5. GroupsAgree'
  BY <1>2 DEF BoxInv, GroupsAgree
<1> QED BY <1>1, <1>2, <1>4, <1>5 DEF BoxInv

\* Every step that leaves the streams together keeps the invariant of the groups.
LEMMA NextBox ==
  ASSUME SyncInv, BoxInv, [Next]_vars, ~astray'
  PROVE  BoxInv'
<1>1. CASE HandlerNext
  BY <1>1, HandlerBox
<1>2. ASSUME NEW s \in Streams, StreamNext(s) PROVE BoxInv'
  <2>1. CASE Arrive(s) \/ Decide(s) \/ Sleep(s)
    <3>1. UNCHANGED <<stamp, given, frame, boxVars>>
      BY <2>1 DEF Arrive, Decide, Sleep, semVars
    <3>2. \E l \in {"decide", "wait", "last", "asleep"} : pc' = [pc EXCEPT ![s] = l]
      BY <2>1 DEF Arrive, Decide, Sleep, Goes
    <3>3. \A t \in Streams : pc'[t] \in Passed => pc[t] \in Passed
      BY <3>2 DEF SyncInv, SyncTypes, Passed
    <3> QED BY <3>1, <3>3, StillBoxed
  <2>2. CASE Release(s)
    <3>1. ~Late(s)
      BY <2>2, Zenon DEF Release
    <3> QED BY <2>2, <3>1, ReleaseBox
  <2>3. CASE SendShutter(s) \/ SendEnded(s)
    BY <2>3, SendBox
  <2> QED BY <1>2, <2>1, <2>2, <2>3 DEF StreamNext
<1>3. CASE UNCHANGED vars
  <2>1. UNCHANGED <<stamp, given, frame, boxVars>> /\ pc' = pc
    BY <1>3 DEF vars, streamVars, semVars
  <2> QED BY <2>1, StillBoxed
<1>4. ASSUME NEW s \in Streams, WakeUp(s) PROVE FALSE
  BY <1>4 DEF WakeUp
<1> QED BY <1>1, <1>2, <1>3, <1>4 DEF Next

\* Messages of one frame, type and stamp are those of different streams.
LEMMA OneEach ==
  ASSUME BoxInv, NEW g \in Groups, \A m, n \in g : m.frame = n.frame, Complete(g)
  PROVE  Senders(g) = Streams
<1>1. IsFiniteSet(g) /\ \A m \in g : m \in Sent
  BY DEF BoxInv, GroupsAgree, Sent
<1>2. ASSUME NEW m \in g, NEW n \in g, m.stream = n.stream PROVE m = n
  <2>1. m.frame = n.frame /\ m.stamp = n.stamp /\ m.type = n.type
    BY DEF BoxInv, GroupsAgree
  <2>2. m.request = n.request
    BY <1>1, <2>1 DEF BoxInv, SentTypes
  <2>3. /\ m = [stream |-> m.stream, request |-> m.request, frame |-> m.frame, stamp |-> m.stamp, type |-> m.type]
        /\ n = [stream |-> n.stream, request |-> n.request, frame |-> n.frame, stamp |-> n.stamp, type |-> n.type]
    BY <1>1 DEF BoxInv, SentTypes
  <2> QED BY <1>2, <2>1, <2>2, <2>3, Zenon
<1>3. Cardinality(Senders(g)) = Cardinality(g)
  <2> DEFINE f == [m \in g |-> m.stream]
  <2>1. f \in Bijection(g, Senders(g))
    BY <1>2 DEF Bijection, Injection, Surjection, IsInjective, Senders
  <2> HIDE DEF f
  <2> QED BY <2>1, <1>1, FS_Bijection DEF ExistsBijection
<1>4. Senders(g) \in SUBSET Streams
  BY <1>1 DEF BoxInv, SentTypes, Senders
<1> QED BY <1>3, <1>4, FS_Subset, ReportAssumption DEF Complete

\* What the client is told of in one call is one frame of one capture, with one message of
\* every stream, for every number of streams and frames, in single and in continuous captures,
\* if its stamp was given to one frame only and the streams are together.
THEOREM GroupWholeHolds == Spec => []GroupWhole
<1>1. astray \/ (SyncInv /\ BoxInv) => GroupWhole
  <2> SUFFICES ASSUME BoxInv, NEW g \in reported,
                      \A m \in g : \A x, y \in given : x[1] = m.stamp /\ y[1] = m.stamp => x[2] = y[2]
               PROVE  /\ {m.stream : m \in g} = Streams
                      /\ \A m, n \in g : m.request = n.request /\ m.frame = n.frame
    BY DEF GroupWhole
  <2>1. g \in Groups /\ Complete(g) /\ \A m \in g : m \in Sent
    BY DEF BoxInv, CallsComplete, Groups, Sent
  <2>2. ASSUME NEW m \in g, NEW n \in g PROVE m.request = n.request /\ m.frame = n.frame
    <3>1. m.stamp = n.stamp
      BY <2>1 DEF BoxInv, GroupsAgree
    <3>2. <<m.stamp, m.frame>> \in given /\ <<n.stamp, n.frame>> \in given
      BY <2>1 DEF BoxInv, SentTypes
    <3>3. m.frame = n.frame
      <4> DEFINE x == <<m.stamp, m.frame>>
                 y == <<n.stamp, n.frame>>
      <4>1. x[1] = m.stamp /\ y[1] = m.stamp /\ x[2] = m.frame /\ y[2] = n.frame
        BY <3>1
      <4>2. x \in given /\ y \in given
        BY <3>2
      <4> HIDE DEF x, y
      <4> QED BY <4>1, <4>2
    <3>4. m.request = Frames[m.frame] /\ n.request = Frames[n.frame]
      BY <2>1 DEF BoxInv, SentTypes
    <3> QED BY <3>3, <3>4
  <2>3. Senders(g) = Streams
    BY <2>1, <2>2, OneEach
  <2> QED BY <2>2, <2>3 DEF Senders
<1>2. (astray \/ (SyncInv /\ BoxInv)) /\ [Next]_vars => (astray \/ (SyncInv /\ BoxInv))'
  BY NextSync, NextBox, AstrayStays
<1> QED BY <1>1, <1>2, InitSync, InitBox, PTL DEF Spec
=============================================================================
