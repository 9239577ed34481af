-------------------------- MODULE UsbHostIoProofs ---------------------------
(***************************************************************************)
(* Proofs about UsbHostIo for every set of requests.                       *)
(***************************************************************************)
EXTENDS UsbHostIo, FiniteSetTheorems, TLAPS

\* IoSendProcess has a request exactly between UsbIoGetRequest and the end of its round.
InHand ==
    /\ sender \in {"wait", "pop", "exit"} => cur = NoRequest
    /\ sender \in {"cancelled", "submit"} => cur \in Requests

\* The semaphore of a synchronous request counts the completion its waiter is owed; an
\* asynchronous request is owed its completion until the callback runs.
Waiters ==
    \A r \in Requests :
        /\ r \notin Sync => owner[r] \in {"idle", "async"}
        /\ r \in Sync => owner[r] # "async"
        /\ owner[r] = "async" => owed[r] = 1
        /\ owner[r] \in {"post", "wait1", "cancel", "wait2"} => rsem[r] + owed[r] = 1

\* A request cancelled while queued keeps the mark that makes IoSendProcess drop it.
Doomed ==
    \A r \in Requests \ Sync :
        asked[r] = "queued" =>
            /\ comp[r] = "CANCELLED"
            /\ urb[r] = "none"
            /\ ~(cur = r /\ sender = "submit")

\* The inductive invariant.
IInv == TypeOK /\ InHand /\ CompletedMeansReleased /\ OnePlace /\ Waiters /\ Doomed

USE RequestAssumption

-----------------------------------------------------------------------------
(* The queue *)

\* UsbIoSendRequest adds exactly the request to those of the queue.
LEMMA EnqueueContains ==
    ASSUME NEW q \in Seq(Requests), NEW x \in Requests, NEW r
    PROVE  Contains(Append(q, x), r) <=> Contains(q, r) \/ x = r
<1>1. Append(q, x) \in Seq(Requests) /\ Len(Append(q, x)) = Len(q) + 1 /\ Len(q) \in Nat
  OBVIOUS
<1>2. \A i \in 1..Len(q) : Append(q, x)[i] = q[i]
  OBVIOUS
<1>3. Append(q, x)[Len(q) + 1] = x
  OBVIOUS
<1>4. ASSUME Contains(Append(q, x), r) PROVE Contains(q, r) \/ x = r
  BY <1>1, <1>2, <1>3, <1>4 DEF Contains, Range
<1>5. ASSUME Contains(q, r) \/ x = r PROVE Contains(Append(q, x), r)
  BY <1>1, <1>2, <1>3, <1>5 DEF Contains, Range
<1> QED  BY <1>4, <1>5

\* A queue without repetition has none after UsbIoSendRequest of a request it lacks.
LEMMA EnqueueInjective ==
    ASSUME NEW q \in Seq(Requests), NEW x \in Requests, IsInjective(q),
           \A i \in 1..Len(q) : q[i] # x
    PROVE  IsInjective(Append(q, x))
<1>1. Len(Append(q, x)) = Len(q) + 1 /\ Len(q) \in Nat /\ DOMAIN q = 1..Len(q)
      /\ DOMAIN Append(q, x) = 1..(Len(q) + 1)
  OBVIOUS
<1>2. \A i \in 1..Len(q) : Append(q, x)[i] = q[i] /\ q[i] # x
  OBVIOUS
<1>3. Append(q, x)[Len(q) + 1] = x
  OBVIOUS
<1>4. SUFFICES ASSUME NEW a \in 1..(Len(q) + 1), NEW b \in 1..(Len(q) + 1),
                      Append(q, x)[a] = Append(q, x)[b]
               PROVE  a = b
  BY <1>1 DEF IsInjective
<1>5. CASE a \in 1..Len(q) /\ b \in 1..Len(q)
  BY <1>1, <1>2, <1>4, <1>5 DEF IsInjective
<1>6. CASE a = Len(q) + 1 \/ b = Len(q) + 1
  BY <1>1, <1>2, <1>3, <1>4, <1>6
<1> QED  BY <1>1, <1>5, <1>6

\* UsbIoGetRequest removes exactly the request it returns.
LEMMA DequeueFacts ==
    ASSUME NEW q \in Seq(Requests), q # <<>>, IsInjective(q)
    PROVE  /\ Head(q) \in Requests
           /\ Tail(q) \in Seq(Requests)
           /\ Len(Tail(q)) = Len(q) - 1
           /\ IsInjective(Tail(q))
           /\ Contains(q, Head(q))
           /\ \A r : Contains(Tail(q), r) => Contains(q, r) /\ r # Head(q)
<1>1. Len(q) \in Nat \ {0} /\ DOMAIN q = 1..Len(q) /\ Head(q) = q[1] /\ Head(q) \in Requests
  OBVIOUS
<1>2. Tail(q) \in Seq(Requests) /\ Len(Tail(q)) = Len(q) - 1 /\ DOMAIN Tail(q) = 1..(Len(q) - 1)
  OBVIOUS
<1>3. \A i \in 1..(Len(q) - 1) : Tail(q)[i] = q[i + 1]
  OBVIOUS
<1>4. IsInjective(Tail(q))
  BY <1>1, <1>2, <1>3 DEF IsInjective
<1>5. Contains(q, Head(q))
  BY <1>1 DEF Contains, Range
<1>6. ASSUME NEW r, Contains(Tail(q), r) PROVE Contains(q, r) /\ r # Head(q)
  <2>1. PICK i \in 1..(Len(q) - 1) : q[i + 1] = r
    BY <1>2, <1>3, <1>6 DEF Contains, Range
  <2>2. i + 1 \in 1..Len(q) /\ i + 1 # 1
    BY <1>1, <2>1
  <2> QED  BY <1>1, <2>1, <2>2 DEF Contains, Range, IsInjective
<1> QED  BY <1>1, <1>2, <1>4, <1>5, <1>6

-----------------------------------------------------------------------------
(* The invariant *)

\* Freshly allocated requests satisfy the invariant.
LEMMA InitIInv == Init => IInv
<1> SUFFICES ASSUME Init PROVE IInv
  OBVIOUS
<1>1. \A r : ~Contains(queue, r)
  BY DEF Init, Contains, Range
<1>2. IsInjective(queue)
  BY DEF Init, IsInjective
<1>3. urbs \in [Requests -> BOOLEAN]
  BY Zenon DEF Init
<1>4. TypeOK
  BY <1>3 DEF Init, TypeOK, Statuses
<1>5. InHand
  BY DEF Init, InHand
<1>6. CompletedMeansReleased
  BY <1>1 DEF Init, CompletedMeansReleased, Held
<1>7. OnePlace
  BY <1>1, <1>2 DEF Init, OnePlace
<1>8. Waiters /\ Doomed
  BY DEF Init, Waiters, Doomed
<1> QED  BY <1>4, <1>5, <1>6, <1>7, <1>8 DEF IInv

\* The invariant is a predicate of the variables.
LEMMA StutterIInv == IInv /\ UNCHANGED vars => IInv'
BY DEF IInv, TypeOK, InHand, CompletedMeansReleased, OnePlace, Waiters, Doomed, Held, vars,
       Contains, Range, IsInjective

\* UsbSubmitRequestAsync and UsbSubmitRequestSync, up to the release of the queue's mutex.
LEMMA SubmitIInv ==
    ASSUME IInv, NEW r \in Requests, UsbSubmitRequestAsync(r) \/ UsbSubmitRequestSync(r)
    PROVE  IInv'
<1> USE DEF IInv
<1>1. /\ owner[r] = "idle" /\ queue' = Append(queue, r) /\ queue \in Seq(Requests)
      /\ UNCHANGED <<sender, cur, urb>>
      /\ owed' = [owed EXCEPT ![r] = @ + 1]
      /\ asked' = [asked EXCEPT ![r] = IF canceller[r] = "no" THEN "no" ELSE "asked"]
      /\ comp' = [comp EXCEPT ![r] = "COMPLETED"]
  BY DEF UsbSubmitRequestAsync, UsbSubmitRequestSync, Enqueue, TypeOK
<1>2. owed[r] = 0 /\ ~Held(r)
  BY <1>1 DEF CompletedMeansReleased
<1>3. \A q \in Requests : Contains(queue', q) <=> Contains(queue, q) \/ q = r
  BY <1>1, EnqueueContains
<1>4. IsInjective(queue')
  <2>1. IsInjective(queue) /\ \A i \in 1..Len(queue) : queue[i] # r
    BY <1>2 DEF OnePlace, Held, Contains, Range
  <2> QED  BY <1>1, <2>1, EnqueueInjective
<1>5. queue' \in Seq(Requests)
  BY <1>1
<1>6. TypeOK'
  <2>1. CASE UsbSubmitRequestAsync(r)
    BY <1>5, <2>1 DEF TypeOK, UsbSubmitRequestAsync, Enqueue, Statuses
  <2>2. CASE UsbSubmitRequestSync(r)
    BY <1>5, <2>2 DEF TypeOK, UsbSubmitRequestSync, Enqueue, Statuses
  <2> QED  BY <2>1, <2>2
<1>7. InHand'
  BY <1>1 DEF InHand
<1>8. CompletedMeansReleased'
  BY <1>1, <1>2, <1>3 DEF CompletedMeansReleased, Held, TypeOK, UsbSubmitRequestAsync,
     UsbSubmitRequestSync, Enqueue
<1>9. OnePlace'
  BY <1>1, <1>2, <1>3, <1>4 DEF OnePlace, Held, TypeOK
<1>10. Waiters'
  BY <1>2 DEF Waiters, TypeOK, UsbSubmitRequestAsync, UsbSubmitRequestSync, Enqueue
<1>11. Doomed'
  BY <1>1 DEF Doomed, TypeOK
<1> QED  BY <1>6, <1>7, <1>8, <1>9, <1>10, <1>11

\* A step that leaves the requests, the queue and IoSendProcess alone preserves the invariant.
LEMMA ControlIInv ==
    ASSUME IInv, TypeOK', UNCHANGED <<queue, sender, cur, urb, comp, rsem, owner, owed, asked>>
    PROVE  IInv'
BY DEF IInv, InHand, CompletedMeansReleased, OnePlace, Waiters, Doomed, Held, Contains, Range, IsInjective

\* The posts of the queue's semaphore, the receiving thread but for completions, UsbIoStop.
LEMMA ThreadsIInv ==
    ASSUME IInv, AsyncPost \/ ReceiverNext \/ ReceiveFails \/ StopEnter \/ StopNext
    PROVE  IInv'
<1>1. UNCHANGED <<queue, sender, cur, reqVars>>
  BY DEF AsyncPost, ReceiverNext, ReceiveEnter, ReceiveTest, ReceiveMark, ReceiveFails, StopEnter,
         StopNext, StopCheck, StopSet, RawKillSignal, StopPoll
<1>2. /\ status' \in {"RUNNING", "STOP", "STOPED"} /\ sem' \in Nat /\ posts' \in Nat
      /\ receiver' \in {"run", "reap", "test", "mark", "exit"}
      /\ stopper' \in {"open", "check", "set", "kill", "poll", "closed"}
  BY DEF IInv, TypeOK, AsyncPost, ReceiverNext, ReceiveEnter, ReceiveTest, ReceiveMark,
         ReceiveFails, StopEnter, StopNext, StopCheck, StopSet, RawKillSignal, StopPoll
<1>3. TypeOK'
  BY <1>1, <1>2, Zenon DEF IInv, TypeOK, reqVars
<1> QED  BY <1>1, <1>3, ControlIInv DEF reqVars

\* The waits of UsbSubmitRequestSync and the start of a cancellation.
LEMMA WaitIInv ==
    ASSUME IInv, NEW r \in Requests,
           SyncPost(r) \/ SyncWoken(r) \/ SyncTimeout(r) \/ SyncGiveUp(r) \/ AsyncCancel(r)
    PROVE  IInv'
<1> USE DEF IInv
<1>1. UNCHANGED <<queue, sender, cur, urb, urbs, owed>>
  BY DEF SyncPost, SyncWoken, SyncTimeout, SyncGiveUp, AsyncCancel, StartCancel, ioVars
<1>2. TypeOK'
  <2>1. CASE SyncPost(r)
    BY <2>1 DEF TypeOK, SyncPost
  <2>2. CASE SyncWoken(r)
    <3>1. rsem' \in [Requests -> Nat]
      BY <2>2 DEF TypeOK, SyncWoken
    <3> QED  BY <2>2, <3>1 DEF TypeOK, SyncWoken, ioVars, Statuses
  <2>3. CASE SyncTimeout(r)
    BY <2>3 DEF TypeOK, SyncTimeout, StartCancel, ioVars
  <2>4. CASE SyncGiveUp(r)
    BY <2>4 DEF TypeOK, SyncGiveUp, ioVars, Statuses
  <2>5. CASE AsyncCancel(r)
    BY <2>5 DEF TypeOK, AsyncCancel, StartCancel, ioVars
  <2> QED  BY <2>1, <2>2, <2>3, <2>4, <2>5
<1>3. InHand' /\ OnePlace'
  BY <1>1 DEF InHand, OnePlace, Contains, Range, IsInjective
<1>4. \A q \in Requests : Held(q)' <=> Held(q)
  BY <1>1 DEF Held, Contains, Range
<1>5. owner'[r] = "idle" => owed[r] = 0
  BY DEF SyncPost, SyncWoken, SyncTimeout, SyncGiveUp, AsyncCancel, StartCancel, TypeOK,
         CompletedMeansReleased, Waiters
<1>6. \A q \in Requests : q # r => owner'[q] = owner[q] /\ rsem'[q] = rsem[q] /\ comp'[q] = comp[q]
                                  /\ asked'[q] = asked[q]
  BY DEF SyncPost, SyncWoken, SyncTimeout, SyncGiveUp, AsyncCancel, StartCancel, TypeOK
<1>7. CompletedMeansReleased'
  BY <1>1, <1>4, <1>5, <1>6 DEF CompletedMeansReleased
<1>8. Waiters'
  BY <1>1, <1>5, <1>6 DEF SyncPost, SyncWoken, SyncTimeout, SyncGiveUp, AsyncCancel, StartCancel,
     TypeOK, Waiters
<1>9. Doomed'
  <2>1. r \notin Sync => comp' = comp
    BY DEF SyncPost, SyncWoken, SyncTimeout, SyncGiveUp, AsyncCancel, StartCancel, Waiters
  <2>2. asked'[r] = "queued" => asked[r] = "queued"
    BY DEF SyncPost, SyncWoken, SyncTimeout, SyncGiveUp, AsyncCancel, StartCancel, TypeOK
  <2> QED  BY <1>1, <1>6, <2>1, <2>2 DEF Doomed
<1> QED  BY <1>2, <1>3, <1>7, <1>8, <1>9

\* UsbCancelRequest.
LEMMA CancelIInv ==
    ASSUME IInv, NEW r \in Requests, UsbCancelRequest(r)
    PROVE  IInv'
<1> USE DEF IInv
<1>1. UNCHANGED <<ioVars, urbs, rsem, owed>>
  BY DEF UsbCancelRequest, CancelDiscard, AdapterCancelRequest, CancelInfo
<1>2. TypeOK'
  <2>1. CASE CancelDiscard(r)
    <3>1. /\ urb' \in [Requests -> {"none", "active", "discarded"}]
          /\ canceller' \in [Requests -> {"no", "discard", "mark", "info"}]
      BY <2>1 DEF TypeOK, CancelDiscard, EndCancel
    <3>2. owner' \in [Requests -> {"idle", "async", "post", "wait1", "cancel", "wait2", "abandoned"}]
      BY <2>1 DEF TypeOK, CancelDiscard, EndCancel
    <3> QED  BY <1>1, <2>1, <3>1, <3>2 DEF TypeOK, CancelDiscard, ioVars
  <2>2. CASE AdapterCancelRequest(r)
    BY <2>2 DEF TypeOK, AdapterCancelRequest, CancelMark, ioVars, Statuses
  <2>3. CASE CancelInfo(r)
    BY <2>3 DEF TypeOK, CancelInfo, EndCancel, ioVars, Statuses
  <2> QED  BY <2>1, <2>2, <2>3 DEF UsbCancelRequest
<1>3. \A q \in Requests : urb'[q] = "none" <=> urb[q] = "none"
  BY DEF UsbCancelRequest, CancelDiscard, AdapterCancelRequest, CancelInfo, TypeOK
<1>4. \A q \in Requests : owner'[q] = owner[q] \/ (owner[q] = "cancel" /\ owner'[q] = "wait2")
  BY DEF UsbCancelRequest, CancelDiscard, AdapterCancelRequest, CancelInfo, EndCancel, TypeOK
<1>5. InHand' /\ OnePlace'
  BY <1>1, <1>3 DEF InHand, OnePlace, Contains, Range, IsInjective, ioVars
<1>6. CompletedMeansReleased'
  BY <1>1, <1>3, <1>4 DEF CompletedMeansReleased, Held, Contains, Range, ioVars
<1>7. Waiters'
  BY <1>1, <1>4 DEF Waiters
<1>8. Doomed'
  <2>1. CASE UNCHANGED <<comp, asked>>
    BY <1>1, <1>3, <2>1 DEF Doomed, ioVars
  <2>2. CASE CancelInfo(r)
    <3>1. \A q \in Requests : comp'[q] = (IF q = r THEN "CANCELLED" ELSE comp[q])
      BY <2>2 DEF CancelInfo, TypeOK
    <3>2. \A q \in Requests : asked'[q] = "queued" => asked[q] = "queued" \/ Contains(queue, q)
      BY <2>2 DEF CancelInfo, TypeOK
    <3> QED  BY <1>1, <1>3, <2>2, <3>1, <3>2 DEF Doomed, OnePlace, CancelInfo, ioVars
  <2> QED  BY <2>1, <2>2 DEF UsbCancelRequest, CancelDiscard, AdapterCancelRequest
<1> QED  BY <1>2, <1>5, <1>6, <1>7, <1>8

\* UsbIoGetRequest takes the request at the head out of the queue and into the thread's hands.
LEMMA GetIInv ==
    ASSUME IInv, UsbIoGetRequest
    PROVE  IInv'
<1> USE DEF IInv
<1>1. CASE queue = <<>>
  <2>1. UNCHANGED queue /\ cur = NoRequest /\ cur' = cur /\ sender = "pop" /\ sender' = "check"
        /\ UNCHANGED <<sem, posts, status, receiver, stopper, reqVars>>
    BY <1>1 DEF UsbIoGetRequest, InHand
  <2> QED  BY <2>1 DEF TypeOK, InHand, CompletedMeansReleased, OnePlace, Waiters, Doomed, Held,
           Contains, Range, IsInjective, reqVars
<1>2. CASE queue # <<>>
  <2>1. /\ sender = "pop" /\ sender' = "check" /\ cur = NoRequest
        /\ cur' = Head(queue) /\ queue' = Tail(queue)
        /\ UNCHANGED <<sem, posts, status, receiver, stopper, reqVars>>
    BY <1>2 DEF UsbIoGetRequest, InHand
  <2>2. queue \in Seq(Requests) /\ IsInjective(queue)
    BY DEF TypeOK, OnePlace
  <2>3. /\ Head(queue) \in Requests
        /\ Tail(queue) \in Seq(Requests)
        /\ IsInjective(Tail(queue))
        /\ Contains(queue, Head(queue))
        /\ \A r : Contains(Tail(queue), r) => Contains(queue, r) /\ r # Head(queue)
    BY <1>2, <2>2, DequeueFacts
  <2>4. TypeOK' /\ InHand' /\ Waiters' /\ Doomed'
    BY <2>1, <2>3 DEF TypeOK, InHand, Waiters, Doomed, reqVars
  <2>5. OnePlace'
    BY <2>1, <2>3 DEF OnePlace, reqVars
  <2>6. CompletedMeansReleased'
    BY <2>1, <2>3 DEF CompletedMeansReleased, Held, reqVars
  <2> QED  BY <2>4, <2>5, <2>6
<1> QED  BY <1>1, <1>2

\* A completion of a request that is owed one and that nobody holds any more.
LEMMA CompletionFacts ==
    ASSUME IInv, NEW r \in Requests, NEW s \in Statuses, UsbIoSetRequestCompletionInfo(r, s),
           owed[r] = 1
    PROVE  /\ comp' \in [Requests -> Statuses]
           /\ rsem' \in [Requests -> Nat]
           /\ owner' \in [Requests -> {"idle", "async", "post", "wait1", "cancel", "wait2", "abandoned"}]
           /\ owed' \in [Requests -> Int]
           /\ owed'[r] = 0
           /\ \A q \in Requests : owed'[q] \in {0, 1} /\ (owner'[q] = "idle" => owed'[q] = 0)
           /\ \A q \in Requests \ {r} : owed'[q] = owed[q] /\ comp'[q] = comp[q]
           /\ Waiters'
<1>1. /\ comp' = [comp EXCEPT ![r] = s]
      /\ rsem' = [rsem EXCEPT ![r] = IF r \in Sync THEN @ + 1 ELSE @]
      /\ owner' = [owner EXCEPT ![r] = IF @ = "async" THEN "idle" ELSE @]
      /\ owed' = [owed EXCEPT ![r] = @ - 1]
  BY DEF UsbIoSetRequestCompletionInfo
<1>2. TypeOK /\ CompletedMeansReleased /\ Waiters
  BY DEF IInv
<1> QED  BY <1>1, <1>2 DEF TypeOK, CompletedMeansReleased, Waiters

\* The steps of IoSendProcess with a request in hand.
LEMMA SendIInv ==
    ASSUME IInv, SendWait \/ SendCheck \/ IoCancelRequest \/ SendSubmit \/ SendSubmitFails
    PROVE  IInv'
<1> USE DEF IInv
<1>1. CASE SendWait
  <2>1. sem' \in Nat
    BY <1>1 DEF SendWait, TypeOK
  <2> QED  BY <1>1, <2>1 DEF SendWait, TypeOK, InHand, CompletedMeansReleased, OnePlace, Waiters,
           Doomed, Held, Contains, Range, IsInjective, reqVars
<1>2. CASE SendCheck
  <2>1. /\ UNCHANGED <<queue, sem, posts, status, receiver, stopper, reqVars>>
        /\ cur' \in {cur, NoRequest}
        /\ sender' \in {"exit", "wait", "cancelled"}
        /\ sender' = "cancelled" => cur' \in Requests
        /\ sender' # "cancelled" => cur' = NoRequest
    BY <1>2 DEF SendCheck, TypeOK
  <2> QED  BY <2>1 DEF TypeOK, InHand, CompletedMeansReleased, OnePlace, Waiters, Doomed, Held,
           Contains, Range, IsInjective, reqVars
<1>3. CASE IoCancelRequest
  <2>1. /\ UNCHANGED <<queue, sem, posts, status, receiver, stopper, urb, urbs, rsem, owner,
                       canceller, owed, asked>>
        /\ cur \in Requests
        /\ \/ sender' = "wait" /\ cur' = NoRequest
           \/ sender' = "submit" /\ cur' = cur /\ comp'[cur] # "CANCELLED"
    BY <1>3 DEF IoCancelRequest, InHand
  <2>2. /\ comp' = comp \/ comp' = [comp EXCEPT ![cur] = "CANCELLED"]
        /\ reqStatus' = reqStatus \/ \E s \in CancelMark(cur) : reqStatus' = [reqStatus EXCEPT ![cur] = s]
    BY <1>3 DEF IoCancelRequest
  <2>3. comp' \in [Requests -> Statuses] /\ reqStatus' \in [Requests -> Statuses]
    <3>1. CancelMark(cur) \subseteq Statuses /\ "CANCELLED" \in Statuses
      BY <2>1 DEF CancelMark, Statuses
    <3>2. comp' \in [Requests -> Statuses]
      BY <2>2, <3>1 DEF TypeOK
    <3>3. CASE reqStatus' = reqStatus
      BY <3>2, <3>3 DEF TypeOK
    <3>4. ASSUME NEW s \in CancelMark(cur), reqStatus' = [reqStatus EXCEPT ![cur] = s]
          PROVE  reqStatus' \in [Requests -> Statuses]
      BY <3>1, <3>4 DEF TypeOK
    <3> QED  BY <2>2, <3>2, <3>3, <3>4
  <2>4. TypeOK'
    BY <2>1, <2>3 DEF TypeOK
  <2>5. Doomed'
    BY <2>1, <2>2 DEF Doomed, TypeOK
  <2>6. InHand' /\ CompletedMeansReleased' /\ OnePlace' /\ Waiters'
    BY <2>1 DEF TypeOK, InHand, CompletedMeansReleased, OnePlace, Waiters, Held, Contains, Range, IsInjective
  <2> QED  BY <2>4, <2>5, <2>6
<1>4. CASE SendSubmit
  <2>1. /\ UNCHANGED <<queue, sem, posts, status, receiver, stopper, comp, rsem, owner, canceller,
                       owed, asked>>
        /\ cur \in Requests /\ sender = "submit" /\ sender' = "wait" /\ cur' = NoRequest
        /\ urb' = [urb EXCEPT ![cur] = "active"]
    BY <1>4 DEF SendSubmit, InHand
  <2>2. reqStatus' \in [Requests -> Statuses]
    BY <1>4, <2>1 DEF SendSubmit, SubmitStatus, TypeOK, Statuses
  <2>3. urbs' \in [Requests -> BOOLEAN]
    BY <1>4, <2>1, Zenon DEF SendSubmit, TypeOK
  <2>4. TypeOK'
    BY <2>1, <2>2, <2>3 DEF TypeOK
  <2>5. InHand' /\ Waiters'
    BY <2>1 DEF InHand, Waiters
  <2>6. CompletedMeansReleased' /\ OnePlace' /\ Doomed'
    BY <2>1 DEF CompletedMeansReleased, OnePlace, Doomed, TypeOK, Held, Contains, Range, IsInjective
  <2> QED  BY <2>4, <2>5, <2>6
<1>5. CASE SendSubmitFails
  <2>1. /\ UNCHANGED <<queue, sem, posts, status, receiver, stopper, urb, canceller, asked>>
        /\ cur \in Requests /\ sender = "submit" /\ sender' = "wait" /\ cur' = NoRequest
        /\ UsbIoSetRequestCompletionInfo(cur, "ERROR")
    BY <1>5 DEF SendSubmitFails, InHand
  <2>2. owed[cur] = 1
    BY <2>1 DEF CompletedMeansReleased, Held
  <2>3. /\ comp' \in [Requests -> Statuses]
        /\ rsem' \in [Requests -> Nat]
        /\ owner' \in [Requests -> {"idle", "async", "post", "wait1", "cancel", "wait2", "abandoned"}]
        /\ owed' \in [Requests -> Int]
        /\ owed'[cur] = 0
        /\ \A q \in Requests : owed'[q] \in {0, 1} /\ (owner'[q] = "idle" => owed'[q] = 0)
        /\ \A q \in Requests \ {cur} : owed'[q] = owed[q] /\ comp'[q] = comp[q]
        /\ Waiters'
    BY <2>1, <2>2, CompletionFacts DEF Statuses
  <2>4. reqStatus' \in [Requests -> Statuses]
    <3>1. SubmitStatus(cur) \in Statuses
      BY <2>1 DEF SubmitStatus, TypeOK, Statuses
    <3>2. reqStatus' = reqStatus \/ reqStatus' = [reqStatus EXCEPT ![cur] = SubmitStatus(cur)]
      BY <1>5 DEF SendSubmitFails
    <3> QED  BY <2>1, <3>1, <3>2 DEF TypeOK
  <2>5. urbs' \in [Requests -> BOOLEAN]
    <3>1. urbs' = urbs \/ urbs' = [urbs EXCEPT ![cur] = cur \notin Control]
      BY <1>5 DEF SendSubmitFails
    <3> QED  BY <3>1, <2>1, Zenon DEF TypeOK
  <2>6. TypeOK'
    BY <2>1, <2>3, <2>4, <2>5 DEF TypeOK
  <2>7. InHand'
    BY <2>1 DEF InHand
  <2>8. OnePlace'
    BY <2>1 DEF OnePlace, Contains, Range, IsInjective
  <2>9. CompletedMeansReleased'
    <3>1. \A q \in Requests : Held(q)' => Held(q) /\ q # cur
      BY <2>1 DEF OnePlace, Held, Contains, Range
    <3> QED  BY <2>3, <3>1 DEF CompletedMeansReleased
  <2>10. Doomed'
    BY <2>1, <2>3 DEF Doomed
  <2> QED  BY <2>3, <2>6, <2>7, <2>8, <2>9, <2>10
<1> QED  BY <1>1, <1>2, <1>3, <1>4, <1>5

\* The completion of a request whose urb has been reaped.
LEMMA CompleteIInv ==
    ASSUME IInv, NEW r \in Requests, AdapterUrbCompleteHandle(r)
    PROVE  IInv'
<1> USE DEF IInv
<1>1. /\ UNCHANGED <<queue, sem, posts, status, sender, cur, stopper, canceller, asked>>
      /\ receiver' = "test" /\ urb[r] # "none" /\ urb' = [urb EXCEPT ![r] = "none"]
  BY DEF AdapterUrbCompleteHandle
<1>2. owed[r] = 1 /\ ~Contains(queue, r) /\ cur # r
  BY <1>1 DEF CompletedMeansReleased, OnePlace, Held
<1>3. PICK s \in Statuses : UsbIoSetRequestCompletionInfo(r, s)
  BY DEF AdapterUrbCompleteHandle, OsControlCompletion, OsBulkCompletion, UrbStatus, Statuses, TypeOK
<1>4. /\ comp' \in [Requests -> Statuses]
      /\ rsem' \in [Requests -> Nat]
      /\ owner' \in [Requests -> {"idle", "async", "post", "wait1", "cancel", "wait2", "abandoned"}]
      /\ owed' \in [Requests -> Int]
      /\ owed'[r] = 0
      /\ \A q \in Requests : owed'[q] \in {0, 1} /\ (owner'[q] = "idle" => owed'[q] = 0)
      /\ \A q \in Requests \ {r} : owed'[q] = owed[q] /\ comp'[q] = comp[q]
      /\ Waiters'
  BY <1>2, <1>3, CompletionFacts
<1>5. reqStatus' \in [Requests -> Statuses]
  <2>1. UrbStatus(r) \subseteq Statuses /\ reqStatus[r] \in Statuses
    BY DEF UrbStatus, Statuses, TypeOK
  <2>2. reqStatus' = reqStatus \/ \E t \in Statuses : reqStatus' = [reqStatus EXCEPT ![r] = t]
    BY <2>1 DEF AdapterUrbCompleteHandle, OsControlCompletion, OsBulkCompletion
  <2> QED  BY <2>2 DEF TypeOK
<1>6. urbs' \in [Requests -> BOOLEAN]
  <2>1. urbs' = urbs \/ urbs' = [urbs EXCEPT ![r] = FALSE]
    BY DEF AdapterUrbCompleteHandle, OsControlCompletion, OsBulkCompletion
  <2> QED  BY <2>1, Zenon DEF TypeOK
<1>7. TypeOK'
  BY <1>1, <1>4, <1>5, <1>6 DEF TypeOK
<1>8. InHand'
  BY <1>1 DEF InHand
<1>9. OnePlace'
  BY <1>1 DEF OnePlace, TypeOK, Contains, Range, IsInjective
<1>10. CompletedMeansReleased'
  <2>1. \A q \in Requests : Held(q)' => Held(q) /\ q # r
    BY <1>1, <1>2 DEF TypeOK, Held, Contains, Range
  <2> QED  BY <1>4, <2>1 DEF CompletedMeansReleased
<1>11. Doomed'
  BY <1>1, <1>4 DEF Doomed, TypeOK
<1> QED  BY <1>4, <1>7, <1>8, <1>9, <1>10, <1>11

\* Every step preserves the invariant.
LEMMA NextIInv == IInv /\ [Next]_vars => IInv'
<1> SUFFICES ASSUME IInv, [Next]_vars PROVE IInv'
  OBVIOUS
<1>1. ASSUME NEW r \in Requests, ClientNext(r) \/ UsbCancelRequest(r) \/ AdapterUrbCompleteHandle(r)
      PROVE  IInv'
  BY <1>1, SubmitIInv, WaitIInv, CancelIInv, CompleteIInv DEF ClientNext
<1>2. CASE SenderNext
  BY <1>2, GetIInv, SendIInv DEF SenderNext
<1>3. CASE AsyncPost \/ ReceiverNext \/ ReceiveFails \/ StopEnter \/ StopNext
  BY <1>3, ThreadsIInv
<1>4. CASE UNCHANGED vars
  BY <1>4, StutterIInv
<1> QED  BY <1>1, <1>2, <1>3, <1>4 DEF Next

-----------------------------------------------------------------------------
(* The wakeups of IoSendProcess *)

\* The callers between the two halves of UsbIoSendRequest can be counted.
LEMMA PostingFinite == IsFiniteSet(Posting) /\ Cardinality(Posting) \in Nat
<1>1. Posting \subseteq Requests
  BY DEF Posting
<1>2. IsFiniteSet(Posting)
  BY <1>1, FS_Subset
<1> QED  BY <1>2, FS_CardinalityType

\* Every step keeps a post for each queued request.
LEMMA NextWakeup == IInv /\ WakeupForEachQueued /\ [Next]_vars => WakeupForEachQueued'
<1> SUFFICES ASSUME IInv, WakeupForEachQueued, [Next]_vars PROVE WakeupForEachQueued'
  OBVIOUS
<1> DEFINE c == Cardinality(Posting)
           pop == IF sender = "pop" THEN 1 ELSE 0
<1>1. c \in Nat /\ sem \in Nat /\ posts \in Nat /\ queue \in Seq(Requests) /\ Len(queue) \in Nat
      /\ Len(queue) <= sem + posts + c + pop
  BY PostingFinite DEF IInv, TypeOK, WakeupForEachQueued
<1>2. ASSUME NEW r \in Requests, UsbSubmitRequestAsync(r) PROVE WakeupForEachQueued'
  <2>1. Posting' = Posting
    BY <1>2 DEF Posting, UsbSubmitRequestAsync, Enqueue, IInv, TypeOK
  <2>2. Len(queue') = Len(queue) + 1 /\ posts' = posts + 1 /\ UNCHANGED <<sem, sender>>
    BY <1>1, <1>2 DEF UsbSubmitRequestAsync, Enqueue
  <2> QED  BY <1>1, <2>1, <2>2 DEF WakeupForEachQueued
<1>3. ASSUME NEW r \in Requests, UsbSubmitRequestSync(r) PROVE WakeupForEachQueued'
  <2>1. Posting' = Posting \cup {r} /\ r \notin Posting
    BY <1>3 DEF Posting, UsbSubmitRequestSync, Enqueue, IInv, TypeOK
  <2>2. Cardinality(Posting \cup {r}) = c + 1
    BY <2>1, PostingFinite, FS_AddElement
  <2>3. Len(queue') = Len(queue) + 1 /\ UNCHANGED <<sem, posts, sender>>
    BY <1>1, <1>3 DEF UsbSubmitRequestSync, Enqueue
  <2> QED  BY <1>1, <2>1, <2>2, <2>3 DEF WakeupForEachQueued
<1>4. ASSUME NEW r \in Requests, SyncPost(r) PROVE WakeupForEachQueued'
  <2>1. Posting' = Posting \ {r} /\ r \in Posting
    BY <1>4 DEF Posting, SyncPost, IInv, TypeOK
  <2>2. Cardinality(Posting \ {r}) = c - 1
    BY <2>1, PostingFinite, FS_RemoveElement
  <2>3. sem' = sem + 1 /\ UNCHANGED <<queue, posts, sender>>
    BY <1>4 DEF SyncPost
  <2> QED  BY <1>1, <2>1, <2>2, <2>3 DEF WakeupForEachQueued
<1>5. CASE AsyncPost \/ SendWait
  <2>1. UNCHANGED <<queue, owner>>
    BY <1>5 DEF AsyncPost, SendWait, reqVars
  <2>2. Posting' = Posting
    BY <2>1 DEF Posting
  <2>3. CASE AsyncPost
    BY <1>1, <2>1, <2>2, <2>3 DEF AsyncPost, WakeupForEachQueued
  <2>4. CASE SendWait
    <3>1. sender = "wait" /\ sender' = "pop" /\ sem' = sem - 1 /\ posts' = posts
      BY <2>4 DEF SendWait
    <3> QED  BY <1>1, <2>1, <2>2, <3>1 DEF WakeupForEachQueued
  <2> QED  BY <1>5, <2>3, <2>4
<1>6. CASE UsbIoGetRequest
  <2>1. sender = "pop" /\ sender' = "check" /\ UNCHANGED <<sem, posts, owner>>
    BY <1>6 DEF UsbIoGetRequest, reqVars
  <2>2. Len(queue') = 0 \/ Len(queue') = Len(queue) - 1
    <3>1. CASE queue = <<>>
      BY <1>6, <3>1 DEF UsbIoGetRequest
    <3>2. CASE queue # <<>>
      BY <1>1, <1>6, <3>2 DEF UsbIoGetRequest
    <3> QED  BY <3>1, <3>2
  <2>3. Posting' = Posting
    BY <2>1 DEF Posting
  <2> QED  BY <1>1, <2>1, <2>2, <2>3 DEF WakeupForEachQueued
<1>7. ASSUME UNCHANGED <<queue, posts>>, sem' = sem \/ sem' = sem + 1,
             sender' = sender,
             \A r \in Requests : owner'[r] = "post" <=> owner[r] = "post"
      PROVE  WakeupForEachQueued'
  <2>1. Posting' = Posting
    BY <1>7 DEF Posting
  <2> QED  BY <1>1, <1>7, <2>1 DEF WakeupForEachQueued
<1>8. ASSUME NEW r \in Requests,
             SyncWoken(r) \/ SyncTimeout(r) \/ SyncGiveUp(r) \/ AsyncCancel(r)
             \/ UsbCancelRequest(r) \/ AdapterUrbCompleteHandle(r)
      PROVE  WakeupForEachQueued'
  <2>1. UNCHANGED <<queue, posts, sem, sender>>
    BY <1>8 DEF SyncWoken, SyncTimeout, SyncGiveUp, AsyncCancel, StartCancel, UsbCancelRequest,
       CancelDiscard, AdapterCancelRequest, CancelInfo, AdapterUrbCompleteHandle, ioVars
  <2>2. CASE SyncWoken(r) \/ SyncTimeout(r) \/ SyncGiveUp(r) \/ AsyncCancel(r)
    BY <1>7, <2>1, <2>2 DEF SyncWoken, SyncTimeout, SyncGiveUp, AsyncCancel, IInv, TypeOK
  <2>3. CASE UsbCancelRequest(r)
    BY <1>7, <2>1, <2>3 DEF UsbCancelRequest, CancelDiscard, AdapterCancelRequest, CancelInfo,
       EndCancel, IInv, TypeOK
  <2>4. CASE AdapterUrbCompleteHandle(r)
    <3>1. owner' = [owner EXCEPT ![r] = IF @ = "async" THEN "idle" ELSE @]
      BY <2>4 DEF AdapterUrbCompleteHandle, OsControlCompletion, OsBulkCompletion,
         UsbIoSetRequestCompletionInfo
    <3> QED  BY <1>7, <2>1, <3>1 DEF IInv, TypeOK
  <2> QED  BY <1>8, <2>2, <2>3, <2>4
<1>9. CASE SendCheck \/ IoCancelRequest \/ SendSubmit \/ SendSubmitFails
  <2>1. UNCHANGED <<queue, posts, sem>> /\ sender \in {"check", "cancelled", "submit"}
        /\ sender' # "pop"
    BY <1>9 DEF SendCheck, IoCancelRequest, SendSubmit, SendSubmitFails
  <2>2. \A q \in Requests : owner'[q] = "post" <=> owner[q] = "post"
    BY <1>9 DEF SendCheck, IoCancelRequest, SendSubmit, SendSubmitFails, reqVars,
       UsbIoSetRequestCompletionInfo, IInv, TypeOK
  <2>3. Posting' = Posting
    BY <2>2 DEF Posting
  <2> QED  BY <1>1, <2>1, <2>3 DEF WakeupForEachQueued
<1>10. CASE ReceiverNext \/ ReceiveFails \/ StopEnter \/ StopNext \/ UNCHANGED vars
  <2>1. UNCHANGED <<queue, posts, sender, owner>> /\ (sem' = sem \/ sem' = sem + 1)
    BY <1>10 DEF ReceiverNext, ReceiveEnter, ReceiveTest, ReceiveMark, ReceiveFails, StopEnter,
       StopNext, StopCheck, StopSet, RawKillSignal, StopPoll, reqVars, vars
  <2> QED  BY <1>7, <2>1
<1> QED  BY <1>2, <1>3, <1>4, <1>5, <1>6, <1>8, <1>9, <1>10 DEF Next, ClientNext, SenderNext

-----------------------------------------------------------------------------
\* The inductive invariant holds in every reachable state.
THEOREM Invariance == Spec => []IInv
BY InitIInv, NextIInv, PTL DEF Spec

\* Type correctness of the request path.
THEOREM TypeCorrect == Spec => []TypeOK
<1>1. IInv => TypeOK
  BY DEF IInv
<1> QED  BY <1>1, Invariance, PTL

\* No submission is completed twice, and a request whose submission has ended is held by
\* neither the queue nor IoSendProcess nor the kernel, for any set of requests.
THEOREM CompletedMeansReleasedHolds == Spec => []CompletedMeansReleased
<1>1. IInv => CompletedMeansReleased
  BY DEF IInv
<1> QED  BY <1>1, Invariance, PTL

\* A request is never in two of the queue, the thread's hands and the kernel.
THEOREM OnePlaceHolds == Spec => []OnePlace
<1>1. IInv => OnePlace
  BY DEF IInv
<1> QED  BY <1>1, Invariance, PTL

\* A request cancelled while it was queued is never given to the device.
THEOREM CancelledWhileQueuedHolds == Spec => []CancelledWhileQueued
<1>1. IInv => CancelledWhileQueued
  BY DEF IInv, Doomed, CancelledWhileQueued
<1> QED  BY <1>1, Invariance, PTL

\* IoSendProcess never sleeps while a request is queued that nobody is about to post for.
THEOREM WakeupForEachQueuedHolds == Spec => []WakeupForEachQueued
<1>1. Init => WakeupForEachQueued
  BY PostingFinite DEF Init, WakeupForEachQueued
<1> QED  BY <1>1, InitIInv, NextIInv, NextWakeup, PTL DEF Spec
-----------------------------------------------------------------------------
(* Cancellations and later submissions *)

\* A bulk request whose submission nobody cancelled is not being cancelled, and the kernel
\* has it with its reqStatus reset.
Fresh ==
    \A r \in Requests \ Control :
        asked[r] = "no" =>
            /\ canceller[r] = "no"
            /\ urb[r] # "none" => reqStatus[r] # "CANCELLED"

\* A step that leaves the marks of the requests alone preserves Fresh.
LEMMA SameFresh ==
    ASSUME Fresh, UNCHANGED <<asked, canceller, urb, reqStatus>>
    PROVE  Fresh'
BY DEF Fresh

\* A submission finds its request with neither the queue nor the kernel.
LEMMA SubmitFresh ==
    ASSUME IInv, Fresh, NEW r \in Requests, UsbSubmitRequestAsync(r) \/ UsbSubmitRequestSync(r)
    PROVE  Fresh'
<1>1. /\ owner[r] = "idle" /\ UNCHANGED <<urb, reqStatus, canceller>>
      /\ asked' = [asked EXCEPT ![r] = IF canceller[r] = "no" THEN "no" ELSE "asked"]
  BY DEF UsbSubmitRequestAsync, UsbSubmitRequestSync, Enqueue
<1>2. urb[r] = "none"
  BY <1>1 DEF IInv, CompletedMeansReleased, Held
<1> QED  BY <1>1, <1>2 DEF Fresh, IInv, TypeOK

\* The waits leave the marks alone, and a cancellation that starts is asked for.
LEMMA WaitFresh ==
    ASSUME IInv, Fresh, NEW r \in Requests,
           SyncPost(r) \/ SyncWoken(r) \/ SyncTimeout(r) \/ SyncGiveUp(r) \/ AsyncCancel(r)
    PROVE  Fresh'
<1>1. CASE SyncPost(r) \/ SyncWoken(r) \/ SyncGiveUp(r)
  BY <1>1, SameFresh DEF SyncPost, SyncWoken, SyncGiveUp
<1>2. CASE SyncTimeout(r) \/ AsyncCancel(r)
  BY <1>2 DEF SyncTimeout, AsyncCancel, StartCancel, Fresh, IInv, TypeOK
<1> QED  BY <1>1, <1>2

\* UsbCancelRequest writes to a request whose cancellation was asked for.
LEMMA CancelFresh ==
    ASSUME IInv, Fresh, NEW r \in Requests, UsbCancelRequest(r)
    PROVE  Fresh'
<1>1. CASE CancelDiscard(r)
  BY <1>1 DEF CancelDiscard, EndCancel, Fresh, IInv, TypeOK
<1>2. CASE AdapterCancelRequest(r)
  BY <1>2 DEF AdapterCancelRequest, Fresh, IInv, TypeOK
<1>3. CASE CancelInfo(r)
  BY <1>3 DEF CancelInfo, EndCancel, Fresh, IInv, TypeOK
<1> QED  BY <1>1, <1>2, <1>3 DEF UsbCancelRequest

\* IoSendProcess marks a request only while the kernel does not have it, and resets the mark
\* when it submits a bulk request.
LEMMA SendFresh ==
    ASSUME IInv, Fresh, SenderNext
    PROVE  Fresh'
<1>1. CASE SendWait \/ UsbIoGetRequest \/ SendCheck
  BY <1>1, SameFresh DEF SendWait, UsbIoGetRequest, SendCheck, reqVars
<1>2. ASSUME sender \in {"cancelled", "submit"}  PROVE cur \in Requests /\ urb[cur] = "none"
  BY <1>2 DEF IInv, InHand, OnePlace
<1>3. CASE IoCancelRequest
  <2>1. UNCHANGED <<asked, canceller, urb>> /\ cur \in Requests /\ urb[cur] = "none"
    BY <1>2, <1>3 DEF IoCancelRequest
  <2>2. \A r \in Requests : r # cur => reqStatus'[r] = reqStatus[r]
    BY <1>3 DEF IoCancelRequest, IInv, TypeOK
  <2> QED  BY <2>1, <2>2 DEF Fresh
<1>4. CASE SendSubmit
  BY <1>2, <1>4 DEF SendSubmit, SubmitStatus, Fresh, IInv, TypeOK
<1>5. CASE SendSubmitFails
  BY <1>2, <1>5 DEF SendSubmitFails, SubmitStatus, Fresh, IInv, TypeOK
<1> QED  BY <1>1, <1>3, <1>4, <1>5 DEF SenderNext

\* A completion takes the request from the kernel.
LEMMA CompleteFresh ==
    ASSUME IInv, Fresh, NEW r \in Requests, AdapterUrbCompleteHandle(r)
    PROVE  Fresh'
<1>1. urb' = [urb EXCEPT ![r] = "none"] /\ UNCHANGED <<canceller, asked>>
  BY DEF AdapterUrbCompleteHandle
<1>2. \A q \in Requests : q # r => reqStatus'[q] = reqStatus[q]
  BY DEF AdapterUrbCompleteHandle, OsControlCompletion, OsBulkCompletion, IInv, TypeOK
<1> QED  BY <1>1, <1>2 DEF Fresh, IInv, TypeOK

\* Every step preserves Fresh.
LEMMA NextFresh == IInv /\ Fresh /\ [Next]_vars => Fresh'
<1> SUFFICES ASSUME IInv, Fresh, [Next]_vars PROVE Fresh'
  OBVIOUS
<1>1. ASSUME NEW r \in Requests, ClientNext(r) \/ UsbCancelRequest(r) \/ AdapterUrbCompleteHandle(r)
      PROVE  Fresh'
  BY <1>1, SubmitFresh, WaitFresh, CancelFresh, CompleteFresh DEF ClientNext
<1>2. CASE SenderNext
  BY <1>2, SendFresh
<1>3. CASE AsyncPost \/ ReceiverNext \/ ReceiveFails \/ StopEnter \/ StopNext \/ UNCHANGED vars
  <2>1. UNCHANGED <<asked, canceller, urb, reqStatus>>
    BY <1>3 DEF AsyncPost, ReceiverNext, ReceiveEnter, ReceiveTest, ReceiveMark, ReceiveFails, StopEnter,
       StopNext, StopCheck, StopSet, RawKillSignal, StopPoll, reqVars, vars
  <2> QED  BY <2>1, SameFresh
<1> QED  BY <1>1, <1>2, <1>3 DEF Next

\* Only a completion pays what is owed, and a bulk request completes as cancelled only if its
\* reqStatus says so while the kernel has it.
LEMMA CompletedAsAsked ==
    ASSUME IInv, Fresh, [Next]_vars, NEW r \in Requests \ Control,
           owed'[r] < owed[r], comp'[r] = "CANCELLED"
    PROVE  asked[r] # "no"
<1>1. ASSUME NEW q \in Requests, UsbSubmitRequestAsync(q) \/ UsbSubmitRequestSync(q)  PROVE FALSE
  <2>1. owed' = [owed EXCEPT ![q] = @ + 1]
    BY <1>1 DEF UsbSubmitRequestAsync, UsbSubmitRequestSync, Enqueue
  <2> QED  BY <2>1 DEF IInv, TypeOK
<1>2. ASSUME UNCHANGED owed  PROVE FALSE
  BY <1>2 DEF IInv, TypeOK
<1>3. ASSUME NEW q \in Requests,
             SyncPost(q) \/ SyncWoken(q) \/ SyncTimeout(q) \/ SyncGiveUp(q) \/ AsyncCancel(q)
             \/ UsbCancelRequest(q)
      PROVE  FALSE
  BY <1>2, <1>3 DEF SyncPost, SyncWoken, SyncTimeout, SyncGiveUp, AsyncCancel, StartCancel,
     UsbCancelRequest, CancelDiscard, AdapterCancelRequest, CancelInfo
<1>4. CASE SendWait \/ UsbIoGetRequest \/ SendCheck \/ IoCancelRequest \/ SendSubmit
  BY <1>2, <1>4 DEF SendWait, UsbIoGetRequest, SendCheck, IoCancelRequest, SendSubmit, reqVars
<1>5. CASE SendSubmitFails
  <2>1. owed' = [owed EXCEPT ![cur] = @ - 1] /\ comp' = [comp EXCEPT ![cur] = "ERROR"]
    BY <1>5 DEF SendSubmitFails, UsbIoSetRequestCompletionInfo
  <2> QED  BY <2>1 DEF IInv, TypeOK
<1>6. ASSUME NEW q \in Requests, AdapterUrbCompleteHandle(q)  PROVE asked[r] # "no"
  <2>1. owed' = [owed EXCEPT ![q] = @ - 1]
    BY <1>6 DEF AdapterUrbCompleteHandle, OsControlCompletion, OsBulkCompletion, UsbIoSetRequestCompletionInfo
  <2>2. q = r
    BY <2>1 DEF IInv, TypeOK
  <2>3. urb[r] # "none" /\ OsBulkCompletion(r)
    BY <1>6, <2>2 DEF AdapterUrbCompleteHandle, OsControlCompletion
  <2>4. PICK s \in IF reqStatus[r] = "COMPLETED" THEN UrbStatus(r) ELSE {reqStatus[r]} :
          comp' = [comp EXCEPT ![r] = s]
    BY <2>3, Zenon DEF OsBulkCompletion, UsbIoSetRequestCompletionInfo
  <2>5. s = "CANCELLED"
    BY <2>4 DEF IInv, TypeOK
  <2>6. reqStatus[r] = "CANCELLED"
    BY <2>4, <2>5 DEF UrbStatus
  <2> QED  BY <2>3, <2>6 DEF Fresh
<1>7. CASE AsyncPost \/ ReceiverNext \/ ReceiveFails \/ StopEnter \/ StopNext \/ UNCHANGED vars
  BY <1>2, <1>7 DEF AsyncPost, ReceiverNext, ReceiveEnter, ReceiveTest, ReceiveMark, ReceiveFails,
     StopEnter, StopNext, StopCheck, StopSet, RawKillSignal, StopPoll, reqVars, vars
<1> QED  BY <1>1, <1>3, <1>4, <1>5, <1>6, <1>7 DEF Next, ClientNext, SenderNext

\* A submission of a bulk request that nobody cancelled is not completed as cancelled, however
\* the submissions before it ended: OsSubmitBulkRequest resets reqStatus. OsSubmitControlRequest
\* does not, so the theorem is about pools without control requests.
THEOREM CancelledOnlyIfAskedHolds ==
    ASSUME Control = {}
    PROVE  Spec => CancelledOnlyIfAsked
<1>1. Init => Fresh
  BY DEF Init, Fresh
<1>2. IInv /\ Fresh /\ [Next]_vars =>
        [\A r \in Requests : owed'[r] < owed[r] /\ comp'[r] = "CANCELLED" => asked[r] # "no"]_vars
  BY CompletedAsAsked
<1> QED  BY <1>1, <1>2, InitIInv, NextIInv, NextFresh, PTL DEF Spec, CancelledOnlyIfAsked
=============================================================================
