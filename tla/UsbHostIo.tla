----------------------------- MODULE UsbHostIo ------------------------------
(***************************************************************************)
(* The request path of the USB host DDK over one open interface pool: the  *)
(* clients that submit, cancel and wait for requests, the thread           *)
(* IoSendProcess that drains the submit queue, the thread                  *)
(* IoAsyncReceiveProcess that reaps finished urbs, and UsbIoStop, called   *)
(* when the last handle of the pool is closed.                             *)
(*                                                                         *)
(* Control and bulk requests are modelled.  Either takes one urb: the      *)
(* length of a bulk request is at most MAX_BULK_DATA_BUFFER_LENGTH.  The   *)
(* kernel is external: it keeps the submitted urbs and finishes them in    *)
(* any order and with any status.                                          *)
(***************************************************************************)
EXTENDS Integers, Sequences, FiniteSets, Functions

CONSTANTS Requests,     \* requests allocated on the interfaces of the pool
          Sync,         \* those their client submits with UsbSubmitRequestSync
          Timed,        \* those filled with a timeout other than zero
          Control,      \* those of a control pipe
          NoRequest     \* *request == NULL

ASSUME RequestAssumption ==
    /\ IsFiniteSet(Requests)
    /\ Sync \subseteq Requests
    /\ Timed \subseteq Requests
    /\ Control \subseteq Requests
    /\ NoRequest \notin Requests

VARIABLES status,      \* ioProcessStopStatus
          queue,       \* submitRequestQueue.entry
          sem,         \* submitRequestQueue.sem
          posts,       \* UsbIoSendRequest calls that have queued and not yet posted
          sender,      \* where IoSendProcess is
          cur,         \* submitRequest, local to IoSendProcess
          receiver,    \* where IoAsyncReceiveProcess is
          stopper,     \* where UsbIoStop is
          urb,         \* what the kernel has of each request
          urbs,        \* hostRequest->urbs is not NULL
          reqStatus,   \* hostRequest->reqStatus
          comp,        \* request.compInfo.status
          rsem,        \* hostRequest->sem
          owner,       \* where the client that uses the request is
          canceller,   \* where UsbCancelRequest is, per request
          owed,        \* history: completions owed to the client
          asked        \* history: what became of a cancellation of this submission

ioVars == <<status, queue, sem, posts, sender, cur, receiver, stopper>>
reqVars == <<urb, urbs, reqStatus, comp, rsem, owner, canceller, owed, asked>>
vars == <<status, queue, sem, posts, sender, cur, receiver, stopper, urb, urbs, reqStatus,
          comp, rsem, owner, canceller, owed, asked>>

Contains(q, r) == r \in Range(q)

\* ERROR stands for every status of a transfer that failed: ERROR, STALL, OVERFLOW, NO_DEVICE.
Statuses == {"COMPLETED", "CANCELLED", "ERROR", "TIMEOUT"}

TypeOK ==
    /\ status \in {"RUNNING", "STOP", "STOPED"}
    /\ queue \in Seq(Requests)
    /\ sem \in Nat
    /\ posts \in Nat
    /\ sender \in {"wait", "pop", "check", "cancelled", "submit", "exit"}
    /\ cur \in Requests \cup {NoRequest}
    /\ receiver \in {"run", "reap", "test", "mark", "exit"}
    /\ stopper \in {"open", "check", "set", "kill", "poll", "closed"}
    /\ urb \in [Requests -> {"none", "active", "discarded"}]
    /\ urbs \in [Requests -> BOOLEAN]
    /\ reqStatus \in [Requests -> Statuses]
    /\ comp \in [Requests -> Statuses]
    /\ rsem \in [Requests -> Nat]
    /\ owner \in [Requests -> {"idle", "async", "post", "wait1", "cancel", "wait2", "abandoned"}]
    /\ canceller \in [Requests -> {"no", "discard", "mark", "info"}]
    /\ owed \in [Requests -> Int]
    /\ asked \in [Requests -> {"no", "asked", "queued"}]

\* UsbIoStart has started both threads; AdapterAllocRequest has set urbs.
Init ==
    /\ status = "RUNNING"
    /\ queue = <<>>
    /\ sem = 0
    /\ posts = 0
    /\ sender = "wait"
    /\ cur = NoRequest
    /\ receiver = "run"
    /\ stopper = "open"
    /\ urb = [r \in Requests |-> "none"]
    /\ urbs = [r \in Requests |-> TRUE]
    /\ reqStatus = [r \in Requests |-> "COMPLETED"]
    /\ comp = [r \in Requests |-> "COMPLETED"]
    /\ rsem = [r \in Requests |-> 0]
    /\ owner = [r \in Requests |-> "idle"]
    /\ canceller = [r \in Requests |-> "no"]
    /\ owed = [r \in Requests |-> 0]
    /\ asked = [r \in Requests |-> "no"]

-----------------------------------------------------------------------------
(* Clients. One that has begun to close the pool submits no more. *)

\* UsbIoSendRequest puts the request at the tail under the queue's mutex. A client may
\* submit again from its callback while another thread of it is still cancelling.
Enqueue(r, next) ==
    /\ stopper = "open"
    /\ owner[r] = "idle"
    /\ queue' = Append(queue, r)
    /\ comp' = [comp EXCEPT ![r] = "COMPLETED"]
    /\ owner' = [owner EXCEPT ![r] = next]
    /\ owed' = [owed EXCEPT ![r] = @ + 1]
    /\ asked' = [asked EXCEPT ![r] = IF canceller[r] = "no" THEN "no" ELSE "asked"]
    /\ UNCHANGED <<status, sem, sender, cur, receiver, stopper, urb, urbs, reqStatus, canceller>>

\* Mutant: the semaphore is posted only for the first request of the queue.
PostFirstOnly(r) ==
    /\ r \notin Sync
    /\ Enqueue(r, "async")
    /\ posts' = IF queue = <<>> THEN posts + 1 ELSE posts
    /\ UNCHANGED rsem

UsbSubmitRequestAsync(r) ==
    /\ r \notin Sync
    /\ Enqueue(r, "async")
    /\ posts' = posts + 1
    /\ UNCHANGED rsem

UsbSubmitRequestSync(r) ==
    /\ r \in Sync
    /\ Enqueue(r, "post")
    /\ rsem' = [rsem EXCEPT ![r] = 0]
    /\ UNCHANGED posts

\* The semaphore is posted after the mutex has been released.
AsyncPost ==
    /\ posts > 0
    /\ posts' = posts - 1
    /\ sem' = sem + 1
    /\ UNCHANGED <<status, queue, sender, cur, receiver, stopper, reqVars>>

SyncPost(r) ==
    /\ owner[r] = "post"
    /\ owner' = [owner EXCEPT ![r] = "wait1"]
    /\ sem' = sem + 1
    /\ UNCHANGED <<status, queue, posts, sender, cur, receiver, stopper, urb, urbs, reqStatus,
                   comp, rsem, canceller, owed, asked>>

\* UsbSubmitRequestSync has been woken by the completion.
SyncWoken(r) ==
    /\ owner[r] \in {"wait1", "wait2"}
    /\ rsem[r] > 0
    /\ rsem' = [rsem EXCEPT ![r] = @ - 1]
    /\ comp' = [comp EXCEPT ![r] = IF owner[r] = "wait2" THEN "TIMEOUT" ELSE @]
    /\ owner' = [owner EXCEPT ![r] = "idle"]
    /\ UNCHANGED <<ioVars, urb, urbs, reqStatus, canceller, owed, asked>>

StartCancel(r) ==
    /\ canceller[r] = "no"
    /\ canceller' = [canceller EXCEPT ![r] = "discard"]
    /\ asked' = [asked EXCEPT ![r] = IF @ = "no" THEN "asked" ELSE @]
    /\ UNCHANGED <<ioVars, urb, urbs, reqStatus, comp, rsem, owed>>

\* The first wait timed out: the waiter cancels the request itself.
SyncTimeout(r) ==
    /\ r \in Timed
    /\ owner[r] = "wait1"
    /\ rsem[r] = 0
    /\ owner' = [owner EXCEPT ![r] = "cancel"]
    /\ StartCancel(r)

\* The second wait timed out too: the call returns although the request may still be
\* queued or with the kernel. The client uses it no more.
SyncGiveUp(r) ==
    /\ owner[r] = "wait2"
    /\ rsem[r] = 0
    /\ comp' = [comp EXCEPT ![r] = "TIMEOUT"]
    /\ owner' = [owner EXCEPT ![r] = "abandoned"]
    /\ UNCHANGED <<ioVars, urb, urbs, reqStatus, rsem, canceller, owed, asked>>

AsyncCancel(r) == owner[r] = "async" /\ StartCancel(r) /\ UNCHANGED owner

-----------------------------------------------------------------------------
(* UsbCancelRequest: three writes that no lock keeps together *)

\* The waiter of a synchronous request goes on to its second wait.
EndCancel(r) ==
    /\ canceller' = [canceller EXCEPT ![r] = "no"]
    /\ owner' = [owner EXCEPT ![r] = IF @ = "cancel" THEN "wait2" ELSE @]

\* Without urbs, AdapterCancelRequest returns HDF_ERR_BAD_FD and nothing is marked.
CancelDiscard(r) ==
    /\ canceller[r] = "discard"
    /\ \/ /\ ~urbs[r]
          /\ EndCancel(r)
          /\ UNCHANGED urb
       \/ /\ urbs[r]
          /\ canceller' = [canceller EXCEPT ![r] = "mark"]
          /\ urb' = [urb EXCEPT ![r] = IF @ = "active" THEN "discarded" ELSE @]
          /\ UNCHANGED owner
    /\ UNCHANGED <<ioVars, urbs, reqStatus, comp, rsem, owed, asked>>

\* A bulk request whose reqStatus is exactly USB_REQUEST_ERROR keeps it.
CancelMark(r) ==
    {"CANCELLED"} \cup (IF reqStatus[r] = "ERROR" /\ r \notin Control THEN {"ERROR"} ELSE {})

AdapterCancelRequest(r) ==
    /\ canceller[r] = "mark"
    /\ canceller' = [canceller EXCEPT ![r] = "info"]
    /\ \E s \in CancelMark(r) : reqStatus' = [reqStatus EXCEPT ![r] = s]
    /\ UNCHANGED <<ioVars, urb, urbs, comp, rsem, owner, owed, asked>>

CancelInfo(r) ==
    /\ canceller[r] = "info"
    /\ EndCancel(r)
    /\ comp' = [comp EXCEPT ![r] = "CANCELLED"]
    /\ asked' = [asked EXCEPT ![r] = IF Contains(queue, r) THEN "queued" ELSE @]
    /\ UNCHANGED <<ioVars, urb, urbs, reqStatus, rsem, owed>>

UsbCancelRequest(r) == CancelDiscard(r) \/ AdapterCancelRequest(r) \/ CancelInfo(r)

-----------------------------------------------------------------------------
\* The status, the user's callback and, for a synchronous request, the semaphore.
UsbIoSetRequestCompletionInfo(r, s) ==
    /\ comp' = [comp EXCEPT ![r] = s]
    /\ rsem' = [rsem EXCEPT ![r] = IF r \in Sync THEN @ + 1 ELSE @]
    /\ owner' = [owner EXCEPT ![r] = IF @ = "async" THEN "idle" ELSE @]
    /\ owed' = [owed EXCEPT ![r] = @ - 1]

-----------------------------------------------------------------------------
(* IoSendProcess *)

SendWait ==
    /\ sender = "wait"
    /\ sem > 0
    /\ sem' = sem - 1
    /\ sender' = "pop"
    /\ UNCHANGED <<status, queue, posts, cur, receiver, stopper, reqVars>>

\* Mutant: the request is read from the queue and not removed.
PeekRequest ==
    /\ sender = "pop"
    /\ sender' = "check"
    /\ cur' = IF queue = <<>> THEN NoRequest ELSE Head(queue)
    /\ UNCHANGED <<status, queue, sem, posts, receiver, stopper, reqVars>>

UsbIoGetRequest ==
    /\ sender = "pop"
    /\ sender' = "check"
    /\ \/ /\ queue = <<>>
          /\ cur' = NoRequest
          /\ UNCHANGED queue
       \/ /\ queue # <<>>
          /\ cur' = Head(queue)
          /\ queue' = Tail(queue)
    /\ UNCHANGED <<status, sem, posts, receiver, stopper, reqVars>>

\* A request that has just been taken from the queue is dropped when the pool stops.
SendCheck ==
    /\ sender = "check"
    /\ \/ /\ status # "RUNNING"
          /\ sender' = "exit"
          /\ cur' = NoRequest
       \/ /\ status = "RUNNING"
          /\ sender' = IF cur = NoRequest THEN "wait" ELSE "cancelled"
          /\ UNCHANGED cur
    /\ UNCHANGED <<status, queue, sem, posts, receiver, stopper, reqVars>>

\* Mutant: only the stop of the pool is looked at.
IgnoreCancelled ==
    /\ sender = "cancelled"
    /\ \/ /\ status # "RUNNING"
          /\ sender' = "wait"
          /\ cur' = NoRequest
       \/ /\ status = "RUNNING"
          /\ sender' = "submit"
          /\ UNCHANGED cur
    /\ UNCHANGED <<status, queue, sem, posts, receiver, stopper, reqVars>>

\* A cancelled request is dropped without a completion. If the pool stops meanwhile, the
\* thread cancels the request itself.
IoCancelRequest ==
    /\ sender = "cancelled"
    /\ \/ /\ status # "RUNNING"
          /\ urbs[cur]
          /\ \E s \in CancelMark(cur) : reqStatus' = [reqStatus EXCEPT ![cur] = s]
          /\ comp' = [comp EXCEPT ![cur] = "CANCELLED"]
       \/ /\ status = "RUNNING" \/ ~urbs[cur]
          /\ UNCHANGED <<reqStatus, comp>>
    /\ \/ /\ comp'[cur] = "CANCELLED"
          /\ sender' = "wait"
          /\ cur' = NoRequest
       \/ /\ comp'[cur] # "CANCELLED"
          /\ sender' = "submit"
          /\ UNCHANGED cur
    /\ UNCHANGED <<status, queue, sem, posts, receiver, stopper, urb, urbs, rsem, owner,
                   canceller, owed, asked>>

\* Mutant: no request has its status reset.
SubmitKeepsStatus(r) == reqStatus[r]

\* Only OsSubmitBulkRequest resets reqStatus.
SubmitStatus(r) == IF r \in Control THEN reqStatus[r] ELSE "COMPLETED"

SendSubmit ==
    /\ sender = "submit"
    /\ sender' = "wait"
    /\ cur' = NoRequest
    /\ urb' = [urb EXCEPT ![cur] = "active"]
    /\ urbs' = [urbs EXCEPT ![cur] = TRUE]
    /\ reqStatus' = [reqStatus EXCEPT ![cur] = SubmitStatus(cur)]
    /\ UNCHANGED <<status, queue, sem, posts, receiver, stopper, comp, rsem, owner, canceller,
                   owed, asked>>

\* Mutant: success on the last attempt is taken for a failure.
FailsOneEarly ==
    /\ sender = "submit"
    /\ sender' = "wait"
    /\ cur' = NoRequest
    /\ urb' = [urb EXCEPT ![cur] = "active"]
    /\ UsbIoSetRequestCompletionInfo(cur, "ERROR")
    /\ UNCHANGED <<status, queue, sem, posts, receiver, stopper, urbs, reqStatus, canceller, asked>>

\* Mutant: the failure is logged and the request forgotten.
FailsSilently ==
    /\ sender = "submit"
    /\ sender' = "wait"
    /\ cur' = NoRequest
    /\ UNCHANGED <<status, queue, sem, posts, receiver, stopper, reqVars>>

\* Every one of the USB_IO_SUBMIT_RETRY_TIME_CNT attempts failed: in the parameter check,
\* which comes before the reset, or in the ioctl, after which a control request has no urbs.
SendSubmitFails ==
    /\ sender = "submit"
    /\ sender' = "wait"
    /\ cur' = NoRequest
    /\ \/ UNCHANGED <<urbs, reqStatus>>
       \/ /\ urbs' = [urbs EXCEPT ![cur] = cur \notin Control]
          /\ reqStatus' = [reqStatus EXCEPT ![cur] = SubmitStatus(cur)]
    /\ UsbIoSetRequestCompletionInfo(cur, "ERROR")
    /\ UNCHANGED <<status, queue, sem, posts, receiver, stopper, urb, canceller, asked>>

-----------------------------------------------------------------------------
(* IoAsyncReceiveProcess *)

\* A signal that comes before the thread is inside the ioctl interrupts nothing.
ReceiveEnter ==
    /\ receiver = "run"
    /\ receiver' = "reap"
    /\ UNCHANGED <<status, queue, sem, posts, sender, cur, stopper, reqVars>>

\* The status of a finished urb; -ENOENT, that of a discarded one, is CANCELLED for a
\* control request and ERROR for a bulk request.
UrbStatus(r) ==
    {"COMPLETED", "ERROR"} \cup
    (IF urb[r] = "discarded" /\ r \in Control THEN {"CANCELLED"} ELSE {})

OsControlCompletion(r) ==
    /\ r \in Control
    /\ urbs' = [urbs EXCEPT ![r] = FALSE]
    /\ \E s \in UrbStatus(r) :
          UsbIoSetRequestCompletionInfo(r, IF reqStatus[r] = "CANCELLED" THEN reqStatus[r] ELSE s)
    /\ UNCHANGED reqStatus

OsBulkCompletion(r) ==
    /\ r \notin Control
    /\ \E s \in IF reqStatus[r] = "COMPLETED" THEN UrbStatus(r) ELSE {reqStatus[r]} :
          /\ reqStatus' = [reqStatus EXCEPT ![r] = s]
          /\ UsbIoSetRequestCompletionInfo(r, s)
    /\ UNCHANGED urbs

\* The kernel hands back a finished urb, which completes its request.
AdapterUrbCompleteHandle(r) ==
    /\ receiver = "reap"
    /\ urb[r] # "none"
    /\ receiver' = "test"
    /\ urb' = [urb EXCEPT ![r] = "none"]
    /\ OsControlCompletion(r) \/ OsBulkCompletion(r)
    /\ UNCHANGED <<status, queue, sem, posts, sender, cur, stopper, canceller, asked>>

\* The device is gone or the ioctl was interrupted: RawHandleRequest returns an error.
ReceiveFails ==
    /\ receiver = "reap"
    /\ receiver' = "mark"
    /\ UNCHANGED <<status, queue, sem, posts, sender, cur, stopper, reqVars>>

ReceiveTest ==
    /\ receiver = "test"
    /\ receiver' = IF status = "RUNNING" THEN "run" ELSE "mark"
    /\ UNCHANGED <<status, queue, sem, posts, sender, cur, stopper, reqVars>>

\* Mutant: the sending thread is not woken.
MarkOnly ==
    /\ receiver = "mark"
    /\ receiver' = "exit"
    /\ status' = "STOPED"
    /\ UNCHANGED <<queue, sem, posts, sender, cur, stopper, reqVars>>

ReceiveMark ==
    /\ receiver = "mark"
    /\ receiver' = "exit"
    /\ status' = "STOPED"
    /\ sem' = sem + 1
    /\ UNCHANGED <<queue, posts, sender, cur, stopper, reqVars>>

-----------------------------------------------------------------------------
(* UsbIoStop *)

StopEnter ==
    /\ stopper = "open"
    /\ stopper' = "check"
    /\ UNCHANGED <<status, queue, sem, posts, sender, cur, receiver, reqVars>>

StopCheck ==
    /\ stopper = "check"
    /\ stopper' = IF status = "STOPED" THEN "poll" ELSE "set"
    /\ UNCHANGED <<status, queue, sem, posts, sender, cur, receiver, reqVars>>

\* A receiver that ended since the check has its STOPED overwritten.
StopSet ==
    /\ stopper = "set"
    /\ stopper' = "kill"
    /\ status' = "STOP"
    /\ sem' = sem + 1
    /\ UNCHANGED <<queue, posts, sender, cur, receiver, reqVars>>

RawKillSignal ==
    /\ stopper = "kill"
    /\ stopper' = "poll"
    /\ receiver' = IF receiver = "reap" THEN "mark" ELSE receiver
    /\ UNCHANGED <<status, queue, sem, posts, sender, cur, reqVars>>

\* The status is STOPED, or more than USB_IO_STOP_WAIT_MAX_TIME sleeps have passed.
StopPoll ==
    /\ stopper = "poll"
    /\ stopper' = "closed"
    /\ UNCHANGED <<status, queue, sem, posts, sender, cur, receiver, reqVars>>

-----------------------------------------------------------------------------
ClientNext(r) ==
    \/ UsbSubmitRequestAsync(r)
    \/ UsbSubmitRequestSync(r)
    \/ SyncPost(r)
    \/ SyncWoken(r)
    \/ SyncTimeout(r)
    \/ SyncGiveUp(r)
    \/ AsyncCancel(r)

SenderNext ==
    \/ SendWait
    \/ UsbIoGetRequest
    \/ SendCheck
    \/ IoCancelRequest
    \/ SendSubmit
    \/ SendSubmitFails

ReceiverNext == ReceiveEnter \/ ReceiveTest \/ ReceiveMark

StopNext == StopCheck \/ StopSet \/ RawKillSignal \/ StopPoll

Next ==
    \/ \E r \in Requests : ClientNext(r) \/ UsbCancelRequest(r) \/ AdapterUrbCompleteHandle(r)
    \/ AsyncPost
    \/ SenderNext
    \/ ReceiverNext
    \/ ReceiveFails
    \/ StopEnter
    \/ StopNext

Spec == Init /\ [][Next]_vars

\* Threads that can run do, and the device finishes every transfer while urbs are reaped.
Fairness ==
    /\ WF_vars(AsyncPost)
    /\ WF_vars(SenderNext)
    /\ WF_vars(ReceiverNext)
    /\ WF_vars(StopNext)
    /\ \A r \in Requests :
          /\ WF_vars(SyncPost(r))
          /\ WF_vars(SyncWoken(r))
          /\ WF_vars(UsbCancelRequest(r))
          /\ SF_vars(AdapterUrbCompleteHandle(r))

FairSpec == Spec /\ Fairness

-----------------------------------------------------------------------------
(* Properties *)

Held(r) == Contains(queue, r) \/ cur = r \/ urb[r] # "none"

\* No submission is completed twice, and once the client's callback has run or its
\* UsbSubmitRequestSync has been woken, neither the queue, the sending thread nor the
\* kernel holds the request: it may be freed or submitted again.
CompletedMeansReleased ==
    \A r \in Requests :
        /\ owed[r] \in {0, 1}
        /\ owner[r] = "idle" => owed[r] = 0
        /\ owed[r] = 0 => ~Held(r)

\* A request is in at most one place: once in the queue, or in the hands of
\* IoSendProcess, or with the kernel.
OnePlace ==
    /\ IsInjective(queue)
    /\ \A r \in Requests :
          /\ Contains(queue, r) => cur # r /\ urb[r] = "none"
          /\ cur = r => urb[r] = "none"

Posting == {r \in Requests : owner[r] = "post"}

\* Every queued request is matched by a post of the queue's semaphore that has been made
\* and not consumed, or is about to be: IoSendProcess never sleeps on a non-empty queue.
WakeupForEachQueued ==
    Len(queue) <= sem + posts + Cardinality(Posting) + (IF sender = "pop" THEN 1 ELSE 0)

\* An asynchronous request whose UsbCancelRequest succeeded while it was still queued is
\* never given to the device.
CancelledWhileQueued ==
    \A r \in Requests \ Sync : asked[r] = "queued" => urb[r] = "none"

\* A submission that nobody cancelled is not completed with USB_REQUEST_CANCELLED, however
\* earlier submissions of the same request ended.
CancelledOnlyIfAsked ==
    [][\A r \in Requests :
          owed'[r] < owed[r] /\ comp'[r] = "CANCELLED" => asked[r] # "no"]_vars

\* Once the pool is stopping or its receiver has ended, IoSendProcess ends as well.
SenderStops ==
    status # "RUNNING" ~> sender = "exit"

\* While the pool runs, a submitted request is completed unless it is cancelled.
SubmittedCompletes ==
    \A r \in Requests :
        owed[r] = 1 ~> owed[r] = 0 \/ asked[r] # "no" \/ status # "RUNNING"
=============================================================================
