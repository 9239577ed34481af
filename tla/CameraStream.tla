---------------------------- MODULE CameraStream ----------------------------
(***************************************************************************)
(* One stream of the camera HAL: StreamBase with its request handler       *)
(* thread, the StreamTunnel to the consumer's surface, the BufferPool, and *)
(* the collector and distributor threads of the SourceNode that feed the   *)
(* device and bring its frames back.  The client calls Capture,            *)
(* CancelCapture and, at the end, ReleaseStreams, one at a time.           *)
(*                                                                         *)
(* A request has one stream here, so the semaphores of CaptureRequest,     *)
(* which wait for the other streams of a request, do not block.            *)
(*                                                                         *)
(* A thread that waits on a condition variable first finds the predicate   *)
(* false ("empty", holding the lock) and then sleeps ("asleep"); a         *)
(* notification wakes only a thread that sleeps.                           *)
(***************************************************************************)
EXTENDS Integers, Sequences, FiniteSets, Functions

CONSTANTS Requests,      \* CaptureRequest objects, one for each capture id
          Continuous,    \* those with isContinuous_
          Buffers,       \* the buffers of the surface's queue, GetBufferCount() of them
          NoRequest,
          NoBuffer,
          RestModulus,   \* restBuffers is unsigned: 2^32
          SurfaceFails   \* whether the surface may fail otherwise than with NO_BUFFER

ASSUME StreamAssumption ==
    /\ IsFiniteSet(Buffers)
    /\ IsFiniteSet(Requests)
    /\ Continuous \subseteq Requests
    /\ NoRequest \notin Requests
    /\ NoBuffer \notin Buffers
    /\ RestModulus \in Nat
    /\ RestModulus > Cardinality(Buffers) + 1
    /\ SurfaceFails \in BOOLEAN

VARIABLES state,         \* state_
          isFirst,       \* isFirstRequest
          waiting,       \* waitingList_
          transit,       \* inTransitList_: how often each request is in it
          lastRequest,   \* lastRequest_
          needCancel,    \* needCancel_ of each request
          firstOne,      \* isFirstRequest_ of each request
          slot,          \* buffer_ of each request
          handler,       \* where the handler thread is
          hreq,          \* the request it works on
          todo,          \* how many buffers it has still to deliver for it
          place,         \* where each buffer is
          restBuffers,
          wakeup,        \* wakeup_ of the tunnel
          stop,          \* stop_ of the tunnel
          collector,     \* where the collector thread is
          cltRun,
          poolStop,      \* stop_ of the buffer pool
          distributor,   \* where the distributor thread is
          dbtRun,
          captures,      \* captureRequests_ of the source node
          res,           \* the delivery of a buffer each thread is engaged in
          client,        \* where the client's call is
          creq,          \* the request the call is about
          made,          \* what the client has made of each request
          started,       \* history: CaptureStarted messages sent
          ended          \* history: CaptureEnded messages sent

streamVars == <<state, isFirst, waiting, transit, lastRequest>>
requestVars == <<needCancel, firstOne, slot>>
handlerVars == <<handler, hreq, todo>>
tunnelVars == <<restBuffers, wakeup, stop>>
sourceVars == <<collector, cltRun, poolStop, distributor, dbtRun>>
clientVars == <<client, creq, made>>
messageVars == <<started, ended>>
vars == <<streamVars, requestVars, handlerVars, place, tunnelVars, sourceVars, captures, res,
          clientVars, messageVars>>

\* Two threads deliver buffers: the distributor, and the client's thread inside StopStream.
Deliverers == {"distributor", "stopper"}

Idle == [pc |-> "idle", buf |-> NoBuffer, req |-> NoRequest, ended |-> FALSE]

Places == {"free", "handler", "pool", "device", "respond", "result", "consumer", "lost"}

StopLabels == {"notifyStop", "notify", "join", "cancel", "flush", "poolStop", "joinCollector",
               "drain", "waitAll", "flushBuffers", "stopDistribute", "joinDistributor", "last"}

TypeOK ==
    /\ state \in {"IDLE", "ACTIVE", "BUSY"}
    /\ isFirst \in BOOLEAN
    /\ waiting \in Seq(Requests)
    /\ transit \in [Requests -> Nat]
    /\ lastRequest \in Requests \cup {NoRequest}
    /\ needCancel \in [Requests -> BOOLEAN]
    /\ firstOne \in [Requests -> BOOLEAN]
    /\ slot \in [Requests -> Buffers \cup {NoBuffer}]
    /\ handler \in {"none", "loop", "pred", "empty", "asleep", "check", "pop", "need", "request",
                    "await", "clear", "got", "config", "capture", "push", "started", "exit", "joined"}
    /\ hreq \in Requests \cup {NoRequest}
    /\ todo \in 0..Cardinality(Buffers)
    /\ place \in [Buffers -> Places]
    /\ restBuffers \in 0..(RestModulus - 1)
    /\ wakeup \in BOOLEAN
    /\ stop \in BOOLEAN
    /\ collector \in {"none", "loop", "pred", "empty", "asleep", "exit"}
    /\ cltRun \in BOOLEAN
    /\ poolStop \in BOOLEAN
    /\ distributor \in {"none", "loop", "empty", "asleep", "busy", "exit"}
    /\ dbtRun \in BOOLEAN
    /\ captures \in Seq(Requests)
    /\ res \in [Deliverers -> [pc : {"idle", "deliver", "match", "frame", "erase", "cancel", "put", "rest", "wake"},
                               buf : Buffers \cup {NoBuffer},
                               req : Requests \cup {NoRequest},
                               ended : BOOLEAN]]
    /\ client \in {"idle", "queue", "cancelWaiting", "cancelTransit", "gone", "crashed"} \cup StopLabels
    /\ creq \in Requests \cup {NoRequest}
    /\ made \in [Requests -> {"new", "failed", "made", "cancelled"}]
    /\ started \in [Requests -> Nat]
    /\ ended \in [Requests -> Nat]

\* The stream has been created with a buffer queue and committed.
Init ==
    /\ state = "ACTIVE"
    /\ isFirst = TRUE
    /\ waiting = <<>>
    /\ transit = [r \in Requests |-> 0]
    /\ lastRequest = NoRequest
    /\ needCancel = [r \in Requests |-> FALSE]
    /\ firstOne = [r \in Requests |-> FALSE]
    /\ slot = [r \in Requests |-> NoBuffer]
    /\ handler = "none"
    /\ hreq = NoRequest
    /\ todo = 0
    /\ place = [b \in Buffers |-> "free"]
    /\ restBuffers = 0
    /\ wakeup = FALSE
    /\ stop = FALSE
    /\ collector = "none"
    /\ cltRun = FALSE
    /\ poolStop = FALSE
    /\ distributor = "none"
    /\ dbtRun = FALSE
    /\ captures = <<>>
    /\ res = [t \in Deliverers |-> Idle]
    /\ client = "idle"
    /\ creq = NoRequest
    /\ made = [r \in Requests |-> "new"]
    /\ started = [r \in Requests |-> 0]
    /\ ended = [r \in Requests |-> 0]

In(p) == {b \in Buffers : place[b] = p}

\* mutex_ of the pipeline core is held through the whole of Flush and of Stop.
PipelineLocked ==
    client \in {"poolStop", "joinCollector", "drain", "flushBuffers", "stopDistribute", "joinDistributor"}

\* tsLock_ is held by OnFrame while it waits for mutex_ in CancelCapture.
TransitLocked == \E t \in Deliverers : res[t].pc = "cancel"

-----------------------------------------------------------------------------
(* Capture: AddRequest, and StartStream for the first request *)

SourceStart ==
    /\ collector' = "loop"
    /\ cltRun' = TRUE
    /\ poolStop' = FALSE
    /\ distributor' = "loop"
    /\ dbtRun' = TRUE

\* The pipeline's Start also starts the two threads of the source node, unless the device
\* cannot be started. When Start fails, in this node or in another one, the stream stays BUSY
\* with its handler thread; when Prepare fails, it stays ACTIVE.
StartStream(r) ==
    /\ stop' = FALSE
    /\ \/ /\ UNCHANGED <<state, isFirst, handlerVars, sourceVars>>
          /\ client' = "idle"
          /\ firstOne' = [firstOne EXCEPT ![r] = FALSE]
       \/ /\ state' = "BUSY"
          /\ handler' = "loop"
          /\ UNCHANGED <<hreq, todo>>
          /\ \/ /\ client' = "idle"
                /\ firstOne' = [firstOne EXCEPT ![r] = FALSE]
                /\ UNCHANGED isFirst
                /\ SourceStart \/ UNCHANGED sourceVars
             \/ /\ client' = "queue"
                /\ firstOne' = [firstOne EXCEPT ![r] = TRUE]
                /\ isFirst' = FALSE
                /\ SourceStart

Capture(r) ==
    /\ client = "idle"
    /\ made[r] = "new"
    /\ creq' = r
    /\ \/ /\ ~isFirst
          /\ client' = "queue"
          /\ firstOne' = [firstOne EXCEPT ![r] = FALSE]
          /\ UNCHANGED <<state, isFirst, stop, handlerVars, sourceVars>>
       \/ /\ isFirst
          /\ state # "ACTIVE"
          /\ client' = "idle"
          /\ firstOne' = [firstOne EXCEPT ![r] = FALSE]
          /\ UNCHANGED <<state, isFirst, stop, handlerVars, sourceVars>>
       \/ /\ isFirst
          /\ state = "ACTIVE"
          /\ StartStream(r)
    /\ made' = [made EXCEPT ![r] = IF client' = "queue" THEN "made" ELSE "failed"]
    /\ UNCHANGED <<waiting, transit, lastRequest, needCancel, slot, place, restBuffers, wakeup,
                   captures, res, messageVars>>

\* Mutant: the handler is not notified.
QueueWithoutNotify ==
    /\ client = "queue"
    /\ handler # "empty"
    /\ waiting' = Append(waiting, creq)
    /\ client' = "idle"
    /\ UNCHANGED <<state, isFirst, transit, lastRequest, requestVars, handlerVars, place,
                   tunnelVars, sourceVars, captures, res, creq, made, messageVars>>

\* Under wtLock_, which a handler that found the list empty holds until it sleeps.
AddRequest ==
    /\ client = "queue"
    /\ handler # "empty"
    /\ waiting' = Append(waiting, creq)
    /\ handler' = IF handler = "asleep" THEN "pred" ELSE handler
    /\ client' = "idle"
    /\ UNCHANGED <<state, isFirst, transit, lastRequest, requestVars, hreq, todo, place,
                   tunnelVars, sourceVars, captures, res, creq, made, messageVars>>

-----------------------------------------------------------------------------
(* CancelCapture: CaptureRequest::Cancel and StreamBase::CancelRequest *)

CancelCapture(r) ==
    /\ client = "idle"
    /\ made[r] = "made"
    /\ made' = [made EXCEPT ![r] = "cancelled"]
    /\ needCancel' = [needCancel EXCEPT ![r] = TRUE]
    /\ creq' = r
    /\ client' = "cancelWaiting"
    /\ UNCHANGED <<streamVars, firstOne, slot, handlerVars, place, tunnelVars, sourceVars, captures,
                   res, messageVars>>

\* The first entry of r is erased, if there is one.
Remove(q, r) ==
    IF \E i \in 1..Len(q) : q[i] = r
    THEN LET k == CHOOSE i \in 1..Len(q) : q[i] = r /\ \A j \in 1..(i - 1) : q[j] # r
         IN  SubSeq(q, 1, k - 1) \o SubSeq(q, k + 1, Len(q))
    ELSE q

\* Mutant: a single request that is not in transit is reported as ended, too.
CancelEndsAny ==
    /\ client = "cancelWaiting"
    /\ handler # "empty"
    /\ waiting' = Remove(waiting, creq)
    /\ client' = "cancelTransit"
    /\ UNCHANGED <<state, isFirst, transit, lastRequest, requestVars, handlerVars, place,
                   tunnelVars, sourceVars, captures, res, creq, made, messageVars>>

CancelWaiting ==
    /\ client = "cancelWaiting"
    /\ handler # "empty"
    /\ waiting' = Remove(waiting, creq)
    /\ client' = IF creq \in Continuous THEN "cancelTransit" ELSE "idle"
    /\ UNCHANGED <<state, isFirst, transit, lastRequest, requestVars, handlerVars, place,
                   tunnelVars, sourceVars, captures, res, creq, made, messageVars>>

\* A continuous request with no frame on its way ends at once. StopStream cancels the
\* request at the front of its list this way as well.
CancelTransit ==
    /\ client = "cancelTransit"
    /\ ~TransitLocked
    /\ ended' = [ended EXCEPT ![creq] = IF transit[creq] = 0 THEN @ + 1 ELSE @]
    /\ client' = IF state = "IDLE" THEN "flush" ELSE "idle"
    /\ UNCHANGED <<streamVars, requestVars, handlerVars, place, tunnelVars, sourceVars, captures,
                   res, creq, made, started>>

-----------------------------------------------------------------------------
(* The handler thread: HandleRequest and Capture *)

HandlerGoesTo(label) ==
    /\ handler' = label
    /\ UNCHANGED <<streamVars, requestVars, hreq, todo, place, tunnelVars, sourceVars, captures, res,
                   clientVars, messageVars>>

HandleRequest ==
    /\ handler = "loop"
    /\ HandlerGoesTo(IF state # "BUSY" THEN "exit" ELSE IF waiting = <<>> THEN "pred" ELSE "check")

HandlerTests ==
    /\ handler = "pred"
    /\ HandlerGoesTo(IF state = "BUSY" /\ waiting = <<>> THEN "empty" ELSE "check")

HandlerSleeps ==
    /\ handler = "empty"
    /\ HandlerGoesTo("asleep")

HandlerChecks ==
    /\ handler = "check"
    /\ HandlerGoesTo(IF state = "BUSY" THEN "pop" ELSE "loop")

\* A continuous request stays at the front of the list.
HandlerPops ==
    /\ handler = "pop"
    /\ \/ /\ waiting = <<>>
          /\ handler' = "loop"
          /\ UNCHANGED <<waiting, hreq>>
       \/ /\ waiting # <<>>
          /\ hreq' = Head(waiting)
          /\ waiting' = IF Head(waiting) \in Continuous THEN waiting ELSE Tail(waiting)
          /\ handler' = "need"
    /\ UNCHANGED <<state, isFirst, transit, lastRequest, requestVars, todo, place, tunnelVars,
                   sourceVars, captures, res, clientVars, messageVars>>

\* The first single capture fills the whole queue, any other request delivers one buffer.
FillsQueue(r) == firstOne[r] /\ r \notin Continuous

HandlerNeeds ==
    /\ handler = "need"
    /\ handler' = IF needCancel[hreq] THEN "loop" ELSE "request"
    /\ todo' = IF FillsQueue(hreq) THEN Cardinality(Buffers) ELSE 1
    /\ UNCHANGED <<streamVars, requestVars, hreq, place, tunnelVars, sourceVars, captures, res,
                   clientVars, messageVars>>

\* GetBuffer asks the surface, which is external: it has a free buffer, answers NO_BUFFER or
\* fails.
RequestBuffer ==
    /\ handler = "request"
    /\ \/ /\ In("free") = {}
          /\ handler' = "await"
          /\ UNCHANGED place
       \/ /\ SurfaceFails
          /\ handler' = "clear"
          /\ UNCHANGED place
       \/ /\ \E b \in In("free") : place' = [place EXCEPT ![b] = "handler"]
          /\ handler' = "clear"
    /\ UNCHANGED <<streamVars, requestVars, hreq, todo, tunnelVars, sourceVars, captures, res,
                   clientVars, messageVars>>

\* wakeup_ stays set: the loop asks the surface again and again until it has a buffer.
AwaitBuffer ==
    /\ handler = "await"
    /\ wakeup
    /\ HandlerGoesTo(IF stop THEN "clear" ELSE "request")

ClearWakeup ==
    /\ handler = "clear"
    /\ wakeup' = FALSE
    /\ handler' = "got"
    /\ UNCHANGED <<streamVars, requestVars, hreq, todo, place, restBuffers, stop, sourceVars,
                   captures, res, clientVars, messageVars>>

\* After DeliverBuffer: the loop over the whole queue ignores its result, the other one
\* repeats it while it fails and the stream is BUSY.
AfterDeliver(ok) ==
    IF FillsQueue(hreq)
    THEN IF todo = 1 THEN "config" ELSE "request"
    ELSE IF ok \/ state # "BUSY" THEN "config" ELSE "request"

HandBufferTo(p) ==
    place' = [b \in Buffers |-> IF place[b] = "handler" THEN p ELSE place[b]]

\* Mutant: restBuffers is not counted up.
DeliverUncounted ==
    /\ handler = "got"
    /\ \/ /\ stop
          /\ HandBufferTo("free")
          /\ handler' = AfterDeliver(FALSE)
          /\ UNCHANGED <<restBuffers, collector>>
       \/ /\ ~stop
          /\ SurfaceFails \/ In("handler") = {}
          /\ HandBufferTo("lost")
          /\ handler' = AfterDeliver(FALSE)
          /\ UNCHANGED <<restBuffers, collector>>
       \/ /\ ~stop
          /\ In("handler") # {}
          /\ collector # "empty"
          /\ HandBufferTo("pool")
          /\ UNCHANGED restBuffers
          /\ collector' = IF collector = "asleep" THEN "pred" ELSE collector
          /\ handler' = AfterDeliver(TRUE)
    /\ todo' = IF FillsQueue(hreq) THEN todo - 1 ELSE todo
    /\ UNCHANGED <<streamVars, requestVars, hreq, wakeup, stop, cltRun, poolStop, distributor, dbtRun,
                   captures, res, clientVars, messageVars>>

\* A stopped tunnel gives the buffer back to the surface, if it has one. A buffer that cannot
\* be converted is forgotten. Otherwise it goes to the pool, whose lock a collector that found
\* the pool empty holds until it sleeps.
DeliverBuffer ==
    /\ handler = "got"
    /\ \/ /\ stop
          /\ HandBufferTo("free")
          /\ handler' = AfterDeliver(FALSE)
          /\ UNCHANGED <<restBuffers, collector>>
       \/ /\ ~stop
          /\ SurfaceFails \/ In("handler") = {}
          /\ HandBufferTo("lost")
          /\ handler' = AfterDeliver(FALSE)
          /\ UNCHANGED <<restBuffers, collector>>
       \/ /\ ~stop
          /\ In("handler") # {}
          /\ collector # "empty"
          /\ HandBufferTo("pool")
          /\ restBuffers' = (restBuffers + 1) % RestModulus
          /\ collector' = IF collector = "asleep" THEN "pred" ELSE collector
          /\ handler' = AfterDeliver(TRUE)
    /\ todo' = IF FillsQueue(hreq) THEN todo - 1 ELSE todo
    /\ UNCHANGED <<streamVars, requestVars, hreq, wakeup, stop, cltRun, poolStop, distributor, dbtRun,
                   captures, res, clientVars, messageVars>>

HandlerConfigs ==
    /\ handler = "config"
    /\ HandlerGoesTo(IF needCancel[hreq] THEN "loop" ELSE "capture")

\* The pipeline's Config and Capture; the handler gives the request up when one fails. The
\* source node has queued the capture even so when it is another node whose Capture failed.
PipelineCapture ==
    /\ handler = "capture"
    /\ ~PipelineLocked
    /\ \/ /\ handler' = "loop"
          /\ captures' \in {captures, Append(captures, hreq)}
       \/ /\ handler' = "push"
          /\ captures' = Append(captures, hreq)
    /\ UNCHANGED <<streamVars, requestVars, hreq, todo, place, tunnelVars, sourceVars, res,
                   clientVars, messageVars>>

PushInTransit ==
    /\ handler = "push"
    /\ ~TransitLocked
    /\ transit' = [transit EXCEPT ![hreq] = @ + 1]
    /\ handler' = IF firstOne[hreq] THEN "started" ELSE "loop"
    /\ UNCHANGED <<state, isFirst, waiting, lastRequest, requestVars, hreq, todo, place, tunnelVars,
                   sourceVars, captures, res, clientVars, messageVars>>

SendStarted ==
    /\ handler = "started"
    /\ started' = [started EXCEPT ![hreq] = @ + 1]
    /\ firstOne' = [firstOne EXCEPT ![hreq] = FALSE]
    /\ handler' = "loop"
    /\ UNCHANGED <<streamVars, needCancel, slot, hreq, todo, place, tunnelVars, sourceVars, captures,
                   res, clientVars, ended>>

HandlerNext ==
    \/ HandleRequest
    \/ HandlerTests
    \/ HandlerSleeps
    \/ HandlerChecks
    \/ HandlerPops
    \/ HandlerNeeds
    \/ RequestBuffer
    \/ AwaitBuffer
    \/ ClearWakeup
    \/ DeliverBuffer
    \/ HandlerConfigs
    \/ PipelineCapture
    \/ PushInTransit
    \/ SendStarted

-----------------------------------------------------------------------------
(* The collector thread and the device *)

CollectorGoesTo(label) ==
    /\ collector' = label
    /\ UNCHANGED <<streamVars, requestVars, handlerVars, place, tunnelVars, cltRun, poolStop,
                   distributor, dbtRun, captures, res, clientVars, messageVars>>

CollectorLoops ==
    /\ collector = "loop"
    /\ CollectorGoesTo(IF cltRun THEN "pred" ELSE "exit")

\* AcquireBuffer waits for a buffer or for the pool's stop_.
AcquireBuffer ==
    /\ collector = "pred"
    /\ In("pool") = {}
    /\ CollectorGoesTo(IF poolStop THEN "loop" ELSE "empty")

CollectorSleeps ==
    /\ collector = "empty"
    /\ CollectorGoesTo("asleep")

\* The buffer is given to the device, which takes every buffer it is offered.
ProvideBuffers ==
    /\ collector = "pred"
    /\ \E b \in In("pool") : place' = [place EXCEPT ![b] = "device"]
    /\ collector' = "loop"
    /\ UNCHANGED <<streamVars, requestVars, handlerVars, tunnelVars, cltRun, poolStop, distributor,
                   dbtRun, captures, res, clientVars, messageVars>>

CollectorNext == CollectorLoops \/ AcquireBuffer \/ CollectorSleeps \/ ProvideBuffers

\* rblock is held by a distributor that delivers a buffer or is about to sleep, and by
\* FlushBuffers while it delivers one.
ResponseLocked ==
    \/ distributor \in {"empty", "busy"}
    \/ client = "flushBuffers" /\ res["stopper"].pc # "idle"

\* The device has filled the buffer.
OnBuffer(b) ==
    /\ place[b] = "device"
    /\ ~ResponseLocked
    /\ place' = [place EXCEPT ![b] = "respond"]
    /\ distributor' = IF distributor = "asleep" THEN "loop" ELSE distributor
    /\ UNCHANGED <<streamVars, requestVars, handlerVars, tunnelVars, collector, cltRun, poolStop,
                   dbtRun, captures, res, clientVars, messageVars>>

\* The consumer of the surface is done with a frame.
ReleaseBuffer(b) ==
    /\ place[b] = "consumer"
    /\ place' = [place EXCEPT ![b] = "free"]
    /\ UNCHANGED <<streamVars, requestVars, handlerVars, tunnelVars, sourceVars, captures, res,
                   clientVars, messageVars>>

-----------------------------------------------------------------------------
(* The delivery of a buffer: SourceNode::DeliverBuffer, HandleResult, OnFrame, ReceiveBuffer *)

Begin(t, b) == res' = [res EXCEPT ![t] = [Idle EXCEPT !.pc = "deliver", !.buf = b]]

\* The frame belongs to the oldest capture; without one the buffer is invalid.
SourceDeliver(t) ==
    /\ res[t].pc = "deliver"
    /\ \/ /\ captures = <<>>
          /\ res' = [res EXCEPT ![t].pc = "put"]
          /\ UNCHANGED captures
       \/ /\ captures # <<>>
          /\ res' = [res EXCEPT ![t] = [@ EXCEPT !.pc = "match", !.req = Head(captures)]]
          /\ captures' = Tail(captures)
    /\ UNCHANGED <<streamVars, requestVars, handlerVars, place, tunnelVars, sourceVars, clientVars,
                   messageVars>>

\* A frame of a request that is not in transit is invalid as well.
HandleResult(t) ==
    /\ res[t].pc = "match"
    /\ ~TransitLocked
    /\ \/ /\ transit[res[t].req] = 0
          /\ res' = [res EXCEPT ![t] = [@ EXCEPT !.pc = "put", !.req = NoRequest]]
          /\ UNCHANGED slot
       \/ /\ transit[res[t].req] > 0
          /\ res' = [res EXCEPT ![t].pc = "frame"]
          /\ slot' = [slot EXCEPT ![res[t].req] = res[t].buf]
    /\ UNCHANGED <<streamVars, needCancel, firstOne, handlerVars, place, tunnelVars, sourceVars,
                   captures, clientVars, messageVars>>

\* OnFrame reads the buffer back from the request, and decides whether this may be the last
\* frame, before it takes tsLock_.
OnFrame(t) ==
    /\ res[t].pc = "frame"
    /\ res' = [res EXCEPT ![t] =
                  [@ EXCEPT !.pc = "erase",
                            !.buf = slot[res[t].req],
                            !.ended = res[t].req \notin Continuous \/ needCancel[res[t].req]]]
    /\ UNCHANGED <<streamVars, requestVars, handlerVars, place, tunnelVars, sourceVars, captures,
                   clientVars, messageVars>>

\* One copy of the request is erased; the last frame of a capture ends it.
EraseOne(t) ==
    /\ res[t].pc = "erase"
    /\ ~TransitLocked
    /\ LET r == res[t].req
       IN  /\ transit' = [transit EXCEPT ![r] = IF @ > 0 THEN @ - 1 ELSE 0]
           /\ IF res[t].ended /\ transit'[r] = 0
              THEN /\ ended' = [ended EXCEPT ![r] = @ + 1]
                   /\ res' = [res EXCEPT ![t].pc = "cancel"]
              ELSE /\ UNCHANGED ended
                   /\ res' = [res EXCEPT ![t].pc = "put"]
    /\ UNCHANGED <<state, isFirst, waiting, lastRequest, requestVars, handlerVars, place, tunnelVars,
                   sourceVars, captures, clientVars, started>>

\* CancelCapture of the pipeline, under tsLock_ and mutex_.
PipelineCancel(t) ==
    /\ res[t].pc = "cancel"
    /\ ~PipelineLocked
    /\ res' = [res EXCEPT ![t].pc = "put"]
    /\ UNCHANGED <<streamVars, requestVars, handlerVars, place, tunnelVars, sourceVars, captures,
                   clientVars, messageVars>>

\* ReturnBuffer takes the buffer from the pool's busy list, PutBuffer gives it to the
\* consumer or, when it is invalid, back to the surface.
PutBuffer(t) ==
    /\ res[t].pc = "put"
    /\ collector # "empty"
    /\ place' = [place EXCEPT ![res[t].buf] = IF res[t].req = NoRequest THEN "free" ELSE "consumer"]
    /\ collector' = IF collector = "asleep" THEN "pred" ELSE collector
    /\ res' = [res EXCEPT ![t].pc = "rest"]
    /\ UNCHANGED <<streamVars, requestVars, handlerVars, tunnelVars, cltRun, poolStop, distributor,
                   dbtRun, captures, clientVars, messageVars>>

CountRest(t) ==
    /\ res[t].pc = "rest"
    /\ restBuffers' = (restBuffers - 1) % RestModulus
    /\ res' = [res EXCEPT ![t].pc = "wake"]
    /\ UNCHANGED <<streamVars, requestVars, handlerVars, place, wakeup, stop, sourceVars, captures,
                   clientVars, messageVars>>

\* Mutant: only the flush of a frame wakes the handler, not the return of an invalid buffer.
WakeForFrames(t) ==
    /\ res[t].pc = "wake"
    /\ wakeup' = (wakeup \/ res[t].req # NoRequest)
    /\ lastRequest' = IF res[t].req = NoRequest THEN lastRequest ELSE res[t].req
    /\ res' = [res EXCEPT ![t] = Idle]
    /\ distributor' = IF t = "distributor" THEN "loop" ELSE distributor
    /\ UNCHANGED <<state, isFirst, waiting, transit, requestVars, handlerVars, place, restBuffers,
                   stop, collector, cltRun, poolStop, dbtRun, captures, clientVars, messageVars>>

WakeHandler(t) ==
    /\ res[t].pc = "wake"
    /\ wakeup' = TRUE
    /\ lastRequest' = IF res[t].req = NoRequest THEN lastRequest ELSE res[t].req
    /\ res' = [res EXCEPT ![t] = Idle]
    /\ distributor' = IF t = "distributor" THEN "loop" ELSE distributor
    /\ UNCHANGED <<state, isFirst, waiting, transit, requestVars, handlerVars, place, restBuffers,
                   stop, collector, cltRun, poolStop, dbtRun, captures, clientVars, messageVars>>

DeliverNext(t) ==
    \/ SourceDeliver(t)
    \/ HandleResult(t)
    \/ OnFrame(t)
    \/ EraseOne(t)
    \/ PipelineCancel(t)
    \/ PutBuffer(t)
    \/ CountRest(t)
    \/ WakeHandler(t)

\* Waits under rblock for a buffer of the device or for the end.
DistributeBuffers ==
    /\ distributor = "loop"
    /\ ~(client = "flushBuffers" /\ res["stopper"].pc # "idle")
    /\ \/ /\ ~dbtRun
          /\ distributor' = "exit"
          /\ UNCHANGED <<place, res>>
       \/ /\ dbtRun
          /\ In("respond") = {}
          /\ distributor' = "empty"
          /\ UNCHANGED <<place, res>>
       \/ /\ dbtRun
          /\ distributor' = "busy"
          /\ \E b \in In("respond") :
                /\ place' = [place EXCEPT ![b] = "result"]
                /\ Begin("distributor", b)
    /\ UNCHANGED <<streamVars, requestVars, handlerVars, tunnelVars, collector, cltRun, poolStop, dbtRun,
                   captures, clientVars, messageVars>>

DistributorSleeps ==
    /\ distributor = "empty"
    /\ distributor' = "asleep"
    /\ UNCHANGED <<streamVars, requestVars, handlerVars, place, tunnelVars, collector, cltRun, poolStop,
                   dbtRun, captures, res, clientVars, messageVars>>

DistributorNext == DistributeBuffers \/ DistributorSleeps

-----------------------------------------------------------------------------
(* ReleaseStreams and StopStream *)

\* A stream that is running is stopped, and the stream is forgotten.
ReleaseStreams ==
    /\ client = "idle"
    /\ \/ /\ state = "BUSY"
          /\ state' = "IDLE"
          /\ client' = "notifyStop"
       \/ /\ state # "BUSY"
          /\ client' = "gone"
          /\ UNCHANGED state
    /\ UNCHANGED <<isFirst, waiting, transit, lastRequest, requestVars, handlerVars, place, tunnelVars,
                   sourceVars, captures, res, creq, made, messageVars>>

NotifyStop ==
    /\ client = "notifyStop"
    /\ wakeup' = TRUE
    /\ stop' = TRUE
    /\ client' = "notify"
    /\ UNCHANGED <<streamVars, requestVars, handlerVars, place, restBuffers, sourceVars, captures, res,
                   creq, made, messageVars>>

\* Without wtLock_.
NotifyHandler ==
    /\ client = "notify"
    /\ handler' = IF handler = "asleep" THEN "pred" ELSE handler
    /\ client' = "join"
    /\ UNCHANGED <<streamVars, requestVars, hreq, todo, place, tunnelVars, sourceVars, captures, res,
                   creq, made, messageVars>>

\* Mutant: the handler thread is not waited for.
NoJoin ==
    /\ client = "join"
    /\ client' = "cancel"
    /\ UNCHANGED <<streamVars, requestVars, handlerVars, place, tunnelVars, sourceVars, captures, res,
                   creq, made, messageVars>>

JoinHandler ==
    /\ client = "join"
    /\ handler = "exit"
    /\ handler' = "joined"
    /\ client' = "cancel"
    /\ UNCHANGED <<streamVars, requestVars, hreq, todo, place, tunnelVars, sourceVars, captures, res,
                   creq, made, messageVars>>

ClearWaiting ==
    /\ client = "cancel"
    /\ waiting' = <<>>
    /\ \/ /\ waiting # <<>>
          /\ Head(waiting) \in Continuous
          /\ needCancel' = [needCancel EXCEPT ![Head(waiting)] = TRUE]
          /\ creq' = Head(waiting)
          /\ client' = "cancelTransit"
       \/ /\ waiting # <<>> => Head(waiting) \notin Continuous
          /\ client' = "flush"
          /\ UNCHANGED <<needCancel, creq>>
    /\ UNCHANGED <<state, isFirst, transit, lastRequest, firstOne, slot, handlerVars, place, tunnelVars,
                   sourceVars, captures, res, made, messageVars>>

\* Fails when the source node was never started; ReleaseStreams ignores that.
Flush ==
    /\ client = "flush"
    /\ \/ /\ collector = "none"
          /\ client' = "gone"
          /\ UNCHANGED cltRun
       \/ /\ collector # "none"
          /\ cltRun' = FALSE
          /\ client' = "poolStop"
    /\ UNCHANGED <<streamVars, requestVars, handlerVars, place, tunnelVars, collector, poolStop,
                   distributor, dbtRun, captures, res, creq, made, messageVars>>

\* NotifyStop of the pool, without its lock.
StopPool ==
    /\ client = "poolStop"
    /\ poolStop' = TRUE
    /\ collector' = IF collector = "asleep" THEN "pred" ELSE collector
    /\ client' = "joinCollector"
    /\ UNCHANGED <<streamVars, requestVars, handlerVars, place, tunnelVars, cltRun, distributor, dbtRun,
                   captures, res, creq, made, messageVars>>

JoinCollector ==
    /\ client = "joinCollector"
    /\ collector = "exit"
    /\ client' = "drain"
    /\ UNCHANGED <<streamVars, requestVars, handlerVars, place, tunnelVars, sourceVars, captures, res,
                   creq, made, messageVars>>

\* The buffers left in the pool are delivered like frames, by this thread. Then the device or
\* another node may fail to flush, and StopStream with it.
DrainPool ==
    /\ client = "drain"
    /\ res["stopper"].pc = "idle"
    /\ \/ /\ In("pool") = {}
          /\ client' \in {"waitAll", "gone"}
          /\ UNCHANGED <<place, res>>
       \/ \E b \in In("pool") :
             /\ place' = [place EXCEPT ![b] = "result"]
             /\ Begin("stopper", b)
             /\ UNCHANGED client
    /\ UNCHANGED <<streamVars, requestVars, handlerVars, tunnelVars, sourceVars, captures, creq, made,
                   messageVars>>

\* Mutant: the wait ends one buffer early.
WaitForAllButOne ==
    /\ client = "waitAll"
    /\ restBuffers <= 1
    /\ client' = "flushBuffers"
    /\ UNCHANGED <<streamVars, requestVars, handlerVars, place, tunnelVars, sourceVars, captures, res,
                   creq, made, messageVars>>

WaitForAllBufferReturned ==
    /\ client = "waitAll"
    /\ restBuffers = 0
    /\ client' = "flushBuffers"
    /\ UNCHANGED <<streamVars, requestVars, handlerVars, place, tunnelVars, sourceVars, captures, res,
                   creq, made, messageVars>>

FlushBuffers ==
    /\ client = "flushBuffers"
    /\ res["stopper"].pc = "idle"
    /\ \/ /\ In("respond") = {}
          /\ distributor # "busy"
          /\ client' = "stopDistribute"
          /\ UNCHANGED <<place, res>>
       \/ /\ distributor \notin {"empty", "busy"}
          /\ \E b \in In("respond") :
                /\ place' = [place EXCEPT ![b] = "result"]
                /\ Begin("stopper", b)
          /\ UNCHANGED client
    /\ UNCHANGED <<streamVars, requestVars, handlerVars, tunnelVars, sourceVars, captures, creq, made,
                   messageVars>>

\* Without rblock.
StopDistributeBuffers ==
    /\ client = "stopDistribute"
    /\ dbtRun' = FALSE
    /\ distributor' = IF distributor = "asleep" THEN "loop" ELSE distributor
    /\ client' = "joinDistributor"
    /\ UNCHANGED <<streamVars, requestVars, handlerVars, place, tunnelVars, collector, cltRun, poolStop,
                   captures, res, creq, made, messageVars>>

\* The source node forgets its threads. The device may fail to stop, and StopStream with it.
JoinDistributor ==
    /\ client = "joinDistributor"
    /\ distributor = "exit"
    /\ collector' = "none"
    /\ distributor' = "none"
    /\ client' \in {"last", "gone"}
    /\ UNCHANGED <<streamVars, requestVars, handlerVars, place, tunnelVars, cltRun, poolStop, dbtRun,
                   captures, res, creq, made, messageVars>>

\* lastRequest_ is used without a test. CleanBuffers and ClearBuffers empty the tunnel, the
\* cache of the surface and the pool.
EndOfStream ==
    /\ client = "last"
    /\ \/ /\ lastRequest = NoRequest
          /\ client' = "crashed"
          /\ UNCHANGED <<isFirst, transit, place, wakeup, ended>>
       \/ /\ lastRequest # NoRequest
          /\ client' = "gone"
          /\ ended' = [ended EXCEPT ![lastRequest] =
                          IF lastRequest \in Continuous /\ \E r \in Requests : transit[r] > 0
                          THEN @ + 1 ELSE @]
          /\ isFirst' = TRUE
          /\ transit' = [r \in Requests |-> 0]
          /\ wakeup' = TRUE
          /\ place' = [b \in Buffers |-> IF place[b] = "consumer" THEN "consumer" ELSE "free"]
    /\ UNCHANGED <<state, waiting, lastRequest, requestVars, handlerVars, restBuffers, stop, sourceVars,
                   captures, res, creq, made, started>>

\* The steps of a call the client has made.
CallNext ==
    \/ AddRequest
    \/ CancelWaiting
    \/ CancelTransit
    \/ NotifyStop
    \/ NotifyHandler
    \/ JoinHandler
    \/ ClearWaiting
    \/ Flush
    \/ StopPool
    \/ JoinCollector
    \/ DrainPool
    \/ WaitForAllBufferReturned
    \/ FlushBuffers
    \/ StopDistributeBuffers
    \/ JoinDistributor
    \/ EndOfStream

-----------------------------------------------------------------------------
Next ==
    \/ \E r \in Requests : Capture(r) \/ CancelCapture(r)
    \/ ReleaseStreams
    \/ CallNext
    \/ HandlerNext
    \/ CollectorNext
    \/ DistributorNext
    \/ \E t \in Deliverers : DeliverNext(t)
    \/ \E b \in Buffers : OnBuffer(b) \/ ReleaseBuffer(b)

Spec == Init /\ [][Next]_vars

\* Every thread that can run does, the device fills its buffers and the consumer is done
\* with a frame at some time. The client need not call anything.
Fairness ==
    /\ WF_vars(CallNext)
    /\ WF_vars(HandlerNext)
    /\ WF_vars(CollectorNext)
    /\ WF_vars(DistributorNext)
    /\ \A t \in Deliverers : WF_vars(DeliverNext(t))
    /\ \A b \in Buffers : SF_vars(OnBuffer(b)) /\ WF_vars(ReleaseBuffer(b))

FairSpec == Spec /\ Fairness

\* Nor does the pipeline fail every Capture.
ServingSpec == FairSpec /\ SF_vars(PipelineCapture /\ handler' = "push")

-----------------------------------------------------------------------------
(* Properties *)

\* The buffers that are neither with the surface nor in the hands of the handler.
Out == {b \in Buffers : place[b] \in {"pool", "device", "respond", "result"}}

Counting == {t \in Deliverers : res[t].pc = "rest"}

\* As long as the stream is not being stopped, restBuffers is the number of buffers between
\* GetBuffer and the end of PutBuffer, whatever the handler, the collector, the device and
\* the distributor do: WaitForAllBufferReturned waits for the right number.
RestBuffersExact ==
    state # "IDLE" => restBuffers = Cardinality(Out) + Cardinality(Counting)

\* A handler that waits in GetBuffer of a running tunnel and is not woken yet will be: a
\* buffer is still out, and its return sets wakeup_.
NoLostWakeup ==
    handler = "await" /\ ~wakeup /\ ~stop => restBuffers > 0 \/ \E t \in Deliverers : res[t].pc = "wake"

\* When StopStream clears the lists of the stream, the handler, the collector and the
\* distributor have ended and no thread is delivering a frame.
StopQuiesces ==
    client = "last" => /\ handler = "joined"
                       /\ collector = "none"
                       /\ distributor = "none"
                       /\ \A t \in Deliverers : res[t].pc = "idle"

\* "all buffers are returned": once WaitForAllBufferReturned is over, each buffer is with the
\* surface or its consumer.
AllBuffersReturned ==
    client \in {"flushBuffers", "stopDistribute", "joinDistributor", "last"} => Out = {}

\* A capture that is not continuous ends at most once, and in one frame only.
SingleEndsOnce ==
    \A r \in Requests \ Continuous : ended[r] <= 1

\* A single capture that waits for its turn is taken up while the stream is running.
WaitingServed ==
    \A r \in Requests \ Continuous :
        r \in Range(waiting) ~> r \notin Range(waiting) \/ state # "BUSY"

\* OnCaptureEnded follows CancelCapture of a continuous capture, unless the stream is stopped.
CancelledEnds ==
    \A r \in Continuous : made[r] = "cancelled" ~> ended[r] > 0 \/ state = "IDLE"

\* ReleaseStreams comes to an end.
StopEnds ==
    client \in StopLabels ~> client \notin StopLabels
=============================================================================
