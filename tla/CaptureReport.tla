--------------------------- MODULE CaptureReport ---------------------------
(***************************************************************************)
(* Captures of several streams: RequestSemaphore, by which the streams of  *)
(* a request wait for each other with every frame, and                     *)
(* CaptureMessageOperator, which collects the messages of the streams and  *)
(* reports them to the client in one call.                                 *)
(*                                                                         *)
(* Every stream delivers the frames of the same requests in the same       *)
(* order, each in a thread of its own: HandleResult, OnResult, OnFrame.    *)
(* The wait of Sync has no predicate: it may end without a notification.   *)
(***************************************************************************)
EXTENDS Integers, Sequences, FiniteSets

CONSTANTS Streams,       \* the streams of the requests: ownerCount_ of them
          Requests,
          Frames,        \* the requests the frames belong to, in order
          Times          \* what gettimeofday may say, in any order: the clock may be set

ASSUME ReportAssumption ==
    /\ IsFiniteSet(Streams)
    /\ Streams # {}
    /\ Frames \in Seq(Requests)
    /\ Times \subseteq Nat

VARIABLES pc,            \* where the thread of each stream is
          frame,         \* the frame it delivers
          syncCount,     \* syncCount_ of each request's semaphore
          stamp,         \* timestamp_ of each request's semaphore
          given,         \* history: the stamps given, each with the frame it was given to
          astray,        \* history: has a wait ended unnotified, or a late release hit a later frame?
          messageBox,    \* messageBox_: the groups of messages
          wakeup,        \* wakeup_
          handler,       \* where the message thread is
          calls,         \* the complete groups it has still to report
          reported       \* history: the groups the client was told of

streamVars == <<pc, frame>>
semVars == <<syncCount, stamp, given, astray>>
boxVars == <<messageBox, wakeup, handler, calls, reported>>
vars == <<streamVars, semVars, boxVars>>

Types == {"shutter", "ended"}

Stamps == Times \union {0}

Message == [stream : Streams, request : Requests, frame : 1..Len(Frames), stamp : Stamps, type : Types]

\* A group is what SendMessage has put together. At most one group of a type has a given
\* stamp, so the order within the lists of groups, and within a group, does not matter.
Group == SUBSET Message

TypeOK ==
    /\ pc \in [Streams -> {"arrive", "decide", "wait", "asleep", "last", "shutter", "ended", "done"}]
    /\ frame \in [Streams -> 1..(Len(Frames) + 1)]
    /\ syncCount \in [Requests -> 0..Cardinality(Streams)]
    /\ stamp \in [Requests -> Stamps]
    /\ given \subseteq Times \X (1..Len(Frames))
    /\ astray \in BOOLEAN
    /\ messageBox \in SUBSET Group
    /\ wakeup \in BOOLEAN
    /\ handler \in {"wait", "collect", "report"}
    /\ calls \in SUBSET Group
    /\ reported \in SUBSET Group

Init ==
    /\ pc = [s \in Streams |-> IF Frames = <<>> THEN "done" ELSE "arrive"]
    /\ frame = [s \in Streams |-> 1]
    /\ syncCount = [r \in Requests |-> 0]
    /\ stamp = [r \in Requests |-> 0]
    /\ given = {}
    /\ astray = FALSE
    /\ messageBox = {}
    /\ wakeup = FALSE
    /\ handler = "wait"
    /\ calls = {}
    /\ reported = {}

Request(s) == Frames[frame[s]]

Goes(s, label) == pc' = [pc EXCEPT ![s] = label]

-----------------------------------------------------------------------------
(* RequestSemaphore::Sync *)

\* syncCount_++
Arrive(s) ==
    /\ pc[s] = "arrive"
    /\ syncCount' = [syncCount EXCEPT ![Request(s)] = @ + 1]
    /\ Goes(s, "decide")
    /\ UNCHANGED <<frame, stamp, given, astray, boxVars>>

\* Mutant: the last but one is taken for the last.
DecideEarly(s) ==
    /\ pc[s] = "decide"
    /\ Goes(s, IF syncCount[Request(s)] < Cardinality(Streams) - 1 THEN "wait" ELSE "last")
    /\ UNCHANGED <<frame, semVars, boxVars>>

\* The counter is read again, after other streams may have changed it.
Decide(s) ==
    /\ pc[s] = "decide"
    /\ Goes(s, IF syncCount[Request(s)] < Cardinality(Streams) THEN "wait" ELSE "last")
    /\ UNCHANGED <<frame, semVars, boxVars>>

Sleep(s) ==
    /\ pc[s] = "wait"
    /\ Goes(s, "asleep")
    /\ UNCHANGED <<frame, semVars, boxVars>>

\* cv_.wait(l) returns although nobody has notified.
WakeUp(s) ==
    /\ pc[s] = "asleep"
    /\ Goes(s, "shutter")
    /\ astray' = TRUE
    /\ UNCHANGED <<frame, syncCount, stamp, given, boxVars>>

\* Those asleep in the semaphore of s's request wake up, and s goes on.
Released(s) ==
    [t \in Streams |->
        IF t = s \/ (pc[t] = "asleep" /\ Request(t) = Request(s)) THEN "shutter" ELSE pc[t]]

\* Others are in the semaphore with a later frame when s, which took itself for the
\* last with an earlier one, comes to release it.
Late(s) ==
    \E t \in Streams :
        /\ frame[s] < frame[t] /\ frame[t] <= Len(Frames)
        /\ Request(t) = Request(s)
        /\ pc[t] # "arrive"

\* GenerateTimeStamp and notify_all, under sem_.
Release(s) ==
    /\ pc[s] = "last"
    /\ syncCount' = [syncCount EXCEPT ![Request(s)] = 0]
    /\ \E time \in Times :
        /\ stamp' = [stamp EXCEPT ![Request(s)] = time]
        /\ given' = given \union {<<time, frame[s]>>}
    /\ astray' = (astray \/ Late(s))
    /\ pc' = Released(s)
    /\ UNCHANGED <<frame, boxVars>>

-----------------------------------------------------------------------------
(* OnFrame sends its messages to CaptureMessageOperator::SendMessage *)

Complete(group) == Cardinality(group) = Cardinality(Streams)

\* Mutant: the types are not compared.
PeersByStamp(m) == {g \in messageBox : \E p \in g : p.stamp = m.stamp}

\* The group a message joins, of its type and with its time stamp.
Peers(m) == {g \in messageBox : \E p \in g : p.stamp = m.stamp /\ p.type = m.type}

\* Mutant: a message that completes a group does not wake the message thread.
SendSilently(m) ==
    \/ /\ Peers(m) = {}
       /\ messageBox' = messageBox \union {{m}}
       /\ wakeup' = (wakeup \/ Complete({m}))
    \/ \E g \in Peers(m) :
           /\ messageBox' = (messageBox \ {g}) \union {g \union {m}}
           /\ UNCHANGED wakeup

SendMessage(m) ==
    \/ /\ Peers(m) = {}
       /\ messageBox' = messageBox \union {{m}}
       /\ wakeup' = (wakeup \/ Complete({m}))
    \/ \E g \in Peers(m) :
           /\ messageBox' = (messageBox \ {g}) \union {g \union {m}}
           /\ wakeup' = (wakeup \/ Complete(g \union {m}))

MessageOf(s, t) ==
    [stream |-> s, request |-> Request(s), frame |-> frame[s], stamp |-> stamp[Request(s)], type |-> t]

\* The last frame of a request ends its capture.
IsEnded(s) == \A i \in (frame[s] + 1)..Len(Frames) : Frames[i] # Request(s)

NextFrame(s) ==
    /\ frame' = [frame EXCEPT ![s] = @ + 1]
    /\ Goes(s, IF frame[s] = Len(Frames) THEN "done" ELSE "arrive")

SendShutter(s) ==
    /\ pc[s] = "shutter"
    /\ SendMessage(MessageOf(s, "shutter"))
    /\ IF IsEnded(s) THEN Goes(s, "ended") /\ UNCHANGED frame ELSE NextFrame(s)
    /\ UNCHANGED <<semVars, handler, calls, reported>>

SendEnded(s) ==
    /\ pc[s] = "ended"
    /\ SendMessage(MessageOf(s, "ended"))
    /\ NextFrame(s)
    /\ UNCHANGED <<semVars, handler, calls, reported>>

StreamNext(s) ==
    Arrive(s) \/ Decide(s) \/ Sleep(s) \/ Release(s) \/ SendShutter(s) \/ SendEnded(s)

-----------------------------------------------------------------------------
(* The message thread: HandleMessage *)

AwaitMessage ==
    /\ handler = "wait"
    /\ wakeup
    /\ wakeup' = FALSE
    /\ handler' = "collect"
    /\ UNCHANGED <<streamVars, semVars, messageBox, calls, reported>>

CollectMessages ==
    /\ handler = "collect"
    /\ calls' = {g \in messageBox : Complete(g)}
    /\ messageBox' = messageBox \ calls'
    /\ handler' = "report"
    /\ UNCHANGED <<streamVars, semVars, wakeup, reported>>

\* HandleCallbackMessage calls the client. messageBox_ is a hash map: any type may come first.
ReportMessage ==
    /\ handler = "report"
    /\ \/ /\ calls = {}
          /\ handler' = "wait"
          /\ UNCHANGED <<calls, reported>>
       \/ /\ \E g \in calls : calls' = calls \ {g} /\ reported' = reported \union {g}
          /\ UNCHANGED handler
    /\ UNCHANGED <<streamVars, semVars, messageBox, wakeup>>

HandlerNext == AwaitMessage \/ CollectMessages \/ ReportMessage

-----------------------------------------------------------------------------
Next == HandlerNext \/ \E s \in Streams : StreamNext(s) \/ WakeUp(s)

Spec == Init /\ [][Next]_vars

\* Every thread that can run does; no wait has to end unnotified.
FairSpec == Spec /\ WF_vars(HandlerNext) /\ \A s \in Streams : WF_vars(StreamNext(s))

-----------------------------------------------------------------------------
(* Properties *)

\* The streams of a capture stay together, single or continuous: no stream goes past Sync
\* with a frame before every other one has arrived there with it, although the counter
\* is read again after others changed it; until a wait ends unnotified, or one of two
\* streams that both took themselves for the last releases those of a later frame.
InStep ==
    astray \/
    \A s, t \in Streams :
        /\ pc[s] \in {"shutter", "ended"} => frame[t] > frame[s] \/ (frame[t] = frame[s] /\ pc[t] # "arrive")
        /\ frame[s] <= frame[t] + 1

\* What the client is told of in one call is one frame of one capture, one message of every
\* stream, although the messages are put together by time stamp and type alone: as long
\* as the streams stay together, and if no other frame was given the same stamp.
GroupWhole ==
    astray \/
    \A g \in reported :
        (\A m \in g : \A x, y \in given : x[1] = m.stamp /\ y[1] = m.stamp => x[2] = y[2]) =>
            /\ {m.stream : m \in g} = Streams
            /\ \A m, n \in g : m.request = n.request /\ m.frame = n.frame

\* A group that is complete does not stay in the message box: no wakeup_ is lost between a
\* SendMessage and the message thread.
CompleteReported ==
    (\E g \in messageBox : Complete(g)) ~> ~\E g \in messageBox : Complete(g)
=============================================================================
