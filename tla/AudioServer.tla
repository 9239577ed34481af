----------------------------- MODULE AudioServer -----------------------------
(***************************************************************************)
(* The audio service of the binder HAL: hdf_audio_server_common.c with the *)
(* handlers of hdf_audio_server_render.c and _capture.c, the drivers       *)
(* hdf_audio_primary_server.c and hdf_audio_usb_server.c, and the thread   *)
(* of hdf_audio_pnp_uevent.c that reports USB headsets.                    *)
(*                                                                         *)
(* A row of the service's table stands for a sound card: how many clients  *)
(* loaded its adapter and, for a render and for a capture, the stream of   *)
(* the client that has it.  A client that asks for a stream of at least    *)
(* the same priority takes it over.  Calls run in threads of their own     *)
(* without a lock; renderBusy and renderDestory are all that keeps a frame *)
(* that is being played and a stream that is being destroyed apart.        *)
(* A process is a client; each loads a card once, has one stream of a      *)
(* kind, and neither destroys it under its own frame nor unloads a card    *)
(* while it has streams.                                                   *)
(***************************************************************************)
EXTENDS Integers, FiniteSets

CONSTANTS
    Thread,      \* threads that serve calls: pairs of a process and a number
    Priorities,  \* enum AudioCategory
    StreamId,    \* addresses of streams
    AdapterId    \* addresses of adapters

NULL == 0
Kinds == {"render", "capture"}
Pid(t) == t[1]
Pids == {Pid(t) : t \in Thread}

VARIABLES
    server,   \* g_loadServerFlag
    table,    \* is g_renderAndCaptureManage there, and has it been (getAdaptersFlag)?
    row,      \* the card's entry of g_renderAndCaptureManage
    loaded,   \* adapters that the manager has made
    streams,  \* streams that there are, with the client and the priority they are for
    call,     \* what each thread is in
    held,     \* clients that have loaded the adapter
    has,      \* the kinds of stream each client believes to have
    pnp,      \* the events: the headset's, the service's and the load's
    tag,      \* audioUsbPnpTag
    ghost     \* what happened, for the properties

serverVars == <<server, table, row, loaded, streams, call, held, has, pnp, tag, ghost>>

Idle == [at |-> "idle", kind |-> "render", stream |-> NULL, adapter |-> NULL,
         priority |-> 0, users |-> 0]
Nobody == [status |-> FALSE, priority |-> -1, stream |-> NULL, busy |-> FALSE,
           destory |-> FALSE, pid |-> 0]

NoStream == [live |-> FALSE, kind |-> "render", pid |-> 0, priority |-> 0]

AdapterManageInit == [adapter |-> NULL, adapterUserNum |-> 0, render |-> Nobody, capture |-> Nobody]

\* Bind and Init of the driver: the service of the board is valid from the start,
\* the one for USB once a headset is there.
AudioHdiPrimaryServerInit == [headset |-> "UNKNOWN", service |-> "VALID", load |-> "UNKNOWN"]
AudioHdiUsbServerInit == [headset |-> "UNKNOWN", service |-> "INVALID", load |-> "UNKNOWN"]

ServerInit ==
    /\ server \in {"PRIMARY", "USB"}
    /\ table = [there |-> FALSE, getAdaptersFlag |-> TRUE]
    /\ row = AdapterManageInit
    /\ loaded = {}
    /\ streams = [s \in StreamId |-> NoStream]
    /\ call = [t \in Thread |-> Idle]
    /\ held = {}
    /\ has = [p \in Pids |-> {}]
    /\ pnp = IF server = "USB" THEN AudioHdiUsbServerInit ELSE AudioHdiPrimaryServerInit
    /\ tag = [audioPnpState |-> FALSE, analog |-> "INIT", digital |-> "INIT"]
    /\ ghost = [crossed |-> FALSE, raced |-> FALSE, mixed |-> FALSE, outranked |-> FALSE, twice |-> FALSE,
                outrun |-> FALSE, recycled |-> FALSE, unsent |-> FALSE, mute |-> FALSE,
                late |-> FALSE, there |-> {}]

At(t, at) == call[t].at = at
Quiet == \A t \in Thread : At(t, "idle")
Busy(pid, ats) == \E t \in Thread : Pid(t) = pid /\ call[t].at \in ats
Becomes(t, at) == call' = [call EXCEPT ![t].at = at]
Returns(t) == call' = [call EXCEPT ![t] = Idle]
Live(s) == s # NULL /\ streams[s].live
Freed(s) == IF s = NULL THEN streams ELSE [streams EXCEPT ![s] = NoStream]

------------------------------------------------------------------------------
(***************************************************************************)
(* The table.                                                              *)
(***************************************************************************)
\* The table is made by the first call only, also after the driver was released.
AdaptersServerManageInit ==
    /\ table' = [there |-> TRUE, getAdaptersFlag |-> FALSE]
    /\ row' = AdapterManageInit

HdiServiceGetAllAdapter ==
    /\ IF table.getAdaptersFlag
       THEN AdaptersServerManageInit
       ELSE UNCHANGED <<table, row>>
    /\ UNCHANGED <<server, loaded, streams, call, held, has, pnp, tag, ghost>>

\* The driver is unbound and bound again while nothing is loaded and no stream left.
AdaptersServerManageInfomationRecycle ==
    /\ Quiet /\ held = {} /\ table.there
    /\ \A s \in StreamId : ~streams[s].live
    /\ table' = [table EXCEPT !.there = FALSE]
    /\ row' = AdapterManageInit
    /\ ghost' = [ghost EXCEPT !.recycled = TRUE]
    /\ UNCHANGED <<server, loaded, streams, call, held, has, pnp, tag>>

------------------------------------------------------------------------------
(***************************************************************************)
(* Loading and unloading the adapter.                                      *)
(***************************************************************************)
MatchAppropriateAdapter(type) == type = server

\* What is published of the load.
AudioLoadStateChange(event) == pnp' = [pnp EXCEPT !.load = event]

\* The number of users is looked at in one step and changed in another, by a thread
\* that reads it again or goes by what it saw.
Counts(t) == {call[t].users, row.adapterUserNum}
Raced(t) == ghost' = [ghost EXCEPT !.raced = @ \/ row.adapterUserNum # call[t].users]
Sees(t, at) == call' = [call EXCEPT ![t].at = at, ![t].users = row.adapterUserNum]

\* One more user is to be counted, or the adapter has to be loaded.
AudioAdapterCheckListExist(t) ==
    \/ row.adapterUserNum > 0 /\ Sees(t, "counting")
    \/ /\ row.adapterUserNum = 0
       /\ \E type \in {"PRIMARY", "USB"} :
            IF MatchAppropriateAdapter(type) THEN Becomes(t, "loading") ELSE UNCHANGED call

HdiServiceLoadAdapter(t) ==
    /\ At(t, "idle") /\ table.there
    /\ Pid(t) \notin held /\ ~Busy(Pid(t), {"counting", "loading", "adding adapter", "dropping"})
    /\ AudioAdapterCheckListExist(t)
    /\ UNCHANGED <<server, table, row, loaded, streams, held, has, pnp, tag, ghost>>

CountUser(t) ==
    /\ At(t, "counting")
    /\ \E n \in Counts(t) : row' = [row EXCEPT !.adapterUserNum = n + 1]
    /\ held' = held \cup {Pid(t)}
    /\ Raced(t)
    /\ Returns(t)
    /\ UNCHANGED <<server, table, loaded, streams, has, pnp, tag>>

\* LoadAdapter of the pass-through HAL refuses a card whose adapter is in its list.
NotListed == loaded = {}

HdiServiceDevOnLine(t) ==
    \/ /\ NotListed
       /\ \E a \in AdapterId :
            /\ loaded' = loaded \cup {a}
            /\ call' = [call EXCEPT ![t].at = "adding adapter", ![t].adapter = a]
       /\ AudioLoadStateChange("SUCCESS")
       /\ UNCHANGED ghost
    \/ /\ AudioLoadStateChange("FAILURE")
       /\ Returns(t)
       /\ ghost' = [ghost EXCEPT !.outrun = @ \/ loaded # {}]
       /\ UNCHANGED loaded

HdiServiceDevOffLine(t) ==
    /\ AudioLoadStateChange("FAILURE")
    /\ Returns(t)
    /\ ghost' = [ghost EXCEPT !.outrun = @ \/ loaded # {}]
    /\ UNCHANGED loaded

HdiServiceLoadAdapterSubUsb(t) ==
    IF pnp.headset \in {"REMOVE", "UNKNOWN"} THEN HdiServiceDevOffLine(t) ELSE HdiServiceDevOnLine(t)

HdiServiceLoadAdapterSub(t) ==
    /\ At(t, "loading")
    /\ IF server = "USB" THEN HdiServiceLoadAdapterSubUsb(t) ELSE HdiServiceDevOnLine(t)
    /\ UNCHANGED <<server, table, row, streams, held, has, tag>>

AudioAdapterListAdd(t) ==
    /\ At(t, "adding adapter")
    /\ row' = [row EXCEPT !.adapter = call[t].adapter, !.adapterUserNum = 1]
    /\ held' = held \cup {Pid(t)}
    /\ Returns(t)
    /\ UNCHANGED <<server, table, loaded, streams, has, pnp, tag, ghost>>

\* A client that has no stream left, and no call under way, unloads the adapter.
AudioAdapterListDestory(t) ==
    /\ At(t, "idle") /\ Pid(t) \in held /\ has[Pid(t)] = {}
    /\ \A u \in Thread : Pid(u) = Pid(t) => At(u, "idle")
    /\ held' = held \ {Pid(t)}
    /\ IF row.adapterUserNum > 0 THEN Sees(t, "dropping") ELSE UNCHANGED call
    /\ UNCHANGED <<server, table, row, loaded, streams, has, pnp, tag, ghost>>

\* Mutant: every user that unloads takes the adapter out of the table.
DropAlways(t) ==
    /\ At(t, "dropping")
    /\ \E n \in Counts(t) : row' = [row EXCEPT !.adapterUserNum = n - 1, !.adapter = NULL]
    /\ call' = [call EXCEPT ![t] = [Idle EXCEPT !.at = "unloading", !.adapter = row.adapter]]
    /\ Raced(t)
    /\ UNCHANGED <<server, table, loaded, streams, held, has, pnp, tag>>

\* The last user takes the adapter, if there is one, out of the table to unload it.
DropUser(t) ==
    /\ At(t, "dropping")
    /\ \E n \in Counts(t) :
        IF call[t].users = 1
        THEN /\ row' = [row EXCEPT !.adapterUserNum = n - 1, !.adapter = NULL]
             /\ IF row.adapter = NULL THEN Returns(t)
                ELSE call' = [call EXCEPT ![t] = [Idle EXCEPT !.at = "unloading", !.adapter = row.adapter]]
        ELSE row' = [row EXCEPT !.adapterUserNum = n - 1] /\ Returns(t)
    /\ Raced(t)
    /\ UNCHANGED <<server, table, loaded, streams, held, has, pnp, tag>>

HdiServiceUnloadAdapter(t) ==
    /\ At(t, "unloading")
    /\ loaded' = loaded \ {call[t].adapter}
    /\ AudioLoadStateChange("UNLOAD")
    /\ ghost' = [ghost EXCEPT !.outrun = FALSE]
    /\ Returns(t)
    /\ UNCHANGED <<server, table, row, streams, held, has, tag>>

------------------------------------------------------------------------------
(***************************************************************************)
(* Creating a stream, over the one that is there if its priority allows.   *)
(***************************************************************************)
Changing == {"waiting", "ending", "fetching", "destroying", "wiping", "opening", "adding"}

\* Another call takes a stream of the kind down, or makes one, at the same time.
Crosses(t, kind) ==
    ghost' = [ghost EXCEPT !.crossed =
                @ \/ \E u \in Thread \ {t} : call[u].kind = kind /\ call[u].at \in Changing]

AudioJudgeRenderPriority(kind, priority) == row[kind].priority <= priority

\* Mutant: the former capture is not compared with the one asked for.
JudgeNothing(kind, priority) == TRUE

AudioJudgeCapturePriority(kind, priority) == row[kind].priority <= priority

MayReplace(kind, priority) ==
    IF kind = "render" THEN AudioJudgeRenderPriority(kind, priority)
    ELSE AudioJudgeCapturePriority(kind, priority)

Asks(t, at, kind, priority) ==
    call' = [call EXCEPT ![t] = [Idle EXCEPT !.at = at, !.kind = kind, !.adapter = row.adapter,
                                             !.priority = priority]]

\* The adapter is read, and the stream that is there is asked to end.
Create(t, kind, priority) ==
    /\ At(t, "idle") /\ Pid(t) \in held /\ kind \notin has[Pid(t)]
    /\ ~\E u \in Thread \ {t} : Pid(u) = Pid(t) /\ ~At(u, "idle") /\ call[u].kind = kind
    /\ \/ /\ ~row[kind].status
          /\ Asks(t, "making", kind, priority)
          /\ UNCHANGED <<row, ghost>>
       \/ /\ row[kind].status /\ MayReplace(kind, priority) /\ row[kind].stream # NULL
          /\ row' = [row EXCEPT ![kind].destory = TRUE]
          /\ Asks(t, "waiting", kind, priority)
          /\ Crosses(t, kind)
    /\ UNCHANGED <<server, table, loaded, streams, held, has, pnp, tag>>

AudioCreatRenderCheck(t, priority) == Create(t, "render", priority)
AudioCreatCaptureCheck(t, priority) == Create(t, "capture", priority)

\* A frame whose call has been checked and is not marked busy yet is late.
Late(t, kind) == \E u \in Thread \ {t} : call[u].kind = kind /\ At(u, "checked")

\* Mutant: the stream is destroyed although a frame is being played.
FormerNotAwaited(t) ==
    /\ At(t, "waiting")
    /\ LET kind == call[t].kind IN
        /\ row' = [row EXCEPT ![kind].pid = 0]
        /\ ghost' = [ghost EXCEPT !.late = @ \/ Late(t, kind)]
        /\ Becomes(t, "ending")
    /\ UNCHANGED <<server, table, loaded, streams, held, has, pnp, tag>>

\* The loop of the destroyer looks at renderBusy for half a second.
AwaitFormer(t) ==
    /\ At(t, "waiting")
    /\ LET kind == call[t].kind IN
        \/ /\ row[kind].busy
           /\ row' = [row EXCEPT ![kind].destory = FALSE]
           /\ Returns(t)
           /\ UNCHANGED ghost
        \/ /\ ~row[kind].busy
           /\ row' = [row EXCEPT ![kind].pid = 0]
           /\ ghost' = [ghost EXCEPT !.late = @ \/ Late(t, kind)]
           /\ Becomes(t, "ending")
    /\ UNCHANGED <<server, table, loaded, streams, held, has, pnp, tag>>

\* A stream is destroyed a second time, or by a client it outranks.
Destroyed(t, s, p) ==
    [ghost EXCEPT !.twice = @ \/ ~streams[s].live,
                  !.outranked = @ \/ (streams[s].live /\ p < streams[s].priority)]

AudioDestroyFormerRender(t) ==
    /\ At(t, "ending") /\ call[t].kind = "render"
    /\ \/ /\ row' = [row EXCEPT !.render.destory = FALSE]
          /\ Returns(t)
          /\ UNCHANGED <<streams, ghost>>
       \/ /\ row.render.stream # NULL
          /\ streams' = Freed(row.render.stream)
          /\ ghost' = Destroyed(t, row.render.stream, call[t].priority)
          /\ row' = [row EXCEPT !.render = Nobody]
          /\ Becomes(t, "making")
    /\ UNCHANGED <<server, table, loaded, held, has, pnp, tag>>

\* It is the render's priority that is reset.
AudioDestroyFormerCapture(t) ==
    /\ At(t, "ending") /\ call[t].kind = "capture"
    /\ \/ /\ row' = [row EXCEPT !.capture.destory = FALSE]
          /\ Returns(t)
          /\ UNCHANGED <<streams, ghost>>
       \/ /\ row.capture.stream # NULL
          /\ streams' = Freed(row.capture.stream)
          /\ ghost' = [Destroyed(t, row.capture.stream, call[t].priority)
                        EXCEPT !.mixed = @ \/ row.render.status]
          /\ row' = [row EXCEPT !.capture = [Nobody EXCEPT !.priority = row.capture.priority],
                                !.render.priority = -1]
          /\ Becomes(t, "making")
    /\ UNCHANGED <<server, table, loaded, held, has, pnp, tag>>

\* adapterMgrRenderFlag: the adapter makes one stream of a kind at a time, but looks
\* first and counts when the stream has been made.
MgrFlag(kind) == \E s \in StreamId : streams[s].live /\ streams[s].kind = kind

StartMaking(t) ==
    /\ At(t, "making")
    /\ \/ Returns(t) /\ UNCHANGED ghost
       \/ /\ ~MgrFlag(call[t].kind)
          /\ Becomes(t, "opening")
          /\ Crosses(t, call[t].kind)
    /\ UNCHANGED <<server, table, row, loaded, streams, held, has, pnp, tag>>

EndMaking(t) ==
    /\ At(t, "opening")
    /\ \/ Returns(t) /\ UNCHANGED streams
       \/ \E s \in StreamId :
            /\ ~streams[s].live
            /\ streams' = [streams EXCEPT ![s] =
                    [live |-> TRUE, kind |-> call[t].kind, pid |-> Pid(t), priority |-> call[t].priority]]
            /\ call' = [call EXCEPT ![t].at = "adding", ![t].stream = s]
    /\ UNCHANGED <<server, table, row, loaded, held, has, pnp, tag, ghost>>

AddInfo(t, kind) ==
    /\ At(t, "adding") /\ call[t].kind = kind
    /\ row' = [row EXCEPT ![kind].status = TRUE, ![kind].priority = call[t].priority,
                          ![kind].stream = call[t].stream, ![kind].pid = Pid(t)]
    /\ has' = [has EXCEPT ![Pid(t)] = @ \cup {kind}]
    /\ Returns(t)
    /\ UNCHANGED <<server, table, loaded, streams, held, pnp, tag, ghost>>

AudioAddRenderInfoInAdapter(t) == AddInfo(t, "render")
AudioAddCaptureInfoInAdapter(t) == AddInfo(t, "capture")

------------------------------------------------------------------------------
(***************************************************************************)
(* Destroying one's stream, and using it.                                  *)
(***************************************************************************)
\* AudioAdapterListGetRender and its twin give the stream to the client that has it.
Owns(t, kind) == row[kind].pid = Pid(t)

AudioAdapterListGetRender(t) == Owns(t, "render")
AudioAdapterListGetCapture(t) == Owns(t, "capture")
ListGet(t, kind) ==
    IF kind = "render" THEN AudioAdapterListGetRender(t) ELSE AudioAdapterListGetCapture(t)

\* A client that has been taken over learns it from the error, and forgets the stream.
StartDestroy(t, kind) ==
    /\ At(t, "idle") /\ kind \in has[Pid(t)]
    /\ ~\E u \in Thread \ {t} : Pid(u) = Pid(t) /\ ~At(u, "idle") /\ call[u].kind = kind
    /\ IF ListGet(t, kind)
       THEN /\ call' = [call EXCEPT ![t] = [Idle EXCEPT !.at = "fetching", !.kind = kind]]
            /\ Crosses(t, kind)
            /\ UNCHANGED has
       ELSE has' = [has EXCEPT ![Pid(t)] = @ \ {kind}] /\ UNCHANGED <<call, ghost>>
    /\ UNCHANGED <<server, table, row, loaded, streams, held, pnp, tag>>

\* The stream is looked up again, by the name of the card.
AudioAdapterListGetAdapterRender(t, kind) ==
    IF row.adapter = NULL \/ row[kind].stream = NULL THEN Returns(t)
    ELSE call' = [call EXCEPT ![t].at = "destroying", ![t].stream = row[kind].stream]

\* The capture is not compared with NULL here, but by the adapter that is called.
AudioAdapterListGetAdapterCapture(t, kind) ==
    IF row.adapter = NULL \/ row[kind].stream = NULL THEN Returns(t)
    ELSE call' = [call EXCEPT ![t].at = "destroying", ![t].stream = row[kind].stream]

Fetch(t) ==
    /\ At(t, "fetching")
    /\ IF call[t].kind = "render" THEN AudioAdapterListGetAdapterRender(t, "render")
       ELSE AudioAdapterListGetAdapterCapture(t, "capture")
    /\ UNCHANGED <<server, table, row, loaded, streams, held, has, pnp, tag, ghost>>

DestroyStream(t) ==
    /\ At(t, "destroying")
    /\ \/ Returns(t) /\ UNCHANGED <<streams, ghost>>
       \/ /\ streams' = Freed(call[t].stream)
          /\ ghost' = [ghost EXCEPT !.twice = @ \/ ~Live(call[t].stream)]
          /\ Becomes(t, "wiping")
    /\ UNCHANGED <<server, table, row, loaded, held, has, pnp, tag>>

\* Mutant: the entry keeps the stream that has been destroyed.
WipePidOnly(t, kind) ==
    /\ At(t, "wiping") /\ call[t].kind = kind
    /\ row' = [row EXCEPT ![kind].pid = 0]
    /\ has' = [has EXCEPT ![Pid(t)] = @ \ {kind}]
    /\ Returns(t)
    /\ UNCHANGED <<server, table, loaded, streams, held, pnp, tag, ghost>>

Wipe(t, kind) ==
    /\ At(t, "wiping") /\ call[t].kind = kind
    /\ row' = [row EXCEPT ![kind].status = FALSE, ![kind].priority = -1,
                          ![kind].stream = NULL, ![kind].pid = 0]
    /\ has' = [has EXCEPT ![Pid(t)] = @ \ {kind}]
    /\ Returns(t)
    /\ UNCHANGED <<server, table, loaded, streams, held, pnp, tag, ghost>>

AudioDestroyRenderInfoInAdapter(t) == Wipe(t, "render")
AudioDestroyCaptureInfoInAdapter(t) == Wipe(t, "capture")

\* A frame is refused, and the mark of a frame taken away, while a destroyer waits.
AudioGetRenderStatus(t, kind) ==
    IF row[kind].destory
    THEN row' = [row EXCEPT ![kind].busy = FALSE] /\ UNCHANGED call
    ELSE /\ call' = [call EXCEPT ![t] = [Idle EXCEPT !.at = "checked", !.kind = kind,
                                                     !.stream = row[kind].stream]]
         /\ UNCHANGED row

AudioAdapterFrameGetCapture(t, kind) ==
    IF row[kind].destory
    THEN row' = [row EXCEPT ![kind].busy = FALSE] /\ UNCHANGED call
    ELSE /\ call' = [call EXCEPT ![t] = [Idle EXCEPT !.at = "checked", !.kind = kind,
                                                     !.stream = row[kind].stream]]
         /\ UNCHANGED row

StartFrame(t, kind) ==
    /\ At(t, "idle") /\ kind \in has[Pid(t)] /\ ListGet(t, kind)
    /\ ~\E u \in Thread \ {t} : Pid(u) = Pid(t) /\ ~At(u, "idle") /\ call[u].kind = kind
    /\ IF kind = "render" THEN AudioGetRenderStatus(t, kind) ELSE AudioAdapterFrameGetCapture(t, kind)
    /\ UNCHANGED <<server, table, loaded, streams, held, has, pnp, tag, ghost>>

\* The frame is read from the message, or memory is got for it, before it is marked.
BeginFrame(t, kind) ==
    /\ At(t, "checked") /\ call[t].kind = kind
    /\ \/ /\ row' = [row EXCEPT ![kind].busy = TRUE]
          /\ Becomes(t, "playing")
       \/ Returns(t) /\ UNCHANGED row
    /\ UNCHANGED <<server, table, loaded, streams, held, has, pnp, tag, ghost>>

EndFrame(t, kind) ==
    /\ At(t, "playing") /\ call[t].kind = kind
    /\ row' = [row EXCEPT ![kind].busy = FALSE]
    /\ Returns(t)
    /\ UNCHANGED <<server, table, loaded, streams, held, has, pnp, tag, ghost>>

AudioSetRenderStatus(t, busy) == IF busy THEN BeginFrame(t, "render") ELSE EndFrame(t, "render")
AudioSetCaptureBusy(t, busy) == IF busy THEN BeginFrame(t, "capture") ELSE EndFrame(t, "capture")

------------------------------------------------------------------------------
(***************************************************************************)
(* USB headsets.  There is one connector; ghost.there is what it holds.  A *)
(* digital headset is named by the uevent that adds or removes it, an      *)
(* analog one by the state of the port.                                    *)
(***************************************************************************)
AudioServiceStateChange(headset, event) ==
    pnp' = [pnp EXCEPT !.headset = headset, !.service = event]

HdiServiceGetDevStatusByPnp(event) ==
    AudioServiceStateChange(event, IF event = "ADD" THEN "VALID" ELSE "INVALID")

\* The report reaches the service, or is lost: the service is not there, or a message
\* cannot be made or dispatched.
AudioPnpStatusSend(event, there) ==
    \/ /\ HdiServiceGetDevStatusByPnp(event)
       /\ ghost' = [ghost EXCEPT !.there = there]
    \/ /\ ghost' = [ghost EXCEPT !.there = there, !.unsent = TRUE]
       /\ UNCHANGED pnp

\* Nor is it sent when the information of the device cannot be updated.
AudioPnpUpdateAndSend(event, there) == AudioPnpStatusSend(event, there)

AudioUsbDeviceStateCheck(arrives) == [tag EXCEPT !.audioPnpState = arrives]

\* Mutant: arrival and departure of a digital headset are swapped.
DigitalSwapped(arrives) ==
    /\ ghost.there = (IF arrives THEN {} ELSE {"digital"})
    /\ tag' = [AudioUsbDeviceStateCheck(arrives) EXCEPT !.digital = "OFF"]
    /\ AudioPnpUpdateAndSend(IF arrives THEN "REMOVE" ELSE "ADD", IF arrives THEN {"digital"} ELSE {})

AudioUsbDigitalDeviceCheck(arrives) ==
    /\ ghost.there = (IF arrives THEN {} ELSE {"digital"})
    /\ tag' = [AudioUsbDeviceStateCheck(arrives) EXCEPT !.digital = "OFF"]
    /\ AudioPnpUpdateAndSend(IF arrives THEN "ADD" ELSE "REMOVE", IF arrives THEN {"digital"} ELSE {})

\* The port is named by one uevent and its state given by the next.  Once a digital
\* headset has been seen the state is not looked at, and that an analog one leaves is
\* not reported: its branch has the condition of the other.
AudioUsbAnalogDeviceCheck(arrives) ==
    /\ ghost.there = (IF arrives THEN {} ELSE {"analog"})
    /\ LET there == IF arrives THEN {"analog"} ELSE {}
       IN  IF tag.digital # "OFF" /\ arrives
           THEN /\ tag' = [tag EXCEPT !.analog = "INIT", !.digital = "INIT"]
                /\ AudioPnpUpdateAndSend("ADD", there)
           ELSE /\ tag' = [tag EXCEPT !.analog = "ON"]
                /\ ghost' = [ghost EXCEPT !.there = there, !.mute = TRUE]
                /\ UNCHANGED pnp

AudioPnpUeventCompare ==
    /\ server = "USB"
    /\ \E arrives \in BOOLEAN :
        AudioUsbDigitalDeviceCheck(arrives) \/ AudioUsbAnalogDeviceCheck(arrives)
    /\ UNCHANGED <<server, table, row, loaded, streams, call, held, has>>

------------------------------------------------------------------------------
ServerNext ==
    \/ HdiServiceGetAllAdapter
    \/ AdaptersServerManageInfomationRecycle
    \/ \E t \in Thread :
        \/ HdiServiceLoadAdapter(t) \/ CountUser(t) \/ HdiServiceLoadAdapterSub(t)
        \/ AudioAdapterListAdd(t)
        \/ AudioAdapterListDestory(t) \/ DropUser(t) \/ HdiServiceUnloadAdapter(t)
        \/ \E p \in Priorities : AudioCreatRenderCheck(t, p) \/ AudioCreatCaptureCheck(t, p)
        \/ AwaitFormer(t) \/ AudioDestroyFormerRender(t) \/ AudioDestroyFormerCapture(t)
        \/ StartMaking(t) \/ EndMaking(t)
        \/ AudioAddRenderInfoInAdapter(t) \/ AudioAddCaptureInfoInAdapter(t)
        \/ \E k \in Kinds : StartDestroy(t, k) \/ StartFrame(t, k)
        \/ Fetch(t) \/ DestroyStream(t)
        \/ AudioDestroyRenderInfoInAdapter(t) \/ AudioDestroyCaptureInfoInAdapter(t)
        \/ \E b \in BOOLEAN : AudioSetRenderStatus(t, b) \/ AudioSetCaptureBusy(t, b)
    \/ AudioPnpUeventCompare

------------------------------------------------------------------------------
\* The entry of the card says which stream there is, whose it is and what priority it
\* has: every stream is in the entry or in the hands of the call that makes it, what
\* the entry has is there unless a call is just wiping it, and it is given to its
\* client only.  Not so once two calls took a stream down, or made one, at the same
\* time, and not of a render's priority once a capture was taken over.
EntryIsTrue ==
    ghost.crossed \/
    \A k \in Kinds :
        LET e == row[k]
            wiping == \E t \in Thread : At(t, "wiping") /\ call[t].kind = k
        IN  /\ \A s \in StreamId : streams[s].live /\ streams[s].kind = k =>
                \/ e.status /\ e.stream = s
                \/ \E t \in Thread : At(t, "adding") /\ call[t].stream = s
            /\ e.status /\ ~wiping => Live(e.stream)
            /\ e.status /\ ~wiping => /\ e.pid \in {0, streams[e.stream].pid}
                                      /\ \/ e.priority = streams[e.stream].priority
                                         \/ k = "render" /\ ghost.mixed
            /\ ~ghost.twice

\* A client loses its stream to one of lower priority only after calls crossed, or the
\* priority of its render was reset with the capture.
TakenOverByRank == ghost.outranked => ghost.crossed \/ ghost.mixed

\* A frame that is being played has a stream to play it, unless a destroyer looked
\* between the check of a frame's call and its mark: such a frame, when it ends, also
\* takes away the mark of the next client's.
FramesAreSafe ==
    \A t \in Thread : At(t, "playing") => Live(call[t].stream) \/ ghost.late \/ ghost.crossed

\* The adapter is there while a client has it loaded or a call uses it, and the number
\* of users is that of the clients that loaded it and have not given it up: as long as
\* the number that a call saw was still the number when the call changed it.  Calls that
\* load and unload the adapter at the same time do no harm otherwise.
AdapterIsHeld ==
    ghost.raced \/
    /\ row.adapterUserNum = Cardinality(held) + Cardinality({t \in Thread : At(t, "dropping")})
    /\ held # {} => row.adapter \in loaded
    /\ \A t \in Thread : call[t].adapter # NULL => call[t].adapter \in loaded

\* What is published of the load is what the manager has, when no call loads or unloads,
\* unless a call that came second reported its failure.
LoadIsTold ==
    (\A t \in Thread : call[t].at \notin {"loading", "adding adapter", "unloading"}) =>
        ghost.outrun \/ (pnp.load = "SUCCESS" <=> loaded # {})

\* The service for USB is valid exactly while a headset is there, if every report
\* reached it and every change was reported.
HeadsetIsTold ==
    server = "USB" /\ ~ghost.unsent /\ ~ghost.mute => (pnp.service = "VALID" <=> ghost.there # {})

\* Once the cards were listed the table is there, until the driver is released.
TableIsThere == ~table.getAdaptersFlag => table.there \/ ghost.recycled

ServerIsTrue ==
    /\ EntryIsTrue /\ TakenOverByRank /\ FramesAreSafe /\ AdapterIsHeld /\ LoadIsTold
    /\ HeadsetIsTold /\ TableIsThere
=============================================================================
