-------------------------------- MODULE BtAudio --------------------------------
(***************************************************************************)
(* The Bluetooth audio HAL, bluetooth/audio/hal/hdi_passthrough: render    *)
(* streams on adapters, played by the A2DP service of the Bluetooth host.  *)
(* The HAL asks the host to start, suspend and stop playing, and decides   *)
(* whether to ask by g_playState, which the host's notifications set, when *)
(* they come.  There is one host, and one g_playState, for however many    *)
(* streams there are: an adapter makes one at a time, but adapters may be  *)
(* loaded side by side and unloaded under their streams.                   *)
(***************************************************************************)
EXTENDS Naturals, Sequences, FiniteSets

CONSTANTS
    Adapters,       \* addresses of adapters
    Renders,        \* addresses of streams
    MaxPending      \* bound on the commands and notifications that are under way

VARIABLES
    adapter,        \* hwAdapter: is it loaded, and its adapterMgrRenderFlag
    render,         \* hwRender, and the adapter that made it, while that is loaded
    playState,      \* g_playState
    host,           \* the A2DP service: what it does, what it was asked, what it notified
    strayed         \* how the host may have come to do other than the streams say

btVars == <<adapter, render, playState, host, strayed>>

Nowhere == 0
NoRender == [made |-> FALSE, by |-> Nowhere, buffer |-> FALSE, pause |-> FALSE]
NoAdapter == [loaded |-> FALSE, adapterMgrRenderFlag |-> 0]

\* Without the service there is no proxy: GetProxy leaves g_proxy_ unset.
BtInit ==
    /\ adapter = [a \in Adapters |-> NoAdapter]
    /\ render = [r \in Renders |-> NoRender]
    /\ playState = FALSE
    /\ host = [proxy |-> FALSE, playing |-> FALSE, asked |-> <<>>, notes |-> <<>>]
    /\ strayed = {}

------------------------------------------------------------------------------
(***************************************************************************)
(* audio_bluetooth_manager.cpp: the service, external, takes up what it    *)
(* was asked in order, or refuses, and notifies the observer of a change.  *)
(***************************************************************************)
Settled == host.asked = <<>> /\ host.notes = <<>>
GetPlayingState == playState

\* StartPlaying, SuspendPlaying and StopPlaying; their results are not looked at.
Asked(command) == IF host.proxy THEN [host EXCEPT !.asked = Append(@, command)] ELSE host
AskTo(command, wanted) ==
    /\ Len(host.asked) < MaxPending
    /\ host' = IF GetPlayingState # wanted THEN Asked(command) ELSE host

\* A decision by GetPlayingState is stale when the host is about to play, or to stop,
\* or has done so without being heard yet; one that is not makes up for what went wrong
\* before.  What streams were destroyed with stays.
Strays(flaws) ==
    IF Settled THEN (strayed \cap {"other adapter"}) \cup flaws
    ELSE strayed \cup {"stale"} \cup flaws

HostTakesUp ==
    /\ host.asked # <<>> /\ Len(host.notes) < MaxPending
    /\ LET plays == Head(host.asked) = "start"
           next == [host EXCEPT !.asked = Tail(@)]
       IN  \/ /\ host' = [next EXCEPT !.playing = plays,
                                      !.notes = IF plays # host.playing THEN Append(@, plays) ELSE @]
              /\ UNCHANGED strayed
           \/ /\ host' = next
              /\ strayed' = strayed \cup {"refused"}
    /\ UNCHANGED <<adapter, render, playState>>

AudioOnPlayingStatusChanged ==
    /\ host.notes # <<>>
    /\ playState' = Head(host.notes)
    /\ host' = [host EXCEPT !.notes = Tail(@)]
    /\ UNCHANGED <<adapter, render, strayed>>

------------------------------------------------------------------------------
(***************************************************************************)
(* audio_manager.cpp and audio_adapter.cpp.                                *)
(***************************************************************************)
\* AudioManagerLoadAdapter: AudioAdapterExist only asks whether the name is that of a
\* supported adapter, so that a second load makes a second adapter.  GetProxy is taken
\* to find the service, without which RegisterObserver has nothing to register with; an
\* observer that is registered again hears the same.
AudioManagerLoadAdapter(a) ==
    /\ ~adapter[a].loaded
    /\ adapter' = [adapter EXCEPT ![a] = [NoAdapter EXCEPT !.loaded = TRUE]]
    /\ host' = [host EXCEPT !.proxy = TRUE]
    /\ UNCHANGED <<render, playState, strayed>>

\* The streams of the adapter are not looked at.
AudioManagerUnloadAdapter(a) ==
    /\ adapter[a].loaded
    /\ adapter' = [adapter EXCEPT ![a] = NoAdapter]
    /\ render' = [r \in Renders |-> IF render[r].by = a THEN [render[r] EXCEPT !.by = Nowhere] ELSE render[r]]
    /\ UNCHANGED <<playState, host, strayed>>

\* Mutant: the flag is not looked at.
CreateAgain(a, r) ==
    /\ adapter[a].loaded /\ ~render[r].made
    /\ adapter' = [adapter EXCEPT ![a].adapterMgrRenderFlag = 1]
    /\ render' = [render EXCEPT ![r] = [NoRender EXCEPT !.made = TRUE, !.by = a]]
    /\ UNCHANGED <<playState, host, strayed>>

\* AudioAdapterCreateRender, with AudioAdapterCreateRenderPre and InitHwRenderParam:
\* one stream of an adapter at a time.
AudioAdapterCreateRender(a, r) ==
    /\ adapter[a].loaded /\ adapter[a].adapterMgrRenderFlag = 0
    /\ ~render[r].made
    /\ adapter' = [adapter EXCEPT ![a].adapterMgrRenderFlag = @ + 1]
    /\ render' = [render EXCEPT ![r] = [NoRender EXCEPT !.made = TRUE, !.by = a]]
    /\ UNCHANGED <<playState, host, strayed>>

\* A stream is silenced by what another one asks for.
Playing(r) == render[r].buffer /\ ~render[r].pause
Silenced(r) == IF \E q \in Renders \ {r} : Playing(q) THEN {"shared"} ELSE {}

\* The adapter that the stream is destroyed with need not be the one that made it.
AudioAdapterDestroyRender(a, r) ==
    /\ adapter[a].loaded /\ render[r].made
    /\ adapter' = [adapter EXCEPT ![a].adapterMgrRenderFlag = IF @ > 0 THEN @ - 1 ELSE @]
    /\ LET astray == IF \/ render[r].by = a
                        \/ render[r].by = Nowhere /\ adapter[a].adapterMgrRenderFlag = 0
                     THEN {} ELSE {"other adapter"}
       IN  IF render[r].buffer
           THEN AskTo("stop", FALSE) /\ strayed' = Strays(Silenced(r) \cup astray)
           ELSE strayed' = strayed \cup astray /\ UNCHANGED host
    /\ render' = [render EXCEPT ![r] = NoRender]
    /\ UNCHANGED playState

------------------------------------------------------------------------------
(***************************************************************************)
(* audio_render.cpp                                                        *)
(***************************************************************************)
\* AudioRenderStart: the host is asked before the buffer is there.
AudioRenderStart(r) ==
    /\ render[r].made /\ ~render[r].buffer
    /\ AskTo("start", TRUE)
    /\ \/ /\ render' = [render EXCEPT ![r].buffer = TRUE]
          /\ strayed' = Strays({})
       \/ /\ strayed' = Strays({"no buffer"})
          /\ UNCHANGED render
    /\ UNCHANGED <<adapter, playState>>

\* As AudioRenderStop, leaving the stream paused.
StopKeepsPause(r) ==
    /\ render[r].made /\ render[r].buffer
    /\ AskTo("stop", FALSE)
    /\ render' = [render EXCEPT ![r].buffer = FALSE]
    /\ strayed' = Strays(Silenced(r))
    /\ UNCHANGED <<adapter, playState>>

\* AudioRenderStop, and AudioRenderTurnStandbyMode, which calls it.
AudioRenderStop(r) ==
    /\ render[r].made /\ render[r].buffer
    /\ AskTo("stop", FALSE)
    /\ render' = [render EXCEPT ![r].buffer = FALSE, ![r].pause = FALSE]
    /\ strayed' = Strays(Silenced(r))
    /\ UNCHANGED <<adapter, playState>>

AudioRenderPause(r) ==
    /\ render[r].made /\ render[r].buffer /\ ~render[r].pause
    /\ AskTo("suspend", FALSE)
    /\ render' = [render EXCEPT ![r].pause = TRUE]
    /\ strayed' = Strays(Silenced(r))
    /\ UNCHANGED <<adapter, playState>>

AudioRenderResume(r) ==
    /\ render[r].made /\ render[r].pause
    /\ AskTo("start", TRUE)
    /\ render' = [render EXCEPT ![r].pause = FALSE]
    /\ strayed' = Strays({})
    /\ UNCHANGED <<adapter, playState>>

BtNext ==
    \/ HostTakesUp \/ AudioOnPlayingStatusChanged
    \/ \E a \in Adapters :
        \/ AudioManagerLoadAdapter(a) \/ AudioManagerUnloadAdapter(a)
        \/ \E r \in Renders : AudioAdapterCreateRender(a, r) \/ AudioAdapterDestroyRender(a, r)
    \/ \E r \in Renders :
        \/ AudioRenderStart(r) \/ AudioRenderStop(r) \/ AudioRenderPause(r) \/ AudioRenderResume(r)

BtSpec == BtInit /\ [][BtNext]_btVars

------------------------------------------------------------------------------
\* When the host has done and notified all it was asked, it plays exactly while some
\* stream has been started and is not paused: unless, since the last call that found
\* the host settled, it refused or a call went by a g_playState that was behind it, or
\* that call was a start that got no buffer, or ended one stream while another played.
HostPlaysTheStreams ==
    Settled /\ strayed \ {"other adapter"} = {} =>
        host.playing = (\E r \in Renders : Playing(r)) /\ playState = host.playing

\* A loaded adapter has at most one stream, which its flag counts, as long as streams
\* are destroyed with the adapter that made them, or with one that has no stream once
\* that has been unloaded; and no stream is left paused that is not started.
OneStreamEach ==
    /\ "other adapter" \notin strayed =>
        \A a \in Adapters : adapter[a].loaded =>
            Cardinality({r \in Renders : render[r].by = a}) = adapter[a].adapterMgrRenderFlag
    /\ \A r \in Renders : render[r].pause => render[r].buffer
=============================================================================
