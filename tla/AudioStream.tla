---------------------------- MODULE AudioStream ----------------------------
(***************************************************************************)
(* One audio stream of the passthrough HAL, a render (audio_render.c) or a *)
(* capture (audio_capture.c): what the HAL records of the stream in its    *)
(* AudioHwRender or AudioHwCapture, and what the driver behind the         *)
(* interface library has accepted.  Every library call may fail.  The two  *)
(* files are twins; what both do is written once and named for each.       *)
(***************************************************************************)
EXTENDS Integers, FiniteSets

CONSTANTS
    Stream,             \* "render" or "capture"
    Rates,              \* sample rates CheckAttrSamplingRate accepts
    Scenes,             \* scenes that path selection knows
    Periods,            \* frames one RenderFrame or CaptureFrame moves
    ERROR_LOG_MAX_NUM,  \* entries of the error log
    SEC_TO_NSEC,        \* clock units of a second
    MaxMoves,           \* bound on the frames moved since the driver's position was read
    MaxErrors,          \* bound on the logged errors
    MaxMaps             \* bound on the shared mappings

VARIABLES
    hal,    \* the HAL's record of the stream
    drv,    \* the driver's state, as the accepted commands left it
    told,   \* did the last Start or Stop report success?
    ghost   \* what the caller was told, for the properties below

vars == <<hal, drv, told, ghost>>

\* The controls set with a driver write that is undone in the HAL on failure.
Controls == {"mute", "volume", "gain", "mode"}
Values == 1..2
Initial == [c \in Controls |-> 1]
FirstRate == CHOOSE r \in Rates : \A s \in Rates : r <= s

Init ==
    /\ hal = [buffer |-> FALSE, pause |-> FALSE, ctl |-> Initial, rate |-> FirstRate,
              scene |-> "none", pins |-> "bound", standby |-> "LATER",
              frames |-> 0, sec |-> 0, nsec |-> 0,
              iter |-> 0, filled |-> {}, mapped |-> 0]
    /\ drv = [running |-> FALSE, pause |-> FALSE, ctl |-> Initial, rate |-> FirstRate,
              scene |-> "none", torn |-> FALSE]
    /\ told = TRUE
    /\ ghost = [frames |-> 0, moves |-> 0, steady |-> TRUE, asked |-> FALSE,
                granted |-> 0, errors |-> 0]

------------------------------------------------------------------------------
(***************************************************************************)
(* Starting and stopping.  The frame buffer is the HAL's mark of a started *)
(* stream.                                                                 *)
(***************************************************************************)
\* Mutant: the buffer is allocated, and kept, before the driver is told.
StartBuffersFirst ==
    /\ ~hal.buffer
    /\ hal' = [hal EXCEPT !.buffer = TRUE]
    /\ \E ok \in BOOLEAN : drv' = [drv EXCEPT !.running = @ \/ ok] /\ told' = ok
    /\ UNCHANGED ghost

\* A started stream is busy; the driver runs before the buffer is allocated,
\* and is left running when the allocation fails.
Start ==
    /\ ~hal.buffer
    /\ \E ok, memory \in BOOLEAN :
        /\ drv' = [drv EXCEPT !.running = @ \/ ok]
        /\ hal' = [hal EXCEPT !.buffer = ok /\ memory]
        /\ told' = (ok /\ memory)
    /\ UNCHANGED ghost

AudioRenderStart == Start
AudioCaptureStart == Start

\* Mutant: the standby request survives the stop that carried it out.
StopKeepsStandby ==
    /\ hal.buffer
    /\ \E ok \in BOOLEAN :
        /\ hal' = [hal EXCEPT !.buffer = FALSE]
        /\ drv' = [drv EXCEPT !.running = ~ok]
        /\ told' = ok
    /\ ghost' = [ghost EXCEPT !.asked = FALSE]

\* The buffer goes first, then the driver is told; the standby request has
\* been passed on once the driver call is made, whether it succeeds or not.
AudioRenderStop ==
    /\ hal.buffer
    /\ \E library, ok \in BOOLEAN :
        /\ ok => library
        /\ hal' = [hal EXCEPT !.buffer = FALSE,
                              !.standby = IF library THEN "LATER" ELSE @]
        /\ drv' = [drv EXCEPT !.running = ~ok]
        /\ told' = ok
        /\ ghost' = [ghost EXCEPT !.asked = @ /\ ~library]

AudioCaptureStop ==
    /\ hal.buffer
    /\ \E ok \in BOOLEAN :
        /\ hal' = [hal EXCEPT !.buffer = FALSE]
        /\ drv' = [drv EXCEPT !.running = ~ok]
        /\ told' = ok
    /\ UNCHANGED ghost

\* Standby is a stop that turns the device off at once.  On a stream that is
\* not started the stop returns early and the request stays.
AudioRenderTurnStandbyMode ==
    \/ /\ ~hal.buffer
       /\ hal' = [hal EXCEPT !.standby = "NOW"]
       /\ ghost' = [ghost EXCEPT !.asked = TRUE]
       /\ UNCHANGED <<drv, told>>
    \/ /\ hal.buffer
       /\ \E library, ok \in BOOLEAN :
            /\ ok => library
            /\ hal' = [hal EXCEPT !.buffer = FALSE,
                                  !.standby = IF library THEN "LATER" ELSE "NOW"]
            /\ drv' = [drv EXCEPT !.running = ~ok]
            /\ told' = ok
            /\ ghost' = [ghost EXCEPT !.asked = ~library]

AudioCaptureTurnStandbyMode ==
    \/ /\ ~hal.buffer
       /\ hal' = [hal EXCEPT !.pins = "PIN_NONE"]
       /\ UNCHANGED <<drv, told, ghost>>
    \/ /\ hal.buffer
       /\ \E ok \in BOOLEAN :
            /\ hal' = [hal EXCEPT !.buffer = FALSE, !.pins = "PIN_NONE"]
            /\ drv' = [drv EXCEPT !.running = ~ok]
            /\ told' = ok
       /\ UNCHANGED ghost

Pausing(to) ==
    /\ \E ok \in BOOLEAN :
        /\ hal' = [hal EXCEPT !.pause = IF ok THEN to ELSE @]
        /\ drv' = [drv EXCEPT !.pause = IF ok THEN to ELSE @]
    /\ UNCHANGED <<told, ghost>>

AudioRenderPause == hal.buffer /\ ~hal.pause /\ Pausing(TRUE)
AudioCapturePause == hal.buffer /\ ~hal.pause /\ Pausing(TRUE)

\* Resuming asks for a paused stream only, not for a started one.
AudioRenderResume == hal.pause /\ Pausing(FALSE)
AudioCaptureResume == hal.pause /\ Pausing(FALSE)

------------------------------------------------------------------------------
(***************************************************************************)
(* Controls: recorded, written to the driver, taken back on failure.       *)
(***************************************************************************)
\* Mutant: a failed write leaves the new value in the HAL.
WriteKept(c, v) ==
    /\ hal' = [hal EXCEPT !.ctl[c] = v]
    /\ \E ok \in BOOLEAN : drv' = [drv EXCEPT !.ctl[c] = IF ok THEN v ELSE @]
    /\ UNCHANGED <<told, ghost>>

Write(c, v) ==
    /\ \E ok \in BOOLEAN :
        /\ hal' = [hal EXCEPT !.ctl[c] = IF ok THEN v ELSE @]
        /\ drv' = [drv EXCEPT !.ctl[c] = IF ok THEN v ELSE @]
    /\ UNCHANGED <<told, ghost>>

Read(c) ==
    /\ \E ok \in BOOLEAN : hal' = [hal EXCEPT !.ctl[c] = IF ok THEN drv.ctl[c] ELSE @]
    /\ UNCHANGED <<drv, told, ghost>>

\* A volume of zero is set as the smallest audible one.
Level(percent) == IF percent = 0 THEN 1 ELSE percent

AudioRenderSetMute == \E v \in Values : Write("mute", v)
AudioRenderGetMute == Read("mute")
AudioRenderSetVolume == \E v \in 0..2 : Write("volume", Level(v))
AudioRenderGetVolume == Read("volume")
AudioRenderSetGain == \E v \in Values : Write("gain", v)
AudioRenderGetGain == Read("gain")
AudioRenderSetChannelMode == \E v \in Values : Write("mode", v)
AudioRenderGetChannelMode == Read("mode")

AudioCaptureSetMute == \E v \in Values : Write("mute", v)
AudioCaptureGetMute == Read("mute")
AudioCaptureSetVolume == \E v \in 0..2 : Write("volume", Level(v))
AudioCaptureGetVolume == Read("volume")
AudioCaptureSetGain == \E v \in Values : Write("gain", v)
AudioCaptureGetGain == Read("gain")

SetSampleAttributes ==
    /\ \E r \in Rates, ok \in BOOLEAN :
        /\ hal' = [hal EXCEPT !.rate = IF ok THEN r ELSE @]
        /\ drv' = [drv EXCEPT !.rate = IF ok THEN r ELSE @]
        /\ ghost' = [ghost EXCEPT !.steady = @ /\ (ok => r = hal.rate)]
    /\ UNCHANGED told

AudioRenderSetSampleAttributes == SetSampleAttributes
AudioCaptureSetSampleAttributes == SetSampleAttributes

\* The extra parameters change the HAL's record only; the driver is not told.
SetExtraParams ==
    /\ \/ \E r \in Rates :
            /\ hal' = [hal EXCEPT !.rate = r]
            /\ ghost' = [ghost EXCEPT !.steady = @ /\ r = hal.rate]
       \/ /\ hal' = [hal EXCEPT !.frames = 0]
          /\ ghost' = [ghost EXCEPT !.frames = 0, !.steady = FALSE]
    /\ UNCHANGED <<drv, told>>

AudioRenderSetExtraParams == SetExtraParams
AudioCaptureSetExtraParams == SetExtraParams

\* A scene is one driver write per switch of the path: a failure half way
\* leaves the driver between two scenes and the HAL at the old one.
SelectScene ==
    /\ \E s \in Scenes, done \in {"all", "some", "none"} :
        /\ hal' = IF done = "all" THEN [hal EXCEPT !.scene = s, !.pins = "bound"] ELSE hal
        /\ drv' = CASE done = "all" -> [drv EXCEPT !.scene = s, !.torn = FALSE]
                    [] done = "some" -> [drv EXCEPT !.torn = TRUE]
                    [] OTHER -> drv
    /\ UNCHANGED <<told, ghost>>

AudioRenderSelectScene == SelectScene
AudioCaptureSelectScene == SelectScene

------------------------------------------------------------------------------
(***************************************************************************)
(* Frames, the position and its time, and the error log.                   *)
(***************************************************************************)
\* Mutant: the carry into the seconds is left out.
TimeUncarried(h, frames) ==
    [h EXCEPT !.sec = @ + frames \div h.rate,
              !.nsec = @ + ((frames % h.rate) * SEC_TO_NSEC) \div h.rate]

TimeToAudioTimeStamp(h, frames) ==
    LET nsec == h.nsec + ((frames % h.rate) * SEC_TO_NSEC) \div h.rate
        carry == nsec >= SEC_TO_NSEC
    IN  [h EXCEPT !.sec = @ + frames \div h.rate + (IF carry THEN 1 ELSE 0),
                  !.nsec = IF carry THEN nsec - SEC_TO_NSEC ELSE nsec]

\* Mutant: the entry is counted before it is written.
LogCountsFirst(h, memory) ==
    LET at == IF h.iter >= ERROR_LOG_MAX_NUM THEN 0 ELSE h.iter
    IN  [h EXCEPT !.iter = at + 1, !.filled = IF memory THEN @ \cup {at} ELSE @]

\* A full log starts again at its first entry; an entry whose texts cannot be
\* allocated is not counted.
LogError(h, memory) ==
    LET at == IF h.iter >= ERROR_LOG_MAX_NUM THEN 0 ELSE h.iter
    IN  IF memory
        THEN [h EXCEPT !.iter = at + 1, !.filled = @ \cup {at}]
        ELSE [h EXCEPT !.iter = at]

LogErrorCapture(h, memory) == LogError(h, memory)

Moved(frames) ==
    /\ hal' = TimeToAudioTimeStamp([hal EXCEPT !.frames = @ + frames], frames)
    /\ ghost' = [ghost EXCEPT !.frames = @ + frames, !.moves = @ + 1]

Failed(log(_, _)) ==
    /\ ghost.errors < MaxErrors
    /\ \E memory \in BOOLEAN : hal' = log(hal, memory)
    /\ ghost' = [ghost EXCEPT !.errors = @ + 1]

\* Mutant: the position counts the frame before the driver took it.
FrameCountedFirst ==
    /\ hal.buffer
    /\ \E p \in Periods :
        /\ ghost.moves < MaxMoves
        /\ \/ Moved(p)
           \/ /\ hal' = TimeToAudioTimeStamp([hal EXCEPT !.frames = @ + p], p)
              /\ UNCHANGED ghost
    /\ UNCHANGED <<drv, told>>

AudioRenderRenderFrame ==
    /\ hal.buffer
    /\ \/ ghost.moves < MaxMoves /\ \E p \in Periods : Moved(p)
       \/ Failed(LogError)
    /\ UNCHANGED <<drv, told>>

\* A request smaller than what the driver delivered fails after the read:
\* those frames are gone and are not counted.
AudioCaptureCaptureFrame ==
    /\ hal.buffer
    /\ \/ ghost.moves < MaxMoves /\ \E p \in Periods : Moved(p)
       \/ Failed(LogErrorCapture)
       \/ UNCHANGED <<hal, ghost>>
    /\ UNCHANGED <<drv, told>>

\* The driver's own position replaces the count, and the time is its quotient.
GetMmapPosition ==
    /\ \E f \in {0} \cup Periods :
        /\ hal' = [hal EXCEPT !.frames = f, !.sec = f \div hal.rate,
                              !.nsec = ((f % hal.rate) * SEC_TO_NSEC) \div hal.rate]
        /\ ghost' = [ghost EXCEPT !.frames = f, !.moves = 1, !.steady = TRUE]
    /\ UNCHANGED <<drv, told>>

AudioRenderGetMmapPosition == GetMmapPosition
AudioCaptureGetMmapPosition == GetMmapPosition

\* Mutant: the mapping is not undone when the driver refuses it.
MapKept ==
    /\ hal.mapped < MaxMaps
    /\ hal' = [hal EXCEPT !.mapped = @ + 1]
    /\ \E ok \in BOOLEAN : ghost' = [ghost EXCEPT !.granted = IF ok THEN @ + 1 ELSE @]
    /\ UNCHANGED <<drv, told>>

\* The memory is mapped, then offered to the driver, and unmapped on failure.
ReqMmapBufferInit ==
    /\ hal.mapped < MaxMaps
    /\ \E ok \in BOOLEAN :
        /\ hal' = [hal EXCEPT !.mapped = IF ok THEN @ + 1 ELSE @]
        /\ ghost' = [ghost EXCEPT !.granted = IF ok THEN @ + 1 ELSE @]
    /\ UNCHANGED <<drv, told>>

AudioRenderReqMmapBufferInit == ReqMmapBufferInit
AudioCaptureReqMmapBufferInit == ReqMmapBufferInit

------------------------------------------------------------------------------
RenderNext ==
    \/ AudioRenderStart \/ AudioRenderStop \/ AudioRenderTurnStandbyMode
    \/ AudioRenderPause \/ AudioRenderResume
    \/ AudioRenderSetMute \/ AudioRenderGetMute
    \/ AudioRenderSetVolume \/ AudioRenderGetVolume
    \/ AudioRenderSetGain \/ AudioRenderGetGain
    \/ AudioRenderSetChannelMode \/ AudioRenderGetChannelMode
    \/ AudioRenderSetSampleAttributes \/ AudioRenderSetExtraParams
    \/ AudioRenderSelectScene \/ AudioRenderRenderFrame
    \/ AudioRenderGetMmapPosition \/ AudioRenderReqMmapBufferInit

CaptureNext ==
    \/ AudioCaptureStart \/ AudioCaptureStop \/ AudioCaptureTurnStandbyMode
    \/ AudioCapturePause \/ AudioCaptureResume
    \/ AudioCaptureSetMute \/ AudioCaptureGetMute
    \/ AudioCaptureSetVolume \/ AudioCaptureGetVolume
    \/ AudioCaptureSetGain \/ AudioCaptureGetGain
    \/ AudioCaptureSetSampleAttributes \/ AudioCaptureSetExtraParams
    \/ AudioCaptureSelectScene \/ AudioCaptureCaptureFrame
    \/ AudioCaptureGetMmapPosition \/ AudioCaptureReqMmapBufferInit

Next == (Stream = "render" /\ RenderNext) \/ (Stream = "capture" /\ CaptureNext)

Spec == Init /\ [][Next]_vars

\* How many of its features, but for being started, the stream has away from where it
\* began.
Away ==
    Cardinality({c \in Controls : hal.ctl[c] # 1 \/ drv.ctl[c] # 1}
        \cup {f \in {"paused", "rate", "scene", "standby", "frames", "errors", "maps"} :
            CASE f = "paused" -> hal.pause \/ drv.pause
              [] f = "rate" -> hal.rate # FirstRate \/ drv.rate # FirstRate
              [] f = "scene" -> hal.scene # "none" \/ drv.torn
              [] f = "standby" -> hal.standby # "LATER" \/ hal.pins # "bound"
              [] f = "frames" -> ghost.moves # 0
              [] f = "errors" -> ghost.errors # 0
              [] f = "maps" -> hal.mapped # 0})

------------------------------------------------------------------------------
\* Whatever calls fail, the HAL's record of the mute, volume, gain, channel
\* mode and pause is what the driver accepted last; so is the scene unless a
\* selection failed half way through its switches.
InStep ==
    /\ hal.ctl = drv.ctl
    /\ hal.pause = drv.pause
    /\ drv.torn \/ hal.scene = drv.scene

\* A stream the HAL holds for started has a running driver, and when the last
\* Start or Stop reported success the driver runs only for a started stream.
RunsAsTold ==
    /\ hal.buffer => drv.running
    /\ told => (drv.running = hal.buffer)

\* A stop turns the device to standby at once only if TurnStandbyMode asked
\* for it since the driver was last told to stop.
StandbyAsAsked == hal.standby = "NOW" => ghost.asked

\* The position is the number of frames moved for the caller, and while the
\* sample rate stays the time is that position's, short of it by less than a
\* clock unit for each frame moved and never ahead.
PositionIsTrue ==
    LET time == hal.sec * SEC_TO_NSEC + hal.nsec
        exact == hal.frames * SEC_TO_NSEC
    IN  /\ hal.frames = ghost.frames
        /\ hal.nsec \in 0..(SEC_TO_NSEC - 1)
        /\ ghost.steady => /\ time * hal.rate <= exact
                           /\ (time + ghost.moves) * hal.rate >= exact

\* The entries AudioDevDump prints, those below iter, have their texts.
DumpIsFilled == hal.iter <= ERROR_LOG_MAX_NUM /\ 0..(hal.iter - 1) \subseteq hal.filled

\* The memory left mapped is what the caller was granted.
MapsAreGranted == hal.mapped = ghost.granted
=============================================================================
