-------------------------- MODULE MCCaptureReport --------------------------
(***************************************************************************)
(* An instance of CaptureReport for TLC.                                   *)
(***************************************************************************)
EXTENDS CaptureReport

CONSTANT r1

\* Two frames of a continuous capture: they share a semaphore.
ContinuousFrames == <<r1, r1>>

\* Bound: once the streams have gone astray no further wait ends unnotified.
OneWakeUp == astray => \A s \in Streams : ~WakeUp(s)
=============================================================================
