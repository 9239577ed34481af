--------------------------- MODULE MCCameraStream ---------------------------
(***************************************************************************)
(* Instances of CameraStream for TLC.                                      *)
(***************************************************************************)
EXTENDS CameraStream, TLC

\* Buffers of one queue are interchangeable, and so are single captures.
StreamSymmetry == Permutations(Buffers) \cup Permutations(Requests \ Continuous)

\* Frames that overtake their request leave copies in the in-transit list, without bound.
CONSTANT MaxTransit

TransitBound == \A r \in Requests : transit[r] <= MaxTransit

\* What a property says of a running stream is settled once it is being stopped.
Running == state # "IDLE"

RunningBound == Running /\ TransitBound
=============================================================================
