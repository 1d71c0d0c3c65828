----------------------------- MODULE FrameStream -----------------------------
(***************************************************************************)
(* What the streaming half of the Encoder promises to the caller that      *)
(* feeds it PCM and to the sink that receives the frames, without saying   *)
(* how: the accepted samples reach the sink in order, each exactly once,   *)
(* cut every FrameSamples samples; a shorter last frame appears only where *)
(* the caller asked for one, and is completed with silence.                *)
(*                                                                         *)
(* A sample is the position it has in the caller's stream, counted from 1; *)
(* 0 is the silence that pads a short frame.                               *)
(***************************************************************************)
EXTENDS Integers, Sequences

CONSTANT FrameSamples      \* samples in a frame (80 in the code)

VARIABLES
  frames,     \* the frames the sink accepted since the stream began
  delivered,  \* how many samples of the stream those frames carry
  held        \* how many further samples were accepted and wait for a frame

\* The frame that carries samples a+1..b, completed with silence.
Segment(a, b) ==
  [i \in 1..FrameSamples |-> IF a + i <= b THEN a + i ELSE 0]

Init ==
  /\ frames = << >>
  /\ delivered = 0
  /\ held = 0

\* Samples are accepted, and not enough of them wait to fill a frame.
Hold(k) ==
  /\ held + k < FrameSamples
  /\ held' = held + k
  /\ UNCHANGED <<frames, delivered>>

\* A frame is complete: what was held goes out with the samples that fill it.
Emit ==
  /\ frames' = Append(frames, Segment(delivered, delivered + FrameSamples))
  /\ delivered' = delivered + FrameSamples
  /\ held' = 0

\* The caller drains the tail: what is held goes out, padded.
Drain ==
  /\ held > 0
  /\ frames' = Append(frames, Segment(delivered, delivered + held))
  /\ delivered' = delivered + held
  /\ held' = 0

\* The stream begins again; what was held is dropped.
Restart ==
  /\ frames' = << >>
  /\ delivered' = 0
  /\ held' = 0

Next ==
  \/ \E k \in 1..FrameSamples : Hold(k)
  \/ Emit
  \/ Drain
  \/ Restart

vars == <<frames, delivered, held>>

Spec == Init /\ [][Next]_vars
=============================================================================
