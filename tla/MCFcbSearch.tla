---------------------------- MODULE MCFcbSearch ----------------------------
(***************************************************************************)
(* An instance of FcbSearch for TLC.  The second target is silence, the    *)
(* third repeats with the period of the tracks, so that prefixes tie; the  *)
(* last saturates a correlation at each end of the scaled 32 bits.         *)
(***************************************************************************)
EXTENDS FcbSearch, TLC

Signal(values) == [n \in 0 .. Len(values) - 1 |-> values[n + 1]]

Decaying == Signal(<<4, 3, -2, 1, 0, 0, 0, 0, 0, 0>>)
Alternating == Signal(<<4, -3, 0, 0, 0, 0, 0, 0, 0, 0>>)

MCInputs ==
  {[x |-> Signal(<<3, -2, 5, 1, -4, 2, 6, -1, 0, 2>>), h |-> Decaying,
    lag |-> 6, gp |-> 14000],
   [x |-> Signal(<<0, 0, 0, 0, 0, 0, 0, 0, 0, 0>>), h |-> Alternating,
    lag |-> 12, gp |-> 0],
   [x |-> Signal(<<0, 4, 0, 0, -3, 0, 4, 0, 0, -3>>), h |-> Alternating,
    lag |-> 7, gp |-> 9000],
   [x |-> Signal(<<-6, 1, 0, -2, 7, 6, 5, -4, 3, 2>>), h |-> Decaying,
    lag |-> 5, gp |-> 0],
   [x |-> Signal(<<-14, -14, -9, -4, 0, 3, 6, 9, 9, 9>>), h |-> Decaying,
    lag |-> 8, gp |-> 9000]}

MCFrameLimits == "core" :> 4 @@ "fast" :> 2
=============================================================================
