--------------------------- MODULE MCCodecMirror ----------------------------
(***************************************************************************)
(* Instances of CodecMirror for TLC.  The gain pairs and their prediction  *)
(* errors are real: <<7, 11>> has the largest error and a pitch gain that  *)
(* taming clamps, <<0, 1>> the smallest error, below the cold one, and a   *)
(* pitch gain below the range of beta.  An excitation history is a digest  *)
(* in 0..4 in which different gains, shapes and betas leave different      *)
(* traces.                                                                 *)
(***************************************************************************)
EXTENDS CodecMirror

MCGains == {<<7, 11>>, <<0, 1>>}

MCLoudest == {<<7, 11>>}

MCPredictionError ==
  [g \in (0..7) \X (0..15) |-> CASE g = <<7, 11>> -> 14418
                                 [] g = <<0, 1>> -> -15006
                                 [] OTHER -> 0]

MCMeanLessEnergy(s, b) == 16 * (30720 - 1000 * s) + b

MCEnergyQ10(s, b) == 1000 * s - b \div 16

MCLinearGain(l, g) == (l + PredictionError[g]) \div 2

MCExcitation(e, s, b, gp, gc) == (2 * e + s + b + gp + gc) % 5

\* Two gains, both beyond the bounds, and the smallest digest that still tells
\* different gains, shapes and betas apart, for the run with upsets.
MCCoarseGain(l, g) == IF l > 34000 THEN 40001 ELSE -5

MCCoarseExcitation(e, s, b, gp, gc) == (e + s + b + gp \div 100 + gc) % 2

\* Reaches the largest fixed gain.
MCLoudGain(l, g) == l + PredictionError[g]

MCScaled(e) == e \div 2

MCLoud(e) == e = 1

\* Energy never above the threshold, so that a gain is never tamed.
Quiet(e) == FALSE
=============================================================================
