---------------------------- MODULE MCGainRepair ---------------------------
(***************************************************************************)
(* An instance of GainRepair for TLC: the policies are those of            *)
(* EncoderProfileCoreClipRepair, Quality, QualityCleanVoiced,              *)
(* QualityCleanHarmonicDeep and QualityPESQDegrit, scaled.                 *)
(***************************************************************************)
EXTENDS GainRepair, TLC

MCPairTable == <<[gp |-> 4, gamma |-> 9], [gp |-> 9, gamma |-> 5],
                 [gp |-> 12, gamma |-> 2]>>

MCReference == <<60, 80>>

MCOutputs == {<<60, 84>>, <<70, 78>>, <<86, 80>>, <<60, 99>>, <<-100, 100>>}

MCPolicies ==
  LET tolerances == [highNum |-> 105, highDen |-> 100, mseNum |-> 130, mseDen |-> 100]
      preference(minGp, minStep, gammaDrop, mseNum, highNum) ==
        {[minGp |-> minGp, minStep |-> minStep, gammaDrop |-> gammaDrop,
          mseNum |-> mseNum, highNum |-> highNum, den |-> 100]}
      of(clip, mse, preferences) ==
        tolerances @@ [clip |-> clip, mse |-> mse, preference |-> preferences,
                       rerank |-> {}]
      pulses == {[highNum |-> 112, highDen |-> 100, mseNum |-> 105, mseDen |-> 100]}
  IN  "CoreClipRepair" :> of(85, 0, {})
      @@ "Quality" :> of(98, 85, {})
      @@ "CleanVoiced" :> of(98, 79, preference(0, 2, -100, 108, 108))
      @@ "HarmonicDeep" :> of(98, 79, preference(8, 0, 3, 125, 122))
      @@ "PESQDegrit" :> [of(98, 85, {}) EXCEPT !.rerank = pulses]

\* Other pulses may play better or worse, and their gains may be repaired too.
MCRivals ==
  LET alike(o) == [start |-> 2, outs |-> [p \in Pairs |-> o]]
      mixed == [start |-> 1, outs |-> <<<<60, 99>>, <<70, 78>>, <<86, 80>>>>]
  IN  {<<alike(o)>> : o \in MCOutputs}
      \union {<<mixed, alike(o)>> : o \in MCOutputs} \union {<<mixed>>}
=============================================================================
