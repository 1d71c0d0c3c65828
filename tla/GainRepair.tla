----------------------------- MODULE GainRepair ----------------------------
(***************************************************************************)
(* The decoder-in-loop choices of a subframe: qualityRerankFCBPositions    *)
(* and qualityRepairGainClip in encoder.go, their scores, and the policies *)
(* of the profiles that use them.                                          *)
(*                                                                         *)
(* The encoder keeps a copy of the receiver.  Some profiles play the best  *)
(* few pulse positions through it, each with the gains searched for it,    *)
(* and keep the one that sounds best.  Before the encoder commits a pair   *)
(* of gain indices it plays the subframe through that copy, and if what    *)
(* comes out is near full scale, or, in most quality profiles, always, it  *)
(* plays every other pair too, keeps the one it likes best, and makes the  *)
(* copy that played it the next subframe's.                                *)
(*                                                                         *)
(* What the receiver plays for a pair is an input: any of a few output     *)
(* sequences.  Samples are scaled: Full stands for 32767, the thresholds   *)
(* for 32300, 28000 and less.  The copy of the receiver is the sequence of *)
(* pairs it has decoded; CodecMirror models what it computes from them.    *)
(***************************************************************************)
EXTENDS Integers, Sequences

CONSTANTS
  PairTable,     \* the pairs in the order of the loops: [gp, gamma] of each
  Reference,     \* the input speech of a subframe
  Outputs,       \* what the receiver may play for a pair
  Rivals,        \* what SearchTopK may list: pulses, each with [start, outs]
  GainCeilings,  \* the gains the taming of a subframe may allow
  Policies,      \* profile |-> thresholds, tolerances and preference
  Full,          \* full scale
  MaxSubframes   \* bound of the model: subframes coded

Pairs == DOMAIN PairTable

\* Samples are integers, a sequence of them as long as the reference; rivals are
\* pulses with the pair the gain search starts from.
\* A policy: the thresholds of clip and MSE repair (0: it has no MSE repair);
\* the tolerances highNum/highDen and mseNum/mseDen; a preference and the
\* tolerances of a rerank of pulses, each a set of at most one record.
ASSUME RepairAssumption ==
  /\ Full \in Nat /\ MaxSubframes \in Nat
  /\ PairTable \in Seq([gp : Nat, gamma : Nat])
  /\ Reference \in Seq(Int) /\ Len(Reference) > 1
  /\ Outputs \subseteq Seq(Int) /\ \A o \in Outputs : Len(o) = Len(Reference)
  /\ Rivals \subseteq Seq([start : Pairs, outs : [Pairs -> Outputs]])
  /\ \A p \in DOMAIN Policies :
       /\ Policies[p].clip \in 1 .. Full
       /\ Policies[p].mse \in 0 .. Policies[p].clip

VARIABLES
  policy,       \* the profile's policy
  sentPairs,    \* pairs put on the wire, which the receiver decodes
  copy,         \* pairs decoded by the encoder's copy of the receiver
  commit,       \* the gains the encoder commits to its own state
  subject       \* the last subframe: what could be played, and what was chosen

repairVars == <<policy, sentPairs, copy, commit, subject>>

-----------------------------------------------------------------------------
(* Scores. *)

Abs(v) == IF v < 0 THEN -v ELSE v

Total(f(_), from, to) ==
  LET sum[n \in from - 1 .. to] == IF n < from THEN 0 ELSE sum[n - 1] + f(n)
  IN  sum[to]

\* scoreEncoderQualityOutput: samples at full scale and near it, the mean
\* squared error, and that of the error's first difference.
Score(out, threshold) ==
  LET n == Len(out)
      count(level) == Total(LAMBDA i : IF Abs(out[i]) >= level THEN 1 ELSE 0, 1, n)
      diff(i) == out[i] - Reference[i]
  IN  [hard |-> count(Full),
       near |-> count(threshold),
       mse  |-> Total(LAMBDA i : diff(i) * diff(i), 1, n) \div n,
       high |-> Total(LAMBDA i : (diff(i) - diff(i - 1)) * (diff(i) - diff(i - 1)),
                      2, n) \div (n - 1)]

Clean(s) == s.hard = 0 /\ s.near = 0

\* encoderQualityOutputScoreLess.
ClipLess(a, b) ==
  \/ a.hard < b.hard
  \/ a.hard = b.hard /\ a.near < b.near
  \/ a.hard = b.hard /\ a.near = b.near /\ a.mse < b.mse
  \/ a.hard = b.hard /\ a.near = b.near /\ a.mse = b.mse /\ a.high < b.high

\* encoderQualityMSERepairScoreLess, as every profile calls it: one measure is
\* lower and the other not above a tolerance.
NoiseLess(a, b) ==
  \/ a.high < b.high /\ a.mse * policy.highDen <= b.mse * policy.highNum
  \/ a.mse < b.mse /\ a.high * policy.mseDen <= b.high * policy.mseNum

\* The preference of some profiles for more adaptive and less fixed gain.
Preferred(a, b, gains, bestGains) ==
  \E p \in policy.preference :
    /\ gains.gp >= p.minGp
    /\ gains.gp >= bestGains.gp + p.minStep
    /\ gains.gamma + p.gammaDrop <= bestGains.gamma
    /\ a.mse * p.den <= b.mse * p.mseNum
    /\ a.high * p.den <= b.high * p.highNum

\* Mutant: a candidate near full scale may be taken for its error.
BetterForNoiseOnly(mseRepair, a, b, gains, bestGains) ==
  IF ~mseRepair THEN ClipLess(a, b)
  ELSE ~Clean(b) \/ NoiseLess(a, b) \/ Preferred(a, b, gains, bestGains)

Better(mseRepair, a, b, gains, bestGains) ==
  IF ~mseRepair THEN ClipLess(a, b)
  ELSE /\ Clean(a)
       /\ ~Clean(b) \/ NoiseLess(a, b) \/ Preferred(a, b, gains, bestGains)

-----------------------------------------------------------------------------
(* The pulses. *)

\* encoderQualityFCBRerankScoreLess: like the repair of the error, but a
\* difference in clipping decides first.
RerankLess(t, a, b) ==
  \/ a.hard < b.hard
  \/ a.hard = b.hard /\ a.near < b.near
  \/ /\ a.hard = b.hard /\ a.near = b.near
     /\ \/ a.high < b.high /\ a.mse * t.highDen <= b.mse * t.highNum
        \/ a.mse < b.mse /\ a.high * t.mseDen <= b.high * t.mseNum

\* What the pulses play with the gains searched for them.
Found(pulses) == Score(pulses.outs[pulses.start], policy.clip)

\* qualityRerankFCBPositions: from the pulses found through the list of SearchTopK.
Reranked(found, rivals) ==
  LET best[k \in 0 .. Len(rivals)] ==
        IF k = 0 THEN found
        ELSE LET b == best[k - 1]
             IN  IF \E t \in policy.rerank : RerankLess(t, Found(rivals[k]), Found(b))
                 THEN rivals[k] ELSE b
  IN  best[Len(rivals)]

-----------------------------------------------------------------------------
(* The repair. *)

\* What the encoder would commit for a pair, tamed.
Gains(pair, ceiling) ==
  LET raw == PairTable[pair].gp
  IN  [gp |-> IF raw > ceiling THEN ceiling ELSE raw,
       gamma |-> PairTable[pair].gamma,
       taming |-> raw > ceiling]

\* Mutant: the copy stays the one that played the first pair.
TakenPairOnly(best, pair, score, gains) ==
  [pair |-> pair, score |-> score, gains |-> gains,
   copy |-> IF best = <<>> THEN Append(copy, pair) ELSE best.copy]

\* Everything kept of a better candidate: its pair, its score, its gains and
\* the copy of the receiver that played it.
Taken(best, pair, score, gains) ==
  [pair |-> pair, score |-> score, gains |-> gains, copy |-> Append(copy, pair)]

\* The loops: from the pair found by the gain search through every pair.
Repaired(start, outs, ceiling) ==
  LET played(pair, threshold) == Score(outs[pair], threshold)
      clipping == played(start, policy.clip).near > 0
      mseRepair == ~clipping /\ policy.mse > 0
      threshold == IF mseRepair THEN policy.mse ELSE policy.clip
      first == Taken(<<>>, start, played(start, threshold), Gains(start, ceiling))
      best[k \in 0 .. Len(PairTable)] ==
        IF k = 0 THEN first
        ELSE LET b == best[k - 1]
                 score == played(k, threshold)
                 gains == Gains(k, ceiling)
             IN  IF Better(mseRepair, score, b.score, gains, b.gains)
                 THEN Taken(b, k, score, gains) ELSE b
  IN  IF clipping \/ mseRepair THEN best[Len(PairTable)] ELSE first


RepairInit ==
  /\ policy \in {Policies[p] : p \in DOMAIN Policies}
  /\ sentPairs = <<>>
  /\ copy = <<>>
  /\ commit = [gp |-> 0, gamma |-> 0, taming |-> FALSE]
  /\ subject = <<>>

\* fcbStep from the pulses found to the fields packed and the gains kept.
CodeGains(found, rivals, ceiling) ==
  /\ Len(sentPairs) < MaxSubframes
  /\ LET pulses == Reranked(found, rivals)
         r == Repaired(pulses.start, pulses.outs, ceiling)
     IN  /\ sentPairs' = Append(sentPairs, r.pair)
         /\ copy' = r.copy
         /\ commit' = r.gains
         /\ subject' = <<[found |-> found, start |-> pulses.start,
                          outs |-> pulses.outs, ceiling |-> ceiling,
                          pair |-> r.pair]>>
  /\ UNCHANGED policy

RepairNext ==
  \E found \in [start : Pairs, outs : [Pairs -> Outputs]], ceiling \in GainCeilings,
     rivals \in IF policy.rerank = {} THEN {<<>>} ELSE Rivals :
    CodeGains(found, rivals, ceiling)

RepairSpec == RepairInit /\ [][RepairNext]_repairVars

-----------------------------------------------------------------------------
(* Properties. *)

\* What is committed never plays more samples at full scale than the pulses and
\* the pair that the searches found, nor, with as many of those, more samples near
\* it; if that stayed below the clip threshold, so does it, whatever rerank and
\* repair preferred; and a subframe is repaired whenever any pair leaves headroom,
\* by the threshold of the repair set off (encoder.go 1797-1908 and 1971-2097).
RepairNeverClipsMore ==
  subject # <<>> =>
    LET u == subject[1]
        before == Found(u.found)
        after == Score(u.outs[u.pair], policy.clip)
        clipping == Score(u.outs[u.start], policy.clip).near > 0
        threshold == IF clipping \/ policy.mse = 0 THEN policy.clip ELSE policy.mse
    IN  /\ after.hard <= before.hard
        /\ after.hard = before.hard => after.near <= before.near
        /\ before.near = 0 => Clean(after)
        /\ (\E p \in Pairs : Clean(Score(u.outs[p], threshold)))
             => Clean(Score(u.outs[u.pair], threshold))

\* Whichever pair wins, the wire, the encoder's copy of the receiver and the
\* gains it commits, tamed as for that pair, are all of that one pair.
RepairCommitsOnePair ==
  /\ copy = sentPairs
  /\ subject # <<>> =>
       /\ sentPairs[Len(sentPairs)] = subject[1].pair
       /\ commit = Gains(subject[1].pair, subject[1].ceiling)
=============================================================================
