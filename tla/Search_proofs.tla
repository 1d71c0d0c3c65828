----------------------------- MODULE Search_proofs ----------------------------
(***************************************************************************)
(* The searches of the encoder, for every value of their parameters: the   *)
(* decoder-in-loop choices of a subframe never clip more than what they    *)
(* started from, and commit all of the pair they chose; the fixed codebook *)
(* shares its scan budget between the subframes of a frame, compares what  *)
(* the code vectors do, finds the best its budget reaches and ranks the    *)
(* rest, and what it finds reaches the receiver.                           *)
(*                                                                         *)
(* The loops are recursive functions.  That their values are what their    *)
(* equations say is shown with Recursion, on the set of the candidates     *)
(* they choose from; what a loop keeps is then shown by induction.         *)
(***************************************************************************)
EXTENDS GainRepair, FcbSearch, FiniteSetTheorems, Induction
LOCAL INSTANCE SequencesExt

-----------------------------------------------------------------------------
(* GainRepair: the scores.                                                 *)

\* Samples at a level or above.
Loud(out, level) == Total(LAMBDA i : IF Abs(out[i]) >= level THEN 1 ELSE 0, 1, Len(out))

\* A score counts the samples at the two levels.
LEMMA ScoreCounts ==
  ASSUME NEW out, NEW threshold
  PROVE  /\ Score(out, threshold).hard = Loud(out, Full)
         /\ Score(out, threshold).near = Loud(out, threshold)
  BY DEF Score, Loud

\* None is counted exactly if no sample reaches the level.
LEMMA LoudIs ==
  ASSUME NEW out \in Seq(Int), NEW level \in Nat
  PROVE  /\ Loud(out, level) \in Nat
         /\ Loud(out, level) = 0 <=> \A i \in 1 .. Len(out) : Abs(out[i]) < level
<1> DEFINE n == Len(out)
           one(i) == IF Abs(out[i]) >= level THEN 1 ELSE 0
           x == [i \in 1 .. n |-> one(i)]
           IsSum(f) == f = [i \in 1 - 1 .. n |-> IF i < 1 THEN 0 ELSE f[i - 1] + one(i)]
           g == CHOOSE f : IsSum(f)
<1>1. n \in Nat /\ \A i \in 1 .. n : Abs(out[i]) \in Int /\ one(i) \in {0, 1}
  BY DEF Abs
<1>2. x \in [1 .. n -> Int]
  BY <1>1
<1>3. PICK f \in [0 .. n -> Int] : f[0] = 0 /\ \A i \in 1 .. n : f[i] = f[i - 1] + x[i]
  <2> HIDE DEF x
  <2>1. QED
    BY <1>1, <1>2, Sums
<1>4. \A i \in 1 .. n : f[i] = f[i - 1] + one(i)
  BY <1>3
<1> HIDE DEF one, x
<1>5. IsSum(f)
  <2>1. \A i \in 0 .. n : f[i] = IF i < 1 THEN 0 ELSE f[i - 1] + one(i)
    BY <1>1, <1>3, <1>4
  <2>2. QED
    BY <1>3, <2>1
<1>6. IsSum(g)
  <2> HIDE DEF IsSum
  <2>1. QED
    BY <1>5
<1>7. Loud(out, level) = g[n]
  BY DEF Loud, Total, one
<1> HIDE DEF g
<1>8. g[0] = 0 /\ \A i \in 1 .. n : g[i] = g[i - 1] + one(i)
  <2>1. \A i \in 0 .. n : g[i] = IF i < 1 THEN 0 ELSE g[i - 1] + one(i)
    <3>1. 1 - 1 .. n = 0 .. n
      OBVIOUS
    <3>2. g = [i \in 1 - 1 .. n |-> IF i < 1 THEN 0 ELSE g[i - 1] + one(i)]
      BY <1>6
    <3>3. QED
      BY <3>1, <3>2
  <2>2. QED
    BY <1>1, <2>1
<1> DEFINE T == {k \in 0 .. n : /\ g[k] \in Nat
                                /\ g[k] = 0 <=> \A i \in 1 .. k : one(i) = 0}
<1>9. 0 \in T
  BY <1>1, <1>8
<1>10. ASSUME NEW k \in 1 .. n, k - 1 \in T PROVE k \in T
  <2>1. g[k] = g[k - 1] + one(k) /\ g[k - 1] \in Nat /\ one(k) \in {0, 1}
    BY <1>1, <1>8, <1>10
  <2>2. (\A i \in 1 .. k : one(i) = 0) <=> one(k) = 0 /\ \A i \in 1 .. k - 1 : one(i) = 0
    <3>1. 1 .. k = (1 .. k - 1) \cup {k}
      OBVIOUS
    <3>2. QED
      BY <3>1
  <2>3. QED
    BY SMTT(60), <1>10, <2>1, <2>2
<1> HIDE DEF T
<1>11. 0 .. n \subseteq T
  BY <1>1, <1>9, <1>10, RangeInduction
<1>12. n \in T
  BY <1>1, <1>11
<1>13. \A i \in 1 .. n : one(i) = 0 <=> Abs(out[i]) < level
  BY <1>1 DEF one
<1>14. QED
  BY <1>7, <1>12, <1>13 DEF T

-----------------------------------------------------------------------------
(* GainRepair: the order that neither rerank nor repair may go against.     *)

\* No more samples at full scale, nor, with as many of those, more near it.
NoWorse(a, b) == a.hard < b.hard \/ (a.hard = b.hard /\ a.near <= b.near)

\* What the counts of a score say of the samples.
LEMMA ScoreIs ==
  ASSUME NEW out \in Seq(Int), NEW threshold \in 1 .. Full, Full \in Nat
  PROVE  LET s == Score(out, threshold)
         IN  /\ s.hard \in Nat /\ s.near \in Nat
             /\ s.near = 0 => s.hard = 0
             /\ Clean(s) <=> \A i \in 1 .. Len(out) : Abs(out[i]) < threshold
<1> DEFINE s == Score(out, threshold)
<1>1. s.hard = Loud(out, Full) /\ s.near = Loud(out, threshold)
  BY ScoreCounts
<1>2. threshold \in Nat /\ threshold <= Full
  OBVIOUS
<1>3. s.hard \in Nat /\ (s.hard = 0 <=> \A i \in 1 .. Len(out) : Abs(out[i]) < Full)
  <2> HIDE DEF s
  <2>1. QED
    BY <1>1, LoudIs
<1>4. s.near \in Nat /\ (s.near = 0 <=> \A i \in 1 .. Len(out) : Abs(out[i]) < threshold)
  <2> HIDE DEF s
  <2>1. QED
    BY <1>1, <1>2, LoudIs
<1> HIDE DEF s
<1>5. \A i \in 1 .. Len(out) : Abs(out[i]) \in Int
  BY DEF Abs
<1>6. s.near = 0 => s.hard = 0
  BY <1>2, <1>3, <1>4, <1>5
<1>7. QED
  BY <1>3, <1>4, <1>6 DEF s, Clean

\* The order is one, and clean scores are its least.
LEMMA NoWorseIs ==
  ASSUME NEW a, NEW b, NEW c, a.hard \in Nat, a.near \in Nat,
         b.hard \in Nat, b.near \in Nat, c.hard \in Nat, c.near \in Nat
  PROVE  /\ NoWorse(a, a)
         /\ NoWorse(a, b) /\ NoWorse(b, c) => NoWorse(a, c)
         /\ NoWorse(a, b) /\ Clean(b) => Clean(a)
         /\ Clean(a) => NoWorse(a, b)
         /\ ClipLess(a, b) => NoWorse(a, b)
         /\ ~ClipLess(a, b) => NoWorse(b, a)
<1>1. /\ NoWorse(a, a)
      /\ NoWorse(a, b) /\ NoWorse(b, c) => NoWorse(a, c)
      /\ NoWorse(a, b) /\ Clean(b) => Clean(a)
      /\ Clean(a) => NoWorse(a, b)
  BY DEF NoWorse, Clean
<1>2. ClipLess(a, b) => NoWorse(a, b)
  BY DEF NoWorse, ClipLess
<1>3. ~ClipLess(a, b) => NoWorse(b, a)
  BY DEF NoWorse, ClipLess
<1>4. QED
  BY <1>1, <1>2, <1>3

\* A candidate the rerank prefers clips no more.
LEMMA RerankIs ==
  ASSUME NEW t, NEW a, NEW b, a.hard \in Nat, a.near \in Nat,
         b.hard \in Nat, b.near \in Nat, RerankLess(t, a, b)
  PROVE  NoWorse(a, b)
  BY DEF NoWorse, RerankLess

-----------------------------------------------------------------------------
(* GainRepair: the pulses.                                                 *)

\* What a search may find: pulses, with the pair the gain search starts from.
Finds == [start : Pairs, outs : [Pairs -> Outputs]]

PolicyOK == policy \in {Policies[p] : p \in DOMAIN Policies}

\* The bounds of a policy.
LEMMA PolicyIs ==
  ASSUME PolicyOK
  PROVE  /\ Full \in Nat /\ policy.clip \in 1 .. Full
         /\ policy.mse \in Nat /\ policy.mse <= policy.clip
<1>1. PICK p \in DOMAIN Policies : policy = Policies[p]
  BY DEF PolicyOK
<1>2. Full \in Nat /\ policy.clip \in 1 .. Full /\ policy.mse \in 0 .. policy.clip
  BY <1>1, RepairAssumption
<1>3. QED
  BY <1>2

\* A score of what the receiver plays for a pair.
LEMMA PlayedIs ==
  ASSUME PolicyOK, NEW outs \in [Pairs -> Outputs], NEW p \in Pairs,
         NEW threshold \in 1 .. Full
  PROVE  LET s == Score(outs[p], threshold)
         IN  /\ s.hard \in Nat /\ s.near \in Nat
             /\ s.near = 0 => s.hard = 0
             /\ Clean(s) <=> \A i \in 1 .. Len(outs[p]) : Abs(outs[p][i]) < threshold
<1>1. outs[p] \in Seq(Int)
  BY RepairAssumption
<1>2. Full \in Nat
  BY RepairAssumption
<1>3. QED
  BY <1>1, <1>2, ScoreIs

\* The score of what the searches had found.
LEMMA FoundIs ==
  ASSUME PolicyOK, NEW u \in Finds
  PROVE  /\ Found(u).hard \in Nat /\ Found(u).near \in Nat
         /\ Found(u).near = 0 => Found(u).hard = 0
<1>1. u.outs \in [Pairs -> Outputs] /\ u.start \in Pairs
  BY DEF Finds
<1>2. policy.clip \in 1 .. Full
  BY PolicyIs
<1>3. QED
  BY <1>1, <1>2, PlayedIs DEF Found

\* A rerank ends with pulses that play no worse than those it started from.
LEMMA RerankKeeps ==
  ASSUME PolicyOK, NEW choice \in Finds, NEW rivals \in Seq(Finds)
  PROVE  /\ Reranked(choice, rivals) \in Finds
         /\ NoWorse(Found(Reranked(choice, rivals)), Found(choice))
<1> DEFINE n == Len(rivals)
           S == Finds
           Step(k, b) == IF \E t \in policy.rerank : RerankLess(t, Found(rivals[k]), Found(b))
                         THEN rivals[k] ELSE b
           E == [k \in 1 .. n |-> [b \in S |-> Step(k, b)]]
           IsBest(f) == f = [k \in 0 .. n |-> IF k = 0 THEN choice ELSE Step(k, f[k - 1])]
           g == CHOOSE f : IsBest(f)
<1>1. n \in Nat /\ \A k \in 1 .. n : rivals[k] \in S
  OBVIOUS
<1>2. \A k \in 1 .. n, b \in S : Step(k, b) \in {rivals[k], b}
  OBVIOUS
<1>3. Reranked(choice, rivals) = g[n]
  BY DEF Reranked
<1> HIDE DEF Step
<1>4. StepsFrom(S, choice, n, E)
  BY <1>1, <1>2 DEF StepsFrom
<1>5. \A k \in 1 .. n, b \in S : E[k][b] = Step(k, b)
  OBVIOUS
<1> HIDE DEF E, S, n
<1>6. PICK f : Runs(f, S, choice, n, E)
  BY <1>4, Recursion
<1>7. IsBest(f)
  <2>1. \A k \in 0 .. n : f[k] = IF k = 0 THEN choice ELSE Step(k, f[k - 1])
    <3>1. ASSUME NEW k \in 0 .. n, k # 0
          PROVE  f[k] = Step(k, f[k - 1])
      <4>1. k \in 1 .. n /\ k - 1 \in 0 .. n
        BY <1>1, <3>1
      <4>2. f[k - 1] \in S
        BY <1>6, <4>1 DEF Runs
      <4>3. QED
        BY <1>5, <1>6, <4>1, <4>2 DEF Runs
    <3>2. QED
      BY <1>6, <3>1 DEF Runs
  <2>2. f = [k \in 0 .. n |-> f[k]]
    BY <1>6 DEF Runs
  <2>3. QED
    BY <2>1, <2>2
<1>8. IsBest(g)
  <2> HIDE DEF IsBest
  <2>1. QED
    BY <1>7
<1> HIDE DEF g
<1> DEFINE T == {k \in 0 .. n : g[k] \in S /\ NoWorse(Found(g[k]), Found(choice))}
<1>9. \A u, v, w \in S :
         /\ NoWorse(Found(u), Found(u))
         /\ NoWorse(Found(u), Found(v)) /\ NoWorse(Found(v), Found(w))
              => NoWorse(Found(u), Found(w))
         /\ \A t : RerankLess(t, Found(u), Found(v)) => NoWorse(Found(u), Found(v))
  <2>1. \A u \in S : Found(u).hard \in Nat /\ Found(u).near \in Nat
    BY FoundIs DEF S
  <2>2. QED
    BY <2>1, NoWorseIs, RerankIs
<1>10. 0 \in T
  BY <1>1, <1>4, <1>8, <1>9 DEF StepsFrom
<1>11. ASSUME NEW k \in 1 .. n, k - 1 \in T PROVE k \in T
  <2>1. k \in 0 .. n /\ k # 0
    BY <1>1
  <2>2. g[k] = Step(k, g[k - 1])
    BY <1>8, <2>1
  <2>3. g[k - 1] \in S /\ NoWorse(Found(g[k - 1]), Found(choice)) /\ rivals[k] \in S
    BY <1>1, <1>11
  <2>4. g[k] = g[k - 1] \/ (g[k] = rivals[k] /\ NoWorse(Found(g[k]), Found(g[k - 1])))
    BY <1>9, <2>2, <2>3 DEF Step
  <2>5. g[k] \in S
    BY <2>3, <2>4
  <2>6. NoWorse(Found(g[k]), Found(choice))
    <3>1. choice \in S
      BY <1>4 DEF StepsFrom
    <3>2. QED
      BY <1>9, <2>3, <2>4, <2>5, <3>1
  <2>7. QED
    BY <2>1, <2>5, <2>6
<1> HIDE DEF T
<1>12. 0 .. n \subseteq T
  BY <1>1, <1>10, <1>11, RangeInduction
<1>13. n \in T
  BY <1>1, <1>12
<1>14. QED
  BY <1>3, <1>13 DEF T, S

-----------------------------------------------------------------------------
(* GainRepair: the repair.                                                 *)

Clips(start, outs) == Score(outs[start], policy.clip).near > 0

ThresholdOf(start, outs) ==
  IF Clips(start, outs) \/ policy.mse = 0 THEN policy.clip ELSE policy.mse

\* A pair as the loops keep it.
Candidate(pair, outs, threshold, ceiling) ==
  Taken(<<>>, pair, Score(outs[pair], threshold), Gains(pair, ceiling))

\* What the repair returns is a whole candidate.  If the start is near full scale
\* no pair plays less there.  If not, it is the start, or what it plays stays
\* below the threshold of the repair of the error, as it does if any pair can.
LEMMA RepairKeeps ==
  ASSUME PolicyOK, NEW start \in Pairs, NEW outs \in [Pairs -> Outputs], NEW ceiling
  PROVE  LET threshold == ThresholdOf(start, outs)
             played(p) == Score(outs[p], threshold)
         IN  \E p \in Pairs :
               /\ Repaired(start, outs, ceiling) = Candidate(p, outs, threshold, ceiling)
               /\ Clips(start, outs) => \A q \in Pairs : NoWorse(played(p), played(q))
               /\ ~Clips(start, outs) =>
                    /\ p = start \/ (policy.mse > 0 /\ Clean(played(p)))
                    /\ (policy.mse > 0 /\ \E q \in Pairs : Clean(played(q)))
                         => Clean(played(p))
<1> DEFINE n == Len(PairTable)
           clipping == Clips(start, outs)
           mseRepair == ~clipping /\ policy.mse > 0
           threshold == IF mseRepair THEN policy.mse ELSE policy.clip
           played(p) == Score(outs[p], threshold)
           C(p) == Candidate(p, outs, threshold, ceiling)
           S == {C(p) : p \in Pairs}
           Step(k, b) == IF Better(mseRepair, played(k), b.score, Gains(k, ceiling), b.gains)
                         THEN C(k) ELSE b
           E == [k \in 1 .. n |-> [b \in S |-> Step(k, b)]]
           IsBest(f) == f = [k \in 0 .. n |-> IF k = 0 THEN C(start) ELSE Step(k, f[k - 1])]
           g == CHOOSE f : IsBest(f)
<1>1. n \in Nat /\ Pairs = 1 .. n
  BY RepairAssumption DEF Pairs
<1>2. /\ policy.mse \in Nat /\ policy.clip \in 1 .. Full
      /\ threshold = ThresholdOf(start, outs) /\ threshold \in 1 .. Full
  BY PolicyIs DEF ThresholdOf
<1>3. Repaired(start, outs, ceiling) = IF clipping \/ mseRepair THEN g[n] ELSE C(start)
  BY DEF Repaired, Clips, Candidate, Taken
<1>4. \A p \in Pairs : C(p).pair = p /\ C(p).score = played(p)
  BY DEF Candidate, Taken
<1>5. \A k \in Pairs, b \in S : Step(k, b) \in {C(k), b}
  OBVIOUS
<1> HIDE DEF Step, C, threshold, clipping, n
<1>6. StepsFrom(S, C(start), n, E)
  BY <1>1, <1>5 DEF StepsFrom
<1>7. \A k \in 1 .. n, b \in S : E[k][b] = Step(k, b)
  OBVIOUS
<1> HIDE DEF E, S
<1>8. PICK f : Runs(f, S, C(start), n, E)
  BY <1>6, Recursion
<1>9. IsBest(f)
  <2>1. \A k \in 0 .. n : f[k] = IF k = 0 THEN C(start) ELSE Step(k, f[k - 1])
    <3>1. ASSUME NEW k \in 0 .. n, k # 0
          PROVE  f[k] = Step(k, f[k - 1])
      <4>1. k \in 1 .. n /\ k - 1 \in 0 .. n
        BY <1>1, <3>1
      <4>2. f[k - 1] \in S
        BY <1>8, <4>1 DEF Runs
      <4>3. QED
        BY <1>7, <1>8, <4>1, <4>2 DEF Runs
    <3>2. QED
      BY <1>8, <3>1 DEF Runs
  <2>2. f = [k \in 0 .. n |-> f[k]]
    BY <1>8 DEF Runs
  <2>3. QED
    BY <2>1, <2>2
<1>10. IsBest(g)
  <2> HIDE DEF IsBest
  <2>1. QED
    BY <1>9
<1> HIDE DEF g
<1>11. g[0] = C(start) /\ \A k \in 1 .. n : g[k] = Step(k, g[k - 1])
  <2>1. \A k \in 0 .. n : g[k] = IF k = 0 THEN C(start) ELSE Step(k, g[k - 1])
    BY <1>10
  <2>2. QED
    BY <1>1, <2>1
<1> HIDE DEF IsBest
<1>12. \A p \in Pairs : played(p).hard \in Nat /\ played(p).near \in Nat
  BY <1>2, PlayedIs
<1> HIDE DEF played
<1> DEFINE Seen(k) == {start} \cup 1 .. k
           Good(k, p) ==
             /\ g[k] = C(p)
             /\ clipping => \A q \in Seen(k) : NoWorse(played(p), played(q))
             /\ mseRepair => /\ p = start \/ Clean(played(p))
                             /\ (\E q \in Seen(k) : Clean(played(q))) => Clean(played(p))
           T == {k \in 0 .. n : \E p \in Pairs : Good(k, p)}
<1>13. \A p, q, r \in Pairs :
         /\ NoWorse(played(p), played(p))
         /\ NoWorse(played(p), played(q)) /\ NoWorse(played(q), played(r))
              => NoWorse(played(p), played(r))
         /\ ClipLess(played(p), played(q)) => NoWorse(played(p), played(q))
         /\ ~ClipLess(played(p), played(q)) => NoWorse(played(q), played(p))
  BY <1>12, NoWorseIs
<1>14. 0 \in T
  <2>1. Seen(0) = {start}
    OBVIOUS
  <2>2. Good(0, start)
    BY <1>11, <1>13, <2>1
  <2> HIDE DEF Good
  <2>3. QED
    BY <1>1, <2>2
<1>15. ASSUME NEW k \in 1 .. n, k - 1 \in T PROVE k \in T
  <2>1. k \in Pairs /\ k \in 0 .. n /\ Seen(k - 1) \subseteq Pairs
    BY <1>1
  <2>2. Seen(k) = Seen(k - 1) \cup {k}
    BY <1>1
  <2>3. PICK p \in Pairs : Good(k - 1, p)
    <3> HIDE DEF Good
    <3>1. QED
      BY <1>15
  <2>4. C(p).score = played(p)
    BY <1>4
  <2> DEFINE better == Better(mseRepair, played(k), played(p), Gains(k, ceiling), C(p).gains)
             q == IF better THEN k ELSE p
  <2>5. q \in Pairs /\ g[k] = C(q)
    BY <1>11, <2>1, <2>3, <2>4 DEF Step
  <2> HIDE DEF Seen
  <2>6. ASSUME clipping
        PROVE  \A r \in Seen(k) : NoWorse(played(q), played(r))
    <3>1. better <=> ClipLess(played(k), played(p))
      BY <2>6 DEF Better
    <3>2. NoWorse(played(q), played(k)) /\ NoWorse(played(q), played(p))
      BY <1>13, <2>1, <3>1
    <3>3. \A r \in Seen(k - 1) : NoWorse(played(p), played(r))
      BY <2>3, <2>6
    <3>4. QED
      BY <1>13, <2>1, <2>2, <2>5, <3>2, <3>3
  <2>7. ASSUME mseRepair
        PROVE  /\ q = start \/ Clean(played(q))
               /\ (\E r \in Seen(k) : Clean(played(r))) => Clean(played(q))
    <3>1. better => Clean(played(k))
      BY <2>7 DEF Better
    <3>2. Clean(played(k)) /\ ~Clean(played(p)) => better
      BY <2>7 DEF Better
    <3>3. /\ p = start \/ Clean(played(p))
          /\ (\E r \in Seen(k - 1) : Clean(played(r))) => Clean(played(p))
      BY <2>3, <2>7
    <3>4. QED
      BY <2>2, <3>1, <3>2, <3>3
  <2>8. Good(k, q)
    BY <2>5, <2>6, <2>7
  <2> HIDE DEF Good, q
  <2>9. QED
    BY <2>1, <2>5, <2>8
<1> HIDE DEF T
<1>16. 0 .. n \subseteq T
  BY <1>1, <1>14, <1>15, RangeInduction
<1>17. n \in T
  BY <1>1, <1>16
<1>18. PICK p \in Pairs : Good(n, p)
  BY <1>17 DEF T
<1>19. Seen(n) = Pairs
  BY <1>1
<1> DEFINE Kept(e) ==
      /\ Repaired(start, outs, ceiling) = C(e)
      /\ clipping => \A q \in Pairs : NoWorse(played(e), played(q))
      /\ ~clipping => /\ e = start \/ (policy.mse > 0 /\ Clean(played(e)))
                      /\ (policy.mse > 0 /\ \E q \in Pairs : Clean(played(q)))
                           => Clean(played(e))
<1> HIDE DEF Seen
<1>20. \E r \in Pairs : Kept(r)
  <2>1. CASE clipping \/ mseRepair
    <3>1. Kept(p)
      BY <1>3, <1>18, <1>19, <2>1
    <3> HIDE DEF Kept
    <3>2. QED
      BY <3>1
  <2>2. CASE ~clipping /\ ~mseRepair
    <3>1. Kept(start)
      BY <1>2, <1>3, <2>2
    <3> HIDE DEF Kept
    <3>2. QED
      BY <3>1
  <2>3. QED
    BY <2>1, <2>2
<1> HIDE DEF mseRepair
<1>21. QED
  BY <1>2, <1>20 DEF C, played, clipping

\* What RepairNeverClipsMore says of a subframe coded under a policy's thresholds.
NeverClips(u, clip, mse) ==
  LET before == Score(u.found.outs[u.found.start], clip)
      after == Score(u.outs[u.pair], clip)
      clipping == Score(u.outs[u.start], clip).near > 0
      threshold == IF clipping \/ mse = 0 THEN clip ELSE mse
  IN  /\ after.hard <= before.hard
      /\ after.hard = before.hard => after.near <= before.near
      /\ before.near = 0 => Clean(after)
      /\ (\E p \in Pairs : Clean(Score(u.outs[p], threshold)))
           => Clean(Score(u.outs[u.pair], threshold))

\* The property, for the subframe it is about.
LEMMA NeverClipsIs ==
  /\ RepairNeverClipsMore <=>
       (subject # <<>> => NeverClips(subject[1], policy.clip, policy.mse))
  /\ RepairNeverClipsMore' <=>
       (subject' # <<>> => NeverClips(subject'[1], policy'.clip, policy'.mse))
  BY DEF RepairNeverClipsMore, NeverClips, Found

\* The pair that rerank and repair end with.
LEMMA Chosen ==
  ASSUME PolicyOK, NEW choice \in Finds, NEW rivals \in Seq(Finds), NEW ceiling
  PROVE  LET pulses == Reranked(choice, rivals)
             r == Repaired(pulses.start, pulses.outs, ceiling)
             u == [found |-> choice, start |-> pulses.start, outs |-> pulses.outs,
                   ceiling |-> ceiling, pair |-> r.pair]
         IN  /\ r.pair \in Pairs
             /\ r.copy = Append(copy, r.pair)
             /\ r.gains = Gains(r.pair, ceiling)
             /\ NeverClips(u, policy.clip, policy.mse)
<1> DEFINE pulses == Reranked(choice, rivals)
           start == pulses.start
           outs == pulses.outs
           r == Repaired(start, outs, ceiling)
           u == [found |-> choice, start |-> start, outs |-> outs,
                 ceiling |-> ceiling, pair |-> r.pair]
           clip == policy.clip
           mse == policy.mse
           threshold == ThresholdOf(start, outs)
           before == Found(choice)
           middle == Found(pulses)
<1>1. pulses \in Finds /\ NoWorse(middle, before)
  BY RerankKeeps
<1> HIDE DEF pulses
<1>2. start \in Pairs /\ outs \in [Pairs -> Outputs]
  BY <1>1 DEF Finds
<1>3. PICK p \in Pairs :
        /\ r = Candidate(p, outs, threshold, ceiling)
        /\ Clips(start, outs) =>
             \A q \in Pairs : NoWorse(Score(outs[p], threshold), Score(outs[q], threshold))
        /\ ~Clips(start, outs) =>
             /\ p = start \/ (mse > 0 /\ Clean(Score(outs[p], threshold)))
             /\ (mse > 0 /\ \E q \in Pairs : Clean(Score(outs[q], threshold)))
                  => Clean(Score(outs[p], threshold))
  <2> HIDE DEF start, outs
  <2>1. QED
    BY <1>2, RepairKeeps
<1>4. r.pair = p /\ r.copy = Append(copy, p) /\ r.gains = Gains(p, ceiling)
  BY <1>3 DEF Candidate, Taken
<1> HIDE DEF r
<1> DEFINE after == Score(outs[p], clip)
<1>5. /\ mse \in Nat /\ clip \in 1 .. Full /\ mse <= clip
      /\ threshold \in 1 .. Full
      /\ Clips(start, outs) \/ mse = 0 => threshold = clip
      /\ ~(Clips(start, outs) \/ mse = 0) => threshold = mse
  BY PolicyIs DEF ThresholdOf
<1>6. /\ middle = Score(outs[start], clip) /\ before = Score(choice.outs[choice.start], clip)
      /\ Clips(start, outs) <=> middle.near > 0
  BY DEF Found, Clips
<1> HIDE DEF start, outs, threshold, clip, mse, before, middle
<1>7. /\ before.hard \in Nat /\ before.near \in Nat /\ middle.hard \in Nat /\ middle.near \in Nat
      /\ before.near = 0 => before.hard = 0
      /\ middle.near = 0 => middle.hard = 0
  BY <1>1, FoundIs DEF before, middle
<1>8. \A q \in Pairs :
         LET s == Score(outs[q], clip)
             t == Score(outs[q], threshold)
         IN  /\ s.hard \in Nat /\ s.near \in Nat /\ t.hard \in Nat /\ t.near \in Nat
             /\ Clean(s) <=> \A i \in 1 .. Len(outs[q]) : Abs(outs[q][i]) < clip
             /\ Clean(t) <=> \A i \in 1 .. Len(outs[q]) : Abs(outs[q][i]) < threshold
  BY <1>2, <1>5, PlayedIs
<1>9. Clean(Score(outs[p], threshold)) => Clean(after)
  <2>1. threshold <= clip /\ threshold \in Int /\ clip \in Int
    BY <1>5
  <2>2. \A i \in 1 .. Len(outs[p]) : Abs(outs[p][i]) \in Int
    <3>1. outs[p] \in Seq(Int)
      BY <1>2, RepairAssumption
    <3>2. QED
      BY <3>1 DEF Abs
  <2>3. (\A i \in 1 .. Len(outs[p]) : Abs(outs[p][i]) < threshold)
          => \A i \in 1 .. Len(outs[p]) : Abs(outs[p][i]) < clip
    BY <2>1, <2>2
  <2>4. QED
    BY <1>8, <2>3
<1>10. /\ NoWorse(after, middle)
       /\ middle.near = 0 => Clean(after)
       /\ (\E q \in Pairs : Clean(Score(outs[q], threshold))) => Clean(Score(outs[p], threshold))
  <2>1. CASE Clips(start, outs)
    <3>1. threshold = clip /\ \A q \in Pairs : NoWorse(after, Score(outs[q], clip))
      BY <1>3, <1>5, <2>1
    <3>2. NoWorse(after, middle) /\ middle.near # 0
      BY <1>2, <1>6, <1>7, <2>1, <3>1
    <3>3. \A q \in Pairs : Clean(Score(outs[q], clip)) => Clean(after)
      BY <1>8, <3>1, NoWorseIs
    <3>4. QED
      BY <3>1, <3>2, <3>3
  <2>2. CASE ~Clips(start, outs)
    <3>1. Clean(middle)
      BY <1>6, <1>7, <2>2 DEF Clean
    <3>2. p = start \/ (mse > 0 /\ Clean(Score(outs[p], threshold)))
      BY <1>3, <2>2
    <3>3. Clean(after)
      BY <1>6, <1>9, <3>1, <3>2
    <3>4. NoWorse(after, middle)
      BY <1>7, <1>8, <3>3, NoWorseIs
    <3>5. CASE mse = 0
      BY <1>5, <3>3, <3>4, <3>5
    <3>6. CASE mse > 0
      BY <1>3, <2>2, <3>3, <3>4, <3>6
    <3>7. QED
      BY <1>5, <3>5, <3>6
  <2>3. QED
    BY <2>1, <2>2
<1>11. /\ after.hard <= before.hard
       /\ after.hard = before.hard => after.near <= before.near
       /\ before.near = 0 => Clean(after)
  <2>1. after.hard \in Nat /\ after.near \in Nat
    BY <1>8
  <2> HIDE DEF after
  <2>2. NoWorse(after, before)
    BY <1>1, <1>7, <1>10, <2>1, NoWorseIs DEF before, middle
  <2>3. QED
    BY <1>7, <2>1, <2>2 DEF NoWorse, Clean
<1>12. NeverClips(u, clip, mse)
  <2>1. u.found = choice /\ u.start = start /\ u.outs = outs /\ u.pair = p
    BY <1>4
  <2> HIDE DEF u
  <2>2. threshold = IF Score(outs[start], clip).near > 0 \/ mse = 0 THEN clip ELSE mse
    BY <1>5, <1>6
  <2>3. QED
    BY <1>6, <1>10, <1>11, <2>1, <2>2 DEF NeverClips
<1>13. QED
  BY <1>4, <1>12 DEF pulses, start, outs, r, clip, mse
-----------------------------------------------------------------------------
(* GainRepair: every step.                                                 *)

\* The inductive invariant: the two properties and the types they rest on.
RepairInv ==
  /\ PolicyOK
  /\ sentPairs \in Seq(Pairs)
  /\ RepairCommitsOnePair
  /\ RepairNeverClipsMore

\* Policies stay policies, and both properties hold of every subframe.
THEOREM RepairInvHolds == RepairSpec => []RepairInv
<1>1. RepairInit => RepairInv
  BY DEF RepairInit, RepairInv, PolicyOK, RepairCommitsOnePair, RepairNeverClipsMore
<1>2. RepairInv /\ [RepairNext]_repairVars => RepairInv'
  <2> SUFFICES ASSUME RepairInv, [RepairNext]_repairVars
               PROVE  RepairInv'
    OBVIOUS
  <2>1. CASE RepairNext
    <3>1. PICK choice \in Finds, ceiling \in GainCeilings,
               rivals \in IF policy.rerank = {} THEN {<<>>} ELSE Rivals :
            CodeGains(choice, rivals, ceiling)
      BY <2>1 DEF RepairNext, Finds
    <3>2. rivals \in Seq(Finds)
      <4>1. <<>> \in Seq(Finds)
        OBVIOUS
      <4>2. Rivals \subseteq Seq(Finds)
        BY RepairAssumption, Zenon DEF Finds
      <4>3. QED
        BY <3>1, <4>1, <4>2
    <3> DEFINE pulses == Reranked(choice, rivals)
               r == Repaired(pulses.start, pulses.outs, ceiling)
               u == [found |-> choice, start |-> pulses.start, outs |-> pulses.outs,
                     ceiling |-> ceiling, pair |-> r.pair]
    <3>3. /\ sentPairs' = Append(sentPairs, r.pair) /\ copy' = r.copy
          /\ commit' = r.gains /\ subject' = <<u>> /\ policy' = policy
      BY <3>1 DEF CodeGains
    <3>4. /\ r.pair \in Pairs /\ r.copy = Append(copy, r.pair)
          /\ r.gains = Gains(r.pair, ceiling)
          /\ NeverClips(u, policy.clip, policy.mse)
      BY <3>2, Chosen DEF RepairInv
    <3>5. u.pair = r.pair /\ u.ceiling = ceiling
      OBVIOUS
    <3> HIDE DEF r, u, pulses
    <3>6. subject' # <<>> /\ subject'[1] = u
      BY <3>3
    <3>7. RepairNeverClipsMore'
      BY <3>3, <3>4, <3>6, NeverClipsIs
    <3>8. RepairCommitsOnePair' /\ (sentPairs \in Seq(Pairs))'
      <4>1. sentPairs \in Seq(Pairs) /\ copy = sentPairs
        BY DEF RepairInv, RepairCommitsOnePair
      <4>2. Append(sentPairs, r.pair)[Len(Append(sentPairs, r.pair))] = r.pair
        BY <3>4, <4>1
      <4>3. Gains(subject'[1].pair, subject'[1].ceiling)
              = Gains(subject[1].pair, subject[1].ceiling)'
        BY DEF Gains
      <4>4. QED
        BY <3>3, <3>4, <3>5, <3>6, <4>1, <4>2, <4>3 DEF RepairCommitsOnePair
    <3>9. QED
      BY <3>3, <3>7, <3>8 DEF RepairInv, PolicyOK
  <2>2. CASE UNCHANGED repairVars
    <3>1. /\ policy' = policy /\ sentPairs' = sentPairs /\ copy' = copy
          /\ commit' = commit /\ subject' = subject
      BY <2>2 DEF repairVars
    <3>2. RepairNeverClipsMore'
      BY <3>1, NeverClipsIs DEF RepairInv
    <3>3. RepairCommitsOnePair'
      BY <3>1 DEF RepairInv, RepairCommitsOnePair, Gains
    <3>4. QED
      BY <3>1, <3>2, <3>3 DEF RepairInv, PolicyOK
  <2>3. QED
    BY <2>1, <2>2
<1>3. QED
  BY <1>1, <1>2, PTL DEF RepairSpec

\* Whatever the policies, the pairs and what the receiver plays for them, the
\* pair that rerank and repair commit plays no more samples at full scale, or
\* near it, than what the searches had found.
THEOREM RepairIsSafe == RepairSpec => []RepairNeverClipsMore
<1>1. RepairInv => RepairNeverClipsMore
  BY DEF RepairInv
<1>2. QED
  BY <1>1, RepairInvHolds, PTL

\* The wire, the copy of the receiver and the gains kept are of one pair.
THEOREM RepairIsWhole == RepairSpec => []RepairCommitsOnePair
<1>1. RepairInv => RepairCommitsOnePair
  BY DEF RepairInv
<1>2. QED
  BY <1>1, RepairInvHolds, PTL

-----------------------------------------------------------------------------
(* FcbSearch: candidates.                                                  *)

\* Positions on one, two and three tracks.
LEMMA FcbConstants ==
  /\ Steps \in Nat /\ Steps > 0 /\ TopKLimit \in Nat /\ TopKLimit > 0
  /\ Steps2 = Steps * Steps /\ Steps3 = Steps * Steps2
  /\ Steps2 \in Nat /\ Steps2 > 0 /\ Steps3 \in Nat /\ Steps3 > 0
<1>1. Steps \in Nat /\ Steps > 0 /\ TopKLimit \in Nat /\ TopKLimit > 0
  BY FcbAssumption DEF FcbAssumption
<1>2. Steps2 = Steps * Steps /\ Steps2 \in Nat /\ Steps2 > 0
  BY <1>1 DEF Steps2
<1>3. Steps3 = Steps * Steps2
  BY <1>1 DEF Steps2, Steps3
<1>4. Steps3 \in Nat /\ Steps3 > 0
  BY <1>1, <1>2, <1>3
<1>5. QED
  BY <1>1, <1>2, <1>3, <1>4

\* Digits of a number: a lower one x in base d under y.
LEMMA Digits ==
  ASSUME NEW d \in Nat, d > 0, NEW x \in 0 .. d - 1, NEW y \in Nat
  PROVE  (x + d * y) % d = x /\ (x + d * y) \div d = y
<1> DEFINE n == x + d * y
<1>1. n \in Nat /\ n \div d \in Int /\ n % d \in 0 .. d - 1 /\ n = d * (n \div d) + (n % d)
  OBVIOUS
<1> DEFINE q == n \div d
           r == n % d
<1> HIDE DEF q, r
<1>2. q \in Int /\ r \in 0 .. d - 1 /\ x + d * y = d * q + r
  BY <1>1 DEF q, r
<1>3. q = y
  <2>1. CASE q < y
    <3>1. d * (q + 1) <= d * y
      BY <1>2, <2>1
    <3>2. QED
      BY <1>2, <3>1
  <2>2. CASE q > y
    <3>1. d * (y + 1) <= d * q
      BY <1>2, <2>2
    <3>2. QED
      BY <1>2, <3>1
  <2>3. QED
    BY <1>2, <2>1, <2>2
<1>4. r = x
  BY <1>2, <1>3
<1>5. QED
  BY <1>3, <1>4 DEF q, r

Triple(a, b, c) == <<5 * a, 5 * b + 1, 5 * c + 2>>

Quad(a, b, c, d, j) == <<5 * a, 5 * b + 1, 5 * c + 2, 5 * d + 3 + j>>

\* One pulse on each of the first three tracks, or of all four.
TrackPrefixes == {p \in Seq(Nat) : \E a, b, c \in 0 .. Steps - 1 : p = Triple(a, b, c)}

Candidates ==
  {m \in Seq(Nat) : \E a, b, c, d \in 0 .. Steps - 1 : \E j \in 0 .. 1 : m = Quad(a, b, c, d, j)}

\* The prefixes of three pulses are on their tracks.
LEMMA TriplesAre ==
  /\ Len(Triples) = Steps3 /\ DOMAIN Triples = 1 .. Steps3
  /\ \A k \in 1 .. Steps3 : Triples[k] \in TrackPrefixes
<1>1. Len(Triples) = Steps3 /\ DOMAIN Triples = 1 .. Steps3
  BY FcbConstants DEF Triples
<1>2. ASSUME NEW k \in 1 .. Steps3 PROVE Triples[k] \in TrackPrefixes
  <2> DEFINE n == k - 1
             a == n \div Steps2
             b == (n \div Steps) % Steps
             c == n % Steps
  <2>1. n \in Nat /\ n < Steps * Steps2
    BY FcbConstants
  <2>2. b \in 0 .. Steps - 1 /\ c \in 0 .. Steps - 1
    <3>1. n \div Steps \in Int
      BY <2>1, FcbConstants
    <3> HIDE DEF n
    <3>2. QED
      BY <2>1, <3>1, FcbConstants
  <2>3. a \in 0 .. Steps - 1
    <3> HIDE DEF n
    <3>1. a \in Nat /\ Steps2 * a <= n
      BY <2>1, FcbConstants
    <3>2. CASE a >= Steps
      <4> HIDE DEF a
      <4>1. Steps2 * Steps <= Steps2 * a
        BY <3>1, <3>2, FcbConstants
      <4>2. QED
        BY <2>1, <3>1, <4>1, FcbConstants
    <3>3. QED
      BY <3>1, <3>2, FcbConstants
  <2>4. Triples[k] = Triple(a, b, c)
    BY FcbConstants DEF Triples, Triple
  <2> HIDE DEF a, b, c
  <2>5. Triple(a, b, c) \in Seq(Nat)
    BY <2>2, <2>3 DEF Triple
  <2>6. QED
    BY <2>2, <2>3, <2>4, <2>5 DEF TrackPrefixes
<1>3. QED
  BY <1>1, <1>2

\* The two tracks of the fourth pulse.
LEMMA Track3Is ==
  /\ Len(Track3) = 2 * Steps
  /\ \A k \in 1 .. 2 * Steps : \E d \in 0 .. Steps - 1 : \E j \in 0 .. 1 :
                                 Track3[k] = 5 * d + 3 + j
<1>1. Len(Track3) = 2 * Steps
  BY FcbConstants DEF Track3
<1>2. ASSUME NEW k \in 1 .. 2 * Steps
      PROVE  \E d \in 0 .. Steps - 1 : \E j \in 0 .. 1 : Track3[k] = 5 * d + 3 + j
  <2>1. (k - 1) \div 2 \in 0 .. Steps - 1 /\ (k - 1) % 2 \in 0 .. 1
    BY FcbConstants
  <2>2. Track3[k] = 5 * ((k - 1) \div 2) + 3 + ((k - 1) % 2)
    BY DEF Track3
  <2>3. QED
    BY <2>1, <2>2
<1>3. QED
  BY <1>1, <1>2

\* One more element.
LEMMA AppendIs ==
  ASSUME NEW S, NEW p \in Seq(S), NEW x \in S
  PROVE  /\ Append(p, x) \in Seq(S) /\ Len(Append(p, x)) = Len(p) + 1
         /\ \A i \in 1 .. Len(p) : Append(p, x)[i] = p[i]
         /\ Append(p, x)[Len(p) + 1] = x
  OBVIOUS

\* A prefix and a fourth pulse.
LEMMA FourthPulse ==
  ASSUME NEW u, NEW v, NEW w, NEW x
  PROVE  Append(<<u, v, w>>, x) = <<u, v, w, x>>
<1> DEFINE S == {u, v, w, x}
           p == <<u, v, w>>
           q == <<u, v, w, x>>
<1>1. /\ p \in Seq(S) /\ Len(p) = 3 /\ x \in S
      /\ p[1] = u /\ p[2] = v /\ p[3] = w
  OBVIOUS
<1>2. /\ q \in Seq(S) /\ Len(q) = 4
      /\ q[1] = u /\ q[2] = v /\ q[3] = w /\ q[4] = x
  OBVIOUS
<1> HIDE DEF S, p, q
<1> DEFINE a == Append(p, x)
<1>3. /\ a \in Seq(S) /\ Len(a) = 4
      /\ \A i \in 1 .. 3 : a[i] = p[i]
      /\ a[4] = x
  <2>1. /\ a \in Seq(S) /\ Len(a) = Len(p) + 1
        /\ \A i \in 1 .. Len(p) : a[i] = p[i]
        /\ a[Len(p) + 1] = x
    BY <1>1, AppendIs
  <2> HIDE DEF a
  <2>2. QED
    BY <1>1, <2>1
<1> HIDE DEF a
<1>4. \A i \in 1 .. 4 : a[i] = q[i]
  <2>2. a[1] = q[1] /\ a[2] = q[2] /\ a[3] = q[3] /\ a[4] = q[4]
    BY <1>1, <1>2, <1>3
  <2>3. \A i \in 1 .. 4 : i = 1 \/ i = 2 \/ i = 3 \/ i = 4
    OBVIOUS
  <2>4. QED
    BY <2>2, <2>3
<1>5. a = q
  BY <1>2, <1>3, <1>4
<1>6. QED
  BY <1>5 DEF a, p, q

\* Prefixes completed by a fourth pulse are candidates.
LEMMA WithIs ==
  ASSUME NEW prefixes \in Seq(TrackPrefixes)
  PROVE  /\ Len(With(prefixes)) \in Nat
         /\ \A k \in 1 .. Len(With(prefixes)) : With(prefixes)[k] \in Candidates
<1> DEFINE t == 2 * Steps
           n == Len(prefixes)
<1>1. t \in Nat /\ t > 0 /\ n \in Nat /\ n * t \in Nat
  BY FcbConstants
<1>2. With(prefixes) = [k \in 1 .. n * t |-> Append(prefixes[1 + ((k - 1) \div t)],
                                                   Track3[1 + ((k - 1) % t)])]
  BY Track3Is DEF With
<1> HIDE DEF t
<1>3. Len(With(prefixes)) = n * t
  BY <1>1, <1>2
<1>4. ASSUME NEW k \in 1 .. n * t PROVE With(prefixes)[k] \in Candidates
  <2> DEFINE i == (k - 1) \div t
             l == (k - 1) % t
  <2>1. l \in 0 .. t - 1 /\ i \in Nat /\ t * i <= k - 1
    BY <1>1
  <2>2. With(prefixes)[k] = Append(prefixes[1 + i], Track3[1 + l])
    BY <1>2
  <2> HIDE DEF i, l
  <2>3. i < n
    <3>1. CASE i >= n
      <4>1. t * n <= t * i
        BY <1>1, <2>1, <3>1
      <4>2. QED
        BY <1>1, <2>1, <4>1
    <3>2. QED
      BY <1>1, <2>1, <3>1
  <2>4. prefixes[1 + i] \in TrackPrefixes
    BY <1>1, <2>1, <2>3
  <2>5. PICK a, b, c \in 0 .. Steps - 1 : prefixes[1 + i] = Triple(a, b, c)
    BY <2>4 DEF TrackPrefixes
  <2>6. PICK d \in 0 .. Steps - 1 : \E j \in 0 .. 1 : Track3[1 + l] = 5 * d + 3 + j
    <3>1. 1 + l \in 1 .. 2 * Steps
      BY <1>1, <2>1, FcbConstants DEF t
    <3>2. QED
      BY <3>1, Track3Is
  <2>7. PICK j \in 0 .. 1 : Track3[1 + l] = 5 * d + 3 + j
    BY <2>6
  <2>8. With(prefixes)[k] = Quad(a, b, c, d, j)
    <3>1. With(prefixes)[k] = Append(Triple(a, b, c), 5 * d + 3 + j)
      BY <2>2, <2>5, <2>7
    <3>2. QED
      BY <3>1, FourthPulse DEF Triple, Quad
  <2>9. Quad(a, b, c, d, j) \in Seq(Nat)
    BY DEF Quad
  <2>10. QED
    BY <2>8, <2>9 DEF Candidates
<1>5. QED
  BY <1>1, <1>3, <1>4

\* TriplesAre, as membership.
LEMMA TriplesSeq == Triples \in Seq(TrackPrefixes)
  BY TriplesAre, FcbConstants DEF Triples

\* The exhaustive list has candidates only.
LEMMA AllCandidatesAre ==
  /\ Len(AllCandidates) \in Nat
  /\ \A k \in 1 .. Len(AllCandidates) : AllCandidates[k] \in Candidates
  BY WithIs, TriplesSeq DEF AllCandidates

\* The positions a search without a result returns are a candidate.
LEMMA DefaultIs == DefaultPositions \in Candidates
<1>1. DefaultPositions = Quad(0, 0, 0, 0, 0)
  BY DEF DefaultPositions, Quad
<1>2. Quad(0, 0, 0, 0, 0) \in Seq(Nat) /\ 0 \in 0 .. Steps - 1 /\ 0 \in 0 .. 1
  BY FcbConstants DEF Quad
<1>3. QED
  BY <1>1, <1>2 DEF Candidates

-----------------------------------------------------------------------------
(* FcbSearch: the fields.                                                  *)

\* The receiver reads back the positions that were packed.
LEMMA PositionsArrive ==
  ASSUME NEW m \in Candidates
  PROVE  DecodePositions(PackC(m)) = m
<1>1. PICK a, b, c, d \in 0 .. Steps - 1 : \E j \in 0 .. 1 : m = Quad(a, b, c, d, j)
  BY DEF Candidates
<1>2. PICK j \in 0 .. 1 : m = Quad(a, b, c, d, j)
  BY <1>1
<1>3. m[1] = 5 * a /\ m[2] = 5 * b + 1 /\ m[3] = 5 * c + 2 /\ m[4] = 5 * d + 3 + j
  BY <1>2 DEF Quad
<1> DEFINE h == 2 * d + j
           code == a + Steps * b + Steps2 * c + Steps3 * h
<1>4. PackC(m) = code
  <2>1. (IF m[4] % 5 = 4 THEN 1 ELSE 0) = j
    BY <1>3
  <2>2. /\ m[1] \div 5 = a /\ (m[2] - 1) \div 5 = b /\ (m[3] - 2) \div 5 = c
        /\ (m[4] - 3 - j) \div 5 = d
    BY <1>3
  <2>3. QED
    BY <2>1, <2>2 DEF PackC
<1> DEFINE x2 == a + Steps * b
           x3 == x2 + Steps2 * c
           x4 == x3 + Steps3 * j
<1>5. /\ a \in 0 .. Steps - 1 /\ b \in 0 .. Steps - 1 /\ c \in 0 .. Steps - 1
      /\ d \in 0 .. Steps - 1 /\ h \in Nat /\ Steps \in Nat /\ Steps > 0
      /\ Steps2 \in Nat /\ Steps2 > 0 /\ Steps3 \in Nat /\ Steps3 > 0
  BY FcbConstants
<1>6. x2 \in 0 .. Steps2 - 1
  <2>1. Steps * b <= Steps * (Steps - 1)
    BY <1>5
  <2>2. QED
    BY <1>5, <2>1, FcbConstants
<1>7. x3 \in 0 .. Steps3 - 1
  <2> HIDE DEF x2
  <2>1. Steps2 * c <= Steps2 * (Steps - 1) /\ Steps2 * c \in Nat
    BY <1>5
  <2>2. QED
    BY <1>5, <1>6, <2>1, FcbConstants
<1>8. x4 \in 0 .. 2 * Steps3 - 1
  <2> HIDE DEF x3
  <2>1. QED
    BY <1>5, <1>7
<1>9. code % Steps = a /\ code \div Steps = b + Steps * (c + Steps * h)
  <2>1. code = a + Steps * (b + Steps * (c + Steps * h))
    BY <1>5, FcbConstants
  <2> DEFINE y == b + Steps * (c + Steps * h)
  <2>2. y \in Nat /\ code = a + Steps * y
    BY <1>5, <2>1
  <2> HIDE DEF y, code
  <2>3. code % Steps = a /\ code \div Steps = y
    BY <1>5, <2>2, Digits
  <2>4. QED
    BY <2>3 DEF y
<1>10. (code \div Steps) % Steps = b
  <2> DEFINE y == c + Steps * h
             q == code \div Steps
  <2>1. y \in Nat /\ q = b + Steps * y
    BY <1>5, <1>9
  <2> HIDE DEF y, q
  <2>2. q % Steps = b
    BY <1>5, <2>1, Digits
  <2>3. QED
    BY <2>2 DEF q
<1>11. (code \div Steps2) % Steps = c
  <2>1. code = x2 + Steps2 * (c + Steps * h)
    BY <1>5, FcbConstants
  <2>2. c + Steps * h \in Nat
    BY <1>5
  <2> HIDE DEF x2, code
  <2>3. code \div Steps2 = c + Steps * h
    BY <1>5, <1>6, <2>1, <2>2, Digits
  <2>4. QED
    BY <1>5, <2>3, Digits
<1>12. (code \div Steps3) % 2 = j
  <2>1. code = x3 + Steps3 * h
    BY <1>5
  <2> HIDE DEF x3, code
  <2>2. code \div Steps3 = h
    BY <1>5, <1>7, <2>1, Digits
  <2>3. h % 2 = j
    BY <1>5
  <2>4. QED
    BY <2>2, <2>3
<1>13. (code \div (2 * Steps3)) % Steps = d
  <2>1. code = x4 + (2 * Steps3) * d
    BY <1>5
  <2>2. 2 * Steps3 \in Nat /\ 2 * Steps3 > 0 /\ d \in Nat
    BY <1>5
  <2> HIDE DEF x4, code
  <2>3. code \div (2 * Steps3) = d
    BY <1>8, <2>1, <2>2, Digits
  <2>4. d % Steps = d
    BY <1>5
  <2>5. QED
    BY <2>3, <2>4
<1> HIDE DEF code
<1>14. DecodePositions(code) = <<5 * a, 5 * b + 1, 5 * c + 2, 5 * d + 3 + j>>
  BY <1>9, <1>10, <1>11, <1>12, <1>13 DEF DecodePositions
<1>15. QED
  BY <1>2, <1>4, <1>14 DEF Quad

\* And the signs.
LEMMA SignsArrive ==
  ASSUME NEW m, NEW sign
  PROVE  [i \in 1 .. 4 |-> (PackS(m, sign) \div <<1, 2, 4, 8>>[i]) % 2 = 1]
           = [i \in 1 .. 4 |-> sign[m[i]] > 0]
<1> DEFINE bit(i) == IF sign[m[i]] > 0 THEN 1 ELSE 0
           S == PackS(m, sign)
<1>1. S = bit(1) + 2 * bit(2) + 4 * bit(3) + 8 * bit(4)
  BY DEF PackS
<1>2. \A i \in 1 .. 4 : bit(i) \in 0 .. 1 /\ (bit(i) = 1 <=> sign[m[i]] > 0)
  OBVIOUS
<1> HIDE DEF bit, S
<1>3. /\ (S \div 1) % 2 = bit(1) /\ (S \div 2) % 2 = bit(2)
      /\ (S \div 4) % 2 = bit(3) /\ (S \div 8) % 2 = bit(4)
  BY <1>1, <1>2
<1>4. ASSUME NEW i \in 1 .. 4
      PROVE  ((S \div <<1, 2, 4, 8>>[i]) % 2 = 1) = (sign[m[i]] > 0)
  <2>1. i = 1 \/ i = 2 \/ i = 3 \/ i = 4
    OBVIOUS
  <2>2. (S \div <<1, 2, 4, 8>>[i]) % 2 = bit(i)
    BY <1>3, <2>1
  <2>3. QED
    BY <1>2, <2>2
<1>5. QED
  BY <1>4 DEF S

-----------------------------------------------------------------------------
(* FcbSearch: sums.                                                        *)

\* Integers to add from a to b (none when b = a - 1), and their running sums.
Summable(F, a, b) ==
  a \in Int /\ b \in Int /\ a <= b + 1 /\ \A n \in a .. b : F[n] \in Int

SumsOf(g, F, a, b) ==
  /\ g \in [a - 1 .. b -> Int] /\ g[a - 1] = 0
  /\ \A n \in a .. b : g[n] = g[n - 1] + F[n]

\* There are running sums,
LEMMA SumsExist ==
  ASSUME NEW F, NEW a, NEW b, Summable(F, a, b)
  PROVE  \E g : SumsOf(g, F, a, b)
<1>1. a \in Int /\ b \in Int /\ a <= b + 1 /\ \A n \in a .. b : F[n] \in Int
  BY DEF Summable
<1> DEFINE m == b + 1 - a
           x == [k \in 1 .. m |-> F[a - 1 + k]]
<1>2. m \in Nat
  BY <1>1
<1>3. \A k \in 1 .. m : x[k] = F[a - 1 + k] /\ a - 1 + k \in a .. b /\ x[k] \in Int
  BY <1>1
<1> HIDE DEF x
<1>4. PICK f \in [0 .. m -> Int] : f[0] = 0 /\ \A k \in 1 .. m : f[k] = f[k - 1] + x[k]
  <2> HIDE DEF m
  <2>1. QED
    BY <1>2, <1>3, Sums
<1> DEFINE g == [n \in a - 1 .. b |-> f[n - (a - 1)]]
<1>5. \A n \in a - 1 .. b : n - (a - 1) \in 0 .. m
  BY <1>1
<1>6. g \in [a - 1 .. b -> Int] /\ \A n \in a - 1 .. b : g[n] = f[n - (a - 1)]
  BY <1>5
<1>7. g[a - 1] = 0
  <2>1. a - 1 \in a - 1 .. b /\ (a - 1) - (a - 1) = 0
    BY <1>1
  <2> HIDE DEF g
  <2>2. QED
    BY <1>4, <1>6, <2>1
<1> HIDE DEF g
<1>8. ASSUME NEW n \in a .. b PROVE g[n] = g[n - 1] + F[n]
  <2>1. /\ n \in a - 1 .. b /\ n - 1 \in a - 1 .. b /\ n - (a - 1) \in 1 .. m
        /\ a - 1 + (n - (a - 1)) = n /\ (n - (a - 1)) - 1 = (n - 1) - (a - 1)
    BY <1>1
  <2>2. g[n] = f[n - (a - 1)] /\ g[n - 1] = f[(n - 1) - (a - 1)]
    BY <1>6, <2>1
  <2>3. x[n - (a - 1)] = F[n]
    BY <1>3, <2>1
  <2>4. QED
    BY <1>4, <2>1, <2>2, <2>3
<1>9. QED
  BY <1>6, <1>7, <1>8 DEF SumsOf

\* and the sum is the last of any.
LEMMA SumIs ==
  ASSUME NEW F, NEW a, NEW b, Summable(F, a, b), NEW g, SumsOf(g, F, a, b)
  PROVE  SumOver(F, a, b) = g[b] /\ g[b] \in Int
<1>1. a \in Int /\ b \in Int /\ a <= b + 1 /\ \A n \in a .. b : F[n] \in Int
  BY DEF Summable
<1>2. /\ g \in [a - 1 .. b -> Int] /\ g[a - 1] = 0
      /\ \A n \in a .. b : g[n] = g[n - 1] + F[n]
  BY DEF SumsOf
<1> DEFINE IsSum(f) == f = [n \in a - 1 .. b |-> IF n < a THEN 0 ELSE f[n - 1] + F[n]]
           h == CHOOSE f : IsSum(f)
<1>3. IsSum(g)
  <2>1. ASSUME NEW n \in a - 1 .. b PROVE g[n] = IF n < a THEN 0 ELSE g[n - 1] + F[n]
    <3>1. CASE n < a
      <4>1. n = a - 1
        BY <1>1, <3>1
      <4>2. QED
        BY <1>2, <3>1, <4>1
    <3>2. CASE ~(n < a)
      <4>1. n \in a .. b
        BY <1>1, <3>2
      <4>2. QED
        BY <1>2, <3>2, <4>1
    <3>3. QED
      BY <3>1, <3>2
  <2>2. QED
    BY <1>2, <2>1
<1>4. IsSum(h)
  <2> HIDE DEF IsSum
  <2>1. QED
    BY <1>3
<1>5. SumOver(F, a, b) = h[b]
  BY DEF SumOver
<1> HIDE DEF h
<1>6. \A n \in a - 1 .. b : h[n] = IF n < a THEN 0 ELSE h[n - 1] + F[n]
  BY <1>4
<1> DEFINE m == b + 1 - a
           T == {j \in Nat : h[a - 1 + j] = g[a - 1 + j]}
<1>7. 0 \in T
  <2>1. a - 1 + 0 = a - 1 /\ a - 1 \in a - 1 .. b /\ a - 1 < a
    BY <1>1
  <2>2. h[a - 1] = g[a - 1]
    BY <1>2, <1>6, <2>1
  <2>3. QED
    BY <2>1, <2>2
<1>8. ASSUME NEW j \in 1 .. m, j - 1 \in T PROVE j \in T
  <2> DEFINE n == a - 1 + j
  <2>1. n \in a .. b /\ n \in a - 1 .. b /\ ~(n < a) /\ a - 1 + (j - 1) = n - 1 /\ j \in Nat
    BY <1>1
  <2>2. h[n - 1] = g[n - 1]
    BY <1>8, <2>1
  <2>3. h[n] = h[n - 1] + F[n] /\ g[n] = g[n - 1] + F[n]
    BY <1>2, <1>6, <2>1
  <2>4. QED
    BY <2>1, <2>2, <2>3
<1> HIDE DEF T
<1>9. m \in Nat /\ m \in 0 .. m /\ a - 1 + m = b
  BY <1>1
<1> HIDE DEF m
<1>10. m \in T
  <2>1. 0 .. m \subseteq T
    BY <1>7, <1>8, <1>9, RangeInduction
  <2>2. QED
    BY <1>9, <2>1
<1>11. h[b] = g[b]
  BY <1>9, <1>10 DEF T
<1>12. b \in a - 1 .. b
  BY <1>1
<1>13. QED
  BY <1>2, <1>5, <1>11, <1>12

\* A sum is one term more than the sum without its last,
LEMMA SumLast ==
  ASSUME NEW F, NEW a, NEW b, Summable(F, a, b), a <= b
  PROVE  /\ SumOver(F, a, b) = SumOver(F, a, b - 1) + F[b]
         /\ SumOver(F, a, b - 1) \in Int /\ Summable(F, a, b - 1)
<1>1. a \in Int /\ b \in Int /\ a <= b + 1 /\ \A n \in a .. b : F[n] \in Int
  BY DEF Summable
<1>2. Summable(F, a, b - 1)
  BY <1>1 DEF Summable
<1>3. PICK g : SumsOf(g, F, a, b)
  BY SumsExist
<1>4. /\ g \in [a - 1 .. b -> Int] /\ g[a - 1] = 0
      /\ \A n \in a .. b : g[n] = g[n - 1] + F[n]
  BY <1>3 DEF SumsOf
<1> DEFINE h == [n \in a - 1 .. b - 1 |-> g[n]]
<1>5. SumsOf(h, F, a, b - 1)
  <2>1. h \in [a - 1 .. b - 1 -> Int] /\ \A n \in a - 1 .. b - 1 : h[n] = g[n]
    BY <1>1, <1>4
  <2> HIDE DEF h
  <2>2. h[a - 1] = 0
    BY <1>1, <1>4, <2>1
  <2>3. \A n \in a .. b - 1 : h[n] = h[n - 1] + F[n]
    <3>1. ASSUME NEW n \in a .. b - 1 PROVE h[n] = h[n - 1] + F[n]
      <4>1. n \in a - 1 .. b - 1 /\ n - 1 \in a - 1 .. b - 1 /\ n \in a .. b
        BY <1>1
      <4>2. QED
        BY <1>4, <2>1, <4>1
    <3>2. QED
      BY <3>1
  <2>4. QED
    BY <2>1, <2>2, <2>3 DEF SumsOf
<1>6. h[b - 1] = g[b - 1]
  BY <1>1
<1> HIDE DEF h
<1>7. SumOver(F, a, b - 1) = g[b - 1] /\ g[b - 1] \in Int
  BY <1>2, <1>5, <1>6, SumIs
<1>8. SumOver(F, a, b) = g[b]
  BY <1>3, SumIs
<1>9. g[b] = g[b - 1] + F[b]
  BY <1>1, <1>4
<1>10. QED
  BY <1>2, <1>7, <1>8, <1>9

\* and nothing to begin with.
LEMMA SumNone ==
  ASSUME NEW F, NEW a \in Int
  PROVE  SumOver(F, a, a - 1) = 0 /\ Summable(F, a, a - 1)
<1> DEFINE g == [n \in a - 1 .. a - 1 |-> 0]
<1>1. Summable(F, a, a - 1)
  BY DEF Summable
<1>2. SumsOf(g, F, a, a - 1)
  BY DEF SumsOf
<1>3. g[a - 1] = 0
  OBVIOUS
<1> HIDE DEF g
<1>4. QED
  BY <1>1, <1>2, <1>3, SumIs

\* A sum is an integer.
LEMMA SumInt ==
  ASSUME NEW F, NEW a, NEW b, Summable(F, a, b)
  PROVE  SumOver(F, a, b) \in Int
<1>1. PICK g : SumsOf(g, F, a, b)
  BY SumsExist
<1>2. QED
  BY <1>1, SumIs

\* Sums of a sum and of a multiple.
LEMMA SumLinear ==
  ASSUME NEW F, NEW G, NEW H, NEW a, NEW b, NEW c \in Int,
         Summable(F, a, b), Summable(G, a, b), \A n \in a .. b : H[n] = F[n] + c * G[n]
  PROVE  /\ SumOver(H, a, b) = SumOver(F, a, b) + c * SumOver(G, a, b)
         /\ Summable(H, a, b)
<1>1. /\ a \in Int /\ b \in Int /\ a <= b + 1
      /\ \A n \in a .. b : F[n] \in Int /\ G[n] \in Int /\ H[n] = F[n] + c * G[n]
  BY DEF Summable
<1>2. Summable(H, a, b)
  <2>1. \A n \in a .. b : H[n] \in Int
    BY <1>1
  <2>2. QED
    BY <1>1, <2>1 DEF Summable
<1>3. PICK f : SumsOf(f, F, a, b)
  BY SumsExist
<1>4. PICK g : SumsOf(g, G, a, b)
  BY SumsExist
<1>5. /\ f \in [a - 1 .. b -> Int] /\ f[a - 1] = 0
      /\ \A n \in a .. b : f[n] = f[n - 1] + F[n]
  BY <1>3 DEF SumsOf
<1>6. /\ g \in [a - 1 .. b -> Int] /\ g[a - 1] = 0
      /\ \A n \in a .. b : g[n] = g[n - 1] + G[n]
  BY <1>4 DEF SumsOf
<1> DEFINE h == [n \in a - 1 .. b |-> f[n] + c * g[n]]
<1>7. h \in [a - 1 .. b -> Int] /\ \A n \in a - 1 .. b : h[n] = f[n] + c * g[n]
  BY <1>5, <1>6
<1> HIDE DEF h
<1>8. SumsOf(h, H, a, b)
  <2>1. h[a - 1] = 0
    <3>1. a - 1 \in a - 1 .. b
      BY <1>1
    <3>2. h[a - 1] = f[a - 1] + c * g[a - 1]
      BY <1>7, <3>1
    <3>3. QED
      BY <1>5, <1>6, <3>2
  <2>2. ASSUME NEW n \in a .. b PROVE h[n] = h[n - 1] + H[n]
    <3>1. n \in a - 1 .. b /\ n - 1 \in a - 1 .. b
      BY <1>1
    <3>2. /\ h[n] = f[n] + c * g[n] /\ h[n - 1] = f[n - 1] + c * g[n - 1]
          /\ f[n - 1] \in Int /\ g[n - 1] \in Int
      BY <1>5, <1>6, <1>7, <3>1
    <3>3. f[n] = f[n - 1] + F[n] /\ g[n] = g[n - 1] + G[n]
          /\ H[n] = F[n] + c * G[n] /\ F[n] \in Int /\ G[n] \in Int
      BY <1>1, <1>5, <1>6
    <3>4. \A p, q, r, s \in Int : (p + q) + c * (r + s) = (p + c * r) + (q + c * s)
      OBVIOUS
    <3>5. QED
      BY <3>2, <3>3, <3>4
  <2>3. QED
    BY <1>7, <2>1, <2>2 DEF SumsOf
<1>9. SumOver(H, a, b) = h[b]
  BY <1>2, <1>8, SumIs
<1>10. SumOver(F, a, b) = f[b] /\ SumOver(G, a, b) = g[b]
  BY <1>3, <1>4, SumIs
<1>11. h[b] = f[b] + c * g[b]
  BY <1>1, <1>7
<1>12. QED
  BY <1>2, <1>9, <1>10, <1>11

\* Sums of the same terms.
LEMMA SumSame ==
  ASSUME NEW F, NEW G, NEW a, NEW b, Summable(F, a, b), \A n \in a .. b : G[n] = F[n]
  PROVE  SumOver(G, a, b) = SumOver(F, a, b) /\ Summable(G, a, b)
<1>1. Summable(G, a, b)
  BY DEF Summable
<1>2. PICK f : SumsOf(f, F, a, b)
  BY SumsExist
<1>3. SumsOf(f, G, a, b)
  BY <1>2 DEF SumsOf
<1>4. QED
  BY <1>1, <1>2, <1>3, SumIs

\* A sum that begins with zeros.
LEMMA SumFrom ==
  ASSUME NEW F, NEW a, NEW b, NEW c \in Int, Summable(F, a, b), a <= c, c <= b + 1,
         \A n \in a .. c - 1 : F[n] = 0
  PROVE  SumOver(F, a, b) = SumOver(F, c, b)
<1>1. a \in Int /\ b \in Int /\ \A n \in a .. b : F[n] \in Int
  BY DEF Summable
<1>2. Summable(F, c, b)
  <2>1. c .. b \subseteq a .. b
    BY <1>1
  <2>2. QED
    BY <1>1, <2>1 DEF Summable
<1>3. PICK g : SumsOf(g, F, c, b)
  BY <1>2, SumsExist
<1>4. /\ g \in [c - 1 .. b -> Int] /\ g[c - 1] = 0
      /\ \A n \in c .. b : g[n] = g[n - 1] + F[n]
  BY <1>3 DEF SumsOf
<1> DEFINE h == [n \in a - 1 .. b |-> IF n < c THEN 0 ELSE g[n]]
<1>5. SumsOf(h, F, a, b)
  <2>1. ASSUME NEW n \in a - 1 .. b PROVE h[n] = (IF n < c THEN 0 ELSE g[n]) /\ h[n] \in Int
    <3>1. ~(n < c) => n \in c - 1 .. b
      BY <1>1
    <3>2. QED
      BY <1>4, <3>1
  <2>2. h \in [a - 1 .. b -> Int]
    BY <2>1
  <2> HIDE DEF h
  <2>3. h[a - 1] = 0
    <3>1. a - 1 \in a - 1 .. b /\ a - 1 < c
      BY <1>1
    <3>2. QED
      BY <2>1, <3>1
  <2>4. ASSUME NEW n \in a .. b PROVE h[n] = h[n - 1] + F[n]
    <3>1. n \in a - 1 .. b /\ n - 1 \in a - 1 .. b /\ n \in Int
      BY <1>1
    <3>2. CASE n < c
      <4>1. n \in a .. c - 1 /\ n - 1 < c
        BY <1>1, <3>2
      <4>2. h[n] = 0 /\ h[n - 1] = 0 /\ F[n] = 0
        BY <2>1, <3>1, <3>2, <4>1
      <4>3. QED
        BY <4>2
    <3>3. CASE n = c
      <4>1. h[n] = g[c] /\ h[n - 1] = 0
        BY <1>1, <2>1, <3>1, <3>3
      <4>2. c \in c .. b
        BY <1>1, <3>3
      <4>3. g[c] = g[c - 1] + F[c] /\ F[c] \in Int
        BY <1>1, <1>4, <4>2, <3>3
      <4>4. QED
        BY <1>4, <3>3, <4>1, <4>3
    <3>4. CASE n > c
      <4>1. ~(n < c) /\ ~(n - 1 < c) /\ n \in c .. b
        BY <1>1, <3>4
      <4>2. h[n] = g[n] /\ h[n - 1] = g[n - 1]
        BY <2>1, <3>1, <4>1
      <4>3. QED
        BY <1>4, <4>1, <4>2
    <3>5. QED
      BY <1>1, <3>2, <3>3, <3>4
  <2>5. QED
    BY <2>2, <2>3, <2>4 DEF SumsOf
<1>6. SumOver(F, a, b) = h[b]
  <2> HIDE DEF h
  <2>1. QED
    BY <1>5, SumIs
<1>7. SumOver(F, c, b) = g[b]
  BY <1>2, <1>3, SumIs
<1>8. h[b] = g[b]
  <2>1. b \in a - 1 .. b
    BY <1>1 DEF Summable
  <2>2. h[b] = IF b < c THEN 0 ELSE g[b]
    BY <2>1
  <2>3. b < c => b = c - 1
    BY <1>1
  <2>4. QED
    BY <1>4, <2>2, <2>3
<1>9. QED
  BY <1>6, <1>7, <1>8

\* A sum of naturals is no less than any of them.
LEMMA SumAtLeast ==
  ASSUME NEW F, NEW a, NEW b, Summable(F, a, b), \A n \in a .. b : F[n] >= 0
  PROVE  SumOver(F, a, b) >= 0 /\ \A k \in a .. b : SumOver(F, a, b) >= F[k]
<1>1. a \in Int /\ b \in Int /\ a <= b + 1 /\ \A n \in a .. b : F[n] \in Nat
  BY DEF Summable
<1>2. PICK g : SumsOf(g, F, a, b)
  BY SumsExist
<1>3. /\ g \in [a - 1 .. b -> Int] /\ g[a - 1] = 0
      /\ \A n \in a .. b : g[n] = g[n - 1] + F[n]
  BY <1>2 DEF SumsOf
<1> DEFINE m == b + 1 - a
           T == {j \in Nat : g[a - 1 + j] >= 0 /\ \A k \in a .. a - 1 + j : g[a - 1 + j] >= F[k]}
<1>4. 0 \in T
  <2>1. a - 1 + 0 = a - 1 /\ a .. a - 1 = {}
    BY <1>1
  <2>2. QED
    BY <1>3, <2>1
<1>5. ASSUME NEW j \in 1 .. m, j - 1 \in T PROVE j \in T
  <2> DEFINE n == a - 1 + j
  <2>1. /\ n \in a .. b /\ a - 1 + (j - 1) = n - 1 /\ j \in Nat /\ n \in Int
        /\ n - 1 \in a - 1 .. b
    BY <1>1
  <2>2. g[n - 1] >= 0 /\ \A k \in a .. n - 1 : g[n - 1] >= F[k]
    BY <1>5, <2>1
  <2>3. g[n] = g[n - 1] + F[n] /\ F[n] \in Nat /\ g[n - 1] \in Int
    BY <1>1, <1>3, <2>1
  <2>4. ASSUME NEW k \in a .. n PROVE g[n] >= F[k]
    <3>1. CASE k = n
      BY <2>2, <2>3, <3>1
    <3>2. CASE k # n
      <4>1. k \in a .. n - 1 /\ k \in a .. b
        BY <1>1, <2>1, <3>2
      <4>2. g[n - 1] >= F[k] /\ F[k] \in Nat
        BY <1>1, <2>2, <4>1
      <4>3. QED
        BY <2>3, <4>2
    <3>3. QED
      BY <3>1, <3>2
  <2>5. QED
    BY <2>1, <2>2, <2>3, <2>4
<1> HIDE DEF T
<1>6. m \in Nat /\ m \in 0 .. m /\ a - 1 + m = b
  BY <1>1
<1> HIDE DEF m
<1>7. m \in T
  <2>1. 0 .. m \subseteq T
    BY <1>4, <1>5, <1>6, RangeInduction
  <2>2. QED
    BY <1>6, <2>1
<1>8. g[b] >= 0 /\ \A k \in a .. b : g[b] >= F[k]
  BY <1>6, <1>7 DEF T
<1>9. SumOver(F, a, b) = g[b]
  BY <1>2, SumIs
<1>10. QED
  BY <1>8, <1>9

\* Short sums.
LEMMA SumOne ==
  ASSUME NEW F, F[1] \in Int
  PROVE  Summable(F, 1, 1) /\ SumOver(F, 1, 1) = F[1]
<1>1. Summable(F, 1, 1) /\ 1 <= 1
  BY DEF Summable
<1>2. SumOver(F, 1, 1) = SumOver(F, 1, 1 - 1) + F[1]
  BY <1>1, SumLast
<1>3. SumOver(F, 1, 1 - 1) = 0
  BY SumNone
<1>4. QED
  BY <1>1, <1>2, <1>3

\* Sums of two,
LEMMA SumTwo ==
  ASSUME NEW F, F[1] \in Int, F[2] \in Int
  PROVE  Summable(F, 1, 2) /\ SumOver(F, 1, 2) = F[1] + F[2]
<1>1. Summable(F, 1, 2) /\ 1 <= 2
  <2>1. \A n \in 1 .. 2 : n = 1 \/ n = 2
    OBVIOUS
  <2>2. QED
    BY <2>1 DEF Summable
<1>2. SumOver(F, 1, 2) = SumOver(F, 1, 2 - 1) + F[2]
  BY <1>1, SumLast
<1>3. QED
  BY <1>1, <1>2, SumOne

\* of three,
LEMMA SumThree ==
  ASSUME NEW F, F[1] \in Int, F[2] \in Int, F[3] \in Int
  PROVE  Summable(F, 1, 3) /\ SumOver(F, 1, 3) = F[1] + F[2] + F[3]
<1>1. Summable(F, 1, 3) /\ 1 <= 3
  <2>1. \A n \in 1 .. 3 : n = 1 \/ n = 2 \/ n = 3
    OBVIOUS
  <2>2. QED
    BY <2>1 DEF Summable
<1>2. SumOver(F, 1, 3) = SumOver(F, 1, 3 - 1) + F[3]
  BY <1>1, SumLast
<1>3. QED
  BY <1>1, <1>2, SumTwo

\* and of four.
LEMMA SumFour ==
  ASSUME NEW F, F[1] \in Int, F[2] \in Int, F[3] \in Int, F[4] \in Int
  PROVE  Summable(F, 1, 4) /\ SumOver(F, 1, 4) = F[1] + F[2] + F[3] + F[4]
<1>1. Summable(F, 1, 4) /\ 1 <= 4
  <2>1. \A n \in 1 .. 4 : n = 1 \/ n = 2 \/ n = 3 \/ n = 4
    OBVIOUS
  <2>2. QED
    BY <2>1 DEF Summable
<1>2. SumOver(F, 1, 4) = SumOver(F, 1, 4 - 1) + F[4]
  BY <1>1, SumLast
<1>3. QED
  BY <1>1, <1>2, SumThree

\* The sum of multiples,
LEMMA SumTimes ==
  ASSUME NEW G, NEW H, NEW a, NEW b, NEW c \in Int,
         Summable(G, a, b), \A n \in a .. b : H[n] = c * G[n]
  PROVE  SumOver(H, a, b) = c * SumOver(G, a, b) /\ Summable(H, a, b)
<1> DEFINE F == [n \in a .. b |-> 0]
           z == [n \in a - 1 .. b |-> 0]
<1>1. a \in Int /\ b \in Int /\ a <= b + 1 /\ \A n \in a .. b : G[n] \in Int
  BY DEF Summable
<1>2. Summable(F, a, b) /\ \A n \in a .. b : F[n] = 0
  BY <1>1 DEF Summable
<1>3. SumsOf(z, F, a, b) /\ z[b] = 0
  <2>1. z \in [a - 1 .. b -> Int] /\ \A n \in a - 1 .. b : z[n] = 0
    OBVIOUS
  <2>2. a - 1 \in a - 1 .. b /\ b \in a - 1 .. b
        /\ \A n \in a .. b : n \in a - 1 .. b /\ n - 1 \in a - 1 .. b
    BY <1>1
  <2> HIDE DEF z, F
  <2>3. QED
    BY <1>2, <2>1, <2>2 DEF SumsOf
<1>4. SumOver(F, a, b) = 0
  <2> HIDE DEF z, F
  <2>1. QED
    BY <1>2, <1>3, SumIs
<1> HIDE DEF F, z
<1>5. \A n \in a .. b : H[n] = F[n] + c * G[n]
  BY <1>1, <1>2
<1>6. SumOver(H, a, b) = SumOver(F, a, b) + c * SumOver(G, a, b) /\ Summable(H, a, b)
  BY <1>2, <1>5, SumLinear
<1>7. SumOver(G, a, b) \in Int
  BY SumInt
<1>8. QED
  BY <1>4, <1>6, <1>7

\* of two terms, and of four.
LEMMA SumPlus ==
  ASSUME NEW F, NEW G, NEW H, NEW a, NEW b,
         Summable(F, a, b), Summable(G, a, b), \A n \in a .. b : H[n] = F[n] + G[n]
  PROVE  SumOver(H, a, b) = SumOver(F, a, b) + SumOver(G, a, b) /\ Summable(H, a, b)
<1>1. \A n \in a .. b : H[n] = F[n] + 1 * G[n]
  BY DEF Summable
<1>2. 1 \in Int
  OBVIOUS
<1>3. SumOver(H, a, b) = SumOver(F, a, b) + 1 * SumOver(G, a, b) /\ Summable(H, a, b)
  BY <1>1, <1>2, SumLinear
<1>4. SumOver(G, a, b) \in Int
  BY SumInt
<1>5. QED
  BY <1>3, <1>4

\* The sum of four sums.
LEMMA SumQuad ==
  ASSUME NEW F1, NEW F2, NEW F3, NEW F4, NEW H, NEW a, NEW b,
         Summable(F1, a, b), Summable(F2, a, b), Summable(F3, a, b), Summable(F4, a, b),
         \A n \in a .. b : H[n] = F1[n] + F2[n] + F3[n] + F4[n]
  PROVE  /\ SumOver(H, a, b) = SumOver(F1, a, b) + SumOver(F2, a, b)
                               + SumOver(F3, a, b) + SumOver(F4, a, b)
         /\ Summable(H, a, b)
<1> DEFINE G2 == [n \in a .. b |-> F1[n] + F2[n]]
           G3 == [n \in a .. b |-> F1[n] + F2[n] + F3[n]]
<1>1. /\ \A n \in a .. b : G2[n] = F1[n] + F2[n]
      /\ \A n \in a .. b : G3[n] = G2[n] + F3[n]
      /\ \A n \in a .. b : H[n] = G3[n] + F4[n]
  OBVIOUS
<1> HIDE DEF G2, G3
<1>2. SumOver(G2, a, b) = SumOver(F1, a, b) + SumOver(F2, a, b) /\ Summable(G2, a, b)
  BY <1>1, SumPlus
<1>3. SumOver(G3, a, b) = SumOver(G2, a, b) + SumOver(F3, a, b) /\ Summable(G3, a, b)
  BY <1>1, <1>2, SumPlus
<1>4. SumOver(H, a, b) = SumOver(G3, a, b) + SumOver(F4, a, b) /\ Summable(H, a, b)
  BY <1>1, <1>3, SumPlus
<1>5. QED
  BY <1>2, <1>3, <1>4

-----------------------------------------------------------------------------
(* FcbSearch: signals.                                                     *)

\* The samples of a subframe.
LEMMA SamplesAre ==
  /\ SubframeLen \in Nat /\ SubframeLen >= 5 /\ SubframeLen = 5 * Steps
  /\ Samples = 0 .. SubframeLen - 1 /\ 0 \in Samples
  BY FcbConstants DEF SubframeLen, Samples

\* A list of values is the values.
LEMMA ListedIs ==
  ASSUME NEW f
  PROVE  Listed(f) = f
  BY DEF Listed

\* The enhancement of a signal is a signal, its first sample as it was.
LEMMA EnhancedIs ==
  ASSUME NEW c \in [Samples -> Int], NEW lag \in Nat, NEW beta \in Int
  PROVE  /\ ApplyPitchEnhancement(c, lag, beta) \in [Samples -> Int]
         /\ ApplyPitchEnhancement(c, lag, beta)[0] = c[0]
<1> DEFINE A == ApplyPitchEnhancement(c, lag, beta)
<1>1. CASE lag < 1 \/ lag >= SubframeLen
  BY <1>1, SamplesAre DEF ApplyPitchEnhancement
<1>2. CASE ~(lag < 1 \/ lag >= SubframeLen)
  <2> DEFINE last == SubframeLen - 1
             next(q, n) == IF n < lag THEN c[n]
                           ELSE Saturate16(c[n] + (beta * q[n - lag]) \div 16384)
             IsEnhanced(f) == f = [n \in Samples |-> next(f, n)]
             S == [Samples -> Int]
             step(q, k) == [n \in Samples |-> IF n = k THEN next(q, k) ELSE q[n]]
             E == [k \in 1 .. last |-> [q \in S |-> step(q, k)]]
  <2>1. lag \in 1 .. last /\ last \in Nat /\ Samples = 0 .. last
    BY <1>2, SamplesAre
  <2> HIDE DEF last
  <2>2. \A q \in S : \A n \in Samples : next(q, n) \in Int
    <3>1. ASSUME NEW q \in S, NEW n \in Samples PROVE next(q, n) \in Int
      <4>1. CASE n < lag
        BY <4>1
      <4>2. CASE ~(n < lag)
        <5>1. n - lag \in Samples
          BY <2>1, <4>2
        <5>2. q[n - lag] \in Int /\ c[n] \in Int
          BY <5>1
        <5> DEFINE p == beta * q[n - lag]
        <5>3. p \in Int
          BY <5>2
        <5> HIDE DEF p
        <5>4. c[n] + p \div 16384 \in Int
          BY <5>2, <5>3
        <5>5. \A v \in Int : Saturate16(v) \in Int
          BY DEF Saturate16
        <5>6. Saturate16(c[n] + p \div 16384) \in Int
          BY <5>4, <5>5
        <5>7. QED
          BY <4>2, <5>6 DEF p
      <4>3. QED
        BY <4>1, <4>2
    <3>2. QED
      BY <3>1
  <2>3. \A k \in 1 .. last : \A q \in S : step(q, k) \in S
    <3>1. ASSUME NEW k \in 1 .. last, NEW q \in S PROVE step(q, k) \in S
      <4>1. k \in Samples
        BY <2>1
      <4> HIDE DEF next, S
      <4>1a. next(q, k) \in Int
        BY <2>2, <4>1
      <4> USE DEF S
      <4>2. QED
        BY <4>1a
    <3>2. QED
      BY <3>1
  <2>4. c \in S
    OBVIOUS
  <2>5. \A q : \A k : \A n \in Samples :
          step(q, k)[n] = IF n = k THEN next(q, k) ELSE q[n]
    OBVIOUS
  <2>5a. \A q, r : \A n \in Samples :
           (n < lag \/ q[n - lag] = r[n - lag]) => next(q, n) = next(r, n)
    OBVIOUS
  <2>5b. \A q : \A n \in Samples : n < lag => next(q, n) = c[n]
    OBVIOUS
  <2>5c. \A f : IsEnhanced(f) => f \in [Samples -> {f[n] : n \in Samples}]
                                 /\ \A n \in Samples : f[n] = next(f, n)
    <3> HIDE DEF next
    <3>1. QED
      OBVIOUS
  <2>5d. A = LET enhanced == CHOOSE f : IsEnhanced(f) IN [n \in Samples |-> enhanced[n]]
    BY <1>2 DEF ApplyPitchEnhancement
  <2> DEFINE g == CHOOSE f : IsEnhanced(f)
  <2>5e. A = [n \in Samples |-> g[n]]
    BY <2>5d
  <2>5f. \A f : (f \in S /\ \A n \in Samples : f[n] = next(f, n)) => IsEnhanced(f)
    <3> HIDE DEF next
    <3>1. QED
      OBVIOUS
  <2> HIDE DEF A, step, next, S
  <2>6. E \in [1 .. last -> [S -> S]] /\ \A k \in 1 .. last : \A q \in S : E[k][q] = step(q, k)
    BY <2>3
  <2> HIDE DEF E
  <2>7. PICK f : Runs(f, S, c, last, E)
    BY <2>1, <2>4, <2>6, Recursion DEF StepsFrom
  <2>8. f \in [0 .. last -> S] /\ f[0] = c /\ \A k \in 1 .. last : f[k] = E[k][f[k - 1]]
    BY <2>7 DEF Runs
  <2>9. \A k \in 1 .. last : f[k] = step(f[k - 1], k)
    <3>1. \A k \in 1 .. last : k - 1 \in 0 .. last
      BY <2>1
    <3>2. QED
      BY <2>6, <2>8, <3>1
  \* After k steps the first k samples are enhanced, in place.
  <2> DEFINE T == {k \in Nat : \A n \in 0 .. k : f[k][n] = next(f[k], n)}
  <2>10. 0 \in T
    <3>1. f[0][0] = next(f[0], 0)
      BY <2>1, <2>5b, <2>8, SamplesAre
    <3>2. \A n \in 0 .. 0 : n = 0
      OBVIOUS
    <3>3. QED
      BY <3>1, <3>2
  <2>11. ASSUME NEW k \in 1 .. last, k - 1 \in T PROVE k \in T
    <3>1. k \in Nat /\ k \in Samples /\ 0 .. k \subseteq Samples
      BY <2>1
    <3>2. \A n \in Samples : f[k][n] = IF n = k THEN next(f[k - 1], k) ELSE f[k - 1][n]
      BY <2>5, <2>9
    <3>3. ASSUME NEW n \in 0 .. k PROVE f[k][n] = next(f[k], n)
      <4>1. n \in Samples /\ n \in Nat
        BY <3>1
      <4>2. n < lag \/ (n - lag \in Samples /\ n - lag # k)
        BY <2>1, <3>1, <4>1
      <4>3. n < lag \/ f[k][n - lag] = f[k - 1][n - lag]
        BY <3>2, <4>2
      <4>4. next(f[k], n) = next(f[k - 1], n)
        BY <2>5a, <4>1, <4>3
      <4>5. CASE n = k
        BY <3>2, <4>1, <4>4, <4>5
      <4>6. CASE n # k
        <5>1. n \in 0 .. k - 1
          BY <3>1, <4>6
        <5>2. f[k - 1][n] = next(f[k - 1], n)
          BY <2>11, <5>1
        <5>3. QED
          BY <3>2, <4>1, <4>4, <4>6, <5>2
      <4>7. QED
        BY <4>5, <4>6
    <3>4. QED
      BY <3>1, <3>3
  <2> HIDE DEF T
  <2>12. last \in T
    <3>1. last \in Nat /\ last \in 0 .. last
      BY <2>1
    <3>2. \A k \in 1 .. last : k - 1 \in T => k \in T
      BY <2>11
    <3>3. 0 .. last \subseteq T
      BY <3>1, <3>2, <2>10, RangeInduction
    <3>4. QED
      BY <3>1, <3>3
  <2>13. f[last] \in S /\ \A n \in Samples : f[last][n] = next(f[last], n)
    BY <2>1, <2>8, <2>12 DEF T
  <2> HIDE DEF IsEnhanced
  <2>14. IsEnhanced(g)
    <3>1. IsEnhanced(f[last])
      BY <2>5f, <2>13
    <3>2. QED
      BY <3>1
  <2> HIDE DEF g
  <2>15. \A n \in Samples : g[n] = next(g, n)
    BY <2>5c, <2>14
  \* There is only one: g is f[last].
  <2> DEFINE U == {k \in Nat : \A n \in 0 .. k : g[n] = f[last][n]}
  <2>16. 0 \in U
    <3>1. g[0] = c[0] /\ f[last][0] = c[0]
      BY <2>1, <2>5b, <2>13, <2>15, SamplesAre
    <3>2. \A n \in 0 .. 0 : n = 0
      OBVIOUS
    <3>3. QED
      BY <3>1, <3>2
  <2>17. ASSUME NEW k \in 1 .. last, k - 1 \in U PROVE k \in U
    <3>1. k \in Nat /\ k \in Samples
      BY <2>1
    <3>2. \A n \in 0 .. k - 1 : g[n] = f[last][n]
      BY <2>17
    <3>3. k < lag \/ k - lag \in 0 .. k - 1
      BY <2>1, <3>1
    <3>4. next(g, k) = next(f[last], k)
      BY <2>5a, <3>1, <3>2, <3>3
    <3>5. g[k] = f[last][k]
      BY <2>13, <2>15, <3>1, <3>4
    <3>6. \A n \in 0 .. k : n = k \/ n \in 0 .. k - 1
      BY <3>1
    <3>7. QED
      BY <3>1, <3>2, <3>5, <3>6
  <2> HIDE DEF U
  <2>18. last \in U
    <3>1. last \in Nat /\ last \in 0 .. last
      BY <2>1
    <3>2. \A k \in 1 .. last : k - 1 \in U => k \in U
      BY <2>17
    <3>3. 0 .. last \subseteq U
      BY <3>1, <3>2, <2>16, RangeInduction
    <3>4. QED
      BY <3>1, <3>3
  <2>19. \A n \in Samples : g[n] = f[last][n]
    BY <2>1, <2>18 DEF U
  <2>20. f[last] \in [Samples -> Int] /\ f[last][0] = c[0]
    <3>1. f[last][0] = c[0]
      BY <2>1, <2>5b, <2>13, SamplesAre
    <3>2. QED
      BY <2>13, <3>1 DEF S
  <2>21. A \in [Samples -> Int] /\ A[0] = c[0]
    BY <2>5e, <2>19, <2>20, SamplesAre
  <2>22. QED
    BY <2>21 DEF A
<1>3. QED
  BY <1>1, <1>2

\* The gain that sharpens is an integer.
LEMMA ClampedIs ==
  ASSUME NEW gp \in Int
  PROVE  ClampPitchGain(gp) \in Int
  BY DEF ClampPitchGain

Signals == [Samples -> Int]

\* The correlation at n, before it saturates.
Seen(x, h, n) ==
  SumOver([i \in n .. SubframeLen - 1 |-> x[i] * h[i - n]], n, SubframeLen - 1)

\* The product of the response from i and from j, before it saturates.
Shared(h, i, j) ==
  LET last == IF i < j THEN j ELSE i
  IN  SumOver([n \in last .. SubframeLen - 1 |-> h[n - i] * h[n - j]],
              last, SubframeLen - 1)

\* They are integers.
LEMMA SeenIs ==
  ASSUME NEW x \in Signals, NEW h \in Signals, NEW n \in Samples
  PROVE  /\ Seen(x, h, n) \in Int
         /\ Summable([i \in n .. SubframeLen - 1 |-> x[i] * h[i - n]], n, SubframeLen - 1)
<1> DEFINE F == [i \in n .. SubframeLen - 1 |-> x[i] * h[i - n]]
<1>1. ASSUME NEW i \in n .. SubframeLen - 1 PROVE x[i] * h[i - n] \in Int
  <2>1. i \in Samples /\ i - n \in Samples
    BY SamplesAre
  <2>2. x[i] \in Int /\ h[i - n] \in Int
    BY <2>1 DEF Signals
  <2>3. QED
    BY <2>2
<1>2. Summable(F, n, SubframeLen - 1)
  <2>1. n \in Int /\ SubframeLen - 1 \in Int /\ n <= (SubframeLen - 1) + 1
    BY SamplesAre
  <2>2. QED
    BY <1>1, <2>1 DEF Summable
<1> HIDE DEF F
<1>3. SumOver(F, n, SubframeLen - 1) \in Int
  BY <1>2, SumInt
<1>4. QED
  BY <1>2, <1>3 DEF F, Seen

\* So are the products of the response.
LEMMA SharedIs ==
  ASSUME NEW h \in Signals, NEW i \in Samples, NEW j \in Samples,
         NEW last, last = IF i < j THEN j ELSE i
  PROVE  /\ Shared(h, i, j) \in Int
         /\ Shared(h, i, j) = SumOver([n \in last .. SubframeLen - 1 |-> h[n - i] * h[n - j]],
                                      last, SubframeLen - 1)
         /\ Summable([n \in last .. SubframeLen - 1 |-> h[n - i] * h[n - j]],
                     last, SubframeLen - 1)
<1> DEFINE F == [n \in last .. SubframeLen - 1 |-> h[n - i] * h[n - j]]
<1>0. last \in Samples /\ last >= i /\ last >= j
  BY SamplesAre
<1>1. ASSUME NEW n \in last .. SubframeLen - 1 PROVE h[n - i] * h[n - j] \in Int
  <2>1. n - i \in Samples /\ n - j \in Samples
    BY <1>0, SamplesAre
  <2>2. h[n - i] \in Int /\ h[n - j] \in Int
    BY <2>1 DEF Signals
  <2>3. QED
    BY <2>2
<1>2. Summable(F, last, SubframeLen - 1)
  <2>1. last \in Int /\ SubframeLen - 1 \in Int /\ last <= (SubframeLen - 1) + 1
    BY <1>0, SamplesAre
  <2>2. QED
    BY <1>1, <2>1 DEF Summable
<1>3. Shared(h, i, j) = SumOver(F, last, SubframeLen - 1)
  BY DEF Shared
<1> HIDE DEF F
<1>4. SumOver(F, last, SubframeLen - 1) \in Int
  BY <1>2, SumInt
<1>5. QED
  BY <1>2, <1>3, <1>4 DEF F

\* Saturation leaves alone what it does not put at an edge.
LEMMA SaturateIs ==
  ASSUME NEW v \in Int
  PROVE  /\ Saturate32(v) \in Int
         /\ Saturate32(v) \in -Word + 1 .. Word - 2 => Saturate32(v) = v
<1>1. Word \in Nat
  BY FcbAssumption DEF FcbAssumption
<1>2. QED
  BY <1>1 DEF Saturate32

\* What a search is given.
LEMMA SurfaceIs ==
  ASSUME NEW x \in Signals, NEW h \in Signals
  PROVE  LET s == Surface(x, h)
         IN  \A i \in Samples :
               /\ s.sign[i] \in {-1, 1} /\ s.abs[i] \in Int
               /\ s.abs[i] \in 0 .. Word - 2 => s.abs[i] = s.sign[i] * Seen(x, h, i)
               /\ \A j \in Samples :
                    /\ s.phi[i][j] \in Int
                    /\ s.phi[i][j] \in -Word + 1 .. Word - 2 =>
                         s.phi[i][j] = IF i = j THEN Shared(h, i, j) \div 2
                                       ELSE Shared(h, i, j) * s.sign[i] * s.sign[j]
<1> DEFINE s == Surface(x, h)
           d == CorrelationD(x, h)
<1>1. \A n \in Samples : d[n] = Saturate32(Seen(x, h, n))
  BY DEF CorrelationD, Seen
<1>2. \A n \in Samples : d[n] \in Int
  BY <1>1, SeenIs, SaturateIs
<1>3. /\ s.abs = [n \in Samples |-> Magnitude(d, n)]
      /\ s.sign = [n \in Samples |-> SignOf(d, n)]
      /\ s.phi = [i \in Samples |-> [j \in Samples |-> PhiPrime(h, d, i, j)]]
  <2> HIDE DEF d
  <2>1. Listed(d) = d
    BY ListedIs
  <2>2. \A i \in Samples : Listed([j \in Samples |-> PhiPrime(h, d, i, j)])
                             = [j \in Samples |-> PhiPrime(h, d, i, j)]
    BY ListedIs
  <2>3. s = [abs |-> Listed([n \in Samples |-> Magnitude(d, n)]),
             sign |-> Listed([n \in Samples |-> SignOf(d, n)]),
             phi |-> Listed([i \in Samples |->
                               Listed([j \in Samples |-> PhiPrime(h, d, i, j)])])]
    BY <2>1 DEF Surface, d
  <2> HIDE DEF s
  <2>4. s.abs = [n \in Samples |-> Magnitude(d, n)]
    BY <2>3, ListedIs
  <2>5. s.sign = [n \in Samples |-> SignOf(d, n)]
    BY <2>3, ListedIs
  <2>6. s.phi = [i \in Samples |-> Listed([j \in Samples |-> PhiPrime(h, d, i, j)])]
    BY <2>3, ListedIs
  <2>7. s.phi = [i \in Samples |-> [j \in Samples |-> PhiPrime(h, d, i, j)]]
    BY <2>2, <2>6
  <2>8. QED
    BY <2>4, <2>5, <2>7
<1> HIDE DEF s, d
<1>4. ASSUME NEW i \in Samples
      PROVE  /\ s.sign[i] \in {-1, 1} /\ s.abs[i] \in Int
             /\ s.abs[i] \in 0 .. Word - 2 => s.abs[i] = s.sign[i] * Seen(x, h, i)
  <2>1. s.abs[i] = Magnitude(d, i) /\ s.sign[i] = SignOf(d, i)
    BY <1>3
  <2>2. d[i] = Saturate32(Seen(x, h, i)) /\ d[i] \in Int /\ Seen(x, h, i) \in Int /\ Word \in Nat
    BY <1>1, <1>2, SeenIs, FcbAssumption DEF FcbAssumption
  <2>3. s.sign[i] \in {-1, 1} /\ s.abs[i] \in Int
    BY <2>1, <2>2 DEF Magnitude, SignOf
  <2>4. ASSUME s.abs[i] \in 0 .. Word - 2 PROVE s.abs[i] = s.sign[i] * Seen(x, h, i)
    <3>1. d[i] \in -Word + 1 .. Word - 2
      BY <2>1, <2>2, <2>4 DEF Magnitude
    <3>2. d[i] = Seen(x, h, i)
      BY <2>2, <3>1, SaturateIs
    <3>3. Magnitude(d, i) = IF d[i] >= 0 THEN d[i] ELSE -d[i]
      BY <2>2, <3>1 DEF Magnitude
    <3>4. SignOf(d, i) = IF d[i] >= 0 THEN 1 ELSE -1
      BY DEF SignOf
    <3>5. QED
      BY <2>1, <2>2, <3>2, <3>3, <3>4
  <2>5. QED
    BY <2>3, <2>4
<1>5. ASSUME NEW i \in Samples, NEW j \in Samples
      PROVE  /\ s.phi[i][j] \in Int
             /\ s.phi[i][j] \in -Word + 1 .. Word - 2 =>
                  s.phi[i][j] = IF i = j THEN Shared(h, i, j) \div 2
                                ELSE Shared(h, i, j) * s.sign[i] * s.sign[j]
  <2> DEFINE v == IF i = j THEN Shared(h, i, j) \div 2
                  ELSE Shared(h, i, j) * SignOf(d, i) * SignOf(d, j)
  <2>1. s.phi[i][j] = PhiPrime(h, d, i, j) /\ s.sign[i] = SignOf(d, i) /\ s.sign[j] = SignOf(d, j)
    BY <1>3
  <2>2. PhiPrime(h, d, i, j) = Saturate32(v)
    BY DEF PhiPrime, Shared
  <2>3. v \in Int
    <3> DEFINE last == IF i < j THEN j ELSE i
    <3>1. Shared(h, i, j) \in Int
      BY SharedIs
    <3>2. SignOf(d, i) \in Int /\ SignOf(d, j) \in Int
      BY DEF SignOf
    <3>3. Shared(h, i, j) * SignOf(d, i) \in Int
      BY <3>1, <3>2
    <3>4. Shared(h, i, j) * SignOf(d, i) * SignOf(d, j) \in Int
      BY <3>2, <3>3
    <3>5. QED
      BY <3>1, <3>4
  <2>4. Saturate32(v) \in Int /\ (Saturate32(v) \in -Word + 1 .. Word - 2 => Saturate32(v) = v)
    <3> HIDE DEF v
    <3>1. QED
      BY <2>3, SaturateIs
  <2>5. v = IF i = j THEN Shared(h, i, j) \div 2
            ELSE Shared(h, i, j) * s.sign[i] * s.sign[j]
    BY <2>1
  <2> HIDE DEF v
  <2>6. QED
    BY <2>1, <2>2, <2>4, <2>5
<1>6. QED
  BY <1>4, <1>5 DEF s

\* Four different samples of the subframe.
LEMMA PositionsAre ==
  ASSUME NEW m \in Candidates
  PROVE  /\ m \in Seq(Nat) /\ Len(m) = 4
         /\ m[1] \in Samples /\ m[2] \in Samples /\ m[3] \in Samples /\ m[4] \in Samples
         /\ m[1] # m[2] /\ m[1] # m[3] /\ m[1] # m[4]
         /\ m[2] # m[3] /\ m[2] # m[4] /\ m[3] # m[4]
<1>1. PICK a, b, c, d \in 0 .. Steps - 1 : \E j \in 0 .. 1 : m = Quad(a, b, c, d, j)
  BY DEF Candidates
<1>2. PICK j \in 0 .. 1 : m = Quad(a, b, c, d, j)
  BY <1>1
<1>3. /\ m[1] = 5 * a /\ m[2] = 5 * b + 1 /\ m[3] = 5 * c + 2 /\ m[4] = 5 * d + 3 + j
      /\ Len(m) = 4
  BY <1>2 DEF Quad
<1>4. m \in Seq(Nat)
  BY DEF Candidates
<1>5. /\ m[1] \in Samples /\ m[2] \in Samples /\ m[3] \in Samples /\ m[4] \in Samples
  BY <1>3, SamplesAre, FcbConstants
<1>6. /\ m[1] # m[2] /\ m[1] # m[3] /\ m[1] # m[4]
      /\ m[2] # m[3] /\ m[2] # m[4] /\ m[3] # m[4]
  BY <1>3
<1>7. QED
  BY <1>3, <1>4, <1>5, <1>6

-----------------------------------------------------------------------------
(* FcbSearch: what the search compares.                                    *)

\* The response to a pulse of sign q at p.
Echo(h, p, q) == [n \in Samples |-> IF p > n THEN 0 ELSE q * h[n - p]]

\* Products of two signals.
Times(f, g) == [n \in Samples |-> f[n] * g[n]]

Whole(f) == SumOver(f, 0, SubframeLen - 1)

\* A signal can be summed.
LEMMA SignalSums ==
  ASSUME NEW f \in Signals
  PROVE  Summable(f, 0, SubframeLen - 1) /\ Whole(f) \in Int
<1>1. Summable(f, 0, SubframeLen - 1)
  <2>1. SubframeLen - 1 \in Int /\ 0 <= (SubframeLen - 1) + 1
    BY SamplesAre
  <2>2. \A n \in 0 .. SubframeLen - 1 : f[n] \in Int
    BY SamplesAre DEF Signals
  <2>3. QED
    BY <2>1, <2>2 DEF Summable
<1>2. QED
  BY <1>1, SumInt DEF Whole

\* The product of two signals is one.
LEMMA TimesIs ==
  ASSUME NEW f \in Signals, NEW g \in Signals
  PROVE  Times(f, g) \in Signals /\ \A n \in Samples : Times(f, g)[n] = f[n] * g[n]
  BY DEF Times, Signals

\* The response to a pulse is silent before it and begins with the sign of the pulse.
LEMMA EchoIs ==
  ASSUME NEW h \in Signals, NEW p \in Samples, NEW q \in {-1, 1}
  PROVE  /\ Echo(h, p, q) \in Signals
         /\ \A n \in Samples : n < p => Echo(h, p, q)[n] = 0
         /\ \A n \in Samples : n >= p => n - p \in Samples /\ Echo(h, p, q)[n] = q * h[n - p]
         /\ Echo(h, p, q)[p] = q * h[0]
<1>1. \A n \in Samples : Echo(h, p, q)[n] = IF p > n THEN 0 ELSE q * h[n - p]
  BY DEF Echo
<1>2. \A n \in Samples : n >= p => n - p \in Samples /\ h[n - p] \in Int
  BY SamplesAre DEF Signals
<1>3. \A n \in Samples : (IF p > n THEN 0 ELSE q * h[n - p]) \in Int
  BY <1>2, SamplesAre
<1>4. Echo(h, p, q) \in Signals
  BY <1>3 DEF Echo, Signals
<1>5. p - p = 0 /\ p >= p
  BY SamplesAre
<1>6. \A n \in Samples : n >= p => Echo(h, p, q)[n] = q * h[n - p]
  BY <1>1, SamplesAre
<1>7. QED
  BY <1>1, <1>2, <1>4, <1>5, <1>6

\* The correlation of the target with the response to a pulse.
LEMMA EchoSeen ==
  ASSUME NEW x \in Signals, NEW h \in Signals, NEW p \in Samples, NEW q \in {-1, 1}
  PROVE  Whole(Times(x, Echo(h, p, q))) = q * Seen(x, h, p)
<1> DEFINE L == SubframeLen - 1
           F == Times(x, Echo(h, p, q))
           G == [i \in p .. L |-> x[i] * h[i - p]]
           e == Echo(h, p, q)
<1>0. L \in Nat /\ Samples = 0 .. L /\ p \in 0 .. L
  BY SamplesAre
<1>1. e \in Signals /\ (\A n \in Samples : n < p => e[n] = 0)
      /\ \A n \in Samples : n >= p => n - p \in Samples /\ e[n] = q * h[n - p]
  BY EchoIs
<1>1a. F \in Signals /\ \A n \in Samples : F[n] = x[n] * e[n]
  BY <1>1, TimesIs
<1>2. Summable(F, 0, L) /\ Whole(F) = SumOver(F, 0, L)
  BY <1>1a, SignalSums DEF Whole
<1>2a. Summable(G, p, L) /\ Seen(x, h, p) = SumOver(G, p, L)
  BY SeenIs DEF Seen
<1>2b. \A n \in p .. L : G[n] = x[n] * h[n - p]
  OBVIOUS
<1> HIDE DEF F, G, e, L
<1>3. \A n \in 0 .. p - 1 : F[n] = 0
  <2>1. \A n \in 0 .. p - 1 : n \in Samples /\ n < p
    BY <1>0
  <2>2. \A n \in 0 .. p - 1 : F[n] = x[n] * 0 /\ x[n] \in Int
    BY <1>1, <1>1a, <2>1 DEF Signals
  <2>3. QED
    BY <2>2
<1>4. \A n \in p .. L : F[n] = q * G[n]
  <2>1. \A n \in p .. L : n \in Samples /\ n >= p
    BY <1>0
  <2>2. \A n \in p .. L : F[n] = x[n] * (q * h[n - p]) /\ x[n] \in Int /\ h[n - p] \in Int
    BY <1>1, <1>1a, <2>1 DEF Signals
  <2>3. \A u, v \in Int : u * (q * v) = q * (u * v)
    OBVIOUS
  <2>4. \A n \in p .. L : F[n] = q * (x[n] * h[n - p])
    BY <2>2, <2>3
  <2>5. QED
    BY <1>2b, <2>4
<1>5. SumOver(F, 0, L) = SumOver(F, p, L)
  <2>1. 0 <= p /\ p <= L + 1 /\ p \in Int
    BY <1>0
  <2>2. QED
    BY <1>2, <1>3, <2>1, SumFrom
<1>6. SumOver(F, p, L) = q * SumOver(G, p, L)
  <2>1. q \in Int
    OBVIOUS
  <2>2. QED
    BY <1>2a, <1>4, <2>1, SumTimes
<1>7. Whole(F) = q * Seen(x, h, p)
  BY <1>2, <1>2a, <1>5, <1>6
<1>8. QED
  BY <1>7 DEF F, e

\* The product of the responses to two pulses.
LEMMA EchoShared ==
  ASSUME NEW h \in Signals, NEW p \in Samples, NEW q \in {-1, 1},
         NEW r \in Samples, NEW u \in {-1, 1}
  PROVE  Whole(Times(Echo(h, p, q), Echo(h, r, u))) = Shared(h, p, r) * q * u
<1> DEFINE L == SubframeLen - 1
           e == Echo(h, p, q)
           f == Echo(h, r, u)
           F == Times(e, f)
           last == IF p < r THEN r ELSE p
           G == [n \in last .. L |-> h[n - p] * h[n - r]]
<1>0. /\ L \in Nat /\ Samples = 0 .. L /\ last \in 0 .. L /\ p \in 0 .. L /\ r \in 0 .. L
      /\ last \in Samples /\ last >= p /\ last >= r /\ (last = p \/ last = r)
      /\ last = IF p < r THEN r ELSE p
  BY SamplesAre
<1>1. e \in Signals /\ (\A n \in Samples : n < p => e[n] = 0)
      /\ \A n \in Samples : n >= p => n - p \in Samples /\ e[n] = q * h[n - p]
  BY EchoIs
<1>2. f \in Signals /\ (\A n \in Samples : n < r => f[n] = 0)
      /\ \A n \in Samples : n >= r => n - r \in Samples /\ f[n] = u * h[n - r]
  BY EchoIs
<1> HIDE DEF last, e, f
<1>3. Summable(G, last, L) /\ Shared(h, p, r) = SumOver(G, last, L)
  BY <1>0, SharedIs
<1>4. F \in Signals /\ \A n \in Samples : F[n] = e[n] * f[n]
  BY <1>1, <1>2, TimesIs
<1>5. Summable(F, 0, L) /\ Whole(F) = SumOver(F, 0, L)
  BY <1>4, SignalSums DEF Whole
<1>6. \A n \in last .. L : G[n] = h[n - p] * h[n - r]
  OBVIOUS
<1> HIDE DEF F, G, L
<1>7. \A n \in 0 .. last - 1 : F[n] = 0
  <2>1. \A n \in 0 .. last - 1 : n \in Samples /\ (n < p \/ n < r)
    BY <1>0
  <2>2. \A n \in 0 .. last - 1 : e[n] \in Int /\ f[n] \in Int /\ F[n] = e[n] * f[n]
                                 /\ (e[n] = 0 \/ f[n] = 0)
    BY <1>1, <1>2, <1>4, <2>1 DEF Signals
  <2>3. QED
    BY <2>2
<1>8. \A n \in last .. L : F[n] = (q * u) * G[n]
  <2>1. \A n \in last .. L : n \in Samples /\ n >= p /\ n >= r
    BY <1>0
  <2>2. \A n \in last .. L : F[n] = (q * h[n - p]) * (u * h[n - r]) /\ h[n - p] \in Int
                             /\ h[n - r] \in Int
    BY <1>1, <1>2, <1>4, <2>1 DEF Signals
  <2>3. \A v, w \in Int : (q * v) * (u * w) = (q * u) * (v * w)
    OBVIOUS
  <2>4. \A n \in last .. L : F[n] = (q * u) * (h[n - p] * h[n - r])
    BY <2>2, <2>3
  <2>5. QED
    BY <1>6, <2>4
<1>9. SumOver(F, 0, L) = SumOver(F, last, L)
  <2>1. 0 <= last /\ last <= L + 1 /\ last \in Int
    BY <1>0
  <2>2. QED
    BY <1>5, <1>7, <2>1, SumFrom
<1>10. SumOver(F, last, L) = (q * u) * SumOver(G, last, L)
  <2>1. q * u \in Int
    OBVIOUS
  <2> DEFINE c == q * u
  <2> HIDE DEF c
  <2>2. \A n \in last .. L : F[n] = c * G[n]
    BY <1>8 DEF c
  <2>3. c \in Int
    BY <2>1 DEF c
  <2>4. SumOver(F, last, L) = c * SumOver(G, last, L)
    BY <1>3, <2>2, <2>3, SumTimes
  <2>5. QED
    BY <2>4 DEF c
<1>11. Shared(h, p, r) \in Int
  BY SharedIs
<1>12. Whole(F) = Shared(h, p, r) * q * u
  <2>1. \A v \in Int : (q * u) * v = v * q * u
    OBVIOUS
  <2>2. QED
    BY <1>3, <1>5, <1>9, <1>10, <1>11, <2>1
<1>13. QED
  BY <1>12 DEF F, e, f

\* A signal that is the sum of four.
AddsUp(Z, A, B, C, D) ==
  /\ A \in Signals /\ B \in Signals /\ C \in Signals /\ D \in Signals /\ Z \in Signals
  /\ \A n \in Samples : Z[n] = A[n] + B[n] + C[n] + D[n]

\* The square of a sum of four signals,
LEMMA SquareOfFour ==
  ASSUME NEW Z, NEW A, NEW B, NEW C, NEW D, AddsUp(Z, A, B, C, D)
  PROVE  Whole(Times(Z, Z))
           = Whole(Times(A, A)) + Whole(Times(B, B)) + Whole(Times(C, C)) + Whole(Times(D, D))
             + 2 * (Whole(Times(A, B)) + Whole(Times(A, C)) + Whole(Times(A, D))
                    + Whole(Times(B, C)) + Whole(Times(B, D)) + Whole(Times(C, D)))
<1> USE DEF AddsUp
<1> DEFINE L == SubframeLen - 1
           Own == [n \in Samples |-> A[n] * A[n] + B[n] * B[n] + C[n] * C[n] + D[n] * D[n]]
           Half == [n \in Samples |-> A[n] * B[n] + A[n] * C[n] + A[n] * D[n] + B[n] * C[n]]
           Most == [n \in Samples |-> Half[n] + B[n] * D[n]]
           Mixed == [n \in Samples |-> Most[n] + C[n] * D[n]]
<1>1. Samples = 0 .. L
  BY SamplesAre
<1>2. \A n \in Samples : A[n] \in Int /\ B[n] \in Int /\ C[n] \in Int /\ D[n] \in Int
  BY DEF Signals
<1>3. \A f, g \in Signals : /\ Summable(Times(f, g), 0, L)
                            /\ Whole(Times(f, g)) = SumOver(Times(f, g), 0, L)
                            /\ \A n \in 0 .. L : Times(f, g)[n] = f[n] * g[n]
  BY <1>1, TimesIs, SignalSums DEF Whole
<1>4. /\ \A n \in 0 .. L :
           Own[n] = Times(A, A)[n] + Times(B, B)[n] + Times(C, C)[n] + Times(D, D)[n]
      /\ \A n \in 0 .. L :
           Half[n] = Times(A, B)[n] + Times(A, C)[n] + Times(A, D)[n] + Times(B, C)[n]
      /\ \A n \in 0 .. L : Most[n] = Half[n] + Times(B, D)[n]
      /\ \A n \in 0 .. L : Mixed[n] = Most[n] + Times(C, D)[n]
  BY <1>1, <1>3
<1>5. \A n \in 0 .. L : Times(Z, Z)[n] = Own[n] + 2 * Mixed[n]
  <2>1. \A a, b, c, d \in Int :
          (a + b + c + d) * (a + b + c + d)
            = (a * a + b * b + c * c + d * d)
              + 2 * (((a * b + a * c + a * d + b * c) + b * d) + c * d)
    OBVIOUS
  <2>2. ASSUME NEW n \in 0 .. L PROVE Times(Z, Z)[n] = Own[n] + 2 * Mixed[n]
    <3>1. n \in Samples
      BY <1>1
    <3>2. Times(Z, Z)[n] = (A[n] + B[n] + C[n] + D[n]) * (A[n] + B[n] + C[n] + D[n])
      <4>1. Times(Z, Z)[n] = Z[n] * Z[n]
        BY <1>3
      <4>2. Z[n] = A[n] + B[n] + C[n] + D[n]
        BY <3>1
      <4>3. QED
        BY <4>1, <4>2
    <3>3. /\ Own[n] = A[n] * A[n] + B[n] * B[n] + C[n] * C[n] + D[n] * D[n]
          /\ Mixed[n] = ((A[n] * B[n] + A[n] * C[n] + A[n] * D[n] + B[n] * C[n]) + B[n] * D[n])
                        + C[n] * D[n]
      BY <3>1
    <3>4. QED
      BY <1>2, <2>1, <3>1, <3>2, <3>3
  <2>3. QED
    BY <2>2
<1> HIDE DEF Own, Half, Most, Mixed, L
<1>5a. Summable(Times(A, A), 0, L) /\ Summable(Times(B, B), 0, L)
       /\ Summable(Times(C, C), 0, L) /\ Summable(Times(D, D), 0, L)
  BY <1>3
<1>5b. Summable(Times(A, B), 0, L) /\ Summable(Times(A, C), 0, L)
       /\ Summable(Times(A, D), 0, L) /\ Summable(Times(B, C), 0, L)
       /\ Summable(Times(B, D), 0, L) /\ Summable(Times(C, D), 0, L)
  BY <1>3
<1>6. /\ SumOver(Own, 0, L) = SumOver(Times(A, A), 0, L) + SumOver(Times(B, B), 0, L)
                              + SumOver(Times(C, C), 0, L) + SumOver(Times(D, D), 0, L)
      /\ Summable(Own, 0, L)
  <2>1. \A n \in 0 .. L : Own[n] = Times(A, A)[n] + Times(B, B)[n] + Times(C, C)[n] + Times(D, D)[n]
    BY <1>4
  <2> DEFINE AA == Times(A, A)
             BB == Times(B, B)
             CC == Times(C, C)
             DD == Times(D, D)
  <2>2. /\ Summable(AA, 0, L) /\ Summable(BB, 0, L) /\ Summable(CC, 0, L) /\ Summable(DD, 0, L)
        /\ \A n \in 0 .. L : Own[n] = AA[n] + BB[n] + CC[n] + DD[n]
    BY <1>5a, <2>1
  <2> HIDE DEF AA, BB, CC, DD
  <2>3. SumOver(Own, 0, L) = SumOver(AA, 0, L) + SumOver(BB, 0, L) + SumOver(CC, 0, L)
                             + SumOver(DD, 0, L)
        /\ Summable(Own, 0, L)
    BY <2>2, SumQuad
  <2>4. QED
    BY <2>3 DEF AA, BB, CC, DD
<1>7. /\ SumOver(Half, 0, L) = SumOver(Times(A, B), 0, L) + SumOver(Times(A, C), 0, L)
                               + SumOver(Times(A, D), 0, L) + SumOver(Times(B, C), 0, L)
      /\ Summable(Half, 0, L)
  <2>1. \A n \in 0 .. L :
          Half[n] = Times(A, B)[n] + Times(A, C)[n] + Times(A, D)[n] + Times(B, C)[n]
    BY <1>4
  <2> DEFINE AB == Times(A, B)
             AC == Times(A, C)
             AD == Times(A, D)
             BC == Times(B, C)
  <2>2. /\ Summable(AB, 0, L) /\ Summable(AC, 0, L) /\ Summable(AD, 0, L) /\ Summable(BC, 0, L)
        /\ \A n \in 0 .. L : Half[n] = AB[n] + AC[n] + AD[n] + BC[n]
    BY <1>5b, <2>1
  <2> HIDE DEF AB, AC, AD, BC
  <2>3. SumOver(Half, 0, L) = SumOver(AB, 0, L) + SumOver(AC, 0, L) + SumOver(AD, 0, L)
                              + SumOver(BC, 0, L)
        /\ Summable(Half, 0, L)
    BY <2>2, SumQuad
  <2>4. QED
    BY <2>3 DEF AB, AC, AD, BC
<1>8. SumOver(Most, 0, L) = SumOver(Half, 0, L) + SumOver(Times(B, D), 0, L) /\ Summable(Most, 0, L)
  BY <1>5b, <1>4, <1>7, SumPlus
<1>9. /\ SumOver(Mixed, 0, L) = SumOver(Most, 0, L) + SumOver(Times(C, D), 0, L)
      /\ Summable(Mixed, 0, L)
  BY <1>5b, <1>4, <1>8, SumPlus
<1>10. SumOver(Times(Z, Z), 0, L) = SumOver(Own, 0, L) + 2 * SumOver(Mixed, 0, L)
  <2>1. 2 \in Int
    OBVIOUS
  <2>2. QED
    BY <1>5, <1>6, <1>9, <2>1, SumLinear
<1>11. \A f, g \in Signals : SumOver(Times(f, g), 0, L) = Whole(Times(f, g))
                             /\ Whole(Times(f, g)) \in Int
  BY <1>3, TimesIs, SignalSums
<1>12. QED
  BY <1>6, <1>7, <1>8, <1>9, <1>10, <1>11

\* and its product with another.
LEMMA ProductWithFour ==
  ASSUME NEW x \in Signals, NEW Z, NEW A, NEW B, NEW C, NEW D, AddsUp(Z, A, B, C, D)
  PROVE  Whole(Times(x, Z)) = Whole(Times(x, A)) + Whole(Times(x, B))
                              + Whole(Times(x, C)) + Whole(Times(x, D))
<1> USE DEF AddsUp
<1> DEFINE L == SubframeLen - 1
<1>1. Samples = 0 .. L
  BY SamplesAre
<1>2. \A n \in Samples :
        x[n] \in Int /\ A[n] \in Int /\ B[n] \in Int /\ C[n] \in Int /\ D[n] \in Int
  BY DEF Signals
<1>3. \A f, g \in Signals : /\ Summable(Times(f, g), 0, L)
                            /\ Whole(Times(f, g)) = SumOver(Times(f, g), 0, L)
                            /\ \A n \in 0 .. L : Times(f, g)[n] = f[n] * g[n]
  BY <1>1, TimesIs, SignalSums DEF Whole
<1>4. \A n \in 0 .. L : Times(x, Z)[n] = Times(x, A)[n] + Times(x, B)[n] + Times(x, C)[n]
                                         + Times(x, D)[n]
  <2>1. \A v, a, b, c, d \in Int : v * (a + b + c + d) = v * a + v * b + v * c + v * d
    OBVIOUS
  <2>2. \A n \in 0 .. L : Times(x, Z)[n] = x[n] * (A[n] + B[n] + C[n] + D[n])
    BY <1>1, <1>3
  <2>3. ASSUME NEW n \in 0 .. L
        PROVE  Times(x, Z)[n] = Times(x, A)[n] + Times(x, B)[n] + Times(x, C)[n] + Times(x, D)[n]
    <3>1. /\ Times(x, A)[n] = x[n] * A[n] /\ Times(x, B)[n] = x[n] * B[n]
          /\ Times(x, C)[n] = x[n] * C[n] /\ Times(x, D)[n] = x[n] * D[n]
      BY <1>3
    <3>2. x[n] * (A[n] + B[n] + C[n] + D[n])
            = x[n] * A[n] + x[n] * B[n] + x[n] * C[n] + x[n] * D[n]
      BY <1>1, <1>2, <2>1
    <3>3. QED
      BY <2>2, <3>1, <3>2
  <2>4. QED
    BY <2>3
<1> HIDE DEF L
<1>4a. Summable(Times(x, A), 0, L) /\ Summable(Times(x, B), 0, L)
       /\ Summable(Times(x, C), 0, L) /\ Summable(Times(x, D), 0, L)
  BY <1>3
<1>5. SumOver(Times(x, Z), 0, L) = SumOver(Times(x, A), 0, L) + SumOver(Times(x, B), 0, L)
                                   + SumOver(Times(x, C), 0, L) + SumOver(Times(x, D), 0, L)
  BY <1>4, <1>4a, SumQuad
<1>6. QED
  BY <1>3, <1>5

\* No square sum is less than one of its squares.
LEMMA SquareAtLeast ==
  ASSUME NEW Z \in Signals, NEW p \in Samples
  PROVE  Whole(Times(Z, Z)) >= Z[p] * Z[p]
<1>1. Times(Z, Z) \in Signals /\ \A n \in Samples : Times(Z, Z)[n] = Z[n] * Z[n]
  BY TimesIs
<1>2. \A n \in Samples : Z[n] \in Int
  BY DEF Signals
<1>3. \A v \in Int : v * v >= 0
  OBVIOUS
<1>4. Summable(Times(Z, Z), 0, SubframeLen - 1)
  BY <1>1, SignalSums
<1>5. \A n \in 0 .. SubframeLen - 1 : Times(Z, Z)[n] >= 0
  BY <1>1, <1>2, <1>3, SamplesAre
<1>6. \A k \in 0 .. SubframeLen - 1 : Whole(Times(Z, Z)) >= Times(Z, Z)[k]
  BY <1>4, <1>5, SumAtLeast DEF Whole
<1>7. QED
  BY <1>1, <1>6, SamplesAre

\* The energy and the correlation of four pulses, added up.
LEMMA EnergyIs ==
  ASSUME NEW s, NEW m,
         \A i, j \in 1 .. 4 : s.phi[m[i]][m[j]] \in Int
  PROVE  Energy(s, m)
           = s.phi[m[1]][m[1]] + s.phi[m[2]][m[2]] + s.phi[m[3]][m[3]] + s.phi[m[4]][m[4]]
             + (s.phi[m[1]][m[2]] + s.phi[m[1]][m[3]] + s.phi[m[1]][m[4]]
                + s.phi[m[2]][m[3]] + s.phi[m[2]][m[4]] + s.phi[m[3]][m[4]])
<1> DEFINE c(l, k) == s.phi[m[l]][m[k]]
           R(k) == [l \in 1 .. k |-> c(l, k)]
           G == [k \in 1 .. 4 |-> SumOver(R(k), 1, k)]
<1>1. Energy(s, m) = SumOver(G, 1, 4)
  BY DEF Energy
<1>2. \A l, k \in 1 .. 4 : c(l, k) \in Int
  OBVIOUS
<1>3. \A k \in 1 .. 4 : \A l \in 1 .. k : R(k)[l] = c(l, k)
  OBVIOUS
<1>4. G[1] = SumOver(R(1), 1, 1) /\ G[2] = SumOver(R(2), 1, 2) /\ G[3] = SumOver(R(3), 1, 3)
      /\ G[4] = SumOver(R(4), 1, 4)
  OBVIOUS
<1> HIDE DEF c, R, G
<1>5. /\ R(1)[1] = c(1, 1)
      /\ R(2)[1] = c(1, 2) /\ R(2)[2] = c(2, 2)
      /\ R(3)[1] = c(1, 3) /\ R(3)[2] = c(2, 3) /\ R(3)[3] = c(3, 3)
      /\ R(4)[1] = c(1, 4) /\ R(4)[2] = c(2, 4) /\ R(4)[3] = c(3, 4) /\ R(4)[4] = c(4, 4)
  BY <1>3
<1>6. /\ c(1, 1) \in Int /\ c(1, 2) \in Int /\ c(2, 2) \in Int /\ c(1, 3) \in Int
      /\ c(2, 3) \in Int /\ c(3, 3) \in Int /\ c(1, 4) \in Int /\ c(2, 4) \in Int
      /\ c(3, 4) \in Int /\ c(4, 4) \in Int
  BY <1>2
<1>7. G[1] = c(1, 1)
  BY <1>4, <1>5, <1>6, SumOne
<1>8. G[2] = c(1, 2) + c(2, 2)
  BY <1>4, <1>5, <1>6, SumTwo
<1>9. G[3] = c(1, 3) + c(2, 3) + c(3, 3)
  BY <1>4, <1>5, <1>6, SumThree
<1>10. G[4] = c(1, 4) + c(2, 4) + c(3, 4) + c(4, 4)
  BY <1>4, <1>5, <1>6, SumFour
<1>11. G[1] \in Int /\ G[2] \in Int /\ G[3] \in Int /\ G[4] \in Int
  BY <1>6, <1>7, <1>8, <1>9, <1>10
<1>12. SumOver(G, 1, 4) = G[1] + G[2] + G[3] + G[4]
  BY <1>11, SumFour
<1>13. Energy(s, m) = c(1, 1) + c(2, 2) + c(3, 3) + c(4, 4)
                      + (c(1, 2) + c(1, 3) + c(1, 4) + c(2, 3) + c(2, 4) + c(3, 4))
  BY <1>1, <1>6, <1>7, <1>8, <1>9, <1>10, <1>12
<1>14. QED
  BY <1>13 DEF c

\* The correlation of four pulses.
LEMMA CorrelationIs ==
  ASSUME NEW s, NEW m, Len(m) = 4, \A i \in 1 .. 4 : s.abs[m[i]] \in Int
  PROVE  Correlation(s, m) = s.abs[m[1]] + s.abs[m[2]] + s.abs[m[3]] + s.abs[m[4]]
<1> DEFINE G == [k \in 1 .. 4 |-> s.abs[m[k]]]
<1>1. Correlation(s, m) = SumOver(G, 1, 4)
  BY DEF Correlation
<1>2. G[1] = s.abs[m[1]] /\ G[2] = s.abs[m[2]] /\ G[3] = s.abs[m[3]] /\ G[4] = s.abs[m[4]]
  OBVIOUS
<1> HIDE DEF G
<1>3. G[1] \in Int /\ G[2] \in Int /\ G[3] \in Int /\ G[4] \in Int
  BY <1>2
<1>4. QED
  BY <1>1, <1>2, <1>3, SumFour

\* What a subframe may bring to the search.
Brings(f) ==
  /\ f.x \in Signals /\ f.h \in Signals /\ f.h[0] > 2
  /\ f.lag \in Nat /\ f.gp \in Int

\* The response searched with is a signal that begins as the filter's does.
LEMMA SharpenedIs ==
  ASSUME NEW f, Brings(f)
  PROVE  Sharpened(f) \in Signals /\ Sharpened(f)[0] > 2
<1>1. ClampPitchGain(f.gp) \in Int /\ f.h \in [Samples -> Int] /\ f.lag \in Nat
  BY ClampedIs DEF Brings, Signals
<1>2. /\ ApplyPitchEnhancement(f.h, f.lag, ClampPitchGain(f.gp)) \in [Samples -> Int]
      /\ ApplyPitchEnhancement(f.h, f.lag, ClampPitchGain(f.gp))[0] = f.h[0]
  BY <1>1, EnhancedIs
<1>3. Sharpened(f) = ApplyPitchEnhancement(f.h, f.lag, ClampPitchGain(f.gp))
  BY ListedIs DEF Sharpened
<1>4. QED
  BY <1>2, <1>3 DEF Brings, Signals

\* The four pulses of signs s.sign at m, filtered.
Filtered(s, h, m) ==
  [n \in Samples |->
     SumOver([i \in 1 .. 4 |-> IF m[i] > n THEN 0 ELSE s.sign[m[i]] * h[n - m[i]]], 1, 4)]

\* The filtered pulses are the sum of their echoes.
LEMMA FilteredIs ==
  ASSUME NEW s, NEW h \in Signals, NEW m \in Candidates,
         \A i \in Samples : s.sign[i] \in {-1, 1}
  PROVE  /\ Filtered(s, h, m) \in Signals
         /\ \A n \in Samples :
              Filtered(s, h, m)[n]
                = Echo(h, m[1], s.sign[m[1]])[n] + Echo(h, m[2], s.sign[m[2]])[n]
                  + Echo(h, m[3], s.sign[m[3]])[n] + Echo(h, m[4], s.sign[m[4]])[n]
<1> DEFINE e(i) == Echo(h, m[i], s.sign[m[i]])
           Z == Filtered(s, h, m)
<1>1. \A i \in 1 .. 4 : m[i] \in Samples /\ s.sign[m[i]] \in {-1, 1}
  <2>1. \A i \in 1 .. 4 : i = 1 \/ i = 2 \/ i = 3 \/ i = 4
    OBVIOUS
  <2>2. QED
    BY <2>1, PositionsAre
<1>2. \A i \in 1 .. 4 : e(i) \in Signals
  BY <1>1, EchoIs
<1>3. ASSUME NEW n \in Samples PROVE Z[n] = e(1)[n] + e(2)[n] + e(3)[n] + e(4)[n] /\ Z[n] \in Int
  <2> DEFINE G == [i \in 1 .. 4 |-> IF m[i] > n THEN 0 ELSE s.sign[m[i]] * h[n - m[i]]]
  <2>1. Z[n] = SumOver(G, 1, 4)
    BY DEF Filtered
  <2>2. \A i \in 1 .. 4 : G[i] = e(i)[n]
    BY DEF Echo
  <2>3. \A i \in 1 .. 4 : e(i)[n] \in Int
    BY <1>2 DEF Signals
  <2> HIDE DEF G, e, Z
  <2>4. G[1] \in Int /\ G[2] \in Int /\ G[3] \in Int /\ G[4] \in Int
    BY <2>2, <2>3
  <2>5. SumOver(G, 1, 4) = G[1] + G[2] + G[3] + G[4]
    BY <2>4, SumFour
  <2>6. G[1] = e(1)[n] /\ G[2] = e(2)[n] /\ G[3] = e(3)[n] /\ G[4] = e(4)[n]
    BY <2>2
  <2>7. QED
    BY <2>1, <2>4, <2>5, <2>6
<1>4. Z \in Signals
  <2>1. \E F : Z = [n \in Samples |-> F[n]]
    <3>1. Z = [n \in Samples |-> Z[n]]
      BY DEF Filtered
    <3> HIDE DEF Z
    <3>2. QED
      BY <3>1
  <2> HIDE DEF Z
  <2>2. QED
    BY <1>3, <2>1 DEF Signals
<1>5. QED
  BY <1>3, <1>4 DEF Z, e

\* The pulse that comes first is heard alone.
LEMMA FirstEcho ==
  ASSUME NEW s, NEW h \in Signals, NEW m \in Candidates,
         \A i \in Samples : s.sign[i] \in {-1, 1}, h[0] > 2
  PROVE  \E p \in Samples : Filtered(s, h, m)[p] * Filtered(s, h, m)[p] > 4
<1> DEFINE e(i) == Echo(h, m[i], s.sign[m[i]])
           Z == Filtered(s, h, m)
<1>1. /\ m[1] \in Samples /\ m[2] \in Samples /\ m[3] \in Samples /\ m[4] \in Samples
      /\ m[1] # m[2] /\ m[1] # m[3] /\ m[1] # m[4]
      /\ m[2] # m[3] /\ m[2] # m[4] /\ m[3] # m[4]
      /\ m[1] \in Nat /\ m[2] \in Nat /\ m[3] \in Nat /\ m[4] \in Nat
  BY PositionsAre, SamplesAre
<1>2. \A i \in 1 .. 4 : m[i] \in Samples /\ s.sign[m[i]] \in {-1, 1}
  <2>1. \A i \in 1 .. 4 : i = 1 \/ i = 2 \/ i = 3 \/ i = 4
    OBVIOUS
  <2>2. QED
    BY <1>1, <2>1
<1>3. \A i \in 1 .. 4 : /\ \A n \in Samples : n < m[i] => e(i)[n] = 0
                        /\ e(i)[m[i]] = s.sign[m[i]] * h[0]
  BY <1>2, EchoIs
<1>4. \A n \in Samples : Z[n] = e(1)[n] + e(2)[n] + e(3)[n] + e(4)[n]
  BY FilteredIs
<1>5. h[0] \in Int
  BY SamplesAre DEF Signals
<1> HIDE DEF e, Z
<1>6. \E i \in 1 .. 4 : Z[m[i]] = s.sign[m[i]] * h[0]
  <2>1. \A i \in 1 .. 4 : s.sign[m[i]] * h[0] \in Int
    BY <1>2, <1>5
  <2>2. CASE m[1] < m[2] /\ m[1] < m[3] /\ m[1] < m[4]
    <3>1. e(2)[m[1]] = 0 /\ e(3)[m[1]] = 0 /\ e(4)[m[1]] = 0 /\ e(1)[m[1]] = s.sign[m[1]] * h[0]
      BY <1>1, <1>3, <2>2
    <3>2. QED
      BY <1>1, <1>4, <2>1, <3>1
  <2>3. CASE m[2] < m[1] /\ m[2] < m[3] /\ m[2] < m[4]
    <3>1. e(1)[m[2]] = 0 /\ e(3)[m[2]] = 0 /\ e(4)[m[2]] = 0 /\ e(2)[m[2]] = s.sign[m[2]] * h[0]
      BY <1>1, <1>3, <2>3
    <3>2. QED
      BY <1>1, <1>4, <2>1, <3>1
  <2>4. CASE m[3] < m[1] /\ m[3] < m[2] /\ m[3] < m[4]
    <3>1. e(1)[m[3]] = 0 /\ e(2)[m[3]] = 0 /\ e(4)[m[3]] = 0 /\ e(3)[m[3]] = s.sign[m[3]] * h[0]
      BY <1>1, <1>3, <2>4
    <3>2. QED
      BY <1>1, <1>4, <2>1, <3>1
  <2>5. CASE m[4] < m[1] /\ m[4] < m[2] /\ m[4] < m[3]
    <3>1. e(1)[m[4]] = 0 /\ e(2)[m[4]] = 0 /\ e(3)[m[4]] = 0 /\ e(4)[m[4]] = s.sign[m[4]] * h[0]
      BY <1>1, <1>3, <2>5
    <3>2. QED
      BY <1>1, <1>4, <2>1, <3>1
  <2>6. QED
    BY <1>1, <2>2, <2>3, <2>4, <2>5
<1>7. PICK i \in 1 .. 4 : Z[m[i]] = s.sign[m[i]] * h[0]
  BY <1>6
<1>8. \A v \in Int, q \in {-1, 1} : v > 2 => (q * v) * (q * v) > 4
  <2>1. \A v \in Int : v > 2 => v * v > 4
    <3>1. ASSUME NEW v \in Int, v > 2 PROVE v * v > 4
      <4>1. v * v >= 3 * v
        BY <3>1
      <4>2. QED
        BY <3>1, <4>1
    <3>2. QED
      BY <3>1
  <2>2. \A v \in Int, q \in {-1, 1} : (q * v) * (q * v) = v * v
    OBVIOUS
  <2>3. QED
    BY <2>1, <2>2
<1>9. Z[m[i]] * Z[m[i]] > 4
  BY <1>2, <1>5, <1>7, <1>8
<1>10. QED
  BY <1>2, <1>9 DEF Z

\* For every candidate the search compares what the code vector does.
LEMMA CriterionIs ==
  ASSUME NEW x \in Signals, NEW h \in Signals, h[0] > 2, NEW m \in Candidates,
         NEW s, s = Surface(x, h)
  PROVE  /\ InRange(s) => Correlation(s, m) = Whole(Times(x, Filtered(s, h, m)))
         /\ PhiFits(s) =>
              /\ Whole(Times(Filtered(s, h, m), Filtered(s, h, m))) - 2 * Energy(s, m) \in 0 .. 4
              /\ Energy(s, m) \in Int /\ Energy(s, m) > 0
<1> DEFINE Z == Filtered(s, h, m)
           e(i) == Echo(h, m[i], s.sign[m[i]])
           q(i) == s.sign[m[i]]
           sh(i, j) == Shared(h, m[i], m[j])
<1>1. /\ m[1] \in Samples /\ m[2] \in Samples /\ m[3] \in Samples /\ m[4] \in Samples
      /\ m[1] # m[2] /\ m[1] # m[3] /\ m[1] # m[4]
      /\ m[2] # m[3] /\ m[2] # m[4] /\ m[3] # m[4] /\ Len(m) = 4
  BY PositionsAre
<1>2. \A i \in 1 .. 4 : m[i] \in Samples
  <2>1. \A i \in 1 .. 4 : i = 1 \/ i = 2 \/ i = 3 \/ i = 4
    OBVIOUS
  <2>2. QED
    BY <1>1, <2>1
<1>3. \A i \in Samples :
        /\ s.sign[i] \in {-1, 1} /\ s.abs[i] \in Int
        /\ s.abs[i] \in 0 .. Word - 2 => s.abs[i] = s.sign[i] * Seen(x, h, i)
  BY SurfaceIs
<1>4. \A i, j \in Samples :
        /\ s.phi[i][j] \in Int
        /\ s.phi[i][j] \in -Word + 1 .. Word - 2 =>
             s.phi[i][j] = IF i = j THEN Shared(h, i, j) \div 2
                           ELSE Shared(h, i, j) * s.sign[i] * s.sign[j]
  BY SurfaceIs
<1>5. \A i \in 1 .. 4 : q(i) \in {-1, 1}
  BY <1>2, <1>3
<1>6. \A i \in 1 .. 4 : e(i) \in Signals
  BY <1>2, <1>5, EchoIs
<1>7. Z \in Signals /\ \A n \in Samples : Z[n] = e(1)[n] + e(2)[n] + e(3)[n] + e(4)[n]
  BY <1>3, FilteredIs
<1>8. e(1) \in Signals /\ e(2) \in Signals /\ e(3) \in Signals /\ e(4) \in Signals
  BY <1>6
<1>9. ASSUME InRange(s) PROVE Correlation(s, m) = Whole(Times(x, Z))
  <2>1. \A i \in 1 .. 4 : s.abs[m[i]] = q(i) * Seen(x, h, m[i]) /\ s.abs[m[i]] \in Int
    BY <1>2, <1>3, <1>9 DEF InRange
  <2>2. Correlation(s, m) = s.abs[m[1]] + s.abs[m[2]] + s.abs[m[3]] + s.abs[m[4]]
    BY <1>1, <2>1, CorrelationIs
  <2>3. \A i \in 1 .. 4 : Whole(Times(x, e(i))) = q(i) * Seen(x, h, m[i])
    BY <1>2, <1>5, EchoSeen
  <2>4. /\ s.abs[m[1]] = Whole(Times(x, e(1))) /\ s.abs[m[2]] = Whole(Times(x, e(2)))
        /\ s.abs[m[3]] = Whole(Times(x, e(3))) /\ s.abs[m[4]] = Whole(Times(x, e(4)))
    BY <2>1, <2>3
  <2> HIDE DEF Z, e
  <2>5. Whole(Times(x, Z)) = Whole(Times(x, e(1))) + Whole(Times(x, e(2)))
                             + Whole(Times(x, e(3))) + Whole(Times(x, e(4)))
    <3> DEFINE A == e(1)
               B == e(2)
               C == e(3)
               D == e(4)
    <3>1. AddsUp(Z, A, B, C, D)
      BY <1>7, <1>8 DEF AddsUp
    <3> HIDE DEF A, B, C, D
    <3>2. Whole(Times(x, Z)) = Whole(Times(x, A)) + Whole(Times(x, B))
                               + Whole(Times(x, C)) + Whole(Times(x, D))
      BY <3>1, ProductWithFour
    <3>3. QED
      BY <3>2 DEF A, B, C, D
  <2>6. QED
    BY <2>2, <2>4, <2>5
<1>10. ASSUME PhiFits(s)
       PROVE  /\ Whole(Times(Z, Z)) - 2 * Energy(s, m) \in 0 .. 4
              /\ Energy(s, m) \in Int /\ Energy(s, m) > 0
  <2> DEFINE c(i, j) == s.phi[m[i]][m[j]]
             w(i, j) == Whole(Times(e(i), e(j)))
  <2>1. \A i, j \in 1 .. 4 :
          /\ c(i, j) \in Int /\ sh(i, j) \in Int
          /\ c(i, j) = IF m[i] = m[j] THEN sh(i, j) \div 2 ELSE sh(i, j) * q(i) * q(j)
    <3>1. \A i, j \in 1 .. 4 : c(i, j) \in -Word + 1 .. Word - 2
      BY <1>2, <1>10 DEF PhiFits
    <3>2. QED
      BY <1>2, <1>4, <3>1, SharedIs
  <2>2. \A i, j \in 1 .. 4 : w(i, j) = sh(i, j) * q(i) * q(j)
    BY <1>2, <1>5, EchoShared
  <2>3. \A i \in 1 .. 4 : w(i, i) = sh(i, i)
    <3>1. \A v \in Int, u \in {-1, 1} : v * u * u = v
      OBVIOUS
    <3>2. \A i \in 1 .. 4 : sh(i, i) \in Int /\ q(i) \in {-1, 1}
                            /\ w(i, i) = sh(i, i) * q(i) * q(i)
      BY <1>5, <2>1, <2>2
    <3> HIDE DEF sh, q, w
    <3>3. QED
      BY <3>1, <3>2
  <2>4. Energy(s, m) = c(1, 1) + c(2, 2) + c(3, 3) + c(4, 4)
                       + (c(1, 2) + c(1, 3) + c(1, 4) + c(2, 3) + c(2, 4) + c(3, 4))
    BY <2>1, EnergyIs
  <2>5. Whole(Times(Z, Z)) = w(1, 1) + w(2, 2) + w(3, 3) + w(4, 4)
          + 2 * (w(1, 2) + w(1, 3) + w(1, 4) + w(2, 3) + w(2, 4) + w(3, 4))
    <3> HIDE DEF Z, e
    <3>1. AddsUp(Z, e(1), e(2), e(3), e(4))
      BY <1>7, <1>8 DEF AddsUp
    <3>2. QED
      BY <3>1, SquareOfFour
  <2>6. PICK p \in Samples : Z[p] * Z[p] > 4
    BY <1>3, FirstEcho
  <2>7. Whole(Times(Z, Z)) >= Z[p] * Z[p] /\ Z[p] * Z[p] \in Int /\ Whole(Times(Z, Z)) \in Int
    <3> HIDE DEF Z
    <3>1. Z[p] \in Int
      BY <1>7 DEF Signals
    <3>2. Times(Z, Z) \in Signals
      BY <1>7, TimesIs
    <3>3. Whole(Times(Z, Z)) \in Int
      BY <3>2, SignalSums
    <3>4. QED
      BY <1>7, <3>1, <3>3, SquareAtLeast
  <2>8. /\ c(1, 1) = w(1, 1) \div 2 /\ c(2, 2) = w(2, 2) \div 2
        /\ c(3, 3) = w(3, 3) \div 2 /\ c(4, 4) = w(4, 4) \div 2
        /\ w(1, 1) \in Int /\ w(2, 2) \in Int /\ w(3, 3) \in Int /\ w(4, 4) \in Int
    <3>1. \A i \in 1 .. 4 : c(i, i) = sh(i, i) \div 2 /\ sh(i, i) \in Int
      BY <2>1
    <3>2. \A i \in 1 .. 4 : c(i, i) = w(i, i) \div 2 /\ w(i, i) \in Int
      BY <2>3, <3>1
    <3> HIDE DEF c, w
    <3>3. QED
      BY <3>2
  <2>9. /\ c(1, 2) = w(1, 2) /\ c(1, 3) = w(1, 3) /\ c(1, 4) = w(1, 4)
        /\ c(2, 3) = w(2, 3) /\ c(2, 4) = w(2, 4) /\ c(3, 4) = w(3, 4)
        /\ w(1, 2) \in Int /\ w(1, 3) \in Int /\ w(1, 4) \in Int
        /\ w(2, 3) \in Int /\ w(2, 4) \in Int /\ w(3, 4) \in Int
    <3>1. \A i, j \in 1 .. 4 : m[i] # m[j] => c(i, j) = w(i, j) /\ c(i, j) \in Int
      BY <2>1, <2>2
    <3> HIDE DEF c, w
    <3>2. QED
      BY <1>1, <3>1
  <2> DEFINE full == Whole(Times(Z, Z))
  <2> HIDE DEF c, w, full
  <2>10. full \in Int /\ full > 4
    <3> DEFINE zz == Z[p] * Z[p]
    <3>1. full >= zz /\ zz \in Int /\ full \in Int /\ zz > 4
      BY <2>6, <2>7 DEF full
    <3> HIDE DEF zz
    <3>2. QED
      BY <3>1
  <2>11. full = w(1, 1) + w(2, 2) + w(3, 3) + w(4, 4)
          + 2 * (w(1, 2) + w(1, 3) + w(1, 4) + w(2, 3) + w(2, 4) + w(3, 4))
    BY <2>5 DEF full
  <2>12. Energy(s, m) \in Int /\ full - 2 * Energy(s, m) \in 0 .. 4
    BY <2>4, <2>8, <2>9, <2>11
  <2>13. Energy(s, m) > 0
    BY <2>10, <2>12
  <2>14. QED
    BY <2>12, <2>13 DEF full
<1>11. QED
  BY <1>9, <1>10 DEF Z

-----------------------------------------------------------------------------
(* FcbSearch: the order of the candidates.                                 *)

\* A candidate that was measured, and has energy.
Rated(r) == r.c \in Int /\ r.e \in Int /\ r.e > 0

\* What one ratio says of another.
LEMMA RatioOrder ==
  ASSUME NEW a, NEW b, NEW d, Rated(a), Rated(b), Rated(d)
  PROVE  /\ ~RatioGreater(a, a)
         /\ RatioGreater(a, b) => ~RatioGreater(b, a)
         /\ RatioGreater(a, b) /\ ~RatioGreater(d, b) => RatioGreater(a, d)
<1>1. \A A, B, D \in Int : \A e, f, g \in Int :
        e > 0 /\ f > 0 /\ g > 0 /\ A * f > B * e /\ ~(D * f > B * g) => A * g > D * e
  <2>1. ASSUME NEW A \in Int, NEW B \in Int, NEW D \in Int,
               NEW e \in Int, NEW f \in Int, NEW g \in Int,
               e > 0, f > 0, g > 0, A * f > B * e, ~(D * f > B * g)
        PROVE  A * g > D * e
    <3>1. (A * f) * g > (B * e) * g
      <4>1. \A u, v, w \in Int : w > 0 /\ u > v => u * w > v * w
        OBVIOUS
      <4>2. A * f \in Int /\ B * e \in Int
        OBVIOUS
      <4>3. QED
        BY <2>1, <4>1, <4>2
    <3>2. (B * g) * e >= (D * f) * e
      <4>1. \A u, v, w \in Int : w > 0 /\ ~(v > u) => u * w >= v * w
        OBVIOUS
      <4>2. B * g \in Int /\ D * f \in Int
        OBVIOUS
      <4>3. QED
        BY <2>1, <4>1, <4>2
    <3>3. (A * g) * f > (D * e) * f
      <4>1. (A * f) * g = (A * g) * f /\ (B * e) * g = (B * g) * e /\ (D * f) * e = (D * e) * f
        OBVIOUS
      <4>2. (A * g) * f \in Int /\ (B * g) * e \in Int /\ (D * e) * f \in Int
        OBVIOUS
      <4> DEFINE x == (A * g) * f
                 y == (B * g) * e
                 z == (D * e) * f
      <4>3. x > y /\ y >= z /\ x \in Int /\ y \in Int /\ z \in Int
        BY <3>1, <3>2, <4>1, <4>2
      <4> HIDE DEF x, y, z
      <4>4. x > z
        BY <4>3
      <4>5. QED
        BY <4>4 DEF x, z
    <3>4. \A u, v, w \in Int : w > 0 /\ u * w > v * w => u > v
      OBVIOUS
    <3>5. A * g \in Int /\ D * e \in Int
      OBVIOUS
    <3>6. QED
      BY <2>1, <3>3, <3>4, <3>5
  <2>2. QED
    BY <2>1
<1> DEFINE A == a.c * a.c
           B == b.c * b.c
           D == d.c * d.c
<1>2. /\ A \in Int /\ B \in Int /\ D \in Int
      /\ a.e \in Int /\ b.e \in Int /\ d.e \in Int /\ a.e > 0 /\ b.e > 0 /\ d.e > 0
  BY DEF Rated
<1>3. /\ RatioGreater(a, a) <=> A * a.e > A * a.e
      /\ RatioGreater(a, b) <=> A * b.e > B * a.e
      /\ RatioGreater(b, a) <=> B * a.e > A * b.e
      /\ RatioGreater(d, b) <=> D * b.e > B * d.e
      /\ RatioGreater(a, d) <=> A * d.e > D * a.e
  BY DEF RatioGreater
<1> HIDE DEF A, B, D
<1>4. ~RatioGreater(a, a)
  <2>1. A * a.e \in Int
    BY <1>2
  <2>2. QED
    BY <1>3, <2>1
<1>5. RatioGreater(a, b) => ~RatioGreater(b, a)
  <2>1. A * b.e \in Int /\ B * a.e \in Int
    BY <1>2
  <2>2. QED
    BY <1>3, <2>1
<1>6. RatioGreater(a, b) /\ ~RatioGreater(d, b) => RatioGreater(a, d)
  BY <1>1, <1>2, <1>3
<1>7. QED
  BY <1>4, <1>5, <1>6

\* A list of such candidates, and one of them ahead of another: its ratio is the
\* greater one, or they are equals and it comes first.
RatedList(s, c) == Len(c) \in Nat /\ \A k \in 1 .. Len(c) : Rated(Measured(s, c[k]))

Ahead(s, c, i, j) ==
  \/ RatioGreater(Measured(s, c[i]), Measured(s, c[j]))
  \/ i < j /\ ~RatioGreater(Measured(s, c[j]), Measured(s, c[i]))

\* It is a strict order of the whole list.
LEMMA AheadOrder ==
  ASSUME NEW s, NEW c, RatedList(s, c), NEW i \in 1 .. Len(c), NEW j \in 1 .. Len(c),
         NEW k \in 1 .. Len(c)
  PROVE  /\ ~Ahead(s, c, i, i)
         /\ i # j => Ahead(s, c, i, j) \/ Ahead(s, c, j, i)
         /\ Ahead(s, c, i, j) => ~Ahead(s, c, j, i)
         /\ Ahead(s, c, i, j) /\ Ahead(s, c, j, k) => Ahead(s, c, i, k)
<1> DEFINE G(u, v) == RatioGreater(Measured(s, c[u]), Measured(s, c[v]))
<1>1. i \in Int /\ j \in Int /\ k \in Int
  BY DEF RatedList
<1>2. Rated(Measured(s, c[i])) /\ Rated(Measured(s, c[j])) /\ Rated(Measured(s, c[k]))
  BY DEF RatedList
<1>3. ~G(i, i) /\ (G(i, j) => ~G(j, i)) /\ (G(j, k) => ~G(k, j)) /\ (G(i, k) => ~G(k, i))
      /\ (G(j, i) => ~G(i, j)) /\ (G(k, j) => ~G(j, k)) /\ (G(k, i) => ~G(i, k))
  BY <1>2, RatioOrder
<1>4. \A u, v, w \in {i, j, k} : G(u, v) /\ ~G(w, v) => G(u, w)
  BY <1>2, RatioOrder
<1>5. /\ Ahead(s, c, i, i) <=> G(i, i) \/ (i < i /\ ~G(i, i))
      /\ Ahead(s, c, i, j) <=> G(i, j) \/ (i < j /\ ~G(j, i))
      /\ Ahead(s, c, j, i) <=> G(j, i) \/ (j < i /\ ~G(i, j))
      /\ Ahead(s, c, j, k) <=> G(j, k) \/ (j < k /\ ~G(k, j))
      /\ Ahead(s, c, i, k) <=> G(i, k) \/ (i < k /\ ~G(k, i))
  BY DEF Ahead
<1> HIDE DEF G
<1>6. ~Ahead(s, c, i, i)
  BY <1>1, <1>3, <1>5
<1>7. i # j => Ahead(s, c, i, j) \/ Ahead(s, c, j, i)
  <2>1. i # j => i < j \/ j < i
    BY <1>1
  <2>2. QED
    BY <1>5, <2>1
<1>8. Ahead(s, c, i, j) => ~Ahead(s, c, j, i)
  <2>1. ~(i < j /\ j < i)
    BY <1>1
  <2>2. QED
    BY <1>3, <1>5, <2>1
<1>9. Ahead(s, c, i, j) /\ Ahead(s, c, j, k) => Ahead(s, c, i, k)
  <2>1. i < j /\ j < k => i < k
    BY <1>1
  <2>2. /\ G(i, j) /\ ~G(k, j) => G(i, k)
        /\ G(k, i) /\ ~G(j, i) => G(k, j)
        /\ G(j, k) /\ ~G(i, k) => G(j, i)
    BY <1>4
  <2>3. QED
    BY <1>3, <1>5, <2>1, <2>2
<1>10. QED
  BY <1>6, <1>7, <1>8, <1>9

-----------------------------------------------------------------------------
(* FcbSearch: what the loops return.                                       *)

\* One candidate more, in the search for the best.
BestStep(q, next) ==
  IF next.e <= 0 \/ (q # <<>> /\ ~RatioGreater(next, q[1])) THEN q ELSE <<next>>

\* The loop of BestOf.
LEMMA BestLoop ==
  ASSUME NEW s, NEW candidates, Len(candidates) \in Nat
  PROVE  \E g : /\ g[0] = <<>> /\ BestOf(s, candidates) = g[Len(candidates)]
                /\ \A k \in 1 .. Len(candidates) :
                     g[k] = BestStep(g[k - 1], Measured(s, candidates[k]))
<1> DEFINE n == Len(candidates)
           next(k) == Measured(s, candidates[k])
           S == {<<>>} \cup {<<next(k)>> : k \in 1 .. n}
           step(q, k) == IF next(k).e <= 0 \/ (q # <<>> /\ ~RatioGreater(next(k), q[1]))
                         THEN q ELSE <<next(k)>>
           E == [k \in 1 .. n |-> [q \in S |-> step(q, k)]]
           IsRun(f) == f = [k \in 0 .. n |-> IF k = 0 THEN <<>> ELSE step(f[k - 1], k)]
<1> HIDE DEF next
<1>1. \A k \in 1 .. n : \A q \in S : step(q, k) \in S
  OBVIOUS
<1>2. <<>> \in S
  OBVIOUS
<1> HIDE DEF step, S
<1>4. E \in [1 .. n -> [S -> S]] /\ \A k \in 1 .. n : \A q \in S : E[k][q] = step(q, k)
  BY <1>1
<1> HIDE DEF E
<1>5. PICK f : Runs(f, S, <<>>, n, E)
  BY <1>2, <1>4, Recursion DEF StepsFrom
<1>6. f \in [0 .. n -> S] /\ f[0] = <<>> /\ \A k \in 1 .. n : f[k] = E[k][f[k - 1]]
  BY <1>5 DEF Runs
<1>7. \A k \in 0 .. n : f[k] = IF k = 0 THEN <<>> ELSE step(f[k - 1], k)
  <2>1. \A k \in 1 .. n : k - 1 \in 0 .. n /\ f[k - 1] \in S
    BY <1>6
  <2>2. QED
    BY <1>4, <1>6, <2>1
<1>8. IsRun(f)
  BY <1>6, <1>7
<1> DEFINE g == CHOOSE h : IsRun(h)
<1>9. IsRun(g)
  <2> HIDE DEF IsRun
  <2>1. QED
    BY <1>8
<1>10. BestOf(s, candidates) = g[n]
  BY DEF BestOf, step, next
<1> HIDE DEF g
<1>11. \A k \in 0 .. n : g[k] = IF k = 0 THEN <<>> ELSE step(g[k - 1], k)
  BY <1>9
<1>12. g[0] = <<>>
  BY <1>11
<1>13. \A k \in 1 .. n : g[k] = BestStep(g[k - 1], Measured(s, candidates[k]))
  <2>1. \A k \in 1 .. n : g[k] = step(g[k - 1], k)
    BY <1>11
  <2>2. QED
    BY <2>1 DEF step, next, BestStep
<1>14. QED
  BY <1>10, <1>12, <1>13

\* The best of some candidates is one of them, if any has energy.
LEMMA BestIsOne ==
  ASSUME NEW s, NEW candidates, Len(candidates) \in Nat
  PROVE  LET b == BestOf(s, candidates)
         IN  b = <<>> \/ \E k \in 1 .. Len(candidates) : b = <<Measured(s, candidates[k])>>
<1> DEFINE n == Len(candidates)
           next(k) == Measured(s, candidates[k])
<1>1. PICK g : /\ g[0] = <<>> /\ BestOf(s, candidates) = g[n]
               /\ \A k \in 1 .. n : g[k] = BestStep(g[k - 1], next(k))
  BY BestLoop
<1> HIDE DEF next
<1> DEFINE T == {k \in Nat : g[k] = <<>> \/ \E j \in 1 .. n : g[k] = <<next(j)>>}
<1>2. 0 \in T
  BY <1>1
<1>3. ASSUME NEW k \in 1 .. n, k - 1 \in T PROVE k \in T
  <2>1. k \in Nat /\ g[k] = BestStep(g[k - 1], next(k))
    BY <1>1
  <2>2. g[k] = g[k - 1] \/ g[k] = <<next(k)>>
    BY <2>1 DEF BestStep
  <2>3. QED
    BY <1>3, <2>1, <2>2
<1> HIDE DEF T
<1>4. n \in T
  <2> HIDE DEF n
  <2>1. n \in Nat /\ n \in 0 .. n
    BY DEF n
  <2>2. 0 .. n \subseteq T
    BY <1>2, <1>3, <2>1, RangeInduction
  <2>3. QED
    BY <2>1, <2>2
<1>5. QED
  BY <1>1, <1>4 DEF T, next

\* If all have energy, it is the one ahead of all others.
LEMMA BestIsAhead ==
  ASSUME NEW s, NEW c, RatedList(s, c), Len(c) > 0
  PROVE  \E j \in 1 .. Len(c) : /\ BestOf(s, c) = <<Measured(s, c[j])>>
                                /\ \A i \in 1 .. Len(c) : i # j => Ahead(s, c, j, i)
<1> DEFINE n == Len(c)
           next(k) == Measured(s, c[k])
           ahead(i, j) == Ahead(s, c, i, j)
<1>0. n \in Nat /\ n > 0 /\ \A k \in 1 .. n : Rated(next(k))
  BY DEF RatedList
<1>1. PICK g : /\ g[0] = <<>> /\ BestOf(s, c) = g[n]
               /\ \A k \in 1 .. n : g[k] = BestStep(g[k - 1], next(k))
  BY <1>0, BestLoop
<1>2. /\ \A i, j \in 1 .. n : ahead(i, j) <=> RatioGreater(next(i), next(j))
                                              \/ (i < j /\ ~RatioGreater(next(j), next(i)))
      /\ \A i, j, k \in 1 .. n : ahead(i, j) /\ ahead(j, k) => ahead(i, k)
  BY AheadOrder DEF Ahead
<1> DEFINE T == {k \in Nat : k = 0 \/ \E j \in 1 .. k : g[k] = <<next(j)>>
                                        /\ \A i \in 1 .. k : i # j => ahead(j, i)}
<1> HIDE DEF next, ahead, n
<1>3. 0 \in T
  OBVIOUS
<1>4. ASSUME NEW k \in 1 .. n, k - 1 \in T PROVE k \in T
  <2>1. k \in Nat /\ Rated(next(k)) /\ g[k] = BestStep(g[k - 1], next(k)) /\ 1 .. k \subseteq 1 .. n
    BY <1>0, <1>1
  <2>2. next(k).e \in Int /\ next(k).e > 0
    BY <2>1 DEF Rated
  <2>3. CASE k - 1 = 0
    <3>1. k = 1 /\ g[k - 1] = <<>>
      BY <1>1, <2>1, <2>3
    <3>2. g[k] = <<next(k)>>
      BY <2>1, <2>2, <3>1 DEF BestStep
    <3>3. \A i \in 1 .. k : i = k
      BY <3>1
    <3>4. QED
      BY <2>1, <3>1, <3>2, <3>3
  <2>4. CASE k - 1 # 0
    <3>1. PICK j \in 1 .. k - 1 : g[k - 1] = <<next(j)>>
                                  /\ \A i \in 1 .. k - 1 : i # j => ahead(j, i)
      BY <1>4, <2>4
    <3>2. g[k - 1] # <<>> /\ g[k - 1][1] = next(j)
      BY <3>1
    <3>3. j \in 1 .. n /\ j \in 1 .. k /\ j < k /\ \A i \in 1 .. k : i # k => i \in 1 .. k - 1
      BY <2>1
    <3>4. CASE RatioGreater(next(k), next(j))
      <4>1. g[k] = <<next(k)>>
        BY <2>1, <2>2, <3>2, <3>4 DEF BestStep
      <4>2. ahead(k, j)
        BY <1>2, <3>3, <3>4
      <4>3. \A i \in 1 .. k : i # k => ahead(k, i)
        <5>1. ASSUME NEW i \in 1 .. k, i # k PROVE ahead(k, i)
          <6>1. i \in 1 .. k - 1 /\ i \in 1 .. n
            BY <2>1, <3>3, <5>1
          <6>2. CASE i = j
            BY <4>2, <6>2
          <6>3. CASE i # j
            <7>1. ahead(j, i)
              BY <3>1, <6>1, <6>3
            <7>2. QED
              BY <1>2, <3>3, <4>2, <6>1, <7>1
          <6>4. QED
            BY <6>2, <6>3
        <5>2. QED
          BY <5>1
      <4>4. k \in 1 .. k
        BY <2>1
      <4>5. QED
        BY <2>1, <4>1, <4>3, <4>4
    <3>5. CASE ~RatioGreater(next(k), next(j))
      <4>1. g[k] = <<next(j)>>
        BY <2>1, <3>1, <3>2, <3>5 DEF BestStep
      <4>2. ahead(j, k)
        BY <1>2, <3>3, <3>5
      <4>3. \A i \in 1 .. k : i # j => ahead(j, i)
        BY <3>1, <3>3, <4>2
      <4>4. QED
        BY <2>1, <3>3, <4>1, <4>3
    <3>6. QED
      BY <3>4, <3>5
  <2>5. QED
    BY <2>3, <2>4
<1> HIDE DEF T
<1>5. n \in T
  <2>1. n \in Nat /\ n \in 0 .. n
    BY <1>0
  <2>2. 0 .. n \subseteq T
    BY <1>3, <1>4, <2>1, RangeInduction
  <2>3. QED
    BY <2>1, <2>2
<1>6. PICK j \in 1 .. n : g[n] = <<next(j)>> /\ \A i \in 1 .. n : i # j => ahead(j, i)
  BY <1>0, <1>5 DEF T
<1>7. QED
  BY <1>1, <1>6 DEF n, next, ahead

\* The loop of Above.
LEMMA AboveLoop ==
  ASSUME NEW s
  PROVE  \E g : /\ g[0] = <<>> /\ Above(s) = g[Steps3]
                /\ \A k \in 1 .. Steps3 :
                     /\ g[k - 1] \in Seq(TrackPrefixes)
                     /\ g[k] = IF Correlation(s, Triples[k]) > Threshold(s)
                               THEN Append(g[k - 1], Triples[k]) ELSE g[k - 1]
                /\ g[Steps3] \in Seq(TrackPrefixes)
<1> DEFINE n == Len(Triples)
           threshold == Threshold(s)
           step(q, k) == IF Correlation(s, Triples[k]) > threshold
                         THEN Append(q, Triples[k]) ELSE q
           S == Seq(TrackPrefixes)
           E == [k \in 1 .. n |-> [q \in S |-> step(q, k)]]
           IsRun(f) == f = [k \in 0 .. n |-> IF k = 0 THEN <<>> ELSE step(f[k - 1], k)]
<1>1. n \in Nat /\ \A k \in 1 .. n : Triples[k] \in TrackPrefixes
  BY TriplesAre, FcbConstants
<1>2. \A k \in 1 .. n : \A q \in S : step(q, k) \in S
  BY <1>1
<1>3. <<>> \in S
  OBVIOUS
<1> HIDE DEF step, S
<1>4. E \in [1 .. n -> [S -> S]] /\ \A k \in 1 .. n : \A q \in S : E[k][q] = step(q, k)
  BY <1>2
<1>5a. n = Steps3
  BY TriplesAre
<1> HIDE DEF E, n
<1>5. PICK f : Runs(f, S, <<>>, n, E)
  BY <1>1, <1>3, <1>4, Recursion DEF StepsFrom
<1>6. f \in [0 .. n -> S] /\ f[0] = <<>> /\ \A k \in 1 .. n : f[k] = E[k][f[k - 1]]
  BY <1>5 DEF Runs
<1>7. \A k \in 0 .. n : f[k] = IF k = 0 THEN <<>> ELSE step(f[k - 1], k)
  <2>1. \A k \in 1 .. n : k - 1 \in 0 .. n /\ f[k - 1] \in S
    BY <1>1, <1>6
  <2>2. QED
    BY <1>1, <1>4, <1>6, <2>1
<1>8. IsRun(f)
  BY <1>6, <1>7
<1> DEFINE g == CHOOSE h : IsRun(h)
<1>9. IsRun(g)
  <2> HIDE DEF IsRun
  <2>1. QED
    BY <1>8
<1>10. Above(s) = g[n]
  BY DEF Above, step, n
<1> HIDE DEF g
<1>11. \A k \in 0 .. n : g[k] = IF k = 0 THEN <<>> ELSE step(g[k - 1], k)
  BY <1>9
<1> DEFINE T == {k \in Nat : g[k] \in S}
<1>12. 0 \in T
  BY <1>1, <1>3, <1>11
<1>13. ASSUME NEW k \in 1 .. n, k - 1 \in T PROVE k \in T
  <2>1. k \in Nat /\ k \in 0 .. n /\ k # 0
    BY <1>1
  <2>2. g[k] = step(g[k - 1], k) /\ g[k - 1] \in S
    BY <1>11, <1>13, <2>1
  <2>3. step(g[k - 1], k) \in S
    BY <1>2, <2>2 DEF step, S
  <2>4. QED
    BY <2>1, <2>2, <2>3
<1> HIDE DEF T
<1>14. 0 .. n \subseteq T
  BY <1>1, <1>12, <1>13, RangeInduction
<1>15. \A k \in 0 .. n : g[k] \in S
  BY <1>14 DEF T
<1>16. \A k \in 1 .. n : g[k - 1] \in S /\ g[k] = step(g[k - 1], k)
  <2>1. \A k \in 1 .. n : k - 1 \in 0 .. n /\ k \in 0 .. n /\ k # 0
    BY <1>1
  <2>2. QED
    BY <1>11, <1>15, <2>1
<1>17. g[0] = <<>> /\ g[n] \in S
  <2>1. 0 \in 0 .. n /\ n \in 0 .. n
    BY <1>1
  <2>2. QED
    BY <1>11, <1>15, <2>1
<1>18. QED
  BY <1>5a, <1>10, <1>16, <1>17 DEF step, S

\* The prefixes that stand out are prefixes, as many as there are.
LEMMA AboveIs ==
  ASSUME NEW s
  PROVE  Above(s) \in Seq(TrackPrefixes)
  BY AboveLoop

\* How many stand out as far as j.
Rank(s, j) == Cardinality({l \in Outstanding(s) : l <= j})

\* Ranks count up.
LEMMA RankIs ==
  ASSUME NEW s
  PROVE  /\ Outstanding(s) \subseteq 1 .. Steps3
         /\ Rank(s, 0) = 0
         /\ \A j \in Nat : /\ Rank(s, j) \in Nat
                           /\ j + 1 \in Outstanding(s) => Rank(s, j + 1) = Rank(s, j) + 1
                           /\ j + 1 \notin Outstanding(s) => Rank(s, j + 1) = Rank(s, j)
<1> DEFINE O == Outstanding(s)
           U(j) == {l \in O : l <= j}
<1>1. O \subseteq 1 .. Steps3
  BY TriplesAre DEF Outstanding
<1>2. IsFiniteSet(1 .. Steps3)
  BY FcbConstants, FS_Interval
<1>3. IsFiniteSet(O)
  BY <1>1, <1>2, FS_Subset
<1> HIDE DEF O
<1>4. \A j \in Nat : U(j) \subseteq O
  OBVIOUS
<1>5. \A j \in Nat : IsFiniteSet(U(j))
  <2> HIDE DEF U
  <2>1. QED
    BY <1>3, <1>4, FS_Subset
<1>6. U(0) = {}
  <2>1. \A l \in O : ~(l <= 0)
    BY <1>1
  <2> HIDE DEF O
  <2>2. QED
    BY <2>1
<1>7. \A j \in Nat : /\ j + 1 \in O => U(j + 1) = U(j) \cup {j + 1} /\ j + 1 \notin U(j)
                     /\ j + 1 \notin O => U(j + 1) = U(j)
  <2>1. ASSUME NEW j \in Nat, NEW l \in O PROVE l <= j + 1 <=> l <= j \/ l = j + 1
    BY <1>1
  <2>2. QED
    BY <2>1
<1> HIDE DEF U
<1>8. Cardinality(U(0)) = 0
  BY <1>6, FS_EmptySet
<1>9. \A j \in Nat : Cardinality(U(j)) \in Nat
  BY <1>5, FS_CardinalityType
<1>10. ASSUME NEW j \in Nat
       PROVE  /\ j + 1 \in O => Cardinality(U(j + 1)) = Cardinality(U(j)) + 1
              /\ j + 1 \notin O => Cardinality(U(j + 1)) = Cardinality(U(j))
  <2>1. ASSUME j + 1 \in O PROVE Cardinality(U(j + 1)) = Cardinality(U(j)) + 1
    <3>1. IsFiniteSet(U(j)) /\ U(j + 1) = U(j) \cup {j + 1} /\ j + 1 \notin U(j)
      BY <1>5, <1>7, <2>1
    <3>2. Cardinality(U(j) \cup {j + 1}) = Cardinality(U(j)) + 1
      BY <3>1, FS_AddElement
    <3>3. QED
      BY <3>1, <3>2
  <2>2. ASSUME j + 1 \notin O PROVE Cardinality(U(j + 1)) = Cardinality(U(j))
    BY <1>7, <2>2
  <2>3. QED
    BY <2>1, <2>2
<1>11. \A j \in Nat : Rank(s, j) = Cardinality(U(j))
  BY DEF Rank, U, O
<1>12. Rank(s, 0) = 0
  BY <1>8, <1>11
<1>13. QED
  BY <1>1, <1>9, <1>10, <1>11, <1>12 DEF O

\* and never down.
LEMMA RankGrows ==
  ASSUME NEW s, NEW i \in Nat, NEW j \in Nat
  PROVE  /\ i <= j => Rank(s, i) <= Rank(s, j)
         /\ i < j /\ j \in Outstanding(s) => Rank(s, i) < Rank(s, j)
<1>1. \A k \in Nat : Rank(s, k) \in Nat /\ Rank(s, k) <= Rank(s, k + 1)
                     /\ (k + 1 \in Outstanding(s) => Rank(s, k) < Rank(s, k + 1))
  <2>1. ASSUME NEW k \in Nat
        PROVE  Rank(s, k) \in Nat /\ Rank(s, k) <= Rank(s, k + 1)
               /\ (k + 1 \in Outstanding(s) => Rank(s, k) < Rank(s, k + 1))
    <3>1. Rank(s, k) \in Nat /\ Rank(s, k + 1) \in {Rank(s, k), Rank(s, k) + 1}
          /\ (k + 1 \in Outstanding(s) => Rank(s, k + 1) = Rank(s, k) + 1)
      BY RankIs
    <3>2. QED
      BY <3>1
  <2>2. QED
    BY <2>1
<1> DEFINE T == {d \in Nat : Rank(s, i) <= Rank(s, i + d)}
<1>2. 0 \in T
  BY <1>1
<1>3. \A d \in Nat : d \in T => d + 1 \in T
  <2>1. ASSUME NEW d \in Nat, d \in T PROVE d + 1 \in T
    <3>1. Rank(s, i + d) <= Rank(s, (i + d) + 1) /\ (i + d) + 1 = i + (d + 1)
          /\ Rank(s, i + d) \in Nat /\ Rank(s, i) \in Nat /\ Rank(s, (i + d) + 1) \in Nat
      BY <1>1
    <3>2. QED
      BY <2>1, <3>1
  <2>2. QED
    BY <2>1
<1> HIDE DEF T
<1>4. Nat \subseteq T
  BY <1>2, <1>3, NatInductionSet
<1>5. \A d \in Nat : Rank(s, i) <= Rank(s, i + d)
  BY <1>4 DEF T
<1>6. i <= j => Rank(s, i) <= Rank(s, j)
  <2>1. i <= j => j - i \in Nat /\ i + (j - i) = j
    OBVIOUS
  <2>2. QED
    BY <1>5, <2>1
<1>7. ASSUME i < j, j \in Outstanding(s) PROVE Rank(s, i) < Rank(s, j)
  <2>1. j - 1 \in Nat /\ (j - 1) + 1 = j /\ (j - 1) - i \in Nat /\ i + ((j - 1) - i) = j - 1
    BY <1>7
  <2>2. Rank(s, i) <= Rank(s, j - 1)
    BY <1>5, <2>1
  <2>3. /\ Rank(s, j - 1) < Rank(s, j)
        /\ Rank(s, j - 1) \in Nat /\ Rank(s, j) \in Nat /\ Rank(s, i) \in Nat
    BY <1>1, <1>7, <2>1
  <2>4. QED
    BY <2>2, <2>3
<1>8. QED
  BY <1>6, <1>7

\* The prefixes above the threshold are those that stand out, in their order.
LEMMA AboveRanks ==
  ASSUME NEW s
  PROVE  /\ Above(s) \in Seq(TrackPrefixes) /\ Len(Above(s)) = Rank(s, Steps3)
         /\ \A j \in Outstanding(s) :
              Rank(s, j) \in 1 .. Len(Above(s)) /\ Above(s)[Rank(s, j)] = Triples[j]
         /\ \A i \in 1 .. Len(Above(s)) : \E j \in Outstanding(s) : Rank(s, j) = i
<1> DEFINE n == Steps3
           O == Outstanding(s)
           C(j) == Rank(s, j)
<1>1. PICK g : /\ g[0] = <<>> /\ Above(s) = g[n]
               /\ \A k \in 1 .. n :
                    /\ g[k - 1] \in Seq(TrackPrefixes)
                    /\ g[k] = IF Correlation(s, Triples[k]) > Threshold(s)
                              THEN Append(g[k - 1], Triples[k]) ELSE g[k - 1]
               /\ g[n] \in Seq(TrackPrefixes)
  BY AboveLoop
<1>2. n \in Nat /\ O \subseteq 1 .. n /\ C(0) = 0
      /\ \A k \in 1 .. n : k \in O <=> Correlation(s, Triples[k]) > Threshold(s)
  <2>1. \A k \in 1 .. n : k \in O <=> Correlation(s, Triples[k]) > Threshold(s)
    BY TriplesAre DEF Outstanding
  <2>2. QED
    BY <2>1, RankIs, FcbConstants
<1>3. \A k \in 1 .. n : /\ C(k - 1) \in Nat /\ C(k) \in Nat
                        /\ k \in O => C(k) = C(k - 1) + 1
                        /\ k \notin O => C(k) = C(k - 1)
  <2>1. ASSUME NEW k \in 1 .. n
        PROVE  /\ C(k - 1) \in Nat /\ C(k) \in Nat
               /\ k \in O => C(k) = C(k - 1) + 1
               /\ k \notin O => C(k) = C(k - 1)
    <3>1. k - 1 \in Nat /\ (k - 1) + 1 = k /\ k \in Nat
      BY <1>2
    <3>2. QED
      BY <3>1, RankIs
  <2>2. QED
    BY <2>1
<1>4. \A k \in 1 .. n : Triples[k] \in TrackPrefixes
  BY TriplesAre
<1>5. \A i, j \in 1 .. n : i < j /\ j \in O => C(i) < C(j)
  BY <1>2, RankGrows
<1> HIDE DEF n, O, C
<1> DEFINE Inv(k) == /\ Len(g[k]) = C(k)
                     /\ \A j \in O : j <= k => C(j) \in 1 .. C(k) /\ g[k][C(j)] = Triples[j]
                     /\ \A i \in 1 .. C(k) : \E j \in O : j <= k /\ C(j) = i
           T == {k \in Nat : Inv(k)}
<1>6. 0 \in T
  <2>1. Len(g[0]) = 0
    BY <1>1
  <2>2. \A j \in O : ~(j <= 0)
    BY <1>2
  <2>3. 1 .. C(0) = {}
    BY <1>2
  <2>4. QED
    BY <1>2, <2>1, <2>2, <2>3
<1>7. ASSUME NEW k \in 1 .. n, k - 1 \in T PROVE k \in T
  <2>1. k \in Nat /\ k - 1 \in Nat /\ (\A j \in O : j \in Nat /\ (j <= k => j <= k - 1 \/ j = k))
        /\ \A j \in O : j <= k - 1 => j <= k
    BY <1>2
  <2>2. Inv(k - 1)
    BY <1>7
  <2>3. C(k - 1) \in Nat /\ C(k) \in Nat /\ g[k - 1] \in Seq(TrackPrefixes)
    BY <1>1, <1>3
  <2>4. CASE k \in O
    <3>1. C(k) = C(k - 1) + 1 /\ g[k] = Append(g[k - 1], Triples[k])
      BY <1>1, <1>2, <1>3, <2>4
    <3>2. /\ Len(g[k]) = Len(g[k - 1]) + 1
          /\ \A i \in 1 .. Len(g[k - 1]) : g[k][i] = g[k - 1][i]
          /\ g[k][Len(g[k - 1]) + 1] = Triples[k]
      <4>1. Triples[k] \in TrackPrefixes
        BY <1>4
      <4>2. QED
        BY <2>3, <3>1, <4>1, AppendIs
    <3>3. Len(g[k]) = C(k) /\ g[k][C(k)] = Triples[k] /\ C(k) \in 1 .. C(k)
      BY <2>2, <2>3, <3>1, <3>2
    <3>4. 1 .. C(k - 1) \subseteq 1 .. C(k) /\ \A i \in 1 .. C(k) : i \in 1 .. C(k - 1) \/ i = C(k)
      BY <2>3, <3>1
    <3>5. \A j \in O : j <= k => C(j) \in 1 .. C(k) /\ g[k][C(j)] = Triples[j]
      <4>1. ASSUME NEW j \in O, j <= k PROVE C(j) \in 1 .. C(k) /\ g[k][C(j)] = Triples[j]
        <5>1. CASE j = k
          BY <3>3, <5>1
        <5>2. CASE j # k
          <6>1. C(j) \in 1 .. C(k - 1) /\ g[k - 1][C(j)] = Triples[j]
            BY <2>1, <2>2, <4>1, <5>2
          <6>2. g[k][C(j)] = g[k - 1][C(j)]
            BY <2>2, <3>2, <6>1
          <6>3. QED
            BY <3>4, <6>1, <6>2
        <5>3. QED
          BY <5>1, <5>2
      <4>2. QED
        BY <4>1
    <3>6. \A i \in 1 .. C(k) : \E j \in O : j <= k /\ C(j) = i
      <4>1. k <= k
        BY <2>1
      <4>2. QED
        BY <2>1, <2>2, <2>4, <3>4, <4>1
    <3>7. QED
      BY <2>1, <3>3, <3>5, <3>6
  <2>5. CASE k \notin O
    <3>1. C(k) = C(k - 1) /\ g[k] = g[k - 1]
      BY <1>1, <1>2, <1>3, <2>5
    <3>2. \A j \in O : j <= k => j <= k - 1
      BY <2>1, <2>5
    <3>3. Inv(k)
      BY <2>1, <2>2, <3>1, <3>2
    <3>4. QED
      BY <2>1, <3>3
  <2>6. QED
    BY <2>4, <2>5
<1> HIDE DEF T
<1>8. n \in T
  <2>1. n \in Nat /\ n \in 0 .. n
    BY <1>2
  <2>2. 0 .. n \subseteq T
    BY <1>6, <1>7, <2>1, RangeInduction
  <2>3. QED
    BY <2>1, <2>2
<1>9. Inv(n) /\ \A j \in O : j <= n
  <2>1. Inv(n)
    BY <1>8 DEF T
  <2>2. \A j \in O : j <= n
    BY <1>2
  <2>3. QED
    BY <2>1, <2>2
<1>10. QED
  BY <1>1, <1>9 DEF n, O, C

\* A list cut to a limit.
LEMMA AtMostIs ==
  ASSUME NEW S, NEW list \in Seq(S), NEW limit \in Nat
  PROVE  AtMost(limit, list) \in Seq(S) /\ Len(AtMost(limit, list)) <= limit
         /\ Len(AtMost(limit, list)) \in Nat
<1> DEFINE n == IF limit < Len(list) THEN limit ELSE Len(list)
<1>1. n \in 0 .. Len(list) /\ n <= limit /\ n \in Nat
  OBVIOUS
<1> HIDE DEF n
<1>2. SubSeq(list, 1, n) \in Seq(S) /\ Len(SubSeq(list, 1, n)) = n
  BY <1>1
<1>3. QED
  BY <1>1, <1>2 DEF AtMost, n

-----------------------------------------------------------------------------
(* FcbSearch: candidates in order.                                         *)

\* A number compares as its digits.
LEMMA DigitsOrder ==
  ASSUME NEW d \in Nat, d > 0, NEW x \in 0 .. d - 1, NEW y \in Nat,
         NEW u \in 0 .. d - 1, NEW v \in Nat, x + d * y < u + d * v
  PROVE  y < v \/ (y = v /\ x < u)
<1>1. CASE y > v
  <2>1. d * (v + 1) <= d * y
    BY <1>1
  <2>2. d * (v + 1) = d * v + d /\ d * v \in Int /\ d * y \in Int
    OBVIOUS
  <2> DEFINE p == d * v
             q == d * y
  <2> HIDE DEF p, q
  <2>3. FALSE
    BY <2>1, <2>2 DEF p, q
  <2>4. QED
    BY <2>3
<1>2. CASE y = v
  <2>1. d * v \in Int
    OBVIOUS
  <2>2. QED
    BY <1>2, <2>1
<1>3. QED
  BY <1>1, <1>2

\* The digits of a prefix's number are its positions.
LEMMA TripleDigits ==
  ASSUME NEW k \in 1 .. Steps3
  PROVE  \E a, b, c \in 0 .. Steps - 1 :
           Triples[k] = Triple(a, b, c) /\ k - 1 = c + Steps * (b + Steps * a)
<1> DEFINE n == k - 1
           q == n \div Steps
           a == n \div Steps2
           b == q % Steps
           c == n % Steps
           t == q \div Steps
<1>1. n \in Nat /\ n < Steps * Steps2
  BY FcbConstants
<1>2. Triples[k] = Triple(a, b, c)
  BY FcbConstants DEF Triples, Triple
<1> HIDE DEF n
<1>3. q \in Nat /\ c \in 0 .. Steps - 1 /\ n = c + Steps * q
  BY <1>1, FcbConstants
<1> HIDE DEF q, c
<1>4. t \in Nat /\ b \in 0 .. Steps - 1 /\ q = b + Steps * t
  BY <1>3, FcbConstants
<1> HIDE DEF t, b
<1>5. n = (c + Steps * b) + Steps2 * t
  BY <1>3, <1>4, FcbConstants
<1>6. c + Steps * b \in 0 .. Steps2 - 1
  <2>1. Steps * b <= Steps * (Steps - 1) /\ Steps * b \in Nat
    BY <1>4, FcbConstants
  <2>2. Steps * (Steps - 1) = Steps2 - Steps
    BY FcbConstants
  <2> DEFINE p == Steps * b
             r == Steps * (Steps - 1)
  <2> HIDE DEF p, r
  <2>3. p \in Nat /\ p <= Steps2 - Steps
    BY <2>1, <2>2 DEF p, r
  <2>4. c + p \in 0 .. Steps2 - 1
    BY <1>3, <2>3, FcbConstants
  <2>5. QED
    BY <2>4 DEF p
<1>7. a = t
  <2> DEFINE x == c + Steps * b
  <2>1. n = x + Steps2 * t /\ x \in 0 .. Steps2 - 1
    BY <1>5, <1>6
  <2> HIDE DEF x
  <2>2. (x + Steps2 * t) \div Steps2 = t
    BY <1>4, <2>1, FcbConstants, Digits
  <2>3. QED
    BY <2>1, <2>2
<1>8. a \in 0 .. Steps - 1
  <2>1. CASE t >= Steps
    <3>1. Steps2 * t >= Steps2 * Steps
      BY <1>4, <2>1, FcbConstants
    <3> DEFINE p == Steps2 * t
    <3>2. n >= p /\ p \in Int
      BY <1>4, <1>5, <1>6, FcbConstants
    <3>3. Steps2 * Steps = Steps * Steps2
      BY FcbConstants
    <3> DEFINE r == Steps * Steps2
    <3>4. r \in Int
      BY FcbConstants
    <3> HIDE DEF p, r
    <3>5. p >= r /\ n < r
      BY <1>1, <3>1, <3>3 DEF p, r
    <3>6. FALSE
      BY <1>1, <3>2, <3>4, <3>5
    <3>7. QED
      BY <3>6
  <2>2. QED
    BY <1>4, <1>7, <2>1, FcbConstants
<1>9. n = c + Steps * (b + Steps * a)
  BY <1>3, <1>4, <1>7
<1> HIDE DEF a
<1>10. QED
  BY <1>2, <1>3, <1>4, <1>8, <1>9 DEF n

\* A prefix is lower than another in the first position in which they differ.
Lower(p, q) == \E i \in 1 .. 3 : p[i] < q[i] /\ \A j \in 1 .. i - 1 : p[j] = q[j]

\* Which is one of these cases.
LEMMA LowerIs ==
  ASSUME NEW p, NEW q
  PROVE  Lower(p, q) <=>
           (p[1] < q[1]) \/ (p[1] = q[1] /\ p[2] < q[2])
           \/ (p[1] = q[1] /\ p[2] = q[2] /\ p[3] < q[3])
<1>1. (\A j \in 1 .. 1 - 1 : p[j] = q[j]) = TRUE
  OBVIOUS
<1>2. (\A j \in 1 .. 2 - 1 : p[j] = q[j]) <=> p[1] = q[1]
  OBVIOUS
<1>3. (\A j \in 1 .. 3 - 1 : p[j] = q[j]) <=> p[1] = q[1] /\ p[2] = q[2]
  OBVIOUS
<1> DEFINE P(i) == p[i] < q[i] /\ \A j \in 1 .. i - 1 : p[j] = q[j]
<1>4. /\ P(1) <=> p[1] < q[1]
      /\ P(2) <=> p[1] = q[1] /\ p[2] < q[2]
      /\ P(3) <=> p[1] = q[1] /\ p[2] = q[2] /\ p[3] < q[3]
  BY <1>1, <1>2, <1>3
<1>5. Lower(p, q) <=> \E i \in 1 .. 3 : P(i)
  BY DEF Lower
<1> HIDE DEF P
<1>6. \A i : i \in 1 .. 3 <=> i = 1 \/ i = 2 \/ i = 3
  OBVIOUS
<1>7. Lower(p, q) <=> P(1) \/ P(2) \/ P(3)
  BY <1>5, <1>6
<1>8. QED
  BY <1>4, <1>7

\* The prefixes are listed in this order.
LEMMA TriplesOrder ==
  ASSUME NEW k \in 1 .. Steps3, NEW l \in 1 .. Steps3, k < l
  PROVE  Lower(Triples[k], Triples[l])
<1>1. PICK a, b, c \in 0 .. Steps - 1 :
        Triples[k] = Triple(a, b, c) /\ k - 1 = c + Steps * (b + Steps * a)
  BY TripleDigits
<1>2. PICK u, v, w \in 0 .. Steps - 1 :
        Triples[l] = Triple(u, v, w) /\ l - 1 = w + Steps * (v + Steps * u)
  BY TripleDigits
<1> DEFINE y == b + Steps * a
           z == v + Steps * u
<1>3. y \in Nat /\ z \in Nat
  BY FcbConstants
<1>4. k - 1 = c + Steps * y /\ l - 1 = w + Steps * z
  BY <1>1, <1>2
<1>5. y < z \/ (y = z /\ c < w)
  <2> HIDE DEF y, z
  <2>1. c + Steps * y < w + Steps * z
    BY <1>4
  <2>2. QED
    BY <1>3, <2>1, FcbConstants, DigitsOrder
<1>6. y < z => a < u \/ (a = u /\ b < v)
  <2>1. a \in Nat /\ u \in Nat
    BY FcbConstants
  <2>2. QED
    BY <2>1, FcbConstants, DigitsOrder
<1>7. y = z => a = u /\ b = v
  <2>1. a \in Nat /\ u \in Nat
    BY FcbConstants
  <2>2. y \div Steps = a /\ y % Steps = b /\ z \div Steps = u /\ z % Steps = v
    BY <2>1, FcbConstants, Digits
  <2> HIDE DEF y, z
  <2>3. QED
    BY <2>2
<1>8. a < u \/ (a = u /\ b < v) \/ (a = u /\ b = v /\ c < w)
  <2> HIDE DEF y, z
  <2>1. QED
    BY <1>5, <1>6, <1>7
<1> DEFINE p == Triples[k]
           q == Triples[l]
<1>9. /\ p[1] = 5 * a /\ p[2] = 5 * b + 1 /\ p[3] = 5 * c + 2
      /\ q[1] = 5 * u /\ q[2] = 5 * v + 1 /\ q[3] = 5 * w + 2
  BY <1>1, <1>2 DEF Triple
<1> HIDE DEF p, q
<1>10. p[1] < q[1] \/ (p[1] = q[1] /\ p[2] < q[2])
       \/ (p[1] = q[1] /\ p[2] = q[2] /\ p[3] < q[3])
  BY <1>8, <1>9
<1>11. Lower(p, q)
  BY <1>10, LowerIs
<1>12. QED
  BY <1>11 DEF p, q

\* The fourth pulse's positions go up.
LEMMA Track3Order ==
  ASSUME NEW k \in 1 .. 2 * Steps, NEW l \in 1 .. 2 * Steps, k < l
  PROVE  Track3[k] < Track3[l] /\ Track3[k] \in Nat /\ Track3[l] \in Nat
<1>1. k \in Nat /\ l \in Nat /\ k >= 1 /\ l >= 1
  BY FcbConstants
<1>2. \A i, j \in Nat : i >= 1 /\ i < j =>
        5 * ((i - 1) \div 2) + 3 + ((i - 1) % 2) < 5 * ((j - 1) \div 2) + 3 + ((j - 1) % 2)
  OBVIOUS
<1>3. \A i \in Nat : i >= 1 => 5 * ((i - 1) \div 2) + 3 + ((i - 1) % 2) \in Nat
  OBVIOUS
<1>4. /\ Track3[k] = 5 * ((k - 1) \div 2) + 3 + ((k - 1) % 2)
      /\ Track3[l] = 5 * ((l - 1) \div 2) + 3 + ((l - 1) % 2)
  BY DEF Track3
<1>5. QED
  BY <1>1, <1>2, <1>3, <1>4

\* A prefix with its fourth pulse.
Completed(p, x) == <<p[1], p[2], p[3], x>>

\* The head of a list.
LEMMA HeadIs ==
  ASSUME NEW S, NEW list \in Seq(S), NEW n \in 0 .. Len(list)
  PROVE  /\ SubSeq(list, 1, n) \in Seq(S) /\ Len(SubSeq(list, 1, n)) = n
         /\ \A i \in 1 .. n : SubSeq(list, 1, n)[i] = list[i]
<1>1. SubSeq(list, 1, n) \in Seq(S) /\ Len(SubSeq(list, 1, n)) = n
  OBVIOUS
<1>2. \A i \in 1 .. n : SubSeq(list, 1, n)[i] = list[i]
  OBVIOUS
<1>3. QED
  BY <1>1, <1>2

\* It is a list of four, its first three the prefix.
LEMMA CompletedIs ==
  ASSUME NEW p \in TrackPrefixes, NEW x \in Nat
  PROVE  /\ Append(p, x) = Completed(p, x) /\ SubSeq(Completed(p, x), 1, 3) = p
         /\ Completed(p, x)[1] = p[1] /\ Completed(p, x)[2] = p[2]
         /\ Completed(p, x)[3] = p[3] /\ Completed(p, x)[4] = x
<1>1. PICK a, b, c \in 0 .. Steps - 1 : p = Triple(a, b, c)
  BY DEF TrackPrefixes
<1>2. p = <<p[1], p[2], p[3]>>
  BY <1>1 DEF Triple
<1>3. Append(p, x) = Completed(p, x)
  BY <1>2, FourthPulse DEF Completed
<1>4. p \in Seq(Nat) /\ Len(p) = 3
  BY <1>1 DEF Triple, TrackPrefixes
<1>5. p[1] \in Nat /\ p[2] \in Nat /\ p[3] \in Nat
  <2>1. p[1] = 5 * a /\ p[2] = 5 * b + 1 /\ p[3] = 5 * c + 2
    BY <1>1 DEF Triple
  <2>2. a \in Nat /\ b \in Nat /\ c \in Nat
    BY FcbConstants
  <2>3. QED
    BY <2>1, <2>2
<1> DEFINE m == Completed(p, x)
<1>6. m \in Seq(Nat) /\ Len(m) = 4 /\ m[1] = p[1] /\ m[2] = p[2] /\ m[3] = p[3] /\ m[4] = x
  BY <1>5 DEF Completed
<1>7. SubSeq(m, 1, 3) = p
  <2> HIDE DEF m
  <2> DEFINE q == SubSeq(m, 1, 3)
  <2>1. q \in Seq(Nat) /\ Len(q) = 3 /\ \A i \in 1 .. 3 : q[i] = m[i]
    <3>1. 3 \in 0 .. Len(m)
      BY <1>6
    <3>2. QED
      BY <1>6, <3>1, HeadIs
  <2> HIDE DEF q
  <2>2. \A i \in 1 .. 3 : i = 1 \/ i = 2 \/ i = 3
    OBVIOUS
  <2>3. \A i \in 1 .. 3 : q[i] = p[i]
    BY <1>6, <2>1, <2>2
  <2>4. q = p
    <3>1. q = [i \in 1 .. 3 |-> q[i]]
      BY <2>1
    <3>2. p = [i \in 1 .. 3 |-> p[i]]
      BY <1>4
    <3>3. QED
      BY <2>3, <3>1, <3>2
  <2>5. QED
    BY <2>4 DEF q
<1>8. QED
  BY <1>3, <1>6, <1>7

\* The candidates of the prefixes P, by the number of the prefix and of the pulse.
LEMMA WithNumbers ==
  ASSUME NEW P \in Seq(TrackPrefixes)
  PROVE  /\ \A k \in 1 .. Len(With(P)) : \E i \in 1 .. Len(P), l \in 1 .. 2 * Steps :
              k = l + (2 * Steps) * (i - 1)
         /\ \A i \in 1 .. Len(P), l \in 1 .. 2 * Steps :
              /\ l + (2 * Steps) * (i - 1) \in 1 .. Len(With(P))
              /\ With(P)[l + (2 * Steps) * (i - 1)] = Completed(P[i], Track3[l])
<1> DEFINE t == 2 * Steps
           n == Len(P)
<1>1. t \in Nat /\ t > 0 /\ n \in Nat /\ n * t \in Nat
  BY FcbConstants
<1>2. With(P) = [k \in 1 .. n * t |-> Append(P[1 + ((k - 1) \div t)],
                                           Track3[1 + ((k - 1) % t)])]
  BY Track3Is DEF With
<1>a. \A l \in 1 .. t : Track3[l] \in Nat
  <2>1. ASSUME NEW l \in 1 .. t PROVE Track3[l] \in Nat
    <3>1. PICK d \in 0 .. Steps - 1, j \in 0 .. 1 : Track3[l] = 5 * d + 3 + j
      BY Track3Is
    <3>2. QED
      BY <3>1, FcbConstants
  <2>2. QED
    BY <2>1
<1> HIDE DEF t
<1>3. Len(With(P)) = n * t
  BY <1>1, <1>2
<1>4. ASSUME NEW k \in 1 .. n * t
      PROVE  \E i \in 1 .. n, l \in 1 .. t : k = l + t * (i - 1)
  <2> DEFINE i == (k - 1) \div t
             l == (k - 1) % t
  <2>1. l \in 0 .. t - 1 /\ i \in Nat /\ k - 1 = l + t * i
    BY <1>1
  <2> HIDE DEF i, l
  <2>2. i < n
    <3>1. CASE i >= n
      <4>1. t * n <= t * i /\ t * n = n * t
        BY <1>1, <2>1, <3>1
      <4> DEFINE u == t * i
                 v == n * t
      <4>2. u \in Int /\ v \in Int
        BY <1>1, <2>1
      <4> HIDE DEF u, v
      <4>3. v <= u /\ k - 1 = l + u /\ k <= v
        BY <1>1, <2>1, <4>1 DEF u, v
      <4>4. FALSE
        BY <2>1, <4>2, <4>3
      <4>5. QED
        BY <4>4
    <3>2. QED
      BY <1>1, <2>1, <3>1
  <2>3. i + 1 \in 1 .. n /\ l + 1 \in 1 .. t /\ (i + 1) - 1 = i
    BY <1>1, <2>1, <2>2
  <2>4. k = (l + 1) + t * ((i + 1) - 1)
    <3> DEFINE u == t * i
    <3>1. u \in Int /\ k - 1 = l + u
      BY <1>1, <2>1
    <3> HIDE DEF u
    <3>2. k = (l + 1) + u
      BY <2>1, <3>1
    <3>3. QED
      BY <2>3, <3>2 DEF u
  <2>5. QED
    BY <2>3, <2>4
<1>5. ASSUME NEW i \in 1 .. n, NEW l \in 1 .. t
      PROVE  /\ l + t * (i - 1) \in 1 .. n * t
             /\ With(P)[l + t * (i - 1)] = Completed(P[i], Track3[l])
  <2> DEFINE k == l + t * (i - 1)
             x == l - 1
             y == i - 1
  <2>1. x \in 0 .. t - 1 /\ y \in Nat /\ y <= n - 1 /\ 1 + x = l /\ 1 + y = i
    BY <1>1
  <2>2. k - 1 = x + t * y /\ k \in Nat
    <3>1. t * y \in Nat
      BY <1>1, <2>1
    <3> DEFINE u == t * y
    <3>2. k = l + u /\ u \in Nat
      BY <3>1
    <3> HIDE DEF u, k
    <3>3. k - 1 = x + u /\ k \in Nat
      BY <2>1, <3>2
    <3>4. QED
      BY <3>3 DEF u
  <2>3. k \in 1 .. n * t
    <3>1. t * y <= t * (n - 1) /\ t * (n - 1) = n * t - t /\ t * y \in Nat
      BY <1>1, <2>1
    <3> DEFINE u == t * y
               v == n * t
               w == t * (n - 1)
    <3> HIDE DEF u, v, w, k, x, y
    <3>2. u \in Nat /\ u <= w /\ w = v - t /\ v \in Nat /\ k - 1 = x + u
      BY <1>1, <2>2, <3>1 DEF u, v, w
    <3>3. k \in 1 .. v
      BY <1>1, <2>1, <2>2, <3>2
    <3>4. QED
      BY <3>3 DEF v
  <2>4. (k - 1) \div t = y /\ (k - 1) % t = x
    <3> HIDE DEF k, x, y
    <3>1. (x + t * y) % t = x /\ (x + t * y) \div t = y
      BY <1>1, <2>1, Digits
    <3>2. QED
      BY <2>2, <3>1
  <2>5. With(P)[k] = Append(P[i], Track3[l])
    <3> HIDE DEF k, x, y
    <3>1. With(P)[k] = Append(P[1 + ((k - 1) \div t)], Track3[1 + ((k - 1) % t)])
      BY <1>2, <2>3
    <3>2. QED
      BY <2>1, <2>4, <3>1
  <2>6. P[i] \in TrackPrefixes /\ Track3[l] \in Nat
    BY <1>1, <1>a
  <2>7. With(P)[k] = Completed(P[i], Track3[l])
    BY <2>5, <2>6, CompletedIs
  <2>8. QED
    BY <2>3, <2>7
<1>6. QED
  BY <1>3, <1>4, <1>5 DEF t

\* Prefixes in order.
InOrder(P) == \A i, j \in 1 .. Len(P) : i < j => Lower(P[i], P[j])

\* Their candidates are in order.
LEMMA WithOrder ==
  ASSUME NEW P \in Seq(TrackPrefixes), InOrder(P),
         NEW i \in 1 .. Len(With(P)), NEW j \in 1 .. Len(With(P)), i < j
  PROVE  Before(With(P)[i], With(P)[j])
<1> DEFINE t == 2 * Steps
<1>1. t \in Nat /\ t > 0
  BY FcbConstants
<1>2. PICK a \in 1 .. Len(P), b \in 1 .. t : i = b + t * (a - 1)
  BY WithNumbers
<1>3. PICK u \in 1 .. Len(P), v \in 1 .. t : j = v + t * (u - 1)
  BY WithNumbers
<1>4. /\ With(P)[i] = Completed(P[a], Track3[b]) /\ With(P)[j] = Completed(P[u], Track3[v])
      /\ P[a] \in TrackPrefixes /\ P[u] \in TrackPrefixes
  <2>1. \A h \in 1 .. Len(P) : P[h] \in TrackPrefixes
    OBVIOUS
  <2>2. \A h \in 1 .. Len(P), l \in 1 .. t :
          With(P)[l + t * (h - 1)] = Completed(P[h], Track3[l])
    BY WithNumbers
  <2> HIDE DEF t
  <2>3. QED
    BY <1>2, <1>3, <2>1, <2>2
<1> HIDE DEF t
<1>5. a < u \/ (a = u /\ b < v)
  <2> DEFINE x == b - 1
             y == a - 1
             z == v - 1
             w == u - 1
  <2>1. x \in 0 .. t - 1 /\ y \in Nat /\ z \in 0 .. t - 1 /\ w \in Nat
        /\ b = x + 1 /\ v = z + 1
    BY <1>1
  <2>2. x + t * y < z + t * w
    <3> DEFINE p == t * y
               q == t * w
    <3>1. p \in Int /\ q \in Int /\ i = b + p /\ j = v + q
      BY <1>1, <1>2, <1>3, <2>1
    <3> HIDE DEF p, q
    <3>2. x + p < z + q
      BY <2>1, <3>1
    <3>3. QED
      BY <3>2 DEF p, q
  <2> HIDE DEF x, y, z, w
  <2>3. y < w \/ (y = w /\ x < z)
    BY <1>1, <2>1, <2>2, DigitsOrder
  <2>4. QED
    BY <2>3 DEF x, y, z, w
<1> DEFINE m == With(P)[i]
           n == With(P)[j]
<1>6. \A l \in 1 .. t : Track3[l] \in Nat
  <2>1. ASSUME NEW l \in 1 .. t PROVE Track3[l] \in Nat
    <3>1. PICK d \in 0 .. Steps - 1, e \in 0 .. 1 : Track3[l] = 5 * d + 3 + e
      BY Track3Is DEF t
    <3>2. QED
      BY <3>1, FcbConstants
  <2>2. QED
    BY <2>1
<1>7. /\ m[1] = P[a][1] /\ m[2] = P[a][2] /\ m[3] = P[a][3] /\ m[4] = Track3[b]
      /\ n[1] = P[u][1] /\ n[2] = P[u][2] /\ n[3] = P[u][3] /\ n[4] = Track3[v]
  <2>1. Track3[b] \in Nat /\ Track3[v] \in Nat
    BY <1>6
  <2> DEFINE M == Completed(P[a], Track3[b])
             N == Completed(P[u], Track3[v])
  <2>2. M[1] = P[a][1] /\ M[2] = P[a][2] /\ M[3] = P[a][3] /\ M[4] = Track3[b]
    BY <1>4, <2>1, CompletedIs
  <2>3. N[1] = P[u][1] /\ N[2] = P[u][2] /\ N[3] = P[u][3] /\ N[4] = Track3[v]
    BY <1>4, <2>1, CompletedIs
  <2> HIDE DEF M, N
  <2>4. m = M /\ n = N
    BY <1>4 DEF M, N
  <2> HIDE DEF m, n
  <2>5. QED
    BY <2>2, <2>3, <2>4
<1>8. Before(m, n) <=> \E l \in 1 .. 4 : m[l] < n[l] /\ \A h \in 1 .. l - 1 : m[h] = n[h]
  BY DEF Before
<1> HIDE DEF m, n
<1>9. CASE a < u
  <2>1. Lower(P[a], P[u])
    BY <1>9 DEF InOrder
  <2>2. PICK l \in 1 .. 3 : P[a][l] < P[u][l] /\ \A h \in 1 .. l - 1 : P[a][h] = P[u][h]
    BY <2>1 DEF Lower
  <2>3. \A h \in 1 .. 3 : m[h] = P[a][h] /\ n[h] = P[u][h]
    <3>1. \A h \in 1 .. 3 : h = 1 \/ h = 2 \/ h = 3
      OBVIOUS
    <3>2. QED
      BY <1>7, <3>1
  <2>4. l \in 1 .. 4 /\ 1 .. l - 1 \subseteq 1 .. 3
    OBVIOUS
  <2>5. m[l] < n[l] /\ \A h \in 1 .. l - 1 : m[h] = n[h]
    BY <2>2, <2>3, <2>4
  <2>6. QED
    BY <1>8, <2>4, <2>5 DEF m, n
<1>10. CASE a = u /\ b < v
  <2>1. Track3[b] < Track3[v]
    BY <1>10, Track3Order DEF t
  <2>2. \A h \in 1 .. 4 - 1 : h = 1 \/ h = 2 \/ h = 3
    OBVIOUS
  <2>3. m[4] < n[4] /\ \A h \in 1 .. 4 - 1 : m[h] = n[h]
    BY <1>7, <1>10, <2>1, <2>2
  <2>4. QED
    BY <1>8, <2>3 DEF m, n
<1>11. QED
  BY <1>5, <1>9, <1>10

-----------------------------------------------------------------------------
(* FcbSearch: what a search tried.                                         *)

\* All prefixes, in order.
LEMMA TriplesInOrder == Triples \in Seq(TrackPrefixes) /\ InOrder(Triples)
<1>1. Len(Triples) = Steps3
  BY TriplesAre
<1>2. \A i, j \in 1 .. Len(Triples) : i < j => Lower(Triples[i], Triples[j])
  <2>1. ASSUME NEW i \in 1 .. Len(Triples), NEW j \in 1 .. Len(Triples), i < j
        PROVE  Lower(Triples[i], Triples[j])
    BY <1>1, <2>1, TriplesOrder
  <2>2. QED
    BY <2>1
<1>3. QED
  BY <1>2, TriplesSeq DEF InOrder

\* The first of the prefixes that stand out.
LEMMA InsideIs ==
  ASSUME NEW s, NEW limit \in Nat, limit > 0
  PROVE  LET P == AtMost(limit, Above(s))
         IN  /\ P \in Seq(TrackPrefixes) /\ InOrder(P)
             /\ Outstanding(s) # {} => Len(P) > 0
             /\ \A i \in 1 .. Len(P) : \E j \in Outstanding(s) :
                  Rank(s, j) <= limit /\ P[i] = Triples[j]
             /\ \A j \in Outstanding(s) : Rank(s, j) <= limit =>
                  Rank(s, j) \in 1 .. Len(P) /\ P[Rank(s, j)] = Triples[j]
<1> DEFINE P == AtMost(limit, Above(s))
           O == Outstanding(s)
           A == Above(s)
           n == IF limit < Len(A) THEN limit ELSE Len(A)
<1>1. /\ A \in Seq(TrackPrefixes) /\ Len(A) = Rank(s, Steps3)
      /\ \A j \in O : Rank(s, j) \in 1 .. Len(A) /\ A[Rank(s, j)] = Triples[j]
      /\ \A i \in 1 .. Len(A) : \E j \in O : Rank(s, j) = i
  BY AboveRanks
<1>2. O \subseteq 1 .. Steps3
  BY RankIs
<1>3. P = SubSeq(A, 1, n)
  BY DEF AtMost
<1> HIDE DEF A, P
<1>4. n \in 0 .. Len(A) /\ n <= limit
  BY <1>1
<1> HIDE DEF n
<1>5. P \in Seq(TrackPrefixes) /\ Len(P) = n /\ \A i \in 1 .. n : P[i] = A[i]
  BY <1>1, <1>3, <1>4, HeadIs
<1>6. \A i \in 1 .. Len(P) : \E j \in O : Rank(s, j) = i /\ P[i] = Triples[j]
  <2>1. ASSUME NEW i \in 1 .. Len(P) PROVE \E j \in O : Rank(s, j) = i /\ P[i] = Triples[j]
    <3>1. i \in 1 .. Len(A)
      BY <1>4, <1>5
    <3>2. PICK j \in O : Rank(s, j) = i
      BY <1>1, <3>1
    <3>3. P[i] = A[i] /\ A[Rank(s, j)] = Triples[j]
      BY <1>1, <1>5
    <3>4. QED
      BY <3>2, <3>3
  <2>2. QED
    BY <2>1
<1>7. \A j \in O : Rank(s, j) <= limit => Rank(s, j) \in 1 .. Len(P) /\ P[Rank(s, j)] = Triples[j]
  <2>1. ASSUME NEW j \in O, Rank(s, j) <= limit
        PROVE  Rank(s, j) \in 1 .. Len(P) /\ P[Rank(s, j)] = Triples[j]
    <3>1. Rank(s, j) \in 1 .. Len(A) /\ A[Rank(s, j)] = Triples[j]
      BY <1>1
    <3>2. Rank(s, j) \in 1 .. n
      BY <1>1, <2>1, <3>1 DEF n
    <3>3. QED
      BY <1>5, <3>1, <3>2
  <2>2. QED
    BY <2>1
<1>8. InOrder(P)
  <2>1. ASSUME NEW u \in 1 .. Len(P), NEW v \in 1 .. Len(P), u < v
        PROVE  Lower(P[u], P[v])
    <3>1. PICK i \in O : Rank(s, i) = u /\ P[u] = Triples[i]
      BY <1>6
    <3>2. PICK j \in O : Rank(s, j) = v /\ P[v] = Triples[j]
      BY <1>6
    <3>3. i \in 1 .. Steps3 /\ j \in 1 .. Steps3
      BY <1>2
    <3>4. i \in Nat /\ j \in Nat
      BY <3>3
    <3>5. j <= i => Rank(s, j) <= Rank(s, i)
      BY <3>4, RankGrows
    <3>6. i < j
      <4>1. u \in Int /\ v \in Int
        BY <1>5
      <4>2. QED
        BY <2>1, <3>1, <3>2, <3>4, <3>5, <4>1
    <3>7. Lower(Triples[i], Triples[j])
      BY <3>3, <3>6, TriplesOrder
    <3>8. QED
      BY <3>1, <3>2, <3>7
  <2>2. QED
    BY <2>1 DEF InOrder
<1>9. O # {} => Len(P) > 0
  <2>1. ASSUME O # {} PROVE n > 0
    <3>1. PICK j \in O : TRUE
      BY <2>1
    <3>2. Rank(s, j) \in 1 .. Len(A)
      BY <1>1
    <3>3. QED
      BY <1>1, <3>2 DEF n
  <2>2. QED
    BY <1>5, <2>1
<1>10. \A i \in 1 .. Len(P) : \E j \in O : Rank(s, j) <= limit /\ P[i] = Triples[j]
  <2>1. \A i \in 1 .. Len(P) : i <= limit
    BY <1>4, <1>5
  <2>2. QED
    BY <1>6, <2>1
<1>11. QED
  BY <1>5, <1>7, <1>8, <1>9, <1>10 DEF P

\* How many stand out before one that does.
LEMMA RankBefore ==
  ASSUME NEW s, NEW k \in Outstanding(s)
  PROVE  Cardinality({l \in Outstanding(s) : l < k}) + 1 = Rank(s, k)
<1> DEFINE O == Outstanding(s)
<1>1. O \subseteq 1 .. Steps3
  BY RankIs
<1>2. k - 1 \in Nat /\ (k - 1) + 1 = k /\ \A l \in O : l < k <=> l <= k - 1
  BY <1>1
<1> HIDE DEF O
<1>3. {l \in O : l < k} = {l \in O : l <= k - 1}
  BY <1>2
<1>4. Cardinality({l \in O : l < k}) = Rank(s, k - 1)
  BY <1>3 DEF Rank, O
<1>5. Rank(s, (k - 1) + 1) = Rank(s, k - 1) + 1
  BY <1>2, RankIs
<1>6. QED
  BY <1>2, <1>4, <1>5 DEF O

\* A search is one for the best of the candidates of some prefixes, in order,
\* and those are the candidates it had to try.
Searches(s, limit, P) ==
  /\ P \in Seq(TrackPrefixes) /\ InOrder(P) /\ Len(P) > 0
  /\ \E other : Scan(s, limit).m = PositionsOf(BestOf(s, With(P)), other)
  /\ Reached(s, limit) = {With(P)[k] : k \in 1 .. Len(With(P))}

\* Without a limit, or if none stands out, they are all.
LEMMA AllReached ==
  ASSUME NEW s, NEW limit \in Nat, limit = 0 \/ Outstanding(s) = {}
  PROVE  Searches(s, limit, Triples)
<1>1. Triples \in Seq(TrackPrefixes) /\ InOrder(Triples) /\ Len(Triples) > 0
  BY TriplesInOrder, TriplesAre, FcbConstants
<1>2. Scan(s, limit).m = SearchDepthFirst(s)
  <2>1. CASE limit = 0
    BY <2>1 DEF Scan
  <2>2. CASE limit # 0 /\ Outstanding(s) = {}
    <3> DEFINE P == AtMost(limit, Above(s))
    <3>1. limit > 0 /\ ~(limit <= 0)
      BY <2>2
    <3>2. P \in Seq(TrackPrefixes) /\ \A i \in 1 .. Len(P) : \E j \in Outstanding(s) :
                  Rank(s, j) <= limit /\ P[i] = Triples[j]
      BY <3>1, InsideIs
    <3>3. Scan(s, limit).m = PositionsOf(BestOf(s, With(P)), SearchDepthFirst(s))
      BY <3>1 DEF Scan
    <3> HIDE DEF P
    <3>4. \A i \in 1 .. Len(P) : FALSE
      BY <2>2, <3>2
    <3>5. Len(With(P)) \in Nat /\ \A k \in 1 .. Len(With(P)) : FALSE
      <4>1. Len(With(P)) \in Nat
        BY <3>2, WithIs
      <4>2. \A k \in 1 .. Len(With(P)) : \E i \in 1 .. Len(P), l \in 1 .. 2 * Steps :
              k = l + (2 * Steps) * (i - 1)
        BY <3>2, WithNumbers
      <4>3. QED
        BY <3>4, <4>1, <4>2
    <3>6. BestOf(s, With(P)) = <<>> \/ \E k \in 1 .. Len(With(P)) :
            BestOf(s, With(P)) = <<Measured(s, With(P)[k])>>
      BY <3>5, BestIsOne
    <3>7. BestOf(s, With(P)) = <<>>
      BY <3>5, <3>6
    <3>8. QED
      BY <3>3, <3>7 DEF PositionsOf
  <2>3. QED
    BY <2>1, <2>2
<1>3. Scan(s, limit).m = PositionsOf(BestOf(s, With(Triples)), DefaultPositions)
  BY <1>2 DEF SearchDepthFirst, AllCandidates
<1>4. Reached(s, limit) = ToSet(AllCandidates)
  BY DEF Reached
<1>5. ToSet(AllCandidates) = {With(Triples)[k] : k \in 1 .. Len(With(Triples))}
  <2> DEFINE n == Len(Triples) * Len(Track3)
             V(k) == Append(Triples[1 + ((k - 1) \div Len(Track3))],
                            Track3[1 + ((k - 1) % Len(Track3))])
  <2>1. AllCandidates = [k \in 1 .. n |-> V(k)] /\ AllCandidates = With(Triples)
    BY DEF AllCandidates, With
  <2>2. n \in Nat
    BY <1>1, Track3Is, FcbConstants
  <2> HIDE DEF n, V
  <2>3. Len(AllCandidates) = n /\ DOMAIN AllCandidates = 1 .. n
    BY <2>1, <2>2
  <2>4. ToSet(AllCandidates) = {AllCandidates[k] : k \in 1 .. n}
    BY <2>3 DEF ToSet
  <2>5. QED
    BY <2>1, <2>3, <2>4
<1>6. QED
  BY <1>1, <1>3, <1>4, <1>5 DEF Searches

\* Otherwise they are those of the first prefixes that stand out.
LEMMA SomeReached ==
  ASSUME NEW s, NEW limit \in Nat, limit # 0, Outstanding(s) # {}
  PROVE  Searches(s, limit, AtMost(limit, Above(s)))
<1> DEFINE P == AtMost(limit, Above(s))
           O == Outstanding(s)
           t == 2 * Steps
           inside == {k \in O : Cardinality({l \in O : l < k}) < limit}
<1>1. limit > 0
  OBVIOUS
<1>2. /\ P \in Seq(TrackPrefixes) /\ InOrder(P) /\ Len(P) > 0
      /\ \A i \in 1 .. Len(P) : \E j \in O : Rank(s, j) <= limit /\ P[i] = Triples[j]
      /\ \A j \in O : Rank(s, j) <= limit =>
                  Rank(s, j) \in 1 .. Len(P) /\ P[Rank(s, j)] = Triples[j]
  BY <1>1, InsideIs
<1>3. Scan(s, limit).m = PositionsOf(BestOf(s, With(P)), SearchDepthFirst(s))
  BY <1>1 DEF Scan
<1>4. inside = {k \in O : Rank(s, k) <= limit}
  <2>1. \A k \in O : Cardinality({l \in O : l < k}) < limit <=> Rank(s, k) <= limit
    <3>1. ASSUME NEW k \in O
          PROVE  Cardinality({l \in O : l < k}) < limit <=> Rank(s, k) <= limit
      <4> DEFINE c == Cardinality({l \in O : l < k})
      <4>1. c + 1 = Rank(s, k)
        BY RankBefore
      <4>2. k - 1 \in Nat
        BY RankIs
      <4>3. c \in Nat
        <5>1. O \subseteq 1 .. Steps3 /\ IsFiniteSet(1 .. Steps3)
          BY RankIs, FcbConstants, FS_Interval
        <5> DEFINE B == {l \in O : l < k}
        <5>2. B \subseteq 1 .. Steps3
          BY <5>1
        <5> HIDE DEF B
        <5>3. IsFiniteSet(B)
          BY <5>1, <5>2, FS_Subset
        <5>4. Cardinality(B) \in Nat
          BY <5>3, FS_CardinalityType
        <5>5. QED
          BY <5>4 DEF B
      <4> HIDE DEF c
      <4>4. c < limit <=> c + 1 <= limit
        BY <4>3
      <4>5. QED
        BY <4>1, <4>4 DEF c
    <3>2. QED
      BY <3>1
  <2>2. QED
    BY <2>1
<1>5. Reached(s, limit)
        = {m \in ToSet(AllCandidates) : \E k \in inside : SubSeq(m, 1, 3) = Triples[k]}
  BY DEF Reached
<1>6. ToSet(AllCandidates) = {With(Triples)[k] : k \in 1 .. Len(With(Triples))}
  <2>1. Reached(s, 0) = ToSet(AllCandidates)
    BY DEF Reached
  <2>2. Searches(s, 0, Triples)
    BY AllReached
  <2>3. QED
    BY <2>1, <2>2 DEF Searches
<1>7. Triples \in Seq(TrackPrefixes) /\ Len(Triples) = Steps3
      /\ \A k \in 1 .. Steps3 : Triples[k] \in TrackPrefixes
  BY TriplesSeq, TriplesAre
<1>8. O \subseteq 1 .. Steps3
  BY RankIs
<1>9. \A l \in 1 .. t : Track3[l] \in Nat
  <2>1. ASSUME NEW l \in 1 .. t PROVE Track3[l] \in Nat
    <3>1. PICK d \in 0 .. Steps - 1, e \in 0 .. 1 : Track3[l] = 5 * d + 3 + e
      BY Track3Is
    <3>2. QED
      BY <3>1, FcbConstants
  <2>2. QED
    BY <2>1
<1> HIDE DEF P, O, inside
<1>10. ASSUME NEW k \in 1 .. Len(With(P)) PROVE With(P)[k] \in Reached(s, limit)
  <2>1. PICK i \in 1 .. Len(P), l \in 1 .. t : k = l + t * (i - 1)
    BY <1>2, WithNumbers
  <2>2. With(P)[l + t * (i - 1)] = Completed(P[i], Track3[l])
    BY <1>2, WithNumbers
  <2>3. PICK j \in O : Rank(s, j) <= limit /\ P[i] = Triples[j]
    BY <1>2
  <2>4. j \in 1 .. Len(Triples)
    BY <1>7, <1>8
  <2>5. /\ l + t * (j - 1) \in 1 .. Len(With(Triples))
        /\ With(Triples)[l + t * (j - 1)] = Completed(Triples[j], Track3[l])
    BY <1>7, <2>4, WithNumbers
  <2>6. With(P)[k] = With(Triples)[l + t * (j - 1)]
    BY <2>1, <2>2, <2>3, <2>5
  <2>7. SubSeq(Completed(Triples[j], Track3[l]), 1, 3) = Triples[j]
    BY <1>7, <1>9, <2>4, CompletedIs
  <2>8. j \in inside
    BY <1>4, <2>3
  <2>9. With(P)[k] \in ToSet(AllCandidates)
    BY <1>6, <2>5, <2>6
  <2>10. QED
    BY <1>5, <2>5, <2>6, <2>7, <2>8, <2>9
<1>11. ASSUME NEW m \in Reached(s, limit) PROVE \E k \in 1 .. Len(With(P)) : m = With(P)[k]
  <2>1. m \in ToSet(AllCandidates) /\ \E k \in inside : SubSeq(m, 1, 3) = Triples[k]
    BY <1>5
  <2>2. PICK k \in 1 .. Len(With(Triples)) : m = With(Triples)[k]
    BY <1>6, <2>1
  <2>3. PICK q \in 1 .. Len(Triples), l \in 1 .. t : k = l + t * (q - 1)
    BY <1>7, WithNumbers
  <2>4. With(Triples)[l + t * (q - 1)] = Completed(Triples[q], Track3[l])
    BY <1>7, WithNumbers
  <2>5. m = Completed(Triples[q], Track3[l])
    BY <2>2, <2>3, <2>4
  <2>6. SubSeq(m, 1, 3) = Triples[q]
    <3>1. Triples[q] \in TrackPrefixes /\ Track3[l] \in Nat
      BY <1>7, <1>9
    <3>2. QED
      BY <2>5, <3>1, CompletedIs
  <2>7. PICK j \in inside : Triples[q] = Triples[j]
    BY <2>1, <2>6
  <2>8. j \in O /\ Rank(s, j) <= limit
    BY <1>4
  <2>9. Rank(s, j) \in 1 .. Len(P) /\ P[Rank(s, j)] = Triples[j]
    BY <1>2, <2>8
  <2> DEFINE i == Rank(s, j)
  <2>10. /\ l + t * (i - 1) \in 1 .. Len(With(P))
         /\ With(P)[l + t * (i - 1)] = Completed(P[i], Track3[l])
    BY <1>2, <2>9, WithNumbers
  <2>11. With(P)[l + t * (i - 1)] = m
    BY <2>5, <2>7, <2>9, <2>10
  <2>12. QED
    BY <2>10, <2>11
<1>12. Reached(s, limit) = {With(P)[k] : k \in 1 .. Len(With(P))}
  BY <1>10, <1>11
<1>13. QED
  BY <1>2, <1>3, <1>12 DEF Searches, P

\* All candidates have been measured, and have energy.
LEMMA RatedIs ==
  ASSUME NEW x \in Signals, NEW h \in Signals, h[0] > 2, NEW s, s = Surface(x, h),
         PhiFits(s), NEW c, Len(c) \in Nat, \A k \in 1 .. Len(c) : c[k] \in Candidates
  PROVE  RatedList(s, c)
<1>1. ASSUME NEW k \in 1 .. Len(c) PROVE Rated(Measured(s, c[k]))
  <2> DEFINE m == c[k]
  <2>1. m \in Candidates
    BY <1>1
  <2> HIDE DEF m
  <2>2. Energy(s, m) \in Int /\ Energy(s, m) > 0
    BY <2>1, CriterionIs
  <2>3. /\ m[1] \in Samples /\ m[2] \in Samples /\ m[3] \in Samples /\ m[4] \in Samples
        /\ Len(m) = 4
    BY <2>1, PositionsAre
  <2>4. \A i \in Samples : s.abs[i] \in Int
    BY SurfaceIs
  <2>5. \A i \in 1 .. 4 : s.abs[m[i]] \in Int
    <3>1. \A i \in 1 .. 4 : i = 1 \/ i = 2 \/ i = 3 \/ i = 4
      OBVIOUS
    <3>2. QED
      BY <2>3, <2>4, <3>1
  <2>6. Correlation(s, m) = s.abs[m[1]] + s.abs[m[2]] + s.abs[m[3]] + s.abs[m[4]]
    BY <2>3, <2>5, CorrelationIs
  <2>7. Correlation(s, m) \in Int
    <3>1. /\ s.abs[m[1]] \in Int /\ s.abs[m[2]] \in Int
          /\ s.abs[m[3]] \in Int /\ s.abs[m[4]] \in Int
      BY <2>3, <2>4
    <3>2. QED
      BY <2>6, <3>1
  <2>8. Rated(Measured(s, m))
    BY <2>2, <2>7 DEF Rated, Measured
  <2>9. QED
    BY <2>8 DEF m
<1>2. QED
  BY <1>1 DEF RatedList

\* What a search returns is ahead of all it had to try.
LEMMA SearchFinds ==
  ASSUME NEW x \in Signals, NEW h \in Signals, h[0] > 2, NEW s, s = Surface(x, h),
         PhiFits(s), NEW limit \in Nat
  PROVE  LET first == Scan(s, limit).m
             best == Measured(s, first)
         IN  /\ first \in Reached(s, limit)
             /\ \A m \in Reached(s, limit) :
                  /\ ~RatioGreater(Measured(s, m), best)
                  /\ m # first /\ ~RatioGreater(best, Measured(s, m)) => Before(first, m)
<1>1. PICK P : Searches(s, limit, P)
  BY AllReached, SomeReached
<1> DEFINE c == With(P)
           first == Scan(s, limit).m
<1>2. P \in Seq(TrackPrefixes) /\ InOrder(P) /\ Len(P) > 0
      /\ Reached(s, limit) = {c[k] : k \in 1 .. Len(c)}
  BY <1>1 DEF Searches
<1>3. PICK other : first = PositionsOf(BestOf(s, c), other)
  BY <1>1 DEF Searches
<1>4. Len(c) \in Nat /\ \A k \in 1 .. Len(c) : c[k] \in Candidates
  BY <1>2, WithIs
<1>5. Len(c) > 0
  <2>1. 1 \in 1 .. Len(P) /\ 1 \in 1 .. 2 * Steps
    BY <1>2, FcbConstants
  <2>2. 1 + (2 * Steps) * (1 - 1) \in 1 .. Len(c)
    BY <1>2, <2>1, WithNumbers
  <2>3. QED
    BY <1>4, <2>2
<1>6. \A i, j \in 1 .. Len(c) : i < j => Before(c[i], c[j])
  BY <1>2, WithOrder
<1> HIDE DEF c, first
<1>7. RatedList(s, c)
  BY <1>4, RatedIs
<1>8. PICK j \in 1 .. Len(c) : /\ BestOf(s, c) = <<Measured(s, c[j])>>
                               /\ \A i \in 1 .. Len(c) : i # j => Ahead(s, c, j, i)
  BY <1>5, <1>7, BestIsAhead
<1>9. first = c[j]
  BY <1>3, <1>8 DEF PositionsOf, Measured
<1>10. ASSUME NEW i \in 1 .. Len(c)
       PROVE  /\ ~RatioGreater(Measured(s, c[i]), Measured(s, c[j]))
              /\ c[i] # c[j] /\ ~RatioGreater(Measured(s, c[j]), Measured(s, c[i]))
                   => Before(c[j], c[i])
  <2>1. Rated(Measured(s, c[i])) /\ Rated(Measured(s, c[j]))
    BY <1>7 DEF RatedList
  <2>2. CASE i = j
    <3>1. ~RatioGreater(Measured(s, c[j]), Measured(s, c[j]))
      BY <2>1, RatioOrder
    <3>2. QED
      BY <2>2, <3>1
  <2>3. CASE i # j
    <3>1. Ahead(s, c, j, i)
      BY <1>8, <2>3
    <3>2. /\ RatioGreater(Measured(s, c[j]), Measured(s, c[i]))
               => ~RatioGreater(Measured(s, c[i]), Measured(s, c[j]))
      BY <2>1, RatioOrder
    <3>3. QED
      BY <1>6, <3>1, <3>2 DEF Ahead
  <2>4. QED
    BY <2>2, <2>3
<1>11. first \in Reached(s, limit)
  BY <1>2, <1>9
<1>12. \A m \in Reached(s, limit) :
         /\ ~RatioGreater(Measured(s, m), Measured(s, first))
         /\ m # first /\ ~RatioGreater(Measured(s, first), Measured(s, m)) => Before(first, m)
  <2>1. ASSUME NEW m \in Reached(s, limit)
        PROVE  /\ ~RatioGreater(Measured(s, m), Measured(s, first))
               /\ m # first /\ ~RatioGreater(Measured(s, first), Measured(s, m))
                    => Before(first, m)
    <3>1. PICK i \in 1 .. Len(c) : m = c[i]
      BY <1>2
    <3>2. QED
      BY <1>9, <1>10, <3>1
  <2>2. QED
    BY <2>1
<1>13. QED
  BY <1>11, <1>12 DEF first

-----------------------------------------------------------------------------
(* FcbSearch: when nothing stands out.                                     *)

\* A sum of ones.
LEMMA SumOnes ==
  ASSUME NEW F, NEW n \in Nat, \A k \in 1 .. n : F[k] = 1
  PROVE  SumOver(F, 1, n) = n /\ Summable(F, 1, n)
<1> DEFINE g == [k \in 1 - 1 .. n |-> k]
<1>1. Summable(F, 1, n)
  BY DEF Summable
<1>2. SumsOf(g, F, 1, n)
  <2>1. 1 - 1 = 0 /\ 1 - 1 \in 1 - 1 .. n /\ n \in 1 - 1 .. n
    OBVIOUS
  <2>2. g \in [1 - 1 .. n -> Int] /\ g[1 - 1] = 0
    BY <2>1
  <2>3. \A k \in 1 .. n : g[k] = g[k - 1] + F[k]
    <3>1. \A k \in 1 .. n : k \in 1 - 1 .. n /\ k - 1 \in 1 - 1 .. n /\ k = (k - 1) + 1
      OBVIOUS
    <3>2. QED
      BY <3>1
  <2> HIDE DEF g
  <2>4. QED
    BY <2>2, <2>3 DEF SumsOf
<1>3. g[n] = n
  <2>1. n \in 1 - 1 .. n
    OBVIOUS
  <2>2. QED
    BY <2>1
<1> HIDE DEF g
<1>4. SumOver(F, 1, n) = g[n]
  BY <1>1, <1>2, SumIs
<1>5. QED
  BY <1>1, <1>3, <1>4

\* If one of n numbers is below the most, so is their mean.
LEMMA MeanBelow ==
  ASSUME NEW F, NEW n \in Nat, NEW most \in Int,
         \A k \in 1 .. n : F[k] \in Nat /\ F[k] <= most,
         NEW j \in 1 .. n, F[j] < most
  PROVE  SumOver(F, 1, n) \in Nat /\ SumOver(F, 1, n) < most * n
<1> DEFINE one == [k \in 1 .. n |-> 1]
           all == [k \in 1 .. n |-> most * one[k]]
           gap == [k \in 1 .. n |-> all[k] + (-1) * F[k]]
<1>0. \A k \in 1 .. n : one[k] = 1 /\ all[k] = most * one[k] /\ gap[k] = all[k] + (-1) * F[k]
  OBVIOUS
<1>1. Summable(F, 1, n)
  BY DEF Summable
<1> HIDE DEF one, all, gap
<1>2. SumOver(one, 1, n) = n /\ Summable(one, 1, n)
  BY <1>0, SumOnes
<1>3. SumOver(all, 1, n) = most * n /\ Summable(all, 1, n)
  <2>1. \A k \in 1 .. n : all[k] = most * one[k]
    BY <1>0
  <2>2. SumOver(all, 1, n) = most * SumOver(one, 1, n) /\ Summable(all, 1, n)
    BY <1>2, <2>1, SumTimes
  <2>3. QED
    BY <1>2, <2>2
<1>4. SumOver(gap, 1, n) = SumOver(all, 1, n) + (-1) * SumOver(F, 1, n) /\ Summable(gap, 1, n)
  <2>1. -1 \in Int
    OBVIOUS
  <2>2. QED
    BY <1>0, <1>1, <1>3, <2>1, SumLinear
<1>5. \A k \in 1 .. n : gap[k] = most - F[k]
  <2>1. \A k \in 1 .. n : all[k] = most /\ F[k] \in Int
    BY <1>0
  <2>2. QED
    BY <1>0, <2>1
<1>6. \A k \in 1 .. n : gap[k] >= 0
  BY <1>5
<1>7. SumOver(gap, 1, n) >= gap[j] /\ SumOver(gap, 1, n) \in Int
  BY <1>4, <1>6, SumAtLeast, SumInt
<1>8. SumOver(F, 1, n) >= 0 /\ SumOver(F, 1, n) \in Int
  <2>1. \A k \in 1 .. n : F[k] >= 0
    OBVIOUS
  <2>2. QED
    BY <1>1, <2>1, SumAtLeast, SumInt
<1>9. gap[j] > 0 /\ gap[j] \in Int
  BY <1>5
<1> DEFINE total == SumOver(F, 1, n)
           p == most * n
<1>10. p \in Int
  OBVIOUS
<1>11. SumOver(gap, 1, n) = p + (-1) * total
  BY <1>3, <1>4
<1> HIDE DEF total, p
<1>12. total \in Nat /\ total < p
  BY <1>7, <1>8, <1>9, <1>10, <1>11 DEF total
<1>13. QED
  BY <1>12 DEF total, p

\* The correlation of a prefix, where none is at the edge.
LEMMA PrefixIs ==
  ASSUME NEW s, InRange(s), NEW k \in 1 .. Steps3
  PROVE  Correlation(s, Triples[k]) \in 0 .. 3 * Word
<1> DEFINE m == Triples[k]
<1>1. PICK a, b, c \in 0 .. Steps - 1 : m = Triple(a, b, c)
  BY TripleDigits
<1>2. m[1] = 5 * a /\ m[2] = 5 * b + 1 /\ m[3] = 5 * c + 2 /\ Len(m) = 3
  BY <1>1 DEF Triple
<1> HIDE DEF m
<1>3. m[1] \in Samples /\ m[2] \in Samples /\ m[3] \in Samples
  BY <1>2, SamplesAre, FcbConstants
<1>4. Word \in Nat
  BY FcbAssumption DEF FcbAssumption
<1>5. /\ s.abs[m[1]] \in 0 .. Word - 2 /\ s.abs[m[2]] \in 0 .. Word - 2
      /\ s.abs[m[3]] \in 0 .. Word - 2
  BY <1>3 DEF InRange
<1> DEFINE G == [i \in 1 .. 3 |-> s.abs[m[i]]]
<1>6. Correlation(s, m) = SumOver(G, 1, 3)
  BY <1>2 DEF Correlation
<1>7. G[1] = s.abs[m[1]] /\ G[2] = s.abs[m[2]] /\ G[3] = s.abs[m[3]]
  OBVIOUS
<1> HIDE DEF G
<1>8. G[1] \in 0 .. Word - 2 /\ G[2] \in 0 .. Word - 2 /\ G[3] \in 0 .. Word - 2
  BY <1>5, <1>7
<1>9. SumOver(G, 1, 3) = G[1] + G[2] + G[3]
  BY <1>8, SumThree
<1>10. Correlation(s, m) \in 0 .. 3 * Word
  BY <1>4, <1>6, <1>8, <1>9
<1>11. QED
  BY <1>10 DEF m

\* A threshold none passes is that of equals.
LEMMA NoneStandsOut ==
  ASSUME NEW s, InRange(s), Outstanding(s) = {}, NEW k \in 1 .. Steps3, NEW l \in 1 .. Steps3
  PROVE  Correlation(s, Triples[k]) = Correlation(s, Triples[l])
<1> DEFINE F == [i \in DOMAIN Triples |-> Correlation(s, Triples[i])]
           n == Steps3
           reached == {0} \cup ToSet(F)
           most == CHOOSE a \in reached : \A b \in reached : b <= a
           total == SumOver(F, 1, n)
           mean == Quotient(total, n)
<1>1. n \in Nat /\ n > 0 /\ DOMAIN Triples = 1 .. n /\ DOMAIN F = 1 .. n
  BY TriplesAre, FcbConstants
<1>2. \A i \in 1 .. n : F[i] = Correlation(s, Triples[i]) /\ F[i] \in 0 .. 3 * Word
  BY <1>1, PrefixIs
<1>3. Len(F) = n
  BY <1>1
<1>4. Threshold(s) = mean + (4 * (most - mean)) \div 10
  <2>1. Threshold(s) = Quotient(SumOver(F, 1, Len(F)), Len(F))
          + (4 * (most - Quotient(SumOver(F, 1, Len(F)), Len(F)))) \div 10
    BY DEF Threshold
  <2>2. QED
    BY <1>3, <2>1
<1>5. \A i \in 1 .. n : ~(F[i] > Threshold(s))
  BY <1>1, <1>2 DEF Outstanding
<1>6. Word \in Nat
  BY FcbAssumption DEF FcbAssumption
<1>7. ToSet(F) = {F[i] : i \in 1 .. n}
  BY <1>1 DEF ToSet
<1> HIDE DEF F
<1>8. most \in reached /\ \A b \in reached : b <= most
  <2>1. \A b \in reached : b \in 0 .. 3 * Word
    BY <1>2, <1>6, <1>7
  <2> DEFINE T == {3 * Word - b : b \in reached}
  <2>2. T \in SUBSET Nat /\ T # {}
    BY <1>6, <2>1
  <2>3. PICK u \in T : \A v \in T : u <= v
    <3> HIDE DEF T
    <3>1. QED
      BY <2>2, NatLeast
  <2>4. PICK a \in reached : u = 3 * Word - a
    BY <2>3
  <2>5. \A b \in reached : b <= a
    <3>1. ASSUME NEW b \in reached PROVE b <= a
      <4>1. 3 * Word - a <= 3 * Word - b
        BY <2>3, <2>4, <3>1
      <4>2. QED
        BY <1>6, <2>1, <3>1, <4>1
    <3>2. QED
      BY <3>1
  <2> HIDE DEF reached
  <2>6. QED
    BY <2>5
<1> HIDE DEF most
<1>9. most \in Nat /\ \A i \in 1 .. n : F[i] <= most /\ F[i] \in Nat
  <2>1. \A i \in 1 .. n : F[i] \in reached
    BY <1>7
  <2>2. \A b \in reached : b \in Nat
    BY <1>2, <1>6, <1>7
  <2>3. QED
    BY <1>8, <2>1, <2>2
<1>10. ASSUME NEW j \in 1 .. n, F[j] < most PROVE FALSE
  <2>1. total \in Nat /\ total < most * n
    BY <1>1, <1>9, <1>10, MeanBelow
  <2>2. mean = total \div n
    BY <2>1 DEF Quotient
  <2> HIDE DEF total, mean
  <2>3. mean \in Nat /\ mean < most
    <3> HIDE DEF n
    <3>1. mean \in Nat /\ n * mean <= total
      BY <1>1, <2>1, <2>2
    <3>2. CASE mean >= most
      <4>1. n * mean >= n * most /\ n * most = most * n
        BY <1>1, <1>9, <3>1, <3>2
      <4> DEFINE p == n * mean
                 q == most * n
      <4>2. p \in Int /\ q \in Int
        BY <1>1, <1>9, <3>1
      <4> HIDE DEF p, q
      <4>3. p >= q /\ p <= total /\ total < q
        BY <2>1, <3>1, <4>1 DEF p, q
      <4>4. FALSE
        BY <2>1, <4>2, <4>3
      <4>5. QED
        BY <4>4
    <3>3. QED
      BY <1>9, <3>1, <3>2
  <2>4. Threshold(s) < most /\ Threshold(s) \in Int /\ Threshold(s) >= 0
    BY <1>4, <1>9, <2>3
  <2>5. CASE most = 0
    BY <1>9, <1>10, <2>5
  <2>6. CASE most # 0
    <3>1. PICK i \in 1 .. n : most = F[i]
      BY <1>7, <1>8, <2>6
    <3>2. F[i] > Threshold(s)
      BY <1>9, <2>4, <3>1
    <3>3. QED
      BY <1>5, <3>2
  <2>7. QED
    BY <2>5, <2>6
<1>11. \A j \in 1 .. n : F[j] = most
  BY <1>9, <1>10
<1>12. QED
  BY <1>2, <1>11

\* Insertion keeps a list of some things.
LEMMA InsertedIs ==
  ASSUME NEW S, NEW list \in Seq(S), NEW next \in S, NEW limit \in Nat
  PROVE  Inserted(list, next, limit) \in Seq(S)
<1> DEFINE beaten == {k \in 1 .. Len(list) : \A l \in k .. Len(list) :
                                               RatioGreater(next, list[l])}
           c == Cardinality(beaten)
           at == Len(list) + 1 - c
           wider == InsertAt(list, at, next)
<1>1. Len(list) \in Nat
  OBVIOUS
<1>2. c \in 0 .. Len(list)
  <2>1. beaten \subseteq 1 .. Len(list)
    OBVIOUS
  <2>2. IsFiniteSet(1 .. Len(list)) /\ Cardinality(1 .. Len(list)) = Len(list)
    BY <1>1, FS_Interval
  <2> DEFINE I == 1 .. Len(list)
  <2> HIDE DEF beaten, I
  <2>3. IsFiniteSet(beaten) /\ Cardinality(beaten) <= Cardinality(I)
    BY <2>1, <2>2, FS_Subset DEF I
  <2>4. Cardinality(beaten) \in Nat
    BY <2>3, FS_CardinalityType
  <2>5. QED
    BY <1>1, <2>2, <2>3, <2>4 DEF I
<1> HIDE DEF c
<1>3. wider \in Seq(S)
  <2>1. at \in 1 .. Len(list) + 1 /\ at - 1 \in 0 .. Len(list)
    BY <1>1, <1>2
  <2> HIDE DEF at
  <2>2. SubSeq(list, 1, at - 1) \in Seq(S) /\ SubSeq(list, at, Len(list)) \in Seq(S)
    BY <1>1, <2>1
  <2>3. <<next>> \in Seq(S)
    OBVIOUS
  <2>4. wider = SubSeq(list, 1, at - 1) \o <<next>> \o SubSeq(list, at, Len(list))
    BY DEF InsertAt
  <2> HIDE DEF wider
  <2>5. QED
    BY <2>2, <2>3, <2>4
<1>4. AtMost(limit, wider) \in Seq(S)
  <2> HIDE DEF wider
  <2>1. QED
    BY <1>3, AtMostIs
<1>5. Inserted(list, next, limit) \in {list, AtMost(limit, wider)}
  BY DEF Inserted, c
<1>6. QED
  BY <1>4, <1>5

-----------------------------------------------------------------------------
(* FcbSearch: the list of the best.                                        *)

\* What the candidates measure.
Measures(s) == {r \in {Measured(s, q) : q \in Candidates} : r.m \in Candidates}

\* Every candidate measures one of them.
LEMMA MeasuresAre ==
  ASSUME NEW s
  PROVE  \A q \in Candidates : Measured(s, q) \in Measures(s)
<1>1. \A q : Measured(s, q).m = q
  BY DEF Measured
<1>2. QED
  BY <1>1 DEF Measures

\* One candidate more, in the search for the best few.
TopStep(q, next) == IF next.e <= 0 THEN q ELSE Inserted(q, next, TopKLimit)

\* The loop of SearchTopK.
LEMMA TopLoop ==
  ASSUME NEW s
  PROVE  \E g : /\ g[0] = <<>>
                /\ \A k \in 1 .. Len(AllCandidates) :
                     /\ g[k] = TopStep(g[k - 1], Measured(s, AllCandidates[k]))
                     /\ g[k - 1] \in Seq(Measures(s))
                /\ g[Len(AllCandidates)] \in Seq(Measures(s))
                /\ SearchTopK(s, TopKLimit)
                     = LET list == g[Len(AllCandidates)]
                       IN  IF list = <<>> THEN <<DefaultPositions>>
                           ELSE [k \in DOMAIN list |-> list[k].m]
<1> DEFINE n == Len(AllCandidates)
           next(k) == Measured(s, AllCandidates[k])
           R == Measures(s)
           S == Seq(R)
           step(q, k) == IF next(k).e <= 0 THEN q ELSE Inserted(q, next(k), TopKLimit)
           E == [k \in 1 .. n |-> [q \in S |-> step(q, k)]]
           IsRun(f) == f = [k \in 0 .. n |-> IF k = 0 THEN <<>> ELSE step(f[k - 1], k)]
<1>1. n \in Nat /\ \A k \in 1 .. n : next(k) \in R
  BY AllCandidatesAre, MeasuresAre
<1> HIDE DEF next, R, n
<1>2. \A k \in 1 .. n : \A q \in S : step(q, k) \in S
  BY <1>1, InsertedIs, FcbConstants
<1>3. <<>> \in S
  OBVIOUS
<1> HIDE DEF step, S
<1>4. E \in [1 .. n -> [S -> S]] /\ \A k \in 1 .. n : \A q \in S : E[k][q] = step(q, k)
  BY <1>2
<1> HIDE DEF E
<1>5. PICK f : Runs(f, S, <<>>, n, E)
  BY <1>1, <1>3, <1>4, Recursion DEF StepsFrom
<1>6. f \in [0 .. n -> S] /\ f[0] = <<>> /\ \A k \in 1 .. n : f[k] = E[k][f[k - 1]]
  BY <1>5 DEF Runs
<1>7. \A k \in 0 .. n : f[k] = IF k = 0 THEN <<>> ELSE step(f[k - 1], k)
  <2>1. \A k \in 1 .. n : k - 1 \in 0 .. n /\ f[k - 1] \in S
    BY <1>1, <1>6
  <2>2. QED
    BY <1>1, <1>4, <1>6, <2>1
<1>8. IsRun(f)
  BY <1>6, <1>7
<1> DEFINE g == CHOOSE h : IsRun(h)
<1>9. IsRun(g)
  <2> HIDE DEF IsRun
  <2>1. QED
    BY <1>8
<1>10. SearchTopK(s, TopKLimit)
         = IF g[n] = <<>> THEN <<DefaultPositions>>
           ELSE [k \in DOMAIN g[n] |-> g[n][k].m]
  BY DEF SearchTopK, step, next, n
<1> HIDE DEF g
<1>11. \A k \in 0 .. n : g[k] = IF k = 0 THEN <<>> ELSE step(g[k - 1], k)
  BY <1>9
<1> DEFINE T == {k \in Nat : g[k] \in S}
<1>12. 0 \in T
  BY <1>1, <1>3, <1>11
<1>13. ASSUME NEW k \in 1 .. n, k - 1 \in T PROVE k \in T
  <2>1. k \in Nat /\ k \in 0 .. n /\ k # 0
    BY <1>1
  <2>2. g[k] = step(g[k - 1], k) /\ g[k - 1] \in S
    BY <1>11, <1>13, <2>1
  <2>3. step(g[k - 1], k) \in S
    BY <1>2, <2>2 DEF step, S
  <2>4. QED
    BY <2>1, <2>2, <2>3
<1> HIDE DEF T
<1>14. 0 .. n \subseteq T
  BY <1>1, <1>12, <1>13, RangeInduction
<1>15. \A k \in 0 .. n : g[k] \in S
  BY <1>14 DEF T
<1>16. \A k \in 1 .. n : g[k] = TopStep(g[k - 1], Measured(s, AllCandidates[k]))
                         /\ g[k - 1] \in S
  <2>1. \A k \in 1 .. n : k - 1 \in 0 .. n /\ k \in 0 .. n /\ k # 0
    BY <1>1
  <2>2. \A k \in 1 .. n : step(g[k - 1], k) = TopStep(g[k - 1], Measured(s, AllCandidates[k]))
    BY DEF step, next, TopStep
  <2>3. QED
    BY <1>11, <1>15, <2>1, <2>2
<1>17. g[0] = <<>> /\ g[n] \in S
  <2>1. 0 \in 0 .. n /\ n \in 0 .. n
    BY <1>1
  <2>2. QED
    BY <1>11, <1>15, <2>1
<1>18. QED
  BY <1>10, <1>16, <1>17 DEF n, S, R

\* What is reranked are candidates.
LEMMA TopKIs ==
  ASSUME NEW s, NEW m \in ToSet(SearchTopK(s, TopKLimit))
  PROVE  m \in Candidates
<1>1. PICK list \in Seq(Measures(s)) :
        SearchTopK(s, TopKLimit) = IF list = <<>> THEN <<DefaultPositions>>
                                   ELSE [k \in DOMAIN list |-> list[k].m]
  BY TopLoop
<1>2. \A k \in DOMAIN list : list[k].m \in Candidates
  <2>1. \A k \in DOMAIN list : list[k] \in Measures(s)
    OBVIOUS
  <2>2. QED
    BY <2>1 DEF Measures
<1> DEFINE top == SearchTopK(s, TopKLimit)
<1>3. PICK k \in DOMAIN top : m = top[k]
  BY DEF ToSet
<1> HIDE DEF top
<1>4. CASE list = <<>>
  <2>1. top = <<DefaultPositions>>
    BY <1>1, <1>4 DEF top
  <2>2. QED
    BY <1>3, <2>1, DefaultIs
<1>5. CASE list # <<>>
  <2>1. top = [l \in DOMAIN list |-> list[l].m]
    BY <1>1, <1>5 DEF top
  <2>2. QED
    BY <1>2, <1>3, <2>1
<1>6. QED
  BY <1>4, <1>5

\* One list after another.
Joined(S, u, v) ==
  /\ u \o v \in Seq(S) /\ Len(u \o v) = Len(u) + Len(v)
  /\ \A p \in 1 .. Len(u) : (u \o v)[p] = u[p]
  /\ \A p \in 1 .. Len(v) : (u \o v)[Len(u) + p] = v[p]

\* which has the elements of both.
LEMMA ConcatIs ==
  ASSUME NEW S, NEW u \in Seq(S), NEW v \in Seq(S)
  PROVE  Joined(S, u, v)
<1>1. u \o v \in Seq(S)
  OBVIOUS
<1>2. Len(u \o v) = Len(u) + Len(v)
  OBVIOUS
<1>3. \A p \in 1 .. Len(u) : (u \o v)[p] = u[p]
  OBVIOUS
<1>4. \A p \in 1 .. Len(v) : (u \o v)[Len(u) + p] = v[p]
  OBVIOUS
<1>5. QED
  BY <1>1, <1>2, <1>3, <1>4 DEF Joined

\* One element in between.
Opened(S, list, at, next) ==
  /\ InsertAt(list, at, next) \in Seq(S)
  /\ Len(InsertAt(list, at, next)) = Len(list) + 1
  /\ \A p \in 1 .. Len(list) + 1 :
       InsertAt(list, at, next)[p] =
         IF p < at THEN list[p] ELSE IF p = at THEN next ELSE list[p - 1]

\* which has the others around it.
LEMMA InsertIs ==
  ASSUME NEW S, NEW list \in Seq(S), NEW next \in S, NEW at \in 1 .. Len(list) + 1
  PROVE  Opened(S, list, at, next)
<1> DEFINE n == Len(list)
           u == SubSeq(list, 1, at - 1)
           v == <<next>>
           w == SubSeq(list, at, n)
           uv == u \o v
           z == uv \o w
<1>1. n \in Nat /\ at \in 1 .. n + 1
  OBVIOUS
<1>2. u \in Seq(S) /\ Len(u) = at - 1 /\ \A p \in 1 .. at - 1 : u[p] = list[p]
  <2>1. at - 1 \in 0 .. n
    BY <1>1
  <2>2. QED
    BY <2>1, HeadIs
<1>3. v \in Seq(S) /\ Len(v) = 1 /\ v[1] = next
  OBVIOUS
<1>4. w \in Seq(S) /\ Len(w) = n + 1 - at
  BY <1>1
<1>5. \A p \in 1 .. n + 1 - at : w[p] = list[at + p - 1]
  BY <1>1
<1>6. InsertAt(list, at, next) = z
  BY DEF InsertAt
<1> HIDE DEF n, u, v, w
<1>7. /\ uv \in Seq(S) /\ Len(uv) = Len(u) + Len(v)
      /\ \A p \in 1 .. Len(u) : uv[p] = u[p]
      /\ \A p \in 1 .. Len(v) : uv[Len(u) + p] = v[p]
  <2>1. Joined(S, u, v)
    BY <1>2, <1>3, ConcatIs
  <2>2. QED
    BY <2>1 DEF Joined
<1> HIDE DEF uv
<1>8. /\ z \in Seq(S) /\ Len(z) = Len(uv) + Len(w)
      /\ \A p \in 1 .. Len(uv) : z[p] = uv[p]
      /\ \A p \in 1 .. Len(w) : z[Len(uv) + p] = w[p]
  <2>1. Joined(S, uv, w)
    BY <1>4, <1>7, ConcatIs
  <2>2. QED
    BY <2>1 DEF Joined
<1> HIDE DEF z
<1>9. Len(uv) = at /\ Len(z) = n + 1
  BY <1>1, <1>2, <1>3, <1>4, <1>7, <1>8
<1>10. \A p \in 1 .. n + 1 : z[p] = IF p < at THEN list[p] ELSE IF p = at THEN next ELSE list[p - 1]
  <2>1. ASSUME NEW p \in 1 .. n + 1
        PROVE  z[p] = IF p < at THEN list[p] ELSE IF p = at THEN next ELSE list[p - 1]
    <3>1. CASE p < at
      <4>1. p \in 1 .. at - 1 /\ p \in 1 .. at
        BY <1>1, <3>1
      <4>2. z[p] = uv[p] /\ uv[p] = u[p] /\ u[p] = list[p]
        BY <1>2, <1>7, <1>8, <1>9, <4>1
      <4>3. QED
        BY <3>1, <4>2
    <3>2. CASE p = at
      <4>1. at \in 1 .. at /\ ~(at < at) /\ 1 \in 1 .. Len(v) /\ Len(u) + 1 = at
        BY <1>1, <1>2, <1>3
      <4>2. z[at] = uv[at] /\ uv[at] = v[1]
        BY <1>7, <1>8, <1>9, <4>1
      <4>3. QED
        BY <1>3, <3>2, <4>1, <4>2
    <3>3. CASE p > at
      <4>1. /\ p - at \in 1 .. n + 1 - at /\ at + (p - at) - 1 = p - 1 /\ at + (p - at) = p
            /\ ~(p < at) /\ p # at
        BY <1>1, <3>3
      <4>2. z[p] = w[p - at]
        BY <1>4, <1>8, <1>9, <4>1
      <4>3. w[p - at] = list[p - 1]
        BY <1>5, <4>1
      <4>4. QED
        BY <4>1, <4>2, <4>3
    <3>4. QED
      BY <1>1, <3>1, <3>2, <3>3
  <2>2. QED
    BY <2>1
<1>11. QED
  BY <1>6, <1>8, <1>9, <1>10 DEF n, Opened

\* What a search comes to: a candidate, and no more prefixes entered than allowed.
LEMMA ScanIs ==
  ASSUME NEW s, NEW limit \in Nat
  PROVE  LET scan == Scan(s, limit)
         IN  /\ scan.m \in Candidates
             /\ scan.entered \in Nat /\ scan.entered <= limit
<1>1. ASSUME NEW c, Len(c) \in Nat, \A k \in 1 .. Len(c) : c[k] \in Candidates,
             NEW other \in Candidates
      PROVE  PositionsOf(BestOf(s, c), other) \in Candidates
  <2> DEFINE b == BestOf(s, c)
  <2>1. b = <<>> \/ \E k \in 1 .. Len(c) : b = <<Measured(s, c[k])>>
    BY <1>1, BestIsOne
  <2> HIDE DEF b
  <2>2. ASSUME b = <<>> PROVE PositionsOf(b, other) \in Candidates
    BY <1>1, <2>2 DEF PositionsOf
  <2>3. ASSUME \E k \in 1 .. Len(c) : b = <<Measured(s, c[k])>>
        PROVE  PositionsOf(b, other) \in Candidates
    <3>1. PICK k \in 1 .. Len(c) : b = <<Measured(s, c[k])>>
      BY <2>3
    <3>2. b # <<>> /\ b[1].m = c[k]
      BY <3>1 DEF Measured
    <3>3. QED
      BY <1>1, <3>2 DEF PositionsOf
  <2>4. PositionsOf(b, other) \in Candidates
    BY <2>1, <2>2, <2>3
  <2>5. QED
    BY <2>4 DEF b
<1>2. SearchDepthFirst(s) \in Candidates
  BY <1>1, AllCandidatesAre, DefaultIs DEF SearchDepthFirst
<1>3. CASE limit <= 0
  BY <1>2, <1>3 DEF Scan
<1>4. CASE limit > 0
  <2> DEFINE inside == AtMost(limit, Above(s))
  <2>1. inside \in Seq(TrackPrefixes) /\ Len(inside) <= limit /\ Len(inside) \in Nat
    BY AboveIs, AtMostIs
  <2> HIDE DEF inside
  <2>2. PositionsOf(BestOf(s, With(inside)), SearchDepthFirst(s)) \in Candidates
    BY <1>1, <1>2, <2>1, WithIs
  <2>3. Scan(s, limit)
          = [m |-> PositionsOf(BestOf(s, With(inside)), SearchDepthFirst(s)),
             entered |-> Len(inside)]
    BY <1>4 DEF Scan, inside
  <2>4. QED
    BY <2>1, <2>2, <2>3
<1>5. QED
  BY <1>3, <1>4

\* The list holds, in order, what the candidates of these numbers measure, and of
\* the first k candidates all others are behind a list that is full.
Ranking(s, c, list, ix, k, limit) ==
  /\ Len(list) \in Nat /\ Len(list) <= limit
  /\ ix \in [1 .. Len(list) -> 1 .. k]
  /\ \A p \in 1 .. Len(list) : list[p] = Measured(s, c[ix[p]])
  /\ \A p, q \in 1 .. Len(list) : p < q => Ahead(s, c, ix[p], ix[q])
  /\ \A i \in 1 .. k :
       \/ \E p \in 1 .. Len(list) : ix[p] = i
       \/ Len(list) = limit /\ \A p \in 1 .. Len(list) : Ahead(s, c, ix[p], i)

\* One candidate more goes to its place.
LEMMA InsertedRanks ==
  ASSUME NEW s, NEW c, RatedList(s, c), NEW k \in Nat, k + 1 \in 1 .. Len(c),
         NEW limit \in Nat, limit > 0, NEW S, NEW list \in Seq(S), NEW next \in S,
         next = Measured(s, c[k + 1]), NEW ix, Ranking(s, c, list, ix, k, limit)
  PROVE  \E jx : Ranking(s, c, Inserted(list, next, limit), jx, k + 1, limit)
<1> DEFINE n == Len(list)
           K == k + 1
           N == Len(c)
           ahead(i, j) == Ahead(s, c, i, j)
           beat(p) == RatioGreater(next, list[p])
<1>1. n \in Nat /\ n <= limit /\ K \in Nat /\ K \in 1 .. N /\ N \in Nat /\ 1 .. k \subseteq 1 .. N
  BY DEF Ranking, RatedList
<1>2. /\ ix \in [1 .. n -> 1 .. k]
      /\ \A p \in 1 .. n : list[p] = Measured(s, c[ix[p]])
      /\ \A p, q \in 1 .. n : p < q => ahead(ix[p], ix[q])
      /\ \A i \in 1 .. k : \/ \E p \in 1 .. n : ix[p] = i
                           \/ n = limit /\ \A p \in 1 .. n : ahead(ix[p], i)
  BY DEF Ranking
<1>3. \A i, j, l \in 1 .. N : ahead(i, j) /\ ahead(j, l) => ahead(i, l)
  BY AheadOrder
<1>4. \A i, j \in 1 .. N : ahead(i, j) => ~ahead(j, i)
  BY AheadOrder
<1>5. \A p \in 1 .. n : /\ ix[p] \in 1 .. N /\ ix[p] \in 1 .. k
                        /\ beat(p) <=> ahead(K, ix[p])
                        /\ ~beat(p) <=> ahead(ix[p], K)
  <2>1. ASSUME NEW p \in 1 .. n
        PROVE  /\ ix[p] \in 1 .. N /\ ix[p] \in 1 .. k
               /\ beat(p) <=> ahead(K, ix[p])
               /\ ~beat(p) <=> ahead(ix[p], K)
    <3>1. ix[p] \in 1 .. k /\ ix[p] \in 1 .. N /\ list[p] = Measured(s, c[ix[p]])
      BY <1>1, <1>2
    <3>2. ix[p] < K /\ ~(K < ix[p])
      BY <3>1
    <3>3. Rated(Measured(s, c[K])) /\ Rated(Measured(s, c[ix[p]]))
      BY <1>1, <3>1 DEF RatedList
    <3>4. RatioGreater(Measured(s, c[ix[p]]), Measured(s, c[K]))
            => ~RatioGreater(Measured(s, c[K]), Measured(s, c[ix[p]]))
      BY <3>3, RatioOrder
    <3>5. beat(p) <=> RatioGreater(Measured(s, c[K]), Measured(s, c[ix[p]]))
      BY <3>1
    <3>6. ahead(K, ix[p]) <=> RatioGreater(Measured(s, c[K]), Measured(s, c[ix[p]]))
      BY <3>2 DEF Ahead
    <3>7. ahead(ix[p], K) <=> ~RatioGreater(Measured(s, c[K]), Measured(s, c[ix[p]]))
      BY <3>2, <3>4 DEF Ahead
    <3>8. QED
      BY <3>1, <3>5, <3>6, <3>7
  <2>2. QED
    BY <2>1
<1>6. \A p, q \in 1 .. n : p <= q /\ beat(p) => beat(q)
  <2>1. ASSUME NEW p \in 1 .. n, NEW q \in 1 .. n, p <= q, beat(p) PROVE beat(q)
    <3>1. CASE p = q
      BY <2>1, <3>1
    <3>2. CASE p # q
      <4>1. p < q
        BY <2>1, <3>2
      <4>2. ahead(ix[p], ix[q]) /\ ahead(K, ix[p])
        BY <1>2, <1>5, <2>1, <4>1
      <4> HIDE DEF ahead, beat, K, N
      <4>3. ahead(K, ix[q])
        BY <1>1, <1>3, <1>5, <4>2
      <4>4. QED
        BY <1>5, <4>3
    <3>3. QED
      BY <3>1, <3>2
  <2>2. QED
    BY <2>1
<1> DEFINE beaten == {p \in 1 .. n : \A l \in p .. n : beat(l)}
<1>7. Inserted(list, next, limit)
        = IF n = limit /\ ~beat(limit) THEN list
          ELSE AtMost(limit, InsertAt(list, n + 1 - Cardinality(beaten), next))
  BY DEF Inserted
<1> HIDE DEF beat, ahead, K, N, n
<1>8. PICK at \in 1 .. n + 1 : \A p \in 1 .. n : beat(p) <=> p >= at
  <2> DEFINE B == {p \in 1 .. n : beat(p)}
  <2>1. CASE B = {}
    <3>1. n + 1 \in 1 .. n + 1 /\ \A p \in 1 .. n : beat(p) <=> p >= n + 1
      BY <1>1, <2>1
    <3>2. QED
      BY <3>1
  <2>2. CASE B # {}
    <3>1. B \in SUBSET Nat
      BY <1>1
    <3>2. PICK a \in B : \A b \in B : a <= b
      <4> HIDE DEF B
      <4>1. QED
        BY <2>2, <3>1, NatLeast
    <3>3. a \in 1 .. n /\ beat(a) /\ a \in 1 .. n + 1
      BY <1>1
    <3>4. \A p \in 1 .. n : beat(p) <=> p >= a
      BY <1>6, <3>2, <3>3
    <3>5. QED
      BY <3>3, <3>4
  <2>3. QED
    BY <2>1, <2>2
<1>9. at \in Nat /\ at >= 1 /\ at <= n + 1
  BY <1>1
<1>10. beaten = at .. n
  <2>1. \A p \in 1 .. n : (\A l \in p .. n : beat(l)) <=> p >= at
    <3>1. ASSUME NEW p \in 1 .. n PROVE (\A l \in p .. n : beat(l)) <=> p >= at
      <4>1. p \in p .. n /\ p .. n \subseteq 1 .. n
        BY <1>1
      <4>2. p >= at => \A l \in p .. n : l >= at
        BY <1>1, <1>9
      <4>3. QED
        BY <1>8, <4>1, <4>2
    <3>2. QED
      BY <3>1
  <2>2. beaten = {p \in 1 .. n : p >= at}
    BY <2>1
  <2>3. {p \in 1 .. n : p >= at} = at .. n
    BY <1>1, <1>9
  <2>4. QED
    BY <2>2, <2>3
<1>11. n + 1 - Cardinality(beaten) = at
  <2>1. Cardinality(at .. n) = IF at > n THEN 0 ELSE n - at + 1
    BY <1>1, <1>9, FS_Interval
  <2> HIDE DEF beaten
  <2>2. Cardinality(beaten) = Cardinality(at .. n)
    BY <1>10
  <2>3. QED
    BY <1>1, <1>9, <2>1, <2>2
<1> HIDE DEF beaten
<1> DEFINE result == Inserted(list, next, limit)
<1>12. CASE n = limit /\ ~beat(limit)
  <2>1. result = list
    BY <1>7, <1>12
  <2>2. ix \in [1 .. n -> 1 .. K]
    <3>1. 1 .. k \subseteq 1 .. K
      BY DEF K
    <3>2. QED
      BY <1>2, <3>1
  <2>3. \A p \in 1 .. n : ahead(ix[p], K)
    <3>1. limit \in 1 .. n
      BY <1>1, <1>12
    <3>2. \A p \in 1 .. n : p <= limit
      BY <1>1, <1>12
    <3>3. \A p \in 1 .. n : ~beat(p)
      BY <1>6, <1>12, <3>1, <3>2
    <3>4. QED
      BY <1>5, <3>3
  <2>4. \A i \in 1 .. K : \/ \E p \in 1 .. n : ix[p] = i
                          \/ n = limit /\ \A p \in 1 .. n : ahead(ix[p], i)
    <3>1. \A i \in 1 .. K : i \in 1 .. k \/ i = K
      BY DEF K
    <3>2. QED
      BY <1>2, <1>12, <2>3, <3>1
  <2>5. Ranking(s, c, list, ix, K, limit)
    BY <1>1, <1>2, <2>2, <2>4 DEF Ranking, n, ahead
  <2>6. QED
    BY <2>1, <2>5 DEF K
<1>13. CASE ~(n = limit /\ ~beat(limit))
  <2> DEFINE W == InsertAt(list, at, next)
             m == IF limit < n + 1 THEN limit ELSE n + 1
             jx == [p \in 1 .. n + 1 |-> IF p < at THEN ix[p] ELSE IF p = at THEN K ELSE ix[p - 1]]
             kx == [p \in 1 .. m |-> jx[p]]
  <2>1. /\ W \in Seq(S) /\ Len(W) = n + 1
        /\ \A p \in 1 .. n + 1 :
             W[p] = IF p < at THEN list[p] ELSE IF p = at THEN next ELSE list[p - 1]
    <3>1. at \in 1 .. Len(list) + 1
      BY DEF n
    <3>2. /\ InsertAt(list, at, next) \in Seq(S)
          /\ Len(InsertAt(list, at, next)) = Len(list) + 1
          /\ \A p \in 1 .. Len(list) + 1 :
               InsertAt(list, at, next)[p] =
                 IF p < at THEN list[p] ELSE IF p = at THEN next ELSE list[p - 1]
      <4> HIDE DEF W
      <4>1. Opened(S, list, at, next)
        BY <3>1, InsertIs
      <4>2. QED
        BY <4>1 DEF Opened
    <3> HIDE DEF W
    <3>3. InsertAt(list, at, next) = W /\ Len(list) = n
      BY DEF W, n
    <3>4. QED
      BY <3>2, <3>3
  <2>2. result = AtMost(limit, W)
    BY <1>7, <1>11, <1>13
  <2> HIDE DEF W, result
  <2>3. m \in 0 .. n + 1 /\ m \in Nat /\ m <= limit /\ (m = limit \/ m = n + 1)
        /\ 1 .. m \subseteq 1 .. n + 1
    BY <1>1
  <2>4. result = SubSeq(W, 1, m)
    BY <2>1, <2>2 DEF AtMost
  <2>5. Len(result) = m /\ \A p \in 1 .. m : result[p] = W[p]
    BY <2>1, <2>3, <2>4, HeadIs
  <2>6. \A p \in 1 .. n + 1 :
          \/ p < at /\ p \in 1 .. n /\ jx[p] = ix[p] /\ W[p] = list[p]
          \/ p = at /\ jx[p] = K /\ W[p] = next
          \/ p > at /\ p - 1 \in 1 .. n /\ jx[p] = ix[p - 1] /\ W[p] = list[p - 1]
    <3>1. ASSUME NEW p \in 1 .. n + 1
          PROVE  \/ p < at /\ p \in 1 .. n /\ jx[p] = ix[p] /\ W[p] = list[p]
                 \/ p = at /\ jx[p] = K /\ W[p] = next
                 \/ p > at /\ p - 1 \in 1 .. n /\ jx[p] = ix[p - 1] /\ W[p] = list[p - 1]
      <4>1. CASE p < at
        BY <1>1, <1>9, <2>1, <4>1
      <4>2. CASE p = at
        BY <1>1, <1>9, <2>1, <4>2
      <4>3. CASE p > at
        BY <1>1, <1>9, <2>1, <4>3
      <4>4. QED
        BY <1>1, <1>9, <4>1, <4>2, <4>3
    <3>2. QED
      BY <3>1
  <2>7. \A p \in 1 .. m : kx[p] = jx[p]
    OBVIOUS
  <2>7a. kx = [p \in 1 .. m |-> jx[p]]
    OBVIOUS
  <2> HIDE DEF m, jx, kx
  <2>8. \A p \in 1 .. n + 1 : jx[p] \in 1 .. K /\ jx[p] \in 1 .. N
                              /\ W[p] = Measured(s, c[jx[p]])
    <3>1. 1 .. k \subseteq 1 .. K /\ K \in 1 .. K /\ next = Measured(s, c[K])
      BY <1>1 DEF K
    <3>2. \A p \in 1 .. n : ix[p] \in 1 .. K /\ ix[p] \in 1 .. N
                             /\ list[p] = Measured(s, c[ix[p]])
      BY <1>2, <1>5, <3>1
    <3>3. K \in 1 .. N
      BY <1>1
    <3>4. QED
      BY <2>6, <3>1, <3>2, <3>3
  <2>9. \A p, q \in 1 .. n + 1 : p < q => ahead(jx[p], jx[q])
    <3>1. ASSUME NEW p \in 1 .. n + 1, NEW q \in 1 .. n + 1, p < q
          PROVE  ahead(jx[p], jx[q])
      <4>0. \A a \in 1 .. n + 1 : a \in Nat
        BY <1>1
      <4>1. CASE q < at
        <5>1. p < at
          BY <1>9, <3>1, <4>0, <4>1
        <5>2. p \in 1 .. n /\ q \in 1 .. n /\ jx[p] = ix[p] /\ jx[q] = ix[q]
          BY <1>9, <2>6, <4>0, <4>1, <5>1
        <5>3. QED
          BY <1>2, <3>1, <5>2
      <4>2. CASE q = at
        <5>1. p < at /\ p \in 1 .. n /\ jx[p] = ix[p] /\ jx[q] = K
          BY <1>9, <2>6, <3>1, <4>0, <4>2
        <5>2. ~(p >= at)
          BY <1>9, <4>0, <5>1
        <5>3. QED
          BY <1>5, <1>8, <5>1, <5>2
      <4>3. CASE q > at
        <5>1. q - 1 \in 1 .. n /\ jx[q] = ix[q - 1] /\ q - 1 >= at
          BY <1>9, <2>6, <4>0, <4>3
        <5>2. CASE p < at
          <6>1. p \in 1 .. n /\ jx[p] = ix[p] /\ p < q - 1
            BY <1>9, <2>6, <4>0, <5>1, <5>2
          <6>2. QED
            BY <1>2, <5>1, <6>1
        <5>3. CASE p = at
          <6>1. jx[p] = K
            BY <1>9, <2>6, <4>0, <5>3
          <6>2. QED
            BY <1>5, <1>8, <5>1, <6>1
        <5>4. CASE p > at
          <6>1. p - 1 \in 1 .. n /\ jx[p] = ix[p - 1] /\ p - 1 < q - 1
            BY <1>9, <2>6, <3>1, <4>0, <5>4
          <6>2. QED
            BY <1>2, <5>1, <6>1
        <5>5. QED
          BY <1>9, <4>0, <5>2, <5>3, <5>4
      <4>4. QED
        BY <1>9, <4>0, <4>1, <4>2, <4>3
    <3>2. QED
      BY <3>1
  <2>10. \A p \in 1 .. n : p < at => jx[p] = ix[p]
    BY <1>1, <1>9, <2>6
  <2>11. \A p \in 1 .. n : p >= at => p + 1 \in 1 .. n + 1 /\ jx[p + 1] = ix[p]
    <3>1. ASSUME NEW p \in 1 .. n, p >= at PROVE p + 1 \in 1 .. n + 1 /\ jx[p + 1] = ix[p]
      <4>1. p + 1 \in 1 .. n + 1 /\ p + 1 > at /\ (p + 1) - 1 = p
        BY <1>1, <1>9, <3>1
      <4>2. ~(p + 1 < at) /\ p + 1 # at
        BY <1>9, <3>1
      <4>3. QED
        BY <2>6, <4>1, <4>2
    <3>2. QED
      BY <3>1
  <2>12. jx[at] = K
    BY <1>9, <2>6
  <2>13. ASSUME NEW i \in 1 .. K
         PROVE  \/ \E p \in 1 .. m : jx[p] = i
                \/ m = limit /\ \A p \in 1 .. m : ahead(jx[p], i)
    <3>1. i \in 1 .. k \/ i = K
      BY DEF K
    <3>2. CASE n # limit
      <4>1. m = n + 1
        BY <1>1, <3>2 DEF m
      <4>2. CASE i = K
        <5>1. at \in 1 .. m
          BY <4>1
        <5>2. QED
          BY <2>12, <4>2, <5>1
      <4>3. CASE i \in 1 .. k
        <5>1. PICK p \in 1 .. n : ix[p] = i
          BY <1>2, <3>2, <4>3
        <5>2. p \in 1 .. m
          BY <1>1, <4>1
        <5>3. CASE p < at
          BY <2>10, <5>1, <5>2, <5>3
        <5>4. CASE p >= at
          BY <2>11, <4>1, <5>1, <5>4
        <5>5. QED
          BY <1>1, <1>9, <5>3, <5>4
      <4>4. QED
        BY <3>1, <4>2, <4>3
    <3>3. CASE n = limit
      <4>1. m = n /\ n \in 1 .. n /\ m = limit
        BY <1>1, <3>3 DEF m
      <4>2. beat(n)
        BY <1>13, <3>3
      <4>3. at <= n /\ at \in 1 .. n
        BY <1>8, <1>9, <4>1, <4>2
      <4>4. CASE i = K
        BY <2>12, <4>1, <4>3, <4>4
      <4>5. CASE i \in 1 .. k /\ \E p \in 1 .. n : ix[p] = i
        <5>1. PICK p \in 1 .. n : ix[p] = i
          BY <4>5
        <5>2. CASE p < at
          BY <2>10, <4>1, <5>1, <5>2
        <5>3. CASE p >= at /\ p # n
          <6>1. p + 1 \in 1 .. n
            BY <1>1, <5>3
          <6>2. QED
            BY <2>11, <4>1, <5>1, <5>3, <6>1
        <5>4. CASE p >= at /\ p = n
          <6>1. jx[n + 1] = i /\ n + 1 \in 1 .. n + 1
            BY <2>11, <5>1, <5>4
          <6>2. \A q \in 1 .. n : q \in 1 .. n + 1 /\ q < n + 1
            BY <1>1
          <6>3. \A q \in 1 .. n : ahead(jx[q], jx[n + 1])
            BY <2>9, <6>1, <6>2
          <6>4. QED
            BY <4>1, <6>1, <6>3
        <5>5. QED
          BY <1>1, <1>9, <5>2, <5>3, <5>4
      <4>6. CASE i \in 1 .. k /\ ~\E p \in 1 .. n : ix[p] = i
        <5>1. i \in 1 .. N /\ \A p \in 1 .. n : ahead(ix[p], i)
          BY <1>1, <1>2, <4>6
        <5>2. ahead(K, i)
          <6>1. beat(at)
            BY <1>8, <1>9, <4>3
          <6>2. ahead(K, ix[at]) /\ ahead(ix[at], i) /\ ix[at] \in 1 .. N
            BY <1>5, <4>3, <5>1, <6>1
          <6>3. QED
            BY <1>1, <1>3, <5>1, <6>2
        <5>3. \A p \in 1 .. n : ahead(jx[p], i)
          <6>1. \A p \in 1 .. n : p \in 1 .. n + 1
            BY <1>1
          <6>2. QED
            BY <2>6, <5>1, <5>2, <6>1
        <5>4. QED
          BY <4>1, <5>3
      <4>7. QED
        BY <3>1, <4>4, <4>5, <4>6
    <3>4. QED
      BY <3>2, <3>3
  <2>14. kx \in [1 .. m -> 1 .. K]
    <3>1. \A p \in 1 .. m : kx[p] \in 1 .. K
      BY <2>3, <2>7, <2>8
    <3>2. QED
      BY <2>7a, <3>1
  <2>15. \A p \in 1 .. m : result[p] = Measured(s, c[kx[p]])
    BY <2>3, <2>5, <2>7, <2>8
  <2>16. \A p, q \in 1 .. m : p < q => ahead(kx[p], kx[q])
    BY <2>3, <2>7, <2>9
  <2>17. \A i \in 1 .. K : \/ \E p \in 1 .. m : kx[p] = i
                           \/ m = limit /\ \A p \in 1 .. m : ahead(kx[p], i)
    BY <2>7, <2>13
  <2>18. Ranking(s, c, result, kx, K, limit)
    BY <2>3, <2>5, <2>14, <2>15, <2>16, <2>17 DEF Ranking, ahead
  <2>19. QED
    BY <2>18 DEF result, K
<1>14. QED
  BY <1>12, <1>13

\* The list of all candidates is long, and in order.
LEMMA AllInOrder ==
  /\ Len(AllCandidates) \in Nat /\ Len(AllCandidates) > 0
  /\ \A i, j \in 1 .. Len(AllCandidates) : i < j => Before(AllCandidates[i], AllCandidates[j])
<1>1. Len(With(Triples)) \in Nat
  BY TriplesSeq, WithIs
<1>2. 1 + (2 * Steps) * (1 - 1) \in 1 .. Len(With(Triples))
  <2>1. 1 \in 1 .. Len(Triples) /\ 1 \in 1 .. 2 * Steps
    BY TriplesAre, FcbConstants
  <2>2. QED
    BY <2>1, TriplesSeq, WithNumbers
<1>3. \A i, j \in 1 .. Len(With(Triples)) : i < j => Before(With(Triples)[i], With(Triples)[j])
  BY TriplesInOrder, WithOrder
<1>4. Len(With(Triples)) > 0
  BY <1>1, <1>2
<1>5. QED
  BY <1>1, <1>3, <1>4 DEF AllCandidates

\* The list of the best is a ranking of all candidates.
LEMMA TopRanks ==
  ASSUME NEW s, RatedList(s, AllCandidates)
  PROVE  \E list, ix : /\ Ranking(s, AllCandidates, list, ix, Len(AllCandidates), TopKLimit)
                       /\ list # <<>> /\ Len(list) > 0 /\ DOMAIN list = 1 .. Len(list)
                       /\ SearchTopK(s, TopKLimit) = [k \in DOMAIN list |-> list[k].m]
<1> DEFINE c == AllCandidates
           n == Len(c)
           S == Measures(s)
           next(k) == Measured(s, c[k])
           limit == TopKLimit
<1>1. PICK g : /\ g[0] = <<>>
               /\ \A k \in 1 .. n : g[k] = TopStep(g[k - 1], next(k)) /\ g[k - 1] \in Seq(S)
               /\ g[n] \in Seq(S)
               /\ SearchTopK(s, limit)
                    = IF g[n] = <<>> THEN <<DefaultPositions>>
                      ELSE [k \in DOMAIN g[n] |-> g[n][k].m]
  BY TopLoop
<1>2. n \in Nat /\ n > 0 /\ \A k \in 1 .. n : next(k) \in S /\ Rated(next(k))
  BY AllInOrder, AllCandidatesAre, MeasuresAre DEF RatedList
<1>3. limit \in Nat /\ limit > 0
  BY FcbConstants
<1>4. RatedList(s, c)
  OBVIOUS
<1>5. \A k : next(k) = Measured(s, c[k])
  OBVIOUS
<1> HIDE DEF c, n, S, next, limit
<1>6. n = Len(c)
  BY DEF n
<1> DEFINE T == {k \in Nat : \E ix : Ranking(s, c, g[k], ix, k, limit)}
<1>7. 0 \in T
  <2> DEFINE ix == [p \in 1 .. 0 |-> p]
  <2>1. /\ Len(<<>>) = 0 /\ ix \in [1 .. 0 -> 1 .. 0]
        /\ \A p \in 1 .. 0 : FALSE
    OBVIOUS
  <2> HIDE DEF ix
  <2>2. Ranking(s, c, <<>>, ix, 0, limit)
    BY <1>3, <2>1 DEF Ranking
  <2>3. QED
    BY <1>1, <2>2
<1>8. ASSUME NEW k \in 1 .. n, k - 1 \in T PROVE k \in T
  <2>1. k - 1 \in Nat /\ (k - 1) + 1 = k /\ k \in Nat
    BY <1>2
  <2>2. PICK ix : Ranking(s, c, g[k - 1], ix, k - 1, limit)
    BY <1>8
  <2>3. g[k] = Inserted(g[k - 1], next(k), limit)
    <3>1. next(k).e \in Int /\ next(k).e > 0
      BY <1>2 DEF Rated
    <3>2. g[k] = TopStep(g[k - 1], next(k))
      BY <1>1
    <3>3. QED
      BY <3>1, <3>2 DEF TopStep, limit
  <2> DEFINE j == k - 1
             list == g[k - 1]
             nx == next(k)
  <2>4. /\ j \in Nat /\ j + 1 \in 1 .. Len(c) /\ list \in Seq(S) /\ nx \in S
        /\ nx = Measured(s, c[j + 1]) /\ Ranking(s, c, list, ix, j, limit)
    BY <1>1, <1>2, <1>5, <1>6, <2>1, <2>2
  <2> HIDE DEF j, list, nx
  <2>5. \E jx : Ranking(s, c, Inserted(list, nx, limit), jx, j + 1, limit)
    BY <1>3, <1>4, <2>4, InsertedRanks
  <2>6. g[k] = Inserted(list, nx, limit) /\ j + 1 = k
    BY <2>1, <2>3 DEF j, list, nx
  <2>7. QED
    BY <2>1, <2>5, <2>6
<1> HIDE DEF T
<1>9. n \in T
  <2>1. n \in 0 .. n
    BY <1>2
  <2>2. 0 .. n \subseteq T
    BY <1>2, <1>7, <1>8, RangeInduction
  <2>3. QED
    BY <2>1, <2>2
<1> DEFINE list == g[n]
<1>10. PICK ix : Ranking(s, c, list, ix, n, limit)
  BY <1>9 DEF T
<1> HIDE DEF list
<1>11. Len(list) \in Nat /\ Len(list) > 0
  <2>1. Len(list) \in Nat
    BY <1>10 DEF Ranking
  <2>2. CASE Len(list) = 0
    <3>1. 1 \in 1 .. n /\ \A p \in 1 .. Len(list) : FALSE
      BY <1>2, <2>2
    <3>2. Len(list) # limit
      BY <1>3, <2>2
    <3>3. FALSE
      BY <1>10, <3>1, <3>2 DEF Ranking
    <3>4. QED
      BY <3>3
  <2>3. QED
    BY <2>1, <2>2
<1>12. list \in Seq(S)
  BY <1>1 DEF list
<1>13. list # <<>> /\ DOMAIN list = 1 .. Len(list)
  BY <1>11, <1>12
<1>14. SearchTopK(s, limit) = [k \in DOMAIN list |-> list[k].m]
  BY <1>1, <1>13 DEF list
<1>15. QED
  BY <1>10, <1>11, <1>13, <1>14 DEF c, n, limit

\* The same, of the positions in the list.
LEMMA TopIs ==
  ASSUME NEW s, RatedList(s, AllCandidates)
  PROVE  LET top == SearchTopK(s, TopKLimit)
             n == Len(AllCandidates)
         IN  \E ix : /\ Len(top) \in Nat /\ Len(top) > 0 /\ DOMAIN top = 1 .. Len(top)
                     /\ \A p \in 1 .. Len(top) : ix[p] \in 1 .. n /\ top[p] = AllCandidates[ix[p]]
                     /\ \A p, q \in 1 .. Len(top) : p < q => Ahead(s, AllCandidates, ix[p], ix[q])
                     /\ \A i \in 1 .. n :
                          \/ \E p \in 1 .. Len(top) : ix[p] = i
                          \/ \A p \in 1 .. Len(top) : Ahead(s, AllCandidates, ix[p], i)
<1> DEFINE top == SearchTopK(s, TopKLimit)
           c == AllCandidates
           n == Len(AllCandidates)
<1>1. PICK list, ix : /\ Ranking(s, c, list, ix, n, TopKLimit)
                      /\ list # <<>> /\ Len(list) > 0 /\ DOMAIN list = 1 .. Len(list)
                      /\ top = [k \in DOMAIN list |-> list[k].m]
  BY TopRanks
<1> HIDE DEF top, c, n
<1>2. /\ Len(list) \in Nat /\ ix \in [1 .. Len(list) -> 1 .. n]
      /\ \A p \in 1 .. Len(list) : list[p] = Measured(s, c[ix[p]])
      /\ \A p, q \in 1 .. Len(list) : p < q => Ahead(s, c, ix[p], ix[q])
      /\ \A i \in 1 .. n : \/ \E p \in 1 .. Len(list) : ix[p] = i
                           \/ \A p \in 1 .. Len(list) : Ahead(s, c, ix[p], i)
  BY <1>1 DEF Ranking
<1> DEFINE l == Len(list)
<1>3. DOMAIN list = 1 .. l
  BY <1>1
<1> HIDE DEF l
<1>4. top = [k \in 1 .. l |-> list[k].m] /\ l \in Nat /\ l > 0
  <2>1. l \in Nat /\ l > 0
    BY <1>1, <1>2 DEF l
  <2>2. QED
    BY <1>1, <1>3, <2>1
<1>5. Len(top) = l /\ DOMAIN top = 1 .. l
  BY <1>4
<1>6. \A p \in 1 .. l : ix[p] \in 1 .. n /\ top[p] = c[ix[p]]
  <2>1. ASSUME NEW p \in 1 .. l PROVE ix[p] \in 1 .. n /\ top[p] = c[ix[p]]
    <3>1. ix[p] \in 1 .. n /\ list[p] = Measured(s, c[ix[p]])
      BY <1>2 DEF l
    <3>2. top[p] = list[p].m
      BY <1>4
    <3>3. QED
      BY <3>1, <3>2 DEF Measured
  <2>2. QED
    BY <2>1
<1>7. /\ \A p, q \in 1 .. l : p < q => Ahead(s, c, ix[p], ix[q])
      /\ \A i \in 1 .. n : \/ \E p \in 1 .. l : ix[p] = i
                           \/ \A p \in 1 .. l : Ahead(s, c, ix[p], i)
  BY <1>2 DEF l
<1>8. QED
  BY <1>4, <1>5, <1>6, <1>7 DEF top, c, n

\* What is reranked is the head of the ranking, the best first.
LEMMA TopRanked ==
  ASSUME NEW s, RatedList(s, AllCandidates)
  PROVE  LET top == SearchTopK(s, TopKLimit)
             rated == [m \in ToSet(AllCandidates) |-> Measured(s, m)]
             behind == DOMAIN rated \ ToSet(top)
             pairs == {<<top[k], top[k + 1]>> : k \in 1 .. Len(top) - 1}
                        \cup {<<top[Len(top)], m>> : m \in behind}
         IN  /\ top[1] = SearchDepthFirst(s)
             /\ \A p \in pairs :
                  LET ahead == rated[p[1]]
                      next == rated[p[2]]
                  IN  \/ RatioGreater(ahead, next)
                      \/ ~RatioGreater(next, ahead) /\ Before(p[1], p[2])
<1> DEFINE top == SearchTopK(s, TopKLimit)
           c == AllCandidates
           n == Len(c)
           l == Len(top)
           rated == [m \in ToSet(c) |-> Measured(s, m)]
           behind == DOMAIN rated \ ToSet(top)
           pairs == {<<top[k], top[k + 1]>> : k \in 1 .. l - 1} \cup {<<top[l], m>> : m \in behind}
<1>1. PICK ix : /\ l \in Nat /\ l > 0 /\ DOMAIN top = 1 .. l
                /\ \A p \in 1 .. l : ix[p] \in 1 .. n /\ top[p] = c[ix[p]]
                /\ \A p, q \in 1 .. l : p < q => Ahead(s, c, ix[p], ix[q])
                /\ \A i \in 1 .. n : \/ \E p \in 1 .. l : ix[p] = i
                                     \/ \A p \in 1 .. l : Ahead(s, c, ix[p], i)
  BY TopIs
<1>2. RatedList(s, c) /\ n > 0 /\ n \in Nat
  BY AllInOrder
<1>3. \A i, j \in 1 .. n : i < j => Before(c[i], c[j])
  BY AllInOrder
<1>4. PICK j \in 1 .. n : /\ BestOf(s, c) = <<Measured(s, c[j])>>
                          /\ \A i \in 1 .. n : i # j => Ahead(s, c, j, i)
  BY <1>2, BestIsAhead
<1>5. SearchDepthFirst(s) = c[j]
  BY <1>4 DEF SearchDepthFirst, PositionsOf, Measured
<1>6. ToSet(c) = {c[i] : i \in 1 .. n}
  <2>1. Triples \in Seq(TrackPrefixes) /\ DOMAIN c = 1 .. Len(c)
    <3>1. DOMAIN c = 1 .. Len(Triples) * Len(Track3)
      BY DEF AllCandidates, With
    <3>2. Len(Triples) * Len(Track3) \in Nat
      BY TriplesAre, Track3Is, FcbConstants
    <3>3. Len(c) = Len(Triples) * Len(Track3)
      <4> DEFINE t == Len(Triples) * Len(Track3)
                 V(k) == Append(Triples[1 + ((k - 1) \div Len(Track3))],
                                Track3[1 + ((k - 1) % Len(Track3))])
      <4>1. c = [k \in 1 .. t |-> V(k)]
        BY DEF AllCandidates, With
      <4> HIDE DEF t, V, c
      <4>2. t \in Nat
        BY <3>2 DEF t
      <4>3. Len(c) = t
        BY <4>1, <4>2
      <4>4. QED
        BY <4>3 DEF t
    <3>4. QED
      BY <3>1, <3>3, TriplesSeq
  <2>2. QED
    BY <2>1 DEF ToSet
<1>7. ToSet(top) = {top[p] : p \in 1 .. l}
  BY <1>1 DEF ToSet
<1>8. DOMAIN rated = ToSet(c) /\ \A m \in ToSet(c) : rated[m] = Measured(s, m)
  OBVIOUS
<1> HIDE DEF top, c, n, l, rated
<1>9. top[1] = SearchDepthFirst(s)
  <2>1. 1 \in 1 .. l
    BY <1>1
  <2>2. top[1] = c[ix[1]] /\ ix[1] \in 1 .. n
    BY <1>1, <2>1
  <2>3. ASSUME ix[1] # j PROVE FALSE
    <3>1. Ahead(s, c, j, ix[1])
      BY <1>4, <2>2, <2>3
    <3>2. Ahead(s, c, ix[1], j)
      <4>1. CASE \E p \in 1 .. l : ix[p] = j
        <5>1. PICK p \in 1 .. l : ix[p] = j
          BY <4>1
        <5>2. 1 < p
          BY <1>1, <2>3, <5>1
        <5>3. QED
          BY <1>1, <2>1, <5>1, <5>2
      <4>2. CASE \A p \in 1 .. l : Ahead(s, c, ix[p], j)
        BY <2>1, <4>2
      <4>3. QED
        BY <1>1, <4>1, <4>2
    <3>3. Ahead(s, c, j, ix[1]) => ~Ahead(s, c, ix[1], j)
      BY <1>2, <2>2, AheadOrder DEF n
    <3>4. QED
      BY <3>1, <3>2, <3>3
  <2>4. QED
    BY <1>5, <2>2, <2>3
<1>10. ASSUME NEW u \in 1 .. n, NEW v \in 1 .. n, Ahead(s, c, u, v)
       PROVE  \/ RatioGreater(rated[c[u]], rated[c[v]])
              \/ ~RatioGreater(rated[c[v]], rated[c[u]]) /\ Before(c[u], c[v])
  <2>1. c[u] \in ToSet(c) /\ c[v] \in ToSet(c)
    BY <1>6
  <2>2. rated[c[u]] = Measured(s, c[u]) /\ rated[c[v]] = Measured(s, c[v])
    BY <1>8, <2>1
  <2>3. QED
    BY <1>3, <1>10, <2>2 DEF Ahead
<1>11. ASSUME NEW p \in pairs
       PROVE  \E u, v \in 1 .. n : Ahead(s, c, u, v) /\ p = <<c[u], c[v]>>
  <2>1. CASE \E k \in 1 .. l - 1 : p = <<top[k], top[k + 1]>>
    <3>1. PICK k \in 1 .. l - 1 : p = <<top[k], top[k + 1]>>
      BY <2>1
    <3>2. k \in 1 .. l /\ k + 1 \in 1 .. l /\ k < k + 1
      BY <1>1
    <3>3. top[k] = c[ix[k]] /\ top[k + 1] = c[ix[k + 1]] /\ ix[k] \in 1 .. n /\ ix[k + 1] \in 1 .. n
      BY <1>1, <3>2
    <3>4. Ahead(s, c, ix[k], ix[k + 1])
      BY <1>1, <3>2
    <3>5. QED
      BY <3>1, <3>3, <3>4
  <2>2. CASE \E m \in behind : p = <<top[l], m>>
    <3>1. PICK m \in behind : p = <<top[l], m>>
      BY <2>2
    <3>2. m \in ToSet(c) /\ m \notin ToSet(top)
      BY <1>8
    <3>3. PICK i \in 1 .. n : m = c[i]
      BY <1>6, <3>2
    <3>4. l \in 1 .. l
      BY <1>1
    <3>5. ~\E q \in 1 .. l : ix[q] = i
      BY <1>1, <1>7, <3>2, <3>3
    <3>6. Ahead(s, c, ix[l], i) /\ top[l] = c[ix[l]] /\ ix[l] \in 1 .. n
      BY <1>1, <3>4, <3>5
    <3>7. QED
      BY <3>1, <3>3, <3>6
  <2>3. QED
    BY <2>1, <2>2
<1>12. ASSUME NEW p \in pairs
       PROVE  \/ RatioGreater(rated[p[1]], rated[p[2]])
              \/ ~RatioGreater(rated[p[2]], rated[p[1]]) /\ Before(p[1], p[2])
  <2>1. PICK u, v \in 1 .. n : Ahead(s, c, u, v) /\ p = <<c[u], c[v]>>
    BY <1>11
  <2>2. p[1] = c[u] /\ p[2] = c[v]
    BY <2>1
  <2>3. QED
    BY <1>10, <2>1, <2>2
<1>13. QED
  BY <1>9, <1>12 DEF top, c, l, rated

-----------------------------------------------------------------------------
(* FcbSearch: the encoder.                                                 *)

FcbInv ==
  /\ profile \in FcbProfiles
  /\ subframe \in 0 .. 2
  /\ remaining \in Nat /\ enteredFrame \in Nat /\ prevGp \in Int
  /\ Scanning /\ (subframe < 2 \/ found # <<>>) =>
       enteredFrame + remaining = FrameLimits[profile]
  /\ Scanning /\ subframe = 0 => remaining = FrameLimits[profile]
  /\ Scanning /\ subframe = 1 => 2 * remaining >= FrameLimits[profile]
  /\ found # <<>> =>
       /\ subframe > 0
       /\ Scanning => found[1].limit > 0
       /\ Brings(found[1]) /\ found[1].limit \in Nat
       /\ found[1].first = Scan(SurfaceOf(found[1]), found[1].limit).m
       /\ found[1].m \in Candidates
       /\ found[1].C = PackC(found[1].m)
       /\ found[1].S = PackS(found[1].m, SurfaceOf(found[1]).sign)

\* A frame that has not begun.
LEMMA FcbStarts ==
  ASSUME FcbInit
  PROVE  FcbInv
  BY DEF FcbInit, FcbInv

\* Frames begin with the whole budget; subframes spend it and choose a candidate.
LEMMA FcbSteps ==
  ASSUME FcbInv, FcbNext
  PROVE  FcbInv'
<1>1. Scanning => FrameLimits[profile] \in Nat /\ FrameLimits[profile] >= 2
  BY FcbAssumption DEF FcbAssumption, Scanning
<1>2. CASE StartFrame
  BY <1>1, <1>2 DEF StartFrame, FcbInv, Scanning
<1>3. CASE \E input \in Inputs : SearchSubframe(input)
  <2>1. PICK input \in Inputs : SearchSubframe(input)
    BY <1>3
  <2> DEFINE s == SurfaceOf([input EXCEPT !.gp = prevGp])
             limit == IF Scanning THEN ScanLimit(subframe) ELSE 0
             scan == Scan(s, limit)
             record(m) == [x |-> input.x, h |-> input.h, lag |-> input.lag,
                           gp |-> prevGp, limit |-> limit, first |-> scan.m, m |-> m,
                           C |-> PackC(m), S |-> PackS(m, s.sign)]
  <2>2. /\ subframe < 2 /\ profile' = profile /\ subframe' = subframe + 1
        /\ prevGp' = input.gp
        /\ enteredFrame' = enteredFrame + scan.entered
        /\ remaining' = IF remaining < scan.entered THEN 0 ELSE remaining - scan.entered
        /\ \E m \in {scan.m} \cup ToSet(SearchTopK(s, TopKLimit)) : found' = <<record(m)>>
    BY <2>1 DEF SearchSubframe
  <2>3. PICK m \in {scan.m} \cup ToSet(SearchTopK(s, TopKLimit)) : found' = <<record(m)>>
    BY <2>2
  <2>4. /\ limit \in Nat /\ (Scanning => limit <= remaining)
        /\ Scanning /\ subframe = 0 => 2 * limit <= FrameLimits[profile]
        /\ Scanning => limit > 0
    <3> DEFINE L == FrameLimits[profile]
    <3>1. CASE Scanning
      <4>1. L \in Nat /\ L >= 2 /\ L \div 2 \in Nat /\ L \div 2 > 0 /\ 2 * (L \div 2) <= L
        BY <1>1, <3>1
      <4>2. subframe = 0 => remaining = L
        BY <3>1 DEF FcbInv
      <4>3. subframe = 1 => 2 * remaining >= L
        BY <3>1 DEF FcbInv
      <4>4. remaining \in Nat /\ subframe \in {0, 1}
        BY <2>2 DEF FcbInv
      <4>5. limit = IF subframe = 0 /\ remaining > L \div 2 THEN L \div 2 ELSE remaining
        BY <3>1 DEF ScanLimit
      <4> HIDE DEF L, limit
      <4>6. QED
        BY <4>1, <4>2, <4>3, <4>4, <4>5 DEF L
    <3>2. CASE ~Scanning
      BY <3>2
    <3>3. QED
      BY <3>1, <3>2
  <2>5. limit \in Nat
    BY <2>4
  <2>6. scan.m \in Candidates /\ scan.entered \in Nat /\ scan.entered <= limit
    <3> HIDE DEF s, limit
    <3>1. QED
      BY <2>5, ScanIs
  <2>7. m \in Candidates
    <3> HIDE DEF s, scan
    <3>1. QED
      BY <2>6, TopKIs
  <2>8. SurfaceOf(record(m)) = s
    <3> DEFINE other == [input EXCEPT !.gp = prevGp]
    <3>1. /\ other.x = input.x /\ other.h = input.h /\ other.lag = input.lag
          /\ other.gp = prevGp
      BY FcbAssumption DEF FcbAssumption
    <3> HIDE DEF other
    <3>2. Sharpened(record(m)) = Sharpened(other)
      BY <3>1 DEF Sharpened
    <3>3. SurfaceOf(record(m)) = SurfaceOf(other)
      BY <3>1, <3>2 DEF SurfaceOf
    <3>4. QED
      BY <3>3 DEF other
  <2>9. /\ found' # <<>> /\ found'[1].m = m /\ found'[1].limit = limit
        /\ found'[1].C = PackC(m) /\ found'[1].S = PackS(m, s.sign)
        /\ SurfaceOf(found'[1]).sign = s.sign
        /\ found'[1].first = Scan(SurfaceOf(found'[1]), found'[1].limit).m
    <3>1. found'[1] = record(m) /\ found' # <<>>
      BY <2>3
    <3>2. scan = Scan(s, limit)
      OBVIOUS
    <3> HIDE DEF s, limit, scan
    <3>3. QED
      BY <2>8, <3>1, <3>2
  <2>9a. Brings(found'[1]) /\ prevGp' \in Int
    <3>1. /\ input.x \in Signals /\ input.h \in Signals /\ input.h[0] > 2
          /\ input.lag \in Nat /\ input.gp \in Int
      BY FcbAssumption DEF FcbAssumption, Signals
    <3>2. found'[1] = record(m) /\ prevGp \in Int
      BY <2>3 DEF FcbInv
    <3>3. /\ found'[1].x = input.x /\ found'[1].h = input.h /\ found'[1].lag = input.lag
          /\ found'[1].gp = prevGp
      <4> HIDE DEF s, limit, scan
      <4>1. QED
        BY <3>2
    <3>4. QED
      BY <2>2, <3>1, <3>2, <3>3 DEF Brings
  <2> DEFINE e == scan.entered
  <2> HIDE DEF s, limit, scan, e
  <2>10. /\ remaining' \in Nat /\ enteredFrame' \in Nat /\ subframe' \in 0 .. 2
         /\ subframe' > 0
         /\ Scanning => enteredFrame' + remaining' = FrameLimits[profile]
         /\ Scanning /\ subframe' = 1 => 2 * remaining' >= FrameLimits[profile]
    <3>1. /\ remaining \in Nat /\ enteredFrame \in Nat /\ subframe \in 0 .. 2 /\ e \in Nat
          /\ e <= limit /\ subframe < 2 /\ subframe' = subframe + 1
          /\ enteredFrame' = enteredFrame + e
          /\ remaining' = IF remaining < e THEN 0 ELSE remaining - e
      BY <2>2, <2>6 DEF FcbInv, e
    <3>2. CASE Scanning
      <4>1. /\ enteredFrame + remaining = FrameLimits[profile]
            /\ subframe = 0 => remaining = FrameLimits[profile]
        BY <2>2, <3>2 DEF FcbInv
      <4>2. limit <= remaining /\ (subframe = 0 => 2 * limit <= FrameLimits[profile])
        BY <2>4, <3>2
      <4>3. QED
        BY <1>1, <2>5, <3>1, <3>2, <4>1, <4>2
    <3>3. CASE ~Scanning
      BY <3>1, <3>3
    <3>4. QED
      BY <3>2, <3>3
  <2>11. Scanning' = Scanning /\ profile' = profile
    BY <2>2 DEF Scanning
  <2>12. QED
    BY <2>4, <2>5, <2>7, <2>9, <2>9a, <2>10, <2>11 DEF FcbInv
<1>4. QED
  BY <1>2, <1>3 DEF FcbNext

\* The budget accounts for all entries, and what was found is a packed candidate,
\* the first choice among them what the scan of its inputs returns.
THEOREM FcbInvHolds == FcbSpec => []FcbInv
<1>1. FcbInv /\ UNCHANGED fcbVars => FcbInv'
  BY DEF FcbInv, fcbVars, Scanning
<1>2. FcbInv /\ [FcbNext]_fcbVars => FcbInv'
  BY <1>1, FcbSteps
<1>3. QED
  BY <1>2, FcbStarts, PTL DEF FcbSpec

\* Whatever the first subframe enters, the second is left at least half of the
\* frame's budget, and the two never exceed it, for every cap of two or more.
THEOREM BudgetIsShared == FcbSpec => []BudgetShared
<1>1. FcbInv => BudgetShared
  BY DEF FcbInv, BudgetShared
<1>2. QED
  BY <1>1, FcbInvHolds, PTL

\* The receiver rebuilds the code vector from its fields, for tracks of every
\* length and all signals.
THEOREM CodeArrives == FcbSpec => []PulsesArrive
<1>1. ASSUME FcbInv PROVE PulsesArrive
  <2>1. SUFFICES ASSUME found # <<>>
        PROVE  DecodeCode(found[1].C, found[1].S, found[1].lag, found[1].gp)
                 = BuildCode(found[1].m, SurfaceOf(found[1]).sign, found[1].lag, found[1].gp)
    BY DEF PulsesArrive
  <2> DEFINE f == found[1]
             sign == SurfaceOf(f).sign
  <2>2. f.m \in Candidates /\ f.C = PackC(f.m) /\ f.S = PackS(f.m, sign)
    BY <1>1, <2>1 DEF FcbInv
  <2> HIDE DEF f, sign
  <2>3. DecodePositions(f.C) = f.m
    BY <2>2, PositionsArrive
  <2>4. [i \in 1 .. 4 |-> (f.S \div <<1, 2, 4, 8>>[i]) % 2 = 1]
          = [i \in 1 .. 4 |-> sign[f.m[i]] > 0]
    BY <2>2, SignsArrive
  <2>5. DecodeCode(f.C, f.S, f.lag, f.gp) = BuildCode(f.m, sign, f.lag, f.gp)
    BY <2>3, <2>4 DEF DecodeCode, BuildCode
  <2>6. QED
    BY <2>5 DEF f, sign
<1>2. FcbInv => PulsesArrive
  BY <1>1
<1>3. QED
  BY <1>2, FcbInvHolds, PTL

\* The signals of a search.
LEMMA FoundSurface ==
  ASSUME FcbInv, found # <<>>
  PROVE  /\ found[1].x \in Signals /\ Sharpened(found[1]) \in Signals
         /\ Sharpened(found[1])[0] > 2
         /\ SurfaceOf(found[1]) = Surface(found[1].x, Sharpened(found[1]))
         /\ found[1].limit \in Nat /\ found[1].m \in Candidates /\ found[1].first \in Candidates
         /\ found[1].first = Scan(SurfaceOf(found[1]), found[1].limit).m
<1>1. /\ Brings(found[1]) /\ found[1].limit \in Nat /\ found[1].m \in Candidates
      /\ found[1].first = Scan(SurfaceOf(found[1]), found[1].limit).m
  BY DEF FcbInv
<1> DEFINE f == found[1]
<1> HIDE DEF f
<1>2. Sharpened(f) \in Signals /\ Sharpened(f)[0] > 2 /\ f.x \in Signals
  BY <1>1, SharpenedIs DEF Brings, f
<1>3. SurfaceOf(f) = Surface(f.x, Sharpened(f))
  BY DEF SurfaceOf
<1>4. Scan(SurfaceOf(f), f.limit).m \in Candidates
  BY <1>1, ScanIs DEF f
<1>5. QED
  BY <1>1, <1>2, <1>3, <1>4 DEF f

\* The correlation and the energy the search compares are those of the filtered
\* code vector, and no candidate is skipped, for every response that begins as
\* the synthesis filter's does and all targets, tracks and positions.
THEOREM CriterionIsTheCode == FcbSpec => []CriterionIsOfTheCode
<1>1. ASSUME FcbInv PROVE CriterionIsOfTheCode
  <2>1. CASE found = <<>>
    BY <2>1 DEF CriterionIsOfTheCode
  <2>2. CASE found # <<>>
    <3> DEFINE f == found[1]
               h == Sharpened(f)
               s == SurfaceOf(f)
    <3>1. /\ f.x \in Signals /\ h \in Signals /\ h[0] > 2 /\ s = Surface(f.x, h)
          /\ f.m \in Candidates /\ f.first \in Candidates
      BY <1>1, <2>2, FoundSurface
    <3> HIDE DEF f, h, s
    <3>2. ASSUME NEW m \in {f.m, f.first}
          PROVE  /\ InRange(s) => Correlation(s, m) = Whole(Times(f.x, Filtered(s, h, m)))
                 /\ PhiFits(s) =>
                      /\ Whole(Times(Filtered(s, h, m), Filtered(s, h, m))) - 2 * Energy(s, m)
                           \in 0 .. 4
                      /\ Energy(s, m) > 0
      <4>1. m \in Candidates
        BY <3>1
      <4>2. QED
        BY <3>1, <4>1, CriterionIs
    <3>3. QED
      BY <2>2, <3>2 DEF CriterionIsOfTheCode, Whole, Times, Filtered, f, h, s
  <2>3. QED
    BY <2>1, <2>2
<1>2. FcbInv => CriterionIsOfTheCode
  BY <1>1
<1>3. QED
  BY <1>2, FcbInvHolds, PTL

\* The search returns the best of what its budget lets it try, the first of
\* equals, and is unbounded only if no prefix stands out: for every limit and all
\* signals whose products fit.
THEOREM SearchIsTheBest == FcbSpec => []SearchIsExact
<1>1. ASSUME FcbInv PROVE SearchIsExact
  <2>1. CASE found = <<>>
    BY <2>1 DEF SearchIsExact
  <2>2. CASE found # <<>>
    <3> DEFINE f == found[1]
               h == Sharpened(f)
               s == SurfaceOf(f)
               best == Measured(s, f.first)
               reached == Reached(s, f.limit)
    <3>1. /\ f.x \in Signals /\ h \in Signals /\ h[0] > 2 /\ s = Surface(f.x, h)
          /\ f.limit \in Nat /\ f.first = Scan(s, f.limit).m
      BY <1>1, <2>2, FoundSurface
    <3> HIDE DEF f, h, s
    <3>2. ASSUME PhiFits(s)
          PROVE  /\ f.first \in reached
                 /\ \A m \in reached :
                      /\ ~RatioGreater(Measured(s, m), best)
                      /\ m # f.first /\ ~RatioGreater(best, Measured(s, m)) => Before(f.first, m)
      BY <3>1, <3>2, SearchFinds
    <3>3. ASSUME Outstanding(s) = {}, InRange(s)
          PROVE  \A k, l \in DOMAIN Triples :
                   Correlation(s, Triples[k]) = Correlation(s, Triples[l])
      BY <3>3, NoneStandsOut, TriplesAre
    <3>4. QED
      BY <2>2, <3>2, <3>3 DEF SearchIsExact, f, s
  <2>3. QED
    BY <2>1, <2>2
<1>2. FcbInv => SearchIsExact
  BY <1>1
<1>3. QED
  BY <1>2, FcbInvHolds, PTL

\* The list that is reranked is the head of the full ranking, and begins with what
\* the exhaustive search would have chosen, for lists and tracks of every length.
THEOREM RerankedIsTheRanking == FcbSpec => []TopKIsTheRanking
<1>1. ASSUME FcbInv PROVE TopKIsTheRanking
  <2>1. SUFFICES ASSUME found # <<>>, PhiFits(SurfaceOf(found[1])) PROVE TopKIsTheRanking
    BY DEF TopKIsTheRanking
  <2> DEFINE f == found[1]
             h == Sharpened(f)
             s == SurfaceOf(f)
  <2>2. /\ f.x \in Signals /\ h \in Signals /\ h[0] > 2 /\ s = Surface(f.x, h) /\ PhiFits(s)
    BY <1>1, <2>1, FoundSurface
  <2> HIDE DEF f, h, s
  <2>3. RatedList(s, AllCandidates)
    BY <2>2, AllCandidatesAre, RatedIs
  <2>4. QED
    BY <2>3, TopRanked DEF TopKIsTheRanking, f, s
<1>2. FcbInv => TopKIsTheRanking
  BY <1>1
<1>3. QED
  BY <1>2, FcbInvHolds, PTL
=============================================================================
