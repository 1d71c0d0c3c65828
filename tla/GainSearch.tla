----------------------------- MODULE GainSearch -----------------------------
(***************************************************************************)
(* The conjugate-structure gain search of a subframe, gainquant.           *)
(* SearchConjugate: correlations of the target x, the filtered adaptive    *)
(* vector y and the filtered fixed vector z, the unquantised optimum as    *)
(* the centre of a preselection, and the exact search among the            *)
(* preselected pairs in words of fixed width.  The scales (Q14 gains, Q12  *)
(* vectors, 64-bit costs) are parameters, so that an instance can have a   *)
(* word small enough to overflow.                                          *)
(***************************************************************************)
EXTENDS Integers, Sequences, FiniteSets

CONSTANTS
  GBK1, GBK2,      \* the two codebooks: sequences of [gp, gamma]
  KeptGA, KeptGB,  \* entries preselected of each (4 and 8)
  QGp, QGamma, QGc, QZ, \* scales: 14, 13, 12 and 12
  CenterBits,      \* bits kept of the correlations for the optimum (14)
  CostBits,        \* bits a term of the cost may have (58)
  WordBits,        \* bits of a word (64); a cost starts at 2^(WordBits - 2)
  Vectors,         \* target, adaptive and fixed vectors: [x, y, z]
  Predictions      \* predicted fixed gains

\* Five terms of CostBits each are less than a quarter of the word.
ASSUME GainSearchAssumption ==
  /\ GBK1 \in Seq([gp : Nat, gamma : Nat]) /\ GBK2 \in Seq([gp : Nat, gamma : Nat])
  /\ KeptGA \in 1 .. Len(GBK1) /\ KeptGB \in 1 .. Len(GBK2)
  /\ {QGp, QGamma, QGc, QZ, CenterBits, CostBits, WordBits} \subseteq Nat
  /\ QGp >= QGc /\ CostBits + 5 <= WordBits
  /\ \A v \in Vectors : /\ {v.x, v.y, v.z} \subseteq Seq(Int)
                         /\ Len(v.x) = Len(v.y) /\ Len(v.z) = Len(v.y)
  /\ Predictions \subseteq Nat

VARIABLES
  sought,  \* what was searched for last: vectors, prediction, centre
  chosen   \* the pair found for it

gainSearchVars == <<sought, chosen>>

-----------------------------------------------------------------------------
\* 2^n, as a recursive function.
Pow2[n \in Nat] == IF n = 0 THEN 1 ELSE 2 * Pow2[n - 1]

\* The bits of |v|.
BitLen(v) == CHOOSE n \in 0 .. WordBits :
  /\ v < Pow2[n] /\ -v < Pow2[n]
  /\ n > 0 => v >= Pow2[n - 1] \/ -v >= Pow2[n - 1]

Larger2(a, b) == IF a < b THEN b ELSE a

Positive(v) == Larger2(v, 0)

Wrapped64(v) ==
  LET half == Pow2[WordBits - 1] IN ((v + half) % (2 * half)) - half

\* Go's / truncates towards zero.
DividedBy(n, d) == IF n >= 0 THEN n \div d ELSE -((-n) \div d)

Dot(a, b) ==
  LET upTo[n \in 0 .. Len(a)] == IF n = 0 THEN 0 ELSE upTo[n - 1] + a[n] * b[n]
  IN  upTo[Len(a)]

\* Correlations of x and y are promoted to the scale of those of z.
Correlations(v) ==
  [a |-> Dot(v.y, v.y) * Pow2[2 * QZ], b |-> Dot(v.z, v.z),
   c |-> Dot(v.y, v.z) * Pow2[QZ], d |-> Dot(v.x, v.y) * Pow2[2 * QZ],
   f |-> Dot(v.x, v.z) * Pow2[QZ]]

\* An arithmetic shift rounds down, a small negative correlation to -1.
ShiftedDown(corr, n) == [k \in DOMAIN corr |-> corr[k] \div Pow2[n]]

\* The 2x2 system; when it has no solution the pitch gain is solved for alone.
Optimum(r) ==
  LET det == r.a * r.b - r.c * r.c
      gp == CASE det > 0 -> DividedBy((r.d * r.b - r.f * r.c) * Pow2[QGp], det)
              [] det <= 0 /\ r.a > 0 -> DividedBy(r.d * Pow2[QGp], r.a)
              [] OTHER -> 0
      gc == CASE det > 0 -> DividedBy((r.f * r.a - r.d * r.c) * Pow2[QGc], det)
              [] det <= 0 /\ r.a <= 0 /\ r.b > 0 -> DividedBy(r.f * Pow2[QGc], r.b)
              [] OTHER -> 0
  IN  [gp |-> Positive(gp), gc |-> Positive(gc)]

\* The centre of the preselection: of correlations cut to CenterBits, or, for
\* PreselectFloatCenter, of all their bits.
Center(corr, float) ==
  LET longest == BitLen(CHOOSE m \in {corr[k] : k \in DOMAIN corr} :
                          \A k \in DOMAIN corr : BitLen(corr[k]) <= BitLen(m))
      cut == IF float THEN 0 ELSE Positive(longest - CenterBits)
  IN  Optimum(ShiftedDown(corr, cut))

\* sortByDist8 and sortByDist16 are stable: the n nearest, nearest first.
Nearest(n, distance) ==
  LET before(i, j) == distance[i] < distance[j] \/ (distance[i] = distance[j] /\ i < j)
  IN  [k \in 1 .. n |-> CHOOSE j \in DOMAIN distance :
         Cardinality({i \in DOMAIN distance : before(i, j)}) = k - 1]

Scaled(gamma, predicted) == (gamma * predicted) \div Pow2[QGamma]

Distance(a, b) == IF a < b THEN b - a ELSE a - b

\* The preselected pairs in the order in which they are compared.
Preselected(center, predicted) ==
  LET ga == Nearest(KeptGA, [i \in DOMAIN GBK1 |->
                               Distance(Scaled(GBK1[i].gamma, predicted), center.gc)])
      gb == Nearest(KeptGB, [j \in DOMAIN GBK2 |-> Distance(GBK2[j].gp, center.gp)])
  IN  [k \in 1 .. KeptGA * KeptGB |->
         <<ga[(k - 1) \div KeptGB + 1], gb[((k - 1) % KeptGB) + 1]>>]

PairGp(pair) == GBK1[pair[1]].gp + GBK2[pair[2]].gp

PairGc(pair, predicted) ==
  Scaled(GBK1[pair[1]].gamma + GBK2[pair[2]].gamma, predicted)

\* The correlations are words, as those of 16-bit samples are; and the gains are
\* small enough for a correlation of -1, which no shift makes 0.
ASSUME WordAssumption ==
  /\ \A v \in Vectors : \A k \in {"a", "b", "c", "d", "f"} :
       Correlations(v)[k] \in -Pow2[WordBits - 1] .. Pow2[WordBits - 1] - 1
  /\ \A i \in DOMAIN GBK1, j \in DOMAIN GBK2, p \in Predictions :
       LET gp == PairGp(<<i, j>>)
           gc == PairGc(<<i, j>>, p)
       IN  /\ 2 * gp * gc * Pow2[QGp - QGc] <= Pow2[CostBits]
           /\ 2 * gp * Pow2[QGp] <= Pow2[CostBits]
           /\ 2 * gc * Pow2[2 * QGp - QGc] <= Pow2[CostBits]

\* gainSearchTermShift: what a term is longer than CostBits.
TermShift(corr, factorBits, extra) ==
  IF corr = 0 THEN 0 ELSE Positive(BitLen(corr) + factorBits + extra - CostBits)

\* The bits of the largest of some naturals.
Longest(S) == BitLen(CHOOSE m \in S : \A n \in S : n <= m)

Gps(pairs) == {PairGp(pairs[k]) : k \in DOMAIN pairs}
Gcs(pairs, predicted) == {PairGc(pairs[k], predicted) : k \in DOMAIN pairs}

\* Mutant: only the quadratic terms are kept inside the word.
CostShiftQuadratic(corr, pairs, predicted) ==
  LET gp == Longest(Gps(pairs))
      gc == Longest(Gcs(pairs, predicted))
  IN  Larger2(TermShift(corr.a, 2 * gp, 0), TermShift(corr.b, 2 * gc, 2 * (QGp - QGc)))

\* gainSearchCostShift: 4, 2, 14 and 16 bits of scaling, and one for each
\* doubled term.
CostShift(corr, pairs, predicted) ==
  LET gp == Larger2(Longest(Gps(pairs)), 1)
      gc == Larger2(Longest(Gcs(pairs, predicted)), 1)
      shifts == {TermShift(corr.a, 2 * gp, 0),
                 TermShift(corr.b, 2 * gc, 2 * (QGp - QGc)),
                 TermShift(corr.c, gp + gc, QGp - QGc + 1),
                 TermShift(corr.d, gp, QGp + 1),
                 TermShift(corr.f, gc, 2 * QGp - QGc + 1)}
  IN  CHOOSE s \in shifts : \A u \in shifts : u <= s

\* The cost of eq. (63) as an integer of any size.
ExactCost(r, gp, gc) ==
  gp * gp * r.a + gc * gc * r.b * Pow2[2 * (QGp - QGc)]
  + 2 * gp * gc * r.c * Pow2[QGp - QGc] - 2 * gp * r.d * Pow2[QGp]
  - 2 * gc * r.f * Pow2[2 * QGp - QGc]

PairCost(r, pair, predicted) ==
  ExactCost(r, PairGp(pair), PairGc(pair, predicted))

\* The first of the pairs with the least cost, as a word of WordBits has it; <<>>
\* when no cost is below the initial one.
Cheapest(r, pairs, predicted) ==
  LET best[n \in 0 .. Len(pairs)] ==
        IF n = 0 THEN [cost |-> Pow2[WordBits - 2], pair |-> <<>>]
        ELSE LET cost == Wrapped64(PairCost(r, pairs[n], predicted))
             IN  IF cost < best[n - 1].cost THEN [cost |-> cost, pair |-> pairs[n]]
                 ELSE best[n - 1]
  IN  best[Len(pairs)].pair

Searched(corr, float, predicted) ==
  LET pairs == Preselected(Center(corr, float), predicted)
      kept == ShiftedDown(corr, CostShift(corr, pairs, predicted))
  IN  Cheapest(kept, pairs, predicted)

-----------------------------------------------------------------------------
GainSearchInit == sought = <<>> /\ chosen = <<>>

\* fcbStep calls SearchConjugate, or, in the profiles that centre the
\* preselection precisely, SearchConjugatePreselectFloatCenter.
SearchConjugate(vectors, predicted, float) ==
  /\ sought' = [vectors |-> vectors, predicted |-> predicted, float |-> float]
  /\ chosen' = Searched(Correlations(vectors), float, predicted)

\* Bound of the model: what one search finds says nothing about the next.
GainSearchNext ==
  /\ sought = <<>>
  /\ \E vectors \in Vectors, predicted \in Predictions, float \in BOOLEAN :
       SearchConjugate(vectors, predicted, float)

GainSearchSpec == GainSearchInit /\ [][GainSearchNext]_gainSearchVars

-----------------------------------------------------------------------------
(* Properties. *)

\* The search finds, of the pairs it preselected, one with the least cost: no
\* term leaves the word, whatever the correlations and the predicted gain, and
\* some cost is always below the initial one (conjugate.go 191-270 and 314-366).
GainCostsFit ==
  sought # <<>> =>
    LET corr == Correlations(sought.vectors)
        pairs == Preselected(Center(corr, sought.float), sought.predicted)
        kept == ShiftedDown(corr, CostShift(corr, pairs, sought.predicted))
    IN  /\ \E k \in DOMAIN pairs : pairs[k] = chosen
        /\ \A k \in DOMAIN pairs : PairCost(kept, chosen, sought.predicted)
                                     <= PairCost(kept, pairs[k], sought.predicted)
=============================================================================
