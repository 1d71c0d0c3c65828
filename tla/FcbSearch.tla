----------------------------- MODULE FcbSearch -----------------------------
(***************************************************************************)
(* The fixed (algebraic) codebook of one frame: internal/fcbsearch, the    *)
(* part of fcbStep in encoder.go that calls it, and the receiver's         *)
(* internal/fcb.                                                           *)
(*                                                                         *)
(* Each of the two subframes gets one code vector of four signed pulses,   *)
(* one per track.  The Core profiles search it with a budget: a prefix of  *)
(* three pulses whose correlation passes a threshold is "entered", all     *)
(* fourth pulses are then tried with it, and the prefixes entered in the   *)
(* two subframes together have a cap.  The other profiles try everything,  *)
(* and one of them reranks the best few by what the receiver would play.   *)
(*                                                                         *)
(* A track has Steps positions instead of 8 (the fourth one twice as many),*)
(* so a subframe has 5 * Steps samples.  Targets and responses are small   *)
(* integers and the 32-bit range they saturate in is scaled with them; the *)
(* arithmetic is the code's.  Its 64 and 128-bit products do not overflow  *)
(* on its inputs and are exact here.                                       *)
(* What decides between reranked candidates (a simulated receiver, see     *)
(* GainRepair) is left open.                                               *)
(***************************************************************************)
EXTENDS Integers, Sequences, FiniteSets
LOCAL INSTANCE SequencesExt
LOCAL INSTANCE TLC

CONSTANTS
  Steps,          \* positions of each of the first three tracks (8)
  Inputs,         \* what a subframe may bring: its adjusted target x', the
                  \* impulse response h of the weighted synthesis filter, its
                  \* integer pitch lag, and the gain gp it will commit (Q14)
  FrameLimits,    \* scanning profile |-> prefixes it may enter in a frame
  FcbProfiles,    \* the profiles, "rerank" the one that reranks
  TopKLimit,      \* candidates reranked (8)
  Word            \* a 32-bit integer is in -Word .. Word - 1 (2^31)

SubframeLen == 5 * Steps
Samples == 0 .. SubframeLen - 1

\* limit/2 must leave both subframes something to enter; h(0) is 4096.
ASSUME FcbAssumption ==
  /\ Steps \in Nat \ {0} /\ TopKLimit \in Nat \ {0} /\ Word \in Nat
  /\ DOMAIN FrameLimits \subseteq FcbProfiles
  /\ \A p \in DOMAIN FrameLimits : FrameLimits[p] \in Nat \ {0, 1}
  /\ Inputs \subseteq
       [x : [Samples -> Int], h : [Samples -> Int], lag : Nat, gp : Int]
  /\ \A i \in Inputs : i.h[0] > 2

VARIABLES
  profile,      \* the encoder's profile
  subframe,     \* subframe to search next: 0, 1, or 2 when the frame is done
  remaining,    \* coreFCBThresholdEntriesRemaining
  enteredFrame, \* qualityFCBThresholdEntriesFrame
  prevGp,       \* prevGpQ14, the gain committed by the previous subframe
  found         \* the last search: its inputs, its limit and what it chose

fcbVars == <<profile, subframe, remaining, enteredFrame, prevGp, found>>

-----------------------------------------------------------------------------
(* Signals. *)

Saturate16(v) ==
  CASE v > 32767 -> 32767 [] v < -32768 -> -32768 [] OTHER -> v

Saturate32(v) ==
  CASE v >= Word -> Word - 1 [] v < -Word -> -Word [] OTHER -> v

\* Division that rounds toward zero.
Quotient(a, b) == IF a >= 0 THEN a \div b ELSE -((-a) \div b)

\* f[from] + ... + f[to]
SumOver(f, from, to) ==
  LET sum[n \in from - 1 .. to] == IF n < from THEN 0 ELSE sum[n - 1] + f[n]
  IN  sum[to]

ClampPitchGain(gp) ==
  CASE gp < 3277 -> 3277 [] gp > 13017 -> 13017 [] OTHER -> gp

\* c'(n) = c(n) + beta c'(n - T), in place, so that a copy is copied again.
ApplyPitchEnhancement(c, lag, beta) ==
  IF lag < 1 \/ lag >= SubframeLen THEN c
  ELSE LET enhanced[n \in Samples] ==
             IF n < lag THEN c[n]
             ELSE Saturate16(c[n] + (beta * enhanced[n - lag]) \div 16384)
       IN  [n \in Samples |-> enhanced[n]]

\* d(n): the target seen through the response, backwards.
CorrelationD(x, h) ==
  [n \in Samples |->
     Saturate32(SumOver([i \in n .. SubframeLen - 1 |-> x[i] * h[i - n]],
                        n, SubframeLen - 1))]

SignOf(d, n) == IF d[n] >= 0 THEN 1 ELSE -1

\* |d|, but the least 32-bit integer is its own opposite.
Magnitude(d, n) ==
  IF d[n] >= 0 \/ d[n] = -Word THEN d[n] ELSE -d[n]

\* Mutant: the products do not carry the signs of the two pulses.
PhiPrimeUnsigned(h, d, i, j) ==
  LET last == IF i < j THEN j ELSE i
      sum == SumOver([n \in last .. SubframeLen - 1 |-> h[n - i] * h[n - j]],
                     last, SubframeLen - 1)
  IN  Saturate32(IF i = j THEN sum \div 2 ELSE sum)

\* phi': the response's correlations, the diagonal halved, the signs of the
\* two pulses in the product.
PhiPrime(h, d, i, j) ==
  LET last == IF i < j THEN j ELSE i
      sum == SumOver([n \in last .. SubframeLen - 1 |-> h[n - i] * h[n - j]],
                     last, SubframeLen - 1)
  IN  Saturate32(IF i = j THEN sum \div 2
                 ELSE sum * SignOf(d, i) * SignOf(d, j))

-----------------------------------------------------------------------------
(* Candidates, in the order of the nested loops. *)

Steps2 == Steps * Steps
Steps3 == Steps * Steps * Steps

Track3 == [k \in 1 .. 2 * Steps |-> 5 * ((k - 1) \div 2) + 3 + ((k - 1) % 2)]

Triples ==
  [k \in 1 .. Steps3 |->
     <<5 * ((k - 1) \div Steps2),
       5 * (((k - 1) \div Steps) % Steps) + 1,
       5 * ((k - 1) % Steps) + 2>>]

\* Every prefix with every fourth pulse.
With(prefixes) ==
  [k \in 1 .. Len(prefixes) * Len(Track3) |->
     Append(prefixes[1 + ((k - 1) \div Len(Track3))],
            Track3[1 + ((k - 1) % Len(Track3))])]

AllCandidates == With(Triples)

DefaultPositions == <<0, 1, 2, 3>>

\* The function f, its values computed once (TLC lists them to compare).
Listed(f) == CHOOSE g \in {f} : g = f

\* What the search reads of the signals: |d| and phi'.
Surface(x, h) ==
  LET d == Listed(CorrelationD(x, h))
  IN  [abs |-> Listed([n \in Samples |-> Magnitude(d, n)]),
       sign |-> Listed([n \in Samples |-> SignOf(d, n)]),
       phi |-> Listed([i \in Samples |->
                         Listed([j \in Samples |-> PhiPrime(h, d, i, j)])])]

\* The response is sharpened as the code vector will be.
Sharpened(f) == Listed(ApplyPitchEnhancement(f.h, f.lag, ClampPitchGain(f.gp)))

SurfaceOf(f) == Surface(f.x, Sharpened(f))

Correlation(s, m) == SumOver([k \in 1 .. Len(m) |-> s.abs[m[k]]], 1, Len(m))

Energy(s, m) ==
  SumOver([k \in 1 .. 4 |-> SumOver([l \in 1 .. k |-> s.phi[m[l]][m[k]]], 1, k)],
          1, 4)

RatioGreater(a, b) ==
  a.c * a.c * b.e > b.c * b.c * a.e

Measured(s, m) == [m |-> m, c |-> Correlation(s, m), e |-> Energy(s, m)]

-----------------------------------------------------------------------------
(* The searches. *)

\* The best of a sequence of candidates, the first of equals; <<>> if every
\* one has no energy.
BestOf(s, candidates) ==
  LET best[k \in 0 .. Len(candidates)] ==
        IF k = 0 THEN <<>>
        ELSE LET next == Measured(s, candidates[k])
                 before == best[k - 1]
             IN  IF \/ next.e <= 0
                    \/ before # <<>> /\ ~RatioGreater(next, before[1])
                 THEN before ELSE <<next>>
  IN  best[Len(candidates)]

PositionsOf(best, otherwise) == IF best = <<>> THEN otherwise ELSE best[1].m

SearchDepthFirst(s) == PositionsOf(BestOf(s, AllCandidates), DefaultPositions)

Threshold(s) ==
  LET sums == [k \in DOMAIN Triples |-> Correlation(s, Triples[k])]
      reached == {0} \cup ToSet(sums)
      most == CHOOSE a \in reached : \A b \in reached : b <= a
      mean == Quotient(SumOver(sums, 1, Len(sums)), Len(sums))
  IN  mean + (4 * (most - mean)) \div 10

\* The prefixes above the threshold.
Above(s) ==
  LET threshold == Threshold(s)
      upTo[k \in 0 .. Len(Triples)] ==
        IF k = 0 THEN <<>>
        ELSE IF Correlation(s, Triples[k]) > threshold THEN Append(upTo[k - 1], Triples[k])
        ELSE upTo[k - 1]
  IN  upTo[Len(Triples)]

AtMost(limit, list) == SubSeq(list, 1, IF limit < Len(list) THEN limit ELSE Len(list))

\* Mutant: the limit is looked at after the prefix is entered.
ScanLate(s, limit) ==
  IF limit <= 0 THEN [m |-> SearchDepthFirst(s), entered |-> 0]
  ELSE LET inside == AtMost(limit + 1, Above(s))
       IN  [m |-> PositionsOf(BestOf(s, With(inside)), SearchDepthFirst(s)),
            entered |-> Len(inside)]

\* SearchDepthFirstThresholdScanEntered: the first limit prefixes above the
\* threshold; the exhaustive search when none is, or for no limit at all.
Scan(s, limit) ==
  IF limit <= 0 THEN [m |-> SearchDepthFirst(s), entered |-> 0]
  ELSE LET inside == AtMost(limit, Above(s))
       IN  [m |-> PositionsOf(BestOf(s, With(inside)), SearchDepthFirst(s)),
            entered |-> Len(inside)]

\* Mutant: a candidate also goes before those it equals.
InsertedBeforeEquals(list, next, limit) ==
  IF Len(list) = limit /\ RatioGreater(list[limit], next) THEN list
  ELSE LET beaten == {k \in 1 .. Len(list) : \A l \in k .. Len(list) :
                                               ~RatioGreater(list[l], next)}
           at == Len(list) + 1 - Cardinality(beaten)
       IN  AtMost(limit, InsertAt(list, at, next))

\* The insertion of SearchTopK: a full list turns away what does not beat its
\* last; otherwise the candidate goes before those it beats.
Inserted(list, next, limit) ==
  IF Len(list) = limit /\ ~RatioGreater(next, list[limit]) THEN list
  ELSE LET beaten == {k \in 1 .. Len(list) : \A l \in k .. Len(list) :
                                               RatioGreater(next, list[l])}
           at == Len(list) + 1 - Cardinality(beaten)
       IN  AtMost(limit, InsertAt(list, at, next))

SearchTopK(s, limit) ==
  LET candidates == AllCandidates
      top[k \in 0 .. Len(candidates)] ==
        IF k = 0 THEN <<>>
        ELSE LET next == Measured(s, candidates[k])
             IN  IF next.e <= 0 THEN top[k - 1] ELSE Inserted(top[k - 1], next, limit)
      list == top[Len(candidates)]
  IN  IF list = <<>> THEN <<DefaultPositions>>
      ELSE [k \in DOMAIN list |-> list[k].m]

-----------------------------------------------------------------------------
(* The code vector, its fields, and the receiver's reading of them. *)

Pulses(m, positive) ==
  [n \in Samples |->
     IF \E i \in 1 .. 4 : m[i] = n
     THEN IF positive[CHOOSE i \in 1 .. 4 : m[i] = n] THEN 8191 ELSE -8192
     ELSE 0]

BuildCode(m, sign, lag, gp) ==
  ApplyPitchEnhancement(Pulses(m, [i \in 1 .. 4 |-> sign[m[i]] > 0]),
                        lag, ClampPitchGain(gp))

PackS(m, sign) ==
  LET bit(i) == IF sign[m[i]] > 0 THEN 1 ELSE 0
  IN  bit(1) + 2 * bit(2) + 4 * bit(3) + 8 * bit(4)

\* Mutant: the half of the fourth track is read from the wrong residue.
PackCResidue(m) ==
  LET jx == IF m[4] % 5 = 3 THEN 1 ELSE 0
  IN  m[1] \div 5 + Steps * ((m[2] - 1) \div 5) + Steps2 * ((m[3] - 2) \div 5)
      + Steps3 * (2 * ((m[4] - 3 - jx) \div 5) + jx)

PackC(m) ==
  LET jx == IF m[4] % 5 = 4 THEN 1 ELSE 0
  IN  m[1] \div 5 + Steps * ((m[2] - 1) \div 5) + Steps2 * ((m[3] - 2) \div 5)
      + Steps3 * (2 * ((m[4] - 3 - jx) \div 5) + jx)

DecodePositions(code) ==
  LET jx == (code \div Steps3) % 2
  IN  <<5 * (code % Steps),
        5 * ((code \div Steps) % Steps) + 1,
        5 * ((code \div Steps2) % Steps) + 2,
        5 * ((code \div (2 * Steps3)) % Steps) + 3 + jx>>

\* The receiver's Decode.
DecodeCode(code, signs, lag, gp) ==
  ApplyPitchEnhancement(
    Pulses(DecodePositions(code), [i \in 1 .. 4 |-> (signs \div <<1, 2, 4, 8>>[i]) % 2 = 1]),
    lag, ClampPitchGain(gp))

-----------------------------------------------------------------------------
(* The encoder. *)

Scanning == profile \in DOMAIN FrameLimits

\* Mutant: the first subframe may spend the whole budget.
ScanLimitWhole(sub) == remaining

ScanLimit(sub) ==
  LET first == FrameLimits[profile] \div 2
  IN  IF sub = 0 /\ remaining > first THEN first ELSE remaining

FcbInit ==
  /\ profile \in FcbProfiles
  /\ subframe = 2
  /\ remaining = 0
  /\ enteredFrame = 0
  /\ prevGp = 0
  /\ found = <<>>

\* lpcStep: a frame starts, with the whole budget.
StartFrame ==
  /\ subframe = 2
  /\ subframe' = 0
  /\ enteredFrame' = 0
  /\ remaining' = IF Scanning THEN FrameLimits[profile] ELSE 0
  /\ found' = <<>>
  /\ UNCHANGED <<profile, prevGp>>

\* fcbStep: the search runs on the sharpened response, the fields are packed,
\* and the gain quantised after them is kept for the next subframe.
SearchSubframe(input) ==
  /\ subframe < 2
  /\ \E s \in {SurfaceOf([input EXCEPT !.gp = prevGp])},
        limit \in {IF Scanning THEN ScanLimit(subframe) ELSE 0} :
     \E scan \in {Scan(s, limit)} :
         /\ enteredFrame' = enteredFrame + scan.entered
         /\ remaining' = IF remaining < scan.entered THEN 0
                         ELSE remaining - scan.entered
         /\ \E m \in IF profile = "rerank"
                     THEN {scan.m} \cup ToSet(SearchTopK(s, TopKLimit))
                     ELSE {scan.m} :
              found' = <<[x |-> input.x, h |-> input.h, lag |-> input.lag,
                          gp |-> prevGp, limit |-> limit, first |-> scan.m, m |-> m,
                          C |-> PackC(m), S |-> PackS(m, s.sign)]>>
  /\ prevGp' = input.gp
  /\ subframe' = subframe + 1
  /\ UNCHANGED profile

FcbNext == StartFrame \/ \E input \in Inputs : SearchSubframe(input)

FcbSpec == FcbInit /\ [][FcbNext]_fcbVars

-----------------------------------------------------------------------------
(* Properties. *)

\* The two subframes of a frame together never enter more prefixes than the
\* profile's cap, and whatever the first one found, the second has at least
\* half of the cap left: it never falls into the unbounded search for want of
\* a limit (encoder.go 422-457 and 620-633).
BudgetShared ==
  Scanning /\ found # <<>> =>
    /\ enteredFrame + remaining = FrameLimits[profile]
    /\ subframe = 1 => 2 * remaining >= FrameLimits[profile]
    /\ found[1].limit > 0

Outstanding(s) ==
  {k \in DOMAIN Triples : Correlation(s, Triples[k]) > Threshold(s)}

\* The candidates a search had to try: those of the first limit prefixes above
\* the threshold, or all of them when no prefix stands out.
Reached(s, limit) ==
  LET above == Outstanding(s)
      inside == {k \in above : Cardinality({l \in above : l < k}) < limit}
  IN  {m \in ToSet(AllCandidates) :
         limit = 0 \/ above = {} \/ \E k \in inside : SubSeq(m, 1, 3) = Triples[k]}

\* No correlation is at the edge of its 32 bits.
InRange(s) == \A n \in Samples : s.abs[n] \in 0 .. Word - 2

\* Nor a product of the response with itself.
PhiFits(s) == \A i, j \in Samples : s.phi[i][j] \in -Word + 1 .. Word - 2

Before(m, n) ==
  \E i \in 1 .. 4 : m[i] < n[i] /\ \A j \in 1 .. i - 1 : m[j] = n[j]

\* The search returns the best of what its budget lets it try, the lowest
\* positions among equals, if no product of the response saturates; and it is
\* unbounded only when the first three pulses cannot be told apart, as in
\* silence (search.go 65-72 and 151-239).
SearchIsExact ==
  found # <<>> =>
    LET f == found[1]
        s == SurfaceOf(f)
        best == Measured(s, f.first)
        reached == Reached(s, f.limit)
    IN  /\ PhiFits(s) =>
             /\ f.first \in reached
             /\ \A m \in reached :
                  LET other == Measured(s, m)
                  IN  /\ ~RatioGreater(other, best)
                      /\ m # f.first /\ ~RatioGreater(best, other) => Before(f.first, m)
        /\ Outstanding(s) = {} /\ InRange(s) =>
             \A k, l \in DOMAIN Triples :
               Correlation(s, Triples[k]) = Correlation(s, Triples[l])

\* What the search compares is what the code vector does: its correlation is
\* that of the signed pulses, filtered, with the target, its energy half that
\* of the filtered pulses but for the rounding of four halved squares, and it
\* is never zero, so that no candidate is skipped (search.go 42-50 and 74-80);
\* unless one saturates (the most negative correlation counts as such).
CriterionIsOfTheCode ==
  found # <<>> =>
    LET f == found[1]
        h == Sharpened(f)
        s == SurfaceOf(f)
    IN  \A m \in {f.m, f.first} :
          LET z == [n \in Samples |->
                      SumOver([i \in 1 .. 4 |-> IF m[i] > n THEN 0
                                                ELSE s.sign[m[i]] * h[n - m[i]]], 1, 4)]
              full == SumOver([n \in Samples |-> z[n] * z[n]], 0, SubframeLen - 1)
          IN  /\ InRange(s) =>
                   Correlation(s, m)
                     = SumOver([n \in Samples |-> f.x[n] * z[n]], 0, SubframeLen - 1)
              /\ PhiFits(s) =>
                   full - 2 * Energy(s, m) \in 0 .. 4 /\ Energy(s, m) > 0

\* The list reranked is the head of the full ranking, in order, and its first
\* entry is what the exhaustive search would have chosen, if no product of the
\* response saturates (search.go 241-247).
TopKIsTheRanking ==
  found # <<>> /\ profile = "rerank" /\ PhiFits(SurfaceOf(found[1])) =>
    LET s == SurfaceOf(found[1])
        top == SearchTopK(s, TopKLimit)
        rated == [m \in ToSet(AllCandidates) |-> Measured(s, m)]
        behind == DOMAIN rated \ ToSet(top)
        pairs == {<<top[k], top[k + 1]>> : k \in 1 .. Len(top) - 1}
                   \cup {<<top[Len(top)], m>> : m \in behind}
    IN  /\ top[1] = SearchDepthFirst(s)
        /\ \A p \in pairs :
             LET ahead == rated[p[1]]
                 next == rated[p[2]]
             IN  \/ RatioGreater(ahead, next)
                 \/ ~RatioGreater(next, ahead) /\ Before(p[1], p[2])

\* The receiver builds from the two fields the vector the encoder committed,
\* sharpened copies of the pulses included (pack.go, fcb/decode.go).
PulsesArrive ==
  found # <<>> =>
    LET f == found[1]
    IN  DecodeCode(f.C, f.S, f.lag, f.gp)
          = BuildCode(f.m, SurfaceOf(f).sign, f.lag, f.gp)
=============================================================================
