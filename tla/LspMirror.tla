------------------------------ MODULE LspMirror ------------------------------
(***************************************************************************)
(* The line spectral frequencies of a stream, from the quantiser to the    *)
(* receiver.  A frame sends a tuple: a moving-average predictor L0 and the *)
(* rows L1, L2, L3 of a split codebook.  What the tuple means depends on   *)
(* the four residuals before it, of which there are three copies: freqPrev *)
(* of the quantiser, the lsp.Decoder lspDec the Encoder runs beside it,    *)
(* and the lsp.Decoder of the receiver, which also has to invent residuals *)
(* for frames that were lost.                                              *)
(*                                                                         *)
(* Vectors have the code's ten coordinates and integers (Q13 radians); the *)
(* sums of the predictor and of the searches are written without their     *)
(* saturation where no codebook brings them near 32 bits, and with their   *)
(* wraparound where one does (SquaredError32).  The weights of the         *)
(* distortion and the cosine are constants.                                *)
(***************************************************************************)
EXTENDS Integers, Sequences, FiniteSets, TLC

CONSTANTS
  CodebookL1,  \* first stage: rows of ten, by index
  CodebookL2,  \* second stage, lower half: rows of five, by index
  CodebookL3,  \* second stage, upper half: rows of five, by index
  Spectra,     \* line spectra LP analysis may find in a frame
  ColdSpectrum, \* of initialPrevLSP, for a first frame in which it finds none
  WeightedError(_, _, _), \* distortion of a spectrum by a vector, over a set
               \* of coordinates
  LsfToLsp(_), \* the cosine of a frequency
  Breadths,    \* 0: Quantize; k > 0: QuantizeTopK with topK = k
  LspLongLoss, \* bound: frames lost in a row
  LspMaxUpsets \* bound: bursts of losses and other upsets

Coordinates == 1..10
Lower == 1..5
Upper == 6..10

Vector(f) == <<f[1], f[2], f[3], f[4], f[5], f[6], f[7], f[8], f[9], f[10]>>

\* The rows of a codebook of n coordinates are numbered from 0.
IsCodebook(book, n) ==
  /\ DOMAIN book = 0..Cardinality(DOMAIN book) - 1
  /\ DOMAIN book # {} /\ IsFiniteSet(DOMAIN book)
  /\ \A row \in DOMAIN book : book[row] \in [1..n -> Int]

ASSUME LspAssumption ==
  /\ IsCodebook(CodebookL1, 10) /\ IsCodebook(CodebookL2, 5) /\ IsCodebook(CodebookL3, 5)
  /\ Spectra \subseteq [1..10 -> Int] /\ ColdSpectrum \in [1..10 -> Int]
  /\ Breadths \subseteq 0..16 /\ Breadths # {}
  /\ LspLongLoss \in Nat /\ LspMaxUpsets \in Nat

VARIABLES
  breadth,  \* of the Encoder's search, fixed by its profile
  lspOld,   \* the last spectrum LP analysis found
  freqPrev, \* the quantiser's four residuals
  scored,   \* history: the quantised spectrum the search chose
  lspDec,   \* the Encoder's lsp.Decoder
  aHat,     \* the line spectra of the Encoder's two synthesis filters
  wire,     \* the tuple sent and not yet received, at most one
  dec,      \* the receiver's lsp.Decoder
  heard,    \* the line spectra of its two synthesis filters
  sent,     \* history: lspDec before the tuple on the wire
  good,     \* history: intact frames in a row, up to 6
  gone,     \* history: frames concealed in a row
  lspUpsets \* history: how often the two sides were set apart

encoderSide == <<breadth, lspOld, freqPrev, scored, lspDec, aHat, sent>>
decoderSide == <<dec, heard>>
lspVars == <<breadth, lspOld, freqPrev, scored, lspDec, aHat, wire, dec, heard,
             sent, good, gone, lspUpsets>>

-----------------------------------------------------------------------------
(* Tables.                                                                 *)

MAPredictorsLSP ==
  <<<<<<8421, 9109, 9175, 8965, 9034, 9057, 8765, 8775, 9106, 8673>>,
      <<7018, 7189, 7638, 7307, 7444, 7379, 7038, 6956, 6930, 6868>>,
      <<5472, 4990, 5134, 5177, 5246, 5141, 5206, 5095, 4830, 5147>>,
      <<4056, 3031, 2614, 3024, 2916, 2713, 3309, 3237, 2857, 3473>>>>,
    <<<<7733, 7880, 8188, 8175, 8247, 8490, 8637, 8601, 8359, 7569>>,
      <<4210, 3031, 2552, 3473, 3876, 3853, 4184, 4154, 3909, 3968>>,
      <<3214, 1930, 1313, 2143, 2493, 2385, 2755, 2706, 2542, 2919>>,
      <<3024, 1592, 940, 1631, 1723, 1579, 2034, 2084, 1913, 2601>>>>>>

MAPredictorInvSumLSP ==
  <<<<7798, 8447, 8205, 8293, 8126, 8477, 8447, 8703, 9043, 8604>>,
    <<14585, 18333, 19772, 17344, 16426, 16459, 15155, 15220, 16043, 15708>>>>

maPredictorInvSumReciprocalLSP ==
  <<<<17210, 15888, 16357, 16183, 16516, 15833, 15888, 15421, 14840, 15597>>,
    <<9202, 7320, 6788, 7738, 8170, 8154, 8856, 8818, 8366, 8544>>>>

initialPastResidual ==
  <<2339, 4679, 7018, 9358, 11698, 14037, 16377, 18717, 21056, 23396>>

initialPrevLSP ==
  <<30000, 26000, 21000, 15000, 8000, 0, -8000, -15000, -21000, -26000>>

InitFreqPrev == [k \in 1..4 |-> initialPastResidual]

-----------------------------------------------------------------------------
(* From a tuple to a spectrum.                                             *)

Saturate(x) == IF x > 32767 THEN 32767 ELSE IF x < -32768 THEN -32768 ELSE x

\* combineResidual
Combined(t) ==
  Vector([i \in Coordinates |->
     Saturate(CodebookL1[t.L1][i] +
              IF i \in Lower THEN CodebookL2[t.L2][i]
                             ELSE CodebookL3[t.L3][i - 5])])

\* How far rearrangeAdjacent moves each of two neighbours apart.
Correction(lower, upper, J) ==
  IF upper - lower < J THEN (J - (upper - lower)) \div 2 ELSE 0

\* One forward pass: raised[i] is coordinate i once its lower neighbour has
\* been dealt with, after which only its upper neighbour moves it.
Rearranged(l, J) ==
  LET raised[i \in Coordinates] ==
        IF i = 1 THEN l[1]
        ELSE Saturate(l[i] + Correction(raised[i - 1], l[i], J))
  IN Vector([i \in Coordinates |->
        IF i = 10 THEN raised[10]
        ELSE Saturate(raised[i] - Correction(raised[i], l[i + 1], J))])

lsfRearrJ1 == 10
lsfRearrJ2 == 5

Residual(t) == Rearranged(Rearranged(Combined(t), lsfRearrJ1), lsfRearrJ2)

\* What the residuals before it contribute to coordinate i, Q29.
History(selector, past, i) ==
  LET p == MAPredictorsLSP[selector + 1]
  IN 2 * (p[1][i] * past[1][i] + p[2][i] * past[2][i] +
          p[3][i] * past[3][i] + p[4][i] * past[4][i])

\* applyPredictorCoordinate, applyPredictorWithMemory
Predicted(selector, residual, past) ==
  Vector([i \in Coordinates |->
     (2 * MAPredictorInvSumLSP[selector + 1][i] * residual[i] +
      History(selector, past, i)) \div 65536])

lsfMinEdge == 41
lsfMinGap == 321
lsfMaxEdge == 25682

Larger(x, y) == IF x > y THEN x ELSE y
Smaller(x, y) == IF x < y THEN x ELSE y

\* The array after each of the nine rounds: round i moves element i (from 0) down
\* past the larger ones before it.
insertionSort10(a) ==
  LET sorted[i \in 0..9] ==
        IF i = 0 THEN a
        ELSE LET s == sorted[i - 1]
                 at == Cardinality({j \in 1..i : s[j] <= s[i + 1]})
             IN Vector([k \in Coordinates |->
                  IF k <= at \/ k > i + 1 THEN s[k]
                  ELSE IF k = at + 1 THEN s[i + 1] ELSE s[k - 1]])
  IN sorted[9]

\* Mutant: the gaps are not enforced.
StabilisedEdges(lsf) ==
  LET v == insertionSort10(lsf)
  IN Vector([i \in Coordinates |-> Smaller(Larger(v[i], lsfMinEdge), lsfMaxEdge)])

\* enforceLSFStability: sort, raise from the lower edge up, and only if that went
\* past the upper edge, lower from there down.
Stabilised(lsf) ==
  LET v == insertionSort10(lsf)
      raised[i \in Coordinates] ==
        IF i = 1 THEN Larger(v[1], lsfMinEdge)
        ELSE Larger(v[i], Saturate(raised[i - 1] + lsfMinGap))
      lowered[i \in Coordinates] ==
        IF i = 10 THEN lsfMaxEdge
        ELSE Smaller(raised[i], lowered[i + 1] - lsfMinGap)
  IN IF raised[10] > lsfMaxEdge THEN Vector([i \in Coordinates |-> lowered[i]])
                                ELSE Vector([i \in Coordinates |-> raised[i]])

Spectrum(t, past) == Stabilised(Predicted(t.L0, Residual(t), past))

Shifted(past, residual) ==
  [k \in 1..4 |-> IF k = 1 THEN residual ELSE past[k - 1]]

-----------------------------------------------------------------------------
(* lsp.Decoder.                                                            *)

Zero == Vector([i \in Coordinates |-> 0])

ColdDecoder ==
  [initialized |-> FALSE, past |-> [k \in 1..4 |-> Zero], prevLSP |-> Zero,
   prevLSF |-> Zero, lastSelector |-> 0]

\* The memories of a decoder as it is about to use them: the first frame it
\* decodes or conceals replaces the zero value.
PastResiduals(d) == IF d.initialized THEN d.past ELSE InitFreqPrev
PrevLSP(d) == IF d.initialized THEN d.prevLSP ELSE initialPrevLSP
PrevLSF(d) == IF d.initialized THEN d.prevLSF ELSE initialPastResidual

Cosines(lsf) == Vector([i \in Coordinates |-> LsfToLsp(lsf[i])])

\* interpolateLSP
Interpolated(prev, curr) ==
  <<Vector([i \in Coordinates |-> prev[i] \div 2 + curr[i] \div 2]), curr>>

Decode(d, t) ==
  LET past == PastResiduals(d)
      lsf == Spectrum(t, past)
  IN [initialized |-> TRUE, past |-> Shifted(past, Residual(t)),
      prevLSP |-> Cosines(lsf), prevLSF |-> lsf, lastSelector |-> t.L0]

\* The two filters Decode returns, as line spectra, from d to the decoder after
\* it.
Filters(d, after) == Interpolated(PrevLSP(d), after.prevLSP)

\* Mutant: the reciprocal is taken for Q11, and the residual is not saturated.
ErasedResidualWide(selector, lsf, past) ==
  Vector([i \in Coordinates |->
     (((lsf[i] * 65536 - History(selector, past, i)) \div 65536) *
      maPredictorInvSumReciprocalLSP[selector + 1][i]) \div 2048])

\* inversePredictorResidual: the residual that would have given this spectrum.
ErasedResidual(selector, lsf, past) ==
  Vector([i \in Coordinates |->
     Saturate((((lsf[i] * 65536 - History(selector, past, i)) \div 65536) *
               maPredictorInvSumReciprocalLSP[selector + 1][i]) \div 4096)])

\* Mutant: the memory shifts first and is read then.
DecodeErasureLate(d) ==
  LET past == Shifted(PastResiduals(d), Zero)
  IN [initialized |-> TRUE, prevLSP |-> PrevLSP(d), prevLSF |-> PrevLSF(d),
      lastSelector |-> d.lastSelector,
      past |-> Shifted(PastResiduals(d),
                       ErasedResidual(d.lastSelector, PrevLSF(d), past))]

DecodeErasure(d) ==
  LET past == PastResiduals(d)
  IN [initialized |-> TRUE, prevLSP |-> PrevLSP(d), prevLSF |-> PrevLSF(d),
      lastSelector |-> d.lastSelector,
      past |-> Shifted(past, ErasedResidual(d.lastSelector, PrevLSF(d), past))]

-----------------------------------------------------------------------------
(* The quantiser.                                                          *)

Tuple(l0, l1, l2, l3) == [L0 |-> l0, L1 |-> l1, L2 |-> l2, L3 |-> l3]

Tuples ==
  {Tuple(l0, l1, l2, l3) : l0 \in {0, 1}, l1 \in DOMAIN CodebookL1,
                           l2 \in DOMAIN CodebookL2, l3 \in DOMAIN CodebookL3}

Truncated(a, b) == IF a >= 0 THEN a \div b ELSE -((-a) \div b)

\* computeTargetLSF: the residual that would give omega exactly.
Target(selector, omega, past) ==
  Vector([i \in Coordinates |->
     Saturate(Truncated(
       ((omega[i] * 65536 - History(selector, past, i)) \div 65536) * 32768,
       MAPredictorInvSumLSP[selector + 1][i]))])

\* The square of d, |d| < 2^16, as <<high, low>> 16-bit halves, which do not
\* overflow.
WideSquare(d) ==
  LET m == IF d < 0 THEN -d ELSE d
      a == m \div 256
      b == m % 256
      rest == 512 * a * b + b * b
  IN <<a * a + rest \div 65536, rest % 65536>>

\* The halves of the sum of the squares of v.
WideSquares(v) ==
  LET sum[i \in 0..10] ==
        IF i = 0 THEN <<0, 0>>
        ELSE LET s == sum[i - 1]
                 q == WideSquare(v[i])
             IN <<s[1] + q[1] + (s[2] + q[2]) \div 65536,
                  (s[2] + q[2]) % 65536>>
  IN sum[10]

\* The distance searchL1 minimises, an int32 that wraps.
SquaredError32(target, row) ==
  LET s == WideSquares(Vector([i \in Coordinates |-> target[i] - row[i]]))
      high == s[1] % 65536
  IN (IF high >= 32768 THEN high - 65536 ELSE high) * 65536 + s[2]

\* A negative best is "none yet", and the next row replaces it.
searchL1(target) ==
  LET error(row) == SquaredError32(target, CodebookL1[row])
      best[row \in DOMAIN CodebookL1] ==
        IF row = 0 THEN 0
        ELSE LET b == best[row - 1]
             IN IF error(b) < 0 \/ error(row) < error(b) THEN row ELSE b
  IN best[Cardinality(DOMAIN CodebookL1) - 1]

\* The rows searchL1TopK keeps, each with its rank from 0.
searchL1TopK(target, k) ==
  LET errors == {<<SquaredError32(target, CodebookL1[row]), row>> :
                   row \in DOMAIN CodebookL1}
      rank(e) == Cardinality({f \in errors : \/ f[1] < e[1]
                                             \/ f[1] = e[1] /\ f[2] < e[2]})
  IN {<<rank(e), e[2]>> : e \in {f \in errors : rank(f) < k}}

\* The candidate a loop with a strict comparison keeps, of candidates rated
\* <<error, order in the loop, candidate>>.
First(rated) ==
  (CHOOSE x \in rated :
     \A y \in rated : x[1] < y[1] \/ (x[1] = y[1] /\ x[2] <= y[2]))[3]

\* The rearrangement searchL2 inlines: it rounds otherwise than the others and
\* stops at the fifth coordinate.
LowerRearranged(lsf) ==
  LET raised[i \in Lower] ==
        IF i = 1 THEN lsf[1]
        ELSE LET r == raised[i - 1]
             IN IF lsf[i] - r < lsfRearrJ1
                THEN Truncated(lsf[i] + r + lsfRearrJ1, 2) ELSE lsf[i]
  IN [i \in Lower |->
        IF i < 5 /\ lsf[i + 1] - raised[i] < lsfRearrJ1
        THEN Truncated(lsf[i + 1] + raised[i] - lsfRearrJ1, 2) ELSE raised[i]]

LowerError(omega, t, past) ==
  WeightedError(omega, LowerRearranged(Predicted(t.L0, Combined(t), past)),
                Lower)

UpperError(omega, t, past) ==
  WeightedError(omega,
                Rearranged(Predicted(t.L0, Combined(t), past), lsfRearrJ1),
                Upper)

\* finalQuantizedLSFCost
FinalError(omega, t, past) ==
  WeightedError(omega, Spectrum(t, past), Coordinates)

\* The tuple one selector's sequential search ends with.
Greedy(omega, past, l0) ==
  LET l1 == searchL1(Target(l0, omega, past))
      l2 == First({<<LowerError(omega, Tuple(l0, l1, r, 0), past), r, r>> :
                     r \in DOMAIN CodebookL2})
      l3 == First({<<UpperError(omega, Tuple(l0, l1, l2, r), past), r, r>> :
                     r \in DOMAIN CodebookL3})
  IN Tuple(l0, l1, l2, l3)

Quantize(omega, past) ==
  First({<<FinalError(omega, t, past), t.L0, t>> :
           t \in {Greedy(omega, past, l0) : l0 \in {0, 1}}})

\* Mutant: the joint search forgets the second predictor.
QuantizeOnePredictor(omega, past, topK) ==
  LET candidates ==
        {[rank |-> e[1], t |-> Tuple(0, e[2], l2, l3)] :
           e \in searchL1TopK(Target(0, omega, past), topK),
           l2 \in DOMAIN CodebookL2, l3 \in DOMAIN CodebookL3}
  IN First({<<FinalError(omega, c.t, past),
              (c.rank * 32 + c.t.L2) * 32 + c.t.L3, c.t>> : c \in candidates})

QuantizeTopK(omega, past, topK) ==
  LET candidates ==
        UNION {{[rank |-> e[1], t |-> Tuple(l0, e[2], l2, l3)] :
                  e \in searchL1TopK(Target(l0, omega, past), topK),
                  l2 \in DOMAIN CodebookL2, l3 \in DOMAIN CodebookL3} :
               l0 \in {0, 1}}
  IN First({<<FinalError(omega, c.t, past),
              ((c.t.L0 * 16 + c.rank) * 32 + c.t.L2) * 32 + c.t.L3, c.t>> :
              c \in candidates})

Search(omega, past) ==
  IF breadth = 0 THEN Quantize(omega, past)
                 ELSE QuantizeTopK(omega, past, breadth)

-----------------------------------------------------------------------------
Silent == <<Zero, Zero>>

LspInit ==
  /\ breadth \in Breadths
  /\ lspOld = ColdSpectrum
  /\ freqPrev = InitFreqPrev
  /\ scored = Zero
  /\ lspDec = ColdDecoder /\ aHat = Silent
  /\ wire = <<>>
  /\ dec = ColdDecoder /\ heard = Silent
  /\ sent = ColdDecoder
  /\ good = 6 /\ gone = 0 /\ lspUpsets = 0

\* An event after which the two sides need not agree any more.
SetApart ==
  /\ lspUpsets < LspMaxUpsets
  /\ lspUpsets' = lspUpsets + 1
  /\ good' = 0

-----------------------------------------------------------------------------
(* The Encoder: lpcStep.                                                   *)

\* Mutant: the residual is committed before it is rearranged.
CommitUnspaced(t) ==
  /\ freqPrev' = Shifted(freqPrev, Combined(t))
  /\ scored' = Spectrum(t, freqPrev)

\* commitPredictorMemory of the residual the chosen tuple stands for.
CommitResidual(t) ==
  /\ freqPrev' = Shifted(freqPrev, Residual(t))
  /\ scored' = Spectrum(t, freqPrev)

\* Quantise omega, send the tuple and decode it as the receiver will.
EncodeSpectrum(omega) ==
  \E t \in {Search(omega, freqPrev)} :
     /\ wire = <<>>
     /\ CommitResidual(t)
     /\ lspDec' \in {Decode(lspDec, t)}
     /\ aHat' = Filters(lspDec, lspDec')
     /\ wire' = <<t>>
     /\ sent' = lspDec
     /\ UNCHANGED <<breadth, decoderSide, good, gone, lspUpsets>>

EncodeFrame ==
  \E omega \in Spectra : lspOld' = omega /\ EncodeSpectrum(omega)

\* LP analysis gave a filter without ten line spectra: the last ones are
\* quantised again.
ReuseSpectrum == EncodeSpectrum(lspOld) /\ UNCHANGED lspOld

\* The other side being cold as well, the two agree at once.
LspRestart(otherIsCold) ==
  IF otherIsCold THEN good' = 6 /\ UNCHANGED lspUpsets ELSE SetApart

\* Mutant: Reset forgets the Encoder's lsp.Decoder.
ResetLspEncoderHalf ==
  /\ wire = <<>>
  /\ lspOld' = ColdSpectrum
  /\ freqPrev' = InitFreqPrev
  /\ scored' = Zero /\ aHat' = Silent
  /\ LspRestart(dec = ColdDecoder)
  /\ UNCHANGED <<breadth, wire, lspDec, decoderSide, sent, gone>>

ResetLspEncoder ==
  /\ wire = <<>>
  /\ lspOld' = ColdSpectrum
  /\ freqPrev' = InitFreqPrev
  /\ scored' = Zero
  /\ lspDec' = ColdDecoder /\ aHat' = Silent
  /\ LspRestart(dec = ColdDecoder)
  /\ UNCHANGED <<breadth, wire, decoderSide, sent, gone>>

-----------------------------------------------------------------------------
(* The link and the receiver, whatever decode path it takes.               *)

\* No field of a tuple is protected: a bit error makes it another tuple, any one
\* of those that differ in one field.
Damaged(t) ==
  {u \in Tuples : Cardinality({f \in DOMAIN t : u[f] # t[f]}) = 1}

Receive ==
  /\ wire # <<>>
  /\ \E t \in {wire[1]} \cup Damaged(wire[1]) :
       /\ dec' \in {Decode(dec, t)}
       /\ heard' = Filters(dec, dec')
       /\ IF t = wire[1] THEN /\ good' = Smaller(good + 1, 6)
                              /\ UNCHANGED lspUpsets
                         ELSE SetApart
  /\ gone' = 0
  /\ wire' = <<>>
  /\ UNCHANGED encoderSide

\* The frame never arrives and nobody tells the Decoder.
LoseTuple ==
  /\ wire # <<>>
  /\ wire' = <<>>
  /\ SetApart
  /\ UNCHANGED <<encoderSide, decoderSide, gone>>

\* The Decoder is told that a frame is missing.
Erase ==
  /\ wire # <<>>
  /\ gone < LspLongLoss
  /\ dec' = DecodeErasure(dec)
  /\ heard' = Filters(dec, dec')
  /\ IF gone = 0 THEN SetApart ELSE good' = 0 /\ UNCHANGED lspUpsets
  /\ gone' = gone + 1
  /\ wire' = <<>>
  /\ UNCHANGED encoderSide

ResetLspDecoder ==
  /\ wire = <<>>
  /\ dec' = ColdDecoder /\ heard' = Silent
  /\ gone' = 0
  /\ LspRestart(lspDec = ColdDecoder)
  /\ UNCHANGED <<encoderSide, wire>>

-----------------------------------------------------------------------------
LspNext ==
  \/ EncodeFrame \/ ReuseSpectrum \/ ResetLspEncoder
  \/ Receive \/ LoseTuple \/ Erase \/ ResetLspDecoder

LspSpec == LspInit /\ [][LspNext]_lspVars
-----------------------------------------------------------------------------
(* Properties.                                                             *)

\* The distances of the rows of the first stage, <<high, low>>, without wraparound.
FirstStageDistances(l0, omega, past) ==
  LET target == Target(l0, omega, past)
  IN [row \in DOMAIN CodebookL1 |->
        WideSquares(Vector([i \in Coordinates |-> target[i] - CodebookL1[row][i]]))]

\* The quantiser's residuals are those of the lsp.Decoder the Encoder runs beside
\* it, and the spectrum the search rated best is the one that decoder made of
\* the tuple: what was scored is what is heard, edges and gaps included.
EncoderCopiesAgree ==
  /\ freqPrev = PastResiduals(lspDec)
  /\ lspDec.initialized => scored = lspDec.prevLSF

\* The receiver catches up with d after so many intact frames in a row, whatever
\* was damaged, lost, concealed or reset before: four make the residuals equal,
\* a fifth the spectrum the next frame is interpolated from, and from the sixth
\* on both synthesise with the same filters.  A stream with no upset starts as
\* if it had had six.
CaughtUp(d) ==
  /\ good >= 4 => PastResiduals(dec) = PastResiduals(d)
  /\ good >= 5 => dec = d

LspResyncs ==
  wire = <<>> => CaughtUp(lspDec) /\ (good >= 6 => heard = aHat)

\* The spectrum a decoder keeps, and may repeat through a loss of any length, is
\* one a stable filter can be made of: inside the edges, in order, and with the
\* least gap, whatever the tuple and the residuals before it, invented ones
\* included.
StableSpectrum(lsf) ==
  /\ lsf[1] >= lsfMinEdge /\ lsf[10] <= lsfMaxEdge
  /\ \A i \in 2..10 : lsf[i] - lsf[i - 1] >= lsfMinGap

SpectrumIsStable ==
  \A d \in {lspDec, dec} : d.initialized => StableSpectrum(d.prevLSF)

\* A concealed frame leaves behind a residual that stands for the frame repeated:
\* with it in the place of a received one, the predictor gives that spectrum
\* again, to within five steps of rounding.
ErasureRepeatsSpectrum ==
  [][gone' > gone =>
       LET again == Predicted(dec.lastSelector, dec'.past[1],
                              PastResiduals(dec))
       IN \A i \in Coordinates :
            again[i] - dec'.prevLSF[i] \in -5..3]_lspVars

\* The row a frame is sent with is the nearest to what its predictor leaves to be
\* coded: no distance the first stage compares leaves 32 bits.
FirstStageIsNearest ==
  wire # <<>> /\ breadth = 0 =>
    LET t == wire[1]
        distance == FirstStageDistances(t.L0, lspOld, PastResiduals(sent))
    IN \A row \in DOMAIN CodebookL1 :
         \/ distance[t.L1][1] < distance[row][1]
         \/ /\ distance[t.L1][1] = distance[row][1]
            /\ distance[t.L1][2] <= distance[row][2]

FirstStageFits(omega) ==
  \A l0 \in {0, 1}, row \in DOMAIN CodebookL1 :
    FirstStageDistances(l0, omega, freqPrev)[row][1] < 32768

\* Unless a distance left 32 bits, the joint search of the second stage never ends
\* with a tuple that is worse than the one of the search it replaces, nor a
\* broader one with a worse tuple than a narrower.  Checked in the states whose
\* history has no upset, in which the Encoder does all it can do.
BroaderSearchIsNoWorse ==
  wire # <<>> /\ lspUpsets = 0 =>
    \A omega \in Spectra :
      FirstStageFits(omega) =>
        LET error(t) == FinalError(omega, t, freqPrev)
            joint == error(QuantizeTopK(omega, freqPrev, 1))
        IN /\ joint <= error(Quantize(omega, freqPrev))
           /\ error(QuantizeTopK(omega, freqPrev, 2)) <= joint
=============================================================================
