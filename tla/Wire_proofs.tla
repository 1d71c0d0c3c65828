-------------------------- MODULE Wire_proofs --------------------------
(***************************************************************************)
(* Proofs about what the Encoder's words go through: a frame's delays on a *)
(* link that damages bits (PitchLink) and whole frames in a G.192 file     *)
(* that is damaged, erased and cut (SerialFile).                           *)
(*                                                                         *)
(* PitchLink, for every set of open-loop estimates, every reach of the     *)
(* wide search and every combination of searches: the properties speak of  *)
(* the word after the link had its way with it; the invariant that carries *)
(* them says what the Encoder may have chosen, that the word encodes it,   *)
(* and how the arrived word differs from it.                               *)
(*                                                                         *)
(* SerialFile, for every layout of fields of 1 to 16 bits, every set of    *)
(* frames that fit it and any number of frames and faults: the invariant   *)
(* says where the words of a frame no fault touched are, and where the     *)
(* reader is when no frame before told it of the end of the file.          *)
(***************************************************************************)
EXTENDS PitchLink, SerialFile, Induction
LOCAL INSTANCE SequencesExt

\* The second delays P2 can say after the first delay t1.
Representable2(d, t1) ==
  /\ d \in Delays
  /\ 3 * (d.int - Subframe2Min(t1)) + d.frac + 2 \in 0..31

First(d) == d \in Delays /\ Representable1(d)

Sent == [p1 |-> EncodeP1(chosen1), p0 |-> Parity(EncodeP1(chosen1)),
         p2 |-> EncodeP2(chosen2, Subframe2Min(chosen1.int))]

\* What the link made of the word sent.
Altered ==
  \/ link \in {"clean", "lost"} /\ word = Sent
  \/ /\ link = "protected"
     /\ \/ \E b \in 2..7 : word = [Sent EXCEPT !.p1 = Flip(@, b)]
        \/ word = [Sent EXCEPT !.p0 = 1 - @]
  \/ /\ link = "low"
     /\ \E b \in 0..1 : word = [Sent EXCEPT !.p1 = Flip(@, b)]
  \/ /\ link = "p2"
     /\ \E b \in 0..4 : word = [Sent EXCEPT !.p2 = Flip(@, b)]

\* The inductive invariant.
FrameInv ==
  /\ stage \in Searches => First(chosen1) /\ word = [Sent EXCEPT !.p2 = 0]
  /\ stage \in {"sent", "arrived"} =>
       First(chosen1) /\ Representable2(chosen2, chosen1.int)
  /\ stage = "sent" => word = Sent
  /\ stage = "arrived" => Altered

MemoryInv == havePrevPitchDelay => prevPitchDelay \in Lags

LinkInv == TypeOK /\ FrameInv /\ MemoryInv

-----------------------------------------------------------------------------
(* The codewords.                                                          *)

\* Every delay the Encoder may put in P1 comes back as it was.
LEMMA P1RoundTrip ==
  ASSUME NEW d \in Delays, Representable1(d)
  PROVE  /\ EncodeP1(d) \in 0..255
         /\ DecodeDelaySubframe1(EncodeP1(d)) = d
<1> PICK t \in Int, f \in {-1, 0, 1} : d = Delay(t, f)
  BY DEF Delays, Lags, Fracs, Delay, PitchMinInt, PitchMaxInt
<1>1. d.int = t /\ d.frac = f
  BY DEF Delay
<1>2. CASE t < 85 \/ (t = 85 /\ f <= 0)
  <2>1. 19 <= t /\ t <= 85 /\ (t = 19 => f = 1) /\ (t = 85 => f <= 0)
    BY <1>1, <1>2 DEF Representable1, PitchMaxInt
  <2> DEFINE p == 3 * (t - 19) + f - 1
  <2>2. p \in 0..197
    BY <2>1
  <2>3. EncodeP1(d) = p
    BY <1>1, <1>2, <2>2 DEF EncodeP1
  <2>4. CASE p < 197
    <3>1. (p + 2) \div 3 = t - 19 /\ (p + 2) % 3 = f + 1
      BY <2>1
    <3>2. DecodeDelaySubframe1(p) = Delay(19 + (p + 2) \div 3, ((p + 2) % 3) - 1)
      BY <2>4 DEF DecodeDelaySubframe1
    <3>3. 19 + (t - 19) = t /\ (f + 1) - 1 = f
      OBVIOUS
    <3> QED
      BY <2>2, <2>3, <3>1, <3>2, <3>3
  <2>5. CASE p = 197
    <3>1. t = 85 /\ f = 0
      BY <2>1, <2>5
    <3>2. DecodeDelaySubframe1(197) = Delay(85, 0)
      BY DEF DecodeDelaySubframe1
    <3> QED
      BY <2>2, <2>3, <2>5, <3>1, <3>2
  <2> QED
    BY <2>2, <2>4, <2>5
<1>3. CASE ~(t < 85 \/ (t = 85 /\ f <= 0))
  <2>1. t \in 86..143 /\ f = 0
    BY <1>1, <1>3 DEF Representable1, PitchMaxInt
  <2>2. EncodeP1(d) = t + 112
    BY <1>1, <1>3, <2>1 DEF EncodeP1
  <2>3. DecodeDelaySubframe1(t + 112) = Delay(t, 0)
    <3>1. (t + 112) - 112 = t /\ ~(t + 112 < 197)
      BY <2>1
    <3> QED
      BY <3>1 DEF DecodeDelaySubframe1
  <2> QED
    BY <2>1, <2>2, <2>3
<1> QED
  BY <1>2, <1>3

\* The window of the second subframe is cut at both ends of the range.
LEMMA Subframe2MinRange ==
  ASSUME NEW t \in Int
  PROVE  Subframe2Min(t) \in 20..134
BY DEF Subframe2Min, Clamp, PitchMinInt, PitchMaxInt

\* Every delay the Encoder may put in P2 comes back as it was.
LEMMA P2RoundTrip ==
  ASSUME NEW t1 \in Int, NEW d, Representable2(d, t1)
  PROVE  /\ EncodeP2(d, Subframe2Min(t1)) \in 0..31
         /\ DecodeDelaySubframe2(EncodeP2(d, Subframe2Min(t1)), t1) = d
         /\ EncodeP2(d, Subframe2Min(t1))
              = 3 * (d.int - Subframe2Min(t1)) + d.frac + 2
<1> DEFINE t == d.int
           f == d.frac
           m == Subframe2Min(t1)
           p == 3 * (t - m) + f + 2
<1>1. t \in Int /\ f \in {-1, 0, 1} /\ d = Delay(t, f)
  BY DEF Representable2, Delays, Lags, Fracs, Delay, PitchMinInt, PitchMaxInt
<1>2. m \in Int
  BY Subframe2MinRange
<1>3. p \in 0..31
  BY DEF Representable2
<1> HIDE DEF m
<1>4. (p % 256) % 32 = p
  BY <1>3
<1>5. (p + 2) \div 3 = t - m + 1 /\ (p + 2) % 3 = f + 1
  BY <1>1, <1>2
<1>6. EncodeP2(d, m) = p
  BY <1>4 DEF EncodeP2
<1>7. DecodeDelaySubframe2(p, t1) = Delay(m + (p + 2) \div 3 - 1, ((p + 2) % 3) - 1)
  BY DEF DecodeDelaySubframe2, m
<1>8. DecodeDelaySubframe2(p, t1) = Delay(t, f)
  BY <1>1, <1>2, <1>5, <1>7
<1> QED
  BY <1>1, <1>3, <1>6, <1>8 DEF m

\* What any P1 decodes to: 19 comes with the third above it alone.
LEMMA P1Range ==
  ASSUME NEW p \in 0..255
  PROVE  /\ DecodeDelaySubframe1(p) \in Delays
         /\ DecodeDelaySubframe1(p).int \in 19..143
<1>1. CASE p < 197
  <2>1. (p + 2) \div 3 \in 0..66 /\ (p + 2) % 3 \in 0..2
    BY <1>1
  <2> QED
    BY <1>1, <2>1 DEF DecodeDelaySubframe1, Delay, Delays, Lags, Fracs,
                      PitchMinInt, PitchMaxInt
<1>2. CASE p >= 197
  BY <1>2 DEF DecodeDelaySubframe1, Delay, Delays, Lags, Fracs, PitchMinInt,
              PitchMaxInt
<1> QED
  BY <1>1, <1>2

\* What any P2 decodes to: 144 comes with the third below it alone.
LEMMA P2Range ==
  ASSUME NEW p \in 0..31, NEW t1 \in Int
  PROVE  /\ DecodeDelaySubframe2(p, t1) \in Delays
         /\ DecodeDelaySubframe2(p, t1).int = 144
              => DecodeDelaySubframe2(p, t1).frac = -1
<1> DEFINE m == Subframe2Min(t1)
           q == (p + 2) \div 3
           r == (p + 2) % 3
<1>1. m \in 20..134
  BY Subframe2MinRange
<1>2. q \in 0..11 /\ r \in 0..2 /\ (q = 11 => r = 0)
  OBVIOUS
<1>3. DecodeDelaySubframe2(p, t1) = Delay(m + q - 1, r - 1)
  BY DEF DecodeDelaySubframe2
<1> HIDE DEF m, q, r
<1>4. m + q - 1 \in 19..144 /\ r - 1 \in Fracs /\ (m + q - 1 = 144 => r - 1 = -1)
  BY <1>1, <1>2 DEF Fracs
<1> QED
  BY <1>3, <1>4 DEF Delay, Delays, Lags, PitchMinInt, PitchMaxInt

\* The filter stays inside what it has for every such delay.
LEMMA LagsRead ==
  ASSUME NEW d \in Delays, d.int = 144 => d.frac # 1
  PROVE  ReadsThePast(d)
<1>1. d.int \in 19..144 /\ d.frac \in Fracs
  BY DEF Delays, Lags, PitchMinInt, PitchMaxInt
<1>2. Centre(d) \in 19..144 /\ Centre(d) >= d.int
  BY <1>1 DEF Centre, Fracs
<1> QED
  BY <1>1, <1>2 DEF ReadsThePast, Recursive, PastExcLen, Linter, SubframeLen,
                    PitchMaxInt
-----------------------------------------------------------------------------
(* Bits.                                                                   *)

\* The powers of two the bits of P1 stand for.
LEMMA Powers ==
  /\ Power[0] = 1 /\ Power[1] = 2 /\ Power[2] = 4 /\ Power[3] = 8
  /\ Power[4] = 16 /\ Power[5] = 32 /\ Power[6] = 64 /\ Power[7] = 128
BY DEF Power

\* A flipped bit leaves a field within its width.
LEMMA FlipRange ==
  /\ \A x \in 0..255, b \in 0..7 : Flip(x, b) \in 0..255
  /\ \A x \in 0..31, b \in 0..4 : Flip(x, b) \in 0..31
<1>1. ASSUME NEW x \in 0..255, NEW b \in 0..7
      PROVE  Flip(x, b) \in 0..255
  <2>0. CASE b = 0
    BY <2>0, Powers DEF Flip, Bit
  <2>1. CASE b = 1
    BY <2>1, Powers DEF Flip, Bit
  <2>2. CASE b = 2
    BY <2>2, Powers DEF Flip, Bit
  <2>3. CASE b = 3
    BY <2>3, Powers DEF Flip, Bit
  <2>4. CASE b = 4
    BY <2>4, Powers DEF Flip, Bit
  <2>5. CASE b = 5
    BY <2>5, Powers DEF Flip, Bit
  <2>6. CASE b = 6
    BY <2>6, Powers DEF Flip, Bit
  <2>7. CASE b = 7
    BY <2>7, Powers DEF Flip, Bit
  <2> QED
    BY <2>0, <2>1, <2>2, <2>3, <2>4, <2>5, <2>6, <2>7
<1>2. ASSUME NEW x \in 0..31, NEW b \in 0..4
      PROVE  Flip(x, b) \in 0..31
  <2>0. CASE b = 0
    BY <2>0, Powers DEF Flip, Bit
  <2>1. CASE b = 1
    BY <2>1, Powers DEF Flip, Bit
  <2>2. CASE b = 2
    BY <2>2, Powers DEF Flip, Bit
  <2>3. CASE b = 3
    BY <2>3, Powers DEF Flip, Bit
  <2>4. CASE b = 4
    BY <2>4, Powers DEF Flip, Bit
  <2> QED
    BY <2>0, <2>1, <2>2, <2>3, <2>4
<1> QED
  BY <1>1, <1>2

\* The bits the parity does not cover move P1 by two at most.
LEMMA FlipLow ==
  ASSUME NEW x \in 0..255, NEW b \in 0..1
  PROVE  /\ Flip(x, b) - x \in -2..2
         /\ Parity(Flip(x, b)) = Parity(x)
<1>1. CASE b = 0
  BY SMTT(60), <1>1, Powers DEF Flip, Bit, Parity
<1>2. CASE b = 1
  BY SMTT(60), <1>2, Powers DEF Flip, Bit, Parity
<1> QED
  BY <1>1, <1>2

\* The lowest bit covered apart from the others, which a division by 8 keeps.
Upper(q) ==
  (q % 2) + ((q \div 2) % 2) + ((q \div 4) % 2) + ((q \div 8) % 2)
    + ((q \div 16) % 2)

\* The parity by the bits it covers.
LEMMA ParityOf ==
  /\ \A x \in 0..255 : Parity(x) = (1 + ((x \div 4) % 2) + Upper(x \div 8)) % 2
  /\ \A x \in 0..255 : Upper(x \div 8) \in Nat
<1>1. ASSUME NEW x \in 0..255
      PROVE  /\ Parity(x) = (1 + ((x \div 4) % 2) + Upper(x \div 8)) % 2
             /\ Upper(x \div 8) \in Nat
  <2>1. /\ x \div 16 = (x \div 8) \div 2 /\ x \div 32 = (x \div 8) \div 4
        /\ x \div 64 = (x \div 8) \div 8 /\ x \div 128 = (x \div 8) \div 16
    OBVIOUS
  <2>2. Parity(x) = (1 + ((x \div 4) % 2) + ((x \div 8) % 2) + ((x \div 16) % 2)
                       + ((x \div 32) % 2) + ((x \div 64) % 2)
                       + ((x \div 128) % 2)) % 2
    BY Powers DEF Parity, Bit
  <2>3. x \div 8 \in Nat
    OBVIOUS
  <2> QED
    BY <2>1, <2>2, <2>3 DEF Upper
<1> QED
  BY <1>1

\* Each bit it covers inverts it.
LEMMA FlipHigh ==
  ASSUME NEW x \in 0..255, NEW b \in 2..7
  PROVE  Parity(Flip(x, b)) # Parity(x)
<1>2. CASE b = 2
  <2>1. Bit(x, 2) = (x \div 4) % 2 /\ (x \div 4) % 2 \in 0..1
    BY Powers DEF Bit
  <2>2. CASE (x \div 4) % 2 = 1
    <3>1. Flip(x, b) = x - 4
      BY <1>2, <2>1, <2>2, Powers DEF Flip
    <3>2. x - 4 \in 0..255
      BY <2>2
    <3>3. ((x - 4) \div 4) % 2 = 0
      BY <2>2
    <3>4. (x - 4) \div 8 = x \div 8
      BY <2>2
    <3>5. Parity(x) = (1 + 1 + Upper(x \div 8)) % 2
      <4>1. Parity(x) = (1 + ((x \div 4) % 2) + Upper(x \div 8)) % 2
        BY ParityOf
      <4> QED
        BY <2>2, <4>1, Zenon
    <3>6. Parity(x - 4) = (1 + 0 + Upper(x \div 8)) % 2
      <4> DEFINE y == x - 4
      <4>1. Parity(y) = (1 + ((y \div 4) % 2) + Upper(y \div 8)) % 2
        BY <3>2, ParityOf, Zenon
      <4> QED
        BY <3>3, <3>4, <4>1, Zenon
    <3>7. \A n \in Nat : (1 + 1 + n) % 2 # (1 + 0 + n) % 2
      OBVIOUS
    <3>8. Upper(x \div 8) \in Nat
      BY ParityOf
    <3> QED
      BY <3>1, <3>5, <3>6, <3>7, <3>8, Zenon
  <2>3. CASE (x \div 4) % 2 = 0
    <3>1. Flip(x, b) = x + 4
      BY <1>2, <2>1, <2>3, Powers DEF Flip
    <3>2. x + 4 \in 0..255
      BY <2>3
    <3>3. ((x + 4) \div 4) % 2 = 1
      BY <2>3
    <3>4. (x + 4) \div 8 = x \div 8
      BY <2>3
    <3>5. Parity(x) = (1 + 0 + Upper(x \div 8)) % 2
      <4>1. Parity(x) = (1 + ((x \div 4) % 2) + Upper(x \div 8)) % 2
        BY ParityOf
      <4> QED
        BY <2>3, <4>1, Zenon
    <3>6. Parity(x + 4) = (1 + 1 + Upper(x \div 8)) % 2
      <4> DEFINE y == x + 4
      <4>1. Parity(y) = (1 + ((y \div 4) % 2) + Upper(y \div 8)) % 2
        BY <3>2, ParityOf, Zenon
      <4> QED
        BY <3>3, <3>4, <4>1, Zenon
    <3>7. \A n \in Nat : (1 + 0 + n) % 2 # (1 + 1 + n) % 2
      OBVIOUS
    <3>8. Upper(x \div 8) \in Nat
      BY ParityOf
    <3> QED
      BY <3>1, <3>5, <3>6, <3>7, <3>8, Zenon
  <2> QED
    BY <2>1, <2>2, <2>3
<1>3. CASE b = 3
  BY SMTT(60), <1>3, Powers DEF Flip, Bit, Parity
<1>4. CASE b = 4
  BY SMTT(60), <1>4, Powers DEF Flip, Bit, Parity
<1>5. CASE b = 5
  BY SMTT(60), <1>5, Powers DEF Flip, Bit, Parity
<1>6. CASE b = 6
  BY SMTT(60), <1>6, Powers DEF Flip, Bit, Parity
<1>7. CASE b = 7
  BY SMTT(60), <1>7, Powers DEF Flip, Bit, Parity
<1> QED
  BY <1>2, <1>3, <1>4, <1>5, <1>6, <1>7
-----------------------------------------------------------------------------
(* What the searches may end with.                                         *)

\* No window leaves the range of delays.
LEMMA WindowRange ==
  ASSUME NEW top \in Int
  PROVE  /\ Subframe1Window(top) \subseteq 20..143
         /\ WideWindow(top, HalfWindow) \subseteq 20..143
         /\ Subframe2Window(top) \subseteq 20..143
<1>1. Subframe1Window(top) \subseteq 20..143
  BY DEF Subframe1Window, Clamp, PitchMinInt, PitchMaxInt
<1>2. WideWindow(top, HalfWindow) \subseteq 20..143
  BY <1>1 DEF WideWindow, PitchMinInt, PitchMaxInt
<1>3. Subframe2Window(top) \subseteq 20..143
  BY SMTT(60), Subframe2MinRange DEF Subframe2Window
<1> QED
  BY <1>1, <1>2, <1>3

\* Refining a lag of the first window gives a delay P1 can say.
LEMMA RefinedFirst ==
  ASSUME NEW k \in 20..143, NEW d,
         d \in RefineFractionSubframe1(k) \/ d \in RefinePitchNormalized(k, 0)
  PROVE  First(d)
<1> USE DEF First, Representable1, Delays, Lags, Fracs, AllFracs, Delay,
            PitchMinInt, PitchMaxInt
<1>1. CASE d \in RefineFractionSubframe1(k)
  <2>1. CASE k >= 85
    BY <1>1, <2>1 DEF RefineFractionSubframe1
  <2>2. CASE k < 85
    <3>1. \/ d \in AllFracs(k)
          \/ k = 20 /\ d = Delay(19, 1)
          \/ k = 84 /\ d = Delay(85, -1)
      BY <1>1, <2>2 DEF RefineFractionSubframe1
    <3> QED
      BY <2>2, <3>1
  <2> QED
    BY <2>1, <2>2
<1>2. CASE d \in RefinePitchNormalized(k, 0)
  <2>1. (k < 85 /\ d \in AllFracs(k)) \/ (k >= 85 /\ d = Delay(k, 0))
    BY <1>2 DEF RefinePitchNormalized
  <2> QED
    BY <2>1
<1> QED
  BY <1>1, <1>2

\* So do the candidates of the clip repair.
LEMMA RepairedFirst ==
  ASSUME NEW k \in Int, NEW d \in QualityPitchClipCandidates1(k)
  PROVE  First(d)
<1>1. PICK n \in Neighbours(k) : /\ Representable1(n)
                                 /\ d = DecodeDelaySubframe1(EncodeP1(n))
  BY DEF QualityPitchClipCandidates1
<1>2. n \in Delays
  BY <1>1 DEF Neighbours, Representable1, Delays, Lags, Fracs, Delay,
              PitchMinInt, PitchMaxInt
<1> QED
  BY <1>1, <1>2, P1RoundTrip DEF First

\* Whatever the search, the first delay is one P1 can say.
LEMMA SearchesFirst ==
  ASSUME NEW search \in Searches, NEW top \in Tops,
         NEW d \in Subframe1Delays(search, top)
  PROVE  First(d)
<1>1. top \in Int /\ search \in {"core", "repair", "wide"}
  BY PitchAssumption DEF PitchMinInt, PitchMaxInt
<1>2. CASE search = "core"
  <2>1. PICK k \in Subframe1Window(top) : d \in RefineFractionSubframe1(k)
    BY <1>2 DEF Subframe1Delays
  <2> QED
    BY <1>1, <2>1, WindowRange, RefinedFirst
<1>3. CASE search = "repair"
  <2>1. PICK k \in Subframe1Window(top) :
          \/ d \in RefineFractionSubframe1(k)
          \/ \E e \in RefineFractionSubframe1(k) :
               d \in QualityPitchClipCandidates1(e.int)
    BY <1>3 DEF Subframe1Delays
  <2>2. k \in 20..143
    BY <1>1, WindowRange
  <2>3. ASSUME NEW e \in RefineFractionSubframe1(k)
        PROVE  e.int \in Int
    <3>1. First(e)
      BY <2>2, RefinedFirst
    <3> QED
      BY <3>1 DEF First, Delays, Lags, PitchMinInt, PitchMaxInt
  <2> QED
    BY <2>1, <2>2, <2>3, RefinedFirst, RepairedFirst
<1>4. CASE search = "wide"
  <2>1. PICK k \in WideWindow(top, HalfWindow) :
          d \in RefinePitchNormalized(k, 0) \/ d \in QualityPitchClipCandidates1(k)
    BY <1>4 DEF Subframe1Delays
  <2>2. k \in 20..143
    BY <1>1, WindowRange
  <2> QED
    BY <2>1, <2>2, RefinedFirst, RepairedFirst
<1> QED
  BY <1>1, <1>2, <1>3, <1>4

\* Refining a lag of the second window gives a delay P2 can say.
LEMMA RefinedSecond ==
  ASSUME NEW t1 \in Int, NEW k \in Subframe2Window(t1), NEW d,
         d \in RefineFractionSubframe2(k, t1) \/ d \in RefinePitchNormalized(k, 1)
  PROVE  Representable2(d, t1)
<1> DEFINE m == Subframe2Min(t1)
<1>1. m \in 20..134 /\ k \in m..(m + 9)
  BY Subframe2MinRange DEF Subframe2Window
<1>2. \/ d \in AllFracs(k)
      \/ k = m /\ d = Delay(m - 1, 1)
      \/ k = m + 9 /\ d = Delay(m + 10, -1)
  BY DEF RefineFractionSubframe2, RefinePitchNormalized
<1> HIDE DEF m
<1>3. d \in Delays /\ 3 * (d.int - m) + d.frac + 2 \in 0..31
  BY <1>1, <1>2 DEF AllFracs, Delays, Lags, Fracs, Delay, PitchMinInt, PitchMaxInt
<1> QED
  BY <1>3 DEF Representable2, m

\* So do the candidates of the clip repair.
LEMMA RepairedSecond ==
  ASSUME NEW t1 \in Int, NEW k \in Int,
         NEW d \in QualityPitchClipCandidates2(k, t1)
  PROVE  Representable2(d, t1)
<1> DEFINE m == Subframe2Min(t1)
           P2(n) == 3 * (n.int - m) + n.frac + 2
<1>1. m \in 20..134
  BY Subframe2MinRange
<1>2. PICK n \in Neighbours(k) :
        P2(n) \in 0..31 /\ d = DecodeDelaySubframe2(P2(n), t1)
  BY DEF QualityPitchClipCandidates2
<1>3. PICK p \in 0..31 : p = P2(n)
  BY <1>2
<1> DEFINE q == (p + 2) \div 3
           r == (p + 2) % 3
<1>4. q \in 0..11 /\ r \in 0..2 /\ p + 2 = 3 * q + r
  OBVIOUS
<1>5. d = Delay(m + q - 1, r - 1) /\ d \in Delays
  BY <1>2, <1>3, P2Range DEF DecodeDelaySubframe2
<1> HIDE DEF m, q, r
<1>6. d.int = m + q - 1 /\ d.frac = r - 1
  BY <1>5 DEF Delay
<1>7. 3 * (d.int - m) + d.frac + 2 = p
  BY <1>1, <1>4, <1>6
<1> QED
  BY <1>5, <1>7 DEF Representable2, m

\* Whatever the search, the second delay is one P2 can say after the first.
LEMMA SearchesSecond ==
  ASSUME NEW search \in Searches, NEW t1 \in Int,
         NEW d \in Subframe2Delays(search, t1)
  PROVE  Representable2(d, t1)
<1>1. search \in {"core", "repair", "wide"}
  BY PitchAssumption
<1>2. Subframe2Window(t1) \subseteq Int
  BY WindowRange
<1>3. CASE search = "core"
  BY <1>3, RefinedSecond DEF Subframe2Delays
<1>4. CASE search = "repair"
  <2>1. PICK k \in Subframe2Window(t1) :
          \/ d \in RefineFractionSubframe2(k, t1)
          \/ \E e \in RefineFractionSubframe2(k, t1) :
               d \in QualityPitchClipCandidates2(e.int, t1)
    BY <1>4 DEF Subframe2Delays
  <2>2. ASSUME NEW e \in RefineFractionSubframe2(k, t1)
        PROVE  e.int \in Int
    <3>1. Representable2(e, t1)
      BY RefinedSecond
    <3> QED
      BY <3>1 DEF Representable2, Delays, Lags, PitchMinInt, PitchMaxInt
  <2> QED
    BY <2>1, <2>2, RefinedSecond, RepairedSecond
<1>5. CASE search = "wide"
  BY <1>2, <1>5, RefinedSecond, RepairedSecond DEF Subframe2Delays
<1> QED
  BY <1>1, <1>3, <1>4, <1>5
-----------------------------------------------------------------------------
(* The invariant.                                                          *)

\* Nothing was sent yet.
LEMMA InitInv == Init => LinkInv
<1> SUFFICES ASSUME Init
             PROVE  LinkInv
  OBVIOUS
<1>1. NoWord \in Words
  BY DEF NoWord, Words
<1>2. TypeOK
  BY <1>1 DEF Init, TypeOK
<1>3. stage \notin Searches \cup {"sent", "arrived"}
  BY PitchAssumption DEF Init
<1> QED
  BY <1>2, <1>3 DEF Init, LinkInv, FrameInv, MemoryInv

\* The word sent is one, and a link keeps it one.
LEMMA SentIsAWord ==
  ASSUME First(chosen1), Representable2(chosen2, chosen1.int)
  PROVE  Sent \in Words
<1>1. chosen1.int \in Int
  BY DEF First, Delays, Lags, PitchMinInt, PitchMaxInt
<1>2. \A p \in 0..255 : Parity(p) \in 0..1
  BY Powers DEF Parity, Bit
<1> QED
  BY <1>1, <1>2, P1RoundTrip, P2RoundTrip DEF First, Sent, Words

\* A bit error leaves a word.
LEMMA DamagedWord ==
  ASSUME NEW s \in Words
  PROVE  /\ \A b \in 2..7 : [s EXCEPT !.p1 = Flip(@, b)] \in Words
         /\ \A b \in 0..1 : [s EXCEPT !.p1 = Flip(@, b)] \in Words
         /\ \A b \in 0..4 : [s EXCEPT !.p2 = Flip(@, b)] \in Words
         /\ [s EXCEPT !.p0 = 1 - @] \in Words
<1>1. ASSUME NEW b \in 0..7
      PROVE  [s EXCEPT !.p1 = Flip(@, b)] \in Words
  <2>1. Flip(s.p1, b) \in 0..255
    <3>1. s.p1 \in 0..255
      BY DEF Words
    <3> QED
      BY ZenonT(60), <3>1, FlipRange
  <2> QED
    BY <2>1 DEF Words
<1>2. ASSUME NEW b \in 0..4
      PROVE  [s EXCEPT !.p2 = Flip(@, b)] \in Words
  <2>1. Flip(s.p2, b) \in 0..31
    BY FlipRange DEF Words
  <2> QED
    BY <2>1 DEF Words
<1>3. [s EXCEPT !.p0 = 1 - @] \in Words
  <2>1. 1 - s.p0 \in 0..1
    BY DEF Words
  <2> QED
    BY <2>1 DEF Words
<1>4. \A b : (b \in 2..7 => b \in 0..7) /\ (b \in 0..1 => b \in 0..7)
  OBVIOUS
<1> QED
  BY <1>1, <1>2, <1>3, <1>4, Zenon

\* Whatever the memory and the word, a delay the Decoder may use is in range.
LEMMA DecodedDelays ==
  ASSUME TypeOK, MemoryInv
  PROVE  /\ concealedPitchDelay \in 19..144
         /\ \A d \in {StrictDelay1, StrictDelay2, ErasedDelay1, ErasedDelay2,
                     ListeningDelay1, ListeningDelay2} :
              d \in Delays /\ (d.int = 144 => d.frac # 1)
<1>1. concealedPitchDelay \in 19..144
  BY DEF MemoryInv, concealedPitchDelay, initialErasurePitchDelay, Lags,
         PitchMinInt, PitchMaxInt
<1> DEFINE Fine(d) == d \in Delays /\ (d.int = 144 => d.frac # 1)
<1>2. \A t \in 19..144 : Fine(Delay(t, 0))
  BY DEF Delay, Delays, Lags, Fracs, PitchMinInt, PitchMaxInt
<1>3. word.p1 \in 0..255 /\ word.p2 \in 0..31
  BY DEF TypeOK, Words
<1>4. \A p \in 0..255 : Fine(DecodeDelaySubframe1(p))
  <2>1. ASSUME NEW p \in 0..255
        PROVE  Fine(DecodeDelaySubframe1(p))
    <3>1. DecodeDelaySubframe1(p) \in Delays
      BY P1Range
    <3>2. DecodeDelaySubframe1(p).int \in 19..143
      BY P1Range
    <3>3. DecodeDelaySubframe1(p).int # 144
      BY <3>2
    <3> QED
      BY <3>1, <3>3, Zenon
  <2> QED
    BY <2>1
<1>5. \A p \in 0..31, t \in Int : Fine(DecodeDelaySubframe2(p, t))
  <2>1. ASSUME NEW p \in 0..31, NEW t \in Int
        PROVE  Fine(DecodeDelaySubframe2(p, t))
    BY P2Range
  <2> QED
    BY <2>1
<1>6. \A d : Fine(d) => d.int \in Int
  BY DEF Delays, Lags, PitchMinInt, PitchMaxInt
<1>7. Fine(StrictDelay1) /\ Fine(ListeningDelay1)
  BY <1>1, <1>2, <1>3, <1>4 DEF StrictDelay1, ListeningDelay1
<1>8. Fine(StrictDelay2) /\ Fine(ListeningDelay2)
  <2> HIDE DEF Fine
  <2> QED
    BY <1>3, <1>5, <1>6, <1>7 DEF StrictDelay2, ListeningDelay2
<1>9. Fine(ErasedDelay1) /\ Fine(ErasedDelay2)
  <2>1. nextConcealedPitchDelay(concealedPitchDelay) \in 19..144
    BY <1>1 DEF nextConcealedPitchDelay, PitchMaxInt
  <2> QED
    BY <1>1, <1>2, <2>1 DEF ErasedDelay1, ErasedDelay2
<1> QED
  BY <1>1, <1>7, <1>8, <1>9

\* One step of the system.
LEMMA StepInv == LinkInv /\ [Next]_vars => LinkInv'
<1> SUFFICES ASSUME LinkInv, [Next]_vars
             PROVE  LinkInv'
  OBVIOUS
<1> USE DEF LinkInv
<1>1. ASSUME NEW search \in Searches, NEW top \in Tops, ClosedLoop1(search, top)
      PROVE  LinkInv'
  <2>1. PICK d \in Subframe1Delays(search, top) :
          /\ chosen1' = d
          /\ word' = [p1 |-> EncodeP1(d), p0 |-> Parity(EncodeP1(d)), p2 |-> 0]
    BY <1>1 DEF ClosedLoop1
  <2>2. First(d) /\ d \in Delays
    BY SearchesFirst DEF First
  <2>3. word' \in Words
    <3>1. EncodeP1(d) \in 0..255
      BY <2>2, P1RoundTrip DEF First
    <3>2. \A p \in 0..255 : Parity(p) \in 0..1
      BY Powers DEF Parity, Bit
    <3> QED
      BY <2>1, <3>1, <3>2 DEF Words
  <2>4. TypeOK'
    BY <1>1, <2>1, <2>2, <2>3 DEF ClosedLoop1, TypeOK, memory
  <2>5. search \notin {"sent", "arrived"}
    BY PitchAssumption
  <2>6. FrameInv'
    BY <1>1, <2>1, <2>2, <2>5 DEF ClosedLoop1, FrameInv, Sent
  <2> QED
    BY <1>1, <2>4, <2>6 DEF ClosedLoop1, MemoryInv, memory
<1>2. ASSUME ClosedLoop2
      PROVE  LinkInv'
  <2>1. PICK d \in Subframe2Delays(stage, chosen1.int) :
          /\ chosen2' = d
          /\ word' = [word EXCEPT !.p2 = EncodeP2(d, Subframe2Min(chosen1.int))]
    BY <1>2 DEF ClosedLoop2
  <2>2. First(chosen1) /\ word = [Sent EXCEPT !.p2 = 0]
    BY <1>2 DEF ClosedLoop2, FrameInv
  <2>3. chosen1.int \in Int
    BY <2>2 DEF First, Delays, Lags, PitchMinInt, PitchMaxInt
  <2>4. Representable2(d, chosen1.int) /\ d \in Delays
    BY <1>2, <2>3, SearchesSecond DEF ClosedLoop2, Representable2
  <2>5. word' = Sent'
    BY <1>2, <2>1, <2>2 DEF ClosedLoop2, Sent
  <2>6. First(chosen1)' /\ Representable2(chosen2, chosen1.int)'
    BY <1>2, <2>1, <2>2, <2>4 DEF ClosedLoop2
  <2>7. (Sent \in Words)'
    BY <2>6, SentIsAWord, PTL
  <2>8. TypeOK'
    BY <1>2, <2>1, <2>4, <2>5, <2>7 DEF ClosedLoop2, TypeOK, memory
  <2>9. FrameInv'
    BY <1>2, <2>5, <2>6, PitchAssumption DEF ClosedLoop2, FrameInv
  <2> QED
    BY <1>2, <2>8, <2>9 DEF ClosedLoop2, MemoryInv, memory
<1>3. ASSUME Link
      PROVE  LinkInv'
  <2>1. PICK w, l : Arrives(w, l)
    BY <1>3 DEF Link, Deliver, FlipProtected, FlipP1Low, FlipP2, Lose
  <2>2. /\ stage = "sent" /\ stage' = "arrived"
        /\ chosen1' = chosen1 /\ chosen2' = chosen2
        /\ prevPitchDelay' = prevPitchDelay
        /\ havePrevPitchDelay' = havePrevPitchDelay
    BY <2>1 DEF Arrives, memory
  <2>3. /\ First(chosen1) /\ Representable2(chosen2, chosen1.int)
        /\ word = Sent /\ Sent \in Words
    BY <2>2, SentIsAWord DEF FrameInv
  <2>4. Sent' = Sent
    BY <2>2 DEF Sent
  <2>5. Altered'
    BY <1>3, <2>3, <2>4 DEF Link, Deliver, FlipProtected, FlipP1Low, FlipP2,
                            Lose, Arrives, Altered
  <2>6. word' \in Words /\ link' \in {"clean", "lost", "protected", "low", "p2"}
    <3>1. \/ word' = Sent
          \/ \E b \in 2..7 : word' = [Sent EXCEPT !.p1 = Flip(@, b)]
          \/ \E b \in 0..1 : word' = [Sent EXCEPT !.p1 = Flip(@, b)]
          \/ \E b \in 0..4 : word' = [Sent EXCEPT !.p2 = Flip(@, b)]
          \/ word' = [Sent EXCEPT !.p0 = 1 - @]
      BY <2>4, <2>5, Zenon DEF Altered
    <3>2. word' \in Words
      BY <2>3, <3>1, DamagedWord, Zenon
    <3> QED
      BY <2>5, <3>2 DEF Altered
  <2>7. TypeOK'
    BY <2>2, <2>6 DEF TypeOK
  <2>8. FrameInv'
    BY <2>2, <2>3, <2>5, PitchAssumption DEF FrameInv
  <2> QED
    BY <2>2, <2>7, <2>8 DEF MemoryInv
<1>4. ASSUME Decoded, memory' = memory \/ rememberPitchDelay(StrictDelay2.int)
                 \/ rememberPitchDelay(nextConcealedPitchDelay(ErasedDelay2.int))
      PROVE  LinkInv'
  <2>1. StrictDelay2.int \in Lags /\ ErasedDelay2.int \in Lags
    BY DecodedDelays DEF Delays
  <2>2. nextConcealedPitchDelay(ErasedDelay2.int) \in Lags
    BY <2>1 DEF nextConcealedPitchDelay, Lags, PitchMinInt, PitchMaxInt
  <2>3. /\ prevPitchDelay' \in Lags \cup {0} /\ havePrevPitchDelay' \in BOOLEAN
        /\ MemoryInv'
    <3>1. CASE memory' = memory
      BY <3>1 DEF TypeOK, MemoryInv, memory
    <3>2. CASE rememberPitchDelay(StrictDelay2.int)
      BY <2>1, <3>2 DEF MemoryInv, rememberPitchDelay
    <3>3. CASE rememberPitchDelay(nextConcealedPitchDelay(ErasedDelay2.int))
      BY <2>2, <3>3 DEF MemoryInv, rememberPitchDelay
    <3> QED
      BY <1>4, <3>1, <3>2, <3>3
  <2>4. NoWord \in Words
    BY DEF NoWord, Words
  <2>5. TypeOK'
    BY <1>4, <2>3, <2>4 DEF Decoded, TypeOK
  <2>6. stage' \notin Searches \cup {"sent", "arrived"}
    BY <1>4, PitchAssumption DEF Decoded
  <2> QED
    BY <2>3, <2>5, <2>6 DEF FrameInv
<1>5. ASSUME Reset
      PROVE  LinkInv'
  BY <1>5 DEF Reset, frameVars, TypeOK, FrameInv, MemoryInv, Sent, Altered
<1>6. CASE UNCHANGED vars
  BY <1>6 DEF vars, frameVars, memory, TypeOK, FrameInv, MemoryInv, Sent, Altered
<1> QED
  BY <1>1, <1>2, <1>3, <1>4, <1>5, <1>6
  DEF Next, Encode, Decode, DecodeGood, DecodeErased, DecodeListening

\* The invariant holds in every behaviour.
THEOREM InvHolds == Spec => []LinkInv
BY InitInv, StepInv, PTL DEF Spec

\* Type correctness.
THEOREM TypeCorrect == Spec => []TypeOK
BY InvHolds, PTL DEF LinkInv

-----------------------------------------------------------------------------
(* What the properties say, from the invariant.                            *)

\* The invariant and what it is for: the delays agree,
LEMMA InvDelaysAgree == LinkInv => DelaysAgree
<1> SUFFICES ASSUME LinkInv, Arrived, link = "clean"
             PROVE  /\ StrictDelay1 = chosen1 /\ StrictDelay2 = chosen2
                    /\ ListeningDelay1 = chosen1 /\ ListeningDelay2 = chosen2
  BY DEF DelaysAgree
<1>1. /\ First(chosen1) /\ Representable2(chosen2, chosen1.int)
      /\ word = Sent
  BY DEF LinkInv, FrameInv, Arrived, Altered
<1>2. /\ word.p1 = EncodeP1(chosen1) /\ word.p0 = Parity(word.p1)
      /\ word.p2 = EncodeP2(chosen2, Subframe2Min(chosen1.int))
  BY <1>1 DEF Sent
<1>3. chosen1.int \in Int
  BY <1>1 DEF First, Delays, Lags, PitchMinInt, PitchMaxInt
<1>4. /\ DecodeDelaySubframe1(word.p1) = chosen1
      /\ DecodeDelaySubframe2(word.p2, chosen1.int) = chosen2
  BY <1>1, <1>2, <1>3, P1RoundTrip, P2RoundTrip DEF First
<1>5. StrictDelay1 = chosen1 /\ ListeningDelay1 = chosen1
  BY <1>2, <1>4 DEF StrictDelay1, ListeningDelay1, CheckParity
<1> QED
  BY <1>4, <1>5 DEF StrictDelay2, ListeningDelay2

\* the filter stays inside its history,
LEMMA InvFilterReadsThePast == LinkInv => FilterReadsThePast
<1> SUFFICES ASSUME LinkInv, Arrived,
                    NEW d \in {chosen1, chosen2, StrictDelay1, StrictDelay2,
                               ErasedDelay1, ErasedDelay2, ListeningDelay1,
                               ListeningDelay2}
             PROVE  ReadsThePast(d)
  BY DEF FilterReadsThePast
<1>1. First(chosen1) /\ Representable2(chosen2, chosen1.int)
  BY DEF LinkInv, FrameInv, Arrived
<1>2. d \in Delays /\ (d.int = 144 => d.frac # 1)
  <2>1. CASE d = chosen1
    BY <1>1, <2>1 DEF First, Representable1, PitchMaxInt
  <2>2. CASE d = chosen2
    <3>1. chosen1.int \in Int
      BY <1>1 DEF First, Delays, Lags, PitchMinInt, PitchMaxInt
    <3>2. Subframe2Min(chosen1.int) \in 20..134
      BY <3>1, Subframe2MinRange
    <3> QED
      BY <1>1, <2>2, <3>2 DEF Representable2, Delays, Lags, Fracs, PitchMinInt,
                              PitchMaxInt
  <2>3. CASE d \in {StrictDelay1, StrictDelay2, ErasedDelay1, ErasedDelay2,
                    ListeningDelay1, ListeningDelay2}
    BY <2>3, DecodedDelays DEF LinkInv
  <2> QED
    BY <2>1, <2>2, <2>3
<1> QED
  BY <1>2, LagsRead

\* Two codewords apart are at most two samples apart.
LEMMA NearCodewords ==
  ASSUME NEW p \in 0..255, NEW q \in 0..255, q - p \in -2..2
  PROVE  DecodeDelaySubframe1(q).int - DecodeDelaySubframe1(p).int \in -2..2
<1> DEFINE T(x) == IF x < 197 THEN 19 + (x + 2) \div 3 ELSE x - 112
<1>1. \A x \in 0..255 : DecodeDelaySubframe1(x).int = T(x)
  BY DEF DecodeDelaySubframe1, Delay
<1>2. T(q) - T(p) \in -2..2
  <2>1. CASE p < 197 /\ q < 197
    BY <2>1
  <2>2. CASE p < 197 /\ ~(q < 197)
    BY <2>2
  <2>3. CASE ~(p < 197) /\ q < 197
    BY <2>3
  <2>4. CASE ~(p < 197) /\ ~(q < 197)
    BY <2>4
  <2> QED
    BY <2>1, <2>2, <2>3, <2>4
<1> QED
  BY <1>1, <1>2

\* An error of the first delay is not amplified in the second.
LEMMA SecondFollows ==
  ASSUME NEW p \in 0..31, NEW d, NEW c, d.int \in Int, c.int \in Int
  PROVE  LET t == DecodeDelaySubframe2(p, d.int)
             u == DecodeDelaySubframe2(p, c.int)
         IN  Apart(t, u) <= Apart(d, c) /\ t.frac = u.frac
<1> DEFINE k == (p + 2) \div 3
           m == Subframe2Min(d.int)
           n == Subframe2Min(c.int)
           t == DecodeDelaySubframe2(p, d.int)
           u == DecodeDelaySubframe2(p, c.int)
<1>1. /\ t.int = m + k - 1 /\ u.int = n + k - 1 /\ t.frac = u.frac
  BY DEF DecodeDelaySubframe2, Delay
<1>2. m \in Int /\ n \in Int /\ k \in Int
  BY Subframe2MinRange
<1>3. /\ d.int <= c.int => m <= n /\ n - m <= c.int - d.int
      /\ c.int <= d.int => n <= m /\ m - n <= d.int - c.int
  BY DEF Subframe2Min, Clamp, PitchMinInt, PitchMaxInt
<1> HIDE DEF k, m, n, t, u
<1>4. Apart(t, u) <= Apart(d, c)
  BY <1>1, <1>2, <1>3 DEF Apart
<1> QED
  BY <1>1, <1>4 DEF t, u

\* A flipped bit of P2 moves the second delay by its thirds.
LEMMA SecondMoves ==
  ASSUME NEW p \in 0..31, NEW b \in 0..4, NEW t1 \in Int
  PROVE  Thirds(DecodeDelaySubframe2(Flip(p, b), t1))
           - Thirds(DecodeDelaySubframe2(p, t1)) \in {Power[b], -Power[b]}
<1> DEFINE q == Flip(p, b)
           m == Subframe2Min(t1)
<1>1. q \in 0..31 /\ m \in Int
  <2>1. \A x \in 0..31, y \in 0..4 : Flip(x, y) \in 0..31
    BY FlipRange, Zenon
  <2>2. q \in 0..31
    BY <2>1, Zenon
  <2>3. m \in Int
    BY Subframe2MinRange
  <2> QED
    BY <2>2, <2>3, Zenon
<1>2. Power[b] \in Nat
  BY Powers
<1>3. q = p - Power[b] \/ q = p + Power[b]
  BY DEF Flip
<1> HIDE DEF q, m
<1>4. ASSUME NEW x \in 0..31
      PROVE  Thirds(DecodeDelaySubframe2(x, t1)) = 3 * m + x - 2
  <2>1. 3 * ((x + 2) \div 3) + ((x + 2) % 3) = x + 2
    OBVIOUS
  <2>2. (x + 2) \div 3 \in Int /\ (x + 2) % 3 \in Int
    OBVIOUS
  <2>3. /\ DecodeDelaySubframe2(x, t1).int = m + (x + 2) \div 3 - 1
        /\ DecodeDelaySubframe2(x, t1).frac = ((x + 2) % 3) - 1
    BY DEF DecodeDelaySubframe2, Delay, m
  <2> QED
    BY <1>1, <2>1, <2>2, <2>3 DEF Thirds
<1>5. /\ Thirds(DecodeDelaySubframe2(q, t1)) = 3 * m + q - 2
      /\ Thirds(DecodeDelaySubframe2(p, t1)) = 3 * m + p - 2
  BY <1>1, <1>4
<1>6. Thirds(DecodeDelaySubframe2(q, t1)) - Thirds(DecodeDelaySubframe2(p, t1)) = q - p
  BY <1>1, <1>5
<1>7. q - p \in {Power[b], -Power[b]}
  BY <1>1, <1>2, <1>3
<1> QED
  BY <1>6, <1>7 DEF q

\* and a bit error is contained.
LEMMA InvBitErrorsAreContained == LinkInv => BitErrorsAreContained
<1> DEFINE p == EncodeP1(chosen1)
           w == EncodeP2(chosen2, Subframe2Min(chosen1.int))
<1> SUFFICES ASSUME LinkInv, Arrived
             PROVE  /\ link = "low" => /\ Apart(StrictDelay1, chosen1) <= 2
                                       /\ Apart(ListeningDelay1, chosen1) <= 2
                    /\ link = "p2" =>
                         /\ StrictDelay1 = chosen1 /\ ListeningDelay1 = chosen1
                         /\ ListeningDelay2 = StrictDelay2
                         /\ \E b \in 0..4 :
                              Thirds(StrictDelay2) - Thirds(chosen2)
                                \in {Power[b], -Power[b]}
                    /\ link = "protected" => StrictDelay1 = Delay(concealedPitchDelay, 0)
                    /\ link \in {"low", "protected"} =>
                         /\ Follows(StrictDelay1, StrictDelay2)
                         /\ Follows(ListeningDelay1, ListeningDelay2)
  BY DEF BitErrorsAreContained
<1>1. First(chosen1) /\ Representable2(chosen2, chosen1.int) /\ Altered
  BY DEF LinkInv, FrameInv, Arrived
<1>2. chosen1.int \in Int /\ chosen2.int \in Int
  BY <1>1 DEF First, Representable2, Delays, Lags, PitchMinInt, PitchMaxInt
<1>3. p \in 0..255 /\ DecodeDelaySubframe1(p) = chosen1
  BY <1>1, P1RoundTrip DEF First
<1>4. w \in 0..31 /\ DecodeDelaySubframe2(w, chosen1.int) = chosen2
  BY <1>1, <1>2, P2RoundTrip
<1>5. /\ Sent.p1 = p /\ Sent.p0 = Parity(p) /\ Sent.p2 = w
      /\ Sent = [p1 |-> p, p0 |-> Parity(p), p2 |-> w]
  BY DEF Sent
<1>6. word.p1 \in 0..255 /\ word.p2 \in 0..31
  BY DEF LinkInv, TypeOK, Words
<1>7. StrictDelay1.int \in Int /\ ListeningDelay1.int \in Int
  <2>1. StrictDelay1 \in Delays /\ ListeningDelay1 \in Delays
    BY DecodedDelays DEF LinkInv
  <2> QED
    BY <2>1 DEF Delays, Lags, PitchMinInt, PitchMaxInt
<1> HIDE DEF p, w
<1>8. ASSUME link = "low"
      PROVE  Apart(StrictDelay1, chosen1) <= 2 /\ Apart(ListeningDelay1, chosen1) <= 2
  <2>1. PICK b \in 0..1 : word.p1 = Flip(p, b) /\ word.p0 = Parity(p)
    BY <1>1, <1>5, <1>8 DEF Altered
  <2>2. word.p1 - p \in -2..2 /\ Parity(word.p1) = Parity(p)
    BY <1>3, <2>1, FlipLow
  <2>3. /\ StrictDelay1 = DecodeDelaySubframe1(word.p1)
        /\ ListeningDelay1 = DecodeDelaySubframe1(word.p1)
    BY <2>1, <2>2 DEF StrictDelay1, ListeningDelay1, CheckParity
  <2>4. DecodeDelaySubframe1(word.p1).int - chosen1.int \in -2..2
    <3>1. DecodeDelaySubframe1(word.p1).int - DecodeDelaySubframe1(p).int \in -2..2
      BY <1>3, <1>6, <2>2, NearCodewords
    <3> QED
      BY <1>3, <3>1, Zenon
  <2>5. /\ StrictDelay1.int - chosen1.int \in -2..2
        /\ ListeningDelay1.int - chosen1.int \in -2..2
    BY <2>3, <2>4, Zenon
  <2> QED
    BY <1>2, <1>7, <2>5 DEF Apart
<1>9. ASSUME link = "p2"
      PROVE  /\ StrictDelay1 = chosen1 /\ ListeningDelay1 = chosen1
             /\ ListeningDelay2 = StrictDelay2
             /\ \E b \in 0..4 :
                  Thirds(StrictDelay2) - Thirds(chosen2) \in {Power[b], -Power[b]}
  <2>1. PICK b \in 0..4 : /\ word.p1 = p /\ word.p0 = Parity(p)
                          /\ word.p2 = Flip(w, b)
    BY <1>1, <1>5, <1>9 DEF Altered
  <2>2. StrictDelay1 = chosen1 /\ ListeningDelay1 = chosen1
    BY <1>3, <2>1 DEF StrictDelay1, ListeningDelay1, CheckParity
  <2>3. /\ StrictDelay2 = DecodeDelaySubframe2(Flip(w, b), chosen1.int)
        /\ ListeningDelay2 = StrictDelay2
    BY <2>1, <2>2 DEF StrictDelay2, ListeningDelay2
  <2>4. Thirds(DecodeDelaySubframe2(Flip(w, b), chosen1.int))
          - Thirds(DecodeDelaySubframe2(w, chosen1.int)) \in {Power[b], -Power[b]}
    BY <1>2, <1>4, SecondMoves
  <2>5. Thirds(StrictDelay2) - Thirds(chosen2) \in {Power[b], -Power[b]}
    BY <1>4, <2>3, <2>4, Zenon
  <2> QED
    BY <2>2, <2>3, <2>5
<1>10. ASSUME link = "protected"
       PROVE  StrictDelay1 = Delay(concealedPitchDelay, 0)
  <2>1. CASE \E b \in 2..7 : word = [Sent EXCEPT !.p1 = Flip(@, b)]
    <3>1. PICK b \in 2..7 : word.p1 = Flip(p, b) /\ word.p0 = Parity(p)
      BY <1>5, <2>1
    <3> QED
      BY <1>3, <3>1, FlipHigh DEF StrictDelay1, CheckParity
  <2>2. CASE word = [Sent EXCEPT !.p0 = 1 - @]
    <3>1. word.p1 = p /\ word.p0 = 1 - Parity(p)
      BY <1>5, <2>2
    <3>2. Parity(p) \in 0..1
      BY <1>3, Powers DEF Parity, Bit
    <3>3. word.p0 # Parity(p)
      BY <3>1, <3>2
    <3> QED
      BY <3>1, <3>3 DEF StrictDelay1, CheckParity
  <2> QED
    BY <1>1, <1>10, <2>1, <2>2 DEF Altered
<1>11. ASSUME link \in {"low", "protected"}
       PROVE  /\ Follows(StrictDelay1, StrictDelay2)
              /\ Follows(ListeningDelay1, ListeningDelay2)
  <2>1. word.p2 = w
    <3>1. \/ \E b : word = [Sent EXCEPT !.p1 = Flip(@, b)]
          \/ word = [Sent EXCEPT !.p0 = 1 - @]
      BY <1>1, <1>11 DEF Altered
    <3> QED
      BY <1>5, <3>1
  <2>2. ASSUME NEW d, d.int \in Int
        PROVE  Follows(d, DecodeDelaySubframe2(w, d.int))
    <3>1. LET u == DecodeDelaySubframe2(w, d.int)
              v == DecodeDelaySubframe2(w, chosen1.int)
          IN  Apart(u, v) <= Apart(d, chosen1) /\ u.frac = v.frac
      BY <1>2, <1>4, <2>2, SecondFollows
    <3> QED
      BY <1>4, <3>1 DEF Follows
  <2> QED
    BY <1>7, <2>1, <2>2 DEF StrictDelay2, ListeningDelay2
<1> QED
  BY <1>8, <1>9, <1>10, <1>11

\* On an undamaged link both sides use the same two delays, in every profile
\* and on every decode path.
THEOREM DelaysAlwaysAgree == Spec => []DelaysAgree
BY InvHolds, InvDelaysAgree, PTL

\* The checks that guard the interpolation filter never apply.
THEOREM FilterStaysInside == Spec => []FilterReadsThePast
BY InvHolds, InvFilterReadsThePast, PTL

\* A single wrong bit the parity covers never reaches the strict Decoder as a
\* delay; one of P1 it does not cover moves the first delay by two samples at most,
\* and the second by no more than the first; one of P2, which it does not cover
\* either, moves the second delay alone, by the thirds that the bit counts.
THEOREM BitErrorsStayContained == Spec => []BitErrorsAreContained
BY InvHolds, InvBitErrorsAreContained, PTL

-----------------------------------------------------------------------------
(* SerialFile: packing.                                                    *)

\* Fields lie behind each other.
LEMMA OffsetIs ==
  /\ Len(Widths) \in Nat /\ \A k \in 1 .. Len(Widths) : Widths[k] \in 1 .. 16
  /\ Offset \in [0 .. Len(Widths) -> Nat] /\ Offset[0] = 0
  /\ \A k \in 1 .. Len(Widths) : Offset[k] = Offset[k - 1] + Widths[k]
<1> DEFINE n == Len(Widths)
           IsOffset(f) == f = [k \in 0 .. n |-> IF k = 0 THEN 0 ELSE f[k - 1] + Widths[k]]
<1>1. n \in Nat /\ \A k \in 1 .. n : Widths[k] \in 1 .. 16
  BY SerialAssumption
<1> HIDE DEF n
<1>2. PICK f \in [0 .. n -> Int] : f[0] = 0 /\ \A k \in 1 .. n : f[k] = f[k - 1] + Widths[k]
  <2>1. \A k \in 1 .. n : Widths[k] \in Int
    BY <1>1
  <2>2. QED
    BY <1>1, <2>1, Sums
<1>3. IsOffset(f)
  <2>1. f = [k \in 0 .. n |-> f[k]]
    BY <1>2
  <2>2. ASSUME NEW k \in 0 .. n
        PROVE  f[k] = IF k = 0 THEN 0 ELSE f[k - 1] + Widths[k]
    <3>1. k = 0 \/ k \in 1 .. n
      BY <1>1
    <3>2. QED
      BY <1>2, <3>1
  <2>3. QED
    BY <2>1, <2>2
<1>4. Offset = CHOOSE g : IsOffset(g)
  BY DEF Offset, n
<1>5. IsOffset(Offset)
  BY <1>3, <1>4
<1>6. \A k \in 0 .. n : Offset[k] = IF k = 0 THEN 0 ELSE Offset[k - 1] + Widths[k]
  BY <1>5
<1>7. Offset[0] = 0 /\ \A k \in 1 .. n : Offset[k] = Offset[k - 1] + Widths[k]
  <2>1. 0 \in 0 .. n /\ \A k \in 1 .. n : k \in 0 .. n /\ k # 0
    BY <1>1
  <2>2. QED
    BY <1>6, <2>1
<1> DEFINE T == {k \in 0 .. n : Offset[k] \in Nat}
<1>8. 0 \in T
  BY <1>1, <1>7
<1>9. ASSUME NEW k \in 1 .. n, k - 1 \in T PROVE k \in T
  <2>1. /\ Offset[k - 1] \in Nat /\ Offset[k] = Offset[k - 1] + Widths[k]
        /\ Widths[k] \in 1 .. 16 /\ k \in 0 .. n
    BY <1>1, <1>7, <1>9
  <2>2. \A x \in Nat, w \in 1 .. 16 : x + w \in Nat
    OBVIOUS
  <2>3. Offset[k] \in Nat
    BY <2>1, <2>2
  <2>4. QED
    BY <2>1, <2>3
<1>10. 0 .. n \subseteq T
  <2> HIDE DEF T
  <2>1. QED
    BY <1>1, <1>8, <1>9, RangeInduction
<1>11. Offset \in [0 .. n -> Nat]
  <2>1. \A k \in 0 .. n : Offset[k] \in Nat
    BY <1>10
  <2>2. Offset = [k \in 0 .. n |-> Offset[k]]
    BY <1>5
  <2>3. QED
    BY <2>1, <2>2
<1>12. QED
  BY <1>1, <1>7, <1>11 DEF n

\* A later field lies behind an earlier one.
LEMMA OffsetGrows ==
  ASSUME NEW m \in 0 .. Len(Widths)
  PROVE  \A k \in 0 .. m : Offset[k] <= Offset[m]
<1> DEFINE n == Len(Widths)
           T == {i \in 0 .. m : Offset[m - i] <= Offset[m]}
<1>1. /\ n \in Nat /\ Offset \in [0 .. n -> Nat] /\ m \in 0 .. n
      /\ \A k \in 1 .. n : Offset[k] = Offset[k - 1] + Widths[k] /\ Widths[k] \in 1 .. 16
  BY OffsetIs
<1> HIDE DEF n
<1>2. 0 \in T
  BY <1>1
<1>3. ASSUME NEW i \in 1 .. m, i - 1 \in T PROVE i \in T
  <2> DEFINE k == m - (i - 1)
  <2>1. k \in 1 .. n /\ k - 1 = m - i /\ i \in 0 .. m
    BY <1>1
  <2>2. Offset[k] <= Offset[m]
    BY <1>3
  <2>3. Offset[k] = Offset[k - 1] + Widths[k] /\ Widths[k] \in 1 .. 16 /\ Offset[m] \in Nat
        /\ Offset[k - 1] \in Nat
    BY <1>1, <2>1
  <2> HIDE DEF k
  <2>4. \A x, z \in Nat, w \in 1 .. 16 : x + w <= z => x <= z
    OBVIOUS
  <2>5. Offset[k - 1] <= Offset[m]
    BY <2>2, <2>3, <2>4
  <2>6. QED
    BY <2>1, <2>5
<1> HIDE DEF T
<1>4. m \in Nat
  BY <1>1
<1>5. 0 .. m \subseteq T
  BY <1>2, <1>3, <1>4, RangeInduction
<1>6. ASSUME NEW k \in 0 .. m PROVE Offset[k] <= Offset[m]
  <2>1. m - k \in 0 .. m /\ m - (m - k) = k
    BY <1>4
  <2>2. m - k \in T
    BY <1>5, <2>1
  <2>3. QED
    BY <2>1, <2>2 DEF T
<1>7. QED
  BY <1>6

\* No field ends behind the frame, and a frame has a bit.
LEMMA OffsetBound ==
  /\ FrameBits \in Nat \ {0}
  /\ \A k \in 1 .. Len(Widths) : Offset[k] <= FrameBits
<1> DEFINE n == Len(Widths)
<1>1. /\ n \in Nat /\ Offset \in [0 .. n -> Nat] /\ Offset[0] = 0
      /\ \A k \in 1 .. n : Offset[k] = Offset[k - 1] + Widths[k] /\ Widths[k] \in 1 .. 16
  BY OffsetIs
<1>2. n # 0
  BY SerialAssumption
<1>3. \A k \in 0 .. n : Offset[k] <= Offset[n]
  <2>1. n \in 0 .. Len(Widths)
    BY <1>1
  <2>2. QED
    BY <2>1, OffsetGrows
<1> HIDE DEF n
<1>4. Offset[n] \in Nat \ {0}
  <2>1. n \in 1 .. n /\ n - 1 \in 0 .. n
    BY <1>1, <1>2
  <2>2. Offset[n - 1] \in Nat /\ Offset[n] = Offset[n - 1] + Widths[n] /\ Widths[n] \in 1 .. 16
    BY <1>1, <2>1
  <2>3. QED
    BY <2>2
<1>5. QED
  BY <1>1, <1>3, <1>4 DEF FrameBits, n

\* The powers of two.
LEMMA TwoToIs ==
  /\ TwoTo[0] = 1
  /\ \A n \in 0 .. 16 : TwoTo[n] \in Nat \ {0}
  /\ \A n \in 1 .. 16 : TwoTo[n] = 2 * TwoTo[n - 1]
<1> DEFINE S == Nat \ {0}
           E == [k \in 1 .. 16 |-> [y \in S |-> 2 * y]]
           IsPower(f) == f = [n \in 0 .. 16 |-> IF n = 0 THEN 1 ELSE 2 * f[n - 1]]
<1>1. 1 \in S /\ \A k \in 1 .. 16 : \A y \in S : E[k][y] = 2 * y
  OBVIOUS
<1>2. E \in [1 .. 16 -> [S -> S]]
  OBVIOUS
<1> HIDE DEF E
<1>3. StepsFrom(S, 1, 16, E)
  BY <1>1, <1>2 DEF StepsFrom
<1>4. PICK f : Runs(f, S, 1, 16, E)
  <2> HIDE DEF S
  <2>1. QED
    BY <1>3, Recursion
<1>5. f \in [0 .. 16 -> S] /\ f[0] = 1 /\ \A k \in 1 .. 16 : f[k] = E[k][f[k - 1]]
  BY <1>4 DEF Runs
<1>6. \A k \in 0 .. 16 : f[k] = IF k = 0 THEN 1 ELSE 2 * f[k - 1]
  <2>1. ASSUME NEW k \in 1 .. 16 PROVE f[k] = 2 * f[k - 1]
    <3>1. f[k - 1] \in S /\ f[k] = E[k][f[k - 1]]
      BY <1>5
    <3>2. QED
      BY <1>1, <3>1
  <2>2. \A k \in 0 .. 16 : k = 0 \/ k \in 1 .. 16
    OBVIOUS
  <2>3. QED
    BY <1>5, <2>1, <2>2
<1>7. IsPower(f)
  <2>1. f = [k \in 0 .. 16 |-> f[k]]
    BY <1>5
  <2>2. QED
    BY <1>6, <2>1
<1>8. TwoTo = CHOOSE g : IsPower(g)
  BY DEF TwoTo
<1>9. IsPower(TwoTo)
  BY <1>7, <1>8
<1>10. \A k \in 0 .. 16 : TwoTo[k] = IF k = 0 THEN 1 ELSE 2 * TwoTo[k - 1]
  BY <1>9
<1>11. TwoTo[0] = 1 /\ \A k \in 1 .. 16 : TwoTo[k] = 2 * TwoTo[k - 1]
  BY <1>10
<1> DEFINE T == {k \in 0 .. 16 : TwoTo[k] \in S}
<1>12. 0 \in T
  BY <1>11
<1>13. ASSUME NEW k \in 1 .. 16, k - 1 \in T PROVE k \in T
  BY <1>11, <1>13
<1>14. 0 .. 16 \subseteq T
  <2> HIDE DEF T
  <2>1. QED
    BY <1>12, <1>13, RangeInduction
<1>15. QED
  BY <1>11, <1>14

\* Division by twice as much halves.
LEMMA HalfOf ==
  ASSUME NEW v \in Nat, NEW m \in Nat \ {0}
  PROVE  v \div m = 2 * (v \div (2 * m)) + ((v \div m) % 2)
<1> DEFINE d == 2 * m
           a == v \div m
           q == v \div d
<1>1. d \in Nat \ {0}
  OBVIOUS
<1> HIDE DEF d
<1>2. a \in Nat /\ m * a <= v /\ v < m * a + m
  BY DivBounds
<1>3. q \in Nat /\ d * q <= v /\ v < d * q + d
  BY <1>1, DivBounds
<1> HIDE DEF a, q
<1>4. d * q = m * (2 * q) /\ d * q + d = m * (2 * q + 2) /\ m * a + m = m * (a + 1)
  BY <1>2, <1>3 DEF d
<1>5. m * (2 * q) < m * (a + 1) /\ m * a < m * (2 * q + 2)
  BY <1>2, <1>3, <1>4
<1>6. \A x, y \in Nat : m * x < m * y => x < y
  OBVIOUS
<1>7. 2 * q < a + 1 /\ a < 2 * q + 2
  <2>1. 2 * q \in Nat /\ a + 1 \in Nat /\ a \in Nat /\ 2 * q + 2 \in Nat
    BY <1>2, <1>3
  <2>2. QED
    BY <1>5, <1>6, <2>1
<1>8. \A x, y \in Nat : 2 * y < x + 1 /\ x < 2 * y + 2 => x = 2 * y + (x % 2)
  OBVIOUS
<1>9. a = 2 * q + (a % 2)
  BY <1>2, <1>3, <1>7, <1>8
<1>10. QED
  BY <1>9 DEF a, q, d

\* What is written is read.
LEMMA ValueArrives ==
  ASSUME NEW n \in 1 .. 16, NEW v \in Nat, v < TwoTo[n]
  PROVE  /\ BitsOf(v, n) \in Seq({0, 1}) /\ Len(BitsOf(v, n)) = n
         /\ ValueOf(BitsOf(v, n)) = v
<1> DEFINE b == BitsOf(v, n)
           f == [i \in 0 .. n |-> v \div TwoTo[n - i]]
           IsValue(g) == g = [i \in 0 .. n |-> IF i = 0 THEN 0 ELSE 2 * g[i - 1] + b[i]]
           h == CHOOSE g : IsValue(g)
<1>1. \A i \in 0 .. n : n - i \in 0 .. 16 /\ TwoTo[n - i] \in Nat \ {0}
  BY TwoToIs
<1>2. \A i \in 1 .. n : b[i] = (v \div TwoTo[n - i]) % 2
  BY DEF BitsOf
<1>3. \A i \in 1 .. n : b[i] \in {0, 1}
  <2>1. ASSUME NEW i \in 1 .. n PROVE b[i] \in {0, 1}
    <3>1. v \div TwoTo[n - i] \in Nat
      BY <1>1
    <3>2. QED
      BY <1>2, <3>1
  <2>2. QED
    BY <2>1
<1>4. b \in Seq({0, 1}) /\ Len(b) = n
  <2>1. b = [i \in 1 .. n |-> b[i]]
    BY DEF BitsOf
  <2> HIDE DEF b
  <2>2. b \in [1 .. n -> {0, 1}]
    BY <1>3, <2>1
  <2>3. QED
    BY <2>2
<1>5. ValueOf(b) = h[n]
  <2> HIDE DEF b
  <2>1. QED
    BY <1>4 DEF ValueOf
<1>6. f[0] = 0 /\ f[n] = v
  <2>1. v \div TwoTo[n] = 0
    BY <1>1
  <2>2. v \div 1 = v
    OBVIOUS
  <2>3. n - 0 = n /\ n - n = 0 /\ 0 \in 0 .. n /\ n \in 0 .. n
    OBVIOUS
  <2>4. f[0] = v \div TwoTo[n] /\ f[n] = v \div TwoTo[0]
    BY <2>3
  <2>5. QED
    BY <2>1, <2>2, <2>4, TwoToIs
<1>7. ASSUME NEW i \in 1 .. n PROVE f[i] = 2 * f[i - 1] + b[i]
  <2> DEFINE m == TwoTo[n - i]
  <2>1. m \in Nat \ {0} /\ TwoTo[n - (i - 1)] = 2 * m
    <3>1. n - (i - 1) \in 1 .. 16 /\ (n - (i - 1)) - 1 = n - i /\ n - i \in 0 .. 16
      OBVIOUS
    <3>2. QED
      BY <3>1, TwoToIs
  <2>2. f[i] = v \div m /\ f[i - 1] = v \div (2 * m) /\ b[i] = (v \div m) % 2
    BY <1>2, <2>1
  <2> HIDE DEF m, f, b
  <2>3. QED
    BY <2>1, <2>2, HalfOf
<1>8. f = [i \in 0 .. n |-> f[i]]
  OBVIOUS
<1> HIDE DEF f, b
<1>9. IsValue(f)
  <2>1. \A i \in 0 .. n : i = 0 \/ i \in 1 .. n
    OBVIOUS
  <2>2. QED
    BY <1>6, <1>7, <1>8, <2>1
<1>10. IsValue(h)
  BY <1>9
<1> HIDE DEF h
<1>11. \A i \in 0 .. n : h[i] = IF i = 0 THEN 0 ELSE 2 * h[i - 1] + b[i]
  BY <1>10
<1> DEFINE T == {i \in 0 .. n : h[i] = f[i]}
<1>12. 0 \in T
  BY <1>6, <1>11
<1>13. ASSUME NEW i \in 1 .. n, i - 1 \in T PROVE i \in T
  <2>1. h[i] = 2 * h[i - 1] + b[i] /\ i \in 0 .. n
    BY <1>11
  <2>2. QED
    BY <1>7, <1>13, <2>1
<1> HIDE DEF T
<1>14. 0 .. n \subseteq T
  BY <1>12, <1>13, RangeInduction
<1>15. h[n] = f[n]
  BY <1>14 DEF T
<1>16. QED
  BY <1>4, <1>5, <1>6, <1>15 DEF b

\* Two sequences joined, and a part of one.
LEMMA JoinIs ==
  ASSUME NEW a \in Seq({0, 1}), NEW b \in Seq({0, 1})
  PROVE  /\ a \o b \in Seq({0, 1}) /\ Len(a \o b) = Len(a) + Len(b)
         /\ \A i \in 1 .. Len(a) : (a \o b)[i] = a[i]
         /\ \A i \in 1 .. Len(b) : (a \o b)[Len(a) + i] = b[i]
  OBVIOUS

\* A frame's fields, each of its bits.
Fields(f) == [k \in DOMAIN Widths |-> BitsOf(f[k], Widths[k])]

LEMMA FieldsAre ==
  ASSUME NEW f \in FrameValues
  PROVE  /\ f \in Seq(Nat) /\ Len(f) = Len(Widths)
         /\ Fields(f) \in Seq(Seq({0, 1})) /\ Len(Fields(f)) = Len(Widths)
         /\ \A k \in 1 .. Len(Widths) : /\ f[k] \in Nat
                                        /\ Fields(f)[k] = BitsOf(f[k], Widths[k])
                                        /\ Fields(f)[k] \in Seq({0, 1})
                                        /\ Len(Fields(f)[k]) = Widths[k]
                                        /\ ValueOf(Fields(f)[k]) = f[k]
<1> DEFINE n == Len(Widths)
<1>1. /\ n \in Nat /\ DOMAIN Widths = 1 .. n /\ \A k \in 1 .. n : Widths[k] \in 1 .. 16
      /\ f \in Seq(Nat) /\ Len(f) = n /\ DOMAIN f = 1 .. n
      /\ \A k \in 1 .. n : f[k] < TwoTo[Widths[k]]
  <2>1. /\ Widths \in Seq(1 .. 16) /\ f \in Seq(Nat) /\ Len(f) = Len(Widths)
        /\ \A k \in DOMAIN f : f[k] < TwoTo[Widths[k]]
    BY SerialAssumption
  <2>2. n \in Nat /\ DOMAIN Widths = 1 .. n /\ DOMAIN f = 1 .. n
    BY <2>1
  <2>3. \A k \in 1 .. n : Widths[k] \in 1 .. 16
    BY OffsetIs
  <2>4. \A k \in 1 .. n : f[k] < TwoTo[Widths[k]]
    BY <2>1, <2>2
  <2>5. QED
    BY <2>1, <2>2, <2>3, <2>4
<1> HIDE DEF n
<1>2. ASSUME NEW k \in 1 .. n
      PROVE  /\ f[k] \in Nat /\ Fields(f)[k] = BitsOf(f[k], Widths[k])
             /\ Fields(f)[k] \in Seq({0, 1}) /\ Len(Fields(f)[k]) = Widths[k]
             /\ ValueOf(Fields(f)[k]) = f[k]
  <2>1. f[k] \in Nat /\ Fields(f)[k] = BitsOf(f[k], Widths[k])
    BY <1>1 DEF Fields
  <2>2. /\ BitsOf(f[k], Widths[k]) \in Seq({0, 1})
        /\ Len(BitsOf(f[k], Widths[k])) = Widths[k]
        /\ ValueOf(BitsOf(f[k], Widths[k])) = f[k]
    BY <1>1, <2>1, ValueArrives
  <2>3. QED
    BY <2>1, <2>2
<1>3. Fields(f) \in Seq(Seq({0, 1})) /\ Len(Fields(f)) = n
  <2>1. Fields(f) = [k \in 1 .. n |-> Fields(f)[k]]
    BY <1>1 DEF Fields
  <2>2. Fields(f) \in [1 .. n -> Seq({0, 1})]
    BY <1>2, <2>1
  <2>3. QED
    BY <1>1, <2>2
<1>4. QED
  BY <1>1, <1>2, <1>3 DEF n

\* The first m fields behind each other.
Behind(p, s, m) ==
  /\ p \in Seq({0, 1}) /\ Len(p) = Offset[m]
  /\ \A k \in 1 .. m : \A j \in 1 .. Widths[k] : p[Offset[k - 1] + j] = s[k][j]

\* A frame packed is its fields behind each other.
LEMMA PackIs ==
  ASSUME NEW f \in FrameValues
  PROVE  Behind(Pack(f), Fields(f), Len(Widths))
<1> DEFINE s == Fields(f)
           n == Len(Widths)
           S == Seq({0, 1})
           E == [k \in 1 .. n |-> [y \in S |-> y \o s[k]]]
           IsFlat(g) == g = [i \in 1 .. n |-> IF i = 1 THEN s[i] ELSE g[i - 1] \o s[i]]
           h == CHOOSE g : IsFlat(g)
<1>1. /\ n \in Nat /\ n # 0 /\ Offset \in [0 .. n -> Nat] /\ Offset[0] = 0
      /\ \A k \in 1 .. n : Offset[k] = Offset[k - 1] + Widths[k] /\ Widths[k] \in 1 .. 16
  BY OffsetIs, SerialAssumption
<1>2. /\ s \in Seq(S) /\ Len(s) = n
      /\ \A k \in 1 .. n : s[k] \in S /\ Len(s[k]) = Widths[k]
  BY FieldsAre
<1>3. Pack(f) = h[n]
  <2>1. Pack(f) = FlattenSeq(s)
    BY DEF Pack, Fields
  <2>2. s # <<>>
    BY <1>1, <1>2
  <2> HIDE DEF s, n
  <2>3. QED
    BY <1>2, <2>1, <2>2 DEF FlattenSeq
<1> HIDE DEF s, n
<1>4. \A k \in 1 .. n : \A y \in S : E[k][y] = y \o s[k] /\ E[k][y] \in S
  BY <1>2
<1>5. E \in [1 .. n -> [S -> S]]
  BY <1>2
<1> HIDE DEF E
<1>6. StepsFrom(S, s[1], n, E)
  BY <1>1, <1>2, <1>5 DEF StepsFrom
<1>7. PICK g : RunsUp(g, S, s[1], n, E)
  <2> HIDE DEF S
  <2>1. QED
    BY <1>1, <1>6, RecursionUp
<1>8. g \in [1 .. n -> S] /\ g[1] = s[1] /\ \A k \in 2 .. n : g[k] = E[k][g[k - 1]]
  BY <1>7 DEF RunsUp
<1>9. \A k \in 1 .. n : g[k] = IF k = 1 THEN s[k] ELSE g[k - 1] \o s[k]
  <2>1. ASSUME NEW k \in 2 .. n PROVE g[k] = g[k - 1] \o s[k]
    <3>1. k \in 1 .. n /\ k - 1 \in 1 .. n
      BY <1>1
    <3>2. g[k - 1] \in S /\ g[k] = E[k][g[k - 1]]
      BY <1>8, <3>1
    <3> HIDE DEF S
    <3>3. QED
      BY <1>4, <3>1, <3>2
  <2>2. \A k \in 1 .. n : k = 1 \/ k \in 2 .. n
    BY <1>1
  <2>3. \A k \in 2 .. n : k # 1
    BY <1>1
  <2>4. QED
    BY <1>8, <2>1, <2>2, <2>3
<1>10. IsFlat(g)
  <2>1. g = [k \in 1 .. n |-> g[k]]
    BY <1>8
  <2>2. QED
    BY <1>9, <2>1
<1>11. IsFlat(h)
  BY <1>10
<1> HIDE DEF h
<1>12. \A k \in 1 .. n : h[k] = IF k = 1 THEN s[k] ELSE h[k - 1] \o s[k]
  BY <1>11
<1> DEFINE T == {m \in 0 .. n : m > 0 => Behind(h[m], s, m)}
<1>13. 0 \in T
  BY <1>1
<1>14. ASSUME NEW m \in 1 .. n, m - 1 \in T PROVE m \in T
  <2>1. CASE m = 1
    <3>1. h[1] = s[1] /\ 1 \in 1 .. n /\ Offset[1] = Widths[1]
      <4>1. 1 \in 1 .. n /\ 1 - 1 = 0
        BY <1>1
      <4>2. Offset[1] = 0 + Widths[1] /\ Widths[1] \in 1 .. 16
        BY <1>1, <4>1
      <4>3. Offset[1] = Widths[1]
        BY <4>2
      <4>4. h[1] = s[1]
        BY <1>12, <4>1
      <4>5. QED
        BY <4>1, <4>3, <4>4
    <3>2. s[1] \in S /\ Len(s[1]) = Offset[1]
      BY <1>2, <3>1
    <3>3. ASSUME NEW k \in 1 .. 1, NEW j \in 1 .. Widths[k]
          PROVE  h[1][Offset[k - 1] + j] = s[k][j]
      <4>1. k = 1 /\ Offset[k - 1] + j = j
        <5>1. k = 1 /\ Widths[1] \in 1 .. 16
          BY <1>1, <3>1
        <5>2. QED
          BY <1>1, <5>1
      <4>2. QED
        BY <3>1, <4>1
    <3>4. Behind(h[1], s, 1)
      BY <3>1, <3>2, <3>3 DEF Behind
    <3>5. QED
      BY <2>1, <3>4
  <2>2. CASE m # 1
    <3> DEFINE l == m - 1
               a == h[l]
               b == s[m]
    <3>1. l \in 1 .. n /\ m = l + 1 /\ Behind(a, s, l)
      BY <1>1, <1>14, <2>2
    <3>2. /\ a \in Seq({0, 1}) /\ Len(a) = Offset[l]
          /\ \A k \in 1 .. l : \A j \in 1 .. Widths[k] : a[Offset[k - 1] + j] = s[k][j]
      BY <3>1 DEF Behind
    <3>3. b \in Seq({0, 1}) /\ Len(b) = Widths[m]
      BY <1>2
    <3>4. h[m] = a \o b
      BY <1>12, <2>2
    <3>5. /\ Offset[m] = Offset[l] + Widths[m] /\ Offset[l] \in Nat /\ m \in 1 .. n
          /\ Widths[m] \in 1 .. 16
      BY <1>1, <3>1
    <3>0. m - 1 = l
      OBVIOUS
    <3> HIDE DEF a, b, l
    <3>6. /\ a \o b \in Seq({0, 1}) /\ Len(a \o b) = Len(a) + Len(b)
          /\ \A i \in 1 .. Len(a) : (a \o b)[i] = a[i]
          /\ \A i \in 1 .. Len(b) : (a \o b)[Len(a) + i] = b[i]
      BY <3>2, <3>3, JoinIs
    <3>7. ASSUME NEW k \in 1 .. m, NEW j \in 1 .. Widths[k]
          PROVE  h[m][Offset[k - 1] + j] = s[k][j]
      <4>1. CASE k = m
        <5>1. Offset[k - 1] = Len(a) /\ j \in 1 .. Len(b)
          BY <3>0, <3>2, <3>3, <4>1
        <5>2. (a \o b)[Len(a) + j] = b[j]
          BY <3>6, <5>1
        <5>3. QED
          BY <3>4, <4>1, <5>1, <5>2 DEF b
      <4>2. CASE k # m
        <5>1. k \in 1 .. l /\ k \in 1 .. n
          BY <1>1, <3>1, <4>2
        <5> DEFINE i == Offset[k - 1] + j
        <5>2. i \in 1 .. Len(a)
          <6>1. Offset[k] <= Offset[l]
            <7>1. l \in 0 .. Len(Widths) /\ k \in 0 .. l
              BY <1>1, <3>1, <5>1 DEF n
            <7>2. QED
              BY <7>1, OffsetGrows
          <6>2. /\ Offset[k - 1] \in Nat /\ Widths[k] \in 1 .. 16
                /\ Offset[k] = Offset[k - 1] + Widths[k]
            BY <1>1, <5>1
          <6>3. \A x, z \in Nat, w \in 1 .. 16 : x + w <= z => \A y \in 1 .. w : x + y \in 1 .. z
            OBVIOUS
          <6>4. QED
            BY <3>2, <3>5, <6>1, <6>2, <6>3
        <5>3. a[i] = s[k][j]
          BY <3>2, <5>1
        <5> HIDE DEF i
        <5>4. (a \o b)[i] = a[i]
          BY <3>6, <5>2
        <5>5. QED
          BY <3>4, <5>3, <5>4 DEF i
      <4>3. QED
        BY <4>1, <4>2
    <3>8. h[m] \in Seq({0, 1}) /\ Len(h[m]) = Offset[m]
      BY <3>2, <3>3, <3>4, <3>5, <3>6
    <3>9. Behind(h[m], s, m)
      BY <3>7, <3>8 DEF Behind
    <3>10. QED
      BY <3>5, <3>9
  <2>3. QED
    BY <2>1, <2>2
<1> HIDE DEF T
<1>15. 0 .. n \subseteq T
  BY <1>1, <1>13, <1>14, RangeInduction
<1>16. n \in T
  BY <1>1, <1>15
<1>17. Behind(h[n], s, n)
  BY <1>1, <1>16 DEF T
<1>18. QED
  BY <1>3, <1>17 DEF s, n

\* The tuple arrives.
LEMMA UnpackIs ==
  ASSUME NEW f \in FrameValues
  PROVE  /\ Pack(f) \in Seq({0, 1}) /\ Len(Pack(f)) = FrameBits
         /\ Unpack(Pack(f)) = f
<1> DEFINE n == Len(Widths)
           p == Pack(f)
           s == Fields(f)
<1>1. /\ p \in Seq({0, 1}) /\ Len(p) = Offset[n]
      /\ \A k \in 1 .. n : \A j \in 1 .. Widths[k] : p[Offset[k - 1] + j] = s[k][j]
  BY PackIs DEF Behind
<1>2. /\ n \in Nat /\ Offset \in [0 .. n -> Nat]
      /\ \A k \in 1 .. n : Offset[k] = Offset[k - 1] + Widths[k] /\ Widths[k] \in 1 .. 16
  BY OffsetIs
<1>3. /\ f \in Seq(Nat) /\ Len(f) = n
      /\ \A k \in 1 .. n : /\ s[k] \in Seq({0, 1}) /\ Len(s[k]) = Widths[k]
                           /\ ValueOf(s[k]) = f[k]
  BY FieldsAre
<1>4. DOMAIN Widths = 1 .. n
  BY SerialAssumption
<1>5. \A k \in 1 .. n : Offset[k] <= Offset[n]
  BY OffsetBound DEF FrameBits
<1>6. Unpack(p) = [k \in 1 .. n |-> ValueOf(SubSeq(p, Offset[k - 1] + 1, Offset[k]))]
  BY <1>4 DEF Unpack
<1> HIDE DEF p, s, n
<1>7. ASSUME NEW k \in 1 .. n
      PROVE  SubSeq(p, Offset[k - 1] + 1, Offset[k]) = s[k]
  <2> DEFINE a == Offset[k - 1]
             w == Widths[k]
             part == SubSeq(p, a + 1, a + w)
             field == s[k]
  <2>1. a \in Nat /\ w \in Nat /\ a + w <= Len(p) /\ Offset[k] = a + w /\ Len(p) \in Nat
    <3>1. Offset[k - 1] \in Nat /\ Offset[k] = Offset[k - 1] + Widths[k]
          /\ Widths[k] \in 1 .. 16 /\ Offset[k] <= Offset[n] /\ n \in 0 .. n
      BY <1>2, <1>5
    <3>2. Offset[n] \in Nat
      BY <1>2, <3>1
    <3>3. Widths[k] \in Nat /\ Len(p) \in Nat
      <4>1. Widths[k] \in Nat
        BY <3>1
      <4>2. Len(p) \in Nat
        BY <1>1
      <4>3. QED
        BY <4>1, <4>2
    <3>4. Offset[k] = a + w /\ Offset[k] <= Len(p)
      BY <1>1, <3>1
    <3>5. a + w <= Len(p)
      BY <3>4
    <3>6. QED
      BY <3>1, <3>3, <3>4, <3>5
  <2>2. \A j \in 1 .. w : p[a + j] = field[j]
    BY <1>1
  <2>3. field \in Seq({0, 1}) /\ Len(field) = w
    BY <1>3
  <2> HIDE DEF a, w, field
  <2>4. part \in Seq({0, 1}) /\ Len(part) = w /\ \A j \in 1 .. w : part[j] = p[a + j]
    <3>1. part \in Seq({0, 1}) /\ Len(part) = w
      BY <1>1, <2>1
    <3>2. ASSUME NEW j \in 1 .. w PROVE part[j] = p[a + j]
      <4>1. part[j] = p[a + 1 + j - 1] /\ a + 1 + j - 1 = a + j
        BY <1>1, <2>1
      <4>2. QED
        BY <4>1
    <3>3. QED
      BY <3>1, <3>2
  <2> HIDE DEF part
  <2>5. \A j \in 1 .. w : part[j] = field[j]
    BY <2>2, <2>4
  <2>6. part = field
    BY <2>3, <2>4, <2>5
  <2>7. QED
    BY <2>1, <2>6 DEF part, a, field
<1>8. \A k \in 1 .. n : ValueOf(SubSeq(p, Offset[k - 1] + 1, Offset[k])) = f[k]
  BY <1>3, <1>7
<1>9. f = [k \in 1 .. n |-> f[k]]
  BY <1>2, <1>3
<1>10. Unpack(p) = f
  BY <1>6, <1>8, <1>9
<1>11. QED
  BY <1>1, <1>10 DEF p, n, FrameBits

-----------------------------------------------------------------------------
(* SerialFile: reading.                                                    *)

\* The words of a file.
SerialWords == {"good", "bad", "length", "1", "0", "zero", "other"}

\* What a reader says when no whole frame is left.
CutShort == {"EOF", "unexpected EOF"}

\* What a call of a reader can return.
Readings ==
  [error : CutShort \cup {"sync", "length", "bit", ""}, next : Nat,
   bits : Seq({0, 1}), bad : BOOLEAN]

LEMMA FrameWordsAre ==
  FrameBits \in Nat \ {0} /\ FrameWords \in Nat /\ FrameWords = 2 + FrameBits
BY OffsetBound DEF FrameWords

\* A reader is told of the end exactly where the file has no whole frame left,
\* and otherwise moves on by a frame, whatever was wrong with it.
LEMMA ReadIs ==
  ASSUME NEW file \in Seq(SerialWords), NEW at \in Nat, NEW lenient \in BOOLEAN
  PROVE  LET r == ReadG192Frame(file, at, lenient)
         IN  /\ r \in Readings /\ r.error = FirstError(file, at, lenient)
             /\ r.error = "EOF" <=> at = Len(file)
             /\ r.error \in CutShort <=> at + FrameWords > Len(file)
             /\ r.error \notin CutShort => r.next = at + FrameWords
<1> DEFINE r == ReadG192Frame(file, at, lenient)
           e == FirstError(file, at, lenient)
           data == SubSeq(file, at + 3, at + FrameWords)
           bits == IF e # "" THEN <<>>
                   ELSE [i \in 1 .. FrameBits |-> IF data[i] = "1" THEN 1 ELSE 0]
           next == Consumed(file, at, e)
           bad == e = "" /\ IsBad(file[at + 1], data)
<1>1. Len(file) \in Nat /\ FrameBits \in Nat \ {0} /\ FrameWords \in Nat /\ FrameWords = 2 + FrameBits
  BY FrameWordsAre
<1>2. r = [error |-> e, next |-> next, bits |-> bits, bad |-> bad]
  BY DEF ReadG192Frame
<1>3. /\ e \in CutShort \cup {"sync", "length", "bit", ""}
      /\ e = "EOF" <=> at = Len(file)
      /\ e \in CutShort <=> at + FrameWords > Len(file)
  <2>1. at = Len(file) => at + FrameWords > Len(file)
    BY <1>1
  <2> DEFINE Wrong == \E i \in at + 3 .. at + FrameWords :
                        file[i] \notin {"1", "0"} \cup IF lenient THEN {"zero"} ELSE {}
  <2>2. e = IF at = Len(file) THEN "EOF"
            ELSE IF at + FrameWords > Len(file) THEN "unexpected EOF"
            ELSE IF file[at + 1] \notin {"good", "bad"} THEN "sync"
            ELSE IF file[at + 2] # "length" THEN "length"
            ELSE IF Wrong THEN "bit" ELSE ""
    BY DEF FirstError
  <2> HIDE DEF e, Wrong
  <2>3. QED
    BY <2>1, <2>2 DEF CutShort
<1>4. next \in Nat /\ (e \notin CutShort => next = at + FrameWords)
  <2>1. next = IF at + FrameWords > Len(file) THEN Len(file) ELSE at + FrameWords
    BY DEF Consumed
  <2>2. e \notin CutShort => ~(at + FrameWords > Len(file))
    BY <1>3
  <2>3. at + FrameWords \in Nat
    BY <1>1
  <2> HIDE DEF e, next
  <2>4. QED
    BY <1>1, <2>1, <2>2, <2>3
<1>5. bits \in Seq({0, 1})
  <2>1. CASE e # ""
    <3>1. bits = <<>>
      BY <2>1
    <3>2. <<>> \in Seq({0, 1})
      OBVIOUS
    <3> HIDE DEF bits
    <3>3. QED
      BY <3>1, <3>2
  <2>2. CASE e = ""
    <3>1. bits = [i \in 1 .. FrameBits |-> IF data[i] = "1" THEN 1 ELSE 0]
      BY <2>2
    <3> HIDE DEF bits, data
    <3>2. bits \in [1 .. FrameBits -> {0, 1}]
      BY <3>1
    <3>3. QED
      BY <1>1, <3>2
  <2> HIDE DEF e, bits
  <2>3. QED
    BY <2>1, <2>2
<1>6. bad \in BOOLEAN
  OBVIOUS
<1> HIDE DEF e, next, bits, bad, data
<1>7. r \in Readings
  <2> HIDE DEF r
  <2>1. QED
    BY <1>2, <1>3, <1>4, <1>5, <1>6 DEF Readings
<1>8. r.error = e /\ r.next = next
  BY <1>2
<1>9. QED
  BY <1>3, <1>4, <1>7, <1>8 DEF e

\* Two parts of a file behind each other.
LEMMA WordsJoin ==
  ASSUME NEW a \in Seq(SerialWords), NEW b \in Seq(SerialWords)
  PROVE  /\ a \o b \in Seq(SerialWords) /\ Len(a \o b) = Len(a) + Len(b)
         /\ \A i \in 1 .. Len(a) : (a \o b)[i] = a[i]
         /\ \A i \in 1 .. Len(b) : (a \o b)[Len(a) + i] = b[i]
  OBVIOUS

\* The words of a frame.
LEMMA G192Is ==
  ASSUME NEW f \in FrameValues, NEW bad \in BOOLEAN
  PROVE  /\ G192(f, bad) \in Seq(SerialWords) /\ Len(G192(f, bad)) = FrameWords
         /\ G192(f, bad)[1] = IF bad THEN "bad" ELSE "good"
         /\ G192(f, bad)[2] = "length"
         /\ \A i \in 1 .. FrameBits :
              G192(f, bad)[2 + i] = IF Pack(f)[i] = 1 THEN "1" ELSE "0"
<1> DEFINE head == <<IF bad THEN "bad" ELSE "good", "length">>
           body == [i \in 1 .. FrameBits |-> IF Pack(f)[i] = 1 THEN "1" ELSE "0"]
<1>1. FrameBits \in Nat /\ FrameWords = 2 + FrameBits
  BY FrameWordsAre
<1>2. G192(f, bad) = head \o body
  BY DEF G192
<1>3. /\ head \in Seq(SerialWords) /\ Len(head) = 2
      /\ head[1] = (IF bad THEN "bad" ELSE "good") /\ head[2] = "length"
  BY DEF SerialWords
<1>4. /\ body \in Seq(SerialWords) /\ Len(body) = FrameBits
      /\ \A i \in 1 .. FrameBits : body[i] = IF Pack(f)[i] = 1 THEN "1" ELSE "0"
  <2>1. body \in [1 .. FrameBits -> SerialWords]
    BY DEF SerialWords
  <2>2. QED
    BY <1>1, <2>1
<1> HIDE DEF head, body
<1> DEFINE all == head \o body
<1>5. /\ all \in Seq(SerialWords) /\ Len(all) = Len(head) + Len(body)
      /\ \A i \in 1 .. Len(head) : all[i] = head[i]
      /\ \A i \in 1 .. Len(body) : all[Len(head) + i] = body[i]
  BY <1>3, <1>4, WordsJoin
<1> HIDE DEF all
<1>6. all[1] = head[1] /\ all[2] = head[2] /\ Len(all) = 2 + FrameBits
  <2>1. 1 \in 1 .. 2 /\ 2 \in 1 .. 2
    OBVIOUS
  <2>2. QED
    BY <1>3, <1>4, <1>5, <2>1
<1>7. \A i \in 1 .. FrameBits : all[2 + i] = body[i]
  BY <1>3, <1>4, <1>5
<1>8. QED
  BY <1>1, <1>2, <1>3, <1>4, <1>5, <1>6, <1>7 DEF all

\* Where the words of a frame are.
IsFrame(file, at, f, bad) ==
  \A i \in 1 .. FrameWords : file[at + i] = G192(f, bad)[i]

\* A frame as it was written is read as it was written.
LEMMA CleanRead ==
  ASSUME NEW file \in Seq(SerialWords), NEW at \in Nat, NEW lenient \in BOOLEAN,
         NEW f \in FrameValues, NEW bad \in BOOLEAN,
         at + FrameWords <= Len(file), IsFrame(file, at, f, bad)
  PROVE  LET r == ReadG192Frame(file, at, lenient)
         IN  r.error = "" /\ Unpack(r.bits) = f /\ r.bad = bad
<1> DEFINE r == ReadG192Frame(file, at, lenient)
           e == FirstError(file, at, lenient)
           data == SubSeq(file, at + 3, at + FrameWords)
           allowed == {"1", "0"} \cup IF lenient THEN {"zero"} ELSE {}
<1>1. Len(file) \in Nat /\ FrameBits \in Nat \ {0} /\ FrameWords \in Nat /\ FrameWords = 2 + FrameBits
  BY FrameWordsAre
<1>2. /\ file[at + 1] = IF bad THEN "bad" ELSE "good"
      /\ file[at + 2] = "length"
  <2>1. 1 \in 1 .. FrameWords /\ 2 \in 1 .. FrameWords
    BY <1>1
  <2>2. QED
    BY <2>1, G192Is DEF IsFrame
<1>3. \A i \in 1 .. FrameBits : file[at + (2 + i)] = IF Pack(f)[i] = 1 THEN "1" ELSE "0"
  <2>1. \A i \in 1 .. FrameBits : 2 + i \in 1 .. FrameWords
    BY <1>1
  <2>2. QED
    BY <2>1, G192Is DEF IsFrame
<1>4. e = ""
  <2>1. at # Len(file) /\ ~(at + FrameWords > Len(file))
    BY <1>1
  <2>2. ASSUME NEW i \in at + 3 .. at + FrameWords PROVE file[i] \in allowed
    <3> DEFINE j == i - (at + 2)
    <3>1. j \in 1 .. FrameBits /\ at + (2 + j) = i
      BY <1>1
    <3> HIDE DEF j
    <3>2. file[i] \in {"1", "0"}
      BY <1>3, <3>1
    <3>3. QED
      BY <3>2
  <2>3. file[at + 1] \in {"good", "bad"}
    BY <1>2
  <2>4. QED
    BY <1>2, <2>1, <2>2, <2>3 DEF FirstError
<1>5. r = [error |-> e, next |-> Consumed(file, at, e),
           bits |-> IF e # "" THEN <<>>
                    ELSE [i \in 1 .. FrameBits |-> IF data[i] = "1" THEN 1 ELSE 0],
           bad |-> e = "" /\ IsBad(file[at + 1], data)]
  BY DEF ReadG192Frame
<1>6. DOMAIN data = 1 .. FrameBits /\ \A i \in 1 .. FrameBits : data[i] = file[at + (2 + i)]
  <2>1. data \in Seq(SerialWords) /\ Len(data) = FrameBits
    BY <1>1
  <2>2. DOMAIN data = 1 .. FrameBits
    BY <1>1, <2>1
  <2>3. ASSUME NEW i \in 1 .. FrameBits PROVE data[i] = file[at + (2 + i)]
    <3>1. data[i] = file[at + 3 + i - 1] /\ at + 3 + i - 1 = at + (2 + i)
      BY <1>1
    <3>2. QED
      BY <3>1
  <2>4. QED
    BY <2>2, <2>3
<1> HIDE DEF data, e, r
<1>7. r.error = "" /\ r.bits = Pack(f)
  <2>1. Pack(f) \in Seq({0, 1}) /\ Len(Pack(f)) = FrameBits
    BY UnpackIs
  <2>2. Pack(f) = [i \in 1 .. FrameBits |-> Pack(f)[i]]
        /\ \A i \in 1 .. FrameBits : Pack(f)[i] \in {0, 1}
    BY <1>1, <2>1
  <2>3. ASSUME NEW i \in 1 .. FrameBits
        PROVE  (IF data[i] = "1" THEN 1 ELSE 0) = Pack(f)[i]
    <3>1. data[i] = IF Pack(f)[i] = 1 THEN "1" ELSE "0"
      BY <1>3, <1>6
    <3>2. QED
      BY <2>2, <3>1
  <2>4. r.error = "" /\ r.bits = [i \in 1 .. FrameBits |-> IF data[i] = "1" THEN 1 ELSE 0]
    BY <1>4, <1>5
  <2>5. QED
    BY <2>2, <2>3, <2>4
<1>8. r.bad <=> bad
  <2>1. 1 \in 1 .. FrameBits
    BY <1>1
  <2>2. data[1] \in {"1", "0"}
    BY <1>3, <1>6, <2>1
  <2>3. IsBad(file[at + 1], data) <=> bad
    BY <1>2, <1>6, <2>1, <2>2 DEF IsBad
  <2>4. r.bad <=> IsBad(file[at + 1], data)
    BY <1>4, <1>5
  <2>5. QED
    BY <2>3, <2>4
<1>9. r.bad \in BOOLEAN
  BY ReadIs DEF Readings, r
<1>10. Unpack(r.bits) = f
  BY <1>7, UnpackIs
<1>11. r.bad = bad
  BY <1>8, <1>9
<1>12. QED
  BY <1>7, <1>10, <1>11 DEF r

-----------------------------------------------------------------------------
(* SerialFile: a file's life.                                              *)

\* Frames do not overlap.
LEMMA FramesApart ==
  ASSUME NEW j \in Nat, NEW k \in Nat, j < k
  PROVE  /\ j * FrameWords \in Nat /\ (k - 1) * FrameWords \in Nat
         /\ j * FrameWords <= (k - 1) * FrameWords
         /\ k * FrameWords = (k - 1) * FrameWords + FrameWords
<1>1. FrameWords \in Nat
  BY FrameWordsAre
<1> DEFINE w == FrameWords
<1> HIDE DEF w
<1>2. \A x, d \in Nat : x * w \in Nat /\ d * w \in Nat /\ (x + d) * w = x * w + d * w
  BY <1>1 DEF w
<1>3. j \in Nat /\ k - 1 \in Nat /\ k - 1 - j \in Nat /\ j + (k - 1 - j) = k - 1
  OBVIOUS
<1>4. (k - 1) * w = j * w + (k - 1 - j) * w
  BY <1>2, <1>3
<1>5. k * w = (k - 1) * w + w
  BY <1>1 DEF w
<1>6. j * w \in Nat /\ (k - 1 - j) * w \in Nat /\ (k - 1) * w \in Nat
  BY <1>2, <1>3
<1>7. QED
  BY <1>4, <1>5, <1>6 DEF w

\* Frame k is in the file as it was written.
Whole(k) ==
  /\ k * FrameWords <= Len(words)
  /\ IsFrame(words, (k - 1) * FrameWords, frames[k][1], frames[k][2])

\* Where the frames of the file are, and how long it can be.
FileInv ==
  /\ words \in Seq(SerialWords) /\ frames \in Seq(FrameValues \X BOOLEAN)
  /\ Len(frames) <= MaxFrames /\ touched \subseteq DOMAIN frames /\ faults \in Nat
  /\ Len(words) <= Len(frames) * FrameWords
  /\ faults = 0 => Len(words) = Len(frames) * FrameWords
  /\ \A k \in DOMAIN frames \ touched : Whole(k)

\* What was read is what is there, frame by frame.
ReaderInv ==
  /\ position \in Nat \cup {-1} /\ strict \in BOOLEAN /\ readings \in Seq(Readings)
  /\ position = -1 => readings = <<>>
  /\ \A k \in 1 .. Len(readings) :
       readings[k] = ReadG192Frame(words, (k - 1) * FrameWords, ~strict)
  /\ position # -1 /\ (\A k \in 1 .. Len(readings) : readings[k].error \notin CutShort) =>
       position = Len(readings) * FrameWords

\* The inductive invariant.
SerialInv == FileInv /\ ReaderInv

\* A frame that is written is behind the others.
LEMMA WriteKeepsFile ==
  ASSUME FileInv, NEW f \in FrameValues, NEW bad \in BOOLEAN, WriteFrame(f, bad)
  PROVE  FileInv'
<1> DEFINE g == G192(f, bad)
           n == Len(frames)
<1>1. /\ words \in Seq(SerialWords) /\ frames \in Seq(FrameValues \X BOOLEAN)
      /\ n \in Nat /\ Len(words) \in Nat /\ Len(words) = n * FrameWords
      /\ n < MaxFrames /\ faults = 0 /\ touched \subseteq 1 .. n
      /\ words' = words \o g /\ frames' = Append(frames, <<f, bad>>)
      /\ touched' = touched /\ faults' = faults
  BY DEF FileInv, WriteFrame
<1>2. g \in Seq(SerialWords) /\ Len(g) = FrameWords /\ FrameWords \in Nat /\ MaxFrames \in Nat
  BY G192Is, FrameWordsAre, SerialAssumption
<1> HIDE DEF g
<1>3. /\ words' \in Seq(SerialWords) /\ Len(words') = Len(words) + FrameWords
      /\ \A i \in 1 .. Len(words) : words'[i] = words[i]
      /\ \A i \in 1 .. FrameWords : words'[Len(words) + i] = g[i]
  BY <1>1, <1>2, WordsJoin
<1>4. /\ frames' \in Seq(FrameValues \X BOOLEAN) /\ Len(frames') = n + 1
      /\ DOMAIN frames' = 1 .. n + 1
      /\ frames'[n + 1] = <<f, bad>> /\ \A k \in 1 .. n : frames'[k] = frames[k]
  BY <1>1
<1>5. Len(words') = (n + 1) * FrameWords /\ n + 1 <= MaxFrames
  BY <1>1, <1>2, <1>3
<1>6. ASSUME NEW k \in (DOMAIN frames \ touched)' PROVE Whole(k)'
  <2>0. k \in 1 .. n + 1 /\ k \notin touched
    BY <1>1, <1>4
  <2>1. CASE k = n + 1
    <3>1. (k - 1) * FrameWords = Len(words)
      BY <1>1, <2>1
    <3>2. frames'[k][1] = f /\ frames'[k][2] = bad
      BY <1>4, <2>1
    <3>3. IsFrame(words, (k - 1) * FrameWords, frames[k][1], frames[k][2])'
      BY <1>3, <3>1, <3>2 DEF IsFrame, g, FrameWords, G192
    <3>4. (k * FrameWords)' <= Len(words')
      BY <1>2, <1>3, <1>5, <2>1 
    <3>5. QED
      BY <3>3, <3>4 DEF Whole
  <2>2. CASE k # n + 1
    <3>1. k \in 1 .. n /\ k \in DOMAIN frames \ touched
      BY <1>1, <2>0, <2>2
    <3>2. Whole(k)
      BY <3>1 DEF FileInv
    <3>3. frames'[k] = frames[k]
      BY <1>4, <3>1
    <3>4. (k - 1) * FrameWords \in Nat /\ k * FrameWords = (k - 1) * FrameWords + FrameWords
      BY <3>1, FramesApart
    <3>5. ASSUME NEW i \in 1 .. FrameWords
          PROVE  words'[(k - 1) * FrameWords + i] = words[(k - 1) * FrameWords + i]
      <4>1. (k - 1) * FrameWords + i \in 1 .. Len(words)
        <5>1. (k - 1) * FrameWords + FrameWords <= Len(words)
          BY <3>2, <3>4 DEF Whole
        <5>2. \A x, y, z \in Nat : x + y <= z => \A j \in 1 .. y : x + j \in 1 .. z
          OBVIOUS
        <5>3. QED
          BY <1>1, <1>2, <3>4, <5>1, <5>2
      <4>2. QED
        BY <1>3, <4>1
    <3>6. k * FrameWords <= Len(words')
      <4>1. k * FrameWords \in Nat
        BY <1>2, <3>1, <3>4
      <4>2. QED
        BY <1>1, <1>2, <1>3, <3>2, <4>1 DEF Whole
    <3>7. QED
      BY <3>2, <3>3, <3>5, <3>6 DEF Whole, IsFrame
  <2>3. QED
    BY <2>1, <2>2
<1>7. QED
  BY <1>1, <1>3, <1>4, <1>5, <1>6 DEF FileInv

\* A fault reaches no word of a frame it does not touch.
LEMMA FaultKeepsFile ==
  ASSUME FileInv, frames' = frames, faults' = faults + 1,
         words' \in Seq(SerialWords), Len(words') <= Len(words),
         touched \subseteq touched', touched' \subseteq DOMAIN frames,
         \A k \in DOMAIN frames \ touched' :
            /\ k * FrameWords <= Len(words) => k * FrameWords <= Len(words')
            /\ \A i \in (k - 1) * FrameWords + 1 .. k * FrameWords :
                 i <= Len(words') => words'[i] = words[i]
  PROVE  FileInv'
<1>1. FrameWords \in Nat
  BY FrameWordsAre
<1>2. ASSUME NEW k \in (DOMAIN frames \ touched)' PROVE Whole(k)'
  <2>1. k \in DOMAIN frames \ touched /\ k \in DOMAIN frames \ touched'
    OBVIOUS
  <2>2. Whole(k) /\ k \in Nat \ {0}
    BY <2>1 DEF FileInv
  <2>3. (k - 1) * FrameWords \in Nat /\ k * FrameWords = (k - 1) * FrameWords + FrameWords
    BY <2>2, FramesApart
  <2>4. k * FrameWords <= Len(words')
    BY <2>1, <2>2 DEF Whole
  <2>5. ASSUME NEW i \in 1 .. FrameWords
        PROVE  words'[(k - 1) * FrameWords + i] = words[(k - 1) * FrameWords + i]
    <3>1. (k - 1) * FrameWords + i \in (k - 1) * FrameWords + 1 .. k * FrameWords
      BY <1>1, <2>3
    <3>2. (k - 1) * FrameWords + i <= Len(words')
      <4>1. Len(words') \in Nat
        OBVIOUS
      <4>2. QED
        BY <1>1, <2>3, <2>4, <4>1
    <3>3. QED
      BY <2>1, <3>1, <3>2
  <2>6. QED
    BY <2>2, <2>4, <2>5 DEF Whole, IsFrame
<1>3. Len(words') <= Len(frames) * FrameWords
  <2>1. Len(frames) \in Nat /\ Len(words) \in Nat /\ Len(words') \in Nat
        /\ Len(words) <= Len(frames) * FrameWords
    BY DEF FileInv
  <2>2. Len(frames) * FrameWords \in Nat
    BY <1>1, <2>1
  <2>3. QED
    BY <2>1, <2>2
<1>4. faults' \in Nat /\ faults' # 0
  BY DEF FileInv
<1>5. QED
  BY <1>2, <1>3, <1>4 DEF FileInv

LEMMA DamageKeepsFile ==
  ASSUME FileInv, NEW k \in DOMAIN frames, NEW i \in {1, 2, FrameWords},
         NEW put \in {"bad", "zero", "other"}, Damage(k, i, put)
  PROVE  FileInv'
<1> DEFINE at == (k - 1) * FrameWords + i
<1>1. /\ frames' = frames /\ faults' = faults + 1 /\ touched' = touched \cup {k}
      /\ words' = [words EXCEPT ![at] = put] /\ words \in Seq(SerialWords)
      /\ touched \subseteq DOMAIN frames
  BY DEF Damage, Faulty, FileInv
<1>2. words' \in Seq(SerialWords) /\ Len(words') = Len(words) /\ Len(words) \in Nat
  <2>1. put \in SerialWords
    BY DEF SerialWords
  <2>2. /\ Len(words) \in Nat /\ words \in [1 .. Len(words) -> SerialWords]
    BY <1>1
  <2> HIDE DEF at
  <2>3. words' \in [1 .. Len(words) -> SerialWords]
    BY <1>1, <2>1, <2>2
  <2>4. QED
    BY <2>2, <2>3
<1>3. FrameWords \in Nat /\ FrameWords >= 3 /\ i \in 1 .. FrameWords
  BY FrameWordsAre
<1>4. k \in Nat \ {0} /\ DOMAIN frames \subseteq Nat \ {0}
  BY DEF FileInv
<1>5. /\ (k - 1) * FrameWords \in Nat /\ k * FrameWords = (k - 1) * FrameWords + FrameWords
  BY <1>4, FramesApart
<1>6. ASSUME NEW j \in DOMAIN frames \ touched',
             NEW m \in (j - 1) * FrameWords + 1 .. j * FrameWords, m <= Len(words')
      PROVE  words'[m] = words[m]
  <2>1. j \in Nat \ {0} /\ j # k
    BY <1>1, <1>4
  <2>2. (j - 1) * FrameWords \in Nat /\ j * FrameWords = (j - 1) * FrameWords + FrameWords
    BY <2>1, FramesApart
  <2>3. CASE j < k
    <3>1. j * FrameWords <= (k - 1) * FrameWords
      BY <1>4, <2>1, <2>3, FramesApart
    <3>2. m \in Nat /\ m # at
      BY <1>3, <1>5, <2>2, <3>1
    <3>3. m \in 1 .. Len(words)
      BY <1>2, <1>6, <2>2
    <3> HIDE DEF at
    <3>4. QED
      BY <1>1, <3>2, <3>3
  <2>4. CASE k < j
    <3>1. k * FrameWords <= (j - 1) * FrameWords
      BY <1>4, <2>1, <2>4, FramesApart
    <3>2. m \in Nat /\ m # at
      BY <1>3, <1>5, <2>2, <3>1
    <3>3. m \in 1 .. Len(words)
      BY <1>2, <1>6, <2>2
    <3> HIDE DEF at
    <3>4. QED
      BY <1>1, <3>2, <3>3
  <2>5. QED
    BY <1>4, <2>1, <2>3, <2>4
<1>7. touched \subseteq touched' /\ touched' \subseteq DOMAIN frames /\ Len(words') <= Len(words)
  BY <1>1, <1>2
<1>8. QED
  BY <1>1, <1>2, <1>6, <1>7, FaultKeepsFile

LEMMA EraseKeepsFile ==
  ASSUME FileInv, NEW k \in DOMAIN frames, EraseBits(k)
  PROVE  FileInv'
<1> DEFINE erased == (k - 1) * FrameWords + 3 .. k * FrameWords
           new == [i \in DOMAIN words |-> IF i \in erased THEN "zero" ELSE words[i]]
<1>1. /\ frames' = frames /\ faults' = faults + 1 /\ touched' = touched \cup {k}
      /\ words' = new /\ words \in Seq(SerialWords) /\ touched \subseteq DOMAIN frames
  BY DEF EraseBits, Faulty, FileInv
<1>2. words' \in Seq(SerialWords) /\ Len(words') = Len(words) /\ Len(words) \in Nat
  <2>1. Len(words) \in Nat /\ DOMAIN words = 1 .. Len(words)
        /\ \A i \in 1 .. Len(words) : words[i] \in SerialWords
    BY <1>1
  <2> HIDE DEF erased
  <2>2. new \in [1 .. Len(words) -> SerialWords]
    BY <2>1 DEF SerialWords
  <2> HIDE DEF new
  <2>3. new \in Seq(SerialWords) /\ Len(new) = Len(words)
    BY <2>1, <2>2
  <2>4. QED
    BY <1>1, <2>1, <2>3
<1>3. FrameWords \in Nat /\ FrameWords >= 3
  BY FrameWordsAre
<1>4. k \in Nat \ {0} /\ DOMAIN frames \subseteq Nat \ {0}
  BY DEF FileInv
<1>5. /\ (k - 1) * FrameWords \in Nat /\ k * FrameWords = (k - 1) * FrameWords + FrameWords
  BY <1>4, FramesApart
<1>6. ASSUME NEW j \in DOMAIN frames \ touched',
             NEW m \in (j - 1) * FrameWords + 1 .. j * FrameWords, m <= Len(words')
      PROVE  words'[m] = words[m]
  <2>1. j \in Nat \ {0} /\ j # k
    BY <1>1, <1>4
  <2>2. (j - 1) * FrameWords \in Nat /\ j * FrameWords = (j - 1) * FrameWords + FrameWords
    BY <2>1, FramesApart
  <2>3. CASE j < k
    <3>1. j * FrameWords <= (k - 1) * FrameWords
      BY <1>4, <2>1, <2>3, FramesApart
    <3>2. m \notin erased
      BY <1>3, <1>5, <2>2, <3>1
    <3>3. m \in DOMAIN words
      BY <1>1, <1>2, <1>6, <2>2
    <3> HIDE DEF erased
    <3>4. QED
      BY <1>1, <3>2, <3>3
  <2>4. CASE k < j
    <3>1. k * FrameWords <= (j - 1) * FrameWords
      BY <1>4, <2>1, <2>4, FramesApart
    <3>2. m \notin erased
      BY <1>3, <1>5, <2>2, <3>1
    <3>3. m \in DOMAIN words
      BY <1>1, <1>2, <1>6, <2>2
    <3> HIDE DEF erased
    <3>4. QED
      BY <1>1, <3>2, <3>3
  <2>5. QED
    BY <1>4, <2>1, <2>3, <2>4
<1> HIDE DEF new, erased
<1>7. touched \subseteq touched' /\ touched' \subseteq DOMAIN frames /\ Len(words') <= Len(words)
  BY <1>1, <1>2
<1>8. QED
  BY <1>1, <1>2, <1>6, <1>7, FaultKeepsFile

LEMMA CutKeepsFile ==
  ASSUME FileInv, NEW k \in DOMAIN frames, NEW i \in {0, 1, FrameWords - 1}, Cut(k, i)
  PROVE  FileInv'
<1> DEFINE left == (k - 1) * FrameWords + i
           n == Len(frames)
<1>1. /\ frames' = frames /\ faults' = faults + 1 /\ touched' = touched \cup k .. n
      /\ words' = SubSeq(words, 1, left) /\ left < Len(words)
      /\ words \in Seq(SerialWords) /\ touched \subseteq DOMAIN frames
  BY DEF Cut, Faulty, FileInv
<1>2. FrameWords \in Nat /\ FrameWords >= 3 /\ i \in Nat
  BY FrameWordsAre
<1>3. n \in Nat /\ DOMAIN frames = 1 .. n /\ k \in 1 .. n
  BY DEF FileInv
<1>4. (k - 1) * FrameWords \in Nat
  BY <1>3, FramesApart
<1>5. left \in Nat /\ left >= (k - 1) * FrameWords /\ Len(words) \in Nat
  BY <1>1, <1>2, <1>4
<1> HIDE DEF left, n
<1>6. /\ words' \in Seq(SerialWords) /\ Len(words') = left
      /\ \A m \in 1 .. left : words'[m] = words[m]
  <2>1. words' \in Seq(SerialWords) /\ Len(words') = left
    BY <1>1, <1>5
  <2>2. ASSUME NEW m \in 1 .. left PROVE words'[m] = words[m]
    <3>1. words'[m] = words[1 + m - 1] /\ 1 + m - 1 = m
      BY <1>1, <1>5
    <3>2. QED
      BY <3>1
  <2>3. QED
    BY <2>1, <2>2
<1>7. ASSUME NEW j \in DOMAIN frames \ touched'
      PROVE  /\ j * FrameWords <= Len(words')
             /\ \A m \in (j - 1) * FrameWords + 1 .. j * FrameWords : words'[m] = words[m]
  <2>1. j \in 1 .. n /\ j < k
    BY <1>1, <1>3
  <2>2. /\ j * FrameWords <= (k - 1) * FrameWords /\ j * FrameWords \in Nat
        /\ (j - 1) * FrameWords \in Nat
    BY <1>3, <2>1, FramesApart
  <2>3. j * FrameWords <= left
    BY <1>4, <1>5, <2>2
  <2>4. \A m \in (j - 1) * FrameWords + 1 .. j * FrameWords : m \in 1 .. left
    BY <1>5, <2>2, <2>3
  <2>5. QED
    BY <1>6, <2>3, <2>4
<1>8. touched \subseteq touched' /\ touched' \subseteq DOMAIN frames /\ Len(words') <= Len(words)
  BY <1>1, <1>3, <1>5, <1>6
<1>9. QED
  BY <1>1, <1>6, <1>7, <1>8, FaultKeepsFile

\* A reader that has not been told of the end is where its next frame begins.
LEMMA ReadKeepsReader ==
  ASSUME FileInv, ReaderInv, Read
  PROVE  ReaderInv'
<1> DEFINE r == ReadG192Frame(words, position, ~strict)
           n == Len(readings)
<1>1. /\ position \in Nat /\ strict \in BOOLEAN /\ readings \in Seq(Readings)
      /\ readings' = Append(readings, r) /\ position' = r.next
      /\ words' = words /\ strict' = strict
      /\ \A k \in 1 .. n : readings[k] = ReadG192Frame(words, (k - 1) * FrameWords, ~strict)
  <2>1. /\ position \in Nat /\ strict \in BOOLEAN /\ readings \in Seq(Readings)
        /\ \A k \in 1 .. n : readings[k] = ReadG192Frame(words, (k - 1) * FrameWords, ~strict)
    <3>1. position \in Nat \cup {-1} /\ position >= 0
      BY DEF ReaderInv, Read
    <3>2. position \in Nat
      BY <3>1
    <3>3. QED
      BY <3>2 DEF ReaderInv
  <2>2. readings' = Append(readings, r) /\ position' = r.next /\ words' = words /\ strict' = strict
    BY DEF Read
  <2>3. QED
    BY <2>1, <2>2
<1>2. \A k \in 1 .. n : readings[k].error \notin CutShort
  <2>1. \A k \in 1 .. n : readings[k] \in ToSet(readings)
    BY <1>1 DEF ToSet
  <2>2. QED
    BY <2>1 DEF Read, CutShort
<1>3. position = n * FrameWords
  <2>1. position # -1
    BY <1>1
  <2>2. QED
    BY <1>2, <2>1 DEF ReaderInv
<1>4. words \in Seq(SerialWords) /\ (~strict) \in BOOLEAN
  BY <1>1 DEF FileInv
<1>5. /\ r \in Readings
      /\ r.error \notin CutShort => r.next = position + FrameWords
  BY <1>1, <1>4, ReadIs
<1>6. r.next \in Nat
  BY <1>5 DEF Readings
<1>7. n \in Nat /\ FrameWords \in Nat
  BY <1>1, FrameWordsAre
<1> DEFINE here == (n + 1 - 1) * FrameWords
<1>8. here = position
  BY <1>3, <1>7
<1>9. r = ReadG192Frame(words, here, ~strict)
  BY <1>8
<1> HIDE DEF r
<1>10. /\ readings' \in Seq(Readings) /\ Len(readings') = n + 1 /\ readings'[n + 1] = r
       /\ \A k \in 1 .. n : readings'[k] = readings[k]
  BY <1>1, <1>5
<1>11. ASSUME NEW k \in 1 .. Len(readings')
       PROVE  readings'[k] = ReadG192Frame(words, (k - 1) * FrameWords, ~strict)'
  <2>1. k \in 1 .. n \/ k = n + 1
    BY <1>7, <1>10
  <2>2. CASE k = n + 1
    BY <1>1, <1>9, <1>10, <2>2
  <2>3. CASE k \in 1 .. n
    BY <1>1, <1>10, <2>3
  <2>4. QED
    BY <2>1, <2>2, <2>3
<1>12. ASSUME \A k \in 1 .. Len(readings') : readings'[k].error \notin CutShort
       PROVE  position' = Len(readings') * FrameWords
  <2>1. r.error \notin CutShort
    <3>1. n + 1 \in 1 .. Len(readings')
      BY <1>7, <1>10
    <3>2. QED
      BY <1>10, <1>12, <3>1
  <2>2. position' = n * FrameWords + FrameWords
    BY <1>1, <1>3, <1>5, <2>1
  <2>3. QED
    BY <1>7, <1>10, <2>2
<1>13. position' \in Nat /\ position' # -1
  BY <1>1, <1>6
<1>14. QED
  BY <1>1, <1>10, <1>11, <1>12, <1>13 DEF ReaderInv

\* The reader is asleep while the file is written and damaged.
LEMMA AsleepKeepsReader ==
  ASSUME ReaderInv, position = -1, UNCHANGED <<position, strict, readings>>
  PROVE  ReaderInv'
<1>1. readings = <<>> /\ 1 .. Len(readings) = {}
  BY DEF ReaderInv
<1>2. QED
  BY <1>1 DEF ReaderInv

\* Writing, damaging, erasing, cutting and reading keep the invariant.
THEOREM SerialIsInductive == SerialSpec => []SerialInv
<1>1. SerialInit => SerialInv
  <2> SUFFICES ASSUME SerialInit PROVE SerialInv
    OBVIOUS
  <2>1. FileInv
    <3>1. words = <<>> /\ frames = <<>> /\ touched = {} /\ faults = 0
      BY DEF SerialInit
    <3>2. FrameWords \in Nat /\ MaxFrames \in Nat /\ 0 * FrameWords = 0
      BY FrameWordsAre, SerialAssumption
    <3>3. Len(words) = 0 /\ Len(frames) = 0 /\ DOMAIN frames = {}
          /\ words \in Seq(SerialWords) /\ frames \in Seq(FrameValues \X BOOLEAN)
      BY <3>1
    <3>4. QED
      BY <3>1, <3>2, <3>3 DEF FileInv
  <2>2. ReaderInv
    BY DEF SerialInit, ReaderInv
  <2>3. QED
    BY <2>1, <2>2 DEF SerialInv
<1>2. SerialInv /\ [SerialNext]_serialVars => SerialInv'
  <2> SUFFICES ASSUME FileInv, ReaderInv, [SerialNext]_serialVars
               PROVE  FileInv' /\ ReaderInv'
    BY DEF SerialInv
  <2>1. ASSUME NEW f \in FrameValues, NEW bad \in BOOLEAN, WriteFrame(f, bad)
        PROVE  FileInv' /\ ReaderInv'
    <3>1. position = -1 /\ UNCHANGED <<position, strict, readings>>
      BY <2>1 DEF WriteFrame
    <3>2. QED
      BY <2>1, <3>1, WriteKeepsFile, AsleepKeepsReader
  <2>2. ASSUME NEW k \in DOMAIN frames, NEW i \in {1, 2, FrameWords},
               NEW put \in {"bad", "zero", "other"}, Damage(k, i, put)
        PROVE  FileInv' /\ ReaderInv'
    <3>1. position = -1 /\ UNCHANGED <<position, strict, readings>>
      BY <2>2 DEF Damage, Faulty
    <3>2. QED
      BY <2>2, <3>1, DamageKeepsFile, AsleepKeepsReader
  <2>3. ASSUME NEW k \in DOMAIN frames, EraseBits(k)
        PROVE  FileInv' /\ ReaderInv'
    <3>1. position = -1 /\ UNCHANGED <<position, strict, readings>>
      BY <2>3 DEF EraseBits, Faulty
    <3>2. QED
      BY <2>3, <3>1, EraseKeepsFile, AsleepKeepsReader
  <2>4. ASSUME NEW k \in DOMAIN frames, NEW i \in {0, 1, FrameWords - 1}, Cut(k, i)
        PROVE  FileInv' /\ ReaderInv'
    <3>1. position = -1 /\ UNCHANGED <<position, strict, readings>>
      BY <2>4 DEF Cut, Faulty
    <3>2. QED
      BY <2>4, <3>1, CutKeepsFile, AsleepKeepsReader
  <2>5. CASE Open
    <3>1. FileInv'
      BY <2>5 DEF Open, FileInv, Whole
    <3>2. /\ position = -1 /\ position' = 0 /\ strict' \in BOOLEAN
          /\ readings' = readings /\ words' = words /\ readings = <<>>
      BY <2>5 DEF Open, ReaderInv
    <3>3. readings' \in Seq(Readings) /\ Len(readings') = 0 /\ 1 .. Len(readings') = {}
      BY <3>2
    <3>4. FrameWords \in Nat /\ 0 * FrameWords = 0
      BY FrameWordsAre
    <3>5. QED
      BY <3>1, <3>2, <3>3, <3>4 DEF ReaderInv
  <2>6. CASE Read
    <3>1. FileInv'
      BY <2>6 DEF Read, FileInv, Whole
    <3>2. QED
      BY <2>6, <3>1, ReadKeepsReader
  <2>7. CASE UNCHANGED serialVars
    BY <2>7 DEF serialVars, FileInv, ReaderInv, Whole
  <2>8. QED
    BY <2>1, <2>2, <2>3, <2>4, <2>5, <2>6, <2>7 DEF SerialNext
<1>3. QED
  BY <1>1, <1>2, PTL DEF SerialSpec

\* A frame no fault touched is read as it was written, at its place, by both
\* readers, whatever layout, frames and faults (g192.go, pack.go).
THEOREM CleanFramesArrive == SerialSpec => []CleanFramesSurvive
<1>1. SerialInv => CleanFramesSurvive
  <2> SUFFICES ASSUME FileInv, ReaderInv,
                      NEW k \in DOMAIN readings, k \in DOMAIN frames, k \notin touched
               PROVE  /\ readings[k].error = ""
                      /\ Unpack(readings[k].bits) = frames[k][1]
                      /\ readings[k].bad = frames[k][2]
    BY DEF SerialInv, CleanFramesSurvive
  <2> DEFINE at == (k - 1) * FrameWords
  <2>1. k \in 1 .. Len(readings) /\ words \in Seq(SerialWords) /\ (~strict) \in BOOLEAN
    BY DEF FileInv, ReaderInv
  <2>2. readings[k] = ReadG192Frame(words, at, ~strict)
    BY <2>1 DEF ReaderInv
  <2>3. Whole(k) /\ frames[k][1] \in FrameValues /\ frames[k][2] \in BOOLEAN
    BY DEF FileInv
  <2>4. at \in Nat /\ at + FrameWords = k * FrameWords
    BY <2>1, FramesApart
  <2>5. at + FrameWords <= Len(words) /\ IsFrame(words, at, frames[k][1], frames[k][2])
    BY <2>3, <2>4 DEF Whole
  <2> DEFINE f == frames[k][1]
             bad == frames[k][2]
             r == ReadG192Frame(words, at, ~strict)
  <2>6. f \in FrameValues /\ bad \in BOOLEAN /\ IsFrame(words, at, f, bad)
    BY <2>3, <2>5
  <2> HIDE DEF at, f, bad
  <2>7. r.error = "" /\ Unpack(r.bits) = f /\ r.bad = bad
    BY <2>1, <2>4, <2>5, <2>6, CleanRead
  <2>8. QED
    BY <2>2, <2>7 DEF f, bad
<1>2. QED
  BY <1>1, SerialIsInductive, PTL

\* The two readers see the same frame, or the strict one an erased bit.
LEMMA TwoReaders ==
  ASSUME NEW file \in Seq(SerialWords), NEW at \in Nat,
         ReadG192Frame(file, at, FALSE) # ReadG192Frame(file, at, TRUE)
  PROVE  LET data == SubSeq(file, at + 3, at + FrameWords)
             loose == ReadG192Frame(file, at, TRUE)
         IN  /\ ReadG192Frame(file, at, FALSE).error = "bit" /\ "zero" \in ToSet(data)
             /\ loose.error = "" => (loose.bad <=> file[at + 1] = "bad" \/ ToSet(data) = {"zero"})
<1> DEFINE t == FirstError(file, at, FALSE)
           l == FirstError(file, at, TRUE)
           data == SubSeq(file, at + 3, at + FrameWords)
           At(i) == at + (2 + i)
           Mixed == \E i \in 1 .. FrameBits : file[At(i)] \notin {"1", "0"}
           Alien == \E i \in 1 .. FrameBits : file[At(i)] \notin {"1", "0", "zero"}
           Whether(e, w) ==
             e = IF at = Len(file) THEN "EOF"
                 ELSE IF at + FrameWords > Len(file) THEN "unexpected EOF"
                 ELSE IF file[at + 1] \notin {"good", "bad"} THEN "sync"
                 ELSE IF file[at + 2] # "length" THEN "length"
                 ELSE IF w THEN "bit" ELSE ""
<1>1. Len(file) \in Nat /\ FrameBits \in Nat \ {0} /\ FrameWords \in Nat /\ FrameWords = 2 + FrameBits
  BY FrameWordsAre
<1>2. /\ \A i \in at + 3 .. at + FrameWords : i - (at + 2) \in 1 .. FrameBits /\ At(i - (at + 2)) = i
      /\ \A i \in 1 .. FrameBits : At(i) \in at + 3 .. at + FrameWords
  BY <1>1
<1> HIDE DEF At
<1>3. /\ (\E i \in at + 3 .. at + FrameWords : file[i] \notin {"1", "0"} \cup {}) <=> Mixed
      /\ (\E i \in at + 3 .. at + FrameWords : file[i] \notin {"1", "0"} \cup {"zero"}) <=> Alien
  <2>1. \A i \in at + 3 .. at + FrameWords : \E j \in 1 .. FrameBits : i = At(j)
    BY <1>2
  <2>2. {"1", "0"} \cup {} = {"1", "0"} /\ {"1", "0"} \cup {"zero"} = {"1", "0", "zero"}
    OBVIOUS
  <2>3. QED
    BY <1>2, <2>1, <2>2
<1>4. Whether(t, Mixed) /\ Whether(l, Alien)
  <2>1. Whether(t, \E i \in at + 3 .. at + FrameWords : file[i] \notin {"1", "0"} \cup {})
    BY DEF FirstError
  <2>2. Whether(l, \E i \in at + 3 .. at + FrameWords : file[i] \notin {"1", "0"} \cup {"zero"})
    BY DEF FirstError
  <2> HIDE DEF Mixed, Alien
  <2>3. QED
    BY <1>3, <2>1, <2>2
<1>5. t # l
  <2> DEFINE Frame(e) ==
               [error |-> e, next |-> Consumed(file, at, e),
                bits |-> IF e # "" THEN <<>>
                         ELSE [i \in 1 .. FrameBits |-> IF data[i] = "1" THEN 1 ELSE 0],
                bad |-> e = "" /\ IsBad(file[at + 1], data)]
  <2>1. ReadG192Frame(file, at, FALSE) = Frame(t) /\ ReadG192Frame(file, at, TRUE) = Frame(l)
    BY DEF ReadG192Frame
  <2> HIDE DEF Frame, t, l
  <2>2. QED
    BY <2>1
<1>6. Alien => Mixed
  OBVIOUS
<1>7. t = "bit" /\ Mixed /\ ~Alien
  <2> HIDE DEF t, l, Mixed, Alien
  <2>1. QED
    BY <1>4, <1>5, <1>6
<1>8. PICK z \in 1 .. FrameBits : file[At(z)] = "zero"
  <2>1. PICK z \in 1 .. FrameBits : file[At(z)] \notin {"1", "0"}
    BY <1>7
  <2>2. file[At(z)] \in {"1", "0", "zero"}
    BY <1>7
  <2>3. QED
    BY <2>1, <2>2
<1>9. at + FrameWords <= Len(file)
  <2>1. ~(at + FrameWords > Len(file))
    <3> HIDE DEF t, l, Mixed, Alien
    <3>1. QED
      BY <1>4, <1>7
  <2>2. QED
    BY <1>1, <2>1
<1>10. DOMAIN data = 1 .. FrameBits /\ \A i \in 1 .. FrameBits : data[i] = file[At(i)]
  <2>1. data \in Seq(SerialWords) /\ Len(data) = FrameBits
    BY <1>1, <1>9
  <2>2. DOMAIN data = 1 .. FrameBits
    BY <1>1, <2>1
  <2>3. ASSUME NEW i \in 1 .. FrameBits PROVE data[i] = file[At(i)]
    <3>1. data[i] = file[at + 3 + i - 1] /\ at + 3 + i - 1 = at + (2 + i)
      BY <1>1, <1>9
    <3>2. QED
      BY <3>1 DEF At
  <2>4. QED
    BY <2>2, <2>3
<1>11. "zero" \in ToSet(data) /\ ToSet(data) = {data[i] : i \in 1 .. FrameBits}
  BY <1>8, <1>10 DEF ToSet
<1> DEFINE loose == ReadG192Frame(file, at, TRUE)
<1>12. ReadG192Frame(file, at, FALSE).error = t /\ loose.error = l
       /\ (loose.bad <=> l = "" /\ IsBad(file[at + 1], data))
  BY DEF ReadG192Frame
<1>13. IsBad(file[at + 1], data) <=> file[at + 1] = "bad" \/ ToSet(data) = {"zero"}
  <2>1. (\A i \in DOMAIN data : data[i] = "zero") <=> ToSet(data) = {"zero"}
    <3> HIDE DEF data
    <3>1. QED
      BY <1>10, <1>11
  <2>2. QED
    BY <2>1 DEF IsBad
<1> HIDE DEF t, l, loose, data
<1>14. QED
  BY <1>7, <1>11, <1>12, <1>13 DEF loose, data

-----------------------------------------------------------------------------

\* Frame k + 1 of a file as the loader sees it.
Loose(file, k) == ReadG192Frame(file, k * FrameWords, TRUE)

Errors == CutShort \cup {"sync", "length", "bit", ""}

Loads == [loaded : Seq(Seq({0, 1}) \X BOOLEAN), error : Errors]

\* What is loaded of a file behind its first k frames.
LoadedFrom(file, k, y) ==
  LET n == Len(y.loaded)
  IN  /\ \A j \in 1 .. n : /\ Loose(file, k + j - 1).error = ""
                           /\ y.loaded[j] = <<Loose(file, k + j - 1).bits, Loose(file, k + j - 1).bad>>
      /\ y.error = "" <=> Len(file) = (k + n) * FrameWords
      /\ y.error # "" => Loose(file, k + n).error = y.error

\* One frame more in front of what is loaded behind it.
LoadOne(r, y) ==
  IF Ends(r.error) THEN [loaded |-> <<>>, error |-> ""]
  ELSE IF r.error # "" THEN [loaded |-> <<>>, error |-> r.error]
  ELSE [y EXCEPT !.loaded = <<<<r.bits, r.bad>>>> \o @]

LEMMA LoadOneIs ==
  ASSUME NEW r \in Readings, NEW y \in Loads
  PROVE  /\ LoadOne(r, y) \in Loads
         /\ r.error = "EOF" => LoadOne(r, y) = [loaded |-> <<>>, error |-> ""]
         /\ r.error \notin {"EOF", ""} => LoadOne(r, y) = [loaded |-> <<>>, error |-> r.error]
         /\ r.error = "" =>
              LET z == LoadOne(r, y)
              IN  /\ z.error = y.error /\ Len(z.loaded) = Len(y.loaded) + 1
                  /\ z.loaded[1] = <<r.bits, r.bad>>
                  /\ \A j \in 1 .. Len(y.loaded) : z.loaded[j + 1] = y.loaded[j]
<1> DEFINE A == Seq({0, 1}) \X BOOLEAN
           p == <<r.bits, r.bad>>
           q == <<p>> \o y.loaded
<1>1. r.error \in Errors /\ r.bits \in Seq({0, 1}) /\ r.bad \in BOOLEAN
  BY DEF Readings, Errors
<1>2. p \in A /\ y.loaded \in Seq(A) /\ y.error \in Errors
  BY <1>1 DEF Loads
<1>3. /\ q \in Seq(A) /\ Len(q) = Len(y.loaded) + 1 /\ q[1] = p
      /\ \A j \in 1 .. Len(y.loaded) : q[j + 1] = y.loaded[j]
  <2> HIDE DEF A, p
  <2>1. QED
    BY <1>2
<1>4. [y EXCEPT !.loaded = q] = [loaded |-> q, error |-> y.error]
  <2>1. y = [loaded |-> y.loaded, error |-> y.error]
    BY DEF Loads
  <2> HIDE DEF q
  <2>2. QED
    BY <2>1
<1>5. r.error = "" => LoadOne(r, y) = [loaded |-> q, error |-> y.error]
  BY <1>4 DEF LoadOne, Ends
<1> DEFINE e == y.error
           z == [loaded |-> q, error |-> e]
<1>6. <<>> \in Seq(A) /\ "" \in Errors
  BY DEF Errors
<1> HIDE DEF A, q, p, e
<1>7. LoadOne(r, y) \in Loads
  <2>1. CASE r.error = ""
    <3>1. e \in Errors /\ q \in Seq(A)
      BY <1>2, <1>3 DEF e
    <3>2. z \in Loads
      BY <3>1 DEF Loads, A
    <3>3. LoadOne(r, y) = z
      BY <1>5, <2>1 DEF e
    <3> HIDE DEF z
    <3>4. QED
      BY <3>2, <3>3
  <2>2. CASE r.error # ""
    <3>1. \/ LoadOne(r, y) = [loaded |-> <<>>, error |-> ""]
          \/ LoadOne(r, y) = [loaded |-> <<>>, error |-> r.error]
      BY <2>2 DEF LoadOne
    <3>2. \A x \in Errors : [loaded |-> <<>>, error |-> x] \in Loads
      BY <1>6 DEF Loads, A
    <3>3. QED
      BY <1>1, <1>6, <3>1, <3>2
  <2>3. QED
    BY <2>1, <2>2
<1>8. /\ r.error = "EOF" => LoadOne(r, y) = [loaded |-> <<>>, error |-> ""]
      /\ r.error \notin {"EOF", ""} => LoadOne(r, y) = [loaded |-> <<>>, error |-> r.error]
  BY DEF LoadOne, Ends
<1>9. r.error = "" => LoadOne(r, y).error = y.error /\ LoadOne(r, y).loaded = q
  <2>1. z.loaded = q /\ z.error = e
    OBVIOUS
  <2>2. r.error = "" => LoadOne(r, y) = z
    BY <1>5 DEF e
  <2> HIDE DEF z
  <2>3. QED
    BY <2>1, <2>2 DEF e
<1>10. p = <<r.bits, r.bad>>
  BY DEF p
<1> HIDE DEF Loads
<1>11. QED
  BY <1>3, <1>7, <1>8, <1>9, <1>10

\* Loading is the frames one after another, from the last on.
LEMMA LoadedIs ==
  ASSUME NEW file \in Seq(SerialWords), Len(file) <= MaxFrames * FrameWords
  PROVE  ReadG192File(file) \in Loads /\ LoadedFrom(file, 0, ReadG192File(file))
<1> DEFINE m == MaxFrames
           last == Loose(file, m)
           base == LoadOne(last, [loaded |-> <<>>, error |-> ""])
           E == [i \in 1 .. m |-> [y \in Loads |-> LoadOne(Loose(file, m - i), y)]]
           IsLoad(g) == g = [k \in 0 .. m |-> LoadOne(Loose(file, k), g[k + 1])]
           h == CHOOSE g : IsLoad(g)
<1>1. m \in Nat /\ FrameWords \in Nat \ {0} /\ Len(file) \in Nat
  BY SerialAssumption, FrameWordsAre
<1>2. ReadG192File(file) = h[0]
  BY DEF ReadG192File, LoadOne, Loose
<1> HIDE DEF h
<1>3. \A k \in Nat : k * FrameWords \in Nat
  BY <1>1
<1>4. ASSUME NEW k \in Nat
      PROVE  /\ Loose(file, k) \in Readings
             /\ Loose(file, k).error = "EOF" <=> Len(file) = k * FrameWords
             /\ Loose(file, k).error \in CutShort <=> k * FrameWords + FrameWords > Len(file)
  <2> DEFINE at == k * FrameWords
  <2>1. at \in Nat /\ TRUE \in BOOLEAN
    BY <1>3
  <2> HIDE DEF at
  <2> DEFINE r == ReadG192Frame(file, at, TRUE)
  <2>2. /\ r \in Readings
        /\ r.error = "EOF" <=> at = Len(file)
        /\ r.error \in CutShort <=> at + FrameWords > Len(file)
    BY <2>1, ReadIs
  <2>3. Loose(file, k) = r
    BY DEF Loose, at
  <2> HIDE DEF r
  <2>4. QED
    BY <2>2, <2>3 DEF at
<1>5. last \in Readings /\ last.error # ""
  <2>1. m * FrameWords + FrameWords > Len(file)
    <3>1. m * FrameWords \in Nat
      BY <1>1, <1>3
    <3>2. QED
      BY <1>1, <3>1
  <2>2. last \in Readings /\ last.error \in CutShort
    BY <1>1, <1>4, <2>1
  <2>3. QED
    BY <2>2 DEF CutShort
<1>6. base \in Loads
  <2> DEFINE e == [loaded |-> <<>>, error |-> ""]
  <2>1. e \in Loads
    BY DEF Loads, Errors
  <2> HIDE DEF e, last
  <2>2. LoadOne(last, e) \in Loads
    BY <1>5, <2>1, LoadOneIs
  <2>3. QED
    BY <2>2 DEF e, last
<1>7. \A y : LoadOne(last, y) = base
  BY <1>5 DEF LoadOne
<1>8. /\ E \in [1 .. m -> [Loads -> Loads]]
      /\ \A i \in 1 .. m : \A y \in Loads : E[i][y] = LoadOne(Loose(file, m - i), y)
  <2>1. ASSUME NEW i \in 1 .. m, NEW y \in Loads
        PROVE  LoadOne(Loose(file, m - i), y) \in Loads
    <3>1. m - i \in Nat
      BY <1>1
    <3>2. Loose(file, m - i) \in Readings
      BY <1>4, <3>1
    <3>3. QED
      BY <3>2, LoadOneIs
  <2>2. QED
    BY <2>1
<1> HIDE DEF E, base, last
<1>9. StepsFrom(Loads, base, m, E)
  BY <1>1, <1>6, <1>8 DEF StepsFrom
<1>10. PICK f : Runs(f, Loads, base, m, E)
  BY <1>9, Recursion
<1>11. /\ f \in [0 .. m -> Loads] /\ f[0] = base
       /\ \A i \in 1 .. m : f[i] = E[i][f[i - 1]]
  BY <1>10 DEF Runs
<1> DEFINE g == [k \in 0 .. m |-> f[m - k]]
<1>12. /\ \A k \in 0 .. m : g[k] = f[m - k] /\ m - k \in 0 .. m
  BY <1>1
<1>13. g = [k \in 0 .. m |-> g[k]]
  OBVIOUS
<1> HIDE DEF g
<1>14. \A k \in 0 .. m : g[k] \in Loads
  BY <1>11, <1>12
<1>15. ASSUME NEW k \in 0 .. m PROVE g[k] = LoadOne(Loose(file, k), g[k + 1])
  <2>1. CASE k = m
    <3>1. g[k] = base
      <4>1. m - k = 0
        BY <1>1, <2>1
      <4>2. QED
        BY <1>11, <1>12, <4>1
    <3>2. QED
      BY <1>7, <2>1, <3>1 DEF last
  <2>2. CASE k # m
    <3>1. /\ m - k \in 1 .. m /\ m - (m - k) = k /\ k + 1 \in 0 .. m
          /\ m - (k + 1) = (m - k) - 1
      BY <1>1, <2>2
    <3>2. g[k + 1] = f[(m - k) - 1] /\ g[k + 1] \in Loads
      BY <1>12, <1>14, <3>1
    <3>3. f[m - k] = E[m - k][g[k + 1]]
      BY <1>11, <3>1, <3>2
    <3>4. E[m - k][g[k + 1]] = LoadOne(Loose(file, k), g[k + 1])
      BY <1>8, <3>1, <3>2
    <3>5. QED
      BY <1>12, <3>3, <3>4
  <2>3. QED
    BY <2>1, <2>2
<1>16. IsLoad(g)
  BY <1>13, <1>15
<1>17. IsLoad(h)
  BY <1>16 DEF h
<1>18. \A k \in 0 .. m : h[k] = LoadOne(Loose(file, k), h[k + 1])
  BY <1>17
<1> DEFINE T == {i \in 0 .. m : h[m - i] \in Loads /\ LoadedFrom(file, m - i, h[m - i])}
\* The frame in front of what is loaded, or the end.
<1>19. ASSUME NEW k \in Nat, NEW y \in Loads,
              Loose(file, k).error = "" => LoadedFrom(file, k + 1, y)
       PROVE  LET z == LoadOne(Loose(file, k), y) IN z \in Loads /\ LoadedFrom(file, k, z)
  <2> DEFINE r == Loose(file, k)
             z == LoadOne(r, y)
  <2>1. /\ r \in Readings
        /\ r.error = "EOF" <=> Len(file) = k * FrameWords
    BY <1>4
  <2>2. k + 0 = k /\ 1 .. 0 = {}
    OBVIOUS
  <2>3. z \in Loads
    <3> HIDE DEF r
    <3>1. QED
      BY <2>1, LoadOneIs
  <2>4. CASE r.error = "EOF"
    <3>1. z = [loaded |-> <<>>, error |-> ""]
      <4> HIDE DEF r
      <4>1. QED
        BY <2>1, <2>4, LoadOneIs
    <3> HIDE DEF z
    <3>2. z.error = "" /\ Len(z.loaded) = 0
      BY <3>1
    <3>3. LoadedFrom(file, k, z)
      BY <2>1, <2>2, <2>4, <3>2 DEF LoadedFrom
    <3>4. QED
      BY <2>3, <3>3 DEF z
  <2>5. CASE r.error \notin {"EOF", ""}
    <3>1. z = [loaded |-> <<>>, error |-> r.error]
      <4> HIDE DEF r
      <4>1. QED
        BY <2>1, <2>5, LoadOneIs
    <3> HIDE DEF z
    <3>2. z.error = r.error /\ Len(z.loaded) = 0
      BY <3>1
    <3>3. LoadedFrom(file, k, z)
      BY <2>1, <2>2, <2>5, <3>2 DEF LoadedFrom
    <3>4. QED
      BY <2>3, <3>3 DEF z
  <2>6. CASE r.error = ""
    <3> DEFINE n == Len(y.loaded)
    <3>1. /\ z.error = y.error /\ Len(z.loaded) = n + 1
          /\ z.loaded[1] = <<r.bits, r.bad>>
          /\ \A j \in 1 .. n : z.loaded[j + 1] = y.loaded[j]
      <4> HIDE DEF r
      <4>1. QED
        BY <2>1, <2>6, LoadOneIs
    <3>2. /\ \A j \in 1 .. n :
                /\ Loose(file, k + 1 + j - 1).error = ""
                /\ y.loaded[j] = <<Loose(file, k + 1 + j - 1).bits, Loose(file, k + 1 + j - 1).bad>>
          /\ y.error = "" <=> Len(file) = (k + 1 + n) * FrameWords
          /\ y.error # "" => Loose(file, k + 1 + n).error = y.error
      BY <1>19, <2>6 DEF LoadedFrom
    <3>3. n \in Nat
      BY DEF Loads
    <3> HIDE DEF n, z
    <3>4. k + 1 + n = k + (n + 1)
      BY <3>3
    <3>5. ASSUME NEW j \in 1 .. n + 1
          PROVE  /\ Loose(file, k + j - 1).error = ""
                 /\ z.loaded[j] = <<Loose(file, k + j - 1).bits, Loose(file, k + j - 1).bad>>
      <4>1. CASE j = 1
        <5>1. k + j - 1 = k
          BY <4>1
        <5>2. QED
          BY <2>6, <3>1, <4>1, <5>1
      <4>2. CASE j # 1
        <5>1. j - 1 \in 1 .. n /\ (j - 1) + 1 = j /\ k + 1 + (j - 1) - 1 = k + j - 1
          BY <3>3, <4>2
        <5>2. z.loaded[j] = y.loaded[j - 1]
          BY <3>1, <5>1
        <5>3. QED
          BY <3>2, <5>1, <5>2
      <4>3. QED
        BY <4>1, <4>2
    <3>6. LoadedFrom(file, k, z)
      BY <3>1, <3>2, <3>4, <3>5 DEF LoadedFrom
    <3>7. QED
      BY <2>3, <3>6 DEF z
  <2>7. QED
    BY <2>4, <2>5, <2>6
<1> HIDE DEF IsLoad
<1>20. 0 \in T
  <2> DEFINE e == [loaded |-> <<>>, error |-> ""]
  <2>1. e \in Loads
    BY DEF Loads, Errors
  <2>2. h[m] = LoadOne(Loose(file, m), h[m + 1])
    BY <1>1, <1>18
  <2>3. h[m] = LoadOne(Loose(file, m), e)
    BY <1>7, <2>2 DEF last
  <2> HIDE DEF e
  <2>4. Loose(file, m).error # ""
    BY <1>5 DEF last
  <2>5. h[m] \in Loads /\ LoadedFrom(file, m, h[m])
    BY <1>1, <1>19, <2>1, <2>3, <2>4
  <2>6. m - 0 = m /\ 0 \in 0 .. m
    BY <1>1
  <2>7. QED
    BY <2>5, <2>6
<1>21. ASSUME NEW i \in 1 .. m, i - 1 \in T PROVE i \in T
  <2> DEFINE k == m - i
  <2>1. k \in 0 .. m /\ k + 1 = m - (i - 1) /\ k \in Nat /\ i \in 0 .. m
    BY <1>1
  <2>2. h[k + 1] \in Loads /\ LoadedFrom(file, k + 1, h[k + 1])
    BY <1>21, <2>1
  <2> HIDE DEF k
  <2>3. h[k] = LoadOne(Loose(file, k), h[k + 1])
    BY <1>18, <2>1
  <2>4. h[k] \in Loads /\ LoadedFrom(file, k, h[k])
    BY <1>19, <2>1, <2>2, <2>3
  <2>5. QED
    BY <2>1, <2>4 DEF k
<1> HIDE DEF T
<1>22. 0 .. m \subseteq T
  BY <1>1, <1>20, <1>21, RangeInduction
<1>23. m \in T /\ m - m = 0
  BY <1>1, <1>22
<1>24. h[0] \in Loads /\ LoadedFrom(file, 0, h[0])
  BY <1>23 DEF T
<1>25. QED
  BY <1>2, <1>24

\* The lenient reader differs from the strict one on frames with erased bits only,
\* and a file loads as the frames before its first unreadable one, without an
\* error just when it ends behind a whole frame (ReadG192File).
THEOREM ReadersTellTheTruth == SerialSpec => []ReadersAreHonest
<1>1. SerialInv => ReadersAreHonest
  <2> SUFFICES ASSUME FileInv, ReaderInv PROVE ReadersAreHonest
    BY DEF SerialInv
  <2> DEFINE file == ReadG192File(words)
             n == Len(file.loaded)
             Tight(k) == ReadG192Frame(words, (k - 1) * FrameWords, FALSE)
             Lenient(k) == ReadG192Frame(words, (k - 1) * FrameWords, TRUE)
  <2>1. /\ words \in Seq(SerialWords) /\ DOMAIN frames \subseteq Nat \ {0}
        /\ Len(words) <= MaxFrames * FrameWords
    <3>1. /\ words \in Seq(SerialWords) /\ Len(words) \in Nat /\ Len(frames) \in Nat
          /\ DOMAIN frames = 1 .. Len(frames)
          /\ Len(frames) <= MaxFrames /\ Len(words) <= Len(frames) * FrameWords
      BY DEF FileInv
    <3>2. MaxFrames \in Nat /\ FrameWords \in Nat
      BY SerialAssumption, FrameWordsAre
    <3>3. Len(frames) * FrameWords <= MaxFrames * FrameWords
          /\ Len(frames) * FrameWords \in Nat /\ MaxFrames * FrameWords \in Nat
      <4> DEFINE w == FrameWords
                 d == MaxFrames - Len(frames)
      <4>1. d \in Nat /\ Len(frames) + d = MaxFrames
        BY <3>1, <3>2
      <4> HIDE DEF w, d
      <4>2. \A x, y, z \in Nat : x * z \in Nat /\ y * z \in Nat /\ (x + y) * z = x * z + y * z
        OBVIOUS
      <4>3. w \in Nat
        BY <3>2 DEF w
      <4>4. /\ Len(frames) * w \in Nat /\ d * w \in Nat
            /\ (Len(frames) + d) * w = Len(frames) * w + d * w
        BY <3>1, <4>1, <4>2, <4>3
      <4>5. QED
        BY <4>1, <4>4 DEF w
    <3>4. QED
      BY <3>1, <3>3
  <2>2. ASSUME NEW k \in DOMAIN frames, (k - 1) * FrameWords <= Len(words), Tight(k) # Lenient(k)
        PROVE  LET data == SubSeq(words, (k - 1) * FrameWords + 3, (k - 1) * FrameWords + FrameWords)
               IN  /\ Tight(k).error = "bit" /\ "zero" \in ToSet(data)
                   /\ Lenient(k).error = "" =>
                        (Lenient(k).bad <=> words[(k - 1) * FrameWords + 1] = "bad"
                                        \/ ToSet(data) = {"zero"})
    <3> DEFINE at == (k - 1) * FrameWords
    <3>1. at \in Nat
      BY <2>1, FramesApart
    <3>2. ReadG192Frame(words, at, FALSE) # ReadG192Frame(words, at, TRUE)
      BY <2>2
    <3> HIDE DEF at
    <3>3. LET data == SubSeq(words, at + 3, at + FrameWords)
              loose == ReadG192Frame(words, at, TRUE)
          IN  /\ ReadG192Frame(words, at, FALSE).error = "bit" /\ "zero" \in ToSet(data)
              /\ loose.error = "" =>
                   (loose.bad <=> words[at + 1] = "bad" \/ ToSet(data) = {"zero"})
      BY <2>1, <3>1, <3>2, TwoReaders
    <3>4. QED
      BY <3>3 DEF at
  <2>3. file \in Loads /\ LoadedFrom(words, 0, file)
    BY <2>1, LoadedIs
  <2>4. n \in Nat
    BY <2>3 DEF Loads
  <2>5. \A j \in Nat : Lenient(j + 1) = Loose(words, 0 + j)
    <3>1. \A j \in Nat : (j + 1) - 1 = j /\ 0 + j = j
      OBVIOUS
    <3>2. QED
      BY <3>1 DEF Loose
  <2>6. /\ \A k \in 1 .. n : Lenient(k).error = "" /\ file.loaded[k] = <<Lenient(k).bits, Lenient(k).bad>>
        /\ file.error = "" <=> Len(words) = n * FrameWords
        /\ file.error # "" => Lenient(n + 1).error = file.error
    <3>1. \A k \in 1 .. n : 0 + k - 1 = k - 1
      BY <2>4
    <3>2. \A k \in 1 .. n : Lenient(k) = Loose(words, 0 + k - 1)
      BY <3>1 DEF Loose
    <3>3. 0 + n = n
      BY <2>4
    <3>4. Lenient(n + 1) = Loose(words, 0 + n)
      BY <2>4, <2>5
    <3> HIDE DEF Lenient, file
    <3>5. /\ \A j \in 1 .. n :
               /\ Loose(words, 0 + j - 1).error = ""
               /\ file.loaded[j] = <<Loose(words, 0 + j - 1).bits, Loose(words, 0 + j - 1).bad>>
          /\ file.error = "" <=> Len(words) = (0 + n) * FrameWords
          /\ file.error # "" => Loose(words, 0 + n).error = file.error
      BY <2>3 DEF LoadedFrom
    <3> HIDE DEF n
    <3>6. QED
      BY <3>2, <3>3, <3>4, <3>5
  <2> HIDE DEF n
  <2>7. QED
    BY <2>2, <2>6 DEF ReadersAreHonest, n
<1>2. QED
  BY <1>1, SerialIsInductive, PTL
=============================================================================
