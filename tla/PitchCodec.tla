----------------------------- MODULE PitchCodec -----------------------------
(***************************************************************************)
(* The pitch fields of a frame: how the closed-loop search of the Encoder  *)
(* writes two fractional delays into P1, P0 and P2 (internal/pitch/        *)
(* closedloop), how the Decoder reads them back (internal/pitch), and      *)
(* which excitation samples a delay makes the interpolation filter read.   *)
(*                                                                         *)
(* A delay is a record: int samples and frac thirds of a sample.           *)
(***************************************************************************)
EXTENDS Integers

PitchMinInt == 20
PitchMaxInt == 143

SubframeLen == 40
Linter == 10                        \* one side of the interpolation filter

\* Mutant: a history that just holds the longest integer delay.
PastExcLenShort == PitchMaxInt + Linter - 1

PastExcLen == PitchMaxInt + Linter  \* samples of excitation history

Fracs == {-1, 0, 1}

Delay(t, f) == [int |-> t, frac |-> f]

\* v limited to lo..hi
Clamp(v, lo, hi) == IF v < lo THEN lo ELSE IF v > hi THEN hi ELSE v

-----------------------------------------------------------------------------
(* Search windows.                                                         *)

\* Seven lags around the open-loop pitch, moved inside the range.
Subframe1Window(top) ==
  LET tmin == Clamp(top - 3, PitchMinInt, PitchMaxInt - 6)
  IN  tmin..(tmin + 6)

\* The lowest of the ten lags around the first delay.
Subframe2Min(t1) == Clamp(t1 - 5, PitchMinInt, PitchMaxInt - 9)

Subframe2Window(t1) == Subframe2Min(t1)..(Subframe2Min(t1) + 9)

\* The first window of the wide search, cut at the ends of the range.
WideWindow(centre, halfWindow) ==
  IF halfWindow <= 3 THEN Subframe1Window(centre)
  ELSE {k \in PitchMinInt..PitchMaxInt :
          centre - halfWindow <= k /\ k <= centre + halfWindow}

-----------------------------------------------------------------------------
(* Fractions tried around the winner of an integer search.                 *)

AllFracs(lag) == {Delay(lag, f) : f \in Fracs}

\* Mutant: both thirds above 19, and 19 itself, at the low edge.
RefineFractionSubframe1Wide(lag) ==
  IF lag >= 85 THEN {Delay(lag, 0)}
  ELSE AllFracs(lag)
       \cup (IF lag = PitchMinInt THEN AllFracs(lag - 1) ELSE {})
       \cup {Delay(85, -1) : x \in {lag} \cap {84}}

RefineFractionSubframe1(lag) ==
  IF lag >= 85 THEN {Delay(lag, 0)}
  ELSE AllFracs(lag)
       \cup {Delay(PitchMinInt - 1, 1) : x \in {lag} \cap {PitchMinInt}}
       \cup {Delay(85, -1) : x \in {lag} \cap {84}}

RefineFractionSubframe2(lag, t1) ==
  LET tmin == Subframe2Min(t1)
  IN  AllFracs(lag)
      \cup {Delay(tmin - 1, 1) : x \in {lag} \cap {tmin}}
      \cup {Delay(tmin + 10, -1) : x \in {lag} \cap {tmin + 9}}

\* Mutant: fractions are refined wherever the lag is.
RefinePitchNormalizedAnywhere(lag, sub) == AllFracs(lag)

\* The wide search looks at no boundary codepoint.
RefinePitchNormalized(lag, sub) ==
  IF sub = 1 \/ lag < 85 THEN AllFracs(lag) ELSE {Delay(lag, 0)}

-----------------------------------------------------------------------------
(* Codewords.  uint8 arithmetic wraps.                                     *)

EncodeP1(d) ==
  IF d.int < 85 \/ (d.int = 85 /\ d.frac <= 0)
  THEN (3 * (d.int - 19) + d.frac - 1) % 256
  ELSE (d.int + 112) % 256

\* The field is five bits wide.
EncodeP2(d, tmin) == ((3 * (d.int - tmin) + d.frac + 2) % 256) % 32

Power == [b \in 0..7 |-> CASE b = 0 -> 1  [] b = 1 -> 2  [] b = 2 -> 4
                           [] b = 3 -> 8  [] b = 4 -> 16 [] b = 5 -> 32
                           [] b = 6 -> 64 [] b = 7 -> 128]

Bit(x, b) == (x \div Power[b]) % 2

\* Mutant: the parity leaves out the lowest of the six bits.
ParityShort(p1) ==
  (1 + Bit(p1, 3) + Bit(p1, 4) + Bit(p1, 5) + Bit(p1, 6) + Bit(p1, 7)) % 2

\* Odd parity over the six most significant bits of P1.
Parity(p1) ==
  (1 + Bit(p1, 2) + Bit(p1, 3) + Bit(p1, 4)
     + Bit(p1, 5) + Bit(p1, 6) + Bit(p1, 7)) % 2

CheckParity(p1, p0) == p0 = Parity(p1)

DecodeDelaySubframe1(p1) ==
  IF p1 < 197 THEN Delay(19 + (p1 + 2) \div 3, ((p1 + 2) % 3) - 1)
              ELSE Delay(p1 - 112, 0)

DecodeDelaySubframe2(p2, t1) ==
  Delay(Subframe2Min(t1) + (p2 + 2) \div 3 - 1, ((p2 + 2) % 3) - 1)

-----------------------------------------------------------------------------
(* Clip repair: neighbours of the winner, taken through the codewords.     *)

Representable1(d) ==
  \/ d.int = 19 /\ d.frac = 1
  \/ d.int \in 20..84
  \/ d.int = 85 /\ d.frac <= 0
  \/ d.int \in 86..PitchMaxInt /\ d.frac = 0

Neighbours(lag) == {Delay(l, f) : l \in (lag - 2)..(lag + 2), f \in Fracs}

QualityPitchClipCandidates1(lag) ==
  {DecodeDelaySubframe1(EncodeP1(d)) :
     d \in {n \in Neighbours(lag) : Representable1(n)}}

QualityPitchClipCandidates2(lag, t1) ==
  LET P2(d) == 3 * (d.int - Subframe2Min(t1)) + d.frac + 2
  IN  {DecodeDelaySubframe2(P2(d), t1) :
         d \in {n \in Neighbours(lag) : P2(n) \in 0..31}}

-----------------------------------------------------------------------------
(* The interpolation filter.  Sample u(-1) is the last of the excitation   *)
(* history, u(0) the first of the subframe being built.                    *)

\* The centre of the filter.
Centre(d) == IF d.frac = 1 THEN d.int + 1 ELSE d.int

\* Delays of at most 49 may use what this subframe has built already.
Recursive(d) == d.int <= SubframeLen + Linter - 1

\* Sample n is built from u(n - Centre - i) and u(n - Centre + 1 + i), i in
\* 0..Linter-1.  None of these lies before the history begins; none is sample n
\* or a later one, not built yet; on the direct path none is in the subframe:
\* the checks in the filter that replace such reads by zero never apply.
ReadsThePast(d) ==
  /\ -Centre(d) - (Linter - 1) >= -PastExcLen
  /\ IF Recursive(d) THEN Linter - Centre(d) < 0
                     ELSE (SubframeLen - 1) - Centre(d) + Linter < 0
=============================================================================
