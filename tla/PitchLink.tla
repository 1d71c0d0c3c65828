----------------------------- MODULE PitchLink ------------------------------
(***************************************************************************)
(* The pitch delays of a stream: chosen by the two closedloopStep calls of *)
(* EncodeFrame, carried in P1, P0 and P2 over a link that may flip a bit   *)
(* of a frame or lose it, and decoded by Decode or by the listening paths  *)
(* (DecodeEnvelopeRecovered, DecodePostfilterBlend), with the memory the   *)
(* Decoder conceals from.                                                  *)
(*                                                                         *)
(* What the searches maximise is not modelled: an integer search returns   *)
(* any lag of its window, a refinement any candidate it looks at, a repair *)
(* any of its candidates.  The Encoder carries no pitch from one frame to  *)
(* the next but the open-loop estimate, which is any in range.             *)
(***************************************************************************)
EXTENDS PitchCodec

CONSTANTS
  Tops,       \* open-loop estimates (20..143 in the code)
  HalfWindow, \* reach of the wide search (60 in the code)
  Searches    \* "core": Annex A; "wide": the normalised search of Quality and
              \* QualityAnnexALSP; "repair": clip repair, a tuning of tests

ASSUME PitchAssumption ==
  /\ Tops \subseteq PitchMinInt..PitchMaxInt
  /\ HalfWindow \in Nat
  /\ Searches \subseteq {"core", "repair", "wide"}

VARIABLES
  stage,           \* what the frame in progress has been through
  chosen1,         \* the Encoder's delay of each subframe
  chosen2,
  word,            \* the pitch fields on the link
  link,            \* what the link did: "clean", "lost" or the field it hit
  prevPitchDelay,  \* the Decoder's memory
  havePrevPitchDelay

frameVars == <<stage, chosen1, chosen2, word, link>>
memory == <<prevPitchDelay, havePrevPitchDelay>>
vars == <<frameVars, memory>>

NoDelay == Delay(0, 0)
NoWord == [p1 |-> 0, p0 |-> 0, p2 |-> 0]

Init ==
  /\ stage = "idle"
  /\ chosen1 = NoDelay /\ chosen2 = NoDelay
  /\ word = NoWord
  /\ link = "clean"
  /\ prevPitchDelay = 0
  /\ havePrevPitchDelay = FALSE

-----------------------------------------------------------------------------
(* The Encoder.                                                            *)

\* What closedloopStep(0) may end with, around the open-loop estimate top.
Subframe1Delays(search, top) ==
  CASE search = "core" ->
         UNION {RefineFractionSubframe1(k) : k \in Subframe1Window(top)}
    [] search = "repair" ->
         UNION {RefineFractionSubframe1(k)
                  \cup UNION {QualityPitchClipCandidates1(d.int) :
                                d \in RefineFractionSubframe1(k)} :
                k \in Subframe1Window(top)}
    [] search = "wide" ->
         UNION {RefinePitchNormalized(k, 0) \cup QualityPitchClipCandidates1(k) :
                k \in WideWindow(top, HalfWindow)}

\* What closedloopStep(1) may end with after the first delay t1.
Subframe2Delays(search, t1) ==
  CASE search = "core" ->
         UNION {RefineFractionSubframe2(k, t1) : k \in Subframe2Window(t1)}
    [] search = "repair" ->
         UNION {RefineFractionSubframe2(k, t1)
                  \cup UNION {QualityPitchClipCandidates2(d.int, t1) :
                                d \in RefineFractionSubframe2(k, t1)} :
                k \in Subframe2Window(t1)}
    [] search = "wide" ->
         UNION {RefinePitchNormalized(k, 1)
                  \cup QualityPitchClipCandidates2(k, t1) :
                k \in Subframe2Window(t1)}

\* closedloopStep(0): the delay, and P1 and P0 with it.
ClosedLoop1(search, top) ==
  /\ stage = "idle"
  /\ \E d \in Subframe1Delays(search, top) :
       /\ chosen1' = d
       /\ word' = [p1 |-> EncodeP1(d), p0 |-> Parity(EncodeP1(d)), p2 |-> 0]
  /\ stage' = search
  /\ UNCHANGED <<chosen2, link, memory>>

\* closedloopStep(1): the delay, and P2 relative to the first one.
ClosedLoop2 ==
  /\ stage \in Searches
  /\ \E d \in Subframe2Delays(stage, chosen1.int) :
       /\ chosen2' = d
       /\ word' = [word EXCEPT !.p2 = EncodeP2(d, Subframe2Min(chosen1.int))]
  /\ stage' = "sent"
  /\ UNCHANGED <<chosen1, link, memory>>

-----------------------------------------------------------------------------
(* The link.                                                               *)

\* x with bit b inverted
Flip(x, b) == IF Bit(x, b) = 1 THEN x - Power[b] ELSE x + Power[b]

Arrives(w, l) ==
  /\ stage = "sent"
  /\ word' = w
  /\ link' = l
  /\ stage' = "arrived"
  /\ UNCHANGED <<chosen1, chosen2, memory>>

Deliver == Arrives(word, "clean")

FlipProtected ==
  \/ \E b \in 2..7 : Arrives([word EXCEPT !.p1 = Flip(@, b)], "protected")
  \/ Arrives([word EXCEPT !.p0 = 1 - @], "protected")

FlipP1Low == \E b \in 0..1 : Arrives([word EXCEPT !.p1 = Flip(@, b)], "low")

FlipP2 == \E b \in 0..4 : Arrives([word EXCEPT !.p2 = Flip(@, b)], "p2")

Lose == Arrives(word, "lost")

-----------------------------------------------------------------------------
(* The Decoder.                                                            *)

initialErasurePitchDelay == 60

concealedPitchDelay ==
  IF havePrevPitchDelay THEN prevPitchDelay ELSE initialErasurePitchDelay

\* Mutant: the concealed delay keeps growing.
nextConcealedPitchDelayUnbounded(t) == t + 1

nextConcealedPitchDelay(t) == IF t < PitchMaxInt THEN t + 1 ELSE PitchMaxInt

rememberPitchDelay(t) ==
  /\ prevPitchDelay' = t
  /\ havePrevPitchDelay' = TRUE

\* The delays Decode uses for a frame that arrived: a first delay whose parity
\* fails is replaced before the second is read relative to it.
StrictDelay1 ==
  IF CheckParity(word.p1, word.p0) THEN DecodeDelaySubframe1(word.p1)
                                   ELSE Delay(concealedPitchDelay, 0)

StrictDelay2 == DecodeDelaySubframe2(word.p2, StrictDelay1.int)

\* The delays of a lost frame.
ErasedDelay1 == Delay(concealedPitchDelay, 0)

ErasedDelay2 == Delay(nextConcealedPitchDelay(concealedPitchDelay), 0)

\* The listening paths ignore the parity and the erasure marker.
ListeningDelay1 == DecodeDelaySubframe1(word.p1)

ListeningDelay2 == DecodeDelaySubframe2(word.p2, ListeningDelay1.int)

\* The frame is done with: nothing reads its delays or its word any more.
Decoded ==
  /\ stage = "arrived"
  /\ stage' = "idle"
  /\ chosen1' = NoDelay /\ chosen2' = NoDelay
  /\ word' = NoWord
  /\ link' = "clean"

DecodeGood ==
  /\ link # "lost"
  /\ rememberPitchDelay(StrictDelay2.int)
  /\ Decoded

\* The memory moves on with every subframe, and once more.
DecodeErased ==
  /\ link = "lost"
  /\ rememberPitchDelay(nextConcealedPitchDelay(ErasedDelay2.int))
  /\ Decoded

\* The listening paths leave the memory alone.
DecodeListening ==
  /\ UNCHANGED memory
  /\ Decoded

\* Reset of the Decoder.
Reset ==
  /\ stage = "idle"
  /\ prevPitchDelay' = 0
  /\ havePrevPitchDelay' = FALSE
  /\ UNCHANGED frameVars

-----------------------------------------------------------------------------
Encode ==
  \/ \E search \in Searches, top \in Tops : ClosedLoop1(search, top)
  \/ ClosedLoop2

Link == Deliver \/ FlipProtected \/ FlipP1Low \/ FlipP2 \/ Lose

Decode == DecodeGood \/ DecodeErased \/ DecodeListening \/ Reset

Next == Encode \/ Link \/ Decode

Spec == Init /\ [][Next]_vars

-----------------------------------------------------------------------------
(* Properties.                                                             *)

Words == [p1 : 0..255, p0 : 0..1, p2 : 0..31]

\* The memory may hold a second delay of 144, the one past the range of the
\* searches that P2 can say.
Lags == (PitchMinInt - 1)..(PitchMaxInt + 1)

Delays == [int : Lags, frac : Fracs]

\* Types of the variables.
TypeOK ==
  /\ stage \in {"idle", "sent", "arrived"} \cup Searches
  /\ chosen1 \in Delays \cup {NoDelay} /\ chosen2 \in Delays \cup {NoDelay}
  /\ word \in Words
  /\ link \in {"clean", "lost", "protected", "low", "p2"}
  /\ prevPitchDelay \in Lags \cup {0}
  /\ havePrevPitchDelay \in BOOLEAN

Arrived == stage = "arrived"

\* A frame the link left alone is decoded with the delays the Encoder built
\* its own excitation from, in every profile and on every decode path:
\* "diverging here lets the encoder search against a state the receiver will
\* never reconstruct" (commitClosedLoopPitch).
DelaysAgree ==
  Arrived /\ link = "clean" =>
    /\ StrictDelay1 = chosen1 /\ StrictDelay2 = chosen2
    /\ ListeningDelay1 = chosen1 /\ ListeningDelay2 = chosen2

\* No delay either side uses, be it at the edge of a codebook, decoded from a
\* damaged frame or concealed through any run of erasures, takes the
\* interpolation filter outside what it has.
FilterReadsThePast ==
  Arrived =>
    \A d \in {chosen1, chosen2, StrictDelay1, StrictDelay2, ErasedDelay1,
              ErasedDelay2, ListeningDelay1, ListeningDelay2} : ReadsThePast(d)

\* Whole samples between two delays, and a delay in thirds of a sample.
Apart(d, c) == IF d.int < c.int THEN c.int - d.int ELSE d.int - c.int

Thirds(d) == 3 * d.int + d.frac

\* A second delay that is out by no more than the first it was decoded after.
Follows(t1, t2) == Apart(t2, chosen2) <= Apart(t1, chosen1) /\ t2.frac = chosen2.frac

\* One flipped bit does no more harm than its place can, on the strict and on the
\* listening paths.  In the two bits of P1 that P0 does not cover it moves the first
\* delay by two samples at most.  In P2, which nothing covers, it leaves the first
\* delay alone and moves the second by as many thirds of a sample as the bit counts
\* (bit 4: sixteen, more than five samples).  In a bit P0 covers, or in P0, it never
\* reaches the strict Decoder as a delay.  Wherever it hits the first delay, the
\* second, read relative to it, is out by no more than the first.
BitErrorsAreContained ==
  Arrived =>
    /\ link = "low" =>
         Apart(StrictDelay1, chosen1) <= 2 /\ Apart(ListeningDelay1, chosen1) <= 2
    /\ link = "p2" =>
         /\ StrictDelay1 = chosen1 /\ ListeningDelay1 = chosen1
         /\ ListeningDelay2 = StrictDelay2
         /\ \E b \in 0..4 :
              Thirds(StrictDelay2) - Thirds(chosen2) \in {Power[b], -Power[b]}
    /\ link = "protected" => StrictDelay1 = Delay(concealedPitchDelay, 0)
    /\ link \in {"low", "protected"} =>
         /\ Follows(StrictDelay1, StrictDelay2)
         /\ Follows(ListeningDelay1, ListeningDelay2)
=============================================================================
