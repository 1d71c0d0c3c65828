---------------------------- MODULE CodecMirror -----------------------------
(***************************************************************************)
(* The memories the Encoder and the Decoder must share: the excitation     *)
(* history the adaptive codebook is read from, the previous pitch gain,    *)
(* which sharpens the fixed codebook, and the four past prediction errors  *)
(* the fixed gain is predicted from.  There are three copies of them: the  *)
(* Encoder's own (oldExc, prevGpQ14, pastQuaEn, advanced by fcbStep), the  *)
(* copy in the decoder it simulates when it repairs gains (quality...),    *)
(* and the Decoder's, which also remembers a fixed gain to conceal with.   *)
(*                                                                         *)
(* A search may choose any fixed-codebook vector and any gain pair.  A     *)
(* "shape" stands for all the adaptive and fixed codebook fields of a      *)
(* subframe: that both sides read the same delay from them is PitchLink.   *)
(* Gains and prediction errors are the code's integers; what filters,      *)
(* logarithms and powers compute is left to the constants.  The guards for *)
(* an all-zero code vector and a zero gain correction are left out: a      *)
(* vector has four pulses and the smallest correction of GBK1 is 1516.     *)
(***************************************************************************)
EXTENDS Integers, Sequences

CONSTANTS
  Shapes,             \* what the codebook searches of a subframe may choose
  Gains,              \* pairs <<ga, gb>> the gain search may choose
  PredictionError,    \* of a pair, Q10 dB: 20 log10 of its gamma
  MeanLessEnergy(_, _), \* 30 dB less the energy of a shape sharpened by a beta,
                      \* Q14 dB
  EnergyQ10(_, _),    \* that energy as the bounded predictor rounds it, Q10 dB
  LinearGain(_, _),   \* of a predicted log gain and a pair, as an integer
  EnhancedGains,      \* linear gains of the enhanced listening path
  ColdHistory,        \* the zero excitation history
  Excitation(_, _, _, _, _), \* the history after gp v + gc c is appended
  Scaled(_),          \* the history after an overflow recovery shifted it
  Loud(_),            \* energy of the history above TameEnergyThresholdQ0
  Repair,             \* "none", "wide", "narrow": the Encoder's gain repair
  LongLoss,           \* bound: subframes lost in a row
  MaxUpsets           \* bound: bursts of losses and other upsets

MaxInt16 == 32767
MaxInt21 == 1048575
Int16 == (-MaxInt16 - 1)..MaxInt16
Int15 == 0..MaxInt16
Int21 == (-MaxInt21 - 1)..MaxInt21

betaLowerQ14 == 3277
betaUpperQ14 == 13017
Betas == betaLowerQ14..betaUpperQ14

Limit(x, lo, hi) == IF x < lo THEN lo ELSE IF x > hi THEN hi ELSE x

MaxLogGain == 131071
LogGains == (-MaxLogGain - 1)..MaxLogGain

ASSUME MirrorAssumption ==
  /\ Gains \subseteq (0..7) \X (0..15)
  /\ PredictionError \in [(0..7) \X (0..15) -> Int16]
  /\ \A s \in Shapes, b \in Betas : /\ MeanLessEnergy(s, b) \in Int21
                                     /\ EnergyQ10(s, b) \in Int16
  /\ \A l \in LogGains, g \in Gains : LinearGain(l, g) \in Int
  /\ Repair \in {"none", "wide", "narrow"}
  /\ LongLoss \in Nat /\ MaxUpsets \in Nat

VARIABLES
  frame,  \* fields of the subframes encoded and not yet decoded
  link,   \* "damaged" once a bit error changed them
  enc,    \* the Encoder's copy
  sim,    \* the copy of the decoder it simulates
  dec,    \* the Decoder's copy
  fixed,  \* prevFixedGainQ14 of the Decoder, Q1
  drift,  \* history: what set copies apart since they were last all cold:
          \* "tamed", "narrow" (the Encoder did), "upset" (something else)
  good,   \* history: intact subframes decoded in a row, up to 4
  lost,   \* history: subframes concealed in a row
  upsets  \* history: how often something else did

codec == <<enc, sim, dec, fixed>>
vars == <<frame, link, enc, sim, dec, fixed, drift, good, lost, upsets>>

-----------------------------------------------------------------------------
(* The gain codebook: pitch gains in Q14 and the order of transmission.    *)

GainGBK1 == <<1, 1551, 1831, 57, 1921, 3242, 356, 2678>>
GainGBK2 == <<826, 1994, 5142, 6160, 8091, 9120, 10573, 11569, 13260, 14194,
              15132, 15161, 15434, 16112, 17299, 18973>>

PitchGain(g) == GainGBK1[g[1] + 1] + GainGBK2[g[2] + 1]

GainMap1 == <<5, 1, 4, 7, 3, 0, 6, 2>>
GainImap1 == <<5, 1, 7, 4, 2, 0, 6, 3>>
GainMap2 == <<4, 6, 0, 2, 12, 14, 8, 10, 15, 11, 9, 13, 7, 3, 1, 5>>
GainImap2 == <<2, 14, 3, 13, 0, 15, 1, 12, 6, 10, 7, 9, 4, 11, 5, 8>>

\* Mutant: the search's own indices are sent.
PackGainsPhysical(g) == g

PackGains(g) == <<GainMap1[g[1] + 1], GainMap2[g[2] + 1]>>
UnpackGains(bits) == <<GainImap1[bits[1] + 1], GainImap2[bits[2] + 1]>>

Fields(s, g) == [shape |-> s, bits |-> PackGains(g)]
AllFields == {Fields(s, g) : s \in Shapes, g \in Gains}

-----------------------------------------------------------------------------
(* What both sides compute from a memory.                                  *)

PastErrorsDefault == -14336
GainMAPredictor == <<5571, 4751, 2785, 1556>>
GainMeanEnergyQ10 == 30720

Cold == [exc |-> ColdHistory, gp |-> 0,
         err |-> [i \in 1..4 |-> PastErrorsDefault]]

\* ClampPitchGainForEnhancement.  The Decoder's flag for "no gain yet" changes
\* nothing: a gain of 0 is clamped to the same initial coefficient.
Beta(m) == Limit(m.gp, betaLowerQ14, betaUpperQ14)

\* The moving-average prediction of the log gain, Q24, without its mean.
PredictedEnergyQ24(err) ==
  2 * (GainMAPredictor[1] * err[1] + GainMAPredictor[2] * err[2] +
       GainMAPredictor[3] * err[3] + GainMAPredictor[4] * err[4])

\* The receiver's log gain of shape s, Q10, and the one of the encoder's bounded
\* predictor, which truncates earlier and saturates to 16 bits twice.
WideLogGain(m, s) ==
  (MeanLessEnergy(s, Beta(m)) * 1024 + PredictedEnergyQ24(m.err)) \div 16384

Sat16(x) == Limit(x, -MaxInt16 - 1, MaxInt16)

NarrowLogGain(m, s) ==
  LET predicted == Sat16(PredictedEnergyQ24(m.err) \div 16384)
  IN Sat16(GainMeanEnergyQ10 + predicted) - EnergyQ10(s, Beta(m))

\* Mutant: the gain is not clamped.
FixedGainUnbounded(logGain, g) == LinearGain(logGain, g)

\* QuantizeFixedGainQ1.  A Q1 gain has 15 significant bits, so the mantissa and
\* exponent it is split into say it exactly.
FixedGain(logGain, g) == Limit(LinearGain(logGain, g), 0, MaxInt16)

Push(err, u) == [i \in 1..4 |-> IF i = 1 THEN u ELSE err[i - 1]]

\* The memory after a subframe of shape s, with gains gp and gc and pair g.
Remember(m, s, g, gp, gc) ==
  [exc |-> Excitation(m.exc, s, Beta(m), gp, gc),
   gp |-> gp,
   err |-> Push(m.err, PredictionError[g])]

\* The memory of a decoder after it decoded fields f.
Receive(m, f) ==
  LET g == UnpackGains(f.bits)
  IN Remember(m, f.shape, g, PitchGain(g),
              FixedGain(WideLogGain(m, f.shape), g))

-----------------------------------------------------------------------------
Init ==
  /\ frame = <<>> /\ link = "clean"
  /\ enc = Cold /\ sim = Cold /\ dec = Cold
  /\ fixed = 0
  /\ drift = {}
  /\ good = 0 /\ lost = 0 /\ upsets = 0

\* An event after which the two sides need not agree any more.
Upset ==
  /\ upsets < MaxUpsets
  /\ upsets' = upsets + 1
  /\ drift' = drift \cup {"upset"}

-----------------------------------------------------------------------------
(* The Encoder: fcbStep, once a subframe.                                  *)

GpClipQ14 == 15565

Tame(gp, exc) == IF Loud(exc) /\ gp > GpClipQ14 THEN GpClipQ14 ELSE gp

\* Mutant: the Encoder always scales by the bounded predictor.
LogGainNarrow(predictor, m, s) == NarrowLogGain(m, s)

LogGain(predictor, m, s) ==
  IF predictor = "wide" THEN WideLogGain(m, s) ELSE NarrowLogGain(m, s)

\* Mutant: the simulated decoder remembers a tamed gain.
SimulateTamed(s, g) ==
  IF Repair = "none" THEN sim
  ELSE Remember(sim, s, g, Tame(PitchGain(g), sim.exc),
                FixedGain(WideLogGain(sim, s), g))

\* The simulated decoder, which an Encoder that repairs gains keeps.
Simulate(s, g) == IF Repair = "none" THEN sim ELSE Receive(sim, Fields(s, g))

\* Commit shape s and gain pair g, the Encoder scaling its own fixed codebook by
\* the predictor.  The fields say g: the clamp of the pitch gain comes after the
\* pair is chosen and is not transmitted.
Commit(s, g, predictor) ==
  LET gp == Tame(PitchGain(g), enc.exc)
  IN /\ Len(frame) < 2 /\ link = "clean"
     /\ enc' = Remember(enc, s, g, gp, FixedGain(LogGain(predictor, enc, s), g))
     /\ sim' = Simulate(s, g)
     /\ frame' = Append(frame, Fields(s, g))
     /\ drift' = drift
          \cup (IF gp # PitchGain(g) THEN {"tamed"} ELSE {})
          \cup (IF predictor = "narrow" THEN {"narrow"} ELSE {})
     /\ UNCHANGED <<link, dec, fixed, good, lost, upsets>>

\* The pair of the gain search is kept.
KeepGains == \E s \in Shapes, g \in Gains : Commit(s, g, "wide")

\* qualityRepairGainClip replaced it by a candidate.  A candidate is scaled by
\* the bounded predictor unless the tuning asks for the wide one; that of
\* CoreClipRepair does not, although its search is wide.
RepairGains ==
  /\ Repair # "none"
  /\ \E s \in Shapes, g \in Gains : Commit(s, g, Repair)

\* What the Reset of one side does to the drift, given whether it leaves all
\* copies cold.
Restart(allCold) ==
  IF allCold THEN drift' = {} /\ UNCHANGED upsets ELSE Upset

\* Mutant: initState is not called.
ResetEncoderZero ==
  /\ frame = <<>>
  /\ enc' = [Cold EXCEPT !.err = [i \in 1..4 |-> 0]] /\ sim' = Cold
  /\ good' = 0
  /\ Restart(dec = Cold)
  /\ UNCHANGED <<frame, link, dec, fixed, lost>>

\* Reset of the Encoder, between frames.
ResetEncoder ==
  /\ frame = <<>>
  /\ enc' = Cold /\ sim' = Cold
  /\ good' = 0
  /\ Restart(dec = Cold)
  /\ UNCHANGED <<frame, link, dec, fixed, lost>>

-----------------------------------------------------------------------------
(* The link.                                                               *)

Encoded == Len(frame) = 2

NextFrame == frame' = <<>> /\ link' = "clean"

Damage ==
  /\ Encoded /\ link = "clean"
  /\ \E f1, f2 \in AllFields : frame' = <<f1, f2>>
  /\ link' = "damaged"
  /\ good' = 0
  /\ Upset
  /\ UNCHANGED <<codec, lost>>

\* A frame that never arrives, and nobody tells the Decoder.
Lose ==
  /\ Encoded
  /\ NextFrame
  /\ good' = 0
  /\ Upset
  /\ UNCHANGED <<codec, lost>>

-----------------------------------------------------------------------------
(* The Decoder.                                                            *)

\* What every decode path that reads the fields has in common.
Heard ==
  /\ Encoded
  /\ NextFrame
  /\ good' = IF link = "clean" THEN Limit(good + 2, 0, 4) ELSE 0
  /\ lost' = 0
  /\ UNCHANGED <<enc, sim>>

\* An overflow of the synthesis filter shifts the history, the subframe just
\* built included.
Recover(m, overflow) == IF overflow THEN [m EXCEPT !.exc = Scaled(@)] ELSE m

\* Decode of a frame that arrived, its filter overflowing in o1 and o2.
Strict(o1, o2) ==
  LET m1 == Recover(Receive(dec, frame[1]), o1)
      f == frame[2]
  IN /\ dec' = Recover(Receive(m1, f), o2)
     /\ fixed' = FixedGain(WideLogGain(m1, f.shape), UnpackGains(f.bits))

DecodeGood ==
  /\ Heard
  /\ Strict(FALSE, FALSE)
  /\ UNCHANGED <<drift, upsets>>

DecodeOverflow ==
  /\ Heard
  /\ \E o1, o2 \in BOOLEAN : (o1 \/ o2) /\ Strict(o1, o2)
  /\ Upset

\* MarkErasure
ErasureError(err) ==
  LET u == (err[1] + err[2] + err[3] + err[4]) \div 4 - 4096
  IN IF u < PastErrorsDefault THEN PastErrorsDefault ELSE u

\* concealErasureGains: 0.9 and 0.98 in Q15.
FadedPitchGain(gp) == (gp * 29491) \div 32768

\* Mutant: the fixed gain is rounded to nearest and never reaches 0.
FadedFixedGainRounded(gc) == (gc * 32112 + 16384) \div 32768

FadedFixedGain(gc) == (gc * 32112) \div 32768

\* The memory after a concealed subframe.  The shape is random (erasureRandom);
\* the gain that sharpens it is the previous one, before it fades.
Conceal(m, s, gc) ==
  [exc |-> Excitation(m.exc, s, Beta(m), FadedPitchGain(m.gp), gc),
   gp |-> FadedPitchGain(m.gp),
   err |-> Push(m.err, ErasureError(m.err))]

\* Decode of a frame marked bad; its filter may overflow too.
DecodeErased ==
  /\ Encoded
  /\ lost < LongLoss
  /\ \E s1, s2 \in Shapes, o1, o2 \in BOOLEAN :
       LET gc1 == FadedFixedGain(fixed)
           gc2 == FadedFixedGain(gc1)
           m1 == Recover(Conceal(dec, s1, gc1), o1)
       IN /\ dec' = Recover(Conceal(m1, s2, gc2), o2)
          /\ fixed' = gc2
  /\ lost' = lost + 2
  /\ good' = 0
  /\ IF lost = 0 THEN Upset
                 ELSE drift' = drift \cup {"upset"} /\ UNCHANGED upsets
  /\ NextFrame
  /\ UNCHANGED <<enc, sim>>

\* DecodePostfilterBlend: reads the frame as Decode does, but leaves the
\* recovery to the synthesis filter and the gain it conceals with as it was.
DecodeBlend ==
  /\ Heard
  /\ dec' = Receive(Receive(dec, frame[1]), frame[2])
  /\ UNCHANGED <<fixed, drift, upsets>>

\* DecodeEnvelopeRecovered: as DecodeBlend, but the fixed gains, of which only
\* the excitation knows, are others (gamma taken for Q14 and no quantisation).
DecodeEnhanced ==
  /\ Heard
  /\ \E gc1, gc2 \in EnhancedGains :
       LET g1 == UnpackGains(frame[1].bits)
           g2 == UnpackGains(frame[2].bits)
           m1 == Remember(dec, frame[1].shape, g1, PitchGain(g1), gc1)
       IN dec' = Remember(m1, frame[2].shape, g2, PitchGain(g2), gc2)
  /\ Upset
  /\ UNCHANGED fixed

\* Reset of the Decoder.  It touches nothing of the Encoder: that it waits for
\* a frame to be dealt with loses no behaviour.
ResetDecoder ==
  /\ frame = <<>>
  /\ dec' = Cold /\ fixed' = 0
  /\ good' = 0 /\ lost' = 0
  /\ Restart(enc = Cold /\ sim = Cold)
  /\ UNCHANGED <<frame, link, enc, sim>>

-----------------------------------------------------------------------------
Encode == KeepGains \/ RepairGains \/ ResetEncoder

Link == Damage \/ Lose

Decode == DecodeGood \/ DecodeOverflow \/ DecodeErased \/ DecodeBlend
            \/ DecodeEnhanced \/ ResetDecoder

Next == Encode \/ Link \/ Decode

Spec == Init /\ [][Next]_vars

-----------------------------------------------------------------------------
(* Properties.                                                             *)

\* What an excitation history holds is opaque.
IsMemory(m) == m.gp \in Int15 /\ m.err \in [1..4 -> Int16]

\* Types of the variables: no sequence of errors, erased or not, leaves 16 bits.
TypeOK ==
  /\ frame \in Seq(AllFields) /\ Len(frame) <= 2
  /\ link \in {"clean", "damaged"}
  /\ IsMemory(enc) /\ IsMemory(sim) /\ IsMemory(dec)
  /\ fixed \in Int15
  /\ drift \subseteq {"tamed", "narrow", "upset"}
  /\ good \in 0..4 /\ lost \in 0..(LongLoss + 1) /\ upsets \in 0..MaxUpsets

\* Between frames.
Settled == frame = <<>>

\* Unless the Encoder tamed a gain or repaired one with the bounded predictor,
\* the Decoder shifted its history, or a frame did not arrive as it was sent,
\* all copies are the same, whatever the searches chose and however strict and
\* blended decoding alternate: what fcbStep commits is what Decode commits.
LockStep ==
  Settled /\ drift = {} =>
    /\ enc = dec
    /\ Repair # "none" => sim = dec

\* The simulated decoder the repair scores its candidates with is the real one
\* even when the Encoder's own memory is not: it reads the fields, as the
\* Decoder does, and not the gains the Encoder kept for itself.
SimulationIsTheReceiver ==
  Settled /\ drift \subseteq {"tamed", "narrow"} /\ Repair # "none" => sim = dec

\* Whatever happened before, four intact subframes make the two gain predictors
\* equal again, one entry a subframe, on every decode path; and the pitch gains
\* too, unless taming made one of them private to the Encoder.
GainHistoryResyncs ==
  Settled =>
    /\ \A i \in 1..good : enc.err[i] = dec.err[i]
    /\ good > 0 /\ "tamed" \notin drift => enc.gp = dec.gp

\* A loss that lasts ends in silence and in a predictor that starts afresh: both
\* gains reach 0 exactly and every past error its initial value, from any state.
LongLossIsSilence ==
  lost >= LongLoss => /\ dec.gp = 0 /\ fixed = 0
                      /\ dec.err = Cold.err

\* "Use the decoder-side excitation builder directly so the encoder's
\* adaptive-codebook memory follows the same reconstructed excitation the
\* receiver will synthesize" (fcbStep, step 14), of an Encoder that may tame.
TamedEncoderFollowsReceiver ==
  Settled /\ drift \subseteq {"tamed"} => enc.exc = dec.exc

\* "Reconstruct the chosen quantized g_c in the native (mant Q14, exp)
\* representation that mirrors gain.Decoder.Decode bit-for-bit" (fcbStep, step
\* 12b), of an Encoder that repairs gains.
RepairedEncoderFollowsReceiver ==
  Settled /\ drift \subseteq {"narrow"} => enc.exc = dec.exc
=============================================================================
