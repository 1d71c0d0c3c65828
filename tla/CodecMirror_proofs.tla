------------------------- MODULE CodecMirror_proofs -------------------------
(***************************************************************************)
(* Proofs about CodecMirror, for every search, codebook of prediction      *)
(* errors, excitation arithmetic, gain repair and number of upsets.        *)
(*                                                                         *)
(* The properties compare the copies between frames.  While a frame is     *)
(* under way the Encoder is ahead of the Decoder, and the invariant says   *)
(* by how much: by what the Decoder will do with the fields so far (Play). *)
(***************************************************************************)
EXTENDS CodecMirror, TLAPS

\* The memory m after a decoder received the fields in fr.
Play(m, fr) ==
  IF Len(fr) = 0 THEN m
  ELSE IF Len(fr) = 1 THEN Receive(m, fr[1])
  ELSE Receive(Receive(m, fr[1]), fr[2])

\* What the argument needs to know of the types; the numbers do not matter.
FrameOK ==
  /\ frame \in Seq(AllFields) /\ Len(frame) <= 2
  /\ link \in {"clean", "damaged"}
  /\ good \in 0..4

\* A damaged frame is complete, and neither drift nor good ignores it.
DamageInv ==
  link = "damaged" => Len(frame) = 2 /\ "upset" \in drift /\ good = 0

\* The Encoder is where the Decoder will be, unless something set it apart.
EncoderAhead == link = "clean" /\ drift = {} => enc = Play(dec, frame)

\* So is the simulated decoder, and it does not mind the Encoder's own gains.
SimulationAhead ==
  link = "clean" /\ "upset" \notin drift /\ Repair # "none" =>
    sim = Play(dec, frame)

\* As many past errors agree as intact subframes went in, from either end.
ErrorsAhead ==
  link = "clean" =>
    \A i \in 1..4 : i <= good + Len(frame) =>
      enc.err[i] = Play(dec, frame).err[i]

PitchGainAhead ==
  link = "clean" /\ good + Len(frame) > 0 /\ "tamed" \notin drift =>
    enc.gp = Play(dec, frame).gp

\* The inductive invariant.
MirrorInv ==
  /\ FrameOK
  /\ DamageInv
  /\ EncoderAhead
  /\ SimulationAhead
  /\ ErrorsAhead
  /\ PitchGainAhead

-----------------------------------------------------------------------------
(* The gain codebook.                                                      *)

\* The Decoder's index maps invert the Encoder's.
LEMMA PackUnpack ==
  ASSUME NEW g \in (0..7) \X (0..15)
  PROVE  UnpackGains(PackGains(g)) = g
<1>1. PICK a \in 0..7, b \in 0..15 : g = <<a, b>>
  OBVIOUS
<1>2. GainImap1[GainMap1[a + 1] + 1] = a
  BY DEF GainImap1, GainMap1
<1>3. GainImap2[GainMap2[b + 1] + 1] = b
  BY DEF GainImap2, GainMap2
<1> QED
  BY <1>1, <1>2, <1>3 DEF UnpackGains, PackGains

\* Fields say a shape and a pair.
LEMMA FieldsType ==
  ASSUME NEW f \in AllFields
  PROVE  f.shape \in Shapes /\ UnpackGains(f.bits) \in Gains
<1>1. PICK s \in Shapes, g \in Gains : f = Fields(s, g)
  BY DEF AllFields
<1>2. UnpackGains(PackGains(g)) = g
  BY PackUnpack, MirrorAssumption
<1> QED
  BY <1>1, <1>2 DEF Fields

-----------------------------------------------------------------------------
(* What a step adds to a frame, and what a decoder makes of it.            *)

\* Receiving the fields of a pair is remembering that pair.
LEMMA ReceiveFields ==
  ASSUME NEW m, NEW s, NEW g \in Gains
  PROVE  Receive(m, Fields(s, g)) =
           Remember(m, s, g, PitchGain(g), FixedGain(WideLogGain(m, s), g))
<1>1. UnpackGains(PackGains(g)) = g
  BY PackUnpack, MirrorAssumption
<1> QED
  BY <1>1 DEF Receive, Fields

\* Another subframe is received after those before it.
LEMMA PlayAppend ==
  ASSUME NEW fr \in Seq(AllFields), Len(fr) < 2, NEW f \in AllFields, NEW m
  PROVE  /\ Play(m, Append(fr, f)) = Receive(Play(m, fr), f)
         /\ Append(fr, f) \in Seq(AllFields)
         /\ Len(Append(fr, f)) = Len(fr) + 1
<1>1. Append(fr, f) \in Seq(AllFields) /\ Len(Append(fr, f)) = Len(fr) + 1
  OBVIOUS
<1>2. CASE Len(fr) = 0
  <2>1. Len(Append(fr, f)) = 1 /\ Append(fr, f)[1] = f
    BY <1>1, <1>2
  <2>2. Play(m, fr) = m /\ Play(m, Append(fr, f)) = Receive(m, f)
    BY <1>2, <2>1 DEF Play
  <2> QED
    BY <1>1, <2>2
<1>3. CASE Len(fr) = 1
  <2>1. /\ Len(Append(fr, f)) = 2
        /\ Append(fr, f)[1] = fr[1] /\ Append(fr, f)[2] = f
    BY <1>1, <1>3
  <2>2. /\ Play(m, fr) = Receive(m, fr[1])
        /\ Play(m, Append(fr, f)) = Receive(Receive(m, fr[1]), f)
    BY <1>3, <2>1 DEF Play
  <2> QED
    BY <1>1, <2>2
<1>4. Len(fr) = 0 \/ Len(fr) = 1
  <2>1. PICK n \in Nat : n = Len(fr)
    OBVIOUS
  <2>2. n < 2
    BY <2>1
  <2>3. n = 0 \/ n = 1
    BY <2>2
  <2> QED
    BY <2>1, <2>3
<1> QED
  BY <1>2, <1>3, <1>4

\* An empty frame and a full one.
LEMMA PlayEnds ==
  ASSUME NEW m
  PROVE  /\ Play(m, <<>>) = m
         /\ \A fr : Len(fr) = 2 =>
              Play(m, fr) = Receive(Receive(m, fr[1]), fr[2])
BY DEF Play

\* The errors and the pitch gain after a subframe, of any gains and excitation.
LEMMA RememberTraces ==
  ASSUME NEW m, NEW s, NEW g, NEW gp, NEW gc
  PROVE  /\ Remember(m, s, g, gp, gc).gp = gp
         /\ Remember(m, s, g, gp, gc).err = Push(m.err, PredictionError[g])
BY DEF Remember

\* Two histories of which n entries agree agree in one more after the same push.
LEMMA PushAgrees ==
  ASSUME NEW e, NEW d, NEW u, NEW n \in Nat,
         \A i \in 1..4 : i <= n => e[i] = d[i]
  PROVE  \A i \in 1..4 : i <= n + 1 => Push(e, u)[i] = Push(d, u)[i]
<1> SUFFICES ASSUME NEW i \in 1..4, i <= n + 1
             PROVE  Push(e, u)[i] = Push(d, u)[i]
  OBVIOUS
<1>1. CASE i = 1
  BY <1>1 DEF Push
<1>2. CASE i # 1
  <2>1. i - 1 \in 1..4 /\ i - 1 <= n
    BY <1>2
  <2>2. e[i - 1] = d[i - 1]
    BY <2>1
  <2> QED
    BY <1>2, <2>2 DEF Push
<1> QED
  BY <1>1, <1>2

-----------------------------------------------------------------------------
(* Every step keeps the invariant.                                         *)

\* At the start all copies are cold.
LEMMA InitMirror == Init => MirrorInv
<1> SUFFICES ASSUME Init PROVE MirrorInv
  OBVIOUS
<1>1. frame = <<>> /\ Len(frame) = 0 /\ link = "clean" /\ good = 0
  BY DEF Init
<1>2. enc = Cold /\ sim = Cold /\ Play(dec, frame) = Cold
  BY PlayEnds DEF Init
<1>3. FrameOK /\ DamageInv
  BY <1>1 DEF FrameOK, DamageInv
<1>4. EncoderAhead /\ SimulationAhead
  BY <1>2 DEF EncoderAhead, SimulationAhead
<1>5. ErrorsAhead /\ PitchGainAhead
  BY <1>1, <1>2 DEF ErrorsAhead, PitchGainAhead
<1> QED
  BY <1>3, <1>4, <1>5 DEF MirrorInv

\* An encoded subframe: the Decoder will hear what the Encoder committed, and
\* the simulated decoder heard it already.
LEMMA CommitMirror ==
  ASSUME MirrorInv, NEW s \in Shapes, NEW g \in Gains,
         NEW predictor \in {"wide", "narrow"}, Commit(s, g, predictor)
  PROVE  MirrorInv'
<1> DEFINE f == Fields(s, g)
           p == Play(dec, frame)
           gp == Tame(PitchGain(g), enc.exc)
           gc == FixedGain(LogGain(predictor, enc, s), g)
<1>1. /\ frame \in Seq(AllFields) /\ Len(frame) < 2 /\ f \in AllFields
      /\ link = "clean" /\ good \in 0..4
  BY DEF MirrorInv, FrameOK, Commit, AllFields
<1>2. /\ frame' = Append(frame, f)
      /\ enc' = Remember(enc, s, g, gp, gc)
      /\ sim' = Simulate(s, g)
      /\ link' = link /\ dec' = dec /\ good' = good
  BY DEF Commit
<1>3. /\ drift \subseteq drift'
      /\ "tamed" \notin drift' => gp = PitchGain(g)
      /\ "narrow" \notin drift' => predictor = "wide"
  BY DEF Commit
<1>4. /\ Play(dec', frame') = Receive(p, f)
      /\ frame' \in Seq(AllFields) /\ Len(frame') = Len(frame) + 1
  BY <1>1, <1>2, PlayAppend
<1>5. Receive(p, f) =
        Remember(p, s, g, PitchGain(g), FixedGain(WideLogGain(p, s), g))
  BY ReceiveFields
<1> HIDE DEF f, p
<1>6. FrameOK'
  BY <1>1, <1>2, <1>4 DEF FrameOK
<1>7. DamageInv'
  BY <1>1, <1>2 DEF DamageInv
<1>8. EncoderAhead'
  <2> SUFFICES ASSUME drift' = {}
               PROVE  enc' = Play(dec', frame')
    BY DEF EncoderAhead
  <2>1. enc = p
    BY <1>1, <1>3 DEF MirrorInv, EncoderAhead, p
  <2>2. gp = PitchGain(g) /\ gc = FixedGain(WideLogGain(enc, s), g)
    BY <1>3 DEF LogGain
  <2> QED
    BY <1>2, <1>4, <1>5, <2>1, <2>2
<1>9. SimulationAhead'
  <2> SUFFICES ASSUME "upset" \notin drift', Repair # "none"
               PROVE  sim' = Play(dec', frame')
    BY DEF SimulationAhead
  <2>1. sim = p
    BY <1>1, <1>3 DEF MirrorInv, SimulationAhead, p
  <2> QED
    BY <1>2, <1>4, <2>1 DEF Simulate, f
<1>10. ErrorsAhead'
  <2> DEFINE n == good + Len(frame)
             u == PredictionError[g]
  <2>1. \A i \in 1..4 : i <= n => enc.err[i] = p.err[i]
    BY <1>1 DEF MirrorInv, ErrorsAhead, p
  <2>2. n \in Nat /\ n + 1 = good' + Len(frame')
    BY <1>1, <1>2, <1>4
  <2>3. enc'.err = Push(enc.err, u) /\ Play(dec', frame').err = Push(p.err, u)
    BY <1>2, <1>4, <1>5, RememberTraces
  <2>4. \A i \in 1..4 : i <= n + 1 => Push(enc.err, u)[i] = Push(p.err, u)[i]
    <3>1. PICK e, d : e = enc.err /\ d = p.err
      OBVIOUS
    <3>2. PICK k \in Nat : k = n
      BY <2>2
    <3>3. \A i \in 1..4 : i <= k => e[i] = d[i]
      BY <2>1, <3>1, <3>2
    <3> HIDE DEF n, u
    <3>4. \A i \in 1..4 : i <= k + 1 => Push(e, u)[i] = Push(d, u)[i]
      BY <3>3, PushAgrees
    <3> QED
      BY <3>1, <3>2, <3>4
  <2> HIDE DEF n, u
  <2> QED
    BY <2>2, <2>3, <2>4 DEF ErrorsAhead
<1>11. PitchGainAhead'
  BY <1>2, <1>3, <1>4, <1>5, RememberTraces DEF PitchGainAhead
<1> QED
  BY <1>6, <1>7, <1>8, <1>9, <1>10, <1>11 DEF MirrorInv

\* Nothing is promised between frames of two sides set apart.
LEMMA ApartMirror ==
  ASSUME frame' = <<>>, link' = "clean", good' = 0, "upset" \in drift'
  PROVE  MirrorInv'
<1>1. frame' \in Seq(AllFields) /\ Len(frame') = 0
  OBVIOUS
<1>2. FrameOK' /\ DamageInv'
  BY <1>1 DEF FrameOK, DamageInv
<1>3. EncoderAhead' /\ SimulationAhead'
  BY DEF EncoderAhead, SimulationAhead
<1>4. ErrorsAhead' /\ PitchGainAhead'
  BY <1>1 DEF ErrorsAhead, PitchGainAhead
<1> QED
  BY <1>2, <1>3, <1>4 DEF MirrorInv

\* A Reset makes all copies cold or sets them apart.
LEMMA ColdMirror ==
  ASSUME frame' = <<>>, link' = "clean", good' = 0,
         enc' = Cold, sim' = Cold, dec' = Cold
  PROVE  MirrorInv'
<1>1. frame' \in Seq(AllFields) /\ Len(frame') = 0
  OBVIOUS
<1>2. Play(dec', frame') = Cold
  BY PlayEnds
<1>3. FrameOK' /\ DamageInv'
  BY <1>1 DEF FrameOK, DamageInv
<1>4. EncoderAhead' /\ SimulationAhead'
  BY <1>2 DEF EncoderAhead, SimulationAhead
<1>5. ErrorsAhead' /\ PitchGainAhead'
  BY <1>1 DEF ErrorsAhead, PitchGainAhead
<1> QED
  BY <1>3, <1>4, <1>5 DEF MirrorInv

\* A Reset finds no frame, so none that is damaged.
LEMMA BetweenFrames ==
  ASSUME MirrorInv, frame = <<>>
  PROVE  link = "clean"
BY DEF MirrorInv, FrameOK, DamageInv

\* A Reset of the Encoder alone counts as drift.
LEMMA ResetEncoderMirror == MirrorInv /\ ResetEncoder => MirrorInv'
<1> SUFFICES ASSUME MirrorInv, ResetEncoder PROVE MirrorInv'
  OBVIOUS
<1>1. /\ frame' = <<>> /\ link' = "clean" /\ good' = 0
      /\ enc' = Cold /\ sim' = Cold /\ dec' = dec
  BY BetweenFrames DEF ResetEncoder
<1>2. dec = Cold \/ "upset" \in drift'
  BY DEF ResetEncoder, Restart, Upset
<1> QED
  BY <1>1, <1>2, ColdMirror, ApartMirror

\* So does one of the Decoder.
LEMMA ResetDecoderMirror == MirrorInv /\ ResetDecoder => MirrorInv'
<1> SUFFICES ASSUME MirrorInv, ResetDecoder PROVE MirrorInv'
  OBVIOUS
<1>1. /\ frame' = <<>> /\ link' = "clean" /\ good' = 0
      /\ enc' = enc /\ sim' = sim /\ dec' = Cold
  BY BetweenFrames DEF ResetDecoder
<1>2. (enc = Cold /\ sim = Cold) \/ "upset" \in drift'
  BY DEF ResetDecoder, Restart, Upset
<1> QED
  BY <1>1, <1>2, ColdMirror, ApartMirror

\* A damaged frame is complete and sets the sides apart.
LEMMA DamageMirror == MirrorInv /\ Damage => MirrorInv'
<1> SUFFICES ASSUME MirrorInv, Damage PROVE MirrorInv'
  OBVIOUS
<1>1. PICK f1, f2 \in AllFields : frame' = <<f1, f2>>
  BY DEF Damage
<1>2. frame' \in Seq(AllFields) /\ Len(frame') = 2
  BY <1>1
<1>3. link' = "damaged" /\ good' = 0 /\ "upset" \in drift'
  BY DEF Damage, Upset
<1>4. FrameOK' /\ DamageInv'
  BY <1>2, <1>3 DEF FrameOK, DamageInv
<1>5. EncoderAhead' /\ SimulationAhead'
  BY <1>3 DEF EncoderAhead, SimulationAhead
<1>6. ErrorsAhead' /\ PitchGainAhead'
  BY <1>3 DEF ErrorsAhead, PitchGainAhead
<1> QED
  BY <1>4, <1>5, <1>6 DEF MirrorInv

\* A frame that is heard: the Decoder's errors and pitch gain are those of the
\* fields, and so is all of its memory unless something sets the sides apart.
LEMMA HeardMirror ==
  ASSUME MirrorInv, Heard,
         drift \subseteq drift',
         dec'.err = Play(dec, frame).err, dec'.gp = Play(dec, frame).gp,
         dec' = Play(dec, frame) \/ "upset" \in drift'
  PROVE  MirrorInv'
<1> DEFINE p == Play(dec, frame)
<1>1. /\ frame' = <<>> /\ link' = "clean" /\ Len(frame) = 2
      /\ enc' = enc /\ sim' = sim
      /\ good' = IF link = "clean" THEN Limit(good + 2, 0, 4) ELSE 0
  BY DEF Heard, NextFrame, Encoded
<1>2. good \in 0..4 /\ (link = "damaged" => "upset" \in drift')
  BY DEF MirrorInv, FrameOK, DamageInv
<1>3. /\ good' \in 0..4
      /\ good' > 0 => link = "clean"
      /\ good' <= good + 2
  BY <1>1, <1>2 DEF Limit
<1>4. link = "clean" \/ "upset" \in drift'
  BY <1>2 DEF MirrorInv, FrameOK
<1>5. frame' \in Seq(AllFields) /\ Len(frame') = 0
  BY <1>1
<1>6. Play(dec', frame') = dec'
  BY <1>1, PlayEnds
<1>7. FrameOK' /\ DamageInv'
  BY <1>1, <1>3, <1>5 DEF FrameOK, DamageInv
<1>8. EncoderAhead'
  <2> SUFFICES ASSUME drift' = {} PROVE enc' = dec'
    BY <1>6 DEF EncoderAhead
  <2>1. drift = {} /\ link = "clean" /\ dec' = p
    BY <1>4
  <2> QED
    BY <1>1, <2>1 DEF MirrorInv, EncoderAhead
<1>9. SimulationAhead'
  <2> SUFFICES ASSUME "upset" \notin drift', Repair # "none"
               PROVE  sim' = dec'
    BY <1>6 DEF SimulationAhead
  <2>1. "upset" \notin drift /\ link = "clean" /\ dec' = p
    BY <1>4
  <2> QED
    BY <1>1, <2>1 DEF MirrorInv, SimulationAhead
<1>10. ErrorsAhead'
  <2> SUFFICES ASSUME NEW i \in 1..4, i <= good' + Len(frame')
               PROVE  enc'.err[i] = dec'.err[i]
    BY <1>6 DEF ErrorsAhead
  <2>1. good' > 0 /\ i <= good + Len(frame)
    BY <1>1, <1>2, <1>3, <1>5
  <2>2. enc.err[i] = p.err[i]
    BY <1>3, <2>1 DEF MirrorInv, ErrorsAhead
  <2> QED
    BY <1>1, <2>2
<1>11. PitchGainAhead'
  <2> SUFFICES ASSUME good' + Len(frame') > 0, "tamed" \notin drift'
               PROVE  enc'.gp = dec'.gp
    BY <1>6 DEF PitchGainAhead
  <2>1. link = "clean" /\ good + Len(frame) > 0 /\ "tamed" \notin drift
    BY <1>1, <1>2, <1>3, <1>5
  <2>2. enc.gp = p.gp
    BY <2>1 DEF MirrorInv, PitchGainAhead
  <2> QED
    BY <1>1, <2>2
<1> QED
  BY <1>7, <1>8, <1>9, <1>10, <1>11 DEF MirrorInv

\* A recovery scales the excitation history only.
LEMMA RecoverTraces ==
  ASSUME NEW m, NEW f, NEW o \in BOOLEAN
  PROVE  /\ Recover(Receive(m, f), o).err = Receive(m, f).err
         /\ Recover(Receive(m, f), o).gp = Receive(m, f).gp
BY DEF Recover, Receive, Remember

\* Errors and pitch gain of a decoded subframe do not depend on the excitation
\* history it is decoded from.
LEMMA ReceiveTraces ==
  ASSUME NEW m, NEW n, NEW f, m.err = n.err
  PROVE  /\ Receive(m, f).err = Receive(n, f).err
         /\ Receive(m, f).gp = Receive(n, f).gp
BY DEF Receive, Remember

\* Decode, its filter overflowing or not.
LEMMA StrictTraces ==
  ASSUME MirrorInv, Encoded, NEW o1 \in BOOLEAN, NEW o2 \in BOOLEAN,
         Strict(o1, o2)
  PROVE  /\ dec'.err = Play(dec, frame).err /\ dec'.gp = Play(dec, frame).gp
         /\ ~o1 /\ ~o2 => dec' = Play(dec, frame)
<1> DEFINE m1 == Recover(Receive(dec, frame[1]), o1)
           p1 == Receive(dec, frame[1])
<1>1. Play(dec, frame) = Receive(p1, frame[2])
  BY PlayEnds DEF Encoded
<1>2. dec' = Recover(Receive(m1, frame[2]), o2)
  BY DEF Strict
<1>3. m1.err = p1.err
  BY RecoverTraces
<1>4. ~o1 => m1 = p1
  BY DEF Recover
<1> HIDE DEF m1, p1
<1>5. /\ dec'.err = Receive(m1, frame[2]).err
      /\ dec'.gp = Receive(m1, frame[2]).gp
  BY <1>2, RecoverTraces
<1>6. ~o2 => dec' = Receive(m1, frame[2])
  BY <1>2 DEF Recover
<1> QED
  BY <1>1, <1>3, <1>4, <1>5, <1>6, ReceiveTraces

\* An intact frame takes the Decoder to where the Encoder is.
LEMMA DecodeGoodMirror == MirrorInv /\ DecodeGood => MirrorInv'
<1> SUFFICES ASSUME MirrorInv, DecodeGood PROVE MirrorInv'
  OBVIOUS
<1>1. Heard /\ Encoded /\ Strict(FALSE, FALSE) /\ drift' = drift
  BY DEF DecodeGood, Heard
<1> QED
  BY <1>1, StrictTraces, HeardMirror

\* One whose synthesis overflowed counts as an upset.
LEMMA DecodeOverflowMirror == MirrorInv /\ DecodeOverflow => MirrorInv'
<1> SUFFICES ASSUME MirrorInv, DecodeOverflow PROVE MirrorInv'
  OBVIOUS
<1>1. PICK o1, o2 \in BOOLEAN : Strict(o1, o2)
  BY DEF DecodeOverflow
<1>2. Heard /\ Encoded /\ drift \subseteq drift' /\ "upset" \in drift'
  BY DEF DecodeOverflow, Heard, Upset
<1> QED
  BY <1>1, <1>2, StrictTraces, HeardMirror

\* Blended decoding advances the predictor like strict decoding.
LEMMA DecodeBlendMirror == MirrorInv /\ DecodeBlend => MirrorInv'
<1> SUFFICES ASSUME MirrorInv, DecodeBlend PROVE MirrorInv'
  OBVIOUS
<1>1. Heard /\ Encoded /\ drift' = drift
  BY DEF DecodeBlend, Heard
<1>2. dec' = Play(dec, frame)
  BY <1>1, PlayEnds DEF DecodeBlend, Encoded
<1> QED
  BY <1>1, <1>2, HeardMirror

\* The enhanced path invents fixed gains, and nothing else.
LEMMA DecodeEnhancedMirror == MirrorInv /\ DecodeEnhanced => MirrorInv'
<1> SUFFICES ASSUME MirrorInv, DecodeEnhanced PROVE MirrorInv'
  OBVIOUS
<1> DEFINE g1 == UnpackGains(frame[1].bits)
           g2 == UnpackGains(frame[2].bits)
           m1(gc) == Remember(dec, frame[1].shape, g1, PitchGain(g1), gc)
<1>1. Heard /\ Encoded /\ drift \subseteq drift' /\ "upset" \in drift'
  BY DEF DecodeEnhanced, Heard, Upset
<1>2. PICK gc1, gc2 \in EnhancedGains :
        dec' = Remember(m1(gc1), frame[2].shape, g2, PitchGain(g2), gc2)
  BY DEF DecodeEnhanced
<1>3. Play(dec, frame) = Receive(Receive(dec, frame[1]), frame[2])
  BY <1>1, PlayEnds DEF Encoded
<1>4. m1(gc1).err = Receive(dec, frame[1]).err
  BY DEF Receive, Remember
<1> HIDE DEF m1
<1>5. /\ dec'.err = Push(m1(gc1).err, PredictionError[g2])
      /\ dec'.gp = PitchGain(g2)
  BY <1>2, RememberTraces
<1>6. /\ Play(dec, frame).err =
           Push(Receive(dec, frame[1]).err, PredictionError[g2])
      /\ Play(dec, frame).gp = PitchGain(g2)
  BY <1>3, RememberTraces DEF Receive
<1> QED
  BY <1>1, <1>4, <1>5, <1>6, HeardMirror

\* What a search commits, either way it is scaled.
LEMMA EncodeMirror == MirrorInv /\ (KeepGains \/ RepairGains) => MirrorInv'
<1> SUFFICES ASSUME MirrorInv, KeepGains \/ RepairGains PROVE MirrorInv'
  OBVIOUS
<1>1. CASE KeepGains
  BY <1>1, CommitMirror DEF KeepGains
<1>2. CASE RepairGains
  <2>1. Repair \in {"wide", "narrow"}
    BY <1>2, MirrorAssumption DEF RepairGains
  <2> QED
    BY <1>2, <2>1, CommitMirror DEF RepairGains
<1> QED
  BY <1>1, <1>2

\* Frames nobody hears.
LEMMA UnheardMirror == MirrorInv /\ (Lose \/ DecodeErased) => MirrorInv'
<1> SUFFICES ASSUME MirrorInv, Lose \/ DecodeErased PROVE MirrorInv'
  OBVIOUS
<1>1. CASE Lose
  BY <1>1, ApartMirror DEF Lose, NextFrame, Upset
<1>2. CASE DecodeErased
  BY <1>2, ApartMirror DEF DecodeErased, NextFrame, Upset
<1> QED
  BY <1>1, <1>2

\* The invariant is inductive.
LEMMA NextMirror == MirrorInv /\ [Next]_vars => MirrorInv'
<1> SUFFICES ASSUME MirrorInv, [Next]_vars PROVE MirrorInv'
  OBVIOUS
<1>1. CASE KeepGains \/ RepairGains
  BY <1>1, EncodeMirror
<1>2. CASE ResetEncoder
  BY <1>2, ResetEncoderMirror
<1>3. CASE Damage
  BY <1>3, DamageMirror
<1>4. CASE Lose \/ DecodeErased
  BY <1>4, UnheardMirror
<1>5. CASE DecodeGood
  BY <1>5, DecodeGoodMirror
<1>6. CASE DecodeOverflow
  BY <1>6, DecodeOverflowMirror
<1>7. CASE DecodeBlend
  BY <1>7, DecodeBlendMirror
<1>8. CASE DecodeEnhanced
  BY <1>8, DecodeEnhancedMirror
<1>9. CASE ResetDecoder
  BY <1>9, ResetDecoderMirror
<1>10. CASE UNCHANGED vars
  BY <1>10 DEF vars, codec, MirrorInv, FrameOK, DamageInv, EncoderAhead,
     SimulationAhead, ErrorsAhead, PitchGainAhead
<1> QED
  BY <1>1, <1>2, <1>3, <1>4, <1>5, <1>6, <1>7, <1>8, <1>9, <1>10
     DEF Next, Encode, Link, Decode

-----------------------------------------------------------------------------
(* The theorems.                                                           *)

\* The invariant holds in every reachable state.
THEOREM Invariance == Spec => []MirrorInv
<1> QED
  BY InitMirror, NextMirror, PTL DEF Spec

\* Between frames nothing is ahead.
LEMMA SettledPlay ==
  ASSUME MirrorInv, Settled
  PROVE  Play(dec, frame) = dec /\ Len(frame) = 0 /\ link = "clean"
BY PlayEnds, BetweenFrames DEF Settled

\* Of an Encoder that neither tames nor repairs narrowly, a Decoder that never
\* overflows and a link that delivers, all copies are the same between frames.
THEOREM LockStepHolds == Spec => []LockStep
<1>1. MirrorInv => LockStep
  BY SettledPlay DEF MirrorInv, LockStep, EncoderAhead, SimulationAhead
<1> QED
  BY <1>1, Invariance, PTL

\* The decoder simulated for the gain repair is the real one as long as the
\* Decoder is not set apart.
THEOREM SimulationHolds == Spec => []SimulationIsTheReceiver
<1>1. MirrorInv => SimulationIsTheReceiver
  BY SettledPlay DEF MirrorInv, SimulationIsTheReceiver, SimulationAhead
<1> QED
  BY <1>1, Invariance, PTL

\* After any losses, intact subframes make the gain predictors agree, one entry
\* a subframe, and the pitch gains.
THEOREM ResyncHolds == Spec => []GainHistoryResyncs
<1>1. ASSUME MirrorInv PROVE GainHistoryResyncs
  <2> SUFFICES ASSUME Settled
               PROVE  /\ \A i \in 1..good : enc.err[i] = dec.err[i]
                      /\ good > 0 /\ "tamed" \notin drift => enc.gp = dec.gp
    BY DEF GainHistoryResyncs
  <2>1. good \in 0..4 /\ good + Len(frame) = good
    BY <1>1, SettledPlay DEF MirrorInv, FrameOK
  <2>2. \A i \in 1..4 : i <= good => enc.err[i] = dec.err[i]
    BY <1>1, <2>1, SettledPlay DEF MirrorInv, ErrorsAhead
  <2>3. good > 0 /\ "tamed" \notin drift => enc.gp = dec.gp
    BY <1>1, <2>1, SettledPlay DEF MirrorInv, PitchGainAhead
  <2> QED
    BY <2>1, <2>2, <2>3
<1> QED
  BY <1>1, Invariance, PTL

-----------------------------------------------------------------------------
(* The types.  The widths enter as inequalities, never as ranges of         *)
(* numerals, which the provers would enumerate.                            *)

\* What the ranges mean.
LEMMA Widths ==
  ASSUME NEW x
  PROVE  /\ x \in Int16 <=> x \in Int /\ -32768 <= x /\ x <= 32767
         /\ x \in Int15 <=> x \in Int /\ 0 <= x /\ x <= 32767
         /\ x \in Int21 <=> x \in Int /\ -1048576 <= x /\ x <= 1048575
         /\ x \in LogGains <=> x \in Int /\ -131072 <= x /\ x <= 131071
         /\ x \in Betas <=> x \in Int /\ 3277 <= x /\ x <= 13017
<1>1. /\ MaxInt16 \in Int /\ MaxInt21 \in Int /\ MaxLogGain \in Int
      /\ betaLowerQ14 \in Int /\ betaUpperQ14 \in Int
  BY SMT DEF MaxInt16, MaxInt21, MaxLogGain, betaLowerQ14, betaUpperQ14
<1>2. /\ x \in Int16 <=> x \in Int /\ -MaxInt16 - 1 <= x /\ x <= MaxInt16
      /\ x \in Int15 <=> x \in Int /\ 0 <= x /\ x <= MaxInt16
      /\ x \in Int21 <=> x \in Int /\ -MaxInt21 - 1 <= x /\ x <= MaxInt21
      /\ x \in LogGains <=>
           x \in Int /\ -MaxLogGain - 1 <= x /\ x <= MaxLogGain
      /\ x \in Betas <=> x \in Int /\ betaLowerQ14 <= x /\ x <= betaUpperQ14
  BY SMT, <1>1 DEF Int16, Int15, Int21, LogGains, Betas
<1> QED
  BY SMT, <1>2 DEF MaxInt16, MaxInt21, MaxLogGain, betaLowerQ14, betaUpperQ14

\* A clamp stays within its bounds.
LEMMA LimitType ==
  ASSUME NEW x \in Int, NEW lo \in Int, NEW hi \in Int, lo <= hi
  PROVE  /\ Limit(x, lo, hi) \in Int
         /\ lo <= Limit(x, lo, hi) /\ Limit(x, lo, hi) <= hi
BY SMT DEF Limit

\* A pitch gain of the codebook is not negative and has 15 bits.
LEMMA PitchGainType ==
  ASSUME NEW g \in (0..7) \X (0..15)
  PROVE  PitchGain(g) \in Int15
<1>1. PICK a \in 0..7, b \in 0..15 : g = <<a, b>>
  OBVIOUS
<1>2. /\ GainGBK1[a + 1] \in Int
      /\ 0 <= GainGBK1[a + 1] /\ GainGBK1[a + 1] <= 3242
  BY SMT DEF GainGBK1
<1>3. /\ GainGBK2[b + 1] \in Int
      /\ 0 <= GainGBK2[b + 1] /\ GainGBK2[b + 1] <= 18973
  BY SMT DEF GainGBK2
<1>4. PitchGain(g) = GainGBK1[a + 1] + GainGBK2[b + 1]
  BY SMT, <1>1 DEF PitchGain
<1>5. /\ PitchGain(g) \in Int
      /\ 0 <= PitchGain(g) /\ PitchGain(g) <= 32767
  BY SMT, <1>2, <1>3, <1>4
<1> QED
  BY SMT, <1>5, Widths

\* The two log gains are in the range of the logarithms.
LEMMA LogGainType ==
  ASSUME NEW m, IsMemory(m), NEW s \in Shapes
  PROVE  /\ WideLogGain(m, s) \in LogGains
         /\ NarrowLogGain(m, s) \in LogGains
<1>1. PICK e1, e2, e3, e4 \in Int :
        /\ m.err[1] = e1 /\ m.err[2] = e2 /\ m.err[3] = e3 /\ m.err[4] = e4
        /\ -32768 <= e1 /\ e1 <= 32767 /\ -32768 <= e2 /\ e2 <= 32767
        /\ -32768 <= e3 /\ e3 <= 32767 /\ -32768 <= e4 /\ e4 <= 32767
  <2>1. /\ m.err[1] \in Int16 /\ m.err[2] \in Int16
        /\ m.err[3] \in Int16 /\ m.err[4] \in Int16
    BY SMT DEF IsMemory
  <2> QED
    BY SMTT(60), <2>1, Widths
<1>2. PICK p \in Int : /\ p = PredictedEnergyQ24(m.err)
                       /\ -960954368 <= p /\ p <= 960954368
  <2>1. PICK q : q = 5571 * e1 + 4751 * e2 + 2785 * e3 + 1556 * e4
    OBVIOUS
  <2>2. PredictedEnergyQ24(m.err) = 2 * q
    BY SMT, <1>1, <2>1 DEF PredictedEnergyQ24, GainMAPredictor
  <2>3. q \in Int /\ -480477184 <= q /\ q <= 480477184
    BY SMT, <1>1, <2>1
  <2> QED
    BY SMT, <2>2, <2>3
<1>3. PICK n, k \in Int :
        /\ n = MeanLessEnergy(s, Beta(m)) /\ -1048576 <= n /\ n <= 1048575
        /\ k = EnergyQ10(s, Beta(m)) /\ -32768 <= k /\ k <= 32767
  <2>1. m.gp \in Int
    BY SMT, Widths DEF IsMemory
  <2>2. Beta(m) \in Betas
    <3>1. /\ Beta(m) \in Int
          /\ betaLowerQ14 <= Beta(m) /\ Beta(m) <= betaUpperQ14
      BY SMT, <2>1 DEF Beta, Limit, betaLowerQ14, betaUpperQ14
    <3> QED
      BY SMT, <3>1, Widths DEF betaLowerQ14, betaUpperQ14
  <2>3. MeanLessEnergy(s, Beta(m)) \in Int21 /\ EnergyQ10(s, Beta(m)) \in Int16
    BY <2>2, MirrorAssumption
  <2> QED
    BY SMT, <2>3, Widths
<1>4. PICK wide \in Int :
        /\ WideLogGain(m, s) = wide
        /\ -131072 <= wide /\ wide <= 131071
  <2>1. WideLogGain(m, s) = (n * 1024 + p) \div 16384
    BY <1>2, <1>3 DEF WideLogGain
  <2>2. /\ (n * 1024 + p) \div 16384 \in Int
        /\ -131072 <= (n * 1024 + p) \div 16384
        /\ (n * 1024 + p) \div 16384 <= 131071
    BY SMT, <1>2, <1>3
  <2> QED
    BY SMT, <2>1, <2>2
<1>5. PICK narrow \in Int :
        /\ NarrowLogGain(m, s) = narrow
        /\ -131072 <= narrow /\ narrow <= 131071
  <2>1. PICK d \in Int : d = p \div 16384
    BY SMT, <1>2
  <2>2. PICK q \in Int : /\ q = Sat16(GainMeanEnergyQ10 + Sat16(d))
                         /\ -32768 <= q /\ q <= 32767
    BY SMT, <2>1 DEF Sat16, Limit, MaxInt16, GainMeanEnergyQ10
  <2>3. NarrowLogGain(m, s) = q - k
    BY <1>2, <1>3, <2>1, <2>2 DEF NarrowLogGain
  <2> QED
    BY SMT, <1>3, <2>2, <2>3
<1> QED
  BY SMT, <1>4, <1>5, Widths

\* A quantised fixed gain has 15 bits.
LEMMA FixedGainType ==
  ASSUME NEW l \in LogGains, NEW g \in Gains
  PROVE  FixedGain(l, g) \in Int15
<1>1. LinearGain(l, g) \in Int
  BY MirrorAssumption
<1>2. /\ FixedGain(l, g) \in Int
      /\ 0 <= FixedGain(l, g) /\ FixedGain(l, g) <= 32767
  BY SMT, <1>1 DEF FixedGain, Limit, MaxInt16
<1> QED
  BY SMT, <1>2, Widths

\* Pushing a 16-bit entry keeps a history one.
LEMMA PushType ==
  ASSUME NEW e \in [1..4 -> Int16], NEW u \in Int16
  PROVE  Push(e, u) \in [1..4 -> Int16]
BY DEF Push

\* A subframe's gains and errors make a memory of a memory.
LEMMA RememberType ==
  ASSUME NEW m, IsMemory(m), NEW s, NEW g \in (0..7) \X (0..15),
         NEW gp \in Int15, NEW gc
  PROVE  IsMemory(Remember(m, s, g, gp, gc))
<1>1. Push(m.err, PredictionError[g]) \in [1..4 -> Int16]
  BY PushType, MirrorAssumption DEF IsMemory
<1> QED
  BY <1>1, RememberTraces DEF IsMemory

\* An intact subframe keeps a memory's widths.
LEMMA ReceiveType ==
  ASSUME NEW m, IsMemory(m), NEW f \in AllFields
  PROVE  IsMemory(Receive(m, f))
<1>1. UnpackGains(f.bits) \in (0..7) \X (0..15)
  BY FieldsType, MirrorAssumption
<1> QED
  BY <1>1, PitchGainType, RememberType DEF Receive

\* So does the shift after an overflow.
LEMMA RecoverType ==
  ASSUME NEW m, IsMemory(m), NEW f \in AllFields, NEW o \in BOOLEAN
  PROVE  IsMemory(Recover(Receive(m, f), o))
BY ReceiveType, RecoverTraces DEF IsMemory

\* A concealed subframe, too, its filter overflowing or not.
LEMMA ConcealType ==
  ASSUME NEW m, IsMemory(m), NEW s, NEW gc, NEW o \in BOOLEAN
  PROVE  IsMemory(Recover(Conceal(m, s, gc), o))
<1>1. FadedPitchGain(m.gp) \in Int15
  <2>1. PICK a \in Int : a = m.gp /\ 0 <= a /\ a <= 32767
    BY SMT, Widths DEF IsMemory
  <2>2. /\ (a * 29491) \div 32768 \in Int
        /\ 0 <= (a * 29491) \div 32768 /\ (a * 29491) \div 32768 <= 32767
    BY SMT, <2>1
  <2> QED
    BY SMT, <2>1, <2>2, Widths DEF FadedPitchGain
<1>2. ErasureError(m.err) \in Int16
  <2>1. PICK e1, e2, e3, e4 \in Int :
          /\ m.err[1] = e1 /\ m.err[2] = e2 /\ m.err[3] = e3 /\ m.err[4] = e4
          /\ e1 <= 32767 /\ e2 <= 32767 /\ e3 <= 32767 /\ e4 <= 32767
    <3>1. /\ m.err[1] \in Int16 /\ m.err[2] \in Int16
          /\ m.err[3] \in Int16 /\ m.err[4] \in Int16
      BY SMT DEF IsMemory
    <3> QED
      BY SMTT(60), <3>1, Widths
  <2>2. PICK u \in Int : /\ u = (e1 + e2 + e3 + e4) \div 4 - 4096
                         /\ u <= 32767
    BY SMT, <2>1
  <2>3. ErasureError(m.err) =
          IF u < PastErrorsDefault THEN PastErrorsDefault ELSE u
    BY SMT, <2>1, <2>2 DEF ErasureError
  <2>4. /\ ErasureError(m.err) \in Int
        /\ -32768 <= ErasureError(m.err) /\ ErasureError(m.err) <= 32767
    BY SMT, <2>2, <2>3 DEF PastErrorsDefault
  <2> QED
    BY SMT, <2>4, Widths
<1>3. /\ Recover(Conceal(m, s, gc), o).gp = FadedPitchGain(m.gp)
      /\ Recover(Conceal(m, s, gc), o).err = Push(m.err, ErasureError(m.err))
  BY DEF Recover, Conceal
<1> QED
  BY <1>1, <1>2, <1>3, PushType DEF IsMemory

\* A fixed gain fades within its bounds.
LEMMA FadedFixedGainType ==
  ASSUME NEW gc \in Int15
  PROVE  FadedFixedGain(gc) \in Int15
<1>1. PICK a \in Int : a = gc /\ 0 <= a /\ a <= 32767
  BY SMT, Widths
<1>2. /\ (a * 32112) \div 32768 \in Int
      /\ 0 <= (a * 32112) \div 32768 /\ (a * 32112) \div 32768 <= 32767
  BY SMT, <1>1
<1> QED
  BY SMT, <1>1, <1>2, Widths DEF FadedFixedGain

\* The memory both sides start from.
LEMMA ColdType == IsMemory(Cold)
<1>1. 0 \in Int15 /\ PastErrorsDefault \in Int16
  BY SMT, Widths DEF PastErrorsDefault
<1>2. Cold.gp = 0 /\ Cold.err = [i \in 1..4 |-> PastErrorsDefault]
  BY DEF Cold
<1> QED
  BY <1>1, <1>2 DEF IsMemory

-----------------------------------------------------------------------------
(* Every step keeps the types.                                             *)

\* What counts and marks.
Counters ==
  /\ frame \in Seq(AllFields) /\ Len(frame) <= 2
  /\ link \in {"clean", "damaged"}
  /\ drift \subseteq {"tamed", "narrow", "upset"}
  /\ good \in 0..4 /\ lost \in 0..(LongLoss + 1) /\ upsets \in 0..MaxUpsets

Memories == IsMemory(enc) /\ IsMemory(sim) /\ IsMemory(dec) /\ fixed \in Int15

\* Types of the counters and of the memories.
LEMMA TypeParts ==
  /\ TypeOK <=> Counters /\ Memories
  /\ TypeOK' <=> Counters' /\ Memories'
BY DEF TypeOK, Counters, Memories

\* A frame's fields are fields.
LEMMA FrameFields ==
  ASSUME Counters, Encoded
  PROVE  frame[1] \in AllFields /\ frame[2] \in AllFields
<1>1. frame \in Seq(AllFields) /\ Len(frame) = 2
  BY DEF Counters, Encoded
<1>2. 1 \in 1..Len(frame) /\ 2 \in 1..Len(frame)
  BY <1>1
<1> QED
  BY <1>1, <1>2

\* Bounds of the counters after an upset.
LEMMA UpsetType ==
  ASSUME Counters, Upset
  PROVE  /\ upsets' \in 0..MaxUpsets
         /\ drift' \subseteq {"tamed", "narrow", "upset"}
<1>1. MaxUpsets \in Nat
  BY MirrorAssumption
<1> QED
  BY <1>1 DEF Counters, Upset

\* An upset is counted.
LEMMA RestartType ==
  ASSUME Counters, NEW c \in BOOLEAN, Restart(c)
  PROVE  /\ upsets' \in 0..MaxUpsets
         /\ drift' \subseteq {"tamed", "narrow", "upset"}
<1>1. CASE c
  BY <1>1 DEF Restart, Counters
<1>2. CASE ~c
  BY <1>2, UpsetType DEF Restart
<1> QED
  BY <1>1, <1>2

\* Cold memories have their widths.
LEMMA InitType == Init => TypeOK
<1> SUFFICES ASSUME Init PROVE TypeOK
  OBVIOUS
<1>1. LongLoss \in Nat /\ MaxUpsets \in Nat
  BY MirrorAssumption
<1>2. Counters
  BY <1>1 DEF Init, Counters
<1>3. 0 \in Int15
  BY SMT, Widths
<1>4. Memories
  BY <1>3, ColdType DEF Init, Memories
<1> QED
  BY <1>2, <1>4, TypeParts

\* Committing a pair keeps the widths of the Encoder's.
LEMMA CommitType ==
  ASSUME TypeOK, NEW s \in Shapes, NEW g \in Gains,
         NEW predictor \in {"wide", "narrow"}, Commit(s, g, predictor)
  PROVE  TypeOK'
<1> DEFINE f == Fields(s, g)
           gp == Tame(PitchGain(g), enc.exc)
<1>1. g \in (0..7) \X (0..15) /\ f \in AllFields
  BY MirrorAssumption DEF AllFields
<1>2. Counters /\ Memories
  BY TypeParts
<1>3. Counters'
  <2>1. frame \in Seq(AllFields) /\ Len(frame) < 2 /\ frame' = Append(frame, f)
    BY <1>2 DEF Counters, Commit
  <2>2. frame' \in Seq(AllFields) /\ Len(frame') <= 2
    BY <1>1, <2>1, PlayAppend
  <2>3. drift' \subseteq {"tamed", "narrow", "upset"}
    BY <1>2 DEF Counters, Commit
  <2> QED
    BY <1>2, <2>2, <2>3 DEF Counters, Commit
<1>4. Memories'
  <2>1. gp \in Int15
    <3>1. GpClipQ14 \in Int15
      BY SMT, Widths DEF GpClipQ14
    <3> QED
      BY <1>1, <3>1, PitchGainType DEF Tame
  <2>2. IsMemory(enc')
    BY <1>1, <1>2, <2>1, RememberType DEF Memories, Commit
  <2>3. IsMemory(sim')
    BY <1>1, <1>2, ReceiveType DEF Memories, Commit, Simulate
  <2> QED
    BY <1>2, <2>2, <2>3 DEF Memories, Commit
<1> QED
  BY <1>3, <1>4, TypeParts

\* So do Resets.
LEMMA ResetType == TypeOK /\ (ResetEncoder \/ ResetDecoder) => TypeOK'
<1> SUFFICES ASSUME TypeOK, ResetEncoder \/ ResetDecoder PROVE TypeOK'
  OBVIOUS
<1>1. Counters /\ Memories
  BY TypeParts
<1>2. upsets' \in 0..MaxUpsets /\ drift' \subseteq {"tamed", "narrow", "upset"}
  BY <1>1, RestartType DEF ResetEncoder, ResetDecoder
<1>3. LongLoss \in Nat
  BY MirrorAssumption
<1>4. 0 \in Int15
  BY SMT, Widths
<1>5. CASE ResetEncoder
  <2>1. Counters'
    BY <1>1, <1>2, <1>5 DEF ResetEncoder, Counters
  <2>2. Memories'
    BY <1>1, <1>5, ColdType DEF ResetEncoder, Memories
  <2> QED
    BY <2>1, <2>2, TypeParts
<1>6. CASE ResetDecoder
  <2>1. Counters'
    BY <1>1, <1>2, <1>3, <1>6 DEF ResetDecoder, Counters
  <2>2. Memories'
    BY <1>1, <1>4, <1>6, ColdType DEF ResetDecoder, Memories
  <2> QED
    BY <2>1, <2>2, TypeParts
<1> QED
  BY <1>5, <1>6

\* The link touches no memory.
LEMMA LinkType == TypeOK /\ (Damage \/ Lose) => TypeOK'
<1> SUFFICES ASSUME TypeOK, Damage \/ Lose PROVE TypeOK'
  OBVIOUS
<1>1. Counters /\ Memories
  BY TypeParts
<1>2. upsets' \in 0..MaxUpsets /\ drift' \subseteq {"tamed", "narrow", "upset"}
  BY <1>1, UpsetType DEF Damage, Lose
<1>3. /\ frame' \in Seq(AllFields) /\ Len(frame') <= 2
      /\ link' \in {"clean", "damaged"}
  <2>1. CASE Damage
    <3>1. PICK f1, f2 \in AllFields : frame' = <<f1, f2>>
      BY <2>1 DEF Damage
    <3> QED
      BY <2>1, <3>1 DEF Damage
  <2>2. CASE Lose
    BY <2>2 DEF Lose, NextFrame
  <2> QED
    BY <2>1, <2>2
<1>4. good' = 0 /\ lost' = lost /\ UNCHANGED codec
  BY DEF Damage, Lose
<1>5. Counters'
  BY <1>1, <1>2, <1>3, <1>4 DEF Counters
<1>6. Memories'
  BY <1>1, <1>4 DEF codec, Memories
<1> QED
  BY <1>5, <1>6, TypeParts

\* A frame that is heard leaves the Encoder and the counters typed.
LEMMA HeardType ==
  ASSUME TypeOK, Heard, IsMemory(dec'), fixed' \in Int15,
         UNCHANGED <<drift, upsets>> \/ Upset
  PROVE  TypeOK'
<1>1. Counters /\ Memories
  BY TypeParts
<1>2. upsets' \in 0..MaxUpsets /\ drift' \subseteq {"tamed", "narrow", "upset"}
  BY <1>1, UpsetType DEF Counters
<1>3. good' \in 0..4
  BY <1>1 DEF Heard, Counters, Limit
<1>4. frame' = <<>> /\ link' = "clean" /\ lost' = 0
  BY DEF Heard, NextFrame
<1>5. LongLoss \in Nat
  BY MirrorAssumption
<1>6. Counters'
  BY <1>2, <1>3, <1>4, <1>5 DEF Counters
<1>7. Memories'
  BY <1>1 DEF Heard, Memories
<1> QED
  BY <1>6, <1>7, TypeParts

\* Strict decoding of two subframes keeps the widths.
LEMMA StrictType ==
  ASSUME TypeOK, Encoded, NEW o1 \in BOOLEAN, NEW o2 \in BOOLEAN,
         Strict(o1, o2)
  PROVE  IsMemory(dec') /\ fixed' \in Int15
<1> DEFINE m1 == Recover(Receive(dec, frame[1]), o1)
<1>1. Counters /\ Memories
  BY TypeParts
<1>2. frame[1] \in AllFields /\ frame[2] \in AllFields
  BY <1>1, FrameFields
<1>3. IsMemory(m1)
  BY <1>1, <1>2, RecoverType DEF Memories
<1>4. /\ dec' = Recover(Receive(m1, frame[2]), o2)
      /\ fixed' = FixedGain(WideLogGain(m1, frame[2].shape),
                            UnpackGains(frame[2].bits))
  BY DEF Strict
<1> HIDE DEF m1
<1>5. /\ WideLogGain(m1, frame[2].shape) \in LogGains
      /\ UnpackGains(frame[2].bits) \in Gains
  BY <1>2, <1>3, FieldsType, LogGainType
<1> QED
  BY <1>2, <1>3, <1>4, <1>5, RecoverType, FixedGainType

\* So does decoding of every other kind.
LEMMA DecodeType ==
  TypeOK /\ (DecodeGood \/ DecodeOverflow \/ DecodeBlend \/ DecodeEnhanced)
    => TypeOK'
<1> SUFFICES ASSUME TypeOK,
                    \/ DecodeGood \/ DecodeOverflow
                    \/ DecodeBlend \/ DecodeEnhanced
             PROVE TypeOK'
  OBVIOUS
<1>1. Counters /\ Memories /\ Encoded /\ Heard
  BY TypeParts
     DEF DecodeGood, DecodeOverflow, DecodeBlend, DecodeEnhanced, Heard
<1>2. frame[1] \in AllFields /\ frame[2] \in AllFields
  BY <1>1, FrameFields
<1>3. CASE DecodeGood
  BY <1>1, <1>3, StrictType, HeardType DEF DecodeGood
<1>4. CASE DecodeOverflow
  <2>1. PICK o1, o2 \in BOOLEAN : Strict(o1, o2)
    BY <1>4 DEF DecodeOverflow
  <2> QED
    BY <1>1, <1>4, <2>1, StrictType, HeardType DEF DecodeOverflow
<1>5. CASE DecodeBlend
  <2>1. IsMemory(dec')
    BY <1>1, <1>2, <1>5, ReceiveType DEF DecodeBlend, Memories
  <2> QED
    BY <1>1, <1>5, <2>1, HeardType DEF DecodeBlend, Memories
<1>6. CASE DecodeEnhanced
  <2> DEFINE g1 == UnpackGains(frame[1].bits)
             g2 == UnpackGains(frame[2].bits)
             m1(gc) == Remember(dec, frame[1].shape, g1, PitchGain(g1), gc)
  <2>1. PICK gc1, gc2 \in EnhancedGains :
          dec' = Remember(m1(gc1), frame[2].shape, g2, PitchGain(g2), gc2)
    BY <1>6 DEF DecodeEnhanced
  <2>2. g1 \in (0..7) \X (0..15) /\ g2 \in (0..7) \X (0..15)
    BY <1>2, FieldsType, MirrorAssumption
  <2>3. IsMemory(m1(gc1))
    BY <1>1, <2>2, PitchGainType, RememberType DEF Memories
  <2> HIDE DEF g2, m1
  <2>4. IsMemory(dec')
    BY <2>1, <2>2, <2>3, PitchGainType, RememberType
  <2> QED
    BY <1>1, <1>6, <2>4, HeardType DEF DecodeEnhanced, Memories
<1> QED
  BY <1>3, <1>4, <1>5, <1>6

\* And concealment.
LEMMA ErasedType == TypeOK /\ DecodeErased => TypeOK'
<1> SUFFICES ASSUME TypeOK, DecodeErased PROVE TypeOK'
  OBVIOUS
<1>1. Counters /\ Memories
  BY TypeParts
<1>2. PICK s1, s2 \in Shapes, o1, o2 \in BOOLEAN :
        LET gc1 == FadedFixedGain(fixed)
            gc2 == FadedFixedGain(gc1)
            m1 == Recover(Conceal(dec, s1, gc1), o1)
        IN dec' = Recover(Conceal(m1, s2, gc2), o2) /\ fixed' = gc2
  BY DEF DecodeErased
<1>3. fixed' \in Int15
  BY <1>1, <1>2, FadedFixedGainType DEF Memories
<1>4. IsMemory(dec')
  <2> DEFINE m1 == Recover(Conceal(dec, s1, FadedFixedGain(fixed)), o1)
  <2>1. IsMemory(m1)
    BY <1>1, ConcealType DEF Memories
  <2>2. dec' =
          Recover(Conceal(m1, s2, FadedFixedGain(FadedFixedGain(fixed))), o2)
    BY <1>2
  <2> HIDE DEF m1
  <2> QED
    BY <2>1, <2>2, ConcealType
<1>5. upsets' \in 0..MaxUpsets /\ drift' \subseteq {"tamed", "narrow", "upset"}
  <2>1. CASE lost = 0
    BY <1>1, <2>1, UpsetType DEF DecodeErased
  <2>2. CASE lost # 0
    BY <1>1, <2>2 DEF DecodeErased, Counters
  <2> QED
    BY <2>1, <2>2
<1>6. lost' \in 0..(LongLoss + 1)
  <2>1. LongLoss \in Nat
    BY MirrorAssumption
  <2> QED
    BY <1>1, <2>1 DEF DecodeErased, Counters
<1>7. frame' = <<>> /\ link' = "clean" /\ good' = 0 /\ enc' = enc /\ sim' = sim
  BY DEF DecodeErased, NextFrame
<1>8. Counters'
  BY <1>5, <1>6, <1>7 DEF Counters
<1>9. Memories'
  BY <1>1, <1>3, <1>4, <1>7 DEF Memories
<1> QED
  BY <1>8, <1>9, TypeParts

\* No gain and no prediction error leaves its width, whatever is searched,
\* damaged, lost or concealed.
THEOREM TypeCorrect == Spec => []TypeOK
<1>1. TypeOK /\ [Next]_vars => TypeOK'
  <2> SUFFICES ASSUME TypeOK, [Next]_vars PROVE TypeOK'
    OBVIOUS
  <2>1. CASE KeepGains
    BY <2>1, CommitType DEF KeepGains
  <2>2. CASE RepairGains
    <3>1. Repair \in {"wide", "narrow"}
      BY <2>2, MirrorAssumption DEF RepairGains
    <3> QED
      BY <2>2, <3>1, CommitType DEF RepairGains
  <2>3. CASE ResetEncoder \/ ResetDecoder
    BY <2>3, ResetType
  <2>4. CASE Damage \/ Lose
    BY <2>4, LinkType
  <2>5. CASE DecodeGood \/ DecodeOverflow \/ DecodeBlend \/ DecodeEnhanced
    BY <2>5, DecodeType
  <2>6. CASE DecodeErased
    BY <2>6, ErasedType
  <2>7. CASE UNCHANGED vars
    <3>1. Counters' <=> Counters
      BY <2>7 DEF vars, Counters
    <3>2. Memories' <=> Memories
      BY <2>7 DEF vars, codec, Memories
    <3> QED
      BY <3>1, <3>2, TypeParts
  <2> QED
    BY <2>1, <2>2, <2>3, <2>4, <2>5, <2>6, <2>7 DEF Next, Encode, Link, Decode
<1> QED
  BY <1>1, InitType, PTL DEF Spec

-----------------------------------------------------------------------------
(* Silence after a long loss.                                              *)
(*                                                                         *)
(* A fading gain loses a 50th or a tenth of itself, rounded up, in every   *)
(* subframe.  The bounds below fall along straight lines, each no steeper  *)
(* than the gain still falls at its lower end.                             *)

FixedFade(n) ==
  IF n <= 70 THEN 32767 - 275 * n
  ELSE IF n <= 138 THEN 13517 - 116 * (n - 70)
  ELSE IF n <= 198 THEN 5629 - 52 * (n - 138)
  ELSE IF n <= 251 THEN 2509 - 25 * (n - 198)
  ELSE IF n <= 314 THEN 1184 - 11 * (n - 251)
  ELSE IF n <= 373 THEN 491 - 5 * (n - 314)
  ELSE IF n <= 447 THEN 196 - 2 * (n - 373)
  ELSE IF n <= 495 THEN 48 - (n - 447)
  ELSE 0

PitchFade(n) ==
  IF n <= 61 THEN 32767 - 468 * n
  ELSE IF n <= 118 THEN 4219 - 64 * (n - 61)
  ELSE IF n <= 192 THEN 571 - 7 * (n - 118)
  ELSE IF n <= 245 THEN 53 - (n - 192)
  ELSE 0

\* Of the error of the n-th subframe lost; those before the loss have n <= 0.
ErrorFade(n) ==
  IF n > 44 THEN PastErrorsDefault ELSE 32767 - 4096 * ((n + 3) \div 4)

\* A concealed subframe takes the fixed gain one step down its worst path.
LEMMA FixedFades ==
  ASSUME NEW n \in Nat, NEW gc \in Int15, gc <= FixedFade(n)
  PROVE  FadedFixedGain(gc) <= FixedFade(n + 1)
<1>1. PICK a \in Int : a = gc /\ 0 <= a /\ a <= 32767 /\ a <= FixedFade(n)
  BY SMT, Widths
<1>2. (a * 32112) \div 32768 <= FixedFade(n + 1)
  <2>1. CASE n < 138
    BY SMT, <1>1, <2>1 DEF FixedFade
  <2>2. CASE n >= 138 /\ n < 251
    BY SMT, <1>1, <2>2 DEF FixedFade
  <2>3. CASE n >= 251 /\ n < 373
    BY SMT, <1>1, <2>3 DEF FixedFade
  <2>4. CASE n >= 373
    BY SMT, <1>1, <2>4 DEF FixedFade
  <2> QED
    BY SMT, <2>1, <2>2, <2>3, <2>4
<1> QED
  BY SMT, <1>1, <1>2 DEF FadedFixedGain

\* Likewise the pitch gain.
LEMMA PitchFades ==
  ASSUME NEW n \in Nat, NEW gp \in Int15, gp <= PitchFade(n)
  PROVE  FadedPitchGain(gp) <= PitchFade(n + 1)
<1>1. PICK a \in Int : a = gp /\ 0 <= a /\ a <= 32767 /\ a <= PitchFade(n)
  BY SMT, Widths
<1>2. (a * 29491) \div 32768 <= PitchFade(n + 1)
  BY SMT, <1>1 DEF PitchFade
<1> QED
  BY SMT, <1>1, <1>2 DEF FadedPitchGain

\* The errors fall to their initial value, and those of the loss not below it.
ErrorsFade(err, n) ==
  \A i \in 1..4 : /\ err[i] <= ErrorFade(n + 1 - i)
                  /\ i <= n => err[i] >= PastErrorsDefault

\* Likewise the errors of the predictor.
LEMMA ErrorsFadeOn ==
  ASSUME NEW n \in Nat, NEW err \in [1..4 -> Int16], ErrorsFade(err, n)
  PROVE  ErrorsFade(Push(err, ErasureError(err)), n + 1)
<1> DEFINE u == ErasureError(err)
<1>1. PICK e1, e2, e3, e4 \in Int :
        err[1] = e1 /\ err[2] = e2 /\ err[3] = e3 /\ err[4] = e4
  <2>1. err[1] \in Int16 /\ err[2] \in Int16 /\ err[3] \in Int16 /\ err[4] \in Int16
    OBVIOUS
  <2> QED
    BY SMT, <2>1, Widths
<1>2. /\ e1 <= ErrorFade(n) /\ (1 <= n => e1 >= PastErrorsDefault)
      /\ e2 <= ErrorFade(n - 1) /\ (2 <= n => e2 >= PastErrorsDefault)
      /\ e3 <= ErrorFade(n - 2) /\ (3 <= n => e3 >= PastErrorsDefault)
      /\ e4 <= ErrorFade(n - 3)
  BY SMT, <1>1 DEF ErrorsFade
<1>3. u \in Int /\ u <= ErrorFade(n + 1) /\ u >= PastErrorsDefault
  <2>1. u = LET v == (e1 + e2 + e3 + e4) \div 4 - 4096
            IN  IF v < PastErrorsDefault THEN PastErrorsDefault ELSE v
    BY <1>1 DEF ErasureError
  <2> HIDE DEF u
  <2>2. /\ u \in Int /\ u >= PastErrorsDefault
        /\ u = PastErrorsDefault \/ 4 * u <= e1 + e2 + e3 + e4 - 16384
    BY SMT, <2>1 DEF PastErrorsDefault
  <2>3. /\ e1 <= ErrorFade(n - 3) /\ e2 <= ErrorFade(n - 3) /\ e3 <= ErrorFade(n - 3)
        /\ e4 <= ErrorFade(n - 3)
    BY SMT, <1>2 DEF ErrorFade, PastErrorsDefault
  <2>4. /\ ErrorFade(n - 3) \in Int /\ ErrorFade(n + 1) \in Int
        /\ ErrorFade(n + 1) >= PastErrorsDefault
        /\ ErrorFade(n - 3) - 4096 <= ErrorFade(n + 1)
    BY SMT DEF ErrorFade, PastErrorsDefault
  <2>5. u = PastErrorsDefault \/ u <= ErrorFade(n - 3) - 4096
    BY SMT, <2>2, <2>3, <2>4
  <2> QED
    BY SMT, <2>2, <2>4, <2>5
<1> DEFINE p == Push(err, u)
<1>4. p[1] = u /\ p[2] = e1 /\ p[3] = e2 /\ p[4] = e3
  BY <1>1 DEF Push
<1> HIDE DEF u, p
<1>5. ASSUME NEW i \in 1..4
      PROVE  /\ p[i] <= ErrorFade((n + 1) + 1 - i)
             /\ i <= n + 1 => p[i] >= PastErrorsDefault
  <2>1. /\ (n + 1) + 1 - 1 = n + 1 /\ (n + 1) + 1 - 2 = n
        /\ (n + 1) + 1 - 3 = n - 1 /\ (n + 1) + 1 - 4 = n - 2
    OBVIOUS
  <2>2. CASE i = 1
    BY <1>3, <1>4, <2>1, <2>2
  <2>3. CASE i = 2
    BY SMT, <1>2, <1>4, <2>1, <2>3
  <2>4. CASE i = 3
    BY SMT, <1>2, <1>4, <2>1, <2>4
  <2>5. CASE i = 4
    BY SMT, <1>2, <1>4, <2>1, <2>5
  <2> QED
    BY <2>2, <2>3, <2>4, <2>5
<1> QED
  BY <1>5 DEF ErrorsFade, p, u

\* Where a decoder is after n concealed subframes in a row.
Fades(m, gc, n) ==
  gc <= FixedFade(n) /\ m.gp <= PitchFade(n) /\ ErrorsFade(m.err, n)

\* A concealed subframe fades all three, overflow or not.
LEMMA ConcealFades ==
  ASSUME NEW m, IsMemory(m), NEW gc \in Int15, NEW n \in Nat, Fades(m, gc, n),
         NEW s, NEW o \in BOOLEAN
  PROVE  /\ Fades(Recover(Conceal(m, s, FadedFixedGain(gc)), o), FadedFixedGain(gc), n + 1)
         /\ IsMemory(Recover(Conceal(m, s, FadedFixedGain(gc)), o))
         /\ FadedFixedGain(gc) \in Int15
<1> DEFINE faded == FadedFixedGain(gc)
           after == Recover(Conceal(m, s, faded), o)
<1>1. faded \in Int15 /\ IsMemory(after)
  BY ConcealType, FadedFixedGainType
<1>2. after.gp = FadedPitchGain(m.gp) /\ after.err = Push(m.err, ErasureError(m.err))
  BY DEF Recover, Conceal
<1>3. faded <= FixedFade(n + 1)
  BY FixedFades DEF Fades
<1> HIDE DEF faded, after
<1>4. after.gp <= PitchFade(n + 1)
  BY <1>2, PitchFades DEF Fades, IsMemory
<1>5. ErrorsFade(after.err, n + 1)
  BY <1>2, ErrorsFadeOn DEF Fades, IsMemory
<1> QED
  BY <1>1, <1>3, <1>4, <1>5 DEF Fades, faded, after

\* Any memory is where none was concealed.
LEMMA FadesFromAny ==
  ASSUME NEW m, IsMemory(m), NEW gc \in Int15
  PROVE  Fades(m, gc, 0)
<1>1. gc <= FixedFade(0)
  BY SMT, Widths DEF FixedFade
<1>2. m.gp <= PitchFade(0)
  BY SMT, Widths DEF PitchFade, IsMemory
<1>3. ASSUME NEW i \in 1..4
      PROVE  m.err[i] <= ErrorFade(0 + 1 - i) /\ ~(i <= 0)
  <2>1. m.err[i] \in Int16
    BY DEF IsMemory
  <2>2. ErrorFade(0 + 1 - i) = 32767
    BY SMT DEF ErrorFade
  <2> QED
    BY SMT, <2>1, <2>2, Widths
<1> QED
  BY <1>1, <1>2, <1>3 DEF Fades, ErrorsFade

FadeInv == Fades(dec, fixed, lost)

\* Each step keeps the gains below the path of their loss.
LEMMA FadeInvInductive ==
  ASSUME TypeOK, TypeOK', FadeInv, [Next]_vars
  PROVE  FadeInv'
<1>1. /\ IsMemory(dec) /\ fixed \in Int15 /\ lost \in Nat
      /\ IsMemory(dec') /\ fixed' \in Int15
  <2>1. LongLoss \in Nat
    BY MirrorAssumption
  <2> QED
    BY <2>1 DEF TypeOK
<1>2. CASE lost' = 0
  BY <1>1, <1>2, FadesFromAny DEF FadeInv
<1>3. CASE UNCHANGED <<dec, fixed, lost>>
  BY <1>3 DEF FadeInv
<1>4. CASE DecodeErased
  <2>1. PICK s1, s2 \in Shapes, o1, o2 \in BOOLEAN :
          LET gc1 == FadedFixedGain(fixed)
              gc2 == FadedFixedGain(gc1)
              m1 == Recover(Conceal(dec, s1, gc1), o1)
          IN dec' = Recover(Conceal(m1, s2, gc2), o2) /\ fixed' = gc2
    BY <1>4 DEF DecodeErased
  <2> DEFINE gc1 == FadedFixedGain(fixed)
             m1 == Recover(Conceal(dec, s1, gc1), o1)
  <2>2. Fades(m1, gc1, lost + 1) /\ IsMemory(m1) /\ gc1 \in Int15
    BY <1>1, ConcealFades DEF FadeInv
  <2>3. dec' = Recover(Conceal(m1, s2, FadedFixedGain(gc1)), o2) /\ fixed' = FadedFixedGain(gc1)
    BY <2>1
  <2> HIDE DEF gc1, m1
  <2>4. lost + 1 \in Nat /\ lost' = (lost + 1) + 1
    BY <1>1, <1>4 DEF DecodeErased
  <2>5. Fades(dec', fixed', (lost + 1) + 1)
    BY <2>2, <2>3, <2>4, ConcealFades
  <2> QED
    BY <2>4, <2>5 DEF FadeInv
<1>5. \/ lost' = 0 \/ UNCHANGED <<dec, fixed, lost>> \/ DecodeErased
  BY DEF Next, Encode, Link, Decode, KeepGains, RepairGains, Commit, ResetEncoder, Damage,
         Lose, DecodeGood, DecodeOverflow, DecodeBlend, DecodeEnhanced, ResetDecoder, Heard,
         codec, vars
<1> QED
  BY <1>2, <1>3, <1>4, <1>5

\* No loss has begun.
LEMMA FadeInvInit ==
  ASSUME Init, TypeOK
  PROVE  FadeInv
BY FadesFromAny DEF Init, TypeOK, FadeInv

\* After 495 subframes, two and a half seconds, of concealment both gains are 0 and
\* the predictor starts afresh, from any state (MarkErasure, concealErasureGains).
THEOREM LossFallsSilent ==
  ASSUME LongLoss >= 495
  PROVE  Spec => []LongLossIsSilence
<1>1. TypeOK /\ FadeInv => LongLossIsSilence
  <2> SUFFICES ASSUME TypeOK, FadeInv, lost >= LongLoss
               PROVE  dec.gp = 0 /\ fixed = 0 /\ dec.err = Cold.err
    BY DEF LongLossIsSilence
  <2>1. IsMemory(dec) /\ fixed \in Int15 /\ lost \in Nat /\ lost >= 495
    <3>1. LongLoss \in Nat
      BY MirrorAssumption
    <3>2. lost \in Int /\ lost >= 0
      BY <3>1 DEF TypeOK
    <3> QED
      BY SMT, <3>1, <3>2 DEF TypeOK
  <2>2. FixedFade(lost) = 0 /\ PitchFade(lost) = 0
    BY SMT, <2>1 DEF FixedFade, PitchFade
  <2>3. dec.gp = 0 /\ fixed = 0
    BY SMT, <2>1, <2>2, Widths DEF FadeInv, Fades, IsMemory
  <2>4. \A i \in 1..4 : dec.err[i] = PastErrorsDefault
    <3> SUFFICES ASSUME NEW i \in 1..4 PROVE dec.err[i] = PastErrorsDefault
      OBVIOUS
    <3>1. dec.err[i] \in Int
      BY SMT, <2>1, Widths DEF IsMemory
    <3>2. ErrorFade(lost + 1 - i) = PastErrorsDefault
      BY SMT, <2>1 DEF ErrorFade
    <3>3. dec.err[i] <= PastErrorsDefault /\ dec.err[i] >= PastErrorsDefault
      BY SMT, <2>1, <3>2 DEF FadeInv, Fades, ErrorsFade
    <3> QED
      BY SMT, <3>1, <3>3 DEF PastErrorsDefault
  <2>5. Cold.err = [i \in 1..4 |-> PastErrorsDefault]
    BY DEF Cold
  <2>6. dec.err = [i \in 1..4 |-> dec.err[i]]
    BY <2>1 DEF IsMemory
  <2> QED
    BY <2>3, <2>4, <2>5, <2>6
<1>2. TypeOK /\ TypeOK' /\ FadeInv /\ [Next]_vars => FadeInv'
  BY FadeInvInductive
<1>3. Init /\ TypeOK => FadeInv
  BY FadeInvInit
<1> QED
  BY <1>1, <1>2, <1>3, TypeCorrect, PTL DEF Spec
=============================================================================
