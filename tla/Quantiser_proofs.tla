-------------------------- MODULE Quantiser_proofs --------------------------
(***************************************************************************)
(* The quantisers of the Encoder: the line spectra of LspMirror, for every *)
(* codebook, set of spectra, search and cosine, and for any number of      *)
(* losses, damaged frames and Resets; and the gains of GainSearch, for     *)
(* every codebook, scale, word and subframe.                               *)
(*                                                                         *)
(* That the copies of the residuals agree depends on nothing that is       *)
(* computed: Decode reads no memory but the residuals, and each intact     *)
(* frame pushes the same residual on both sides.  That spectra stay stable *)
(* and that the joint search is no worse depends on all of it: the loops,  *)
(* which are recursive functions, are shown to have the values their       *)
(* equations give (Induction), vectors to stay vectors of integers, and    *)
(* the searches to end with a tuple of the codebooks.                      *)
(*                                                                         *)
(* That the costs of the gains stay in their word is arithmetic on powers  *)
(* of two, which are a recursive function too: a term has the bits of its  *)
(* weight and of its correlation, and the shift takes what is more.        *)
(***************************************************************************)
EXTENDS LspMirror, GainSearch, Induction, FiniteSetTheorems, TLAPS

-----------------------------------------------------------------------------
(* lsp.Decoder.                                                            *)

FourOf(p) == p = [k \in 1..4 |-> p[k]]

\* A cold predictor has four residuals.
LEMMA InitFour == FourOf(InitFreqPrev)
BY DEF FourOf, InitFreqPrev

\* Pushing a residual.
LEMMA ShiftedFour ==
  ASSUME NEW p, NEW r
  PROVE /\ FourOf(Shifted(p, r))
        /\ Shifted(p, r)[1] = r
        /\ \A k \in 2..4 : Shifted(p, r)[k] = p[k - 1]
BY DEF FourOf, Shifted

\* Four residuals are all there is to compare.
LEMMA FourEqual ==
  ASSUME NEW p, NEW q, FourOf(p), FourOf(q), \A k \in 1..4 : p[k] = q[k]
  PROVE p = q
<1>1. [k \in 1..4 |-> p[k]] = [k \in 1..4 |-> q[k]]
  OBVIOUS
<1> QED BY <1>1 DEF FourOf

\* A frame decoded pushes its residual, whatever d was.
LEMMA DecodePushes ==
  ASSUME NEW d, NEW t
  PROVE /\ Decode(d, t).initialized
        /\ PastResiduals(Decode(d, t)) = Shifted(PastResiduals(d), Residual(t))
        /\ Decode(d, t).prevLSF = Spectrum(t, PastResiduals(d))
        /\ Decode(d, t) # ColdDecoder
<1> DEFINE lsf == Spectrum(t, PastResiduals(d))
           past == Shifted(PastResiduals(d), Residual(t))
           after == [initialized |-> TRUE, past |-> past,
                     prevLSP |-> Cosines(lsf), prevLSF |-> lsf,
                     lastSelector |-> t.L0]
<1>1. Decode(d, t) = after
  BY DEF Decode
<1>2. after.initialized = TRUE /\ after.past = past /\ after.prevLSF = lsf
  OBVIOUS
<1>3. ColdDecoder.initialized = FALSE
  BY DEF ColdDecoder
<1> HIDE DEF lsf, past, after
<1>4. PastResiduals(after) = past
  BY <1>2 DEF PastResiduals
<1>5. after # ColdDecoder
  BY <1>2, <1>3
<1> QED BY <1>1, <1>2, <1>4, <1>5 DEF past, lsf

\* Decode reads nothing of the decoder but its residuals.
LEMMA SameResiduals ==
  ASSUME NEW d, NEW e, NEW t, PastResiduals(d) = PastResiduals(e)
  PROVE Decode(d, t) = Decode(e, t)
BY DEF Decode

\* A concealed frame leaves a decoder that is not cold, with one more residual.
LEMMA ErasureIsNotCold ==
  ASSUME NEW d
  PROVE /\ DecodeErasure(d).initialized = TRUE
        /\ DecodeErasure(d) # ColdDecoder
        /\ \E r : PastResiduals(DecodeErasure(d)) = Shifted(PastResiduals(d), r)
<1> DEFINE r == ErasedResidual(d.lastSelector, PrevLSF(d), PastResiduals(d))
           past == Shifted(PastResiduals(d), r)
           after == [initialized |-> TRUE, prevLSP |-> PrevLSP(d),
                     prevLSF |-> PrevLSF(d), lastSelector |-> d.lastSelector,
                     past |-> past]
<1>1. DecodeErasure(d) = after
  BY DEF DecodeErasure
<1>2. after.initialized = TRUE /\ after.past = past
  OBVIOUS
<1>3. ColdDecoder.initialized = FALSE
  BY DEF ColdDecoder
<1> HIDE DEF after
<1>4. PastResiduals(after) = past
  BY <1>2 DEF PastResiduals
<1>5. after # ColdDecoder
  BY <1>2, <1>3
<1> HIDE DEF r
<1>6. \E x : past = Shifted(PastResiduals(d), x)
  OBVIOUS
<1> QED BY <1>1, <1>2, <1>4, <1>5, <1>6

\* A cold decoder predicts from the initial residuals.
LEMMA ColdResiduals == PastResiduals(ColdDecoder) = InitFreqPrev
<1>1. ColdDecoder.initialized = FALSE
  BY DEF ColdDecoder
<1> QED BY <1>1 DEF PastResiduals

-----------------------------------------------------------------------------
(* The inductive invariant.                                                *)

\* The first good residuals of the receiver are those of d.
Agrees(d) ==
  /\ \A k \in 1..4 : good >= k => PastResiduals(dec)[k] = PastResiduals(d)[k]
  /\ good >= 5 => dec = d

Shapes ==
  /\ good \in 0..6
  /\ FourOf(PastResiduals(lspDec))
  /\ FourOf(PastResiduals(dec))
  /\ FourOf(PastResiduals(sent))

ColdIsSilent ==
  /\ lspDec = ColdDecoder => aHat = Silent
  /\ dec = ColdDecoder => heard = Silent

\* Between frames the receiver is compared with the Encoder's lsp.Decoder; while
\* a tuple is on the wire, with what that was before the tuple.
InStep ==
  /\ wire = <<>> => Agrees(lspDec) /\ (good >= 6 => heard = aHat)
  /\ wire # <<>> => /\ Agrees(sent)
                    /\ lspDec = Decode(sent, wire[1])
                    /\ aHat = Filters(sent, lspDec)

LspInv == Shapes /\ EncoderCopiesAgree /\ ColdIsSilent /\ InStep

\* Everybody starts cold.
LEMMA LspInvInit == LspInit => LspInv
<1> SUFFICES ASSUME LspInit PROVE LspInv
  OBVIOUS
<1>1. PastResiduals(lspDec) = InitFreqPrev /\ PastResiduals(dec) = InitFreqPrev
      /\ PastResiduals(sent) = InitFreqPrev
  BY ColdResiduals DEF LspInit
<1>2. Shapes
  BY <1>1, InitFour DEF LspInit, Shapes
<1>3. EncoderCopiesAgree
  BY <1>1 DEF LspInit, EncoderCopiesAgree, ColdDecoder
<1>4. ColdIsSilent
  BY DEF LspInit, ColdIsSilent
<1>5. InStep
  BY <1>1 DEF LspInit, InStep, Agrees
<1> QED BY <1>2, <1>3, <1>4, <1>5 DEF LspInv

\* What the two Resets and their effect on good amount to.
LEMMA RestartGood ==
  ASSUME NEW otherIsCold, good \in 0..6, LspRestart(otherIsCold)
  PROVE good' \in 0..6 /\ (otherIsCold \/ good' = 0)
BY DEF LspRestart, SetApart

-----------------------------------------------------------------------------
(* One lemma per action.                                                   *)

\* The quantiser and the Encoder's decoder push the same residual.
LEMMA EncodePreserves ==
  ASSUME LspInv, NEW omega, EncodeSpectrum(omega)
  PROVE LspInv'
<1>1. PICK t \in {Search(omega, freqPrev)} :
        /\ wire = <<>>
        /\ CommitResidual(t)
        /\ lspDec' \in {Decode(lspDec, t)}
        /\ aHat' = Filters(lspDec, lspDec')
        /\ wire' = <<t>>
        /\ sent' = lspDec
        /\ UNCHANGED <<breadth, decoderSide, good, gone, lspUpsets>>
  BY DEF EncodeSpectrum
<1>2. UNCHANGED <<dec, heard, good>> /\ lspDec' = Decode(lspDec, t)
  BY <1>1 DEF decoderSide
<1>3. /\ freqPrev' = Shifted(freqPrev, Residual(t))
      /\ scored' = Spectrum(t, freqPrev)
      /\ freqPrev = PastResiduals(lspDec)
  BY <1>1 DEF CommitResidual, LspInv, EncoderCopiesAgree
<1>4. PastResiduals(lspDec)' = PastResiduals(Decode(lspDec, t))
  BY <1>2 DEF PastResiduals
<1>5. PastResiduals(sent)' = PastResiduals(lspDec)
      /\ PastResiduals(dec)' = PastResiduals(dec)
  BY <1>1, <1>2 DEF PastResiduals
<1>6. Shapes'
  BY <1>2, <1>4, <1>5, DecodePushes, ShiftedFour DEF LspInv, Shapes
<1>7. EncoderCopiesAgree'
  BY <1>2, <1>3, <1>4, DecodePushes DEF EncoderCopiesAgree
<1>8. ColdIsSilent'
  BY <1>2, DecodePushes DEF LspInv, ColdIsSilent
<1>9. InStep'
  <2>1. Agrees(lspDec)
    BY <1>1 DEF LspInv, InStep
  <2>2. Agrees(sent)'
    BY <2>1, <1>1, <1>2, <1>5 DEF Agrees
  <2>3. wire'[1] = t /\ wire' # <<>>
    BY <1>1
  <2> QED BY <2>2, <2>3, <1>1, <1>2 DEF InStep
<1> QED BY <1>6, <1>7, <1>8, <1>9 DEF LspInv

\* A frame received as it was sent makes one more residual equal; the fifth makes
\* the decoders equal, and the sixth the filters.
LEMMA IntactCatchesUp ==
  ASSUME LspInv, wire # <<>>, UNCHANGED encoderSide, wire' = <<>>,
         dec' = Decode(dec, wire[1]), heard' = Filters(dec, dec'),
         good' = Smaller(good + 1, 6)
  PROVE InStep'
<1>1. UNCHANGED <<lspDec, aHat>>
  BY DEF encoderSide
<1>2. /\ Agrees(sent)
      /\ lspDec = Decode(sent, wire[1])
      /\ aHat = Filters(sent, lspDec)
  BY DEF LspInv, InStep
<1>3. PastResiduals(dec)' = PastResiduals(Decode(dec, wire[1]))
      /\ PastResiduals(lspDec)' = PastResiduals(Decode(sent, wire[1]))
  BY <1>1, <1>2 DEF PastResiduals
<1>4. good \in 0..6 /\ good' \in 0..6 /\ good' <= good + 1
  BY DEF LspInv, Shapes, Smaller
<1>5. \A k \in 1..4 : good' >= k =>
         PastResiduals(dec)'[k] = PastResiduals(lspDec)'[k]
  <2> SUFFICES ASSUME NEW k \in 1..4, good' >= k
               PROVE PastResiduals(dec)'[k] = PastResiduals(lspDec)'[k]
    OBVIOUS
  <2>1. CASE k = 1
    BY <2>1, <1>3, DecodePushes, ShiftedFour
  <2>2. CASE k # 1
    <3>1. k \in 2..4 /\ k - 1 \in 1..4 /\ good >= k - 1
      BY <2>2, <1>4
    <3>2. PastResiduals(dec)[k - 1] = PastResiduals(sent)[k - 1]
      BY <3>1, <1>2 DEF Agrees
    <3> QED BY <3>1, <3>2, <1>3, DecodePushes, ShiftedFour
  <2> QED BY <2>1, <2>2
<1>6. ASSUME good' >= 5 PROVE dec' = lspDec'
  <2>1. \A k \in 1..4 : PastResiduals(dec)[k] = PastResiduals(sent)[k]
    BY <1>2, <1>4, <1>6 DEF Agrees
  <2>2. PastResiduals(dec) = PastResiduals(sent)
    BY <2>1, FourEqual DEF LspInv, Shapes
  <2> QED BY <2>2, <1>1, <1>2, SameResiduals
<1>7. ASSUME good' >= 6 PROVE heard' = aHat'
  <2>1. dec = sent
    BY <1>2, <1>4, <1>7 DEF Agrees
  <2> QED BY <2>1, <1>1, <1>2
<1>8. Agrees(lspDec)'
  BY <1>5, <1>6 DEF Agrees
<1> QED BY <1>7, <1>8 DEF InStep

\* The receiver pushes the residual of an intact frame.
LEMMA ReceivePreserves ==
  ASSUME LspInv, Receive
  PROVE LspInv'
<1>1. PICK t \in {wire[1]} \cup Damaged(wire[1]) :
        /\ dec' \in {Decode(dec, t)}
        /\ heard' = Filters(dec, dec')
        /\ IF t = wire[1] THEN /\ good' = Smaller(good + 1, 6)
                               /\ UNCHANGED lspUpsets
                          ELSE SetApart
  BY DEF Receive
<1>2. wire # <<>> /\ wire' = <<>> /\ UNCHANGED encoderSide
  BY DEF Receive
<1>3. UNCHANGED <<freqPrev, scored, lspDec, aHat, sent>>
  BY <1>2 DEF encoderSide
<1>4. dec' = Decode(dec, t)
  BY <1>1
<1>5. PastResiduals(dec)' = PastResiduals(Decode(dec, t))
      /\ PastResiduals(lspDec)' = PastResiduals(lspDec)
      /\ PastResiduals(sent)' = PastResiduals(sent)
  BY <1>3, <1>4 DEF PastResiduals
<1>6. good' \in 0..6
  BY <1>1 DEF SetApart, Smaller, LspInv, Shapes
<1>7. Shapes'
  BY <1>5, <1>6, DecodePushes, ShiftedFour DEF LspInv, Shapes
<1>8. EncoderCopiesAgree'
  BY <1>3, <1>5 DEF LspInv, EncoderCopiesAgree
<1>9. ColdIsSilent'
  BY <1>3, <1>4, DecodePushes DEF LspInv, ColdIsSilent
<1>10. InStep'
  <2>1. CASE t = wire[1]
    BY <2>1, <1>1, <1>2, <1>4, IntactCatchesUp
  <2>2. CASE t # wire[1]
    <3>1. good' = 0
      BY <2>2, <1>1 DEF SetApart
    <3> QED BY <3>1, <1>2 DEF InStep, Agrees
  <2> QED BY <2>1, <2>2
<1> QED BY <1>7, <1>8, <1>9, <1>10 DEF LspInv

\* Told or not, a receiver that missed a frame owes nothing.
LEMMA LossPreserves ==
  ASSUME LspInv, LoseTuple \/ Erase
  PROVE LspInv'
<1>1. wire' = <<>> /\ good' = 0 /\ UNCHANGED encoderSide
  BY DEF LoseTuple, Erase, SetApart
<1>2. UNCHANGED <<freqPrev, scored, lspDec, aHat, sent>>
  BY <1>1 DEF encoderSide
<1>3. \/ UNCHANGED <<dec, heard>>
      \/ dec' = DecodeErasure(dec)
  BY DEF LoseTuple, Erase, decoderSide
<1>4. PastResiduals(lspDec)' = PastResiduals(lspDec)
      /\ PastResiduals(sent)' = PastResiduals(sent)
  BY <1>2 DEF PastResiduals
<1>5. FourOf(PastResiduals(dec)')
  <2>1. CASE UNCHANGED <<dec, heard>>
    BY <2>1 DEF PastResiduals, LspInv, Shapes
  <2>2. CASE dec' = DecodeErasure(dec)
    <3>1. PastResiduals(dec)' = PastResiduals(DecodeErasure(dec))
      BY <2>2 DEF PastResiduals
    <3>2. PICK r : PastResiduals(DecodeErasure(dec)) =
                   Shifted(PastResiduals(dec), r)
      BY ErasureIsNotCold
    <3>3. FourOf(Shifted(PastResiduals(dec), r))
      BY ShiftedFour
    <3> QED BY <3>1, <3>2, <3>3
  <2> QED BY <1>3, <2>1, <2>2
<1>6. Shapes'
  BY <1>1, <1>4, <1>5 DEF LspInv, Shapes
<1>7. EncoderCopiesAgree'
  BY <1>2, <1>4 DEF LspInv, EncoderCopiesAgree
<1>8. ColdIsSilent'
  BY <1>2, <1>3, ErasureIsNotCold DEF LspInv, ColdIsSilent
<1>9. InStep'
  BY <1>1 DEF InStep, Agrees
<1> QED BY <1>6, <1>7, <1>8, <1>9 DEF LspInv

\* A Reset of the Encoder starts the count of good frames again.
LEMMA ResetEncoderPreserves ==
  ASSUME LspInv, ResetLspEncoder
  PROVE LspInv'
<1>1. /\ wire = <<>> /\ wire' = <<>>
      /\ freqPrev' = InitFreqPrev
      /\ lspDec' = ColdDecoder /\ aHat' = Silent
      /\ UNCHANGED <<dec, heard, sent>>
      /\ LspRestart(dec = ColdDecoder)
  BY DEF ResetLspEncoder, decoderSide
<1>2. good' \in 0..6 /\ (dec = ColdDecoder \/ good' = 0)
  BY <1>1, RestartGood DEF LspInv, Shapes
<1>3. /\ PastResiduals(lspDec)' = InitFreqPrev
      /\ PastResiduals(dec)' = PastResiduals(dec)
      /\ PastResiduals(sent)' = PastResiduals(sent)
  BY <1>1, ColdResiduals DEF PastResiduals
<1>4. Shapes'
  BY <1>2, <1>3, InitFour DEF LspInv, Shapes
<1>5. EncoderCopiesAgree'
  BY <1>1, <1>3 DEF EncoderCopiesAgree, ColdDecoder
<1>6. ColdIsSilent'
  BY <1>1 DEF LspInv, ColdIsSilent
<1>7. InStep'
  <2>1. CASE good' = 0
    BY <2>1, <1>1 DEF InStep, Agrees
  <2>2. CASE dec = ColdDecoder
    <3>1. heard = Silent
      BY <2>2 DEF LspInv, ColdIsSilent
    <3> QED BY <3>1, <2>2, <1>1, <1>3, ColdResiduals DEF InStep, Agrees
  <2> QED BY <1>2, <2>1, <2>2
<1> QED BY <1>4, <1>5, <1>6, <1>7 DEF LspInv

\* So does one of the receiver.
LEMMA ResetDecoderPreserves ==
  ASSUME LspInv, ResetLspDecoder
  PROVE LspInv'
<1>1. /\ wire = <<>> /\ wire' = <<>>
      /\ dec' = ColdDecoder /\ heard' = Silent
      /\ UNCHANGED encoderSide
      /\ LspRestart(lspDec = ColdDecoder)
  BY DEF ResetLspDecoder
<1>2. UNCHANGED <<freqPrev, scored, lspDec, aHat, sent>>
  BY <1>1 DEF encoderSide
<1>3. good' \in 0..6 /\ (lspDec = ColdDecoder \/ good' = 0)
  BY <1>1, RestartGood DEF LspInv, Shapes
<1>4. /\ PastResiduals(dec)' = InitFreqPrev
      /\ PastResiduals(lspDec)' = PastResiduals(lspDec)
      /\ PastResiduals(sent)' = PastResiduals(sent)
  BY <1>1, <1>2, ColdResiduals DEF PastResiduals
<1>5. Shapes'
  BY <1>3, <1>4, InitFour DEF LspInv, Shapes
<1>6. EncoderCopiesAgree'
  BY <1>2, <1>4 DEF LspInv, EncoderCopiesAgree
<1>7. ColdIsSilent'
  BY <1>1, <1>2 DEF LspInv, ColdIsSilent
<1>8. InStep'
  <2>1. CASE good' = 0
    BY <2>1, <1>1 DEF InStep, Agrees
  <2>2. CASE lspDec = ColdDecoder
    <3>1. aHat = Silent
      BY <2>2 DEF LspInv, ColdIsSilent
    <3> QED BY <3>1, <2>2, <1>1, <1>2, <1>4, ColdResiduals DEF InStep, Agrees
  <2> QED BY <1>3, <2>1, <2>2
<1> QED BY <1>5, <1>6, <1>7, <1>8 DEF LspInv

\* A step of others.
LEMMA StutterPreserves ==
  ASSUME LspInv, UNCHANGED lspVars
  PROVE LspInv'
BY DEF LspInv, Shapes, EncoderCopiesAgree, ColdIsSilent, InStep, Agrees,
       PastResiduals, Filters, PrevLSP, lspVars

\* The invariant is inductive.
LEMMA LspInvInductive == LspInv /\ [LspNext]_lspVars => LspInv'
<1> SUFFICES ASSUME LspInv, [LspNext]_lspVars PROVE LspInv'
  OBVIOUS
<1>1. CASE EncodeFrame
  BY <1>1, EncodePreserves DEF EncodeFrame
<1>2. CASE ReuseSpectrum
  BY <1>2, EncodePreserves DEF ReuseSpectrum
<1>3. CASE ResetLspEncoder
  BY <1>3, ResetEncoderPreserves
<1>4. CASE Receive
  BY <1>4, ReceivePreserves
<1>5. CASE LoseTuple \/ Erase
  BY <1>5, LossPreserves
<1>6. CASE ResetLspDecoder
  BY <1>6, ResetDecoderPreserves
<1>7. CASE UNCHANGED lspVars
  BY <1>7, StutterPreserves
<1> QED BY <1>1, <1>2, <1>3, <1>4, <1>5, <1>6, <1>7 DEF LspNext

\* The invariant holds.
LEMMA LspInvHolds == LspSpec => []LspInv
<1> QED BY LspInvInit, LspInvInductive, PTL DEF LspSpec

-----------------------------------------------------------------------------
(* The results.                                                            *)

\* What the quantiser rated is what the Encoder's lsp.Decoder made of the tuple,
\* and their residuals are the same (Quantize, QuantizeTopK, Decoder.Decode).
THEOREM CopiesAgree == LspSpec => []EncoderCopiesAgree
<1>1. LspInv => EncoderCopiesAgree
  BY DEF LspInv
<1> QED BY <1>1, LspInvHolds, PTL

\* Four intact frames after whatever happened, the receiver has the residuals of
\* the Encoder; after five its decoder, after six its filters.
THEOREM ResyncHolds == LspSpec => []LspResyncs
<1>1. LspInv => LspResyncs
  <2> SUFFICES ASSUME LspInv, wire = <<>>
               PROVE CaughtUp(lspDec) /\ (good >= 6 => heard = aHat)
    BY DEF LspResyncs
  <2>1. Agrees(lspDec) /\ (good >= 6 => heard = aHat)
    BY DEF LspInv, InStep
  <2>2. ASSUME good >= 4 PROVE PastResiduals(dec) = PastResiduals(lspDec)
    <3>1. \A k \in 1..4 : PastResiduals(dec)[k] = PastResiduals(lspDec)[k]
      BY <2>1, <2>2 DEF Agrees, LspInv, Shapes
    <3> QED BY <3>1, FourEqual DEF LspInv, Shapes
  <2> QED BY <2>1, <2>2 DEF CaughtUp, Agrees
<1> QED BY <1>1, LspInvHolds, PTL

-----------------------------------------------------------------------------
(* The arithmetic: every vector a tuple and its past lead to has integers. *)

Vectors10 == [Coordinates -> Int]

\* A vector is the function of its coordinates.
LEMMA VectorIs ==
  ASSUME NEW f, \A i \in Coordinates : f[i] \in Int
  PROVE  Vector(f) \in Vectors10 /\ \A i \in Coordinates : Vector(f)[i] = f[i]
<1>1. Coordinates = {1, 2, 3, 4, 5, 6, 7, 8, 9, 10}
  BY DEF Coordinates
<1>2. \A i \in Coordinates : Vector(f)[i] = f[i]
  BY <1>1 DEF Vector
<1>3. DOMAIN Vector(f) = Coordinates /\ Vector(f) = [i \in Coordinates |-> Vector(f)[i]]
  BY DEF Vector, Coordinates
<1> HIDE DEF Coordinates
<1>4. QED
  BY <1>2, <1>3 DEF Vectors10

\* Saturation to 16 bits.
LEMMA SaturateIs ==
  ASSUME NEW x \in Int
  PROVE  /\ Saturate(x) \in Int /\ Saturate(x) <= 32767 /\ Saturate(x) >= -32768
         /\ x <= 32767 /\ x >= -32768 => Saturate(x) = x
         /\ x > 32767 => Saturate(x) = 32767
         /\ x < -32768 => Saturate(x) = -32768
  BY DEF Saturate

\* The raising and the lowering of enforceLSFStability leave the least gap between
\* neighbours and all of them inside the edges, whatever they start from.
LEMMA GapsEnforced ==
  ASSUME NEW v, \A i \in Coordinates : v[i] \in Int,
         NEW raised, raised \in [Coordinates -> Int],
         raised[1] = Larger(v[1], lsfMinEdge),
         \A i \in 2..10 : raised[i] = Larger(v[i], Saturate(raised[i - 1] + lsfMinGap)),
         NEW lowered, lowered \in [Coordinates -> Int],
         lowered[10] = lsfMaxEdge,
         \A i \in 1..9 : lowered[i] = Smaller(raised[i], lowered[i + 1] - lsfMinGap)
  PROVE  /\ raised[10] > lsfMaxEdge => StableSpectrum(lowered)
         /\ raised[10] <= lsfMaxEdge => StableSpectrum(raised)
<1>1. Coordinates = {1, 2, 3, 4, 5, 6, 7, 8, 9, 10}
  BY DEF Coordinates
<1>2. raised[1] \in Int /\ raised[1] >= 41
  BY <1>1 DEF Larger, lsfMinEdge
<1>3. ASSUME NEW i \in 2..10
      PROVE  /\ raised[i] \in Int /\ raised[i - 1] \in Int
             /\ raised[i] >= raised[i - 1] + 321 \/ raised[i] >= 32767
                \/ raised[i - 1] + 321 < -32768
  <2>1. i \in Coordinates /\ i - 1 \in Coordinates
    BY DEF Coordinates
  <2>2. raised[i] \in Int /\ raised[i - 1] \in Int /\ raised[i - 1] + 321 \in Int /\ v[i] \in Int
    BY <2>1
  <2>3. raised[i] = Larger(v[i], Saturate(raised[i - 1] + 321))
    BY DEF lsfMinGap
  <2>4. raised[i] >= Saturate(raised[i - 1] + 321)
    BY <2>2, <2>3, SaturateIs DEF Larger
  <2>5. QED
    BY <2>2, <2>4, SaturateIs
<1>4. /\ raised[2] >= raised[1] + 321 \/ raised[2] >= 32767
      /\ raised[3] >= raised[2] + 321 \/ raised[3] >= 32767
      /\ raised[4] >= raised[3] + 321 \/ raised[4] >= 32767
      /\ raised[5] >= raised[4] + 321 \/ raised[5] >= 32767
      /\ raised[6] >= raised[5] + 321 \/ raised[6] >= 32767
      /\ raised[7] >= raised[6] + 321 \/ raised[7] >= 32767
      /\ raised[8] >= raised[7] + 321 \/ raised[8] >= 32767
      /\ raised[9] >= raised[8] + 321 \/ raised[9] >= 32767
      /\ raised[10] >= raised[9] + 321 \/ raised[10] >= 32767
  <2> DEFINE P(i) == raised[i] >= raised[i - 1] + 321 \/ raised[i] >= 32767
  <2>1. raised[2] >= 41 /\ P(2)
    BY <1>2, <1>3
  <2>2. raised[3] >= 41 /\ P(3)
    BY <2>1, <1>3
  <2>3. raised[4] >= 41 /\ P(4)
    BY <2>2, <1>3
  <2>4. raised[5] >= 41 /\ P(5)
    BY <2>3, <1>3
  <2>5. raised[6] >= 41 /\ P(6)
    BY <2>4, <1>3
  <2>6. raised[7] >= 41 /\ P(7)
    BY <2>5, <1>3
  <2>7. raised[8] >= 41 /\ P(8)
    BY <2>6, <1>3
  <2>8. raised[9] >= 41 /\ P(9)
    BY <2>7, <1>3
  <2>9. raised[10] >= 41 /\ P(10)
    BY <2>8, <1>3
  <2>10. QED
    BY <2>1, <2>2, <2>3, <2>4, <2>5, <2>6, <2>7, <2>8, <2>9
<1>5. \A i \in Coordinates : raised[i] \in Int /\ lowered[i] \in Int
  OBVIOUS
<1>6. 2..10 = {2, 3, 4, 5, 6, 7, 8, 9, 10} /\ 1..9 = {1, 2, 3, 4, 5, 6, 7, 8, 9}
  OBVIOUS
<1>7. ASSUME raised[10] <= lsfMaxEdge PROVE StableSpectrum(raised)
  BY <1>1, <1>2, <1>4, <1>5, <1>6, <1>7 DEF StableSpectrum, lsfMaxEdge, lsfMinEdge, lsfMinGap
<1>8. ASSUME raised[10] > lsfMaxEdge PROVE StableSpectrum(lowered)
  <2>1. \A i \in 1..9 : /\ lowered[i] <= lowered[i + 1] - 321
                        /\ lowered[i] = raised[i] \/ lowered[i] = lowered[i + 1] - 321
    <3>1. \A i \in 1..9 : i \in Coordinates /\ i + 1 \in Coordinates
      BY DEF Coordinates
    <3>2. QED
      BY <1>5, <3>1 DEF Smaller, lsfMinGap
  <2>2. /\ raised[2] >= 362 /\ raised[3] >= 683 /\ raised[4] >= 1004 /\ raised[5] >= 1325
        /\ raised[6] >= 1646 /\ raised[7] >= 1967 /\ raised[8] >= 2288 /\ raised[9] >= 2609
    BY <1>1, <1>2, <1>4, <1>5
  <2>3. /\ lowered[10] = 25682
        /\ lowered[9] <= lowered[10] - 321 /\ lowered[9] >= 2609
        /\ lowered[8] <= lowered[9] - 321 /\ lowered[8] >= 2288
        /\ lowered[7] <= lowered[8] - 321 /\ lowered[7] >= 1967
        /\ lowered[6] <= lowered[7] - 321 /\ lowered[6] >= 1646
        /\ lowered[5] <= lowered[6] - 321 /\ lowered[5] >= 1325
    BY <1>1, <1>5, <1>6, <2>1, <2>2 DEF lsfMaxEdge
  <2>4. /\ lowered[4] <= lowered[5] - 321 /\ lowered[4] >= 1004
        /\ lowered[3] <= lowered[4] - 321 /\ lowered[3] >= 683
        /\ lowered[2] <= lowered[3] - 321 /\ lowered[2] >= 362
        /\ lowered[1] <= lowered[2] - 321 /\ lowered[1] >= 41
    BY <1>1, <1>2, <1>5, <1>6, <2>1, <2>2, <2>3
  <2>5. \A i \in 2..10 : lowered[i] - lowered[i - 1] >= 321
    BY <1>1, <1>5, <1>6, <2>3, <2>4
  <2>6. QED
    BY <2>3, <2>4, <2>5 DEF StableSpectrum, lsfMaxEdge, lsfMinEdge, lsfMinGap
<1>9. QED
  BY <1>7, <1>8

\* Sorting ten integers gives integers, in whatever order.
LEMMA SortedVector ==
  ASSUME NEW a \in Vectors10
  PROVE  insertionSort10(a) \in Vectors10
<1> DEFINE S == Vectors10
           at(i, s) == Cardinality({j \in 1..i : s[j] <= s[i + 1]})
           Step(i, s) == Vector([k \in Coordinates |->
                            IF k <= at(i, s) \/ k > i + 1 THEN s[k]
                            ELSE IF k = at(i, s) + 1 THEN s[i + 1] ELSE s[k - 1]])
           E == [i \in 1..9 |-> [s \in S |-> Step(i, s)]]
           IsSorted(f) == f = [i \in 0..9 |-> IF i = 0 THEN a ELSE Step(i, f[i - 1])]
           g == CHOOSE f : IsSorted(f)
<1>1. insertionSort10(a) = g[9]
  BY DEF insertionSort10
<1>2. ASSUME NEW i \in 1..9, NEW s \in S
      PROVE  Step(i, s) \in S
  <2> DEFINE f == [k \in Coordinates |->
                     IF k <= at(i, s) \/ k > i + 1 THEN s[k]
                     ELSE IF k = at(i, s) + 1 THEN s[i + 1] ELSE s[k - 1]]
  <2>1. \A k \in Coordinates : s[k] \in Int
    BY DEF Vectors10
  <2>2. at(i, s) \in Nat
    <3>1. IsFiniteSet(1..i)
      BY FS_Interval
    <3>2. IsFiniteSet({j \in 1..i : s[j] <= s[i + 1]})
      BY <3>1, FS_Subset
    <3>3. QED
      BY <3>2, FS_CardinalityType
  <2> HIDE DEF at
  <2>3. \A k \in Coordinates : f[k] \in Int
    BY <2>1, <2>2 DEF Coordinates
  <2> HIDE DEF f
  <2>4. Vector(f) \in Vectors10
    BY <2>3, VectorIs
  <2>5. QED
    BY <2>4 DEF f
<1> HIDE DEF Step
<1>3. StepsFrom(S, a, 9, E)
  BY <1>2 DEF StepsFrom
<1>4. \A i \in 1..9, s \in S : E[i][s] = Step(i, s)
  OBVIOUS
<1> HIDE DEF E, S
<1>5. PICK f : Runs(f, S, a, 9, E)
  BY <1>3, Recursion
<1>6. f \in [0..9 -> S] /\ f[0] = a /\ \A i \in 1..9 : f[i] = E[i][f[i - 1]]
  BY <1>5 DEF Runs
<1>7. IsSorted(f)
  <2>1. \A i \in 1..9 : f[i] = Step(i, f[i - 1])
    <3>1. \A i \in 1..9 : i - 1 \in 0..9
      OBVIOUS
    <3>2. QED
      BY <1>4, <1>6, <3>1
  <2>2. \A i \in 0..9 : f[i] = IF i = 0 THEN a ELSE Step(i, f[i - 1])
    BY <1>6, <2>1
  <2>3. QED
    BY <1>6, <2>2
<1>8. IsSorted(g)
  <2> HIDE DEF IsSorted
  <2>1. QED
    BY <1>7
<1> HIDE DEF g
<1> DEFINE T == {i \in 0..9 : g[i] \in S}
<1>9. 0 \in T
  BY <1>3, <1>8 DEF StepsFrom
<1>10. ASSUME NEW i \in 1..9, i - 1 \in T PROVE i \in T
  <2>1. g[i] = Step(i, g[i - 1]) /\ g[i - 1] \in S
    BY <1>8, <1>10
  <2>2. Step(i, g[i - 1]) \in S
    BY <1>2, <2>1
  <2>3. QED
    BY <2>1, <2>2
<1> HIDE DEF T
<1>11. 0..9 \subseteq T
  BY <1>9, <1>10, RangeInduction
<1>12. 9 \in T
  BY <1>11
<1>13. QED
  BY <1>1, <1>12 DEF T, S

\* The line spectra enforceLSFStability makes of any ten integers.
LEMMA StabilisedIsStable ==
  ASSUME NEW lsf \in Vectors10
  PROVE  Stabilised(lsf) \in Vectors10 /\ StableSpectrum(Stabilised(lsf))
<1> DEFINE v == insertionSort10(lsf)
           up(i, b) == Larger(v[i], Saturate(b + lsfMinGap))
           IsRaised(f) == f = [i \in Coordinates |->
                             IF i = 1 THEN Larger(v[1], lsfMinEdge) ELSE up(i, f[i - 1])]
           raised == CHOOSE f : IsRaised(f)
           down(i, b) == Smaller(raised[i], b - lsfMinGap)
           IsLowered(f) == f = [i \in Coordinates |->
                              IF i = 10 THEN lsfMaxEdge ELSE down(i, f[i + 1])]
           lowered == CHOOSE f : IsLowered(f)
<1>1. Stabilised(lsf) = IF raised[10] > lsfMaxEdge
                        THEN Vector([i \in Coordinates |-> lowered[i]])
                        ELSE Vector([i \in Coordinates |-> raised[i]])
  BY DEF Stabilised
<1>2. \A i \in Coordinates : v[i] \in Int
  BY SortedVector DEF Vectors10
<1> HIDE DEF v
<1>3. \A i \in Coordinates, b \in Int : up(i, b) \in Int
  BY <1>2, SaturateIs DEF Larger, lsfMinGap
<1> DEFINE Z == Int
           E == [i \in 1..10 |-> [b \in Z |-> up(i, b)]]
           a == Larger(v[1], lsfMinEdge)
<1> HIDE DEF up
<1>4. StepsFrom(Z, a, 10, E)
  <2>1. a \in Z
    BY <1>2 DEF Larger, lsfMinEdge, Coordinates
  <2>2. E \in [1..10 -> [Z -> Z]]
    BY <1>3 DEF Coordinates
  <2> HIDE DEF E, a, Z
  <2>3. QED
    BY <2>1, <2>2 DEF StepsFrom
<1>5. \A i \in 1..10, b \in Int : E[i][b] = up(i, b)
  OBVIOUS
<1> HIDE DEF E, a, Z
<1>6. PICK f : RunsUp(f, Z, a, 10, E)
  BY <1>4, RecursionUp
<1>7. f \in [1..10 -> Int] /\ f[1] = a /\ \A i \in 2..10 : f[i] = E[i][f[i - 1]]
  BY <1>6 DEF RunsUp, Z
<1>8. IsRaised(f)
  <2>1. \A i \in 2..10 : f[i] = up(i, f[i - 1])
    <3>1. \A i \in 2..10 : i \in 1..10 /\ i - 1 \in 1..10
      OBVIOUS
    <3>2. QED
      BY <1>5, <1>7, <3>1
  <2>2. \A i \in Coordinates :
           f[i] = IF i = 1 THEN Larger(v[1], lsfMinEdge) ELSE up(i, f[i - 1])
    BY <1>7, <2>1 DEF a, Coordinates
  <2>3. QED
    BY <1>7, <2>2 DEF Coordinates
<1>9. IsRaised(raised)
  <2> HIDE DEF IsRaised
  <2>1. QED
    BY <1>8
<1> HIDE DEF raised
<1>10. /\ raised[1] = a /\ \A i \in 2..10 : raised[i] = up(i, raised[i - 1])
       /\ raised = [i \in Coordinates |-> raised[i]]
  BY <1>9 DEF a, Coordinates
<1> HIDE DEF IsRaised
<1>11. raised \in [Coordinates -> Int]
  <2> DEFINE T == {k \in 0..9 : raised[k + 1] \in Int}
  <2>1. 0 \in T
    <3>1. a \in Int
      BY <1>4 DEF StepsFrom, Z
    <3>2. QED
      BY <1>10, <3>1
  <2>2. ASSUME NEW k \in 1..9, k - 1 \in T PROVE k \in T
    <3>1. raised[k] \in Int /\ k + 1 \in 2..10 /\ k + 1 \in Coordinates
      BY <2>2 DEF Coordinates
    <3>2. raised[k + 1] = up(k + 1, raised[k])
      BY <1>10, <3>1
    <3>3. QED
      BY <1>3, <3>1, <3>2
  <2> HIDE DEF T
  <2>3. 0..9 \subseteq T
    BY <2>1, <2>2, RangeInduction
  <2>4. \A i \in Coordinates : raised[i] \in Int
    <3>1. \A i \in Coordinates : i - 1 \in T /\ (i - 1) + 1 = i
      BY <2>3 DEF Coordinates
    <3>2. QED
      BY <3>1 DEF T
  <2>5. QED
    BY <1>10, <2>4
<1>12. \A i \in Coordinates, b \in Int : down(i, b) \in Int
  BY <1>11 DEF Smaller, lsfMinGap
<1> DEFINE D == [i \in 1..10 |-> [b \in Z |-> down(i, b)]]
           e == lsfMaxEdge
<1> HIDE DEF down
<1>13. StepsFrom(Z, e, 10, D)
  <2>1. e \in Z
    BY DEF lsfMaxEdge, Z
  <2>2. D \in [1..10 -> [Z -> Z]]
    BY <1>12 DEF Coordinates, Z
  <2> HIDE DEF D, e
  <2>3. QED
    BY <2>1, <2>2 DEF StepsFrom
<1>14. \A i \in 1..10, b \in Int : D[i][b] = down(i, b)
  BY DEF Z
<1> HIDE DEF D, e
<1>15. PICK h : RunsDown(h, Z, e, 10, D)
  BY <1>13, RecursionDown
<1>16. h \in [1..10 -> Int] /\ h[10] = e /\ \A i \in 1..9 : h[i] = D[i][h[i + 1]]
  BY <1>15 DEF RunsDown, Z
<1>17. IsLowered(h)
  <2>1. \A i \in 1..9 : h[i] = down(i, h[i + 1])
    <3>1. \A i \in 1..9 : i \in 1..10 /\ i + 1 \in 1..10
      OBVIOUS
    <3>2. QED
      BY <1>14, <1>16, <3>1
  <2>2. \A i \in Coordinates : h[i] = IF i = 10 THEN lsfMaxEdge ELSE down(i, h[i + 1])
    BY <1>16, <2>1 DEF e, Coordinates
  <2>3. QED
    BY <1>16, <2>2 DEF Coordinates
<1>18. IsLowered(lowered)
  <2> HIDE DEF IsLowered
  <2>1. QED
    BY <1>17
<1> HIDE DEF lowered
<1>19. /\ lowered[10] = lsfMaxEdge /\ \A i \in 1..9 : lowered[i] = down(i, lowered[i + 1])
       /\ lowered = [i \in Coordinates |-> lowered[i]]
  BY <1>18 DEF Coordinates
<1> HIDE DEF IsLowered
<1>20. lowered \in [Coordinates -> Int]
  <2> DEFINE T == {k \in 0..9 : lowered[10 - k] \in Int}
  <2>1. 0 \in T
    BY <1>19 DEF lsfMaxEdge
  <2>2. ASSUME NEW k \in 1..9, k - 1 \in T PROVE k \in T
    <3>1. /\ 10 - k \in 1..9 /\ 10 - k \in Coordinates /\ (10 - k) + 1 = 10 - (k - 1)
          /\ lowered[(10 - k) + 1] \in Int
      BY <2>2 DEF Coordinates
    <3>2. lowered[10 - k] = down(10 - k, lowered[(10 - k) + 1])
      BY <1>19, <3>1
    <3>3. QED
      BY <1>12, <3>1, <3>2
  <2> HIDE DEF T
  <2>3. 0..9 \subseteq T
    BY <2>1, <2>2, RangeInduction
  <2>4. \A i \in Coordinates : lowered[i] \in Int
    <3>1. \A i \in Coordinates : 10 - i \in T /\ 10 - (10 - i) = i
      BY <2>3 DEF Coordinates
    <3>2. QED
      BY <3>1 DEF T
  <2>5. QED
    BY <1>19, <2>4
<1>21. /\ raised[10] > lsfMaxEdge => StableSpectrum(lowered)
       /\ raised[10] <= lsfMaxEdge => StableSpectrum(raised)
  <2>1. raised[1] = Larger(v[1], lsfMinEdge)
    BY <1>10 DEF a
  <2>2. \A i \in 2..10 : raised[i] = Larger(v[i], Saturate(raised[i - 1] + lsfMinGap))
    BY <1>10 DEF up
  <2>3. \A i \in 1..9 : lowered[i] = Smaller(raised[i], lowered[i + 1] - lsfMinGap)
    BY <1>19 DEF down
  <2>4. QED
    BY <1>2, <1>11, <1>19, <1>20, <2>1, <2>2, <2>3, GapsEnforced
<1>22. \A f_1 \in [Coordinates -> Int] :
          /\ Vector([i \in Coordinates |-> f_1[i]]) \in Vectors10
          /\ StableSpectrum(f_1) => StableSpectrum(Vector([i \in Coordinates |-> f_1[i]]))
  <2> SUFFICES ASSUME NEW x \in [Coordinates -> Int]
               PROVE  /\ Vector(x) \in Vectors10
                      /\ StableSpectrum(x) => StableSpectrum(Vector(x))
    OBVIOUS
  <2>1. Vector(x) \in Vectors10 /\ \A i \in Coordinates : Vector(x)[i] = x[i]
    BY VectorIs
  <2>2. QED
    BY <2>1 DEF StableSpectrum, Coordinates
<1>23. QED
  BY <1>1, <1>11, <1>20, <1>21, <1>22 DEF lsfMaxEdge, Coordinates

\* The rows of the codebooks, and the predictors.
LEMMA TablesAreIntegers ==
  /\ \A s \in {0, 1}, i \in Coordinates : MAPredictorInvSumLSP[s + 1][i] \in Int
  /\ \A s \in {0, 1}, i \in Coordinates : maPredictorInvSumReciprocalLSP[s + 1][i] \in Int
  /\ \A s \in {0, 1}, k \in 1..4, i \in Coordinates : MAPredictorsLSP[s + 1][k][i] \in Int
<1>1. Coordinates = {1, 2, 3, 4, 5, 6, 7, 8, 9, 10} /\ 1..4 = {1, 2, 3, 4}
  BY DEF Coordinates
<1>2. \A s \in {0, 1}, i \in Coordinates : MAPredictorInvSumLSP[s + 1][i] \in Int
  BY <1>1 DEF MAPredictorInvSumLSP
<1>3. \A s \in {0, 1}, i \in Coordinates : maPredictorInvSumReciprocalLSP[s + 1][i] \in Int
  BY <1>1 DEF maPredictorInvSumReciprocalLSP
<1>4. \A s \in {0, 1}, k \in 1..4, i \in Coordinates : MAPredictorsLSP[s + 1][k][i] \in Int
  BY <1>1 DEF MAPredictorsLSP
<1>5. QED
  BY <1>2, <1>3, <1>4

Past4(past) == \A k \in 1..4 : past[k] \in Vectors10

\* The prediction of a coordinate is a number.
LEMMA HistoryIs ==
  ASSUME NEW selector \in {0, 1}, NEW past, Past4(past), NEW i \in Coordinates
  PROVE  History(selector, past, i) \in Int
<1> DEFINE p == MAPredictorsLSP[selector + 1]
           x1 == p[1][i] * past[1][i]
           x2 == p[2][i] * past[2][i]
           x3 == p[3][i] * past[3][i]
           x4 == p[4][i] * past[4][i]
<1>1. p[1][i] \in Int /\ p[2][i] \in Int /\ p[3][i] \in Int /\ p[4][i] \in Int
  BY TablesAreIntegers
<1>2. past[1][i] \in Int /\ past[2][i] \in Int /\ past[3][i] \in Int /\ past[4][i] \in Int
  BY DEF Past4, Vectors10
<1>3. x1 \in Int /\ x2 \in Int /\ x3 \in Int /\ x4 \in Int
  <2> HIDE DEF p
  <2>1. QED
    BY <1>1, <1>2
<1>4. History(selector, past, i) = 2 * (x1 + x2 + x3 + x4)
  BY DEF History
<1> HIDE DEF x1, x2, x3, x4
<1>5. QED
  BY <1>3, <1>4

\* So a prediction is a spectrum of numbers.
LEMMA PredictedIs ==
  ASSUME NEW selector \in {0, 1}, NEW residual \in Vectors10, NEW past, Past4(past)
  PROVE  Predicted(selector, residual, past) \in Vectors10
<1> DEFINE f == [i \in Coordinates |->
                   (2 * MAPredictorInvSumLSP[selector + 1][i] * residual[i] +
                    History(selector, past, i)) \div 65536]
<1>1. ASSUME NEW i \in Coordinates
      PROVE  f[i] \in Int
  <2> DEFINE a == MAPredictorInvSumLSP[selector + 1][i]
             r == residual[i]
             h == History(selector, past, i)
             y == 2 * a * r
  <2>1. a \in Int /\ r \in Int /\ h \in Int
    BY TablesAreIntegers, HistoryIs DEF Vectors10
  <2>2. f[i] = (y + h) \div 65536
    OBVIOUS
  <2> HIDE DEF a, r, h, f
  <2>3. y \in Int
    BY <2>1
  <2> HIDE DEF y
  <2>4. QED
    BY <2>1, <2>2, <2>3
<1>2. Predicted(selector, residual, past) = Vector(f)
  BY DEF Predicted
<1> HIDE DEF f
<1>3. QED
  BY <1>1, <1>2, VectorIs

\* The rows of a tuple add up to a vector.
LEMMA CombinedIs ==
  ASSUME NEW t \in Tuples
  PROVE  Combined(t) \in Vectors10
<1> DEFINE f == [i \in Coordinates |->
     Saturate(CodebookL1[t.L1][i] +
              IF i \in Lower THEN CodebookL2[t.L2][i]
                             ELSE CodebookL3[t.L3][i - 5])]
<1>1. t.L1 \in DOMAIN CodebookL1 /\ t.L2 \in DOMAIN CodebookL2 /\ t.L3 \in DOMAIN CodebookL3
  BY DEF Tuples, Tuple
<1>2. /\ CodebookL1[t.L1] \in [1..10 -> Int] /\ CodebookL2[t.L2] \in [1..5 -> Int]
      /\ CodebookL3[t.L3] \in [1..5 -> Int]
  BY <1>1, LspAssumption DEF IsCodebook
<1>3. ASSUME NEW i \in Coordinates
      PROVE  f[i] \in Int
  <2> DEFINE x == CodebookL1[t.L1][i]
             y == IF i \in Lower THEN CodebookL2[t.L2][i] ELSE CodebookL3[t.L3][i - 5]
  <2>1. x \in Int
    BY <1>2 DEF Coordinates
  <2>2. y \in Int
    <3>1. i \in 1..5 \/ (i \notin Lower /\ i - 5 \in 1..5)
      BY DEF Coordinates, Lower
    <3>2. QED
      BY <1>2, <3>1 DEF Lower
  <2>3. f[i] = Saturate(x + y)
    OBVIOUS
  <2> HIDE DEF f, x, y
  <2>4. QED
    BY <2>1, <2>2, <2>3, SaturateIs
<1>4. Combined(t) = Vector(f)
  BY DEF Combined
<1> HIDE DEF f
<1>5. QED
  BY <1>3, <1>4, VectorIs

\* Rearranging keeps a vector one.
LEMMA RearrangedIs ==
  ASSUME NEW l \in Vectors10, NEW J \in Int
  PROVE  Rearranged(l, J) \in Vectors10
<1> DEFINE up(i, b) == Saturate(l[i] + Correction(b, l[i], J))
           IsRaised(f) == f = [i \in Coordinates |->
                             IF i = 1 THEN l[1] ELSE up(i, f[i - 1])]
           raised == CHOOSE f : IsRaised(f)
           last == [i \in Coordinates |->
                      IF i = 10 THEN raised[10]
                      ELSE Saturate(raised[i] - Correction(raised[i], l[i + 1], J))]
<1>1. Rearranged(l, J) = Vector(last)
  BY DEF Rearranged
<1>2. \A i \in Coordinates : l[i] \in Int
  BY DEF Vectors10
<1>3. \A x, y \in Int : Correction(x, y, J) \in Int
  BY DEF Correction
<1>4. \A i \in Coordinates, b \in Int : up(i, b) \in Int
  <2> SUFFICES ASSUME NEW i \in Coordinates, NEW b \in Int
               PROVE  Saturate(l[i] + Correction(b, l[i], J)) \in Int
    OBVIOUS
  <2>1. l[i] \in Int
    BY <1>2
  <2>2. Correction(b, l[i], J) \in Int
    BY <1>3, <2>1
  <2>3. l[i] + Correction(b, l[i], J) \in Int
    BY <2>1, <2>2
  <2>4. QED
    BY <2>3, SaturateIs
<1> DEFINE Z == Int
           E == [i \in 1..10 |-> [b \in Z |-> up(i, b)]]
           a == l[1]
<1> HIDE DEF up
<1>5. StepsFrom(Z, a, 10, E)
  <2>1. a \in Z
    BY <1>2 DEF Coordinates
  <2>2. E \in [1..10 -> [Z -> Z]]
    BY <1>4 DEF Coordinates
  <2> HIDE DEF E, a, Z
  <2>3. QED
    BY <2>1, <2>2 DEF StepsFrom
<1>6. \A i \in 1..10, b \in Int : E[i][b] = up(i, b)
  OBVIOUS
<1> HIDE DEF E, a, Z
<1>7. PICK f : RunsUp(f, Z, a, 10, E)
  BY <1>5, RecursionUp
<1>8. f \in [1..10 -> Int] /\ f[1] = a /\ \A i \in 2..10 : f[i] = E[i][f[i - 1]]
  BY <1>7 DEF RunsUp, Z
<1>9. IsRaised(f)
  <2>1. \A i \in 2..10 : f[i] = up(i, f[i - 1])
    <3>1. \A i \in 2..10 : i \in 1..10 /\ i - 1 \in 1..10
      OBVIOUS
    <3>2. QED
      BY <1>6, <1>8, <3>1
  <2>2. \A i \in Coordinates : f[i] = IF i = 1 THEN l[1] ELSE up(i, f[i - 1])
    BY <1>8, <2>1 DEF a, Coordinates
  <2>3. QED
    BY <1>8, <2>2 DEF Coordinates
<1>10. IsRaised(raised)
  <2> HIDE DEF IsRaised
  <2>1. QED
    BY <1>9
<1> HIDE DEF raised
<1>11. raised[1] = a /\ \A i \in 2..10 : raised[i] = up(i, raised[i - 1])
  BY <1>10 DEF a, Coordinates
<1> HIDE DEF IsRaised
<1>12. \A i \in Coordinates : raised[i] \in Int
  <2> DEFINE T == {k \in 0..9 : raised[k + 1] \in Int}
  <2>1. 0 \in T
    <3>1. a \in Int
      BY <1>5 DEF StepsFrom, Z
    <3>2. QED
      BY <1>11, <3>1
  <2>2. ASSUME NEW k \in 1..9, k - 1 \in T PROVE k \in T
    <3>1. raised[k] \in Int /\ k + 1 \in 2..10 /\ k + 1 \in Coordinates
      BY <2>2 DEF Coordinates
    <3>2. raised[k + 1] = up(k + 1, raised[k])
      BY <1>11, <3>1
    <3>3. QED
      BY <1>4, <3>1, <3>2
  <2> HIDE DEF T
  <2>3. 0..9 \subseteq T
    BY <2>1, <2>2, RangeInduction
  <2>4. \A i \in Coordinates : i - 1 \in T /\ (i - 1) + 1 = i
    BY <2>3 DEF Coordinates
  <2>5. QED
    BY <2>4 DEF T
<1>13. \A i \in Coordinates : last[i] \in Int
  <2>1. ASSUME NEW i \in Coordinates, i # 10 PROVE last[i] \in Int
    <3>1. i + 1 \in Coordinates
      BY <2>1 DEF Coordinates
    <3>2. raised[i] \in Int /\ l[i + 1] \in Int
      BY <1>2, <1>12, <3>1
    <3>3. Correction(raised[i], l[i + 1], J) \in Int
      BY <1>3, <3>2
    <3>4. raised[i] - Correction(raised[i], l[i + 1], J) \in Int
      BY <3>2, <3>3
    <3>5. QED
      BY <2>1, <3>4, SaturateIs
  <2>2. last[10] \in Int
    BY <1>12 DEF Coordinates
  <2>3. QED
    BY <2>1, <2>2
<1> HIDE DEF last
<1>14. QED
  BY <1>1, <1>13, VectorIs

\* The residual a tuple stands for and the spectrum it gives.
LEMMA ResidualIs ==
  ASSUME NEW t \in Tuples
  PROVE  Residual(t) \in Vectors10
  BY CombinedIs, RearrangedIs DEF Residual, lsfRearrJ1, lsfRearrJ2

\* Every tuple is decoded to a stable spectrum.
LEMMA SpectrumIs ==
  ASSUME NEW t \in Tuples, NEW past, Past4(past)
  PROVE  Spectrum(t, past) \in Vectors10 /\ StableSpectrum(Spectrum(t, past))
<1>1. t.L0 \in {0, 1}
  BY DEF Tuples, Tuple
<1>2. Predicted(t.L0, Residual(t), past) \in Vectors10
  BY <1>1, ResidualIs, PredictedIs
<1>3. QED
  BY <1>2, StabilisedIsStable DEF Spectrum

\* Pushing a vector keeps four vectors.
LEMMA ShiftedPast ==
  ASSUME NEW past, Past4(past), NEW r \in Vectors10
  PROVE  Past4(Shifted(past, r))
  BY DEF Past4, Shifted

\* What a concealed frame pushes is a vector.
LEMMA ErasedIs ==
  ASSUME NEW selector \in {0, 1}, NEW lsf \in Vectors10, NEW past, Past4(past)
  PROVE  ErasedResidual(selector, lsf, past) \in Vectors10
<1> DEFINE f == [i \in Coordinates |->
     Saturate((((lsf[i] * 65536 - History(selector, past, i)) \div 65536) *
               maPredictorInvSumReciprocalLSP[selector + 1][i]) \div 4096)]
<1>1. ASSUME NEW i \in Coordinates
      PROVE  f[i] \in Int
  <2> DEFINE a == maPredictorInvSumReciprocalLSP[selector + 1][i]
             w == lsf[i]
             h == History(selector, past, i)
             x == (w * 65536 - h) \div 65536
             y == (x * a) \div 4096
  <2>1. a \in Int /\ w \in Int /\ h \in Int
    BY TablesAreIntegers, HistoryIs DEF Vectors10
  <2>2. f[i] = Saturate(y)
    OBVIOUS
  <2> HIDE DEF a, w, h, f
  <2>3. x \in Int
    BY <2>1
  <2> HIDE DEF x
  <2>4. x * a \in Int
    BY <2>1, <2>3
  <2>5. y \in Int
    BY <2>4
  <2> HIDE DEF y
  <2>6. QED
    BY <2>2, <2>5, SaturateIs
<1>2. ErasedResidual(selector, lsf, past) = Vector(f)
  BY DEF ErasedResidual
<1> HIDE DEF f
<1>3. QED
  BY <1>1, <1>2, VectorIs

\* What is quantised is a vector.
LEMMA TargetIs ==
  ASSUME NEW selector \in {0, 1}, NEW omega \in Vectors10, NEW past, Past4(past)
  PROVE  Target(selector, omega, past) \in Vectors10
<1> DEFINE f == [i \in Coordinates |->
     Saturate(Truncated(
       ((omega[i] * 65536 - History(selector, past, i)) \div 65536) * 32768,
       MAPredictorInvSumLSP[selector + 1][i]))]
<1>1. ASSUME NEW i \in Coordinates
      PROVE  f[i] \in Int
  <2> DEFINE a == MAPredictorInvSumLSP[selector + 1][i]
             w == omega[i]
             h == History(selector, past, i)
             x == ((w * 65536 - h) \div 65536) * 32768
             y == Truncated(x, a)
  <2>1. a \in Int /\ a > 0 /\ w \in Int /\ h \in Int
    <3>1. Coordinates = {1, 2, 3, 4, 5, 6, 7, 8, 9, 10}
      BY DEF Coordinates
    <3>2. a \in Int /\ a > 0
      BY <3>1 DEF MAPredictorInvSumLSP
    <3>3. QED
      BY <3>2, HistoryIs DEF Vectors10
  <2>2. f[i] = Saturate(y)
    OBVIOUS
  <2> HIDE DEF a, w, h, f
  <2>3. x \in Int
    BY <2>1
  <2> HIDE DEF x
  <2>4. y \in Int
    <3>1. x \div a \in Int /\ (-x) \div a \in Int
      BY <2>1, <2>3
    <3>2. QED
      BY <2>3, <3>1 DEF Truncated
  <2> HIDE DEF y
  <2>5. QED
    BY <2>2, <2>4, SaturateIs
<1>2. Target(selector, omega, past) = Vector(f)
  BY DEF Target
<1> HIDE DEF f
<1>3. QED
  BY <1>1, <1>2, VectorIs

-----------------------------------------------------------------------------
(* The distances of the first stage.                                       *)

Low16 == {x \in Nat : x < 65536}

Halves == Nat \X Low16

\* Words of 64 bits as two halves.
LEMMA HalvesIs ==
  /\ \A s \in Halves : s[1] \in Nat /\ s[2] \in Low16
  /\ \A p, q : p \in Nat /\ q \in Low16 => <<p, q>> \in Halves
  BY SMT DEF Halves

\* A square in two halves.
LEMMA WideSquareIs ==
  ASSUME NEW d \in Int
  PROVE  WideSquare(d)[1] \in Nat /\ WideSquare(d)[2] \in Low16
<1> DEFINE m == IF d < 0 THEN -d ELSE d
           a == m \div 256
           b == m % 256
           rest == 512 * a * b + b * b
<1>1. WideSquare(d) = <<a * a + rest \div 65536, rest % 65536>>
  BY DEF WideSquare
<1>2. m \in Nat
  OBVIOUS
<1> HIDE DEF m
<1>3. a \in Nat /\ b \in Nat
  BY <1>2
<1> HIDE DEF a, b
<1>4. a * a \in Nat /\ a * b \in Nat /\ b * b \in Nat
  BY <1>3
<1>5. rest = 512 * (a * b) + b * b
  BY <1>3, SMT
<1> HIDE DEF rest
<1>6. rest \in Nat
  BY <1>4, <1>5
<1>7. rest \div 65536 \in Nat /\ rest % 65536 \in Low16
  BY <1>6, SMT DEF Low16
<1>8. QED
  BY <1>1, <1>4, <1>7

\* A sum of squares in two halves.
LEMMA WideSquaresIs ==
  ASSUME NEW v \in Vectors10
  PROVE  WideSquares(v)[1] \in Nat /\ WideSquares(v)[2] \in Low16
<1> DEFINE Step(i, s) == <<s[1] + WideSquare(v[i])[1] + (s[2] + WideSquare(v[i])[2]) \div 65536,
                           (s[2] + WideSquare(v[i])[2]) % 65536>>
           S == Halves
           a == <<0, 0>>
           E == [i \in 1..10 |-> [s \in S |-> Step(i, s)]]
           IsSum(f) == f = [i \in 0..10 |-> IF i = 0 THEN a ELSE Step(i, f[i - 1])]
           g == CHOOSE f : IsSum(f)
<1>1. WideSquares(v) = g[10]
  BY DEF WideSquares
<1>2. ASSUME NEW i \in 1..10, NEW s \in S
      PROVE  Step(i, s) \in S
  <2> DEFINE q == WideSquare(v[i])
             x == s[2] + q[2]
  <2>1. s[1] \in Nat /\ s[2] \in Low16
    BY HalvesIs
  <2>2. q[1] \in Nat /\ q[2] \in Low16
    <3>1. v[i] \in Int
      BY DEF Vectors10, Coordinates
    <3>2. QED
      BY <3>1, WideSquareIs
  <2>3. Step(i, s) = <<s[1] + q[1] + x \div 65536, x % 65536>>
    OBVIOUS
  <2> HIDE DEF q, Step
  <2>4. x \in Nat
    BY <2>1, <2>2, SMT DEF Low16
  <2> HIDE DEF x
  <2>5. x \div 65536 \in Nat /\ x % 65536 \in Low16
    BY <2>4, SMT DEF Low16
  <2>6. s[1] + q[1] + x \div 65536 \in Nat
    BY <2>1, <2>2, <2>5
  <2>7. QED
    BY <2>3, <2>5, <2>6, HalvesIs
<1> HIDE DEF Step
<1>3. StepsFrom(S, a, 10, E)
  <2>1. a \in S
    <3>1. 0 \in Low16
      BY SMT DEF Low16
    <3>2. QED
      BY <3>1, HalvesIs
  <2>2. E \in [1..10 -> [S -> S]]
    BY <1>2
  <2> HIDE DEF E, a, S
  <2>3. QED
    BY <2>1, <2>2 DEF StepsFrom
<1>4. \A i \in 1..10, s \in S : E[i][s] = Step(i, s)
  OBVIOUS
<1> HIDE DEF E, S, a
<1>5. PICK f : Runs(f, S, a, 10, E)
  BY <1>3, Recursion
<1>6. f \in [0..10 -> S] /\ f[0] = a /\ \A i \in 1..10 : f[i] = E[i][f[i - 1]]
  BY <1>5 DEF Runs
<1>7. IsSum(f)
  <2>1. \A i \in 1..10 : f[i] = Step(i, f[i - 1])
    <3>1. \A i \in 1..10 : i - 1 \in 0..10
      OBVIOUS
    <3>2. QED
      BY <1>4, <1>6, <3>1
  <2>2. \A i \in 0..10 : f[i] = IF i = 0 THEN a ELSE Step(i, f[i - 1])
    BY <1>6, <2>1
  <2>3. QED
    BY <1>6, <2>2
<1>8. IsSum(g)
  <2> HIDE DEF IsSum
  <2>1. QED
    BY <1>7
<1> HIDE DEF g
<1> DEFINE T == {i \in 0..10 : g[i] \in S}
<1>9. 0 \in T
  BY <1>3, <1>8 DEF StepsFrom
<1>10. ASSUME NEW i \in 1..10, i - 1 \in T PROVE i \in T
  <2>1. g[i] = Step(i, g[i - 1]) /\ g[i - 1] \in S
    BY <1>8, <1>10
  <2>2. Step(i, g[i - 1]) \in S
    BY <1>2, <2>1
  <2>3. QED
    BY <2>1, <2>2
<1> HIDE DEF T
<1>11. 0..10 \subseteq T
  BY <1>9, <1>10, RangeInduction
<1>12. g[10] \in Halves
  BY <1>11 DEF T, S
<1>13. QED
  BY <1>1, <1>12, HalvesIs

HalfWord == 2147483648
HighHalf == 32768

\* No row's distance is below the least 32-bit integer, nor negative unless it left
\* 32 bits.
LEMMA DistanceIs ==
  ASSUME NEW target \in Vectors10, NEW row \in DOMAIN CodebookL1
  PROVE  LET e == SquaredError32(target, CodebookL1[row])
             s == WideSquares(Vector([i \in Coordinates |-> target[i] - CodebookL1[row][i]]))
         IN  /\ e \in Int /\ e + HalfWord \in Nat
             /\ s[1] < HighHalf => e \in Nat
<1> DEFINE f == [i \in Coordinates |-> target[i] - CodebookL1[row][i]]
           s == WideSquares(Vector(f))
           e == SquaredError32(target, CodebookL1[row])
<1>1. CodebookL1[row] \in [1..10 -> Int]
  BY LspAssumption DEF IsCodebook
<1>2. \A i \in Coordinates : f[i] \in Int
  BY <1>1 DEF Vectors10, Coordinates
<1>3. Vector(f) \in Vectors10
  <2> HIDE DEF f
  <2>1. QED
    BY <1>2, VectorIs
<1> DEFINE x == s[1]
           y == s[2]
           high == x % 65536
<1>4. e = (IF high >= 32768 THEN high - 65536 ELSE high) * 65536 + y
  BY SMT DEF SquaredError32
<1>5. x \in Nat /\ y \in Low16
  <2> HIDE DEF f
  <2>1. QED
    BY <1>3, WideSquaresIs
<1> HIDE DEF s, x, y, e
<1>6. high \in Low16 /\ (x < HighHalf => high = x)
  BY <1>5, SMT DEF Low16, HighHalf
<1> HIDE DEF high
<1>7. /\ e \in Int /\ e + HalfWord \in Nat
      /\ x < HighHalf => e \in Nat
  BY <1>4, <1>5, <1>6, SMT DEF Low16, HalfWord, HighHalf
<1>8. QED
  BY <1>7 DEF x, s, e
-----------------------------------------------------------------------------
(* The candidate a search keeps.                                           *)

\* Before, in the order of the loops.
NotAfter(a, b) == a[1] < b[1] \/ (a[1] = b[1] /\ a[2] <= b[2])

\* Pairs of halves have a least one.
LEMMA LeastPair ==
  ASSUME NEW S, S # {}, \A x \in S : x[1] \in Nat /\ x[2] \in Nat
  PROVE  \E x \in S : \A y \in S : NotAfter(x, y)
<1> DEFINE A == {x[1] : x \in S}
<1>1. PICK m \in A : \A k \in A : m <= k
  <2>1. A \in SUBSET Nat /\ A # {}
    OBVIOUS
  <2> HIDE DEF A
  <2>2. QED
    BY <2>1, NatLeast
<1> DEFINE R == {x \in S : x[1] = m}
           B == {x[2] : x \in R}
<1>2. PICK n \in B : \A k \in B : n <= k
  <2>1. B \in SUBSET Nat /\ B # {}
    BY <1>1
  <2> HIDE DEF B
  <2>2. QED
    BY <2>1, NatLeast
<1>3. PICK x \in S : x[1] = m /\ x[2] = n
  BY <1>2
<1>4. ASSUME NEW y \in S PROVE NotAfter(x, y)
  <2>1. m <= y[1] /\ m \in Nat /\ n \in Nat /\ y[1] \in Nat /\ y[2] \in Nat
    BY <1>1, <1>2
  <2>2. y[1] = m => n <= y[2]
    BY <1>2
  <2>3. QED
    BY <1>3, <2>1, <2>2 DEF NotAfter
<1>5. QED
  BY <1>4

\* What First returns of candidates rated by naturals: one of them, none before it.
LEMMA FirstIs ==
  ASSUME NEW rated, rated # {}, \A x \in rated : x[1] \in Nat /\ x[2] \in Nat
  PROVE  \E x \in rated : First(rated) = x[3] /\ \A y \in rated : NotAfter(x, y)
<1> DEFINE P(x) == \A y \in rated : x[1] < y[1] \/ (x[1] = y[1] /\ x[2] <= y[2])
           c == CHOOSE x \in rated : P(x)
<1>1. PICK x \in rated : P(x)
  BY LeastPair DEF NotAfter
<1>2. c \in rated /\ P(c)
  <2> HIDE DEF P
  <2>1. QED
    BY <1>1
<1>3. First(rated) = c[3]
  BY DEF First
<1> HIDE DEF c
<1>4. QED
  BY <1>2, <1>3 DEF NotAfter

\* The row searchL1 ends with is one of the codebook's, and if no distance is
\* negative the first of the nearest.
LEMMA searchL1Is ==
  ASSUME NEW target \in Vectors10
  PROVE  LET r == searchL1(target)
             error(row) == SquaredError32(target, CodebookL1[row])
         IN  /\ r \in DOMAIN CodebookL1
             /\ (\A row \in DOMAIN CodebookL1 : error(row) \in Nat)
                  => \A row \in DOMAIN CodebookL1 :
                       error(r) < error(row) \/ (error(r) = error(row) /\ r <= row)
<1> DEFINE error(row) == SquaredError32(target, CodebookL1[row])
           S == DOMAIN CodebookL1
           n == Cardinality(S) - 1
           Step(row, b) == IF error(b) < 0 \/ error(row) < error(b) THEN row ELSE b
           E == [row \in 1..n |-> [b \in S |-> Step(row, b)]]
           IsBest(f) == f = [row \in S |-> IF row = 0 THEN 0 ELSE Step(row, f[row - 1])]
           g == CHOOSE f : IsBest(f)
           r == searchL1(target)
<1>1. r = g[n]
  BY DEF searchL1
<1>2. S = 0..n /\ n \in Nat
  <2>1. S = 0..Cardinality(S) - 1 /\ S # {} /\ IsFiniteSet(S)
    BY LspAssumption DEF IsCodebook
  <2>2. Cardinality(S) \in Nat /\ Cardinality(S) # 0
    BY <2>1, FS_CardinalityType, FS_EmptySet
  <2>3. QED
    BY <2>1, <2>2
<1>3. \A row \in S : error(row) \in Int
  BY DistanceIs
<1>4. \A row \in 1..n, b \in S : Step(row, b) \in {row, b}
  OBVIOUS
<1> HIDE DEF Step, r, error, n
<1>5. StepsFrom(S, 0, n, E)
  <2>1. 0 \in S /\ n \in Nat
    BY <1>2
  <2>2. 1..n \subseteq S
    BY <1>2
  <2>3. E \in [1..n -> [S -> S]]
    BY <1>4, <2>2
  <2> HIDE DEF E, S
  <2>4. QED
    BY <2>1, <2>3 DEF StepsFrom
<1>6. \A row \in 1..n, b \in S : E[row][b] = Step(row, b)
  OBVIOUS
<1> HIDE DEF E, S
<1>7. PICK f : Runs(f, S, 0, n, E)
  BY <1>5, Recursion
<1>8. f \in [0..n -> S] /\ f[0] = 0 /\ \A row \in 1..n : f[row] = E[row][f[row - 1]]
  BY <1>7 DEF Runs
<1>9. IsBest(f)
  <2>1. \A row \in 1..n : f[row] = Step(row, f[row - 1])
    <3>1. \A row \in 1..n : row - 1 \in 0..n
      BY <1>2
    <3>2. QED
      BY <1>6, <1>8, <3>1
  <2>2. \A row \in 0..n : f[row] = IF row = 0 THEN 0 ELSE Step(row, f[row - 1])
    BY <1>2, <1>8, <2>1
  <2>3. QED
    BY <1>2, <1>8, <2>2
<1>10. IsBest(g)
  <2> HIDE DEF IsBest
  <2>1. QED
    BY <1>9
<1> HIDE DEF g
<1> DEFINE natural == \A row \in S : error(row) \in Nat
           Good(k) == /\ g[k] \in S
                      /\ natural => \A row \in 0..k :
                           error(g[k]) < error(row) \/ (error(g[k]) = error(row) /\ g[k] <= row)
                      /\ g[k] <= k
           T == {k \in 0..n : Good(k)}
<1>11. g[0] = 0 /\ \A row \in 1..n : g[row] = Step(row, g[row - 1])
  BY <1>2, <1>10
<1> HIDE DEF IsBest
<1>12. 0 \in T
  <2>1. 0 \in S /\ 0..0 = {0} /\ 0 \in 0..n
    BY <1>2
  <2>2. QED
    BY <1>11, <2>1
<1>13. ASSUME NEW k \in 1..n, k - 1 \in T PROVE k \in T
  <2> DEFINE b == g[k - 1]
  <2>1. k \in 0..n /\ k \in S /\ 0..k = (0..k - 1) \cup {k} /\ b \in S /\ b \in Int
    BY <1>2, <1>13
  <2>2. g[k] = Step(k, b)
    BY <1>11
  <2>3. b <= k - 1
    BY <1>13
  <2>4. natural => \A row \in 0..k - 1 :
           error(b) < error(row) \/ (error(b) = error(row) /\ b <= row)
    BY <1>13
  <2> HIDE DEF b
  <2>5. error(b) \in Int /\ error(k) \in Int
    BY <1>3, <2>1
  <2>6. g[k] \in S /\ g[k] <= k
    BY <2>1, <2>2, <2>3 DEF Step
  <2>7. ASSUME natural
        PROVE  \A row \in 0..k :
                 error(g[k]) < error(row) \/ (error(g[k]) = error(row) /\ g[k] <= row)
    <3>1. error(b) \in Nat
      BY <2>1, <2>7
    <3>2. \A row \in 0..k - 1 : row \in S /\ error(row) \in Int
      BY <1>2, <1>3, <2>1
    <3>3. CASE error(k) < error(b)
      <4>1. g[k] = k
        BY <2>2, <3>3 DEF Step
      <4>2. \A row \in 0..k - 1 : error(k) < error(row)
        BY <2>4, <2>5, <2>7, <3>2, <3>3
      <4>3. QED
        BY <2>1, <4>1, <4>2
    <3>4. CASE ~(error(k) < error(b))
      <4>1. g[k] = b
        BY <2>2, <3>1, <3>4 DEF Step
      <4>2. error(b) < error(k) \/ (error(b) = error(k) /\ b <= k)
        BY <2>1, <2>3, <2>5, <3>4
      <4>3. QED
        BY <2>1, <2>4, <2>7, <4>1, <4>2
    <3>5. QED
      BY <3>3, <3>4
  <2>8. QED
    BY <2>1, <2>6, <2>7
<1> HIDE DEF T
<1>14. 0..n \subseteq T
  BY <1>2, <1>12, <1>13, RangeInduction
<1>15. Good(n)
  BY <1>2, <1>14 DEF T
<1>16. QED
  BY <1>1, <1>2, <1>15 DEF r, error, S

-----------------------------------------------------------------------------
(* The searches end with a tuple of the codebooks.                         *)

\* What the searches need of the distortion: a number of squares, weighted.
Distortion ==
  \A omega \in Spectra \cup {ColdSpectrum} :
    /\ \A lsf \in [Lower -> Int] : WeightedError(omega, lsf, Lower) \in Nat
    /\ \A lsf \in Vectors10 : /\ WeightedError(omega, lsf, Upper) \in Nat
                              /\ WeightedError(omega, lsf, Coordinates) \in Nat

\* A codebook has a row 0.
LEMMA CodebookIs ==
  ASSUME NEW book, NEW n, IsCodebook(book, n)
  PROVE  0 \in DOMAIN book /\ DOMAIN book \subseteq Nat
<1> DEFINE S == DOMAIN book
           c == Cardinality(S)
<1>1. S = 0..c - 1 /\ S # {} /\ IsFiniteSet(S)
  BY DEF IsCodebook
<1> HIDE DEF S, c
<1>2. c \in Nat /\ c # 0
  BY <1>1, FS_CardinalityType, FS_EmptySet DEF c
<1>3. 0 \in S /\ S \subseteq Nat
  BY <1>1, <1>2
<1>4. QED
  BY <1>3 DEF S

\* Indices make a tuple.
LEMMA TupleIs ==
  ASSUME NEW l0 \in {0, 1}, NEW l1 \in DOMAIN CodebookL1, NEW l2 \in DOMAIN CodebookL2,
         NEW l3 \in DOMAIN CodebookL3
  PROVE  /\ Tuple(l0, l1, l2, l3) \in Tuples
         /\ Tuple(l0, l1, l2, l3).L0 = l0 /\ Tuple(l0, l1, l2, l3).L1 = l1
         /\ Tuple(l0, l1, l2, l3).L2 = l2 /\ Tuple(l0, l1, l2, l3).L3 = l3
  BY DEF Tuples, Tuple

\* A tuple is its indices.
LEMMA TuplesAre ==
  ASSUME NEW t \in Tuples
  PROVE  /\ t.L0 \in {0, 1} /\ t.L1 \in DOMAIN CodebookL1 /\ t.L2 \in DOMAIN CodebookL2
         /\ t.L3 \in DOMAIN CodebookL3
         /\ t.L0 \in Nat /\ t.L2 \in Nat /\ t.L3 \in Nat
         /\ t = Tuple(t.L0, t.L1, t.L2, t.L3)
<1>1. /\ t.L0 \in {0, 1} /\ t.L1 \in DOMAIN CodebookL1 /\ t.L2 \in DOMAIN CodebookL2
      /\ t.L3 \in DOMAIN CodebookL3 /\ t = Tuple(t.L0, t.L1, t.L2, t.L3)
  BY DEF Tuples, Tuple
<1>2. DOMAIN CodebookL2 \subseteq Nat /\ DOMAIN CodebookL3 \subseteq Nat
  BY LspAssumption, CodebookIs
<1>3. QED
  BY <1>1, <1>2

\* Halving truncates to an integer.
LEMMA TruncatedHalf ==
  ASSUME NEW x \in Int
  PROVE  Truncated(x, 2) \in Int
  BY DEF Truncated

\* Rearranging the lower half.
LEMMA LowerRearrangedIs ==
  ASSUME NEW lsf \in Vectors10
  PROVE  LowerRearranged(lsf) \in [Lower -> Int]
<1> DEFINE up(i, r) == IF lsf[i] - r < lsfRearrJ1
                       THEN Truncated(lsf[i] + r + lsfRearrJ1, 2) ELSE lsf[i]
           IsRaised(f) == f = [i \in Lower |-> IF i = 1 THEN lsf[1] ELSE up(i, f[i - 1])]
           raised == CHOOSE f : IsRaised(f)
           last == [i \in Lower |->
                      IF i < 5 /\ lsf[i + 1] - raised[i] < lsfRearrJ1
                      THEN Truncated(lsf[i + 1] + raised[i] - lsfRearrJ1, 2) ELSE raised[i]]
<1>1. LowerRearranged(lsf) = last
  BY DEF LowerRearranged
<1>2. \A i \in 1..10 : lsf[i] \in Int
  BY DEF Vectors10, Coordinates
<1>3. ASSUME NEW i \in Lower, NEW b \in Int
      PROVE  up(i, b) \in Int
  <2>1. lsf[i] \in Int /\ lsf[i] + b + lsfRearrJ1 \in Int
    BY <1>2 DEF Lower, lsfRearrJ1
  <2>2. QED
    BY <2>1, TruncatedHalf
<1> DEFINE Z == Int
           E == [i \in 1..5 |-> [b \in Z |-> up(i, b)]]
           a == lsf[1]
<1> HIDE DEF up
<1>4. StepsFrom(Z, a, 5, E)
  <2>1. a \in Z
    BY <1>2
  <2>2. E \in [1..5 -> [Z -> Z]]
    BY <1>3 DEF Lower
  <2> HIDE DEF E, a, Z
  <2>3. QED
    BY <2>1, <2>2 DEF StepsFrom
<1>5. \A i \in 1..5, b \in Int : E[i][b] = up(i, b)
  OBVIOUS
<1> HIDE DEF E, a, Z
<1>6. PICK f : RunsUp(f, Z, a, 5, E)
  BY <1>4, RecursionUp
<1>7. f \in [1..5 -> Int] /\ f[1] = a /\ \A i \in 2..5 : f[i] = E[i][f[i - 1]]
  BY <1>6 DEF RunsUp, Z
<1>8. IsRaised(f)
  <2>1. \A i \in 2..5 : f[i] = up(i, f[i - 1])
    <3>1. \A i \in 2..5 : i \in 1..5 /\ i - 1 \in 1..5
      OBVIOUS
    <3>2. QED
      BY <1>5, <1>7, <3>1
  <2>2. \A i \in Lower : f[i] = IF i = 1 THEN lsf[1] ELSE up(i, f[i - 1])
    BY <1>7, <2>1 DEF a, Lower
  <2>3. QED
    BY <1>7, <2>2 DEF Lower
<1>9. IsRaised(raised)
  <2> HIDE DEF IsRaised
  <2>1. QED
    BY <1>8
<1> HIDE DEF raised
<1>10. raised[1] = a /\ \A i \in 2..5 : raised[i] = up(i, raised[i - 1])
  BY <1>9 DEF a, Lower
<1> HIDE DEF IsRaised
<1>11. raised[1] \in Int
  BY <1>2, <1>10 DEF a
<1>12. raised[2] \in Int
  BY <1>3, <1>10, <1>11 DEF Lower
<1>13. raised[3] \in Int
  BY <1>3, <1>10, <1>12 DEF Lower
<1>14. raised[4] \in Int
  BY <1>3, <1>10, <1>13 DEF Lower
<1>15. raised[5] \in Int
  BY <1>3, <1>10, <1>14 DEF Lower
<1>16. ASSUME NEW i \in Lower
       PROVE  last[i] \in Int
  <2>1. Lower = {1, 2, 3, 4, 5}
    BY DEF Lower
  <2>2. raised[i] \in Int
    BY <2>1, <1>11, <1>12, <1>13, <1>14, <1>15
  <2>3. lsf[i + 1] + raised[i] - lsfRearrJ1 \in Int
    BY <1>2, <2>1, <2>2 DEF lsfRearrJ1
  <2>4. QED
    BY <2>2, <2>3, TruncatedHalf
<1> HIDE DEF last
<1>17. last = [i \in Lower |-> last[i]]
  BY DEF last
<1>18. QED
  BY <1>1, <1>16, <1>17

\* The errors the searches compare are naturals.
LEMMA ErrorsAre ==
  ASSUME Distortion, NEW omega \in Spectra \cup {ColdSpectrum}, NEW t \in Tuples,
         NEW past, Past4(past)
  PROVE  /\ LowerError(omega, t, past) \in Nat /\ UpperError(omega, t, past) \in Nat
         /\ FinalError(omega, t, past) \in Nat
<1>1. Predicted(t.L0, Combined(t), past) \in Vectors10
  BY TuplesAre, CombinedIs, PredictedIs
<1>2. LowerRearranged(Predicted(t.L0, Combined(t), past)) \in [Lower -> Int]
  BY <1>1, LowerRearrangedIs
<1>3. Rearranged(Predicted(t.L0, Combined(t), past), lsfRearrJ1) \in Vectors10
  BY <1>1, RearrangedIs DEF lsfRearrJ1
<1>4. Spectrum(t, past) \in Vectors10
  BY SpectrumIs
<1>5. QED
  BY <1>2, <1>3, <1>4 DEF Distortion, LowerError, UpperError, FinalError

\* The sequential search ends with a tuple, whose first row is the nearest.
LEMMA GreedyIs ==
  ASSUME Distortion, NEW omega \in Spectra \cup {ColdSpectrum},
         NEW past, Past4(past), NEW l0 \in {0, 1}
  PROVE  /\ Greedy(omega, past, l0) \in Tuples
         /\ Greedy(omega, past, l0).L0 = l0
         /\ Greedy(omega, past, l0).L1 = searchL1(Target(l0, omega, past))
<1> DEFINE l1 == searchL1(Target(l0, omega, past))
           lower == {<<LowerError(omega, Tuple(l0, l1, r, 0), past), r, r>> :
                       r \in DOMAIN CodebookL2}
           l2 == First(lower)
           upper == {<<UpperError(omega, Tuple(l0, l1, l2, r), past), r, r>> :
                       r \in DOMAIN CodebookL3}
           l3 == First(upper)
<1>1. omega \in Vectors10
  BY LspAssumption DEF Vectors10, Coordinates
<1>2. l1 \in DOMAIN CodebookL1
  BY <1>1, TargetIs, searchL1Is
<1> HIDE DEF l1
<1>3. /\ 0 \in DOMAIN CodebookL2 /\ DOMAIN CodebookL2 \subseteq Nat
      /\ 0 \in DOMAIN CodebookL3 /\ DOMAIN CodebookL3 \subseteq Nat
  BY LspAssumption, CodebookIs
<1>4. l2 \in DOMAIN CodebookL2
  <2>1. lower # {} /\ \A x \in lower : x[1] \in Nat /\ x[2] \in Nat
    <3>1. \A r \in DOMAIN CodebookL2 : LowerError(omega, Tuple(l0, l1, r, 0), past) \in Nat
      BY <1>2, <1>3, TupleIs, ErrorsAre
    <3>2. ASSUME NEW x \in lower PROVE x[1] \in Nat /\ x[2] \in Nat
      <4>1. PICK r \in DOMAIN CodebookL2 :
              x = <<LowerError(omega, Tuple(l0, l1, r, 0), past), r, r>>
        OBVIOUS
      <4>2. x[1] = LowerError(omega, Tuple(l0, l1, r, 0), past) /\ x[2] = r
        BY <4>1
      <4>3. QED
        BY <1>3, <3>1, <4>2
    <3>3. <<LowerError(omega, Tuple(l0, l1, 0, 0), past), 0, 0>> \in lower
      BY <1>3
    <3>4. QED
      BY <3>2, <3>3
  <2>2. \A x \in lower : x[3] \in DOMAIN CodebookL2
    OBVIOUS
  <2> HIDE DEF lower
  <2>3. QED
    BY <2>1, <2>2, FirstIs
<1> HIDE DEF l2
<1>5. l3 \in DOMAIN CodebookL3
  <2>1. upper # {} /\ \A x \in upper : x[1] \in Nat /\ x[2] \in Nat
    <3>1. \A r \in DOMAIN CodebookL3 : UpperError(omega, Tuple(l0, l1, l2, r), past) \in Nat
      BY <1>2, <1>4, TupleIs, ErrorsAre
    <3>2. ASSUME NEW x \in upper PROVE x[1] \in Nat /\ x[2] \in Nat
      <4>1. PICK r \in DOMAIN CodebookL3 :
              x = <<UpperError(omega, Tuple(l0, l1, l2, r), past), r, r>>
        OBVIOUS
      <4>2. x[1] = UpperError(omega, Tuple(l0, l1, l2, r), past) /\ x[2] = r
        BY <4>1
      <4>3. QED
        BY <1>3, <3>1, <4>2
    <3>3. <<UpperError(omega, Tuple(l0, l1, l2, 0), past), 0, 0>> \in upper
      BY <1>3
    <3>4. QED
      BY <3>2, <3>3
  <2>2. \A x \in upper : x[3] \in DOMAIN CodebookL3
    OBVIOUS
  <2> HIDE DEF upper
  <2>3. QED
    BY <2>1, <2>2, FirstIs
<1> HIDE DEF l3
<1>6. Greedy(omega, past, l0) = Tuple(l0, l1, l2, l3)
  BY DEF Greedy, l1, l2, l3
<1>7. QED
  BY <1>2, <1>4, <1>5, <1>6, TupleIs DEF l1

\* Quantize keeps one of its two candidates, and none is better.
LEMMA QuantizeIs ==
  ASSUME Distortion, NEW omega \in Spectra \cup {ColdSpectrum}, NEW past, Past4(past)
  PROVE  /\ \E l0 \in {0, 1} : Quantize(omega, past) = Greedy(omega, past, l0)
         /\ Quantize(omega, past) \in Tuples
<1> DEFINE C == {Greedy(omega, past, l0) : l0 \in {0, 1}}
           rated == {<<FinalError(omega, t, past), t.L0, t>> : t \in C}
<1>1. C # {} /\ \A t \in C : t \in Tuples /\ \E l0 \in {0, 1} : t = Greedy(omega, past, l0)
  BY GreedyIs
<1> HIDE DEF C
<1>2. \A t \in C : FinalError(omega, t, past) \in Nat /\ t.L0 \in Nat
  BY <1>1, ErrorsAre, TuplesAre
<1>3. rated # {} /\ \A x \in rated : x[1] \in Nat /\ x[2] \in Nat
  <2>1. ASSUME NEW x \in rated PROVE x[1] \in Nat /\ x[2] \in Nat
    <3>1. PICK t \in C : x = <<FinalError(omega, t, past), t.L0, t>>
      OBVIOUS
    <3>2. x[1] = FinalError(omega, t, past) /\ x[2] = t.L0
      BY <3>1
    <3>3. QED
      BY <1>2, <3>2
  <2>2. PICK t \in C : TRUE
    BY <1>1
  <2>3. <<FinalError(omega, t, past), t.L0, t>> \in rated
    OBVIOUS
  <2>4. QED
    BY <2>1, <2>3
<1>4. \A x \in rated : x[3] \in C
  OBVIOUS
<1>5. Quantize(omega, past) = First(rated)
  BY DEF Quantize, C
<1> HIDE DEF rated
<1>6. QED
  BY <1>1, <1>3, <1>4, <1>5, FirstIs

\* The first stage keeps at least one row, ranked from 0, all of them rows of the
\* codebook; a broader one keeps those of a narrower.
LEMMA TopRowsAre ==
  ASSUME NEW target \in Vectors10, NEW k \in Nat, k > 0
  PROVE  LET error(row) == SquaredError32(target, CodebookL1[row])
         IN  /\ searchL1TopK(target, k) # {}
             /\ \A e \in searchL1TopK(target, k) : e[1] \in Nat /\ e[2] \in DOMAIN CodebookL1
             /\ \A m \in Nat : k <= m => searchL1TopK(target, k) \subseteq searchL1TopK(target, m)
             /\ \A r \in DOMAIN CodebookL1 :
                  (\A row \in DOMAIN CodebookL1 :
                     error(r) < error(row) \/ (error(r) = error(row) /\ r <= row))
                  => <<0, r>> \in searchL1TopK(target, k)
<1> DEFINE D == DOMAIN CodebookL1
           error(row) == SquaredError32(target, CodebookL1[row])
           errors == {<<error(row), row>> : row \in D}
           before(e) == {f \in errors : f[1] < e[1] \/ (f[1] = e[1] /\ f[2] < e[2])}
           rank(e) == Cardinality(before(e))
<1>1. 0 \in D /\ D \subseteq Nat /\ IsFiniteSet(D)
  BY LspAssumption, CodebookIs DEF IsCodebook
<1>2. \A row \in D : error(row) \in Int /\ error(row) + HalfWord \in Nat
  BY DistanceIs
<1>3. \A m : searchL1TopK(target, m) = {<<rank(e), e[2]>> : e \in {f \in errors : rank(f) < m}}
  BY DEF searchL1TopK
<1> HIDE DEF error, D
<1>4. IsFiniteSet(errors)
  <2> DEFINE f == [row \in D |-> <<error(row), row>>]
  <2>1. f \in Surjection(D, errors)
    BY DEF Surjection
  <2> HIDE DEF f, errors
  <2>2. QED
    BY <1>1, <2>1, FS_Surjection
<1>5. \A e \in errors : rank(e) \in Nat
  <2> SUFFICES ASSUME NEW e \in errors PROVE rank(e) \in Nat
    OBVIOUS
  <2>1. before(e) \subseteq errors
    OBVIOUS
  <2> HIDE DEF before, errors
  <2>2. IsFiniteSet(before(e))
    BY <1>4, <2>1, FS_Subset
  <2>3. QED
    BY <2>2, FS_CardinalityType
<1>6. ASSUME NEW r \in D,
             \A row \in D : error(r) < error(row) \/ (error(r) = error(row) /\ r <= row)
      PROVE  <<error(r), r>> \in errors /\ rank(<<error(r), r>>) = 0
  <2>1. before(<<error(r), r>>) = {}
    <3>1. \A row \in D : error(row) \in Int /\ row \in Int
      BY <1>1, <1>2
    <3>2. QED
      BY <1>6, <3>1
  <2> HIDE DEF before
  <2>2. QED
    BY <2>1, FS_EmptySet
<1>7. \E r \in D : \A row \in D : error(r) < error(row) \/ (error(r) = error(row) /\ r <= row)
  <2> DEFINE R == {<<error(row) + HalfWord, row>> : row \in D}
  <2>1. R # {} /\ \A x \in R : x[1] \in Nat /\ x[2] \in Nat
    <3>1. ASSUME NEW x \in R PROVE x[1] \in Nat /\ x[2] \in Nat
      <4>1. PICK row \in D : x = <<error(row) + HalfWord, row>>
        OBVIOUS
      <4>2. x[1] = error(row) + HalfWord /\ x[2] = row
        BY <4>1
      <4>3. QED
        BY <1>1, <1>2, <4>2
    <3>2. <<error(0) + HalfWord, 0>> \in R
      BY <1>1
    <3>3. QED
      BY <3>1, <3>2
  <2>2. PICK x \in R : \A y \in R : NotAfter(x, y)
    <3> HIDE DEF R
    <3>1. QED
      BY <2>1, LeastPair
  <2>3. PICK r \in D : x = <<error(r) + HalfWord, r>>
    OBVIOUS
  <2>4. ASSUME NEW row \in D
        PROVE  error(r) < error(row) \/ (error(r) = error(row) /\ r <= row)
    <3>1. NotAfter(x, <<error(row) + HalfWord, row>>)
      BY <2>2
    <3>2. \/ error(r) + HalfWord < error(row) + HalfWord
          \/ error(r) + HalfWord = error(row) + HalfWord /\ r <= row
      BY <2>3, <3>1 DEF NotAfter
    <3>3. error(r) \in Int /\ error(row) \in Int /\ HalfWord \in Int
      BY <1>2, SMT DEF HalfWord
    <3>4. QED
      BY <3>2, <3>3
  <2>5. QED
    BY <2>4
<1> HIDE DEF rank
<1>8. \A e \in errors : e[2] \in D
  OBVIOUS
<1>9. \A r \in D : <<error(r), r>>[2] = r
  OBVIOUS
<1> HIDE DEF errors
<1>10. \A r \in D :
          (\A row \in D : error(r) < error(row) \/ (error(r) = error(row) /\ r <= row))
          => <<0, r>> \in searchL1TopK(target, k)
  <2> SUFFICES ASSUME NEW r \in D,
                      \A row \in D : error(r) < error(row) \/ (error(r) = error(row) /\ r <= row)
               PROVE  <<0, r>> \in searchL1TopK(target, k)
    OBVIOUS
  <2> DEFINE e == <<error(r), r>>
  <2>1. e \in errors /\ rank(e) = 0 /\ e[2] = r
    BY <1>6, <1>9
  <2> HIDE DEF e
  <2>2. QED
    BY <1>3, <2>1
<1>11. searchL1TopK(target, k) # {}
  BY <1>7, <1>10
<1>12. \A e \in searchL1TopK(target, k) : e[1] \in Nat /\ e[2] \in D
  BY <1>3, <1>5, <1>8
<1>13. \A m \in Nat : k <= m => searchL1TopK(target, k) \subseteq searchL1TopK(target, m)
  BY <1>3, <1>5
<1>14. QED
  BY <1>10, <1>11, <1>12, <1>13 DEF D, error

\* The candidates of the joint search.
JointCandidates(omega, past, topK) ==
  UNION {{[rank |-> e[1], t |-> Tuple(l0, e[2], l2, l3)] :
            e \in searchL1TopK(Target(l0, omega, past), topK),
            l2 \in DOMAIN CodebookL2, l3 \in DOMAIN CodebookL3} :
         l0 \in {0, 1}}

\* The joint search has something to choose from, all of the codebooks.
LEMMA JointAre ==
  ASSUME NEW omega \in Vectors10, NEW past, Past4(past), NEW topK \in Nat, topK > 0
  PROVE  /\ JointCandidates(omega, past, topK) # {}
         /\ \A c \in JointCandidates(omega, past, topK) : c.rank \in Nat /\ c.t \in Tuples
<1> DEFINE rows(l0) == searchL1TopK(Target(l0, omega, past), topK)
<1>1. \A l0 \in {0, 1} :
        /\ rows(l0) # {}
        /\ \A e \in rows(l0) : e[1] \in Nat /\ e[2] \in DOMAIN CodebookL1
  BY TargetIs, TopRowsAre
<1>2. 0 \in DOMAIN CodebookL2 /\ 0 \in DOMAIN CodebookL3
  BY LspAssumption, CodebookIs
<1> HIDE DEF rows
<1>3. JointCandidates(omega, past, topK) =
        UNION {{[rank |-> e[1], t |-> Tuple(l0, e[2], l2, l3)] :
                  e \in rows(l0), l2 \in DOMAIN CodebookL2, l3 \in DOMAIN CodebookL3} :
               l0 \in {0, 1}}
  BY DEF JointCandidates, rows
<1>4. \A l0 \in {0, 1} : \A e \in rows(l0), l2 \in DOMAIN CodebookL2, l3 \in DOMAIN CodebookL3 :
        [rank |-> e[1], t |-> Tuple(l0, e[2], l2, l3)] \in JointCandidates(omega, past, topK)
  BY <1>3
<1>5. ASSUME NEW c \in JointCandidates(omega, past, topK)
      PROVE  c.rank \in Nat /\ c.t \in Tuples
  <2>1. PICK l0 \in {0, 1} :
          \E e \in rows(l0), l2 \in DOMAIN CodebookL2, l3 \in DOMAIN CodebookL3 :
             c = [rank |-> e[1], t |-> Tuple(l0, e[2], l2, l3)]
    BY <1>3
  <2>4. PICK e \in rows(l0), l2 \in DOMAIN CodebookL2, l3 \in DOMAIN CodebookL3 :
          c = [rank |-> e[1], t |-> Tuple(l0, e[2], l2, l3)]
    BY <2>1
  <2>2. c.rank = e[1] /\ c.t = Tuple(l0, e[2], l2, l3)
    BY <2>4
  <2>3. QED
    BY <1>1, <2>2, TupleIs
<1>6. QED
  BY <1>1, <1>2, <1>4, <1>5

\* The joint search keeps one of its candidates, and none is better.
LEMMA QuantizeTopKIs ==
  ASSUME Distortion, NEW omega \in Spectra \cup {ColdSpectrum}, NEW past, Past4(past),
         NEW topK \in Nat, topK > 0
  PROVE  LET q == QuantizeTopK(omega, past, topK)
         IN  /\ q \in Tuples
             /\ \E c \in JointCandidates(omega, past, topK) : c.t = q
             /\ \A c \in JointCandidates(omega, past, topK) :
                  FinalError(omega, q, past) <= FinalError(omega, c.t, past)
<1> DEFINE C == JointCandidates(omega, past, topK)
           rated == {<<FinalError(omega, c.t, past),
                       ((c.t.L0 * 16 + c.rank) * 32 + c.t.L2) * 32 + c.t.L3, c.t>> : c \in C}
           q == QuantizeTopK(omega, past, topK)
<1>1. q = First(rated)
  BY DEF QuantizeTopK, JointCandidates
<1>2. omega \in Vectors10
  BY LspAssumption DEF Vectors10, Coordinates
<1>3. C # {} /\ \A c \in C : c.rank \in Nat /\ c.t \in Tuples
  BY <1>2, JointAre
<1> HIDE DEF C, q
<1>4. \A c \in C : /\ FinalError(omega, c.t, past) \in Nat
                   /\ ((c.t.L0 * 16 + c.rank) * 32 + c.t.L2) * 32 + c.t.L3 \in Nat
  <2> SUFFICES ASSUME NEW c \in C
               PROVE  /\ FinalError(omega, c.t, past) \in Nat
                      /\ ((c.t.L0 * 16 + c.rank) * 32 + c.t.L2) * 32 + c.t.L3 \in Nat
    OBVIOUS
  <2>1. c.rank \in Nat /\ c.t.L0 \in Nat /\ c.t.L2 \in Nat /\ c.t.L3 \in Nat
    BY <1>3, TuplesAre
  <2>2. FinalError(omega, c.t, past) \in Nat
    BY <1>3, ErrorsAre
  <2>3. QED
    BY <2>1, <2>2
<1> DEFINE order(c) == ((c.t.L0 * 16 + c.rank) * 32 + c.t.L2) * 32 + c.t.L3
<1>5. \A x \in rated : \E c \in C : x = <<FinalError(omega, c.t, past), order(c), c.t>>
  OBVIOUS
<1>6. \A c \in C : <<FinalError(omega, c.t, past), order(c), c.t>> \in rated
  OBVIOUS
<1>7. \A c \in C : FinalError(omega, c.t, past) \in Nat /\ order(c) \in Nat
  BY <1>4
<1> HIDE DEF rated, order
<1>8. \A x \in rated : \E c \in C :
          x[1] = FinalError(omega, c.t, past) /\ x[2] = order(c) /\ x[3] = c.t
  BY <1>5
<1>9. \A c \in C : \E x \in rated : x[1] = FinalError(omega, c.t, past)
  BY <1>6
<1>10. rated # {} /\ \A x \in rated : x[1] \in Nat /\ x[2] \in Nat
  BY <1>3, <1>7, <1>8, <1>9
<1> HIDE DEF rated
<1>11. PICK x \in rated : q = x[3] /\ \A y \in rated : NotAfter(x, y)
  BY <1>1, <1>10, FirstIs
<1>12. PICK c \in C : x[1] = FinalError(omega, c.t, past) /\ x[3] = c.t
  BY <1>8
<1>13. ASSUME NEW d \in C
       PROVE  FinalError(omega, q, past) <= FinalError(omega, d.t, past)
  <2>1. PICK y \in rated : y[1] = FinalError(omega, d.t, past)
    BY <1>9
  <2>2. x[1] \in Nat /\ y[1] \in Nat
    BY <1>10
  <2>3. x[1] <= y[1]
    BY <1>11, <1>10, <2>2 DEF NotAfter
  <2>4. QED
    BY <1>11, <1>12, <2>1, <2>3
<1>14. QED
  BY <1>3, <1>11, <1>12, <1>13 DEF C, q

\* Whatever the breadth, a frame is sent with a tuple of the codebooks.
LEMMA SearchIs ==
  ASSUME Distortion, breadth \in Breadths, NEW omega \in Spectra \cup {ColdSpectrum},
         NEW past, Past4(past)
  PROVE  Search(omega, past) \in Tuples
<1>1. breadth \in Nat
  BY LspAssumption
<1>2. CASE breadth = 0
  BY <1>2, QuantizeIs DEF Search
<1>3. CASE breadth # 0
  BY <1>1, <1>3, QuantizeTopKIs DEF Search
<1>4. QED
  BY <1>2, <1>3

-----------------------------------------------------------------------------
(* Every spectrum a decoder keeps is one a stable filter can be made of.   *)

\* What a decoder is about to use: integers, and a stable spectrum to repeat.
DecoderKeeps(d) ==
  /\ Past4(PastResiduals(d))
  /\ PrevLSF(d) \in Vectors10 /\ StableSpectrum(PrevLSF(d))
  /\ d.lastSelector \in {0, 1}

SpectraInv ==
  /\ breadth \in Breadths
  /\ lspOld \in Spectra \cup {ColdSpectrum}
  /\ Past4(freqPrev)
  /\ DecoderKeeps(lspDec) /\ DecoderKeeps(dec)
  /\ wire # <<>> => wire[1] \in Tuples

\* The initial residuals are a stable spectrum.
LEMMA InitialResiduals ==
  /\ initialPastResidual \in Vectors10 /\ StableSpectrum(initialPastResidual)
  /\ Past4(InitFreqPrev)
<1>1. Coordinates = {1, 2, 3, 4, 5, 6, 7, 8, 9, 10} /\ 2..10 = {2, 3, 4, 5, 6, 7, 8, 9, 10}
  BY DEF Coordinates
<1>2. \A i \in Coordinates : initialPastResidual[i] \in Int
  BY <1>1 DEF initialPastResidual
<1>3. initialPastResidual = [i \in Coordinates |-> initialPastResidual[i]]
  BY DEF initialPastResidual, Coordinates
<1>4. initialPastResidual \in Vectors10
  BY <1>2, <1>3 DEF Vectors10
<1>5. initialPastResidual[1] >= 41 /\ initialPastResidual[10] <= 25682
  BY DEF initialPastResidual
<1>6. \A i \in 2..10 : initialPastResidual[i] - initialPastResidual[i - 1] >= 321
  BY <1>1 DEF initialPastResidual
<1>7. QED
  BY <1>4, <1>5, <1>6 DEF StableSpectrum, lsfMinEdge, lsfMaxEdge, lsfMinGap, Past4, InitFreqPrev

\* A cold decoder keeps a stable spectrum.
LEMMA ColdKeeps == DecoderKeeps(ColdDecoder)
<1>1. ColdDecoder.initialized = FALSE /\ ColdDecoder.lastSelector = 0
  BY DEF ColdDecoder
<1>2. QED
  BY <1>1, InitialResiduals DEF DecoderKeeps, PastResiduals, PrevLSF

\* So does one that decoded any tuple.
LEMMA DecodeKeeps ==
  ASSUME NEW d, DecoderKeeps(d), NEW t \in Tuples
  PROVE  DecoderKeeps(Decode(d, t))
<1> DEFINE lsf == Spectrum(t, PastResiduals(d))
           past == Shifted(PastResiduals(d), Residual(t))
           cosines == Cosines(lsf)
           after == [initialized |-> TRUE, past |-> past, prevLSP |-> cosines,
                     prevLSF |-> lsf, lastSelector |-> t.L0]
<1>1. Decode(d, t) = after
  BY DEF Decode
<1>2. Past4(past)
  BY ResidualIs, ShiftedPast DEF DecoderKeeps
<1>3. lsf \in Vectors10 /\ StableSpectrum(lsf)
  BY SpectrumIs DEF DecoderKeeps
<1>4. t.L0 \in {0, 1}
  BY TuplesAre
<1> HIDE DEF lsf, past, cosines
<1>5. /\ after.initialized = TRUE /\ after.past = past /\ after.prevLSF = lsf
      /\ after.lastSelector = t.L0
  OBVIOUS
<1> HIDE DEF after
<1>6. PastResiduals(after) = past /\ PrevLSF(after) = lsf
  BY <1>5 DEF PastResiduals, PrevLSF
<1>7. QED
  BY <1>1, <1>2, <1>3, <1>4, <1>5, <1>6 DEF DecoderKeeps

\* The residual an erasure invents stands for a spectrum the decoder had.
LEMMA ErasureKeeps ==
  ASSUME NEW d, DecoderKeeps(d)
  PROVE  DecoderKeeps(DecodeErasure(d))
<1> DEFINE r == ErasedResidual(d.lastSelector, PrevLSF(d), PastResiduals(d))
           past == Shifted(PastResiduals(d), r)
           lsf == PrevLSF(d)
           lsp == PrevLSP(d)
           after == [initialized |-> TRUE, prevLSP |-> lsp, prevLSF |-> lsf,
                     lastSelector |-> d.lastSelector, past |-> past]
<1>1. DecodeErasure(d) = after
  BY DEF DecodeErasure
<1>2. Past4(past)
  BY ErasedIs, ShiftedPast DEF DecoderKeeps
<1>3. lsf \in Vectors10 /\ StableSpectrum(lsf) /\ d.lastSelector \in {0, 1}
  BY DEF DecoderKeeps
<1> HIDE DEF r, past, lsf, lsp
<1>4. /\ after.initialized = TRUE /\ after.past = past /\ after.prevLSF = lsf
      /\ after.lastSelector = d.lastSelector
  OBVIOUS
<1> HIDE DEF after
<1>5. PastResiduals(after) = past /\ PrevLSF(after) = lsf
  BY <1>4 DEF PastResiduals, PrevLSF
<1>6. QED
  BY <1>1, <1>2, <1>3, <1>4, <1>5 DEF DecoderKeeps

\* Everybody starts cold.
LEMMA SpectraInvInit == LspInit => SpectraInv
  BY InitialResiduals, ColdKeeps DEF LspInit, SpectraInv

\* The Encoder sends a tuple of the codebooks and keeps vectors.
LEMMA EncodeKeeps ==
  ASSUME Distortion, SpectraInv, NEW omega \in Spectra \cup {ColdSpectrum}, EncodeSpectrum(omega)
  PROVE  /\ Past4(freqPrev)' /\ DecoderKeeps(lspDec)' /\ wire'[1] \in Tuples
         /\ UNCHANGED <<breadth, dec>>
<1>1. PICK t \in {Search(omega, freqPrev)} :
        /\ CommitResidual(t)
        /\ lspDec' \in {Decode(lspDec, t)}
        /\ wire' = <<t>>
        /\ UNCHANGED <<breadth, decoderSide>>
  BY DEF EncodeSpectrum
<1>2. t \in Tuples
  BY SearchIs DEF SpectraInv
<1>3. Past4(Shifted(freqPrev, Residual(t))) /\ freqPrev' = Shifted(freqPrev, Residual(t))
  BY <1>1, <1>2, ResidualIs, ShiftedPast DEF SpectraInv, CommitResidual
<1>4. DecoderKeeps(Decode(lspDec, t)) /\ lspDec' = Decode(lspDec, t)
  BY <1>1, <1>2, DecodeKeeps DEF SpectraInv
<1>5. DecoderKeeps(lspDec)'
  BY <1>4 DEF DecoderKeeps, PastResiduals, PrevLSF
<1>6. Past4(freqPrev)'
  BY <1>3 DEF Past4
<1>7. QED
  BY <1>1, <1>2, <1>5, <1>6 DEF decoderSide

\* The invariant is inductive.
LEMMA SpectraInvInductive ==
  ASSUME Distortion
  PROVE  SpectraInv /\ [LspNext]_lspVars => SpectraInv'
<1> SUFFICES ASSUME SpectraInv, [LspNext]_lspVars PROVE SpectraInv'
  OBVIOUS
<1>1. CASE EncodeFrame
  <2>1. PICK omega \in Spectra : lspOld' = omega /\ EncodeSpectrum(omega)
    BY <1>1 DEF EncodeFrame
  <2>2. DecoderKeeps(dec)'
    BY <2>1, EncodeKeeps DEF SpectraInv, DecoderKeeps, PastResiduals, PrevLSF
  <2>3. QED
    BY <2>1, <2>2, EncodeKeeps DEF SpectraInv
<1>2. CASE ReuseSpectrum
  <2>1. lspOld' = lspOld /\ EncodeSpectrum(lspOld) /\ lspOld \in Spectra \cup {ColdSpectrum}
    BY <1>2 DEF ReuseSpectrum, SpectraInv
  <2>2. DecoderKeeps(dec)'
    BY <2>1, EncodeKeeps DEF SpectraInv, DecoderKeeps, PastResiduals, PrevLSF
  <2>3. QED
    BY <2>1, <2>2, EncodeKeeps DEF SpectraInv
<1>3. CASE ResetLspEncoder
  <2>1. /\ lspOld' = ColdSpectrum /\ freqPrev' = InitFreqPrev /\ lspDec' = ColdDecoder
        /\ UNCHANGED <<breadth, wire, dec>>
    BY <1>3 DEF ResetLspEncoder, decoderSide
  <2>2. DecoderKeeps(dec)' /\ DecoderKeeps(lspDec)' /\ Past4(freqPrev)'
    BY <2>1, ColdKeeps, InitialResiduals DEF SpectraInv, DecoderKeeps, PastResiduals, PrevLSF, Past4
  <2>3. QED
    BY <2>1, <2>2 DEF SpectraInv
<1>4. CASE Receive
  <2>1. /\ wire # <<>> /\ wire' = <<>>
        /\ UNCHANGED <<breadth, lspOld, freqPrev, lspDec>>
        /\ \E t \in {wire[1]} \cup Damaged(wire[1]) : dec' = Decode(dec, t)
    BY <1>4 DEF Receive, encoderSide
  <2>2. PICK t \in Tuples : dec' = Decode(dec, t)
    BY <2>1 DEF SpectraInv, Damaged
  <2>3. DecoderKeeps(Decode(dec, t))
    BY DecodeKeeps DEF SpectraInv
  <2>4. DecoderKeeps(dec)' /\ DecoderKeeps(lspDec)' /\ Past4(freqPrev)'
    BY <2>1, <2>2, <2>3 DEF SpectraInv, DecoderKeeps, PastResiduals, PrevLSF, Past4
  <2>5. QED
    BY <2>1, <2>4 DEF SpectraInv
<1>5. CASE Erase
  <2>1. /\ wire' = <<>> /\ dec' = DecodeErasure(dec)
        /\ UNCHANGED <<breadth, lspOld, freqPrev, lspDec>>
    BY <1>5 DEF Erase, encoderSide
  <2>2. DecoderKeeps(DecodeErasure(dec))
    BY ErasureKeeps DEF SpectraInv
  <2>3. DecoderKeeps(dec)' /\ DecoderKeeps(lspDec)' /\ Past4(freqPrev)'
    BY <2>1, <2>2 DEF SpectraInv, DecoderKeeps, PastResiduals, PrevLSF, Past4
  <2>4. QED
    BY <2>1, <2>3 DEF SpectraInv
<1>6. CASE ResetLspDecoder
  <2>1. /\ dec' = ColdDecoder /\ UNCHANGED <<breadth, lspOld, freqPrev, lspDec, wire>>
    BY <1>6 DEF ResetLspDecoder, encoderSide
  <2>2. DecoderKeeps(dec)' /\ DecoderKeeps(lspDec)' /\ Past4(freqPrev)'
    BY <2>1, ColdKeeps DEF SpectraInv, DecoderKeeps, PastResiduals, PrevLSF, Past4
  <2>3. QED
    BY <2>1, <2>2 DEF SpectraInv
<1>7. CASE LoseTuple \/ UNCHANGED lspVars
  <2>1. /\ wire' = <<>> \/ wire' = wire
        /\ UNCHANGED <<breadth, lspOld, freqPrev, lspDec, dec>>
    BY <1>7 DEF LoseTuple, encoderSide, decoderSide, lspVars
  <2>2. DecoderKeeps(dec)' /\ DecoderKeeps(lspDec)' /\ Past4(freqPrev)'
    BY <2>1 DEF SpectraInv, DecoderKeeps, PastResiduals, PrevLSF, Past4
  <2>3. QED
    BY <2>1, <2>2 DEF SpectraInv
<1>8. QED
  BY <1>1, <1>2, <1>3, <1>4, <1>5, <1>6, <1>7 DEF LspNext

\* All vectors stay vectors and all kept spectra stable.
LEMMA SpectraInvHolds ==
  ASSUME Distortion
  PROVE  LspSpec => []SpectraInv
<1>1. SpectraInv /\ [LspNext]_lspVars => SpectraInv'
  BY SpectraInvInductive
<1>2. QED
  BY <1>1, SpectraInvInit, PTL DEF LspSpec

\* Whatever tuples, damaged ones included, and whatever losses and Resets, each
\* spectrum either decoder keeps is stable (enforceLSFStability).
THEOREM SpectrumStaysStable ==
  ASSUME Distortion
  PROVE  LspSpec => []SpectrumIsStable
<1>1. SpectraInv => SpectrumIsStable
  BY DEF SpectraInv, DecoderKeeps, PrevLSF, SpectrumIsStable
<1>2. QED
  BY <1>1, SpectraInvHolds, PTL

-----------------------------------------------------------------------------
(* A concealed frame stands for the one before it.                         *)

\* With the scale n and its reciprocal q, a residual r made of the number m gives m
\* again, to within five steps.
RepeatsWith(n, q) ==
  \A m, r \in Int :
    /\ 4096 * r <= m * q /\ m * q < 4096 * r + 4096
    /\ -32768 < r /\ r < 32767
    => /\ -262144 <= 2 * n * r - 65536 * m
       /\ 2 * n * r - 65536 * m <= 196608

\* The reciprocals of the tables are exact enough for that.
LEMMA ReciprocalsRepeat ==
  \A s \in {0, 1}, i \in Coordinates :
    RepeatsWith(MAPredictorInvSumLSP[s + 1][i], maPredictorInvSumReciprocalLSP[s + 1][i])
<1>1. RepeatsWith(7798, 17210)
  BY DEF RepeatsWith
<1>2. RepeatsWith(8447, 15888)
  BY DEF RepeatsWith
<1>3. RepeatsWith(8205, 16357)
  BY DEF RepeatsWith
<1>4. RepeatsWith(8293, 16183)
  BY DEF RepeatsWith
<1>5. RepeatsWith(8126, 16516)
  BY DEF RepeatsWith
<1>6. RepeatsWith(8477, 15833)
  BY DEF RepeatsWith
<1>7. RepeatsWith(8703, 15421)
  BY DEF RepeatsWith
<1>8. RepeatsWith(9043, 14840)
  BY DEF RepeatsWith
<1>9. RepeatsWith(8604, 15597)
  BY DEF RepeatsWith
<1>10. RepeatsWith(14585, 9202)
  BY DEF RepeatsWith
<1>11. RepeatsWith(18333, 7320)
  BY DEF RepeatsWith
<1>12. RepeatsWith(19772, 6788)
  BY DEF RepeatsWith
<1>13. RepeatsWith(17344, 7738)
  BY DEF RepeatsWith
<1>14. RepeatsWith(16426, 8170)
  BY DEF RepeatsWith
<1>15. RepeatsWith(16459, 8154)
  BY DEF RepeatsWith
<1>16. RepeatsWith(15155, 8856)
  BY DEF RepeatsWith
<1>17. RepeatsWith(15220, 8818)
  BY DEF RepeatsWith
<1>18. RepeatsWith(16043, 8366)
  BY DEF RepeatsWith
<1>19. RepeatsWith(15708, 8544)
  BY DEF RepeatsWith
<1>20. Coordinates = {1, 2, 3, 4, 5, 6, 7, 8, 9, 10}
  BY DEF Coordinates
<1>21. \A i \in Coordinates :
        RepeatsWith(MAPredictorInvSumLSP[1][i], maPredictorInvSumReciprocalLSP[1][i])
    BY <1>1, <1>2, <1>3, <1>4, <1>5, <1>6, <1>2, <1>7, <1>8, <1>9, <1>20
       DEF MAPredictorInvSumLSP, maPredictorInvSumReciprocalLSP
<1>22. \A i \in Coordinates :
        RepeatsWith(MAPredictorInvSumLSP[2][i], maPredictorInvSumReciprocalLSP[2][i])
  BY <1>10, <1>11, <1>12, <1>13, <1>14, <1>15, <1>16, <1>17, <1>18, <1>19, <1>20
     DEF MAPredictorInvSumLSP, maPredictorInvSumReciprocalLSP
<1>23. QED
  BY <1>21, <1>22

\* A vector has the coordinates of the function it is made of.
LEMMA VectorCoordinate ==
  ASSUME NEW f, NEW i \in Coordinates
  PROVE  Vector(f)[i] = f[i]
<1>1. Coordinates = {1, 2, 3, 4, 5, 6, 7, 8, 9, 10}
  BY DEF Coordinates
<1>2. QED
  BY <1>1 DEF Vector

\* An invented residual that was not saturated gives the spectrum again.
LEMMA ErasedRepeats ==
  ASSUME NEW s \in {0, 1}, NEW lsf \in Vectors10, NEW past, Past4(past),
         NEW i \in Coordinates,
         -32768 < ErasedResidual(s, lsf, past)[i], ErasedResidual(s, lsf, past)[i] < 32767
  PROVE  Predicted(s, ErasedResidual(s, lsf, past), past)[i] - lsf[i] \in -5..3
<1> DEFINE n == MAPredictorInvSumLSP[s + 1][i]
           q == maPredictorInvSumReciprocalLSP[s + 1][i]
           h == History(s, past, i)
           w == lsf[i]
           m == (w * 65536 - h) \div 65536
           residual == ErasedResidual(s, lsf, past)
           r == residual[i]
<1>1. n \in Int /\ q \in Int /\ h \in Int /\ w \in Int
  BY TablesAreIntegers, HistoryIs DEF Vectors10
<1>2. r = Saturate((m * q) \div 4096)
  <2> DEFINE f == [j \in Coordinates |->
        Saturate((((lsf[j] * 65536 - History(s, past, j)) \div 65536) *
                  maPredictorInvSumReciprocalLSP[s + 1][j]) \div 4096)]
  <2>1. residual = Vector(f) /\ f[i] = Saturate((m * q) \div 4096)
    BY DEF ErasedResidual
  <2> HIDE DEF f, m, q, residual
  <2>2. QED
    BY <2>1, VectorCoordinate
<1>3. Predicted(s, residual, past)[i] = (2 * n * r + h) \div 65536
  <2> DEFINE f == [j \in Coordinates |->
        (2 * MAPredictorInvSumLSP[s + 1][j] * residual[j] + History(s, past, j)) \div 65536]
  <2>1. Predicted(s, residual, past) = Vector(f) /\ f[i] = (2 * n * r + h) \div 65536
    <3> HIDE DEF residual
    <3>1. QED
      BY DEF Predicted
  <2> HIDE DEF f, n, r, h, residual
  <2>2. QED
    BY <2>1, VectorCoordinate
<1>4. RepeatsWith(n, q)
  BY ReciprocalsRepeat
<1>5. -32768 < r /\ r < 32767
  OBVIOUS
<1> HIDE DEF n, q, h, w, residual, r
<1>6. m \in Int /\ 65536 * m <= w * 65536 - h /\ w * 65536 - h < 65536 * m + 65536
  BY <1>1
<1> HIDE DEF m
<1> DEFINE x == m * q
<1>7. x \in Int
  BY <1>1, <1>6
<1>8. r = Saturate(x \div 4096)
  BY <1>2
<1> HIDE DEF x
<1>9. r \in Int /\ 4096 * r <= x /\ x < 4096 * r + 4096
  BY <1>5, <1>7, <1>8 DEF Saturate
<1> DEFINE y == 2 * n * r
<1>10. y \in Int
  BY <1>1, <1>9
<1>11. -262144 <= y - 65536 * m /\ y - 65536 * m <= 196608
  BY <1>4, <1>5, <1>6, <1>9 DEF RepeatsWith, x
<1> HIDE DEF y
<1>12. (y + h) \div 65536 - w \in -5..3
  BY <1>1, <1>6, <1>10, <1>11
<1>13. QED
  BY <1>3, <1>12 DEF y, w, r, residual

\* No coordinate of the residual a concealed frame invents is cut to 16 bits.
Unsaturated ==
  gone' > gone =>
    \A i \in Coordinates : -32768 < dec'.past[1][i] /\ dec'.past[1][i] < 32767

\* A concealed frame leaves behind a residual that stands for the frame repeated,
\* whatever the codebooks, the losses before and the damage, as long as what it
\* invents is not saturated (DecodeErasure, inversePredictorResidual).
THEOREM ErasureRepeats ==
  ASSUME Distortion
  PROVE  LspSpec /\ [][Unsaturated]_lspVars => ErasureRepeatsSpectrum
<1> DEFINE Numbered == gone \in Nat
<1> DEFINE Again == gone' > gone =>
       LET again == Predicted(dec.lastSelector, dec'.past[1], PastResiduals(dec))
       IN \A i \in Coordinates : again[i] - dec'.prevLSF[i] \in -5..3
<1>0. LspSpec => []Numbered
  <2>1. LspInit => Numbered
    BY DEF LspInit
  <2>2. Numbered /\ [LspNext]_lspVars => Numbered'
    BY DEF LspNext, EncodeFrame, ReuseSpectrum, EncodeSpectrum, ResetLspEncoder, Receive, LoseTuple,
           Erase, ResetLspDecoder, lspVars
  <2>3. QED
    BY <2>1, <2>2, PTL DEF LspSpec
<1>1. SpectraInv /\ Numbered /\ [LspNext]_lspVars /\ [Unsaturated]_lspVars => [Again]_lspVars
  <2> SUFFICES ASSUME SpectraInv, Numbered, LspNext, Unsaturated, gone' > gone,
                      NEW i \in Coordinates
               PROVE  Predicted(dec.lastSelector, dec'.past[1], PastResiduals(dec))[i]
                        - dec'.prevLSF[i] \in -5..3
    BY DEF lspVars
  <2>1. dec' = DecodeErasure(dec)
    BY DEF LspNext, EncodeFrame, ReuseSpectrum, EncodeSpectrum, ResetLspEncoder, Receive, LoseTuple,
           Erase, ResetLspDecoder
  <2> DEFINE residual == ErasedResidual(dec.lastSelector, PrevLSF(dec), PastResiduals(dec))
  <2>2. dec'.past[1] = residual /\ dec'.prevLSF = PrevLSF(dec)
    BY <2>1 DEF DecodeErasure, Shifted
  <2>3. -32768 < residual[i] /\ residual[i] < 32767
    BY <2>2 DEF Unsaturated
  <2>4. QED
    BY <2>2, <2>3, ErasedRepeats DEF SpectraInv, DecoderKeeps
<1>2. QED
  BY <1>0, <1>1, SpectraInvHolds, PTL DEF LspSpec, ErasureRepeatsSpectrum

-----------------------------------------------------------------------------
(* The joint search of the second stage.                                   *)

\* If no distance left 32 bits, the row searchL1 ends with is the first of those
\* searchL1TopK keeps.
LEMMA NearestIsRanked ==
  ASSUME NEW omega \in Spectra, Past4(freqPrev), FirstStageFits(omega), NEW l0 \in {0, 1}
  PROVE  <<0, searchL1(Target(l0, omega, freqPrev))>>
           \in searchL1TopK(Target(l0, omega, freqPrev), 1)
<1> DEFINE target == Target(l0, omega, freqPrev)
           squares(row) ==
             WideSquares(Vector([i \in Coordinates |-> target[i] - CodebookL1[row][i]]))
           r == searchL1(target)
<1>1. omega \in Vectors10
  BY LspAssumption DEF Vectors10, Coordinates
<1>2. target \in Vectors10
  BY <1>1, TargetIs
<1>3. \A row \in DOMAIN CodebookL1 : squares(row)[1] < HighHalf
  <2>1. \A row \in DOMAIN CodebookL1 : FirstStageDistances(l0, omega, freqPrev)[row][1] < HighHalf
    BY SMT DEF FirstStageFits, HighHalf
  <2>2. \A row \in DOMAIN CodebookL1 : FirstStageDistances(l0, omega, freqPrev)[row] = squares(row)
    BY DEF FirstStageDistances
  <2>3. QED
    BY <2>1, <2>2
<1> HIDE DEF target
<1>4. \A row \in DOMAIN CodebookL1 : SquaredError32(target, CodebookL1[row]) \in Nat
  BY <1>2, <1>3, DistanceIs
<1>5. /\ r \in DOMAIN CodebookL1
      /\ \A row \in DOMAIN CodebookL1 :
           \/ SquaredError32(target, CodebookL1[r]) < SquaredError32(target, CodebookL1[row])
           \/ /\ SquaredError32(target, CodebookL1[r]) = SquaredError32(target, CodebookL1[row])
              /\ r <= row
  BY <1>2, <1>4, searchL1Is
<1> HIDE DEF r
<1>6. <<0, r>> \in searchL1TopK(target, 1)
  BY <1>2, <1>5, TopRowsAre
<1>7. QED
  BY <1>6 DEF target, r

\* More first rows kept are more candidates.
LEMMA BroaderKeepsMore ==
  ASSUME NEW omega \in Vectors10, NEW past, Past4(past)
  PROVE  JointCandidates(omega, past, 1) \subseteq JointCandidates(omega, past, 2)
<1> DEFINE rows(l0, k) == searchL1TopK(Target(l0, omega, past), k)
<1>1. ASSUME NEW l0 \in {0, 1} PROVE rows(l0, 1) \subseteq rows(l0, 2)
  <2>1. Target(l0, omega, past) \in Vectors10
    BY TargetIs
  <2>2. QED
    BY <2>1, TopRowsAre
<1> HIDE DEF rows
<1>2. \A k : JointCandidates(omega, past, k) =
        UNION {{[rank |-> e[1], t |-> Tuple(l0, e[2], l2, l3)] :
                  e \in rows(l0, k), l2 \in DOMAIN CodebookL2, l3 \in DOMAIN CodebookL3} :
               l0 \in {0, 1}}
  BY DEF JointCandidates, rows
<1>3. ASSUME NEW c \in JointCandidates(omega, past, 1)
      PROVE  c \in JointCandidates(omega, past, 2)
  <2>1. PICK l0 \in {0, 1} :
          \E e \in rows(l0, 1), l2 \in DOMAIN CodebookL2, l3 \in DOMAIN CodebookL3 :
             c = [rank |-> e[1], t |-> Tuple(l0, e[2], l2, l3)]
    BY <1>2
  <2>2. PICK e \in rows(l0, 1), l2 \in DOMAIN CodebookL2, l3 \in DOMAIN CodebookL3 :
          c = [rank |-> e[1], t |-> Tuple(l0, e[2], l2, l3)]
    BY <2>1
  <2>3. e \in rows(l0, 2)
    BY <1>1
  <2>4. QED
    BY <1>2, <2>2, <2>3
<1>4. QED
  BY <1>3

\* So the least distance is no larger.
LEMMA BroaderHolds ==
  ASSUME Distortion, SpectraInv
  PROVE  BroaderSearchIsNoWorse
<1> SUFFICES ASSUME NEW omega \in Spectra, FirstStageFits(omega)
             PROVE  LET error(t) == FinalError(omega, t, freqPrev)
                        joint == error(QuantizeTopK(omega, freqPrev, 1))
                    IN  /\ joint <= error(Quantize(omega, freqPrev))
                        /\ error(QuantizeTopK(omega, freqPrev, 2)) <= joint
  BY DEF BroaderSearchIsNoWorse
<1> DEFINE q1 == QuantizeTopK(omega, freqPrev, 1)
           q2 == QuantizeTopK(omega, freqPrev, 2)
<1>1. Past4(freqPrev) /\ omega \in Vectors10 /\ omega \in Spectra \cup {ColdSpectrum}
  BY LspAssumption DEF SpectraInv, Vectors10, Coordinates
<1>2. PICK l0 \in {0, 1} : Quantize(omega, freqPrev) = Greedy(omega, freqPrev, l0)
  BY <1>1, QuantizeIs
<1> DEFINE g == Greedy(omega, freqPrev, l0)
           c == [rank |-> 0, t |-> g]
<1>3. g \in Tuples /\ g.L0 = l0 /\ g.L1 = searchL1(Target(l0, omega, freqPrev))
  BY <1>1, GreedyIs
<1>4. c.t = g
  OBVIOUS
<1>5. c \in JointCandidates(omega, freqPrev, 1)
  <2> DEFINE e == <<0, g.L1>>
  <2>1. e \in searchL1TopK(Target(l0, omega, freqPrev), 1) /\ e[1] = 0 /\ e[2] = g.L1
    BY <1>1, <1>3, NearestIsRanked
  <2>2. /\ g = Tuple(l0, e[2], g.L2, g.L3)
        /\ g.L2 \in DOMAIN CodebookL2 /\ g.L3 \in DOMAIN CodebookL3
    BY <1>3, <2>1, TuplesAre
  <2> HIDE DEF e, g
  <2>3. c = [rank |-> e[1], t |-> Tuple(l0, e[2], g.L2, g.L3)]
    BY <2>1, <2>2
  <2> HIDE DEF c
  <2>4. QED
    BY <2>1, <2>2, <2>3 DEF JointCandidates
<1> HIDE DEF c, g
<1>6. FinalError(omega, q1, freqPrev) <= FinalError(omega, g, freqPrev)
  BY <1>1, <1>4, <1>5, QuantizeTopKIs
<1>7. PICK d \in JointCandidates(omega, freqPrev, 1) : d.t = q1
  BY <1>1, QuantizeTopKIs
<1>8. d \in JointCandidates(omega, freqPrev, 2)
  BY <1>1, BroaderKeepsMore
<1>9. FinalError(omega, q2, freqPrev) <= FinalError(omega, q1, freqPrev)
  BY <1>1, <1>7, <1>8, QuantizeTopKIs
<1>10. QED
  BY <1>2, <1>6, <1>9 DEF g

\* Unless a distance of the first stage left 32 bits, joint search is no worse than
\* the sequential one, and a broader one no worse than a narrower: whatever the
\* residuals before the frame (searchL1, searchL1TopK, Quantize, QuantizeTopK).
THEOREM BroaderIsNoWorse ==
  ASSUME Distortion
  PROVE  LspSpec => []BroaderSearchIsNoWorse
<1>1. SpectraInv => BroaderSearchIsNoWorse
  BY BroaderHolds
<1>2. QED
  BY <1>1, SpectraInvHolds, PTL

-----------------------------------------------------------------------------
(* GainSearch: powers of two.                                              *)

\* The powers up to that of n.
PowersUpTo(f, n) ==
  f \in [0 .. n -> Nat] /\ f[0] = 1 /\ \A k \in 1 .. n : f[k] = 2 * f[k - 1]

\* There are powers of two,
LEMMA PowersExist ==
  ASSUME NEW n \in Nat
  PROVE  \E f : PowersUpTo(f, n)
<1> DEFINE twice == [v \in Nat |-> 2 * v]
           E == [k \in 1 .. n |-> twice]
<1>1. StepsFrom(Nat, 1, n, E)
  BY DEF StepsFrom
<1>2. \A k \in 1 .. n : \A v \in Nat : E[k][v] = 2 * v
  OBVIOUS
<1> HIDE DEF E
<1>3. PICK f : Runs(f, Nat, 1, n, E)
  BY <1>1, Recursion
<1>4. f \in [0 .. n -> Nat] /\ f[0] = 1 /\ \A k \in 1 .. n : f[k] = E[k][f[k - 1]]
  BY <1>3 DEF Runs
<1>5. \A k \in 1 .. n : f[k] = 2 * f[k - 1]
  <2>1. \A k \in 1 .. n : f[k - 1] \in Nat
    BY <1>4
  <2>2. QED
    BY <1>2, <1>4, <2>1
<1>6. PowersUpTo(f, n)
  BY <1>4, <1>5 DEF PowersUpTo
<1>7. QED
  BY <1>6

\* and only one of each.
LEMMA PowersUnique ==
  ASSUME NEW m \in Nat, NEW n \in Nat, m <= n,
         NEW f, NEW g, PowersUpTo(f, m), PowersUpTo(g, n)
  PROVE  f[m] = g[m]
<1> DEFINE T == {k \in 0 .. m : f[k] = g[k]}
<1>1. 0 \in T
  BY DEF PowersUpTo
<1>2. \A k \in 1 .. m : k - 1 \in T => k \in T
  <2>1. ASSUME NEW k \in 1 .. m, f[k - 1] = g[k - 1] PROVE f[k] = g[k]
    BY <2>1 DEF PowersUpTo
  <2>2. QED
    BY <2>1
<1> HIDE DEF T
<1>3. 0 .. m \subseteq T
  BY <1>1, <1>2, RangeInduction
<1>4. QED
  BY <1>3 DEF T

\* Pow2 is what its equation says.
LEMMA PowersAre ==
  /\ Pow2[0] = 1
  /\ \A n \in Nat : Pow2[n] \in Nat \ {0} /\ Pow2[n + 1] = 2 * Pow2[n]
<1> DEFINE run(n) == CHOOSE f : PowersUpTo(f, n)
           p == [n \in Nat |-> run(n)[n]]
           IsPower(f) == f = [n \in Nat |-> IF n = 0 THEN 1 ELSE 2 * f[n - 1]]
           q == CHOOSE f : IsPower(f)
<1>1. \A n \in Nat : PowersUpTo(run(n), n)
  BY PowersExist
<1> HIDE DEF run
<1>2. p[0] = 1 /\ \A n \in Nat : p[n] \in Nat /\ p[n + 1] = 2 * p[n]
  <2>1. \A n \in Nat : p[n] = run(n)[n]
    OBVIOUS
  <2> HIDE DEF p
  <2>2. p[0] = 1
    BY <1>1, <2>1 DEF PowersUpTo
  <2>3. ASSUME NEW n \in Nat PROVE p[n] \in Nat /\ p[n + 1] = 2 * p[n]
    <3>1. p[n] = run(n)[n] /\ p[n + 1] = run(n + 1)[n + 1]
      BY <2>1
    <3>2. PowersUpTo(run(n), n) /\ PowersUpTo(run(n + 1), n + 1)
      BY <1>1
    <3>3. run(n)[n] = run(n + 1)[n]
      BY <3>2, PowersUnique
    <3>4. run(n + 1)[n + 1] = 2 * run(n + 1)[n] /\ run(n)[n] \in Nat
      BY <3>2 DEF PowersUpTo
    <3>5. QED
      BY <3>1, <3>3, <3>4
  <2>4. QED
    BY <2>2, <2>3
<1>3. IsPower(p)
  <2>1. \A n \in Nat : p[n] = IF n = 0 THEN 1 ELSE 2 * p[n - 1]
    <3>1. ASSUME NEW n \in Nat, n # 0 PROVE p[n] = 2 * p[n - 1]
      <4>1. n - 1 \in Nat /\ (n - 1) + 1 = n
        BY <3>1
      <4> HIDE DEF p
      <4>2. QED
        BY <1>2, <4>1
    <3> HIDE DEF p
    <3>2. QED
      BY <1>2, <3>1
  <2>2. QED
    BY <2>1
<1> HIDE DEF p
<1>4. IsPower(q)
  <2> HIDE DEF IsPower
  <2>1. QED
    BY <1>3
<1>5. Pow2 = q
  BY DEF Pow2
<1> HIDE DEF q
<1>6. \A n \in Nat : Pow2[n] = IF n = 0 THEN 1 ELSE 2 * Pow2[n - 1]
  BY <1>4, <1>5
<1>7. Pow2[0] = 1 /\ \A n \in Nat : Pow2[n + 1] = 2 * Pow2[n]
  <2>1. \A n \in Nat : n + 1 \in Nat /\ n + 1 # 0 /\ (n + 1) - 1 = n
    OBVIOUS
  <2>2. QED
    BY <1>6, <2>1
<1> DEFINE T == {n \in Nat : Pow2[n] \in Nat \ {0}}
<1>8. 0 \in T /\ \A n \in Nat : n \in T => n + 1 \in T
  BY <1>7
<1> HIDE DEF T
<1>9. Nat \subseteq T
  BY <1>8, NatInductionSet
<1>10. QED
  BY <1>7, <1>9 DEF T

\* Exponents add,
LEMMA PowersAdd ==
  ASSUME NEW m \in Nat, NEW n \in Nat
  PROVE  Pow2[m + n] = Pow2[m] * Pow2[n]
<1> DEFINE T == {k \in Nat : Pow2[m + k] = Pow2[m] * Pow2[k]}
<1>1. 0 \in T
  BY PowersAre
<1>2. ASSUME NEW k \in Nat, k \in T PROVE k + 1 \in T
  <2>1. Pow2[m + k] = Pow2[m] * Pow2[k]
    BY <1>2
  <2>2. /\ Pow2[(m + k) + 1] = 2 * Pow2[m + k] /\ Pow2[k + 1] = 2 * Pow2[k]
        /\ Pow2[m] \in Nat /\ Pow2[k] \in Nat
    BY PowersAre
  <2>3. Pow2[m + (k + 1)] = 2 * Pow2[m + k]
    BY <2>2
  <2>4. Pow2[m + (k + 1)] = Pow2[m] * Pow2[k + 1]
    BY <2>1, <2>2, <2>3
  <2>5. QED
    BY <2>4
<1> HIDE DEF T
<1>3. Nat \subseteq T
  BY <1>1, <1>2, NatInductionSet
<1>4. QED
  BY <1>3 DEF T

\* and the powers grow.
LEMMA PowersGrow ==
  ASSUME NEW m \in Nat, NEW n \in Nat, m <= n
  PROVE  Pow2[m] <= Pow2[n]
<1>1. n - m \in Nat /\ m + (n - m) = n
  OBVIOUS
<1>2. Pow2[n] = Pow2[m] * Pow2[n - m]
  BY <1>1, PowersAdd
<1>3. Pow2[m] \in Nat /\ Pow2[n - m] \in Nat \ {0}
  BY <1>1, PowersAre
<1>4. QED
  BY <1>2, <1>3

\* A product of naturals below two powers is below the power of the sum.
LEMMA ProductBelow ==
  ASSUME NEW a \in Nat, NEW b \in Nat, NEW m \in Nat, NEW n \in Nat,
         a <= Pow2[m], b <= Pow2[n]
  PROVE  a * b <= Pow2[m + n]
<1>1. Pow2[m + n] = Pow2[m] * Pow2[n] /\ Pow2[m] \in Nat /\ Pow2[n] \in Nat
  BY PowersAdd, PowersAre
<1>2. a * b <= a * Pow2[n]
  BY <1>1
<1>3. a * Pow2[n] <= Pow2[m] * Pow2[n]
  BY <1>1
<1>4. QED
  BY <1>1, <1>2, <1>3

-----------------------------------------------------------------------------
(* GainSearch: lengths and terms.                                          *)

\* A set of naturals that is bounded has a largest element.
LEMMA Largest ==
  ASSUME NEW S \in SUBSET Nat, S # {}, NEW u \in Nat, \A n \in S : n <= u
  PROVE  \E m \in S : \A n \in S : n <= m
<1> DEFINE T == {d \in Nat : u - d \in S}
<1>1. T # {} /\ T \in SUBSET Nat
  <2>1. PICK n \in S : TRUE
    OBVIOUS
  <2>2. n \in Nat /\ n <= u /\ u - n \in Nat /\ u - (u - n) = n
    BY <2>1
  <2>3. QED
    BY <2>1, <2>2
<1>2. PICK d \in T : \A e \in T : d <= e
  BY <1>1, NatLeast
<1>3. ASSUME NEW n \in S PROVE n <= u - d
  <2>1. n \in Nat /\ u - n \in Nat /\ u - (u - n) = n
    OBVIOUS
  <2>2. u - n \in T
    BY <1>3, <2>1
  <2>3. d <= u - n /\ d \in Nat
    BY <1>2, <2>2
  <2>4. QED
    BY <2>1, <2>3
<1>4. u - d \in S
  BY <1>2
<1>5. QED
  BY <1>3, <1>4

\* The constants are numbers, and a word holds five terms.
WordConstants ==
  /\ QGp \in Nat /\ QGamma \in Nat /\ QGc \in Nat /\ QZ \in Nat /\ CenterBits \in Nat
  /\ CostBits \in Nat /\ WordBits \in Nat
  /\ QGp >= QGc /\ CostBits + 5 <= WordBits

\* They are.
LEMMA WordConstantsAre == WordConstants
  BY GainSearchAssumption DEF WordConstants

\* A word, or its negative.
InWord(v) == v \in Int /\ v < Pow2[WordBits] /\ -v < Pow2[WordBits]

\* A word has a length, and is below the power of its length.
LEMMA BitLenIs ==
  ASSUME NEW v, InWord(v)
  PROVE  /\ BitLen(v) \in 0 .. WordBits
         /\ v < Pow2[BitLen(v)] /\ -v < Pow2[BitLen(v)]
<1> DEFINE T == {n \in Nat : v < Pow2[n] /\ -v < Pow2[n]}
           Is(n) == /\ v < Pow2[n] /\ -v < Pow2[n]
                    /\ n > 0 => v >= Pow2[n - 1] \/ -v >= Pow2[n - 1]
<1>1. WordBits \in T
  BY WordConstantsAre DEF WordConstants, InWord
<1>2. PICK n \in T : \A k \in T : n <= k
  BY <1>1, NatLeast
<1>3. n \in 0 .. WordBits
  BY <1>1, <1>2, WordConstantsAre DEF WordConstants
<1>4. ASSUME n > 0 PROVE v >= Pow2[n - 1] \/ -v >= Pow2[n - 1]
  <2>1. n - 1 \in Nat /\ ~(n <= n - 1)
    BY <1>4
  <2>2. n - 1 \notin T
    BY <1>2, <2>1
  <2>3. Pow2[n - 1] \in Nat /\ v \in Int
    BY <2>1, PowersAre DEF InWord
  <2>4. QED
    BY <2>1, <2>2, <2>3
<1>5. Is(n)
  BY <1>2, <1>4
<1>6. BitLen(v) = CHOOSE k \in 0 .. WordBits : Is(k)
  BY DEF BitLen
<1> HIDE DEF Is
<1>7. BitLen(v) \in 0 .. WordBits /\ Is(BitLen(v))
  BY <1>3, <1>5, <1>6
<1>8. QED
  BY <1>7 DEF Is

\* A shift keeps the sign and leaves the bits above it, or -1.
LEMMA QuotientIs ==
  ASSUME NEW c \in Int, NEW s \in Nat, NEW n \in Nat, c < Pow2[n], -c < Pow2[n]
  PROVE  LET q == c \div Pow2[s]
         IN  /\ q \in Int
             /\ c >= 0 => q >= 0
             /\ s <= n => q <= Pow2[n - s] /\ -q <= Pow2[n - s]
             /\ s > n => q \in {-1, 0}
<1> DEFINE q == c \div Pow2[s]
           d == Pow2[s]
<1>1. d \in Nat \ {0} /\ Pow2[n] \in Nat \ {0}
  BY PowersAre
<1>2. q \in Int /\ d * q <= c /\ c < d * q + d
  <2> HIDE DEF d
  <2>1. c \div d \in Int /\ d * (c \div d) <= c /\ c < d * (c \div d) + d
    BY <1>1
  <2>2. QED
    BY <2>1 DEF d
<1> HIDE DEF q, d
<1>3. c >= 0 => q >= 0
  <2>1. SUFFICES ASSUME c >= 0, q <= -1 PROVE FALSE
    BY <1>2
  <2>2. d * q <= -d
    BY <1>1, <1>2, <2>1
  <2>3. QED
    BY <1>1, <1>2, <2>1, <2>2
<1>4. ASSUME s <= n PROVE q <= Pow2[n - s] /\ -q <= Pow2[n - s]
  <2> DEFINE e == Pow2[n - s]
  <2>1. n - s \in Nat /\ s + (n - s) = n
    BY <1>4
  <2>2. Pow2[n] = d * e /\ e \in Nat \ {0}
    <3>1. Pow2[s + (n - s)] = Pow2[s] * Pow2[n - s]
      BY <2>1, PowersAdd
    <3>2. QED
      BY <2>1, <3>1, PowersAre DEF d
  <2> HIDE DEF e
  <2>3. q <= e
    <3>1. SUFFICES ASSUME q >= e + 1 PROVE FALSE
      BY <1>2, <2>2
    <3>2. d * q >= d * (e + 1)
      BY <1>1, <1>2, <2>2, <3>1
    <3>3. QED
      BY <1>1, <1>2, <2>2, <3>2
  <2>4. -q <= e
    <3>1. SUFFICES ASSUME q <= -e - 1 PROVE FALSE
      BY <1>2, <2>2
    <3>2. d * q <= d * (-e - 1)
      BY <1>1, <1>2, <2>2, <3>1
    <3>3. QED
      BY <1>1, <1>2, <2>2, <3>2
  <2>5. QED
    BY <2>3, <2>4 DEF e
<1>5. ASSUME s > n PROVE q \in {-1, 0}
  <2>1. Pow2[n] <= d
    BY <1>5, PowersGrow DEF d
  <2>2. q <= 0
    <3>1. SUFFICES ASSUME q >= 1 PROVE FALSE
      BY <1>2
    <3>2. d * q >= d
      BY <1>1, <1>2, <3>1
    <3>3. QED
      BY <1>1, <1>2, <2>1, <3>2
  <2>3. q >= -1
    <3>1. SUFFICES ASSUME q <= -2 PROVE FALSE
      BY <1>2
    <3>2. d * q <= d * (-2)
      BY <1>1, <1>2, <3>1
    <3>3. QED
      BY <1>1, <1>2, <2>1, <3>2
  <2>4. QED
    BY <1>2, <2>2, <2>3
<1>6. QED
  BY <1>2, <1>3, <1>4, <1>5 DEF q

\* A term has a weight of so many bits, more than which the shift was chosen for.
LEMMA TermFits ==
  ASSUME NEW c, InWord(c), NEW w \in Nat, NEW bits \in Nat, NEW extra \in Nat,
         NEW s \in Nat, s >= TermShift(c, bits, extra),
         w <= Pow2[bits + extra], c >= 0 \/ w <= Pow2[CostBits]
  PROVE  LET t == w * (c \div Pow2[s])
         IN  t \in Int /\ t <= Pow2[CostBits] /\ -t <= Pow2[CostBits]
<1> DEFINE q == c \div Pow2[s]
           n == BitLen(c)
           P == Pow2[CostBits]
<1>1. n \in Nat /\ c \in Int /\ c < Pow2[n] /\ -c < Pow2[n] /\ CostBits \in Nat
  BY BitLenIs, WordConstantsAre DEF InWord, WordConstants
<1>2. /\ q \in Int
      /\ c >= 0 => q >= 0
      /\ s <= n => q <= Pow2[n - s] /\ -q <= Pow2[n - s]
      /\ s > n => q \in {-1, 0}
  <2> HIDE DEF n
  <2>1. QED
    BY <1>1, QuotientIs
<1>3. P \in Nat
  BY <1>1, PowersAre
<1>4. TermShift(c, bits, extra)
        = IF c = 0 THEN 0 ELSE Positive(n + bits + extra - CostBits)
  BY DEF TermShift
<1>5. c = 0 => q = 0
  <2>1. Pow2[s] \in Nat \ {0}
    BY PowersAre
  <2>2. 0 \div Pow2[s] = 0
    BY <2>1
  <2>3. QED
    BY <2>2
<1> HIDE DEF n, q, P
<1>6. w * q \in Int
  BY <1>2
<1>7. CASE c = 0
  <2>1. w * q = 0
    BY <1>5, <1>7
  <2>2. QED
    BY <1>3, <2>1 DEF P, q
<1>8. CASE c # 0 /\ s <= n
  <2>1. s >= n + bits + extra - CostBits
    BY <1>1, <1>4, <1>8 DEF Positive, Larger2
  <2> DEFINE e == bits + extra
             k == n - s
  <2>2. e \in Nat /\ k \in Nat /\ e + k \in Nat /\ e + k <= CostBits
    BY <1>1, <1>8, <2>1
  <2>3. w <= Pow2[e] /\ q <= Pow2[k] /\ -q <= Pow2[k]
    BY <1>2, <1>8
  <2> HIDE DEF e, k
  <2>4. Pow2[e + k] <= P
    BY <1>1, <2>2, PowersGrow DEF P
  <2>5. CASE q >= 0
    <3>1. w * q <= Pow2[e + k]
      BY <1>2, <2>2, <2>3, <2>5, ProductBelow
    <3>2. w * q >= 0
      BY <1>2, <2>5
    <3>3. QED
      BY <1>3, <1>6, <2>2, <2>4, <3>1, <3>2, PowersAre DEF P, q
  <2>6. CASE q < 0
    <3>1. w * (-q) <= Pow2[e + k]
      BY <1>2, <2>2, <2>3, <2>6, ProductBelow
    <3>2. w * (-q) = -(w * q) /\ w * (-q) >= 0
      BY <1>2, <2>6
    <3>3. Pow2[e + k] \in Nat
      BY <2>2, PowersAre
    <3> DEFINE t == w * q
    <3>4. t \in Int /\ -t <= Pow2[e + k] /\ t <= 0
      BY <1>6, <3>1, <3>2
    <3> HIDE DEF t
    <3>5. t <= P /\ -t <= P
      BY <1>3, <2>4, <3>3, <3>4
    <3>6. QED
      BY <1>6, <3>5 DEF P, q, t
  <2>7. QED
    BY <1>2, <2>5, <2>6
<1>9. CASE c # 0 /\ s > n
  <2>1. q = 0 \/ (q = -1 /\ c < 0)
    BY <1>1, <1>2, <1>9
  <2>2. CASE q = 0
    <3>1. w * q = 0
      BY <2>2
    <3>2. QED
      BY <1>3, <3>1 DEF P, q
  <2>3. CASE q = -1 /\ c < 0
    <3>1. w * q = -w /\ w <= P
      BY <1>1, <2>3 DEF P
    <3> DEFINE t == w * q
    <3>2. t = -w
      BY <3>1
    <3> HIDE DEF t
    <3>3. t <= P /\ -t <= P
      BY <1>3, <3>1, <3>2
    <3>4. QED
      BY <1>6, <3>3 DEF P, q, t
  <2>4. QED
    BY <2>1, <2>2, <2>3
<1>10. QED
  BY <1>1, <1>7, <1>8, <1>9

-----------------------------------------------------------------------------
(* GainSearch: what is searched among.                                     *)

\* An inner product is a number, that of a vector with itself a natural one.
LEMMA DotIs ==
  ASSUME NEW a \in Seq(Int), NEW b \in Seq(Int), Len(a) = Len(b)
  PROVE  /\ Dot(a, b) \in Int
         /\ a = b => Dot(a, b) \in Nat
<1> DEFINE n == Len(a)
           x == [i \in 1 .. n |-> a[i] * b[i]]
           IsSum(f) == f = [i \in 0 .. n |-> IF i = 0 THEN 0 ELSE f[i - 1] + a[i] * b[i]]
           g == CHOOSE f : IsSum(f)
<1>1. n \in Nat /\ \A i \in 1 .. n : a[i] \in Int /\ b[i] \in Int
  OBVIOUS
<1>2. \A i \in 1 .. n : x[i] \in Int /\ x[i] = a[i] * b[i]
  BY <1>1
<1> HIDE DEF x
<1>3. PICK f \in [0 .. n -> Int] : f[0] = 0 /\ \A i \in 1 .. n : f[i] = f[i - 1] + x[i]
  BY <1>1, <1>2, Sums
<1>4. IsSum(f)
  <2>1. \A i \in 0 .. n : f[i] = IF i = 0 THEN 0 ELSE f[i - 1] + a[i] * b[i]
    BY <1>1, <1>2, <1>3
  <2>2. QED
    BY <1>3, <2>1
<1>5. IsSum(g)
  <2> HIDE DEF IsSum
  <2>1. QED
    BY <1>4
<1>6. Dot(a, b) = g[n]
  BY DEF Dot
<1> HIDE DEF g
<1>7. \A i \in 0 .. n : g[i] = IF i = 0 THEN 0 ELSE g[i - 1] + a[i] * b[i]
  BY <1>5
<1> HIDE DEF n
<1> DEFINE T == {i \in 0 .. n : g[i] \in Int /\ (a = b => g[i] \in Nat)}
<1>8. 0 \in T
  BY <1>1, <1>7
<1>9. ASSUME NEW i \in 1 .. n, i - 1 \in T PROVE i \in T
  <2>1. g[i] = g[i - 1] + a[i] * b[i] /\ a[i] \in Int /\ b[i] \in Int /\ i \in 0 .. n
    BY <1>1, <1>7
  <2>2. g[i - 1] \in Int /\ (a = b => g[i - 1] \in Nat)
    BY <1>9
  <2>3. a = b => a[i] * b[i] \in Nat
    <3>1. \A e \in Int : e * e \in Nat
      OBVIOUS
    <3>2. QED
      BY <2>1, <3>1
  <2>4. a[i] * b[i] \in Int
    BY <2>1
  <2>5. g[i] \in Int /\ (a = b => g[i] \in Nat)
    BY <2>1, <2>2, <2>3, <2>4
  <2>6. QED
    BY <2>1, <2>5
<1> HIDE DEF T
<1>10. 0 .. n \subseteq T
  BY <1>1, <1>8, <1>9, RangeInduction
<1>11. n \in T
  BY <1>1, <1>10
<1>12. QED
  BY <1>6, <1>11 DEF T

\* The correlations of a subframe.
Correlated(r) ==
  /\ r = [a |-> r.a, b |-> r.b, c |-> r.c, d |-> r.d, f |-> r.f]
  /\ InWord(r.a) /\ InWord(r.b) /\ InWord(r.c) /\ InWord(r.d) /\ InWord(r.f)
  /\ r.a >= 0 /\ r.b >= 0

\* They are words, and the energies are not negative.
LEMMA CorrelationsAre ==
  ASSUME NEW v \in Vectors
  PROVE  Correlated(Correlations(v))
<1> DEFINE r == Correlations(v)
<1>1. /\ v.x \in Seq(Int) /\ v.y \in Seq(Int) /\ v.z \in Seq(Int)
      /\ Len(v.x) = Len(v.y) /\ Len(v.z) = Len(v.y)
  BY GainSearchAssumption
<1>2. /\ Dot(v.y, v.y) \in Nat /\ Dot(v.z, v.z) \in Nat /\ Dot(v.y, v.z) \in Int
      /\ Dot(v.x, v.y) \in Int /\ Dot(v.x, v.z) \in Int
  BY <1>1, DotIs
<1>3. Pow2[2 * QZ] \in Nat /\ Pow2[QZ] \in Nat
  BY WordConstantsAre, PowersAre DEF WordConstants
<1>4. /\ r = [a |-> r.a, b |-> r.b, c |-> r.c, d |-> r.d, f |-> r.f]
      /\ r.a = Dot(v.y, v.y) * Pow2[2 * QZ] /\ r.b = Dot(v.z, v.z)
      /\ r.c = Dot(v.y, v.z) * Pow2[QZ] /\ r.d = Dot(v.x, v.y) * Pow2[2 * QZ]
      /\ r.f = Dot(v.x, v.z) * Pow2[QZ]
  BY DEF Correlations
<1>5. r.a \in Nat /\ r.b \in Nat /\ r.c \in Int /\ r.d \in Int /\ r.f \in Int
  BY <1>2, <1>3, <1>4
<1>6. \A k \in {"a", "b", "c", "d", "f"} :
        r[k] \in -Pow2[WordBits - 1] .. Pow2[WordBits - 1] - 1
  BY WordAssumption
<1> HIDE DEF r
<1> DEFINE half == Pow2[WordBits - 1]
<1>7. half \in Nat \ {0} /\ Pow2[WordBits] = 2 * half
  <2>1. WordBits - 1 \in Nat /\ (WordBits - 1) + 1 = WordBits
    BY WordConstantsAre DEF WordConstants
  <2>2. QED
    BY <2>1, PowersAre
<1>8. /\ r.a \in -half .. half - 1 /\ r.b \in -half .. half - 1 /\ r.c \in -half .. half - 1
      /\ r.d \in -half .. half - 1 /\ r.f \in -half .. half - 1
  BY <1>6
<1> HIDE DEF half
<1>9. \A e \in -half .. half - 1 : InWord(e)
  BY <1>7 DEF InWord
<1>10. Correlated(r)
  BY <1>4, <1>5, <1>8, <1>9 DEF Correlated
<1>11. QED
  BY <1>10 DEF r

\* The nearest so many of a list are entries of it.
LEMMA NearestAre ==
  ASSUME NEW N \in Nat, NEW n \in Nat, n <= N, NEW distance,
         DOMAIN distance = 1 .. N, \A i \in 1 .. N : distance[i] \in Int
  PROVE  Nearest(n, distance) \in [1 .. n -> 1 .. N]
<1> DEFINE D == 1 .. N
           before(i, j) == distance[i] < distance[j] \/ (distance[i] = distance[j] /\ i < j)
           ahead(j) == {i \in D : before(i, j)}
           rank == [j \in D |-> Cardinality(ahead(j))]
<1>1. \A i, j, k \in D : before(i, j) /\ before(j, k) => before(i, k)
  <2> SUFFICES ASSUME NEW i \in D, NEW j \in D, NEW k \in D, before(i, j), before(j, k)
               PROVE  before(i, k)
    OBVIOUS
  <2>1. distance[i] \in Int /\ distance[j] \in Int /\ distance[k] \in Int
    OBVIOUS
  <2>2. QED
    BY <2>1
<1>2. \A i \in D : ~before(i, i)
  OBVIOUS
<1>3. \A i, j \in D : i # j => before(i, j) \/ before(j, i)
  <2> SUFFICES ASSUME NEW i \in D, NEW j \in D, i # j PROVE before(i, j) \/ before(j, i)
    OBVIOUS
  <2>1. distance[i] \in Int /\ distance[j] \in Int
    OBVIOUS
  <2>2. QED
    BY <2>1
<1> HIDE DEF before
<1>4. IsFiniteSet(D) /\ Cardinality(D) = N
  BY FS_Interval
<1>5. \A j \in D : ahead(j) \subseteq D /\ j \notin ahead(j)
  BY <1>2
<1>6. \A j \in D : IsFiniteSet(ahead(j)) /\ Cardinality(ahead(j)) \in Nat
                   /\ Cardinality(ahead(j)) <= N - 1
  <2> SUFFICES ASSUME NEW j \in D
               PROVE  IsFiniteSet(ahead(j)) /\ Cardinality(ahead(j)) \in Nat
                      /\ Cardinality(ahead(j)) <= N - 1
    OBVIOUS
  <2>1. ahead(j) \subseteq D /\ ahead(j) # D
    BY <1>5
  <2> HIDE DEF ahead
  <2>2. /\ IsFiniteSet(ahead(j)) /\ Cardinality(ahead(j)) <= Cardinality(D)
        /\ Cardinality(D) = Cardinality(ahead(j)) => D = ahead(j)
    BY <1>4, <2>1, FS_Subset
  <2>3. Cardinality(ahead(j)) \in Nat
    BY <2>2, FS_CardinalityType
  <2>4. QED
    BY <1>4, <2>1, <2>2, <2>3
<1>7. \A i, j \in D : before(i, j) => Cardinality(ahead(i)) < Cardinality(ahead(j))
  <2> SUFFICES ASSUME NEW i \in D, NEW j \in D, before(i, j)
               PROVE  Cardinality(ahead(i)) < Cardinality(ahead(j))
    OBVIOUS
  <2>1. ahead(i) \subseteq ahead(j)
    BY <1>1
  <2>2. i \in ahead(j) /\ i \notin ahead(i)
    BY <1>2
  <2> HIDE DEF ahead
  <2>3. /\ Cardinality(ahead(i)) <= Cardinality(ahead(j))
        /\ Cardinality(ahead(j)) = Cardinality(ahead(i)) => ahead(j) = ahead(i)
    BY <1>6, <2>1, FS_Subset
  <2>4. QED
    BY <1>6, <2>2, <2>3
<1> HIDE DEF ahead
<1>8. rank \in [D -> 0 .. N - 1]
  BY <1>6
<1>9. \A i, j \in D : rank[i] = rank[j] => i = j
  <2> SUFFICES ASSUME NEW i \in D, NEW j \in D, i # j PROVE rank[i] # rank[j]
    OBVIOUS
  <2>1. \/ Cardinality(ahead(i)) < Cardinality(ahead(j))
        \/ Cardinality(ahead(j)) < Cardinality(ahead(i))
    BY <1>3, <1>7
  <2>2. QED
    BY <1>6, <2>1
<1> HIDE DEF rank
<1>10. rank \in Injection(D, 0 .. N - 1)
  BY <1>8, <1>9 DEF Injection, IsInjective
<1>11. IsFiniteSet(0 .. N - 1) /\ Cardinality(0 .. N - 1) = N
  BY FS_Interval
<1>12. rank \in Surjection(D, 0 .. N - 1)
  BY <1>4, <1>10, <1>11, FS_Injection
<1>13. \A k \in 1 .. n : \E j \in D : Cardinality(ahead(j)) = k - 1
  <2> SUFFICES ASSUME NEW k \in 1 .. n PROVE \E j \in D : Cardinality(ahead(j)) = k - 1
    OBVIOUS
  <2>1. k - 1 \in 0 .. N - 1
    OBVIOUS
  <2>2. PICK j \in D : rank[j] = k - 1
    BY <1>12, <2>1 DEF Surjection
  <2>3. QED
    BY <2>2 DEF rank
<1>14. Nearest(n, distance) = [k \in 1 .. n |-> CHOOSE j \in D : Cardinality(ahead(j)) = k - 1]
  BY DEF Nearest, ahead, before
<1>15. \A k \in 1 .. n : (CHOOSE j \in D : Cardinality(ahead(j)) = k - 1) \in D
  BY <1>13
<1>16. QED
  BY <1>14, <1>15

\* What is kept of the correlations.
LEMMA ShiftedIs ==
  ASSUME NEW r, Correlated(r), NEW n \in Nat
  PROVE  LET q == ShiftedDown(r, n)
         IN  /\ q.a = r.a \div Pow2[n] /\ q.b = r.b \div Pow2[n] /\ q.c = r.c \div Pow2[n]
             /\ q.d = r.d \div Pow2[n] /\ q.f = r.f \div Pow2[n]
             /\ q.a \in Int /\ q.b \in Int /\ q.c \in Int /\ q.d \in Int /\ q.f \in Int
<1>1. DOMAIN r = {"a", "b", "c", "d", "f"}
  <2>1. r = [a |-> r.a, b |-> r.b, c |-> r.c, d |-> r.d, f |-> r.f]
    BY DEF Correlated
  <2>2. \A u, v, w, y, z : DOMAIN [a |-> u, b |-> v, c |-> w, d |-> y, f |-> z]
                             = {"a", "b", "c", "d", "f"}
    OBVIOUS
  <2>3. QED
    BY <2>1, <2>2
<1>2. r.a \in Int /\ r.b \in Int /\ r.c \in Int /\ r.d \in Int /\ r.f \in Int
  BY DEF Correlated, InWord
<1>3. Pow2[n] \in Nat \ {0}
  BY PowersAre
<1> DEFINE e == Pow2[n]
           q == [k \in {"a", "b", "c", "d", "f"} |-> r[k] \div e]
<1>4. ShiftedDown(r, n) = q
  BY <1>1 DEF ShiftedDown
<1> HIDE DEF e
<1>5. /\ q.a = r.a \div e /\ q.b = r.b \div e /\ q.c = r.c \div e
      /\ q.d = r.d \div e /\ q.f = r.f \div e
  OBVIOUS
<1>6. \A v \in Int : v \div e \in Int
  BY <1>3 DEF e
<1>7. q.a \in Int /\ q.b \in Int /\ q.c \in Int /\ q.d \in Int /\ q.f \in Int
  BY <1>2, <1>5, <1>6
<1> HIDE DEF q
<1>8. QED
  BY <1>4, <1>5, <1>7 DEF e

\* A quotient that is cut towards zero is a number.
LEMMA DividedIs ==
  ASSUME NEW n \in Int, NEW d \in Int, d > 0
  PROVE  DividedBy(n, d) \in Int
<1>1. n \div d \in Int /\ (-n) \div d \in Int
  OBVIOUS
<1>2. QED
  BY <1>1 DEF DividedBy

\* The optimum is a pair of naturals, whatever the determinant.
LEMMA OptimumIs ==
  ASSUME NEW r, r.a \in Int, r.b \in Int, r.c \in Int, r.d \in Int, r.f \in Int
  PROVE  Optimum(r).gp \in Nat /\ Optimum(r).gc \in Nat
<1> DEFINE det == r.a * r.b - r.c * r.c
           np == (r.d * r.b - r.f * r.c) * Pow2[QGp]
           nc == (r.f * r.a - r.d * r.c) * Pow2[QGc]
           dp == r.d * Pow2[QGp]
           fc == r.f * Pow2[QGc]
           gp == CASE det > 0 -> DividedBy(np, det)
                   [] det <= 0 /\ r.a > 0 -> DividedBy(dp, r.a)
                   [] OTHER -> 0
           gc == CASE det > 0 -> DividedBy(nc, det)
                   [] det <= 0 /\ r.a <= 0 /\ r.b > 0 -> DividedBy(fc, r.b)
                   [] OTHER -> 0
<1>1. Pow2[QGp] \in Int /\ Pow2[QGc] \in Int
  BY WordConstantsAre, PowersAre DEF WordConstants
<1>2. det \in Int /\ np \in Int /\ nc \in Int /\ dp \in Int /\ fc \in Int
  BY <1>1
<1>3. Optimum(r) = [gp |-> Positive(gp), gc |-> Positive(gc)]
  BY DEF Optimum
<1> HIDE DEF det, np, nc, dp, fc
<1>4. gp \in Int
  <2>1. CASE det > 0
    BY <1>2, <2>1, DividedIs
  <2>2. CASE det <= 0 /\ r.a > 0
    BY <1>2, <2>2, DividedIs
  <2>3. CASE ~(det > 0) /\ ~(det <= 0 /\ r.a > 0)
    BY <2>3
  <2>4. QED
    BY <2>1, <2>2, <2>3
<1>5. gc \in Int
  <2>1. CASE det > 0
    BY <1>2, <2>1, DividedIs
  <2>2. CASE det <= 0 /\ r.a <= 0 /\ r.b > 0
    BY <1>2, <2>2, DividedIs
  <2>3. CASE ~(det > 0) /\ ~(det <= 0 /\ r.a <= 0 /\ r.b > 0)
    BY <2>3
  <2>4. QED
    BY <2>1, <2>2, <2>3
<1> HIDE DEF gp, gc
<1>6. QED
  BY <1>3, <1>4, <1>5 DEF Positive, Larger2

\* So is the centre of the preselection.
LEMMA CenterIs ==
  ASSUME NEW r, Correlated(r), NEW float
  PROVE  Center(r, float).gp \in Nat /\ Center(r, float).gc \in Nat
<1> DEFINE K == {"a", "b", "c", "d", "f"}
           V == {r[k] : k \in DOMAIN r}
           m == CHOOSE e \in V : \A k \in DOMAIN r : BitLen(r[k]) <= BitLen(e)
           cut == IF float THEN 0 ELSE Positive(BitLen(m) - CenterBits)
<1>1. DOMAIN r = K /\ \A k \in K : InWord(r[k])
  <2>1. r = [a |-> r.a, b |-> r.b, c |-> r.c, d |-> r.d, f |-> r.f]
    BY DEF Correlated
  <2>2. \A u, v, w, y, z : DOMAIN [a |-> u, b |-> v, c |-> w, d |-> y, f |-> z] = K
    OBVIOUS
  <2>3. DOMAIN r = K
    BY <2>1, <2>2
  <2>4. QED
    BY <2>3 DEF Correlated
<1>2. m \in V
  <2> DEFINE L == {BitLen(r[k]) : k \in K}
  <2>1. L \in SUBSET Nat /\ L # {} /\ \A n \in L : n <= WordBits
    BY <1>1, BitLenIs, WordConstantsAre DEF WordConstants
  <2>2. \E n \in L : \A o \in L : o <= n
    <3> HIDE DEF L
    <3>1. QED
      BY <2>1, Largest, WordConstantsAre DEF WordConstants
  <2>3. \E e \in V : \A k \in DOMAIN r : BitLen(r[k]) <= BitLen(e)
    BY <1>1, <2>2
  <2> HIDE DEF V
  <2>4. QED
    BY <2>3
<1>3. cut \in Nat
  <2>1. InWord(m)
    BY <1>1, <1>2
  <2> HIDE DEF m
  <2>2. BitLen(m) \in Nat /\ CenterBits \in Nat
    BY <2>1, BitLenIs, WordConstantsAre DEF WordConstants
  <2>3. QED
    BY <2>2 DEF Positive, Larger2
<1>4. Center(r, float) = Optimum(ShiftedDown(r, cut))
  BY DEF Center
<1> HIDE DEF cut
<1> DEFINE q == ShiftedDown(r, cut)
<1>5. q.a \in Int /\ q.b \in Int /\ q.c \in Int /\ q.d \in Int /\ q.f \in Int
  BY <1>3, ShiftedIs
<1> HIDE DEF q
<1>6. Optimum(q).gp \in Nat /\ Optimum(q).gc \in Nat
  BY <1>5, OptimumIs
<1>7. QED
  BY <1>4, <1>6 DEF q

\* The entries of the codebooks are naturals.
LEMMA RowsAre ==
  /\ Len(GBK1) \in Nat /\ Len(GBK2) \in Nat
  /\ DOMAIN GBK1 = 1 .. Len(GBK1) /\ DOMAIN GBK2 = 1 .. Len(GBK2)
  /\ \A i \in DOMAIN GBK1 : GBK1[i].gp \in Nat /\ GBK1[i].gamma \in Nat
  /\ \A j \in DOMAIN GBK2 : GBK2[j].gp \in Nat /\ GBK2[j].gamma \in Nat
<1> DEFINE Row == [gp : Nat, gamma : Nat]
<1>1. \A e \in Row : e.gp \in Nat /\ e.gamma \in Nat
  OBVIOUS
<1>2. GBK1 \in Seq(Row) /\ GBK2 \in Seq(Row)
  BY GainSearchAssumption
<1> HIDE DEF Row
<1>3. /\ Len(GBK1) \in Nat /\ Len(GBK2) \in Nat
      /\ DOMAIN GBK1 = 1 .. Len(GBK1) /\ DOMAIN GBK2 = 1 .. Len(GBK2)
      /\ \A i \in DOMAIN GBK1 : GBK1[i] \in Row
      /\ \A j \in DOMAIN GBK2 : GBK2[j] \in Row
  BY <1>2
<1>4. QED
  BY <1>1, <1>3

\* The pairs of the two codebooks.
PairsOf == {<<i, j>> : i \in DOMAIN GBK1, j \in DOMAIN GBK2}

\* The pairs preselected are of the codebook, and there is one.
LEMMA PreselectedAre ==
  ASSUME NEW center, center.gp \in Int, center.gc \in Int, NEW p \in Nat
  PROVE  LET pairs == Preselected(center, p)
         IN  /\ pairs \in Seq(PairsOf) /\ DOMAIN pairs = 1 .. Len(pairs)
             /\ Len(pairs) \in Nat \ {0}
<1> DEFINE dA == [i \in DOMAIN GBK1 |-> Distance(Scaled(GBK1[i].gamma, p), center.gc)]
           dB == [j \in DOMAIN GBK2 |-> Distance(GBK2[j].gp, center.gp)]
           ga == Nearest(KeptGA, dA)
           gb == Nearest(KeptGB, dB)
           n == KeptGA * KeptGB
<1>1. /\ Len(GBK1) \in Nat /\ Len(GBK2) \in Nat
      /\ DOMAIN GBK1 = 1 .. Len(GBK1) /\ DOMAIN GBK2 = 1 .. Len(GBK2)
      /\ \A i \in DOMAIN GBK1 : GBK1[i].gamma \in Nat
      /\ \A j \in DOMAIN GBK2 : GBK2[j].gp \in Nat
  BY RowsAre
<1>2. /\ KeptGA \in Nat \ {0} /\ KeptGB \in Nat \ {0}
      /\ KeptGA <= Len(GBK1) /\ KeptGB <= Len(GBK2)
  <2>1. KeptGA \in 1 .. Len(GBK1) /\ KeptGB \in 1 .. Len(GBK2)
    BY GainSearchAssumption
  <2>2. QED
    BY <1>1, <2>1
<1>3. ga \in [1 .. KeptGA -> DOMAIN GBK1]
  <2>1. Pow2[QGamma] \in Nat \ {0}
    BY WordConstantsAre, PowersAre DEF WordConstants
  <2>2. \A g \in Nat : Scaled(g, p) \in Int
    <3>1. \A v \in Int : v \div Pow2[QGamma] \in Int
      BY <2>1
    <3>2. QED
      BY <3>1 DEF Scaled
  <2>3. DOMAIN dA = 1 .. Len(GBK1) /\ \A i \in 1 .. Len(GBK1) : dA[i] \in Int
    BY <1>1, <2>2 DEF Distance
  <2> HIDE DEF dA
  <2>4. QED
    BY <1>1, <1>2, <2>3, NearestAre
<1>4. gb \in [1 .. KeptGB -> DOMAIN GBK2]
  <2>1. DOMAIN dB = 1 .. Len(GBK2) /\ \A j \in 1 .. Len(GBK2) : dB[j] \in Int
    BY <1>1 DEF Distance
  <2> HIDE DEF dB
  <2>2. QED
    BY <1>1, <1>2, <2>1, NearestAre
<1> DEFINE at(k) == <<ga[(k - 1) \div KeptGB + 1], gb[((k - 1) % KeptGB) + 1]>>
<1>5. Preselected(center, p) = [k \in 1 .. n |-> at(k)]
  BY DEF Preselected
<1> HIDE DEF ga, gb
<1>6. n \in Nat \ {0} /\ KeptGA \in Nat \ {0} /\ KeptGB \in Nat \ {0}
  BY <1>2
<1>7. ASSUME NEW k \in 1 .. n PROVE at(k) \in PairsOf
  <2> DEFINE q == (k - 1) \div KeptGB
             r == (k - 1) % KeptGB
  <2>1. q \in Nat /\ KeptGB * q <= k - 1 /\ r \in 0 .. KeptGB - 1
    BY <1>6, DivBounds
  <2> HIDE DEF q, r
  <2>2. q + 1 \in 1 .. KeptGA
    <3>1. SUFFICES ASSUME q >= KeptGA PROVE FALSE
      BY <1>6, <2>1
    <3>2. KeptGB * q >= KeptGB * KeptGA
      BY <1>6, <2>1, <3>1
    <3>3. QED
      BY <1>6, <2>1, <3>2
  <2>3. r + 1 \in 1 .. KeptGB
    BY <1>6, <2>1
  <2>4. ga[q + 1] \in DOMAIN GBK1 /\ gb[r + 1] \in DOMAIN GBK2
    BY <1>3, <1>4, <2>2, <2>3
  <2>5. <<ga[q + 1], gb[r + 1]>> \in PairsOf
    BY <2>4 DEF PairsOf
  <2>6. QED
    BY <2>5 DEF q, r
<1> HIDE DEF at, n
<1> DEFINE pairs == [k \in 1 .. n |-> at(k)]
<1>8. pairs \in Seq(PairsOf) /\ Len(pairs) = n /\ DOMAIN pairs = 1 .. n
  BY <1>6, <1>7
<1> HIDE DEF pairs
<1>9. QED
  BY <1>5, <1>6, <1>8 DEF pairs

-----------------------------------------------------------------------------
(* GainSearch: the costs.                                                  *)

\* The gains of a pair are naturals, small enough for a correlation of -1.
LEMMA GainsAre ==
  ASSUME NEW pair \in PairsOf, NEW p \in Predictions
  PROVE  LET gp == PairGp(pair)
             gc == PairGc(pair, p)
         IN  /\ gp \in Nat /\ gc \in Nat /\ InWord(gp) /\ InWord(gc)
             /\ 2 * gp * gc * Pow2[QGp - QGc] <= Pow2[CostBits]
             /\ 2 * gp * Pow2[QGp] <= Pow2[CostBits]
             /\ 2 * gc * Pow2[2 * QGp - QGc] <= Pow2[CostBits]
<1> DEFINE gp == PairGp(pair)
           gc == PairGc(pair, p)
<1>1. PICK i \in DOMAIN GBK1, j \in DOMAIN GBK2 : pair = <<i, j>>
  BY DEF PairsOf
<1>2. p \in Nat
  BY GainSearchAssumption
<1>3. /\ GBK1[i].gp \in Nat /\ GBK1[i].gamma \in Nat
      /\ GBK2[j].gp \in Nat /\ GBK2[j].gamma \in Nat
  BY <1>1, RowsAre
<1>4. gp = GBK1[i].gp + GBK2[j].gp
  BY <1>1 DEF PairGp
<1>5. gp \in Nat
  BY <1>2, <1>3, <1>4
<1>6. gc = Scaled(GBK1[i].gamma + GBK2[j].gamma, p)
  BY <1>1 DEF PairGc
<1>7. gc \in Nat
  <2>1. Pow2[QGamma] \in Nat \ {0}
    BY WordConstantsAre, PowersAre DEF WordConstants
  <2>2. \A v \in Nat : v \div Pow2[QGamma] \in Nat
    BY <2>1, DivBounds
  <2>3. (GBK1[i].gamma + GBK2[j].gamma) * p \in Nat
    BY <1>2, <1>3
  <2>4. QED
    BY <1>6, <2>2, <2>3 DEF Scaled
<1>8. /\ 2 * gp * gc * Pow2[QGp - QGc] <= Pow2[CostBits]
      /\ 2 * gp * Pow2[QGp] <= Pow2[CostBits]
      /\ 2 * gc * Pow2[2 * QGp - QGc] <= Pow2[CostBits]
  BY <1>1, WordAssumption
<1> HIDE DEF gp, gc
<1>9. \A v \in Nat, w \in Nat \ {0} : 2 * v * w <= Pow2[CostBits] => InWord(v)
  <2> SUFFICES ASSUME NEW v \in Nat, NEW w \in Nat \ {0}, 2 * v * w <= Pow2[CostBits]
               PROVE  InWord(v)
    OBVIOUS
  <2>1. Pow2[CostBits] <= Pow2[WordBits] /\ Pow2[CostBits] \in Nat \ {0}
        /\ Pow2[WordBits] \in Nat \ {0}
    BY WordConstantsAre, PowersAre, PowersGrow DEF WordConstants
  <2>2. v * w >= v
    OBVIOUS
  <2>3. 2 * v * w = 2 * (v * w) /\ v * w \in Nat
    OBVIOUS
  <2>4. 2 * v <= Pow2[CostBits]
    BY <2>1, <2>2, <2>3
  <2>5. QED
    BY <2>1, <2>4 DEF InWord
<1>10. InWord(gp) /\ InWord(gc)
  <2>1. Pow2[QGp] \in Nat \ {0} /\ Pow2[2 * QGp - QGc] \in Nat \ {0}
    BY WordConstantsAre, PowersAre DEF WordConstants
  <2>2. QED
    BY <1>5, <1>7, <1>8, <1>9, <2>1
<1>11. QED
  BY <1>5, <1>7, <1>8, <1>10 DEF gp, gc

\* The length of the largest of some words is enough for each.
LEMMA LongestIs ==
  ASSUME NEW S \in SUBSET Nat, S # {}, \A n \in S : InWord(n)
  PROVE  Longest(S) \in Nat /\ \A n \in S : n <= Pow2[Longest(S)]
<1> DEFINE m == CHOOSE e \in S : \A n \in S : n <= e
<1>1. Pow2[WordBits] \in Nat
  BY WordConstantsAre, PowersAre DEF WordConstants
<1>2. \A n \in S : n <= Pow2[WordBits]
  BY <1>1 DEF InWord
<1>3. \E e \in S : \A n \in S : n <= e
  BY <1>1, <1>2, Largest
<1>4. m \in S /\ \A n \in S : n <= m
  BY <1>3
<1>5. Longest(S) = BitLen(m)
  BY DEF Longest
<1> HIDE DEF m
<1>6. BitLen(m) \in Nat /\ m < Pow2[BitLen(m)]
  BY <1>4, BitLenIs
<1>7. Pow2[BitLen(m)] \in Nat
  BY <1>6, PowersAre
<1>8. \A n \in S : n \in Nat
  OBVIOUS
<1>9. QED
  BY <1>4, <1>5, <1>6, <1>7, <1>8

\* A term's shift is a number of bits,
LEMMA TermShiftIs ==
  ASSUME NEW c, InWord(c), NEW bits \in Nat, NEW extra \in Nat
  PROVE  TermShift(c, bits, extra) \in Nat
<1>1. BitLen(c) \in Nat /\ CostBits \in Nat
  BY BitLenIs, WordConstantsAre DEF WordConstants
<1>2. QED
  BY <1>1 DEF TermShift, Positive, Larger2

\* and the search shifts by the largest of the five.
LEMMA CostShiftIs ==
  ASSUME NEW r, Correlated(r), NEW pairs \in Seq(PairsOf), NEW p,
         NEW lp \in Nat, NEW lc \in Nat,
         lp = Larger2(Longest(Gps(pairs)), 1), lc = Larger2(Longest(Gcs(pairs, p)), 1)
  PROVE  LET s == CostShift(r, pairs, p)
         IN  /\ s \in Nat
             /\ s >= TermShift(r.a, 2 * lp, 0)
             /\ s >= TermShift(r.b, 2 * lc, 2 * (QGp - QGc))
             /\ s >= TermShift(r.c, lp + lc, QGp - QGc + 1)
             /\ s >= TermShift(r.d, lp, QGp + 1)
             /\ s >= TermShift(r.f, lc, 2 * QGp - QGc + 1)
<1> DEFINE ta == TermShift(r.a, 2 * lp, 0)
           tb == TermShift(r.b, 2 * lc, 2 * (QGp - QGc))
           tc == TermShift(r.c, lp + lc, QGp - QGc + 1)
           td == TermShift(r.d, lp, QGp + 1)
           tf == TermShift(r.f, lc, 2 * QGp - QGc + 1)
           S == {ta, tb, tc, td, tf}
<1>1. ta \in Nat /\ tb \in Nat /\ tc \in Nat /\ td \in Nat /\ tf \in Nat
  <2>1. /\ 2 * lp \in Nat /\ 2 * lc \in Nat /\ lp + lc \in Nat
        /\ 2 * (QGp - QGc) \in Nat /\ QGp - QGc + 1 \in Nat /\ QGp + 1 \in Nat
        /\ 2 * QGp - QGc + 1 \in Nat
    BY WordConstantsAre DEF WordConstants
  <2>2. QED
    BY <2>1, TermShiftIs DEF Correlated
<1>2. CostShift(r, pairs, p) = CHOOSE s \in S : \A u \in S : u <= s
  BY DEF CostShift
<1> HIDE DEF ta, tb, tc, td, tf
<1>3. \E s \in S : \A u \in S : u <= s
  <2>1. S \in SUBSET Nat /\ S # {} /\ ta + tb + tc + td + tf \in Nat
        /\ \A u \in S : u <= ta + tb + tc + td + tf
    BY <1>1
  <2> HIDE DEF S
  <2>2. QED
    BY <2>1, Largest
<1> DEFINE s == CHOOSE s \in S : \A u \in S : u <= s
<1>4. s \in S /\ \A u \in S : u <= s
  <2> HIDE DEF S
  <2>1. QED
    BY <1>3
<1> HIDE DEF s
<1>5. s \in Nat /\ s >= ta /\ s >= tb /\ s >= tc /\ s >= td /\ s >= tf
  BY <1>1, <1>4
<1>6. QED
  BY <1>2, <1>5 DEF s, ta, tb, tc, td, tf

\* The cost, term by term.
LEMMA CostIs ==
  ASSUME NEW q, q.a \in Int, q.b \in Int, q.c \in Int, q.d \in Int, q.f \in Int,
         NEW gp \in Nat, NEW gc \in Nat
  PROVE  ExactCost(q, gp, gc)
           = (gp * gp) * q.a + (gc * gc * Pow2[2 * (QGp - QGc)]) * q.b
             + (2 * gp * gc * Pow2[QGp - QGc]) * q.c - (2 * gp * Pow2[QGp]) * q.d
             - (2 * gc * Pow2[2 * QGp - QGc]) * q.f
<1> DEFINE w == Pow2[2 * (QGp - QGc)]
           x == Pow2[QGp - QGc]
           y == Pow2[QGp]
           z == Pow2[2 * QGp - QGc]
<1>1. w \in Nat /\ x \in Nat /\ y \in Nat /\ z \in Nat
  <2>1. 2 * (QGp - QGc) \in Nat /\ QGp - QGc \in Nat /\ QGp \in Nat /\ 2 * QGp - QGc \in Nat
    BY WordConstantsAre DEF WordConstants
  <2>2. QED
    BY <2>1, PowersAre
<1>2. ExactCost(q, gp, gc)
        = gp * gp * q.a + gc * gc * q.b * w + 2 * gp * gc * q.c * x - 2 * gp * q.d * y
          - 2 * gc * q.f * z
  BY DEF ExactCost
<1> HIDE DEF w, x, y, z
<1>3. gc * gc * q.b * w = (gc * gc * w) * q.b
  BY <1>1
<1>4. 2 * gp * gc * q.c * x = (2 * gp * gc * x) * q.c
  BY <1>1
<1>5. 2 * gp * q.d * y = (2 * gp * y) * q.d
  BY <1>1
<1>6. 2 * gc * q.f * z = (2 * gc * z) * q.f
  BY <1>1
<1>7. QED
  BY <1>2, <1>3, <1>4, <1>5, <1>6 DEF w, x, y, z

\* The weights of the terms have the bits the shift was chosen for.
LEMMA WeightsAre ==
  ASSUME NEW gp \in Nat, NEW gc \in Nat, NEW lp \in Nat, NEW lc \in Nat,
         gp <= Pow2[lp], gc <= Pow2[lc]
  PROVE  /\ gp * gp <= Pow2[2 * lp + 0]
         /\ gc * gc * Pow2[2 * (QGp - QGc)] <= Pow2[2 * lc + 2 * (QGp - QGc)]
         /\ 2 * gp * gc * Pow2[QGp - QGc] <= Pow2[(lp + lc) + (QGp - QGc + 1)]
         /\ 2 * gp * Pow2[QGp] <= Pow2[lp + (QGp + 1)]
         /\ 2 * gc * Pow2[2 * QGp - QGc] <= Pow2[lc + (2 * QGp - QGc + 1)]
<1> DEFINE k == QGp - QGc
           m == 2 * QGp - QGc
<1>1. k \in Nat /\ m \in Nat /\ QGp \in Nat
  BY WordConstantsAre DEF WordConstants
<1> HIDE DEF k, m
<1>2. Pow2[1] = 2
  BY PowersAre
<1>3. \A e \in Nat : Pow2[e] \in Nat /\ Pow2[e] <= Pow2[e]
  BY PowersAre
<1>4. gp * gp <= Pow2[lp + lp]
  BY ProductBelow
<1>5. gc * gc <= Pow2[lc + lc]
  BY ProductBelow
<1>6. (gc * gc) * Pow2[2 * k] <= Pow2[(lc + lc) + 2 * k]
  <2>1. gc * gc \in Nat /\ Pow2[2 * k] \in Nat /\ lc + lc \in Nat /\ 2 * k \in Nat
        /\ Pow2[2 * k] <= Pow2[2 * k]
    BY <1>1, <1>3
  <2>2. QED
    BY <1>5, <2>1, ProductBelow
<1>7. \A e \in Nat, v \in Nat, n \in Nat :
        v <= Pow2[n] => (2 * v) * Pow2[e] <= Pow2[n + (e + 1)]
  <2> SUFFICES ASSUME NEW e \in Nat, NEW v \in Nat, NEW n \in Nat, v <= Pow2[n]
               PROVE  (2 * v) * Pow2[e] <= Pow2[n + (e + 1)]
    OBVIOUS
  <2>1. 2 * v <= Pow2[n + 1] /\ 2 * v \in Nat
    BY <1>3, PowersAre
  <2>2. (2 * v) * Pow2[e] <= Pow2[(n + 1) + e]
    <3>1. 2 * v \in Nat /\ Pow2[e] \in Nat /\ n + 1 \in Nat /\ Pow2[e] <= Pow2[e]
      BY <1>3
    <3> DEFINE w == 2 * v
               x == Pow2[e]
               j == n + 1
    <3>2. w \in Nat /\ x \in Nat /\ j \in Nat /\ w <= Pow2[j] /\ x <= Pow2[e]
      BY <2>1, <3>1
    <3> HIDE DEF w, x, j
    <3>3. w * x <= Pow2[j + e]
      BY <3>2, ProductBelow
    <3>4. QED
      BY <3>3 DEF w, x, j
  <2>3. (n + 1) + e = n + (e + 1)
    OBVIOUS
  <2>4. QED
    BY <2>2, <2>3
<1>8. gp * gc <= Pow2[lp + lc] /\ gp * gc \in Nat /\ lp + lc \in Nat
  BY ProductBelow
<1>9. (2 * (gp * gc)) * Pow2[k] <= Pow2[(lp + lc) + (k + 1)]
  BY <1>1, <1>7, <1>8
<1>10. (2 * gp) * Pow2[QGp] <= Pow2[lp + (QGp + 1)]
  BY <1>1, <1>7
<1>11. (2 * gc) * Pow2[m] <= Pow2[lc + (m + 1)]
  BY <1>1, <1>7
<1>12. lp + lp = 2 * lp + 0 /\ (lc + lc) + 2 * k = 2 * lc + 2 * k /\ 2 * (gp * gc) = 2 * gp * gc
  BY <1>1
<1>13. QED
  BY <1>4, <1>6, <1>9, <1>10, <1>11, <1>12 DEF k, m

\* No term leaves its bits, whichever the pair.
LEMMA CostsFit ==
  ASSUME NEW r, Correlated(r), NEW pairs \in Seq(PairsOf), NEW p \in Predictions,
         NEW k \in DOMAIN pairs
  PROVE  LET cost == PairCost(ShiftedDown(r, CostShift(r, pairs, p)), pairs[k], p)
         IN  /\ cost \in Int
             /\ cost <= 5 * Pow2[CostBits] /\ -cost <= 5 * Pow2[CostBits]
<1> DEFINE lp == Larger2(Longest(Gps(pairs)), 1)
           lc == Larger2(Longest(Gcs(pairs, p)), 1)
           gp == PairGp(pairs[k])
           gc == PairGc(pairs[k], p)
           s == CostShift(r, pairs, p)
           q == ShiftedDown(r, s)
           P == Pow2[CostBits]
<1>1. \A j \in DOMAIN pairs : pairs[j] \in PairsOf
  OBVIOUS
<1>2. /\ gp \in Nat /\ gc \in Nat
      /\ 2 * gp * gc * Pow2[QGp - QGc] <= P
      /\ 2 * gp * Pow2[QGp] <= P
      /\ 2 * gc * Pow2[2 * QGp - QGc] <= P
  BY <1>1, GainsAre
<1>3. lp \in Nat /\ gp <= Pow2[lp]
  <2> DEFINE S == Gps(pairs)
             l == Longest(S)
  <2>1. S \in SUBSET Nat /\ S # {} /\ gp \in S /\ \A n \in S : InWord(n)
    BY <1>1, GainsAre DEF Gps
  <2> HIDE DEF S
  <2>2. l \in Nat /\ gp <= Pow2[l]
    BY <2>1, LongestIs
  <2>3. lp \in Nat /\ l <= lp
    BY <2>2 DEF Larger2, S
  <2> HIDE DEF l, lp
  <2>4. Pow2[l] <= Pow2[lp] /\ Pow2[l] \in Nat /\ Pow2[lp] \in Nat
    BY <2>2, <2>3, PowersGrow, PowersAre
  <2>5. QED
    BY <1>2, <2>2, <2>3, <2>4
<1>4. lc \in Nat /\ gc <= Pow2[lc]
  <2> DEFINE S == Gcs(pairs, p)
             l == Longest(S)
  <2>1. S \in SUBSET Nat /\ S # {} /\ gc \in S /\ \A n \in S : InWord(n)
    BY <1>1, GainsAre DEF Gcs
  <2> HIDE DEF S
  <2>2. l \in Nat /\ gc <= Pow2[l]
    BY <2>1, LongestIs
  <2>3. lc \in Nat /\ l <= lc
    BY <2>2 DEF Larger2, S
  <2> HIDE DEF l, lc
  <2>4. Pow2[l] <= Pow2[lc] /\ Pow2[l] \in Nat /\ Pow2[lc] \in Nat
    BY <2>2, <2>3, PowersGrow, PowersAre
  <2>5. QED
    BY <1>2, <2>2, <2>3, <2>4
<1>5. /\ s \in Nat
      /\ s >= TermShift(r.a, 2 * lp, 0)
      /\ s >= TermShift(r.b, 2 * lc, 2 * (QGp - QGc))
      /\ s >= TermShift(r.c, lp + lc, QGp - QGc + 1)
      /\ s >= TermShift(r.d, lp, QGp + 1)
      /\ s >= TermShift(r.f, lc, 2 * QGp - QGc + 1)
  BY <1>3, <1>4, CostShiftIs
<1>6. /\ q.a = r.a \div Pow2[s] /\ q.b = r.b \div Pow2[s] /\ q.c = r.c \div Pow2[s]
      /\ q.d = r.d \div Pow2[s] /\ q.f = r.f \div Pow2[s]
      /\ q.a \in Int /\ q.b \in Int /\ q.c \in Int /\ q.d \in Int /\ q.f \in Int
  BY <1>5, ShiftedIs
<1>7. PairCost(q, pairs[k], p) = ExactCost(q, gp, gc)
  BY DEF PairCost
<1> HIDE DEF gp, gc, s, q, lp, lc
<1> DEFINE wa == gp * gp
           wb == gc * gc * Pow2[2 * (QGp - QGc)]
           wc == 2 * gp * gc * Pow2[QGp - QGc]
           wd == 2 * gp * Pow2[QGp]
           wf == 2 * gc * Pow2[2 * QGp - QGc]
<1>8. ExactCost(q, gp, gc) = wa * q.a + wb * q.b + wc * q.c - wd * q.d - wf * q.f
  BY <1>2, <1>6, CostIs
<1>9. /\ wa \in Nat /\ wb \in Nat /\ wc \in Nat /\ wd \in Nat /\ wf \in Nat
      /\ 2 * lp \in Nat /\ 2 * lc \in Nat /\ lp + lc \in Nat
      /\ 2 * (QGp - QGc) \in Nat /\ QGp - QGc + 1 \in Nat /\ QGp + 1 \in Nat
      /\ 2 * QGp - QGc + 1 \in Nat
  <2>1. /\ 2 * (QGp - QGc) \in Nat /\ QGp - QGc \in Nat /\ QGp \in Nat
        /\ 2 * QGp - QGc \in Nat
    BY WordConstantsAre DEF WordConstants
  <2>2. /\ Pow2[2 * (QGp - QGc)] \in Nat /\ Pow2[QGp - QGc] \in Nat /\ Pow2[QGp] \in Nat
        /\ Pow2[2 * QGp - QGc] \in Nat
    BY <2>1, PowersAre
  <2>3. \A u, v \in Nat : u * v \in Nat
    OBVIOUS
  <2>4. gp * gp \in Nat /\ gc * gc \in Nat /\ 2 * gp \in Nat /\ 2 * gc \in Nat
        /\ 2 * gp * gc \in Nat
    BY <1>2, <2>3
  <2>5. wa \in Nat /\ wb \in Nat /\ wc \in Nat /\ wd \in Nat /\ wf \in Nat
    BY <2>2, <2>3, <2>4
  <2> HIDE DEF wa, wb, wc, wd, wf
  <2>6. /\ 2 * lp \in Nat /\ 2 * lc \in Nat /\ lp + lc \in Nat
        /\ 2 * (QGp - QGc) \in Nat /\ QGp - QGc + 1 \in Nat /\ QGp + 1 \in Nat
        /\ 2 * QGp - QGc + 1 \in Nat
    BY <1>3, <1>4, <2>1
  <2>7. QED
    BY <2>5, <2>6
<1>10. /\ wa <= Pow2[2 * lp + 0]
       /\ wb <= Pow2[2 * lc + 2 * (QGp - QGc)]
       /\ wc <= Pow2[(lp + lc) + (QGp - QGc + 1)]
       /\ wd <= Pow2[lp + (QGp + 1)]
       /\ wf <= Pow2[lc + (2 * QGp - QGc + 1)]
  BY <1>2, <1>3, <1>4, WeightsAre
<1>11. wc <= P /\ wd <= P /\ wf <= P
  BY <1>2
<1>12. /\ InWord(r.a) /\ InWord(r.b) /\ InWord(r.c) /\ InWord(r.d) /\ InWord(r.f)
       /\ r.a >= 0 /\ r.b >= 0
  BY DEF Correlated
<1> HIDE DEF wa, wb, wc, wd, wf
<1> DEFINE ta == wa * q.a
           tb == wb * q.b
           tc == wc * q.c
           td == wd * q.d
           tf == wf * q.f
<1>13. ta \in Int /\ ta <= P /\ -ta <= P
  <2>1. LET t == wa * (r.a \div Pow2[s])
        IN  t \in Int /\ t <= Pow2[CostBits] /\ -t <= Pow2[CostBits]
    BY <1>5, <1>9, <1>10, <1>12, TermFits
  <2>2. QED
    BY <1>6, <2>1
<1>14. tb \in Int /\ tb <= P /\ -tb <= P
  <2>1. LET t == wb * (r.b \div Pow2[s])
        IN  t \in Int /\ t <= Pow2[CostBits] /\ -t <= Pow2[CostBits]
    BY <1>5, <1>9, <1>10, <1>12, TermFits
  <2>2. QED
    BY <1>6, <2>1
<1>15. tc \in Int /\ tc <= P /\ -tc <= P
  <2>1. LET t == wc * (r.c \div Pow2[s])
        IN  t \in Int /\ t <= Pow2[CostBits] /\ -t <= Pow2[CostBits]
    BY <1>5, <1>9, <1>10, <1>11, <1>12, TermFits
  <2>2. QED
    BY <1>6, <2>1
<1>16. td \in Int /\ td <= P /\ -td <= P
  <2>1. LET t == wd * (r.d \div Pow2[s])
        IN  t \in Int /\ t <= Pow2[CostBits] /\ -t <= Pow2[CostBits]
    <3> DEFINE e == QGp + 1
    <3>1. /\ s \in Nat /\ s >= TermShift(r.d, lp, e) /\ e \in Nat
          /\ wd <= Pow2[lp + e] /\ wd <= P /\ InWord(r.d)
      BY <1>5, <1>9, <1>10, <1>11, <1>12
    <3> HIDE DEF e
    <3>2. QED
      BY <1>3, <1>4, <1>9, <3>1, TermFits
  <2>2. QED
    BY <1>6, <2>1
<1>17. tf \in Int /\ tf <= P /\ -tf <= P
  <2>1. LET t == wf * (r.f \div Pow2[s])
        IN  t \in Int /\ t <= Pow2[CostBits] /\ -t <= Pow2[CostBits]
    <3> DEFINE e == 2 * QGp - QGc + 1
    <3>1. /\ s \in Nat /\ s >= TermShift(r.f, lc, e) /\ e \in Nat
          /\ wf <= Pow2[lc + e] /\ wf <= P /\ InWord(r.f)
      BY <1>5, <1>9, <1>10, <1>11, <1>12
    <3> HIDE DEF e
    <3>2. QED
      BY <1>3, <1>4, <1>9, <3>1, TermFits
  <2>2. QED
    BY <1>6, <2>1
<1>18. P \in Nat
  BY WordConstantsAre, PowersAre DEF WordConstants
<1>19. ExactCost(q, gp, gc) = ta + tb + tc - td - tf
  BY <1>8
<1> HIDE DEF ta, tb, tc, td, tf, P
<1> DEFINE cost == ta + tb + tc - td - tf
<1>20. cost \in Int /\ cost <= 5 * P /\ -cost <= 5 * P
  BY <1>13, <1>14, <1>15, <1>16, <1>17, <1>18
<1> HIDE DEF cost
<1>21. PairCost(q, pairs[k], p) = cost
  BY <1>7, <1>19 DEF cost
<1>22. QED
  BY <1>20, <1>21 DEF P, q, s

\* Five terms are in the word, and below the cost a search starts with.
LEMMA FiveTerms ==
  ASSUME NEW cost \in Int,
         cost <= 5 * Pow2[CostBits], -cost <= 5 * Pow2[CostBits]
  PROVE  cost < Pow2[WordBits - 2] /\ Wrapped64(cost) = cost
<1> DEFINE half == Pow2[WordBits - 1]
           P == Pow2[CostBits]
<1>1. WordBits \in Nat /\ CostBits \in Nat /\ CostBits + 5 <= WordBits
  BY WordConstantsAre DEF WordConstants
<1>2. P \in Nat \ {0} /\ Pow2[CostBits + 3] = 8 * P
  <2>1. /\ Pow2[CostBits + 1] = 2 * P
        /\ Pow2[(CostBits + 1) + 1] = 2 * Pow2[CostBits + 1]
        /\ Pow2[((CostBits + 1) + 1) + 1] = 2 * Pow2[(CostBits + 1) + 1]
        /\ P \in Nat \ {0}
    BY <1>1, PowersAre
  <2>2. ((CostBits + 1) + 1) + 1 = CostBits + 3
    BY <1>1
  <2>3. QED
    BY <2>1, <2>2
<1>3. Pow2[CostBits + 3] <= Pow2[WordBits - 2] /\ Pow2[WordBits - 2] \in Nat
  BY <1>1, PowersGrow, PowersAre
<1>4. half = 2 * Pow2[WordBits - 2]
  <2>1. WordBits - 2 \in Nat /\ (WordBits - 2) + 1 = WordBits - 1
    BY <1>1
  <2>2. QED
    BY <2>1, PowersAre
<1> HIDE DEF P, half
<1> DEFINE x == cost + half
           M == 2 * half
<1>5. x \in Nat /\ M \in Nat \ {0} /\ x < M /\ cost < Pow2[WordBits - 2]
  BY <1>2, <1>3, <1>4 DEF P
<1> HIDE DEF x, M
<1>6. x % M = x
  BY <1>5
<1>7. Wrapped64(cost) = (x % M) - half
  BY DEF Wrapped64, x, M, half
<1>8. x - half = cost
  BY <1>3, <1>4 DEF x
<1>9. QED
  BY <1>5, <1>6, <1>7, <1>8

\* The loop of a search: the first of the least costs, or the start.
Cheapened(f, n, costs, pairs, top) ==
  /\ f = [m \in 0 .. n |-> f[m]]
  /\ f[0] = [cost |-> top, pair |-> <<>>]
  /\ \A k \in 1 .. n : f[k] = IF costs[k] < f[k - 1].cost
                              THEN [cost |-> costs[k], pair |-> pairs[k]] ELSE f[k - 1]

\* It has a value for each number of pairs compared,
LEMMA CheapestLoop ==
  ASSUME NEW n \in Nat, NEW costs, NEW pairs, NEW top
  PROVE  \E f : Cheapened(f, n, costs, pairs, top)
<1> DEFINE C == {costs[k] : k \in 1 .. n} \cup {top}
           Q == {pairs[k] : k \in 1 .. n} \cup {<<>>}
           S == [cost : C, pair : Q]
           a == [cost |-> top, pair |-> <<>>]
           one(k, b) == IF costs[k] < b.cost THEN [cost |-> costs[k], pair |-> pairs[k]]
                        ELSE b
           E == [k \in 1 .. n |-> [b \in S |-> one(k, b)]]
<1>1. a \in S
  OBVIOUS
<1>2. \A k \in 1 .. n : \A b \in S : one(k, b) \in S
  OBVIOUS
<1>3. \A k \in 1 .. n : \A b \in S : E[k][b] = one(k, b)
  OBVIOUS
<1>4. E \in [1 .. n -> [S -> S]]
  <2> HIDE DEF S, one
  <2>1. QED
    BY <1>2
<1> HIDE DEF S, E, one, a
<1>5. PICK f : Runs(f, S, a, n, E)
  BY <1>1, <1>4, Recursion DEF StepsFrom
<1>6. f \in [0 .. n -> S] /\ f[0] = a /\ \A k \in 1 .. n : f[k] = E[k][f[k - 1]]
  BY <1>5 DEF Runs
<1>7. \A k \in 1 .. n : f[k] = one(k, f[k - 1])
  <2>1. \A k \in 1 .. n : f[k - 1] \in S
    BY <1>6
  <2>2. QED
    BY <1>3, <1>6, <2>1
<1>8. f = [m \in 0 .. n |-> f[m]]
  BY <1>6
<1>9. Cheapened(f, n, costs, pairs, top)
  BY <1>6, <1>7, <1>8 DEF Cheapened, one, a
<1>10. QED
  BY <1>9

\* and keeps the least, once one is below the start.
LEMMA CheapestIsLeast ==
  ASSUME NEW n \in Nat \ {0}, NEW costs, NEW pairs, NEW top \in Int, NEW f,
         Cheapened(f, n, costs, pairs, top),
         \A k \in 1 .. n : costs[k] \in Int /\ costs[k] < top
  PROVE  \E k \in 1 .. n : /\ f[n].pair = pairs[k]
                           /\ \A j \in 1 .. n : costs[k] <= costs[j]
<1> DEFINE Kept(m) == \/ m = 0 /\ f[m].cost = top
                      \/ \E k \in 1 .. m : /\ f[m] = [cost |-> costs[k], pair |-> pairs[k]]
                                           /\ \A j \in 1 .. m : costs[k] <= costs[j]
           T == {m \in 0 .. n : Kept(m)}
<1>1. 0 \in T
  BY DEF Cheapened
<1>2. ASSUME NEW m \in 1 .. n, m - 1 \in T PROVE m \in T
  <2>1. Kept(m - 1)
    BY <1>2
  <2> DEFINE new == [cost |-> costs[m], pair |-> pairs[m]]
  <2>2. f[m] = IF costs[m] < f[m - 1].cost THEN new ELSE f[m - 1]
    BY DEF Cheapened
  <2>3. costs[m] \in Int /\ costs[m] < top
    OBVIOUS
  <2>4. CASE m - 1 = 0
    <3>0. f[m - 1].cost = top
      <4>1. 1 .. m - 1 = {}
        BY <2>4
      <4>2. QED
        BY <2>1, <4>1
    <3>1. f[m] = new
      <4> HIDE DEF new
      <4>1. QED
        BY <2>2, <2>3, <3>0
    <3>2. m \in 1 .. m /\ \A j \in 1 .. m : costs[m] <= costs[j]
      BY <2>3, <2>4
    <3>3. QED
      BY <3>1, <3>2
  <2>5. CASE m - 1 # 0
    <3>1. PICK k \in 1 .. m - 1 : /\ f[m - 1] = [cost |-> costs[k], pair |-> pairs[k]]
                                  /\ \A j \in 1 .. m - 1 : costs[k] <= costs[j]
      BY <2>1, <2>5
    <3>2. costs[k] \in Int /\ f[m - 1].cost = costs[k] /\ k \in 1 .. m
      BY <3>1
    <3>3. \A j \in 1 .. m : j = m \/ j \in 1 .. m - 1
      OBVIOUS
    <3>4. \A j \in 1 .. m - 1 : costs[j] \in Int
      OBVIOUS
    <3>5. CASE costs[m] < costs[k]
      <4>1. f[m] = new
        BY <2>2, <3>2, <3>5
      <4>2. \A j \in 1 .. m : costs[m] <= costs[j]
        BY <2>3, <3>1, <3>2, <3>3, <3>4, <3>5
      <4>3. QED
        BY <4>1, <4>2
    <3>6. CASE ~(costs[m] < costs[k])
      <4>1. f[m] = [cost |-> costs[k], pair |-> pairs[k]]
        BY <2>2, <3>1, <3>2, <3>6
      <4>2. \A j \in 1 .. m : costs[k] <= costs[j]
        BY <2>3, <3>1, <3>2, <3>3, <3>4, <3>6
      <4>3. QED
        BY <3>2, <4>1, <4>2
    <3>7. QED
      BY <3>5, <3>6
  <2>6. QED
    BY <2>4, <2>5
<1> HIDE DEF T
<1>3. 0 .. n \subseteq T
  BY <1>1, <1>2, RangeInduction
<1>4. Kept(n)
  <2>1. n \in 0 .. n
    OBVIOUS
  <2>2. QED
    BY <1>3, <2>1 DEF T
<1>5. PICK k \in 1 .. n : /\ f[n] = [cost |-> costs[k], pair |-> pairs[k]]
                         /\ \A j \in 1 .. n : costs[k] <= costs[j]
  <2>1. n # 0
    OBVIOUS
  <2>2. QED
    BY <1>4, <2>1
<1>6. f[n].pair = pairs[k]
  BY <1>5
<1>7. QED
  BY <1>5, <1>6

\* What the search finds among pairs whose costs are words.
LEMMA CheapestIs ==
  ASSUME NEW q, NEW P, NEW pairs \in Seq(P), DOMAIN pairs = 1 .. Len(pairs),
         Len(pairs) \in Nat \ {0}, NEW p,
         \A k \in DOMAIN pairs :
           LET cost == PairCost(q, pairs[k], p)
           IN  cost \in Int /\ cost < Pow2[WordBits - 2] /\ Wrapped64(cost) = cost
  PROVE  LET chosenPair == Cheapest(q, pairs, p)
         IN  /\ \E k \in DOMAIN pairs : pairs[k] = chosenPair
             /\ \A k \in DOMAIN pairs : PairCost(q, chosenPair, p) <= PairCost(q, pairs[k], p)
<1> DEFINE n == Len(pairs)
           top == Pow2[WordBits - 2]
           cost(k) == Wrapped64(PairCost(q, pairs[k], p))
           costs == [k \in 1 .. n |-> cost(k)]
           IsBest(f) ==
             f = [m \in 0 .. n |->
                    IF m = 0 THEN [cost |-> top, pair |-> <<>>]
                    ELSE LET c == Wrapped64(PairCost(q, pairs[m], p))
                         IN  IF c < f[m - 1].cost THEN [cost |-> c, pair |-> pairs[m]]
                             ELSE f[m - 1]]
           best == CHOOSE f : IsBest(f)
<1>1. top \in Int
  <2> DEFINE e == WordBits - 2
  <2>1. e \in Nat
    BY WordConstantsAre DEF WordConstants
  <2> HIDE DEF e
  <2>2. Pow2[e] \in Nat
    BY <2>1, PowersAre
  <2>3. QED
    BY <2>2 DEF e
<1>2. \A k \in 1 .. n : costs[k] = PairCost(q, pairs[k], p)
                        /\ costs[k] \in Int /\ costs[k] < top
  OBVIOUS
<1>3. PICK f : Cheapened(f, n, costs, pairs, top)
  <2> HIDE DEF costs, top
  <2>1. QED
    BY CheapestLoop
<1>4. IsBest(f)
  <2>1. f = [m \in 0 .. n |-> f[m]]
    BY <1>3 DEF Cheapened
  <2>2. ASSUME NEW m \in 0 .. n
        PROVE
          f[m] = IF m = 0 THEN [cost |-> top, pair |-> <<>>]
                 ELSE LET c == Wrapped64(PairCost(q, pairs[m], p))
                      IN  IF c < f[m - 1].cost THEN [cost |-> c, pair |-> pairs[m]]
                          ELSE f[m - 1]
    <3>1. CASE m = 0
      <4> HIDE DEF costs, top
      <4>1. QED
        BY <1>3, <3>1 DEF Cheapened
    <3>2. CASE m # 0
      <4>1. m \in 1 .. n
        BY <3>2
      <4>2. costs[m] = Wrapped64(PairCost(q, pairs[m], p))
        BY <4>1
      <4> HIDE DEF costs, top
      <4>3. f[m] = IF costs[m] < f[m - 1].cost
                   THEN [cost |-> costs[m], pair |-> pairs[m]] ELSE f[m - 1]
        BY <1>3, <4>1 DEF Cheapened
      <4>4. QED
        BY <3>2, <4>2, <4>3
    <3>3. QED
      BY <3>1, <3>2
  <2> HIDE DEF top
  <2>3. QED
    BY <2>1, <2>2
<1>5. IsBest(best)
  <2> HIDE DEF IsBest
  <2>1. QED
    BY <1>4
<1>6. Cheapest(q, pairs, p) = best[n].pair
  BY DEF Cheapest
<1> HIDE DEF best
<1>7. Cheapened(best, n, costs, pairs, top)
  BY <1>5 DEF Cheapened
<1> HIDE DEF costs, top, IsBest
<1>8. PICK k \in 1 .. n : /\ best[n].pair = pairs[k]
                          /\ \A j \in 1 .. n : costs[k] <= costs[j]
  BY <1>1, <1>2, <1>7, CheapestIsLeast
<1>9. QED
  BY <1>2, <1>6, <1>8

\* The search's choice is of the pairs it preselected, and one with the least cost.
GainInv ==
  sought # <<>> =>
    /\ sought.vectors \in Vectors /\ sought.predicted \in Predictions
    /\ chosen = Searched(Correlations(sought.vectors), sought.float, sought.predicted)

\* No term of the conjugate search's cost leaves its word, whatever the subframe, the
\* predicted gain and the codebooks: the pair chosen is one of the preselected with
\* the least cost (conjugate.go 191-270 and 314-366).
THEOREM CostsAlwaysFit == GainSearchSpec => []GainCostsFit
<1>1. GainSearchInit => GainInv
  BY DEF GainSearchInit, GainInv
<1>2. GainInv /\ [GainSearchNext]_gainSearchVars => GainInv'
  <2> SUFFICES ASSUME GainInv, [GainSearchNext]_gainSearchVars PROVE GainInv'
    OBVIOUS
  <2>1. CASE GainSearchNext
    <3>1. PICK v \in Vectors, p \in Predictions, float \in BOOLEAN :
            SearchConjugate(v, p, float)
      BY <2>1 DEF GainSearchNext
    <3>2. /\ sought'.vectors = v /\ sought'.predicted = p /\ sought'.float = float
          /\ chosen' = Searched(Correlations(v), float, p)
      BY <3>1 DEF SearchConjugate
    <3>3. QED
      BY <3>2 DEF GainInv
  <2>2. CASE UNCHANGED gainSearchVars
    BY <2>2 DEF gainSearchVars, GainInv
  <2>3. QED
    BY <2>1, <2>2
<1>3. GainInv => GainCostsFit
  <2> SUFFICES ASSUME GainInv, sought # <<>> PROVE GainCostsFit
    BY DEF GainCostsFit
  <2> DEFINE corr == Correlations(sought.vectors)
             p == sought.predicted
             pairs == Preselected(Center(corr, sought.float), p)
             kept == ShiftedDown(corr, CostShift(corr, pairs, p))
  <2>1. /\ sought.vectors \in Vectors /\ p \in Predictions
        /\ chosen = Searched(corr, sought.float, p)
    BY DEF GainInv
  <2>2. Correlated(corr) /\ p \in Nat
    BY <2>1, CorrelationsAre, GainSearchAssumption
  <2>3. chosen = Cheapest(kept, pairs, p)
    BY <2>1 DEF Searched
  <2>4. /\ pairs \in Seq(PairsOf) /\ DOMAIN pairs = 1 .. Len(pairs)
        /\ Len(pairs) \in Nat \ {0}
    <3> HIDE DEF corr, p
    <3>1. /\ Center(corr, sought.float).gp \in Int /\ Center(corr, sought.float).gc \in Int
      BY <2>2, CenterIs
    <3>2. QED
      BY <2>2, <3>1, PreselectedAre
  <2> HIDE DEF corr, p, pairs
  <2>5. \A k \in DOMAIN pairs :
          LET cost == PairCost(kept, pairs[k], p)
          IN  cost \in Int /\ cost < Pow2[WordBits - 2] /\ Wrapped64(cost) = cost
    <3> SUFFICES ASSUME NEW k \in DOMAIN pairs
                 PROVE  LET cost == PairCost(kept, pairs[k], p)
                        IN  /\ cost \in Int /\ cost < Pow2[WordBits - 2]
                            /\ Wrapped64(cost) = cost
      OBVIOUS
    <3> DEFINE cost == PairCost(kept, pairs[k], p)
    <3>1. cost \in Int /\ cost <= 5 * Pow2[CostBits] /\ -cost <= 5 * Pow2[CostBits]
      BY <2>1, <2>2, <2>4, CostsFit
    <3> HIDE DEF cost
    <3>2. cost < Pow2[WordBits - 2] /\ Wrapped64(cost) = cost
      BY <3>1, FiveTerms
    <3>3. QED
      BY <3>1, <3>2 DEF cost
  <2> HIDE DEF kept
  <2>6. LET chosenPair == Cheapest(kept, pairs, p)
        IN  /\ \E k \in DOMAIN pairs : pairs[k] = chosenPair
            /\ \A k \in DOMAIN pairs : PairCost(kept, chosenPair, p) <= PairCost(kept, pairs[k], p)
    BY <2>4, <2>5, CheapestIs
  <2>7. QED
    BY <2>3, <2>6 DEF GainCostsFit, corr, p, pairs, kept
<1>4. QED
  BY <1>1, <1>2, <1>3, PTL DEF GainSearchSpec
=============================================================================
