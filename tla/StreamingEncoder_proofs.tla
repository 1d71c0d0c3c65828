----------------------- MODULE StreamingEncoder_proofs -----------------------
(***************************************************************************)
(* For every frame length, every sequence of writes, flushes, resets and   *)
(* direct encodes and every failure of the sink: the counts Write returns  *)
(* are true, the frames on the wire are the caller's stream, and the code  *)
(* implements FrameStream.                                                 *)
(*                                                                         *)
(* The invariants are not inductive alone: what a frame handed to the sink *)
(* holds was decided a step before the sink answers.  InCall says what is  *)
(* known at each point of a call.                                          *)
(***************************************************************************)
EXTENDS StreamingEncoder, TLAPS

\* The scratch holds the frame of samples Delivered+1 .. b.
PackedUpTo(b) ==
  /\ streamPacked.pcm = Segment(Delivered, b)
  /\ streamPacked.upto = b

\* What is known at each point of a call.
InCall ==
  /\ at = "idle" => consumed = 0 /\ left = 0
  /\ at = "drain" => consumed = 0 /\ streamBufLen > 0
  /\ at = "drainSink" =>
       /\ consumed = 0
       /\ streamBufLen > 0
       /\ left >= Need
       /\ PackedUpTo(Delivered + FrameSamples)
  /\ at \in {"loop", "loopSink"} => streamBufLen = 0
  /\ at = "loopSink" =>
       /\ left >= FrameSamples
       /\ PackedUpTo(Delivered + FrameSamples)
  /\ at = "flushSink" =>
       /\ consumed = 0
       /\ streamBufLen > 0
       /\ PackedUpTo(Delivered + streamBufLen)

Inv == TypeOK /\ WireIsTheStream /\ CountsAreTrue /\ InCall

-----------------------------------------------------------------------------
(* What the helpers give.                                                  *)

\* A segment of the stream is a frame.
LEMMA SegmentIsFrame ==
  ASSUME NEW a \in Nat, NEW b \in Nat
  PROVE  Segment(a, b) \in Frame
  BY StreamAssumption DEF Segment, Frame

\* The delivered position is a number.
LEMMA DeliveredNat ==
  ASSUME wire \in Seq(Payload)
  PROVE  Delivered \in Nat
<1>1. CASE wire = << >>
  BY <1>1 DEF Delivered
<1>2. CASE wire # << >>
  <2>1. wire[Len(wire)] \in Payload
    BY <1>2
  <2>2. QED
    BY <1>2, <2>1 DEF Delivered, Payload
<1>3. QED
  BY <1>1, <1>2

\* Before the next frame of the wire lies the delivered position.
LEMMA BeforeNext ==
  ASSUME wire \in Seq(Payload),
         NEW w, \A j \in 1..Len(wire) : w[j] = wire[j]
  PROVE  Before(w, Len(wire) + 1) = Delivered
<1>1. CASE wire = << >>
  BY <1>1 DEF Delivered, Before
<1>2. CASE wire # << >>
  <2>1. Len(wire) \in Nat \ {0}
    BY <1>2
  <2>2. QED
    BY <1>2, <2>1 DEF Delivered, Before
<1>3. QED
  BY <1>1, <1>2

\* The sink accepts a frame that continues the stream: the wire still is the
\* stream, and reaches b.
LEMMA WireGrows ==
  ASSUME TypeOK, WireIsTheStream,
         NEW b \in Nat, PackedUpTo(b),
         Delivered < b, b <= Delivered + FrameSamples,
         wire' = Append(wire, streamPacked)
  PROVE  /\ wire' \in Seq(Payload)
         /\ WireIsTheStream'
         /\ Delivered' = b
<1> DEFINE w == Append(wire, streamPacked)
<1>1. wire \in Seq(Payload) /\ streamPacked \in Payload
  BY DEF TypeOK
<1>2. /\ w \in Seq(Payload)
      /\ Len(w) = Len(wire) + 1
      /\ w[Len(wire) + 1] = streamPacked
      /\ \A j \in 1..Len(wire) : w[j] = wire[j]
      /\ Len(wire) \in Nat
      /\ w # << >>
  BY <1>1
<1> HIDE DEF w
<1>3. wire' = w
  BY DEF w
<1>4. Delivered' = b
  BY <1>2, <1>3 DEF Delivered, PackedUpTo
<1>5. ASSUME NEW j \in 1..Len(wire)
      PROVE  /\ Before(w, j) < w[j].upto
             /\ w[j].upto <= Before(w, j) + FrameSamples
             /\ w[j].pcm = Segment(Before(w, j), w[j].upto)
  <2>1. w[j] = wire[j] /\ Before(w, j) = Before(wire, j)
    BY <1>2 DEF Before
  <2>2. QED
    BY <2>1 DEF WireIsTheStream
<1>6. Before(w, Len(wire) + 1) = Delivered
  BY <1>1, <1>2, BeforeNext
<1>7. \A j \in 1..Len(w) :
        /\ Before(w, j) < w[j].upto
        /\ w[j].upto <= Before(w, j) + FrameSamples
        /\ w[j].pcm = Segment(Before(w, j), w[j].upto)
  BY <1>2, <1>5, <1>6 DEF PackedUpTo
<1>8. WireIsTheStream'
  BY <1>3, <1>7 DEF WireIsTheStream
<1>9. QED
  BY <1>2, <1>3, <1>4, <1>8

\* Nothing happens to the wire: it still is the stream.
LEMMA WireKept ==
  ASSUME wire' = wire
  PROVE  /\ WireIsTheStream => WireIsTheStream'
         /\ Delivered' = Delivered
  BY DEF WireIsTheStream, Delivered

-----------------------------------------------------------------------------
(* The inductive invariant.                                                *)

\* Nothing was written yet.
LEMMA InitInv == Init => Inv
<1> SUFFICES ASSUME Init PROVE Inv
  OBVIOUS
<1>1. Silence \in Frame /\ Unsent \in Payload
  BY StreamAssumption DEF Silence, Unsent, Frame, Payload
<1>2. codec \in Seq(Frame) /\ wire \in Seq(Payload) /\ wire = << >>
  BY DEF Init
<1>3. TypeOK
  BY <1>1, <1>2, StreamAssumption DEF Init, TypeOK
<1>4. WireIsTheStream
  BY <1>2 DEF WireIsTheStream
<1>5. CountsAreTrue
  BY <1>2 DEF Init, CountsAreTrue, Position, Delivered
<1>6. InCall
  BY DEF Init, InCall
<1>7. QED
  BY <1>3, <1>4, <1>5, <1>6 DEF Inv

\* A step that returns count n with nothing else changed.
LEMMA PlainReturn ==
  ASSUME Inv, at = "idle", NEW e, Return(0, e),
         e \in {"nil", "ErrNoStreamSink", "ErrShortPCM", "ErrShortOutput"},
         UNCHANGED <<streamSink, streamBuf, streamBufLen, streamPacked, wire,
                     sinkErrors>>,
         codec' \in Seq(Frame), direct' \in Nat
  PROVE  Inv'
<1>1. TypeOK'
  BY DEF Inv, TypeOK, Return
<1>2. WireIsTheStream' /\ Delivered' = Delivered
  BY WireKept DEF Inv
<1>3. fed' + consumed' = fed + consumed
  BY DEF Inv, TypeOK, InCall, Return
<1>4. CountsAreTrue'
  BY <1>2, <1>3 DEF Inv, CountsAreTrue, Position
<1>5. InCall'
  BY DEF InCall, Return
<1>6. QED
  BY <1>1, <1>2, <1>4, <1>5 DEF Inv

\* What EncodeFrame leaves in the codec and in the scratch.
LEMMA EncodeFrameTypes ==
  ASSUME TypeOK, NEW pcm \in Frame, NEW upto \in Nat, EncodeFrame(pcm, upto)
  PROVE  /\ codec' \in Seq(Frame)
         /\ streamPacked' \in Payload
         /\ streamPacked'.pcm = pcm
         /\ streamPacked'.upto = upto
  BY DEF EncodeFrame, TypeOK, Payload

\* A copy leaves a frame in the tail buffer, whose samples are known.
LEMMA CopyToBufFills ==
  ASSUME TypeOK, NEW from \in Nat, NEW n \in Nat, CopyToBuf(from, n)
  PROVE  /\ streamBuf' \in Frame
         /\ \A i \in 1..FrameSamples :
              streamBuf'[i] = IF i \in (from + 1)..(from + n)
                              THEN Position + (i - from) ELSE streamBuf[i]
<1>1. Position \in Nat
  BY DEF TypeOK, Position
<1>2. QED
  BY <1>1, StreamAssumption DEF CopyToBuf, TypeOK, Frame

\* The invariant is inductive.
LEMMA StepInv == Inv /\ [Next]_vars => Inv'
<1> SUFFICES ASSUME Inv, [Next]_vars
             PROVE  Inv'
  OBVIOUS
<1> USE StreamAssumption
<1>t. /\ TypeOK /\ WireIsTheStream /\ CountsAreTrue /\ InCall
      /\ Delivered \in Nat /\ Position \in Nat /\ Need \in 1..FrameSamples
      /\ wire \in Seq(Payload)
  BY DeliveredNat DEF Inv, TypeOK, Position, Need
<1>1. ASSUME WriteNoSink PROVE Inv'
  BY <1>1, <1>t, PlainReturn DEF WriteNoSink, TypeOK
<1>2. ASSUME NEW n \in 0..MaxWrite, WriteCall(n) PROVE Inv'
  <2>1. TypeOK'
    BY <1>2, <1>t DEF WriteCall, TypeOK
  <2>2. WireIsTheStream' /\ Delivered' = Delivered
    BY <1>2, <1>t, WireKept DEF WriteCall
  <2>3. CountsAreTrue'
    BY <1>2, <1>t, <2>2 DEF WriteCall, CountsAreTrue, Position
  <2>4. InCall'
    BY <1>2, <1>t DEF WriteCall, InCall, TypeOK
  <2>5. QED
    BY <2>1, <2>2, <2>3, <2>4 DEF Inv
<1>3. ASSUME FlushNoSink PROVE Inv'
  BY <1>3, <1>t, PlainReturn DEF FlushNoSink, TypeOK
<1>4. ASSUME FlushEmpty PROVE Inv'
  BY <1>4, <1>t, PlainReturn DEF FlushEmpty, TypeOK
<1>5. ASSUME FlushEncode PROVE Inv'
  <2> DEFINE b == [i \in 1..FrameSamples |->
                     IF i <= streamBufLen THEN streamBuf[i] ELSE 0]
  <2>1. b \in Frame /\ fed \in Nat
    BY <1>t DEF TypeOK, Frame
  <2>2. fed = Delivered + streamBufLen
    BY <1>5, <1>t DEF FlushEncode, InCall, CountsAreTrue, Position, TypeOK
  <2>3. b = Segment(Delivered, Delivered + streamBufLen)
    BY <1>t DEF CountsAreTrue, Segment, TypeOK
  <2>4. streamBuf' = b /\ EncodeFrame(b, fed)
    BY <1>5 DEF FlushEncode
  <2> HIDE DEF b
  <2>5. /\ codec' \in Seq(Frame)
        /\ streamPacked' \in Payload
        /\ streamPacked'.pcm = b
        /\ streamPacked'.upto = fed
    BY <1>t, <2>1, <2>4, EncodeFrameTypes
  <2>6. TypeOK'
    BY <1>5, <1>t, <2>1, <2>4, <2>5 DEF FlushEncode, TypeOK
  <2>7. WireIsTheStream' /\ Delivered' = Delivered
    BY <1>5, <1>t, WireKept DEF FlushEncode
  <2>8. CountsAreTrue'
    <3>1. \A i \in 1..streamBufLen : b[i] = Delivered + i
      BY <1>t, <2>3 DEF Segment, TypeOK
    <3>2. QED
      BY <1>5, <1>t, <2>4, <2>7, <3>1
         DEF FlushEncode, CountsAreTrue, Position
  <2>9. InCall'
    BY <1>5, <1>t, <2>2, <2>3, <2>5, <2>7
       DEF FlushEncode, InCall, PackedUpTo
  <2>10. QED
    BY <2>6, <2>7, <2>8, <2>9 DEF Inv
<1>6. ASSUME DirectEncode PROVE Inv'
  <2>1. Append(codec, Silence) \in Seq(Frame)
    BY <1>t DEF TypeOK, Silence, Frame
  <2>2. QED
    BY <1>6, <1>t, <2>1, PlainReturn DEF DirectEncode, TypeOK
<1>7. ASSUME NEW e \in {"ErrShortPCM", "ErrShortOutput"}, DirectRefused(e)
      PROVE  Inv'
  BY <1>7, <1>t, PlainReturn DEF DirectRefused, TypeOK
<1>8. ASSUME Reset PROVE Inv'
  <2>1. Silence \in Frame /\ Unsent \in Payload
    BY DEF Silence, Unsent, Frame, Payload
  <2>2. TypeOK'
    BY <1>8, <1>t, <2>1 DEF Reset, TypeOK
  <2>3. WireIsTheStream'
    BY <1>8 DEF Reset, WireIsTheStream
  <2>4. CountsAreTrue'
    BY <1>8, <1>t DEF Reset, CountsAreTrue, InCall, Position, Delivered
  <2>5. InCall'
    BY <1>8, <1>t DEF Reset, InCall
  <2>6. QED
    BY <2>2, <2>3, <2>4, <2>5 DEF Inv
<1>9. ASSUME DrainShort PROVE Inv'
  <2>1. /\ left \in Nat /\ streamBufLen \in Nat
        /\ streamBufLen + left < FrameSamples
        /\ consumed = 0
        /\ CopyToBuf(streamBufLen, left)
    BY <1>9, <1>t DEF DrainShort, TypeOK, InCall, Need
  <2>2. /\ streamBuf' \in Frame
        /\ \A i \in 1..FrameSamples :
             streamBuf'[i] = IF i \in (streamBufLen + 1)..(streamBufLen + left)
                             THEN Position + (i - streamBufLen)
                             ELSE streamBuf[i]
    BY <1>t, <2>1, CopyToBufFills
  <2>3. TypeOK'
    BY <1>9, <1>t, <2>1, <2>2 DEF DrainShort, Return, TypeOK
  <2>4. WireIsTheStream' /\ Delivered' = Delivered
    BY <1>9, <1>t, WireKept DEF DrainShort
  <2>5. CountsAreTrue'
    <3>1. Position' = Delivered + streamBufLen + left
      BY <1>9, <1>t, <2>1
         DEF DrainShort, Return, Position, CountsAreTrue, TypeOK
    <3>2. ASSUME NEW i \in 1..(streamBufLen + left)
          PROVE  streamBuf'[i] = Delivered + i
      <4>1. CASE i \in 1..streamBufLen
        BY <1>t, <2>1, <2>2, <4>1 DEF CountsAreTrue
      <4>2. CASE i \in (streamBufLen + 1)..(streamBufLen + left)
        BY <1>t, <2>1, <2>2, <4>2 DEF CountsAreTrue
      <4>3. QED
        BY <2>1, <4>1, <4>2
    <3>3. streamBufLen' = streamBufLen + left
      BY <1>9 DEF DrainShort
    <3>4. QED
      BY <1>t, <2>1, <2>4, <3>1, <3>2, <3>3 DEF CountsAreTrue
  <2>6. InCall'
    BY <1>9 DEF DrainShort, Return, InCall
  <2>7. QED
    BY <2>3, <2>4, <2>5, <2>6 DEF Inv
<1>10. ASSUME DrainEncode PROVE Inv'
  <2>1. /\ left \in Nat /\ streamBufLen \in Nat /\ Need \in Nat
        /\ streamBufLen + Need = FrameSamples
        /\ consumed = 0
        /\ CopyToBuf(streamBufLen, Need)
        /\ Position + Need = Delivered + FrameSamples
    BY <1>10, <1>t DEF DrainEncode, TypeOK, InCall, Need, CountsAreTrue
  <2>2. /\ streamBuf' \in Frame
        /\ \A i \in 1..FrameSamples :
             streamBuf'[i] = IF i \in (streamBufLen + 1)..(streamBufLen + Need)
                             THEN Position + (i - streamBufLen)
                             ELSE streamBuf[i]
    BY <1>t, <2>1, CopyToBufFills
  <2>3. ASSUME NEW i \in 1..FrameSamples
        PROVE  streamBuf'[i] = Delivered + i
    <3>1. CASE i \in 1..streamBufLen
      BY <1>t, <2>1, <2>2, <3>1 DEF CountsAreTrue
    <3>2. CASE i \in (streamBufLen + 1)..(streamBufLen + Need)
      BY <1>t, <2>1, <2>2, <3>2 DEF CountsAreTrue
    <3>3. QED
      BY <2>1, <3>1, <3>2
  <2>4. streamBuf' = Segment(Delivered, Delivered + FrameSamples)
    BY <1>t, <2>2, <2>3 DEF Segment, Frame
  <2>5. /\ codec' \in Seq(Frame)
        /\ streamPacked' \in Payload
        /\ streamPacked'.pcm = streamBuf'
        /\ streamPacked'.upto = Position + Need
    <3>1. EncodeFrame(streamBuf', Position + Need)
      BY <1>10 DEF DrainEncode
    <3>2. Position + Need \in Nat
      BY <1>t, <2>1
    <3> DEFINE b == streamBuf'
    <3>3. b \in Frame /\ EncodeFrame(b, Position + Need)
      BY <2>2, <3>1
    <3> HIDE DEF b
    <3>4. /\ codec' \in Seq(Frame)
          /\ streamPacked' \in Payload
          /\ streamPacked'.pcm = b
          /\ streamPacked'.upto = Position + Need
      BY <1>t, <3>2, <3>3 DEF EncodeFrame, TypeOK, Payload
    <3>5. QED
      BY <3>4 DEF b
  <2>6. TypeOK'
    BY <1>10, <1>t, <2>2, <2>5 DEF DrainEncode, TypeOK
  <2>7. WireIsTheStream' /\ Delivered' = Delivered
    BY <1>10, <1>t, WireKept DEF DrainEncode
  <2>8. CountsAreTrue'
    BY <1>10, <1>t, <2>1, <2>3, <2>7 DEF DrainEncode, CountsAreTrue, Position
  <2>9. InCall'
    BY <1>10, <1>t, <2>1, <2>4, <2>5, <2>7
       DEF DrainEncode, InCall, PackedUpTo, Need
  <2>10. QED
    BY <2>6, <2>7, <2>8, <2>9 DEF Inv
<1>11. ASSUME DrainSinkOk PROVE Inv'
  <2>1. /\ PackedUpTo(Delivered + FrameSamples)
        /\ consumed = 0 /\ left >= Need
    BY <1>11, <1>t DEF DrainSinkOk, InCall
  <2>2. /\ wire' \in Seq(Payload)
        /\ WireIsTheStream'
        /\ Delivered' = Delivered + FrameSamples
    BY <1>11, <1>t, <2>1, WireGrows DEF DrainSinkOk
  <2>3. TypeOK'
    BY <1>11, <1>t, <2>1, <2>2 DEF DrainSinkOk, TypeOK
  <2>4. CountsAreTrue'
    BY <1>11, <1>t, <2>1, <2>2
       DEF DrainSinkOk, CountsAreTrue, Position, Need, TypeOK
  <2>5. InCall'
    BY <1>11, <1>t DEF DrainSinkOk, InCall
  <2>6. QED
    BY <2>2, <2>3, <2>4, <2>5 DEF Inv
<1>12. ASSUME LoopEncode PROVE Inv'
  <2>1. streamBufLen = 0 /\ Position = Delivered
    BY <1>12, <1>t DEF LoopEncode, InCall, CountsAreTrue
  <2> DEFINE b == Segment(Position, Position + FrameSamples)
  <2>2. b \in Frame /\ Position + FrameSamples \in Nat
    BY <1>t, SegmentIsFrame
  <2>3. EncodeFrame(b, Position + FrameSamples)
    BY <1>12 DEF LoopEncode
  <2>4. b = Segment(Delivered, Delivered + FrameSamples)
    BY <2>1
  <2> HIDE DEF b
  <2>5. /\ codec' \in Seq(Frame)
        /\ streamPacked' \in Payload
        /\ streamPacked'.pcm = b
        /\ streamPacked'.upto = Position + FrameSamples
    BY <1>t, <2>2, <2>3, EncodeFrameTypes
  <2>6. TypeOK'
    BY <1>12, <1>t, <2>5 DEF LoopEncode, TypeOK
  <2>7. WireIsTheStream' /\ Delivered' = Delivered
    BY <1>12, <1>t, WireKept DEF LoopEncode
  <2>8. CountsAreTrue'
    BY <1>12, <1>t, <2>7 DEF LoopEncode, CountsAreTrue, Position
  <2>9. InCall'
    BY <1>12, <1>t, <2>1, <2>4, <2>5, <2>7
       DEF LoopEncode, InCall, PackedUpTo
  <2>10. QED
    BY <2>6, <2>7, <2>8, <2>9 DEF Inv
<1>13. ASSUME LoopSinkOk PROVE Inv'
  <2>1. /\ PackedUpTo(Delivered + FrameSamples)
        /\ streamBufLen = 0 /\ left >= FrameSamples
    BY <1>13, <1>t DEF LoopSinkOk, InCall
  <2>2. /\ wire' \in Seq(Payload)
        /\ WireIsTheStream'
        /\ Delivered' = Delivered + FrameSamples
    BY <1>13, <1>t, <2>1, WireGrows DEF LoopSinkOk
  <2>3. TypeOK'
    BY <1>13, <1>t, <2>1, <2>2 DEF LoopSinkOk, TypeOK
  <2>4. CountsAreTrue'
    BY <1>13, <1>t, <2>1, <2>2
       DEF LoopSinkOk, CountsAreTrue, Position, TypeOK
  <2>5. InCall'
    BY <1>13, <2>1 DEF LoopSinkOk, InCall
  <2>6. QED
    BY <2>2, <2>3, <2>4, <2>5 DEF Inv
<1>14. ASSUME WriteTail PROVE Inv'
  <2>1. /\ left \in Nat /\ left < FrameSamples
        /\ streamBufLen = 0 /\ streamBufLen' = left
        /\ Position = Delivered
        /\ CopyToBuf(0, left)
    BY <1>14, <1>t DEF WriteTail, InCall, TypeOK, CountsAreTrue
  <2>2. /\ streamBuf' \in Frame
        /\ \A i \in 1..FrameSamples :
             streamBuf'[i] = IF i \in (0 + 1)..(0 + left)
                             THEN Position + (i - 0) ELSE streamBuf[i]
    BY <1>t, <2>1, CopyToBufFills
  <2>3. TypeOK'
    BY <1>14, <1>t, <2>1, <2>2 DEF WriteTail, Return, TypeOK
  <2>4. WireIsTheStream' /\ Delivered' = Delivered
    BY <1>14, <1>t, WireKept DEF WriteTail
  <2>5. CountsAreTrue'
    <3>1. Position' = Delivered + left
      BY <1>14, <1>t, <2>1 DEF WriteTail, Return, Position, TypeOK
    <3>2. QED
      BY <1>t, <2>1, <2>2, <2>4, <3>1 DEF CountsAreTrue
  <2>6. InCall'
    BY <1>14 DEF WriteTail, Return, InCall
  <2>7. QED
    BY <2>3, <2>4, <2>5, <2>6 DEF Inv
<1>15. ASSUME FlushSinkOk PROVE Inv'
  <2>1. /\ PackedUpTo(Delivered + streamBufLen)
        /\ consumed = 0 /\ streamBufLen \in 1..FrameSamples
    BY <1>15, <1>t DEF FlushSinkOk, InCall, TypeOK
  <2>2. /\ wire' \in Seq(Payload)
        /\ WireIsTheStream'
        /\ Delivered' = Delivered + streamBufLen
    BY <1>15, <1>t, <2>1, WireGrows DEF FlushSinkOk
  <2>3. TypeOK'
    BY <1>15, <1>t, <2>2 DEF FlushSinkOk, Return, TypeOK
  <2>4. CountsAreTrue'
    BY <1>15, <1>t, <2>1, <2>2
       DEF FlushSinkOk, Return, CountsAreTrue, Position, TypeOK
  <2>5. InCall'
    BY <1>15 DEF FlushSinkOk, Return, InCall
  <2>6. QED
    BY <2>2, <2>3, <2>4, <2>5 DEF Inv
<1>16. ASSUME SinkError PROVE Inv'
  <2>1. TypeOK'
    BY <1>16, <1>t DEF SinkError, Return, TypeOK
  <2>2. WireIsTheStream' /\ Delivered' = Delivered
    BY <1>16, <1>t, WireKept DEF SinkError
  <2>3. CountsAreTrue'
    BY <1>16, <1>t, <2>2 DEF SinkError, Return, CountsAreTrue, Position, TypeOK
  <2>4. InCall'
    BY <1>16 DEF SinkError, Return, InCall
  <2>5. QED
    BY <2>1, <2>2, <2>3, <2>4 DEF Inv
<1>17. CASE UNCHANGED vars
  <2>1. WireIsTheStream' /\ Delivered' = Delivered
    BY <1>17, <1>t, WireKept DEF vars
  <2>2. TypeOK' /\ CountsAreTrue' /\ InCall'
    BY <1>17, <1>t, <2>1
       DEF vars, TypeOK, CountsAreTrue, Position, InCall, PackedUpTo, Need
  <2>3. QED
    BY <2>1, <2>2 DEF Inv
<1>18. QED
  BY <1>1, <1>2, <1>3, <1>4, <1>5, <1>6, <1>7, <1>8, <1>9, <1>10, <1>11,
     <1>12, <1>13, <1>14, <1>15, <1>16, <1>17 DEF Next, Call, Progress

\* The strengthened invariant holds of every behaviour.
THEOREM InvHolds == Spec => []Inv
  BY InitInv, StepInv, PTL DEF Spec

\* The variables keep their types; in particular the tail never grows to a
\* whole frame, so no index of streamBuf is ever out of range.
THEOREM TypeCorrect == Spec => []TypeOK
  BY InvHolds, PTL DEF Inv

\* Whatever the sizes of the writes and the failures of the sink, the frames
\* on the wire are the caller's samples, in order, each once.
THEOREM WireCorrect == Spec => []WireIsTheStream
  BY InvHolds, PTL DEF Inv

\* The counts returned by Write account for every sample: it is on the wire or
\* in the tail, where the next frame will take it from.
THEOREM CountsCorrect == Spec => []CountsAreTrue
  BY InvHolds, PTL DEF Inv

-----------------------------------------------------------------------------
(* Refinement.                                                             *)

\* The PCM of the frames on the wire: what the abstract stream calls frames.
Sent(w) == [j \in 1..Len(w) |-> w[j].pcm]

\* Of what was sent, the abstract stream sees the samples: none yet,
LEMMA SentNothing == Sent(<< >>) = << >>
  BY DEF Sent

\* one frame for each payload,
LEMMA SentFrames ==
  ASSUME NEW w \in Seq(Payload)
  PROVE  /\ Sent(w) \in Seq(Frame)
         /\ Len(Sent(w)) = Len(w)
         /\ \A j \in 1..Len(w) : Sent(w)[j] = w[j].pcm
<1>1. Len(w) \in Nat /\ \A j \in 1..Len(w) : w[j] \in Payload
  OBVIOUS
<1>2. \A j \in 1..Len(w) : w[j].pcm \in Frame
  BY <1>1 DEF Payload
<1>3. Sent(w) \in [1..Len(w) -> Frame]
  BY <1>2 DEF Sent
<1>4. Sent(w) \in Seq(Frame)
  BY <1>1, <1>3
<1>5. QED
  BY <1>1, <1>3, <1>4 DEF Sent

\* one more with each.
LEMMA SentAppend ==
  ASSUME NEW w \in Seq(Payload), NEW p \in Payload
  PROVE  Sent(Append(w, p)) = Append(Sent(w), p.pcm)
<1>1. /\ Append(w, p) \in Seq(Payload)
      /\ Len(Append(w, p)) = Len(w) + 1
      /\ Append(w, p)[Len(w) + 1] = p
      /\ \A j \in 1..Len(w) : Append(w, p)[j] = w[j]
      /\ Len(w) \in Nat
  OBVIOUS
<1>2. Sent(w) \in Seq(Frame) /\ Len(Sent(w)) = Len(w)
  BY SentFrames
<1>3. p.pcm \in Frame
  BY DEF Payload
<1>4. /\ Append(Sent(w), p.pcm) \in Seq(Frame)
      /\ Len(Append(Sent(w), p.pcm)) = Len(w) + 1
      /\ Append(Sent(w), p.pcm)[Len(w) + 1] = p.pcm
      /\ \A j \in 1..Len(w) : Append(Sent(w), p.pcm)[j] = w[j].pcm
  BY <1>1, <1>2, <1>3, SentFrames
<1>5. /\ Sent(Append(w, p)) \in Seq(Frame)
      /\ Len(Sent(Append(w, p))) = Len(w) + 1
      /\ Sent(Append(w, p))[Len(w) + 1] = p.pcm
      /\ \A j \in 1..Len(w) : Sent(Append(w, p))[j] = w[j].pcm
  <2> DEFINE v == Append(w, p)
  <2> HIDE DEF v
  <2>1. /\ v \in Seq(Payload) /\ Len(v) = Len(w) + 1
        /\ v[Len(w) + 1] = p
        /\ \A j \in 1..Len(w) : v[j] = w[j]
    BY <1>1 DEF v
  <2>2. /\ Sent(v) \in Seq(Frame)
        /\ Len(Sent(v)) = Len(v)
        /\ \A j \in 1..Len(v) : Sent(v)[j] = v[j].pcm
    BY <2>1, SentFrames
  <2>3. QED
    BY <1>1, <2>1, <2>2 DEF v
<1>6. QED
  BY <1>1, <1>4, <1>5

\* A frame the sink accepts is one the abstract stream emits or drains.
LEMMA SinkAccepts ==
  ASSUME Inv, NEW b \in Nat, PackedUpTo(b),
         Delivered < b, b <= Delivered + FrameSamples,
         wire' = Append(wire, streamPacked)
  PROVE  /\ Delivered' = b
         /\ Sent(wire)' = Append(Sent(wire), Segment(Delivered, b))
<1>1. Delivered' = b
  BY WireGrows DEF Inv
<1>2. wire \in Seq(Payload) /\ streamPacked \in Payload
  BY DEF Inv, TypeOK
<1>3. Sent(wire)' = Append(Sent(wire), streamPacked.pcm)
  BY <1>2, SentAppend
<1>4. QED
  BY <1>1, <1>3 DEF PackedUpTo

\* Every step is one of the abstract stream, or none.
LEMMA StepRefines == Inv /\ [Next]_vars => [Abstract!Next]_(Abstract!vars)
<1> SUFFICES ASSUME Inv, [Next]_vars
             PROVE  Abstract!Next \/ UNCHANGED Abstract!vars
  OBVIOUS
<1> USE StreamAssumption
<1>t. /\ TypeOK /\ CountsAreTrue /\ InCall
      /\ Delivered \in Nat /\ Need \in 1..FrameSamples
  BY DeliveredNat DEF Inv, TypeOK, Need
<1>s. ASSUME wire' = wire, streamBufLen' = streamBufLen
      PROVE  UNCHANGED Abstract!vars
  BY <1>s, WireKept DEF Abstract!vars
<1>h. ASSUME wire' = wire, streamBufLen' = streamBufLen + left,
             streamBufLen + left < FrameSamples
      PROVE  Abstract!Next \/ UNCHANGED Abstract!vars
  <2>1. left \in Nat /\ streamBufLen \in Nat
    BY <1>t DEF TypeOK
  <2>2. CASE left = 0
    BY <1>h, <1>s, <2>1, <2>2
  <2>3. CASE left > 0
    <3>1. Abstract!Hold(left)
      BY <1>h, WireKept DEF Abstract!Hold
    <3>2. left \in 1..FrameSamples
      BY <1>h, <2>1, <2>3
    <3>3. QED
      BY <3>1, <3>2 DEF Abstract!Next
  <2>4. QED
    BY <2>1, <2>2, <2>3
<1>e. ASSUME PackedUpTo(Delivered + FrameSamples),
             wire' = Append(wire, streamPacked), streamBufLen' = 0
      PROVE  Abstract!Emit
  <2>1. /\ Delivered' = Delivered + FrameSamples
        /\ Sent(wire)' = Append(Sent(wire),
                                Segment(Delivered, Delivered + FrameSamples))
    BY <1>t, <1>e, SinkAccepts
  <2>2. QED
    BY <1>e, <2>1 DEF Abstract!Emit, Sent, Segment, Abstract!Segment
<1>1. ASSUME Call PROVE Abstract!Next \/ UNCHANGED Abstract!vars
  <2>1. CASE Reset
    <3>1. Delivered' = 0 /\ Sent(wire)' = << >> /\ streamBufLen' = 0
      BY <2>1, SentNothing DEF Reset, Delivered
    <3>2. Abstract!Restart
      BY <3>1 DEF Abstract!Restart, Sent
    <3>3. QED
      BY <3>2 DEF Abstract!Next
  <2>2. CASE ~Reset
    BY <1>1, <1>s, <2>2
       DEF Call, WriteNoSink, WriteCall, FlushNoSink, FlushEmpty, FlushEncode,
           DirectEncode, DirectRefused
  <2>3. QED
    BY <2>1, <2>2
<1>2. ASSUME Progress PROVE Abstract!Next \/ UNCHANGED Abstract!vars
  <2>1. CASE DrainShort
    BY <1>h, <1>t, <2>1 DEF DrainShort, Need, TypeOK
  <2>2. CASE DrainEncode \/ LoopEncode
    BY <1>s, <2>2 DEF DrainEncode, LoopEncode
  <2>3. CASE DrainSinkOk \/ LoopSinkOk
    <3>1. Abstract!Emit
      BY <1>e, <1>t, <2>3 DEF DrainSinkOk, LoopSinkOk, InCall
    <3>2. QED
      BY <3>1 DEF Abstract!Next
  <2>4. CASE WriteTail
    BY <1>h, <1>t, <2>4 DEF WriteTail, InCall, TypeOK
  <2>5. CASE FlushSinkOk
    <3>1. /\ PackedUpTo(Delivered + streamBufLen)
          /\ streamBufLen \in 1..FrameSamples
          /\ wire' = Append(wire, streamPacked)
          /\ streamBufLen' = 0
      BY <1>t, <2>5 DEF FlushSinkOk, InCall, TypeOK
    <3>2. /\ Delivered' = Delivered + streamBufLen
          /\ Sent(wire)' = Append(Sent(wire),
                                  Segment(Delivered, Delivered + streamBufLen))
      BY <1>t, <3>1, SinkAccepts
    <3>3. Abstract!Drain
      BY <3>1, <3>2 DEF Abstract!Drain, Sent, Segment, Abstract!Segment
    <3>4. QED
      BY <3>3 DEF Abstract!Next
  <2>6. QED
    BY <1>2, <2>1, <2>2, <2>3, <2>4, <2>5 DEF Progress
<1>3. ASSUME SinkError PROVE UNCHANGED Abstract!vars
  BY <1>3, <1>s DEF SinkError
<1>4. CASE UNCHANGED vars
  BY <1>4, <1>s DEF vars
<1>5. QED
  BY <1>1, <1>2, <1>3, <1>4 DEF Next

\* Write, Flush and Reset implement the abstract stream, for every sequence of
\* calls and of sink failures.
THEOREM Refinement == Spec => ImplementsFrameStream
<1>1. Init => Abstract!Init
  BY SentNothing DEF Init, Abstract!Init, Delivered, Sent
<1>2. QED
  BY <1>1, StepRefines, InvHolds, PTL DEF Spec, ImplementsFrameStream,
     Abstract!Spec

-----------------------------------------------------------------------------
(* The codec and the wire.                                                 *)

\* The calls in progress that have encoded a frame the sink has not answered.
HandingOver == at \in {"drainSink", "loopSink", "flushSink"}

\* A step that leaves the codec, the wire and the two counts alone, and neither
\* starts nor ends a handover.
LEMMA MirrorKept ==
  ASSUME CodecMirrorsWire, UNCHANGED <<codec, wire, sinkErrors, direct>>,
         ~HandingOver, ~HandingOver'
  PROVE  CodecMirrorsWire'
  BY DEF CodecMirrorsWire, HandingOver

\* The codec encodes a frame that the sink is handed next.
LEMMA MirrorEncodes ==
  ASSUME CodecMirrorsWire, NEW pcm, NEW upto, EncodeFrame(pcm, upto),
         UNCHANGED <<wire, sinkErrors, direct>>, ~HandingOver, HandingOver'
  PROVE  CodecMirrorsWire'
  BY DEF CodecMirrorsWire, HandingOver, EncodeFrame

\* The sink accepts the frame it was handed.
LEMMA MirrorSends ==
  ASSUME TypeOK, CodecMirrorsWire, wire' = Append(wire, streamPacked),
         UNCHANGED <<codec, sinkErrors, direct>>, HandingOver, ~HandingOver'
  PROVE  CodecMirrorsWire'
<1>1. wire \in Seq(Payload) /\ streamPacked \in Payload
  BY DEF TypeOK
<1>2. Sent(wire)' = Append(Sent(wire), streamPacked.pcm)
  BY <1>1, SentAppend
<1>3. sinkErrors = 0 /\ direct = 0 => codec = Append(Sent(wire), streamPacked.pcm)
  BY DEF CodecMirrorsWire, HandingOver, Sent
<1>4. QED
  BY <1>2, <1>3 DEF CodecMirrorsWire, HandingOver, Sent

\* The codec and the sink move together while no sink fails.
LEMMA StepMirrors == Inv /\ CodecMirrorsWire /\ [Next]_vars => CodecMirrorsWire'
<1> SUFFICES ASSUME Inv, CodecMirrorsWire, [Next]_vars
             PROVE  CodecMirrorsWire'
  OBVIOUS
<1>t. TypeOK /\ sinkErrors \in Nat /\ direct \in Nat
  BY DEF Inv, TypeOK
<1>1. ASSUME WriteNoSink \/ FlushNoSink \/ FlushEmpty PROVE CodecMirrorsWire'
  BY <1>1, MirrorKept DEF WriteNoSink, FlushNoSink, FlushEmpty, Return, HandingOver
<1>2. ASSUME NEW n \in 0..MaxWrite, WriteCall(n) PROVE CodecMirrorsWire'
  BY <1>2, MirrorKept DEF WriteCall, HandingOver
<1>3. ASSUME FlushEncode PROVE CodecMirrorsWire'
  BY <1>3, MirrorEncodes DEF FlushEncode, HandingOver
<1>4. ASSUME DirectEncode PROVE CodecMirrorsWire'
  BY <1>4, <1>t DEF DirectEncode, CodecMirrorsWire
<1>5. ASSUME NEW e, DirectRefused(e) PROVE CodecMirrorsWire'
  BY <1>5, MirrorKept DEF DirectRefused, Return, HandingOver
<1>6. ASSUME Reset PROVE CodecMirrorsWire'
  <2>1. Sent(wire)' = << >> /\ codec' = << >> /\ ~HandingOver'
    BY <1>6, SentNothing DEF Reset, HandingOver
  <2>2. QED
    BY <2>1 DEF CodecMirrorsWire, HandingOver, Sent
<1>7. ASSUME DrainShort \/ WriteTail PROVE CodecMirrorsWire'
  BY <1>7, MirrorKept DEF DrainShort, WriteTail, Return, HandingOver
<1>8. ASSUME DrainEncode \/ LoopEncode PROVE CodecMirrorsWire'
  BY <1>8, MirrorEncodes DEF DrainEncode, LoopEncode, HandingOver
<1>9. ASSUME DrainSinkOk \/ LoopSinkOk \/ FlushSinkOk PROVE CodecMirrorsWire'
  BY <1>9, <1>t, MirrorSends
     DEF DrainSinkOk, LoopSinkOk, FlushSinkOk, Return, HandingOver
<1>10. ASSUME SinkError PROVE CodecMirrorsWire'
  BY <1>10, <1>t DEF SinkError, CodecMirrorsWire
<1>11. CASE UNCHANGED vars
  BY <1>11 DEF vars, CodecMirrorsWire
<1>12. QED
  BY <1>1, <1>2, <1>3, <1>4, <1>5, <1>6, <1>7, <1>8, <1>9, <1>10, <1>11
     DEF Next, Call, Progress

\* While the sink has lost no frame and the owner encoded none aside, the codec
\* has encoded exactly the frames of the wire, in their order, and the one the
\* sink is being handed, whatever the writes and flushes between.
THEOREM CodecMirrorsTheWire == Spec => []CodecMirrorsWire
<1>1. Init => CodecMirrorsWire
  BY SentNothing DEF Init, CodecMirrorsWire, Sent
<1>2. QED
  BY <1>1, InvHolds, StepMirrors, PTL DEF Spec
=============================================================================
