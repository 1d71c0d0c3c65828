-------------------------- MODULE StreamingEncoder --------------------------
(***************************************************************************)
(* The streaming Encoder: NewStreamingEncoder, Write, Flush, Reset, and    *)
(* the EncodeFrame they share with callers that bring their own buffers.   *)
(*                                                                         *)
(* The sink is an io.Writer that may fail, so a call is several steps: the *)
(* codec has already encoded a frame (and moved on) when the sink answers, *)
(* and the answer decides whether the frame counts.                        *)
(*                                                                         *)
(* Abstractions.  A sample is its position in the caller's stream (0 is    *)
(* silence), so the slice a call still has to consume is known from how    *)
(* many samples were consumed before.  The caller resumes where the        *)
(* returned counts say it should.  The state of the codec (LPC history,    *)
(* predictors, excitation...) is the sequence of frames it has encoded     *)
(* since initState; a packed frame is the PCM it was made from, with the   *)
(* number of frames that codec had encoded.                                *)
(***************************************************************************)
EXTENDS Integers, Sequences

CONSTANTS
  FrameSamples,   \* samples in a frame (80 in the code)
  MaxWrite,       \* longest slice the caller passes to Write
  MaxFed,         \* samples the caller feeds before it stops or resets
  MaxSinkErrors,  \* failures of the sink in a behaviour
  MaxDirect       \* calls of EncodeFrame by the owner of the encoder

ASSUME StreamAssumption ==
  /\ FrameSamples \in Nat \ {0}
  /\ MaxWrite \in Nat /\ MaxFed \in Nat
  /\ MaxSinkErrors \in Nat /\ MaxDirect \in Nat

VARIABLES
  streamSink,    \* whether a sink is attached
  streamBuf,     \* the PCM tail buffer, FrameSamples wide
  streamBufLen,  \* how many of its samples are valid
  streamPacked,  \* the packed frame scratch
  codec,         \* frames encoded since initState, oldest first
  wire,          \* frames the sink accepted since the last Reset
  at,            \* where the call in progress is ("idle": no call)
  left,          \* samples of the caller's slice not yet consumed
  consumed,      \* the count Write will return
  fed,           \* samples reported consumed since the last Reset
  err,           \* error returned by the last call
  sinkErrors,    \* failures of the sink so far
  direct         \* direct EncodeFrame calls since the last Reset

vars == <<streamSink, streamBuf, streamBufLen, streamPacked, codec, wire, at,
          left, consumed, fed, err, sinkErrors, direct>>

Segment(a, b) ==
  [i \in 1..FrameSamples |-> IF a + i <= b THEN a + i ELSE 0]

Silence == [i \in 1..FrameSamples |-> 0]

Unsent == [pcm |-> Silence, at |-> 0, upto |-> 0]

\* The position of the caller's stream after everything consumed so far.
Position == fed + consumed

\* The position the last accepted frame brought the sink to.
Delivered == IF wire = << >> THEN 0 ELSE wire[Len(wire)].upto

-----------------------------------------------------------------------------
\* NewEncoder leaves the sink nil, NewStreamingEncoder attaches one.
Init ==
  /\ streamSink \in BOOLEAN
  /\ streamBuf = Silence
  /\ streamBufLen = 0
  /\ streamPacked = Unsent
  /\ codec = << >>
  /\ wire = << >>
  /\ at = "idle"
  /\ left = 0
  /\ consumed = 0
  /\ fed = 0
  /\ err = "nil"
  /\ sinkErrors = 0
  /\ direct = 0

\* EncodeFrame(pcm, streamPacked): the codec moves on, whatever becomes of the
\* frame.  upto is the stream position the frame carries the sink to.
EncodeFrame(pcm, upto) ==
  /\ codec' = Append(codec, pcm)
  /\ streamPacked' = [pcm |-> pcm, at |-> Len(codec) + 1, upto |-> upto]

\* A call returns count n and error e to the caller.
Return(n, e) ==
  /\ at' = "idle"
  /\ left' = 0
  /\ consumed' = 0
  /\ fed' = fed + n
  /\ err' = e

-----------------------------------------------------------------------------
(* Write, entry: the sink is checked before anything is touched.           *)

WriteNoSink ==
  /\ at = "idle"
  /\ ~streamSink
  /\ Return(0, "ErrNoStreamSink")
  /\ UNCHANGED <<streamSink, streamBuf, streamBufLen, streamPacked, codec,
                 wire, sinkErrors, direct>>

WriteCall(n) ==
  /\ at = "idle"
  /\ streamSink
  /\ fed + n <= MaxFed
  /\ at' = IF streamBufLen > 0 THEN "drain" ELSE "loop"
  /\ left' = n
  /\ UNCHANGED <<streamSink, streamBuf, streamBufLen, streamPacked, codec,
                 wire, consumed, fed, err, sinkErrors, direct>>

(* Write, the pre-existing partial buffer.                                 *)

Need == FrameSamples - streamBufLen

\* copy(streamBuf[from:], samples[:n])
CopyToBuf(from, n) ==
  streamBuf' = [i \in 1..FrameSamples |->
                  IF i \in (from + 1)..(from + n) THEN Position + (i - from)
                                                  ELSE streamBuf[i]]

\* Mutant: a slice that just fills the frame is treated as one that does not.
DrainShortInclusive ==
  /\ at = "drain"
  /\ left <= Need
  /\ CopyToBuf(streamBufLen, left)
  /\ streamBufLen' = streamBufLen + left
  /\ Return(left, "nil")
  /\ UNCHANGED <<streamSink, streamPacked, codec, wire, sinkErrors, direct>>

DrainShort ==
  /\ at = "drain"
  /\ left < Need
  /\ CopyToBuf(streamBufLen, left)
  /\ streamBufLen' = streamBufLen + left
  /\ Return(left, "nil")
  /\ UNCHANGED <<streamSink, streamPacked, codec, wire, sinkErrors, direct>>

DrainEncode ==
  /\ at = "drain"
  /\ left >= Need
  /\ CopyToBuf(streamBufLen, Need)
  /\ EncodeFrame(streamBuf', Position + Need)
  /\ at' = "drainSink"
  /\ UNCHANGED <<streamSink, streamBufLen, wire, left, consumed, fed, err,
                 sinkErrors, direct>>

\* Mutant: the tail that has just been sent stays in the buffer.
DrainSinkOkKeepsTail ==
  /\ at = "drainSink"
  /\ wire' = Append(wire, streamPacked)
  /\ left' = left - Need
  /\ consumed' = consumed + Need
  /\ at' = "loop"
  /\ UNCHANGED <<streamSink, streamBuf, streamBufLen, streamPacked, codec, fed,
                 err, sinkErrors, direct>>

DrainSinkOk ==
  /\ at = "drainSink"
  /\ wire' = Append(wire, streamPacked)
  /\ streamBufLen' = 0
  /\ left' = left - Need
  /\ consumed' = consumed + Need
  /\ at' = "loop"
  /\ UNCHANGED <<streamSink, streamBuf, streamPacked, codec, fed, err,
                 sinkErrors, direct>>

(* Write, the fast path: aligned frames straight from the slice.           *)

LoopEncode ==
  /\ at = "loop"
  /\ left >= FrameSamples
  /\ EncodeFrame(Segment(Position, Position + FrameSamples),
                 Position + FrameSamples)
  /\ at' = "loopSink"
  /\ UNCHANGED <<streamSink, streamBuf, streamBufLen, wire, left, consumed,
                 fed, err, sinkErrors, direct>>

LoopSinkOk ==
  /\ at = "loopSink"
  /\ wire' = Append(wire, streamPacked)
  /\ left' = left - FrameSamples
  /\ consumed' = consumed + FrameSamples
  /\ at' = "loop"
  /\ UNCHANGED <<streamSink, streamBuf, streamBufLen, streamPacked, codec,
                 fed, err, sinkErrors, direct>>

\* Mutant: with nothing left the loop goes round once more.
WriteTailSpins ==
  /\ at = "loop"
  /\ left < FrameSamples
  /\ IF left = 0
     THEN UNCHANGED vars
     ELSE /\ CopyToBuf(0, left)
          /\ streamBufLen' = left
          /\ Return(consumed + left, "nil")
          /\ UNCHANGED <<streamSink, streamPacked, codec, wire, sinkErrors,
                         direct>>

\* The trailing partial frame waits for the next call; Write returns.
WriteTail ==
  /\ at = "loop"
  /\ left < FrameSamples
  /\ CopyToBuf(0, left)
  /\ streamBufLen' = IF left > 0 THEN left ELSE streamBufLen
  /\ Return(consumed + left, "nil")
  /\ UNCHANGED <<streamSink, streamPacked, codec, wire, sinkErrors, direct>>

-----------------------------------------------------------------------------
(* Flush.                                                                  *)

FlushNoSink ==
  /\ at = "idle"
  /\ ~streamSink
  /\ Return(0, "ErrNoStreamSink")
  /\ UNCHANGED <<streamSink, streamBuf, streamBufLen, streamPacked, codec,
                 wire, sinkErrors, direct>>

FlushEmpty ==
  /\ at = "idle"
  /\ streamSink
  /\ streamBufLen = 0
  /\ Return(0, "nil")
  /\ UNCHANGED <<streamSink, streamBuf, streamBufLen, streamPacked, codec,
                 wire, sinkErrors, direct>>

\* Mutant: what follows the tail in the buffer is sent with it.
FlushEncodeUnpadded ==
  /\ at = "idle"
  /\ streamSink
  /\ streamBufLen > 0
  /\ EncodeFrame(streamBuf, fed)
  /\ at' = "flushSink"
  /\ UNCHANGED <<streamSink, streamBuf, streamBufLen, wire, left, consumed, fed,
                 err, sinkErrors, direct>>

\* Mutant: a tail of one sample is not worth a frame.
FlushEncodeOffByOne ==
  /\ at = "idle"
  /\ streamSink
  /\ streamBufLen > 1
  /\ streamBuf' = [i \in 1..FrameSamples |->
                     IF i <= streamBufLen THEN streamBuf[i] ELSE 0]
  /\ EncodeFrame(streamBuf', fed)
  /\ at' = "flushSink"
  /\ UNCHANGED <<streamSink, streamBufLen, wire, left, consumed, fed, err,
                 sinkErrors, direct>>

FlushEncode ==
  /\ at = "idle"
  /\ streamSink
  /\ streamBufLen > 0
  /\ streamBuf' = [i \in 1..FrameSamples |->
                     IF i <= streamBufLen THEN streamBuf[i] ELSE 0]
  /\ EncodeFrame(streamBuf', fed)
  /\ at' = "flushSink"
  /\ UNCHANGED <<streamSink, streamBufLen, wire, left, consumed, fed, err,
                 sinkErrors, direct>>

FlushSinkOk ==
  /\ at = "flushSink"
  /\ wire' = Append(wire, streamPacked)
  /\ streamBufLen' = 0
  /\ Return(0, "nil")
  /\ UNCHANGED <<streamSink, streamBuf, streamPacked, codec, sinkErrors,
                 direct>>

-----------------------------------------------------------------------------
\* Mutant: an error in the middle of a Write reports no sample consumed.
SinkErrorForgetsCount ==
  /\ at \in {"drainSink", "loopSink", "flushSink"}
  /\ sinkErrors < MaxSinkErrors
  /\ sinkErrors' = sinkErrors + 1
  /\ Return(0, "sinkError")
  /\ UNCHANGED <<streamSink, streamBuf, streamBufLen, streamPacked, codec,
                 wire, direct>>

\* The sink's Write fails: the call returns the count it had reached; the
\* tail buffer keeps its length and the codec keeps the frame it encoded.
SinkError ==
  /\ at \in {"drainSink", "loopSink", "flushSink"}
  /\ sinkErrors < MaxSinkErrors
  /\ sinkErrors' = sinkErrors + 1
  /\ Return(consumed, "sinkError")
  /\ UNCHANGED <<streamSink, streamBuf, streamBufLen, streamPacked, codec,
                 wire, direct>>

\* The owner encodes a frame of its own into its own buffer: the tail and the
\* sink are not involved, the codec is.
DirectEncode ==
  /\ at = "idle"
  /\ direct < MaxDirect
  /\ codec' = Append(codec, Silence)
  /\ direct' = direct + 1
  /\ Return(0, "nil")
  /\ UNCHANGED <<streamSink, streamBuf, streamBufLen, streamPacked, wire,
                 sinkErrors>>

\* EncodeFrame with a wrong length: refused before any state is touched.
DirectRefused(e) ==
  /\ at = "idle"
  /\ direct < MaxDirect
  /\ Return(0, e)
  /\ UNCHANGED <<streamSink, streamBuf, streamBufLen, streamPacked, codec,
                 wire, sinkErrors, direct>>

\* Mutant: Reset empties the stream state and forgets initState.
ResetKeepsCodec ==
  /\ at = "idle"
  /\ streamBuf' = Silence
  /\ streamBufLen' = 0
  /\ streamPacked' = Unsent
  /\ wire' = << >>
  /\ fed' = 0
  /\ direct' = 0
  /\ UNCHANGED <<streamSink, codec, at, left, consumed, err, sinkErrors>>

\* Reset: everything but the sink, and the codec's profile, starts again.
Reset ==
  /\ at = "idle"
  /\ streamBuf' = Silence
  /\ streamBufLen' = 0
  /\ streamPacked' = Unsent
  /\ codec' = << >>
  /\ wire' = << >>
  /\ fed' = 0
  /\ direct' = 0
  /\ UNCHANGED <<streamSink, at, left, consumed, err, sinkErrors>>

-----------------------------------------------------------------------------
Call ==
  \/ WriteNoSink
  \/ \E n \in 0..MaxWrite : WriteCall(n)
  \/ FlushNoSink
  \/ FlushEmpty
  \/ FlushEncode
  \/ DirectEncode
  \/ \E e \in {"ErrShortPCM", "ErrShortOutput"} : DirectRefused(e)
  \/ Reset

\* The steps a call in progress takes by itself.
Progress ==
  \/ DrainShort \/ DrainEncode \/ DrainSinkOk
  \/ LoopEncode \/ LoopSinkOk \/ WriteTail
  \/ FlushSinkOk

Next == Call \/ Progress \/ SinkError

Spec == Init /\ [][Next]_vars

\* The code runs the call it is in; the sink answers; and callers eventually
\* call Flush, as NewStreamingEncoder's documentation requires of them.
FairSpec == Spec /\ WF_vars(Progress \/ SinkError) /\ SF_vars(FlushEncode)

-----------------------------------------------------------------------------
(* Properties.                                                             *)

Frame == [1..FrameSamples -> Nat]
Payload == [pcm : Frame, at : Nat, upto : Nat]

\* Types of the variables; the tail is never a whole frame.
TypeOK ==
  /\ streamSink \in BOOLEAN
  /\ streamBuf \in Frame
  /\ streamBufLen \in 0..(FrameSamples - 1)
  /\ streamPacked \in Payload
  /\ codec \in Seq(Frame)
  /\ wire \in Seq(Payload)
  /\ at \in {"idle", "drain", "drainSink", "loop", "loopSink", "flushSink"}
  /\ left \in Nat
  /\ consumed \in Nat
  /\ fed \in Nat
  /\ err \in {"nil", "ErrNoStreamSink", "sinkError", "ErrShortPCM",
              "ErrShortOutput"}
  /\ sinkErrors \in Nat
  /\ direct \in Nat

\* The position before frame j of the frames w.
Before(w, j) == IF j = 1 THEN 0 ELSE w[j - 1].upto

\* No sample is lost, repeated or reordered, whatever the sizes of the writes
\* and however often the sink fails and the caller resumes from the returned
\* count: the frames on the wire are the caller's stream cut at increasing
\* positions, each holding exactly its samples and then silence.
WireIsTheStream ==
  \A j \in 1..Len(wire) :
    /\ Before(wire, j) < wire[j].upto
    /\ wire[j].upto <= Before(wire, j) + FrameSamples
    /\ wire[j].pcm = Segment(Before(wire, j), wire[j].upto)

\* The counts Write returns are true: the samples the caller was told were
\* consumed are those on the wire and those in the tail, also after an error
\* in the middle of a call and after a tail was overwritten by the copy of a
\* Write that then failed.
CountsAreTrue ==
  /\ Position = Delivered + streamBufLen
  /\ \A i \in 1..streamBufLen : streamBuf[i] = Delivered + i

\* As long as no frame was lost between the codec and the sink and the owner
\* encoded nothing aside, the codec has encoded the frames of the wire, in
\* that order, and at most the one the sink is being handed.
CodecMirrorsWire ==
  sinkErrors = 0 /\ direct = 0 =>
    LET sent == [j \in 1..Len(wire) |-> wire[j].pcm]
    IN  codec = IF at \in {"drainSink", "loopSink", "flushSink"}
                THEN Append(sent, streamPacked.pcm)
                ELSE sent

\* lpcStep says the state it advances "matches what the receiver will see":
\* every frame the receiver gets was encoded by a codec that had encoded
\* exactly the frames the receiver got before it.
ReceiverLockStep ==
  \A j \in 1..Len(wire) : wire[j].at = j

\* Every call returns: the loop of Write consumes its slice.
EveryCallReturns == (at # "idle") ~> (at = "idle")

\* Samples in the tail leave it when the caller keeps calling Flush, though
\* the sink may fail on the way.
TailDrains == (streamBufLen > 0) ~> (streamBufLen = 0)

\* The code implements the abstract stream: each step of Write and Flush holds
\* samples, emits one full frame, drains one short frame, or changes nothing.
Abstract == INSTANCE FrameStream WITH
  frames <- [j \in 1..Len(wire) |-> wire[j].pcm],
  delivered <- Delivered,
  held <- streamBufLen

ImplementsFrameStream == Abstract!Spec
=============================================================================
