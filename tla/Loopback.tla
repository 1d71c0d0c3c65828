----------------------------- MODULE Loopback ------------------------------
(***************************************************************************)
(* The WebAssembly binding, cmd/g729wasm: a page records in chunks, each   *)
(* chunk goes through a streaming encoder whose sink is the stream itself, *)
(* and what was encoded is decoded at once and played.                     *)
(*                                                                         *)
(* A sample is its number in the order the page sent them, 0 one that Flush*)
(* padded; a frame is the sequence of samples it codes.  What the codec    *)
(* makes of a frame depends on all frames before it: an encoder and a      *)
(* decoder are the sequences of frames they have coded since they were     *)
(* made, and a payload is playable when the two are the same.              *)
(***************************************************************************)
EXTENDS Integers, Sequences
LOCAL INSTANCE SequencesExt

CONSTANTS
  LoopFrame,      \* samples of a frame (80)
  ChunkBytes,     \* bytes a page may pass to write
  MaxSent,        \* bound of the model: samples a page sends
  MaxFlushes      \* bound of the model: flushes between two resets

ASSUME LoopbackAssumption ==
  /\ LoopFrame \in Nat \ {0}
  /\ ChunkBytes \subseteq Nat /\ MaxSent \in Nat /\ MaxFlushes \in Nat

VARIABLES
  tail,         \* the encoder's streamBuf
  coded,        \* frames the encoder has coded
  encoded,      \* loopbackStream.encoded: frames not yet decoded
  heardFrames,  \* frames the decoder has decoded
  inputSamples, encodedFrames, decodedSamples, \* the three totals
  sentSamples,  \* samples sent since the last reset
  flushes,      \* flushes since the last reset
  answer        \* what the last call returned to the page

loopVars == <<tail, coded, encoded, heardFrames, inputSamples, encodedFrames,
              decodedSamples, sentSamples, flushes, answer>>

-----------------------------------------------------------------------------
Padded(s) == s \o [i \in 1 .. LoopFrame - Len(s) |-> 0]

FrameOf(s, k) == SubSeq(s, (k - 1) * LoopFrame + 1, k * LoopFrame)

WholeFrames(s) == [k \in 1 .. Len(s) \div LoopFrame |-> FrameOf(s, k)]

Rest(s) == SubSeq(s, LoopFrame * (Len(s) \div LoopFrame) + 1, Len(s))

\* roundTripPCM16: one call for a whole recording, the last frame padded.
RoundTrip(samples) ==
  LET count == (Len(samples) + LoopFrame - 1) \div LoopFrame
  IN  [k \in 1 .. count |->
         IF k * LoopFrame <= Len(samples) THEN FrameOf(samples, k)
         ELSE Padded(SubSeq(samples, (k - 1) * LoopFrame + 1, Len(samples)))]

\* Mutant: what is encoded stays in the buffer after it is decoded.
LeftOver(pending) == pending

AfterDecoding(pending) == <<>>

\* bufferedSamples, as the page is told.
Buffered(input, frames) ==
  LET b == input - frames * LoopFrame
  IN  IF b < 0 THEN 0 ELSE b

\* consumeEncoded and result: everything encoded is decoded, and the totals
\* are those of the whole stream.
Answer(input, pending) ==
  LET n == Len(pending)
  IN  /\ heardFrames' = heardFrames \o pending
      /\ encoded' = AfterDecoding(pending)
      /\ encodedFrames' = encodedFrames + n
      /\ decodedSamples' = decodedSamples + n * LoopFrame
      /\ answer' = [ok |-> TRUE, frames |-> n,
                    buffered |-> Buffered(input, encodedFrames + n)]

LoopInit ==
  /\ tail = <<>> /\ coded = <<>> /\ encoded = <<>> /\ heardFrames = <<>>
  /\ inputSamples = 0 /\ encodedFrames = 0 /\ decodedSamples = 0
  /\ sentSamples = 0 /\ flushes = 0
  /\ answer = [ok |-> TRUE, frames |-> 0, buffered |-> 0]

\* stream.write: an odd number of bytes is refused before anything happens.
LoopWrite(bytes) ==
  IF bytes % 2 # 0
  THEN /\ answer' = [ok |-> FALSE, frames |-> 0, buffered |-> 0]
       /\ UNCHANGED <<tail, coded, encoded, heardFrames, inputSamples,
                      encodedFrames, decodedSamples, sentSamples, flushes>>
  ELSE LET n == bytes \div 2
           samples == tail \o [i \in 1 .. n |-> sentSamples + i]
           new == WholeFrames(samples)
       IN  /\ sentSamples + n <= MaxSent
           /\ tail' = Rest(samples)
           /\ coded' = coded \o new
           /\ inputSamples' = inputSamples + n
           /\ sentSamples' = sentSamples + n
           /\ Answer(inputSamples + n, encoded \o new)
           /\ UNCHANGED flushes

\* stream.flush: the tail is padded and coded; with no tail nothing is coded.
LoopFlush ==
  LET new == IF tail = <<>> THEN <<>> ELSE <<Padded(tail)>>
  IN  /\ flushes < MaxFlushes
      /\ flushes' = flushes + 1
      /\ tail' = <<>>
      /\ coded' = coded \o new
      /\ Answer(inputSamples, encoded \o new)
      /\ UNCHANGED <<inputSamples, sentSamples>>

\* Mutant: the decoder outlives the reset.
ResetDecoderKept == heardFrames

ResetDecoder == <<>>

\* stream.reset: a new encoder, a new decoder, and the totals start again.
LoopReset ==
  /\ tail' = <<>> /\ coded' = <<>> /\ encoded' = <<>>
  /\ heardFrames' = ResetDecoder
  /\ inputSamples' = 0 /\ encodedFrames' = 0 /\ decodedSamples' = 0
  /\ sentSamples' = 0 /\ flushes' = 0
  /\ answer' = [ok |-> TRUE, frames |-> 0, buffered |-> 0]

LoopNext ==
  \/ \E bytes \in ChunkBytes : LoopWrite(bytes)
  \/ LoopFlush
  \/ LoopReset

LoopSpec == LoopInit /\ [][LoopNext]_loopVars

-----------------------------------------------------------------------------
(* Properties. *)

\* Whatever chunks the page sends, after a flush it has heard exactly what one
\* call of roundTripPCM16 would have played, by a decoder that has decoded what
\* the encoder has coded since both were made; only a flush in the middle makes
\* a difference (main_js.go 36-92 and 133-220).
ChunksDoNotMatter ==
  /\ heardFrames = coded
  /\ tail = <<>> /\ (\A k \in DOMAIN coded : 0 \in ToSet(coded[k]) => k = Len(coded)) =>
       heardFrames = RoundTrip([i \in 1 .. sentSamples |-> i])
=============================================================================
