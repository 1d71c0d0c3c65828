------------------------------- MODULE RtpWeb -------------------------------
(***************************************************************************)
(* The page of cmd/g729rtpweb and the command g729rtpcheck -mode payload.  *)
(* A user sends the page a recording, downloads the payload it was coded   *)
(* to, perhaps not all of it, and has page and command check the file.     *)
(*                                                                         *)
(* What the codec makes of a frame depends on all frames before it: the    *)
(* code of a frame is the sequence of PCM frames coded so far, a decoder   *)
(* the sequence it has decoded, and it is in step when the two agree.  An  *)
(* external decoder (FFmpeg) is whatever it answers.                       *)
(***************************************************************************)
EXTENDS Integers, Sequences, FiniteSets
LOCAL INSTANCE SequencesExt

CONSTANTS
  WebFrame,      \* samples of a frame (80)
  StrictLevel,   \* what DecodeFrame makes of a coded sample
  EnhancedLevel, \* what DecodeFrameEnhanced makes of it
  Recordings,    \* sequences of samples a user may send
  Ptimes,        \* packet times a user may name
  FileTails,     \* bytes of an unfinished last frame a download may end in
  NearSilence,   \* RMS below which a recording is too quiet (8)
  PreviewCap,    \* samples a preview holds (8 minutes)
  MaxShift,      \* delay searched between two decoders (240)
  ExactRatio,    \* ratio a comparison without any noise counts as (99 dB)
  References(_)  \* what FFmpeg may make of a payload that decodes to this

ASSUME RtpWebAssumption ==
  /\ WebFrame \in Nat \ {0} /\ PreviewCap \in Nat /\ MaxShift \in Nat
  /\ NearSilence \in Nat /\ FileTails \subseteq 0 .. 9
  /\ ExactRatio \in (Nat \ {0}) \X (Nat \ {0})
  /\ LET pcm == DOMAIN StrictLevel
     IN  /\ 0 \in pcm /\ pcm \subseteq Int
         /\ StrictLevel \in [pcm -> Int] /\ EnhancedLevel \in [pcm -> Int]
         /\ \A r \in Recordings : r \in Seq(pcm)

VARIABLES
  recording,  \* what the user sent for a round trip
  file,       \* the payload file: its whole frames and the bytes after them
  trip,       \* answer to the round trip
  checked     \* answers to the checks of the file: the page's, the command's

webVars == <<recording, file, trip, checked>>

-----------------------------------------------------------------------------
(* The codec as the tools use it. *)

Garbled == [i \in 1 .. WebFrame |-> 77]

Rendered(level, heard, code) ==
  IF heard = Front(code) THEN [i \in 1 .. WebFrame |-> level[Last(code)[i]]]
  ELSE Garbled

\* A Decoder of its own has heard the frames before frame k.
Heard(payload, k) == [i \in 1 .. k - 1 |-> Last(payload[i])]

\* decodeEnhancedPayload, and AnalyzePayloadStream's and runRoundtrip's decoder.
DecodePayload(level, payload) ==
  FlattenSeq([k \in DOMAIN payload |-> Rendered(level, Heard(payload, k), payload[k])])

\* Mutant: the listening aid decodes with the strict decoder.
PageHeardShared(payload, k) ==
  [i \in 1 .. 2 * (k - 1) |-> Last(payload[(i + 1) \div 2])]

\* Strict and listening decoder of checkPayload have heard the same frames.
PageHeard(payload, k) == Heard(payload, k)

PageDecode(level, payload) ==
  FlattenSeq([k \in DOMAIN payload |-> Rendered(level, PageHeard(payload, k), payload[k])])

\* EncodeFrame over whole frames.
EncodeFrames(samples) ==
  LET pcm == [k \in 1 .. Len(samples) \div WebFrame |->
                SubSeq(samples, (k - 1) * WebFrame + 1, k * WebFrame)]
  IN  [k \in DOMAIN pcm |-> SubSeq(pcm, 1, k)]

-----------------------------------------------------------------------------
(* Measures. *)

SumSquares(s) ==
  LET sum[i \in 0 .. Len(s)] == IF i = 0 THEN 0 ELSE sum[i - 1] + s[i] * s[i]
  IN  sum[Len(s)]

Differences(s, t) ==
  [i \in 1 .. IF Len(t) < Len(s) THEN Len(t) ELSE Len(s) |-> s[i] - t[i]]

\* A ratio of signal to noise, <<1, 0>> when there is no noise.
SnrDB(in, out) ==
  LET d == Differences(in, out)
      noise == SumSquares(d)
      signal == SumSquares(SubSeq(in, 1, Len(d)))
  IN  CASE d = <<>> -> <<1, 1>>
        [] d # <<>> /\ noise = 0 -> <<1, 0>>
        [] d # <<>> /\ noise > 0 /\ signal = 0 -> <<1, 1>>
        [] OTHER -> <<signal, noise>>

\* Infinity becomes a number, and no other ratio is limited to that number.
FiniteDB(ratio) == IF ratio[2] = 0 THEN ExactRatio ELSE ratio

\* Ratios are compared as they are, not by their logarithms.
Exceeds(a, b) == a[1] * b[2] > b[1] * a[2]

\* Mutant: the later of the two is the reference.
AlignedSlicesSwapped(ref, test, shift) ==
  LET r == IF shift >= 0 THEN 0 ELSE -shift
      t == IF shift >= 0 THEN shift ELSE 0
      n == IF Len(test) - t < Len(ref) - r THEN Len(test) - t ELSE Len(ref) - r
  IN  IF n <= 0 THEN << <<>>, <<>> >>
      ELSE <<SubSeq(ref, t + 1, t + n), SubSeq(test, r + 1, r + n)>>

\* The parts of ref and test that overlap when test is read shift samples later.
AlignedSlices(ref, test, shift) ==
  LET r == IF shift >= 0 THEN 0 ELSE -shift
      t == IF shift >= 0 THEN shift ELSE 0
      n == IF Len(test) - t < Len(ref) - r THEN Len(test) - t ELSE Len(ref) - r
  IN  IF n <= 0 THEN << <<>>, <<>> >>
      ELSE <<SubSeq(ref, r + 1, r + n), SubSeq(test, t + 1, t + n)>>

SnrAt(ref, test, shift) ==
  LET s == AlignedSlices(ref, test, shift) IN FiniteDB(SnrDB(s[1], s[2]))

\* bestAlignedQuality: the first shift no later one exceeds.
BestAlignedQuality(ref, test) ==
  LET tried == {s \in -MaxShift .. MaxShift : AlignedSlices(ref, test, s)[1] # <<>>}
      best == {s \in tried : \A u \in tried :
                 /\ ~Exceeds(SnrAt(ref, test, u), SnrAt(ref, test, s))
                 /\ u < s => Exceeds(SnrAt(ref, test, s), SnrAt(ref, test, u))}
  IN  IF tried = {} THEN [shift |-> 0, snr |-> <<1, 1>>]
      ELSE LET s == CHOOSE s \in best : TRUE
           IN  [shift |-> s, snr |-> SnrAt(ref, test, s)]

\* pcmStats and rms say zero only of silence.
IsZero(samples) == \A i \in DOMAIN samples : samples[i] = 0

-----------------------------------------------------------------------------
(* Requests. *)

FramesForPTime(ptime) == CASE ptime = 10 -> 1 [] ptime = 20 -> 2 [] OTHER -> 0

AllOK(checks) == \A i \in DOMAIN checks : checks[i]

PacketsOf(frames, perPacket) ==
  frames \div perPacket + IF frames % perPacket # 0 THEN 1 ELSE 0

Failure == [ok |-> FALSE, packets |-> 0, frames |-> 0, strict |-> <<>>,
            enhanced |-> <<>>, reference |-> [shift |-> 0, snr |-> <<1, 1>>]]

FileBytes(f) == 10 * Len(f.frames) + f.extra

\* Mutant: any file as long as a frame will do.
FrameSizeAny(bytes) == bytes >= 10

FrameSize(bytes) == bytes % 10 = 0

Preview(samples) ==
  SubSeq(samples, 1, IF Len(samples) < PreviewCap THEN Len(samples) ELSE PreviewCap)

\* checkPayload and handlePayload: errors become an answer that is not OK.
CheckPayload(f, ptime, decode, reference) ==
  LET perPacket == FramesForPTime(ptime)
      strict == IF decode THEN PageDecode(StrictLevel, f.frames) ELSE <<>>
      enhanced == IF decode THEN PageDecode(EnhancedLevel, f.frames) ELSE <<>>
      preview == Preview(strict)
      theirs == Preview(reference)
      n == IF Len(theirs) < Len(preview) THEN Len(theirs) ELSE Len(preview)
  IN  IF perPacket = 0 \/ FileBytes(f) = 0 \/ ~FrameSize(FileBytes(f)) THEN Failure
      ELSE [ok |-> AllOK(<<~decode \/ ~IsZero(strict)>>),
            packets |-> PacketsOf(Len(f.frames), perPacket),
            frames |-> Len(f.frames),
            strict |-> preview,
            enhanced |-> Preview(enhanced),
            reference |-> IF n = 0 THEN Failure.reference
                          ELSE BestAlignedQuality(SubSeq(theirs, 1, n),
                                                  SubSeq(preview, 1, n))]

\* AnalyzePayloadStream: the command's answer to the same file.
AnalyzePayloadStream(f, ptime, decode) ==
  LET packetBytes == 10 * FramesForPTime(ptime)
      bytes == FileBytes(f)
  IN  IF packetBytes = 0 \/ bytes = 2 \/ bytes % packetBytes # 0
      THEN [ok |-> FALSE, packets |-> 0, frames |-> 0, decoded |-> <<>>]
      ELSE [ok |-> TRUE, packets |-> bytes \div packetBytes,
            frames |-> bytes \div 10,
            decoded |-> IF decode THEN DecodePayload(StrictLevel, f.frames) ELSE <<>>]

\* Rejected by handleRoundtrip or runRoundtrip.
NoTrip == [ok |-> FALSE, body |-> TRUE, packets |-> 0, encoded |-> <<>>,
           strict |-> <<>>, enhanced |-> <<>>, shift |-> 0]

\* Zeros close the last frame.
PaddedPCM(samples) == samples \o [i \in 1 .. (-Len(samples)) % WebFrame |-> 0]

\* runRoundtrip: the measures are those of the samples sent, without the
\* padding.  An infinite ratio cannot be encoded as JSON: writeJSON has sent the
\* status by then and the answer has no body.  reference is FFmpeg's decoding,
\* empty when it was not asked for or is not to be had.
RunRoundtrip(samples, odd, ptime, reference) ==
  LET n == Len(samples)
      encoded == EncodeFrames(PaddedPCM(samples))
      strict == DecodePayload(StrictLevel, encoded)
      enhanced == DecodePayload(EnhancedLevel, encoded)
      heard == SubSeq(strict, 1, n)
      loudEnough == SumSquares(samples) >= NearSilence * NearSilence * n
      faint == 400 * SumSquares(heard) < SumSquares(samples)
      infinite(out) == SnrDB(samples, out) = <<1, 0>>
  IN  IF FramesForPTime(ptime) = 0 \/ n = 0 \/ odd THEN NoTrip
      ELSE [ok |-> AllOK(<<loudEnough, ~IsZero(heard), ~(loudEnough /\ faint)>>),
            body |-> ~infinite(strict) /\ ~infinite(enhanced)
                      /\ ~infinite(reference),
            packets |-> PacketsOf(Len(encoded), FramesForPTime(ptime)),
            encoded |-> encoded, strict |-> strict, enhanced |-> enhanced,
            shift |-> BestAlignedQuality(samples, heard).shift]

-----------------------------------------------------------------------------
NoFile == [frames |-> <<>>, extra |-> 0]

WebInit ==
  /\ recording = <<>> /\ file = NoFile /\ trip = NoTrip
  /\ checked = <<>>

\* POST /api/roundtrip; the payload comes with the answer, if that has a body.
AskRoundtrip(samples, odd, ptime, reference) ==
  LET answer == RunRoundtrip(samples, odd, ptime, reference)
  IN  /\ recording = <<>>
      /\ recording' = <<[samples |-> samples, ptime |-> ptime]>>
      /\ trip' = answer
      /\ file' = [frames |-> IF answer.body THEN answer.encoded ELSE <<>>, extra |-> 0]
      /\ UNCHANGED checked

\* The file kept is the beginning of the payload.
CutFile(n, extra) ==
  /\ checked = <<>> /\ n < Len(file.frames)
  /\ file' = [frames |-> SubSeq(file.frames, 1, n), extra |-> extra]
  /\ UNCHANGED <<recording, trip, checked>>

\* POST /api/payload, and the command on the same file.
CheckFile(ptime, decode) ==
  /\ recording # <<>> /\ checked = <<>>
  /\ \E reference \in References(DecodePayload(StrictLevel, file.frames)) :
       checked' = <<[page |-> CheckPayload(file, ptime, decode, reference),
                     command |-> AnalyzePayloadStream(file, ptime, decode),
                     ptime |-> ptime, decode |-> decode, reference |-> reference]>>
  /\ UNCHANGED <<recording, file, trip>>

WebNext ==
  \/ \E samples \in Recordings, odd \in BOOLEAN, ptime \in Ptimes :
       LET decoded == DecodePayload(StrictLevel, EncodeFrames(PaddedPCM(samples)))
       IN  \E reference \in {<<>>} \cup References(decoded) :
             AskRoundtrip(samples, odd, ptime, reference)
  \/ \E n \in 0 .. Len(file.frames), extra \in FileTails : CutFile(n, extra)
  \/ \E ptime \in Ptimes, decode \in BOOLEAN : CheckFile(ptime, decode)

WebSpec == WebInit /\ [][WebNext]_webVars

-----------------------------------------------------------------------------
(* Properties. *)

\* Page and command say the same of a payload file, with the same numbers, but
\* for three files: one whose last packet of 20 ms is half empty (the page plays
\* it), an empty one and, when it is decoded, a silent one (the command takes
\* both); cmd/g729rtpweb/main.go 419-566 and rtpcheck.go 98-149.
ToolsAgree ==
  \A i \in DOMAIN checked :
    LET page == checked[i].page
        command == checked[i].command
        silent == checked[i].decode /\ IsZero(command.decoded)
    IN  /\ page.ok /\ command.ok =>
             /\ page.packets = command.packets /\ page.frames = command.frames
             /\ page.strict = Preview(command.decoded)
        /\ page.ok /\ ~command.ok =>
             checked[i].ptime = 20 /\ file.extra = 0 /\ Len(file.frames) % 2 = 1
        /\ command.ok /\ ~page.ok => FileBytes(file) = 0 \/ silent

\* What the page played as the round trip of a recording is what it plays of the
\* payload it gave out, in both renderings and as far as the file kept goes; an
\* undamaged one has as many packets, and passes if the recording did
\* (main.go 647-700 and 470-503).
PayloadPlaysTheRoundtrip ==
  \A i \in DOMAIN checked :
    LET page == checked[i].page
        samples == WebFrame * Len(file.frames)
    IN  /\ page.frames > 0 /\ checked[i].decode =>
             /\ page.strict = Preview(SubSeq(trip.strict, 1, samples))
             /\ page.enhanced = Preview(SubSeq(trip.enhanced, 1, samples))
        /\ file.frames = trip.encoded /\ checked[i].ptime = recording[1].ptime =>
             /\ page.packets = trip.packets
             /\ trip.ok => page.ok

\* When the other decoder made the same signal, only later, by no more than the
\* search covers, the ratio reported is never below what an exact match counts as.
\* The samples compared then agree exactly, the other's read later by that delay
\* or by more; or they differ, and the delay was passed over for a shift whose
\* finite ratio is as high or higher, strictly so after the delay (main.go
\* 945-989: what is compared has been through finiteDB, 1030-1040; the test
\* TestBestAlignedQualityFindsShift has one delay).
DelayIsFound ==
  \A i \in DOMAIN checked :
    LET page == checked[i].page
        theirs == checked[i].reference
    IN  \A d \in 0 .. MaxShift :
          /\ page.strict # <<>> /\ d < Len(page.strict)
          /\ Len(theirs) = Len(page.strict)
          /\ \A k \in d + 1 .. Len(theirs) : theirs[k] = page.strict[k - d]
          => LET s == page.reference.shift
                 snr == page.reference.snr
                 compared == AlignedSlices(theirs, page.strict, s)
             IN  /\ compared[1] # <<>>
                 /\ \/ compared[1] = compared[2] /\ snr = ExactRatio /\ s <= -d
                    \/ /\ compared[1] # compared[2]
                       /\ ~Exceeds(ExactRatio, snr)
                       /\ s <= -d \/ Exceeds(snr, ExactRatio)
=============================================================================
