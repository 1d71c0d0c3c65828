# Verification of the g729 codec

The repository is a fixed-point G.729 Annex A speech codec in Go: a library
(`encoder*.go`, `decoder_root.go` over `internal/`), command-line tools that load
it, inspect RTP captures made with it or compile it to WebAssembly (`cmd/`), and
examples. A frame is 80 samples (10 ms) of 16-bit PCM and 10 bytes on the wire.
This directory models the parts of it whose correctness is a matter of *state
over time*: what is kept from one call, subframe or frame to the next, who else
may touch it, and what the other side of the link believes it to be. Sample
arithmetic that only computes a value from values is abstracted to what the
properties tell apart.

## 1. Inventory

| component | state it keeps | operations | interacts with | what is hard |
|---|---|---|---|---|
| streaming encoder (`encoder_streaming.go`) | PCM tail `streamBuf`/`streamBufLen`, frame scratch, sink | `Write`, `Flush`, `Reset` | the codec through `EncodeFrame`; an `io.Writer` that may fail | any split of the stream into writes; a failure between encoding and sending |
| encoder pipeline (`encoder.go`) | speech and excitation history, LSP and gain predictors, a simulated LSP decoder, search budgets, cooldowns | `EncodeFrame` = `lpcStep`, `openloopStep`, `closedloopStep` ×2 (`fcbStep` inside) | every `internal/` package | its copy of the decoder's state must be the decoder's |
| decoder paths (`decoder_root.go`, `internal/decoder`) | excitation history, previous gains, delay and random seed for concealment, filter memories | `DecodeFrame`, `DecodeFrameEnhanced`, `DecodeFramePostfilterBlend`, `Reset` | `lsp`, `gain`, `pitch`, `fcb`, `synth`, `postfilter` | damaged and lost frames; paths mixed on one decoder |
| saturating arithmetic (`internal/fixed`) | **one package variable**, the sticky overflow flag | all saturating operations; `ClearOverflow`, `Overflow` | every instance in the process | shared by streams on different goroutines |
| synthesis filter (`internal/synth`) | ten samples of memory, the scale shift of the last run | `Filter` | the flag; the caller commits the shift | recovery decided from shared state |
| pitch (`internal/pitch`, `closedloop`, `openloop`) | none (the caller's) | windows, searches, refinement, `EncodeP0/P1/P2`, `DecodeDelay*`, interpolation | both sides | edges of the codebooks; reads at the ends of the history |
| line spectra (`internal/lsp`, `lpc`) | four past residuals, the last spectrum and predictor | quantise, decode, erase | three copies: quantiser, the Encoder's own decoder, receiver | drift between the copies; erasures; sums near 32 bits |
| gains (`internal/gain`, `gainquant`) | four past prediction errors | search, pack, decode, erase | both sides hold a copy; the repair plays candidates through a third | the same, and costs near 64 bits |
| fixed codebook (`internal/fcb`, `fcbsearch`) | none; the Encoder's budget for a frame | search, rank, pack, build, sharpen | the two subframes of a frame; the receiver's builder | a budget shared by two searches; ties |
| decoder in the loop (`encoder.go`: `qualityRerankFCBPositions`, `qualityRepairGainClip`) | the simulated decoder's state | play, score, compare, commit | every package of the decoder | several variables that must be of the same candidate |
| bitstream, G.192 (`internal/bitstream`) | bit positions, the position in a file | `Pack`, `Unpack`, writer, two frame readers, loader | files, tools | finding the next frame after one that is damaged or cut |
| postfilter, input filter (`internal/postfilter`, `pcm`) | filter and gain-control memories | `Filter` | decoder, encoder | — |
| RTP checker (`internal/rtpcheck`, `cmd/g729rtpcheck`) | per SSRC: last sequence number and timestamp, a decoder | check of a capture, check of a payload file | decoder | wraparound, interleaved senders, malformed packets |
| RTP tools (`cmd/g729rtpfixture`, `g729rtpreport`, `g729rtpreportcheck`, `g729rtpweb`) | the fixture's senders; none between requests of the page | build a capture, report, verdict; round trip, payload check | checker, codec, FFmpeg | two tools that judge the same file; four codecs in one request |
| load test (`cmd/g729loadtest`) | per-stream schedule and statistics | a goroutine per stream, a merged report | encoders and decoders | runs streams concurrently; late wakes and catching up |
| WebAssembly binding (`cmd/g729wasm`) | loopback streams: an encoder, a decoder, three totals | write, flush, reset, one-shot round trip | streaming encoder, decoder | derived counters; parts that must restart together |

What would be a bug, component by component: a streaming encoder that loses,
repeats or reorders a sample or misreports how many it consumed; two sides of a
link that use different delays for a frame that arrived intact; a delay that
sends the interpolation filter out of its buffer (there are checks that then
substitute zero, silently); a stream whose output depends on another stream; a
recovery the filter announces and the decoder does not carry out; a predictor
memory of the encoder that is not the decoder's; a budget the first subframe
uses up; a gain that leaves its range after many lost frames; a search that
drops the best candidate for an overflow, a tie or its budget; a repair that
commits the indices of one candidate and the state of another; a spectrum no
stable filter can be made of; a checker that passes a broken capture or fails an
intact one; a damaged frame in a file that takes the next one with it; a load
test that passes with missed deadlines or never ends.

`PROJECT.json` lists each component with its status and each hazard at its line.

## 2. Modules

| module | what it is |
|---|---|
| `FrameStream` | abstract specification: what the sink and the caller of the streaming encoder are promised |
| `StreamingEncoder` | `Write`, `Flush`, `Reset`, direct `EncodeFrame`, a sink that fails |
| `StreamingEncoder_proofs` | its invariant, four safety theorems, the refinement of `FrameStream` |
| `SharedOverflow` | the overflow flag, several codec instances, several goroutines |
| `MCSharedOverflow` | its instances for TLC |
| `SharedOverflow_proofs` | isolation on one goroutine |
| `PitchCodec` | windows, codewords, parity and filter bounds as operators |
| `PitchLink` | the delays of a stream from the search to the decoder over a link with bit errors and losses; extends `PitchCodec` |
| `Wire_proofs` | agreement, filter bounds and bit-error containment of `PitchLink`; the readers and the loader of `SerialFile` |
| `CodecMirror` | excitation history, pitch gain and gain predictor of the Encoder, of the decoder it simulates and of the Decoder, over a link that damages and loses frames |
| `MCCodecMirror` | its instances for TLC |
| `CodecMirror_proofs` | types, lock step, the simulated decoder, resynchronisation of the gain predictors, the fading of lost frames |
| `LspMirror`, `MCLspMirror` | line spectra: both quantisers, their three copies of the predictor memory, decoding, stability, erasure, Reset |
| `Quantiser_proofs` | of `LspMirror` (the quantiser agrees with the Encoder's decoder; the receiver resynchronises; spectra stay stable; a concealed frame stands for the last; the joint search is no worse) and of `GainSearch` (costs stay in the word) |
| `FcbSearch`, `MCFcbSearch` | the fixed codebook of a frame: three searches, a budget, the packed fields, the receiver's vector |
| `GainSearch`, `MCGainSearch` | the conjugate gain search in words of fixed width |
| `GainRepair`, `MCGainRepair` | the rerank of pulses and the repair of gains by playing candidates, under every profile's policy |
| `SerialFile`, `MCSerialFile` | frames as bits and G.192 words, files with faults, the two readers and the loader |
| `RtpCheck`, `MCRtpCheck` | senders, network, capture, checker, report, verdict |
| `RtpWeb`, `MCRtpWeb` | the page's round trip and payload check, the command's check of the same file |
| `Loopback` | the browser's loopback stream and one-shot round trip |
| `LoadTest` | the load generator's streams, report and exit code |
| `Search_proofs` | of `GainRepair` (clipping, one pair) and `FcbSearch` (the budget, the pulses, the criterion, the best of the budget, the ranking) |
| `Tools_proofs` | of `Loopback`, `LoadTest`, `RtpCheck` and `RtpWeb` |
| `Induction` | induction over sets of naturals, that recursive functions exist, two facts on quotients and sums |
| `Components` | the nine components above that share no state, one at a time, for one run of TLC |

Operators marked *Mutant* in a module are not part of the model: each is a
plausible bug in the definition below it, kept to show that a property notices.

### StreamingEncoder

A sample is its position in the caller's stream, so "exactly once and in order"
is visible in the frames themselves. The codec's state is the sequence of frames
it has encoded since `initState`, which is what it is a function of. A call is
several steps because the codec moves on *before* the sink answers: `DrainEncode`
then `DrainSinkOk` or `SinkError`; `LoopEncode` then `LoopSinkOk` or `SinkError`;
`FlushEncode` then `FlushSinkOk` or `SinkError`. `left` and `consumed` are the
locals `samples` and `consumed` of `Write`. The caller resumes from the count a
call returned. `EncodeFrame` refuses wrong lengths before it touches any state
(`DirectRefused`) and cannot fail after that, so the streaming calls have no
encoder error path.

`CountsAreTrue` and `WireIsTheStream` say that nothing is lost, repeated or
misreported. `CodecMirrorsWire` says that without sink errors and without direct
calls the codec has encoded exactly what the sink got. `ImplementsFrameStream`
says every step of `Write`, `Flush` and `Reset` is a step of the abstract stream:
hold samples, emit one full frame, drain one short frame, restart, or nothing.

### SharedOverflow

A step is one access to the flag with the private work around it. A stream is an
instance; `On` assigns it to the goroutine that calls it, which runs one call at a
time. Outside the filter, any saturating operation may set the flag; in the
filter's passes, whether the arithmetic saturates is a choice of the
environment. `took` records what each filter run decided, `alone` what it would
have decided with a flag of its own. Decoders in `Strict` are driven by
`DecodeFrame`, which applies the shift to its history; the others by the listening
paths (and by the encoder's simulated decoder), which do not. Real executions of
the data race may do more than these interleavings, never less, so the run that
violates `StreamIsolation` stands and the one that confirms it has one goroutine.

### PitchCodec and PitchLink

Searches maximise correlations that are not modelled: an integer search returns
any lag in its window, a refinement any candidate it looks at. What is modelled
is which delays can come out, how they are written and read back, and what the
decoder remembers. `Searches` covers the Annex A search (`core`), the normalised
search with its wide window and pruned candidates (`wide`: profiles `Quality` and
`QualityAnnexALSP`) and the clip repair (`repair`), a tuning no shipped profile
switches on. The link delivers, flips one bit (one the parity covers, one of P1 it
does not, one of P2) or loses a frame. The decoder is the strict one, with its
parity check, its concealed delay and its memory, or one of the listening paths,
which ignore both the parity and the loss and leave the memory alone; the three
may alternate on one decoder.

### CodecMirror

The codec works because three copies of the same memory are advanced alike: the
Encoder's (`oldExc`, `prevGpQ14`, `pastQuaEn`, committed by `fcbStep`), the one of the
decoder it simulates to score gain repairs (`qualityPastExc`, `qualityPrevGpQ14`,
`qualityGainDec`) and the Decoder's (`pastExc`, `prevGpQ14`, `gn.pastErrors`, and
`prevFixedGainQ14` to conceal with). `Remember` is what one subframe does to any of
them; the three differ in which gains they pass to it, and that is what the
module is about. An Encoder action is a subframe: `KeepGains` commits the pair the
search chose, `RepairGains` the pair `qualityRepairGainClip` replaced it by; either way
the pitch gain is tamed afterwards and the pair itself is sent. A Decoder action is
a frame of two subframes: `DecodeGood`, `DecodeOverflow` (the synthesis filter
overflowed and the history is shifted), `DecodeErased`, `DecodeBlend`,
`DecodeEnhanced`. `Damage` replaces the fields by any others, `Lose` drops the frame
without a word; `ResetEncoder` and `ResetDecoder` act on one side only.

Gains, prediction errors, the codebook's pitch gains, its index maps, both
predictors, the clamps and the fading are the code's integers. A *shape* stands for
what the codebook searches choose, and four things computed from it are constant
operators: its energy, the linear gain of a log gain, and the excitation history
that results (`Excitation`) or is shifted (`Scaled`). What is claimed holds for every
choice of them. Of a history the module only asks whether two are equal, and
whether its energy trips the taming (`Loud`).

`drift` remembers why copies may differ: the Encoder `tamed` a gain or repaired it
with the `narrow` predictor, or an `upset` of the link or of one side. The
properties then say which copies agree under which drift, and `good`, how many
intact subframes it takes to agree again.

### LspMirror

A tuple `(L0, L1, L2, L3)` is sent per frame and means nothing without the four
residuals before it. `freqPrev` is the quantiser's copy of them, `lspDec` the one of
the `lsp.Decoder` the Encoder runs beside it, `dec` the receiver's. Actions are
`EncodeSpectrum` (the analysis found a spectrum), `ReuseSpectrum` (it did not: the
last one is quantised again, `encoder.go:865-891`), `Receive`, `Erase`, and the resets
and upsets of either side. Vectors have ten coordinates and the code's integers,
rearrangement, prediction, stability and interpolation are the code's, and the
first stage's sum of squares wraps at 32 bits as it does there. What stays
constant: the codebook rows, the weights of the distortion and the cosine.

`SpectrumIsStable` and `BroaderSearchIsNoWorse` are about what the arithmetic
guarantees; `EncoderCopiesAgree` and `LspResyncs` about the copies;
`ErasureRepeatsSpectrum` about the memory a concealed frame invents. The spacing
the rearrangement promises (`stability.go:66-69`) is *not* a property: a pair is
repaired before its neighbour is, and 1165 of the 131072 tuples keep a gap below 4
after both passes. `stabilize` repairs the sum afterwards, which is what
`SpectrumIsStable` says, and the searches score with a third variant that rounds
differently (`searchL2`), which only moves the choice.

### FcbSearch, GainSearch, GainRepair

`FcbSearch` is a frame: `StartFrame`, then `SearchSubframe` twice, with the budget
(`coreFCBThresholdEntriesRemaining`) between them. Tracks have `Steps` positions
instead of 8, so a subframe has `5 * Steps` samples, and the 32-bit range in which
correlations saturate shrinks with them (`Word`); the loops, thresholds, tie
breaks, packing and sharpening are the code's. `SearchIsExact` has its own
definition of what a budget reaches, and of the best of it. An impulse response
starts with a tap that keeps every energy positive (`h[0] > 2`; it is 4096,
`closedloop/impulse.go:51`). The code expects no product of the response to leave 32
bits (`phi.go:27-33`); where one does, the energies are no longer those of any
vector, and the properties say so by their hypothesis `PhiFits`.

`GainSearch` is one search: correlations, the centre, the preselection, the
scaling and the costs. Scales and word widths are constants, so that an instance
has a word small enough to overflow. The assumptions relate them as the code's do: five
terms of `CostBits` are less than a quarter of the word, correlations of 16-bit
samples are words, and the gains are small enough for a correlation of -1, which an
arithmetic shift never makes 0. The centre of the preselection may be far
off, since the shifted determinant may be negative where `conjugate.go:146` says it
cannot (A = B = 3, C = -3 shifted by one gives -3); the property is about the costs of
the pairs compared, whatever the centre.

`GainRepair` takes what the receiver plays for a pair as an input: any of a few
output sequences, which is enough to make every comparison of every policy
decide either way. `RepairNeverClipsMore` relates what is committed to what the
searches had found; the tolerances of the noise repair compound over candidates
(each is compared with the best so far), so no bound on the noise is claimed.
The whole-encoder copy of the pitch clip repair (`encoder.go:1183-1215`) is modelled
only through its candidates, in `PitchCodec`.

### SerialFile, RtpCheck, RtpWeb, Loopback, LoadTest

`SerialFile` writes frames, damages words, erases bits, cuts the file, and reads it
with either reader and with the loader. `RtpCheck` numbers packets by sender; the
network in front of the capture loses, delays and repeats them and adds other
traffic; a header is what it claims to be long, and a record its link layer.
Moduli of sequence numbers and timestamps are constants and wrap within a call.
`RtpWeb` follows a recording through the page's round trip to a payload file, of
which the beginning is kept, and lets page and command check it; a code is the
sequence of frames coded so far and a decoder in step plays it, so a decoder too
many or too few shows. FFmpeg answers the round trip and the check with whatever it
likes. A ratio of signal to noise is the fraction itself, and one without noise
counts as `ExactRatio`, the 99 dB of `finiteDB`. `Loopback` is the stream a page records into; the
streaming encoder's steps are `StreamingEncoder`, and here a call of it is one step,
as the sink cannot fail. In `LoadTest` each stream has its own clock; how late it
wakes and how long a frame takes are inputs. The sorted times of the report are
stated by rank: the time at a rank is the least that as many frames do not exceed.

### Components

None of the last nine components touches another's state, so a behaviour of
`Components` is a behaviour of one of them (`part`), all others staying in one
initial state. It exists so that their small instances are one run.

## 3. Runs

| run | instance | checks | shows |
|---|---|---|---|
| `streaming` | frames of 3 samples, writes of 0..7, 7 samples fed between Resets, 2 sink errors, 1 direct call | `WireIsTheStream` `CountsAreTrue` `CodecMirrorsWire` `ImplementsFrameStream` `EveryCallReturns` `TailDrains` | the stream survives every split and every placing of two sink failures; no call spins; no tail stays |
| `streaming_retry` | 1 sink error | `ReceiverLockStep` — **violated** | see the first finding |
| `overflow_one` | an encoder and two decoders on one goroutine, 3 filter runs each | `StreamIsolation` | the flag is cleared wherever it must be |
| `overflow_two` | an encoder and a decoder on a goroutine each | `StreamIsolation` — **violated** | second finding |
| `overflow_enhanced` | a strict and a listening decoder | `RecoveryIsCommitted` — **violated** | third finding |
| `pitch` | estimates 20, 84 and 143; `core`, `wide` and `repair` | `DelaysAgree` `FilterReadsThePast` `BitErrorsAreContained` | both ends of the range and the limit between fractional and integer delays; what each bit can do, by its place: a bit of P1 that P0 covers, one it does not, one of P2 |
| `mirror` | two pairs of gains, repair with the bounded predictor, 2 upsets, losses of up to 2 subframes | `TypeOK` `LockStep` `SimulationIsTheReceiver` `GainHistoryResyncs` | gains keep their width; copies agree unless drift is recorded; the simulated decoder is the receiver whatever became of the Encoder's own copy; predictors agree again one entry a subframe, on every mix of decode paths |
| `silence` | the loudest pair, losses of up to 350 subframes | `LongLossIsSilence` | both gains fade to exactly 0 |
| `tamed` | no repair | `TamedEncoderFollowsReceiver` — **violated** | fourth finding |
| `narrow` | an Encoder that never tames, repair with the bounded predictor | `RepairedEncoderFollowsReceiver` — **violated** | fifth finding |
| `lsp_wrap` | three real rows and a voiced spectrum after silence | `FirstStageIsNearest` — **violated** | sixth finding |
| `components` | the instances below | 25 properties, below | each of the nine components, for itself |

The properties of `components`, by part:

| part | instance | properties |
|---|---|---|
| line spectra | two rows per stage, of which one sum is far out of order and one at the upper edge; both searches; 1 burst of up to 2 losses or other upset | `EncoderCopiesAgree` `LspResyncs` `SpectrumIsStable` `BroaderSearchIsNoWorse` `ErasureRepeatsSpectrum` |
| rtp | 2 senders that both wrap, 3 records, 1 disturbance, reports with three options, two sets of limits | `StrictAcceptsUnbroken` `PassIsEvidence` `ParseStaysInside` |
| pulses | 5 pairs of target and response: silence, ties, both ends of the range; three profiles | `BudgetShared` `SearchIsExact` `CriterionIsOfTheCode` `TopKIsTheRanking` `PulsesArrive` |
| gains | 60 vectors, 4 predicted gains, both centres, words of 20 bits | `GainCostsFit` |
| repair | 3 pairs, 5 outputs, 2 ceilings, the policies of five profiles, 11 lists of rivals | `RepairNeverClipsMore` `RepairCommitsOnePair` |
| serial | 2 frames with the real field widths, 2 faults | `CleanFramesSurvive` `ReadersAreHonest` |
| web | 12 recordings, 3 packet times, cut files, 6 answers of FFmpeg | `ToolsAgree` `PayloadPlaysTheRoundtrip` `DelayIsFound` |
| loopback | frames of 3 samples, 12 samples in any chunks, 3 flushes | `ChunksDoNotMatter` |
| load | 2 streams, 7 ticks, frames due every 4 | `PassBoundsMisses` `PacedIsRealTime` `TheLoadTestEnds` |

**Bounds and why they are enough.** `FrameSamples` = 3 has tails of 1 and 2
samples, and a full frame that is neither; slices of 7 complete a tail, fill a
frame twice and leave a tail in one call; two errors let a retry fail again.
`MaxFed`, `MaxSinkErrors`, `MaxDirect` and `MaxFilters` cap histories only and
appear in guards alone. One filter run after another in one call, and a call
after another, is all `MaxFilters` = 3 has to provide (a decoder filters
twice per call). The pitch run keeps the real ranges of every field (all 256 P1,
all 32 P2, all lags); what is reduced is the set of estimates, to those whose
windows touch an edge of the code, and `HalfWindow` (4 for 60), of which only
whether it exceeds 3 and where it is cut matter. The `CodecMirror` runs have two
pairs of the real codebook, `<<7, 11>>` (largest prediction error, a gain that taming
clamps, a beta at its upper bound) and `<<0, 1>>` (smallest error, below the one a
cold predictor starts with, a beta at its lower bound); their maps are not
fixed points, so packing without unpacking shows. One shape is enough, because two
copies read the same shape, and the pairs already make them differ. A
history is a digest modulo 2 or 5: agreement of digests that should agree is
necessary for agreement of histories, and a digest that sees the gains, the shape
and the beta tells apart the ones that should not. `MaxUpsets` caps how many bursts
of losses, damaged frames, overflows and Resets there are; two let one come while
the predictors still recover from another. `LongLoss` = 350 is the number of
subframes after which the largest fixed gain has faded (32767 takes 349); it
is a bound on `DecodeErased`.

In `components`, the rows of the line spectra are those of the real tables on which
rearrangement and stability have most to do; one upset suffices because a
resynchronisation counts from the last one. Three RTP records make a gap, a
repetition and an exchange of two packets, next to a second sender; the moduli
wrap between the first and the second packet. Two positions a track give each
prefix of three pulses four completions, which is what budget, threshold and
ties speak of, and the five inputs were chosen for silence, ties and
saturation. Two frames and two faults put a fault before, in and behind a frame
that none touched. The load test's 7 ticks hold two frames of each stream and a
wake behind the deadline. `ExactRatio` is 500 to 1 (the code's 10^9.9 does not fit
TLC's integers): most recordings have ratios below it, and the two with three
samples of 20 and a 21 have one of 972 or 1009 when they are shifted by one, before
the exact match or after it. `RtpMaxRecords`, `RtpMaxTrouble`, `MaxFrames`,
`MaxFaults`, `MaxSent`, `MaxFlushes`, `MaxSubframes`, `LspLongLoss` and `LspMaxUpsets` cap
histories and appear in guards alone.

The proofs have none of these bounds.

**Fairness.** Weak fairness of `Progress \/ SinkError`: a call in progress runs and
the sink answers. Strong fairness of `FlushEncode`: the documentation of
`Flush` makes it the caller's duty ("Callers MUST eventually call Flush to drain
any tail", `encoder_streaming.go:98-99`); it is strong because between two writes
the caller may leave and re-enter a state where `Flush` has something to do.
`TailDrains` also needs the sink to fail finitely often, which `MaxSinkErrors`
says. No fairness is assumed of writes, of `Reset` or of failures.
`TheLoadTestEnds` assumes weak fairness of the load test's steps: its goroutines
are scheduled. It assumes nothing of how late they are.

**Deadlock** is checked in every run but `components`, whose tools come to an end: a
search, a file read, a report made.

## 4. Findings

1. *A failed sink leaves the codec ahead of the receiver* (`streaming_retry`). The
   frame was encoded before the sink refused it; the caller resumes from the
   count, and the same samples are encoded a second time by a codec that already
   moved past them. The samples on the wire are right (`WireIsTheStream` holds); the
   predictors the receiver needs to decode them are not.
2. *The overflow flag is shared* (`overflow_two`). `doc.go:86-88` promises no shared
   mutable state across instances; `internal/fixed/overflow.go:15` is a package
   variable every filter run of every instance clears, sets and reads. Two
   streams on two goroutines, as in `cmd/g729loadtest`, can make each other take
   or miss the recovery path.
3. *Listening paths do not commit the recovery* (`overflow_enhanced`).
   `internal/synth/filter.go:17-18` makes the decoder responsible; `decodeSubframe`
   does it, `decodeSubframePostfilterBlend` and `decodeSubframeEnvelopeRecovered`
   never ask for the shift.

4. *Taming is not transmitted* (`tamed`). `fcbStep` clamps the pitch gain after the
   pair is chosen (`encoder.go:1715`) and sends the pair; the receiver uses the
   gain of the pair. From then on the Encoder's excitation history is not the
   receiver's, against the comment of its own step 14. `LockStep` is what remains
   true: nothing else sets the two apart on an undisturbed link.
   `SimulationIsTheReceiver` shows that the copy kept for the repair is immune.
5. *A repaired gain is scaled by the other predictor* (`narrow`).
   `qualityRepairGainClip` decides between `Reconstruct` and `ReconstructWide` from two
   tunings (`encoder.go:2022`); the search decides from four (`encoder.go:1672-1675`).
   Profile `CoreClipRepair` is on the wide side of one and not of the other.
   The other profiles with gain repair search natively and are wide in both.
6. *The first stage of the line spectra wraps* (`lsp_wrap`). `searchL1` sums ten squares
   in an `int32` (`encoder_vq.go:31`); its comment bounds the sum by 2^30, for
   differences below 2^13. The spectrum of the run, coded as the first frame,
   differs from row 80 of the codebook by more: the sum, 2187467258, becomes
   negative, is taken as the best, is then read as "none yet" and replaced by the
   next row. Row 111 is sent, row 41 is nearer. `QuantizeTopK` sums in 64 bits, so on
   such spectra the search `encoder.go:898-899` calls identical is not, and
   `BroaderSearchIsNoWorse` excludes them by name.

Smaller things met on the way, which no text of the repository denies: a buffered
count of the loopback that is too low after a short frame was flushed; a load test
that codes no frame passes; a round trip whose ratio is infinite gets an answer
without a body (`main.go:710`, `:778` and `:931`: JSON has no infinity); an exact match
counts as 99 dB in the delay search and other ratios are not limited to that
(`main.go:955` and `:1030`), so that two decoders that agree on nearly constant
loud samples are reported as shifted; the page plays a
payload whose last packet of 20 ms is half empty and the command refuses it.

## 5. Proofs

TLAPS checks the following for every value of the constants, from the named
assumption of each module and the hypotheses named below, nothing else. The longest
module, `Search_proofs`, takes some eleven minutes from nothing.

* `StreamingEncoder_proofs` (`StreamAssumption`: a frame has at least one sample).
  `WireIsTheStream` and `CountsAreTrue` are inductive together only with what is
  true in the middle of a call: where `at` is, how `left`, `consumed`,
  the tail and the frame in the scratch relate (`InCall`), and that the frame
  being offered to the sink is the next segment of the stream. That is the
  invariant; `TypeCorrect`, `WireCorrect`, `CountsCorrect` follow from it, and
  `Refinement` maps each action to a step of `FrameStream` or a stutter under it.
* `SharedOverflow_proofs` (`SharedAssumption`, and `OneGoroutine` as the theorem's
  hypothesis). While one stream of the goroutine is in its first pass all the
  others are idle, so the flag is exactly "my first pass saturated":
  `IsolatedOnOneGoroutine`, for any number of streams and filter runs.
* `Wire_proofs`, of `PitchLink` (`PitchAssumption`: estimates are lags in range). The
  properties speak of the arrived word; the invariant adds that the chosen delays
  are ones P1 and P2 can say (`SearchesFirst`, `SearchesSecond`, one lemma per kind of
  search), that the word sent encodes them, and how the arrived word differs from
  it (`Altered`). The codeword lemmas (`P1RoundTrip`, `P2RoundTrip`, `P1Range`,
  `P2Range`) and the bit lemmas (`FlipLow`, `FlipHigh`) then give `DelaysAlwaysAgree`,
  `FilterStaysInside` and `BitErrorsStayContained`, for every estimate and every
  reach of the wide search, 60 included. The last says what one wrong bit does by
  its place: P0 covers the six high bits of P1 and nothing of P2, whose bit 4 moves
  the second delay by sixteen thirds (`SecondMoves`); an error of the first delay
  is not amplified in the second, whose window follows it (`SecondFollows`).
* `Wire_proofs`, of `SerialFile` (`SerialAssumption`: fields have 1 to 16 bits, a frame
  has a field and each value fits its own). A field's bits are its repeated halves
  (`HalfOf`), so reading them gives the value back (`ValueArrives`); fields lie one
  behind the other (`PackIs`), so a frame is unpacked as it was packed (`UnpackIs`).
  `SerialInv` says where the words of a frame no fault touched are, that a reader
  who was not told of the end is where its next frame begins, and that each reading
  is of the file as it is: `CleanFramesArrive`. Two readings of one place differ only
  by the words they allow (`TwoReaders`), and the loader, a recursion from the end
  of the file, is followed back frame by frame (`LoadedIs`): `ReadersTellTheTruth`.

* `CodecMirror_proofs` (`MirrorAssumption`: pairs are of the codebook, energies and
  errors have their widths). The properties compare copies between frames; inside
  a frame the Encoder is ahead of the Decoder by what the Decoder will do with the
  fields so far (`Play`). The invariant `MirrorInv` says so of the whole memory when
  nothing drifted (`EncoderAhead`), of the simulated decoder when nothing but the
  Encoder drifted (`SimulationAhead`), and, whatever drifted, of the first `good` +
  `Len(frame)` errors and of the pitch gain (`ErrorsAhead`, `PitchGainAhead`). One lemma
  for each kind of step, on `ReceiveFields` (a pair survives packing and unpacking),
  `PlayAppend` and `PushAgrees`, gives `LockStepHolds`, `SimulationHolds` and `ResyncHolds`.
  `TypeCorrect` is a separate induction on the widths of gains and errors.

* `Quantiser_proofs`, of `LspMirror` (`LspAssumption`: the codebooks are not empty, the bounds are
  numbers). `LspInv` says that, between frames, the quantiser's residuals are those
  of the Encoder's decoder; that the tuple on the wire, decoded from `sent`, gives
  the Encoder's decoder; and that the receiver's copy agrees with `sent`, or with
  `lspDec` when nothing is under way, in the first `good` residuals, then in the
  spectrum, then in the filters. It needs nothing of the arithmetic but that both
  sides do the same, so `CopiesAgree` and `ResyncHolds` hold for all codebooks,
  distortions and spectra, with the search's choice unknown.

* What was said to the sink and what the codec did (`CodecMirrorsTheWire`) follows
  from the same invariant of `StreamingEncoder_proofs`, with the property itself as
  the strengthening.
* `LossFallsSilent` bounds the worst path of a loss: `FadeInv` says that after `lost`
  concealed subframes both gains and every error are below three paths given by
  arithmetic on `lost` alone, that one more concealment goes down one step on each,
  and that the paths reach zero by 495. TLC follows the single worst path, which
  needs 349, and its run has 350; the theorem's hypothesis is `LongLoss >= 495`, two
  and a half seconds, for any gains and any mix of decode paths.
* `SpectraInv` of `Quantiser_proofs` says that all residuals and spectra are vectors of
  integers, that tuples on the wire are of the codebooks, and that each kept spectrum
  is stable. The arithmetic it needs is that of the code: saturation, rearrangement,
  prediction, the sequential repair of `enforceLSFStability` and both searches.
  `SpectrumStaysStable` and `BroaderIsNoWorse` take one hypothesis, `Distortion`: that
  the constant that weighs a candidate gives natural numbers, as a weighted sum of
  squares does.
* `ErasureRepeats`, from the same invariant. In each coordinate the scale and its
  reciprocal undo each other up to a rounding that the twenty pairs of the tables
  bound (`ReciprocalsRepeat`), so a residual gives back what it was made of within
  five steps. Its hypothesis, `[][Unsaturated]_lspVars`, is that no coordinate of an
  invented residual is cut to 16 bits; which codebook rows allow that is data. The
  run checks the property without the hypothesis. A bound of three steps, which
  suffices on the run's rows, is not enough for every residual: the reciprocal
  of the second coordinate, 7320 for 18333, is the coarsest.
* `Quantiser_proofs`, of `GainSearch` (`GainSearchAssumption`, `WordAssumption`). Powers of
  two are a recursive function, of which the proofs need that exponents add and that
  it grows. A term of a cost is below the power of the bits of its weight and of its
  correlation together; the common shift takes at least what is more than `CostBits`
  (`TermFits`), so five terms stay below the cost the search starts with (`FiveTerms`)
  and no cost wraps. The loop then ends with the cheapest pair (`CheapestIs`), and it
  is a preselected one because the ranks of `Nearest` are a permutation: as many as
  there are entries, no two equal (`NearestAre`). Together: `CostsAlwaysFit`.
* `Search_proofs`. `RepairInv`: a policy is one of a profile, the pairs sent are
  the table's, and both properties hold of the last subframe; what is not obvious is
  the loops, each of which keeps "no more samples at full scale, and no more near it,
  than the searches had found" from candidate to candidate (`RepairIsSafe`, `RepairIsWhole`).
  `FcbInv`: budget and entries add up, the second subframe starts with at least half,
  and what was found is packed from a candidate (`BudgetIsShared`, `CodeArrives`); it also
  says that what was found was brought by a search, under which limit, and that the
  exhaustive scan is what it is compared with. On it rest
  - `CriterionIsTheCode`: the filtered code vector is the sum of the echoes of its
    four pulses, so its correlation and its energy are sums over pairs of pulses, which
    are the entries of the search's tables but for the halving of four squares;
  - `SearchIsTheBest`: with positive energies, "better, or equal and earlier" is a strict
    total order of the candidates (`Ahead`); what a budget reaches is a set of
    prefixes given by their rank, and each of the nested loops keeps the first
    of those it has passed;
  - `RerankedIsTheRanking`: inserting a candidate in a list that is the head of the
    ranking so far leaves one that is the head of the ranking with it.
* `Tools_proofs`, one invariant for each tool.
  - `LoopInv`: the frames are the recording cut from its start, or one flush padded the
    last of them, or padding shows in the middle for ever (`ChunkingIsInvisible`).
  - `LoadInv`: a paced stream's next deadline is the first one plus one deadline per
    frame, and late wakes are counted at most once each (`PacingIsRealTime`); the counts
    of frames and misses are those of the times recorded. A percentile is the least
    time that its rank of frames do not exceed; there is one (`RankedIs`), a limit on it
    leaves no more misses than frames behind the rank, and sums over the streams keep
    that (`PassBounded`).
  - `RtpInv` = `CallInv` (each record was sent by a sender that still knows it, or is
    other traffic) and `VerdictInv` (a verdict is on a report of this capture). The
    checker's fold over the capture is then accounted for record by record
    (`AccountIs`): the numbers it tracks are those of the sender's latest record, its
    decoder was given the frames so far in order, and every record is either counted
    or skipped. Sequence numbers identify packets because
    `RtpMaxRecords + RtpMaxTrouble < SequenceModulus` (`NumbersDiffer`); without that,
    a gap of exactly 65536 packets passes for none. `ParserStaysInside`,
    `StrictIsExact`, `PassVouches`.
  - `WebInv`: the file is a beginning of what the round trip coded and the answers kept
    are those of the two tools about it. Decoding a beginning gives the beginning of
    the decoding (`DecodedBegins`), which is what `PayloadIsTheTrip` says of the page;
    `OneVerdict` compares the two tools case by case. `DelaysAreFound`: ratios are
    ordered (`ExceedsAll`), so the search has a first best shift (`FirstBest`), which
    is at least as good as the exact match at the delay: it is that shift or an
    earlier one with samples that agree, or a shift whose finite ratio is as high as
    99 dB, and higher if it comes later; its hypothesis is that the other decoder's
    samples are integers.
* `Induction`. TLAPS cannot instantiate an operator parameter, so neither the library's
  induction theorem nor the equation of a recursive function is available as it
  stands. Well-foundedness of the naturals, stated of a set, gives both: `NatInductionSet`
  and `RangeInduction`, and `Recursion`, that a function with the recursive equation
  exists, hence that the one `CHOOSE` picks has it. All loops of the models that are
  recursive functions are reasoned about through it.

The assumptions say what the code's declarations say: sample types, table ranges,
that a policy's thresholds are below full scale, that `RtpWeb`'s recordings are of
samples the codec's level tables know. TLC evaluates each on the instances.

Every invariant and every safety property of the passing runs is stated by a theorem.
Only model-checked:

* the three liveness properties, `EveryCallReturns`, `TailDrains` and
  `TheLoadTestEnds`: liveness under fairness is beyond TLAPS;
* the six counterexamples.

## 6. Not modelled

What the analysis computes (windows, correlations, the root search, open-loop
estimates), the weighting and synthesis filters, the postfilter and the input
filter: memories that one call reads and writes, without a second copy, an order
of calls or a limit a property could be about. Logarithms, powers and cosines are
constants. The exhaustive and the reconstructing variant of the gain search, and
the cooldowns of the Quality pulse search (`encoderTuningFCBThresholdScan`), which
no profile switches on. In the tools: parsing of flags and of capture
files below a record, the SDP check, the host gate, the self test, the
segmental ratio, the listening normalisation, the FFmpeg process, HTML and text;
`decodePayload` of the WebAssembly binding, which keeps no state. `internal/acelp` is a
stub nothing calls; third-party comparison and example programs are outside the
codec.

Hazards without a property are listed with the reason in `PROJECT.json`: direct
`EncodeFrame` calls between writes, the listening paths' memories, the random seed.

## 7. Plan

1. An abstract specification "one memory, several copies" that `CodecMirror` and
   `LspMirror` both implement between frames, with the refinement proved.
2. The SDP check of the page and the parsing of capture files.
