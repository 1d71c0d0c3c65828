------------------------------- MODULE RtpCheck -------------------------------
(***************************************************************************)
(* The RTP tools around the codec: the senders of a call (the fixture      *)
(* builder is one), the network in front of the capture, the checker that  *)
(* reads the capture, the report it becomes and the verdict on that        *)
(* report.  Packets are numbered by their sender (n): the checker sees     *)
(* only what they carry, a sequence number and a timestamp that wrap.      *)
(***************************************************************************)
EXTENDS Integers, Sequences, FiniteSets

CONSTANTS
  Ssrcs,         \* synchronisation sources of the call
  SequenceModulus, \* 2^16 in the code
  TimestampModulus, \* 2^32 in the code
  FirstSequence, FirstTimestamp, \* of every sender
  PayloadSizes,  \* bytes of the G.729 payloads sent
  CheckerOptions, \* options g729rtpcheck or g729rtpreport may be run with
  Limits,        \* options g729rtpreportcheck may be run with
  RtpMaxRecords, \* bound: records of the capture
  RtpMaxTrouble  \* bound: packets lost, delayed or duplicated

FrameBytes == 10
FrameSamples == 80

ASSUME RtpAssumption ==
  /\ SequenceModulus \in Nat /\ RtpMaxRecords \in Nat /\ RtpMaxTrouble \in Nat
  /\ RtpMaxRecords + RtpMaxTrouble < SequenceModulus
  /\ FirstSequence \in 0 .. SequenceModulus - 1
  /\ TimestampModulus \in Nat \ {0} /\ FirstTimestamp \in 0 .. TimestampModulus - 1
  /\ PayloadSizes \subseteq Nat
  /\ CheckerOptions \subseteq
       [strict : BOOLEAN, decode : BOOLEAN, ptime : {0, 10, 20}]

VARIABLES
  senders, \* the SSRCs heard of and the state of their senders
  capture, \* the records of the pcap file
  held,    \* packets the network still holds
  trouble, \* history: packets lost, delayed or duplicated
  result,  \* what the checker came to, <<>> before it ran
  verdict  \* "none", "PASS" or "FAIL"

rtpVars == <<senders, capture, held, trouble, result, verdict>>

-----------------------------------------------------------------------------
(* Records and what is read from them.  A record has the lengths its       *)
(* headers claim and the flags that move the payload.                      *)

\* Mutant: the padding may reach back to the fixed header.
ParseRTPWide(h) ==
  LET csrcEnd == 12 + 4 * h.cc
      off == IF h.ext < 0 THEN csrcEnd ELSE csrcEnd + 4 + 4 * h.ext
  IN [ok |-> /\ h.version = 2 /\ h.len >= 12 /\ h.len >= off
             /\ h.pad >= 0 => h.pad \in 1..(h.len - 12),
      off |-> off,
      end |-> IF h.pad < 0 THEN h.len ELSE h.len - h.pad]

\* Of len bytes, with cc CSRCs, ext words of extension (-1: none) and a last byte
\* that claims pad bytes of padding (-1: no padding).
ParseRTP(h) ==
  LET csrcEnd == 12 + 4 * h.cc
      off == IF h.ext < 0 THEN csrcEnd ELSE csrcEnd + 4 + 4 * h.ext
  IN [ok |-> /\ h.version = 2 /\ h.len >= 12 /\ h.len >= off
             /\ h.pad >= 0 => h.pad \in 1..(h.len - off),
      off |-> off,
      end |-> IF h.pad < 0 THEN h.len ELSE h.len - h.pad]

\* Where the UDP payload lies in an Ethernet frame.
UdpPayload(f) ==
  LET ip == IF f.tagged THEN 18 ELSE 14
      udp == ip + f.ihl
  IN [ok |-> /\ f.ipv4 /\ f.len >= ip + 20
             /\ f.ihl >= 20 /\ f.total \in f.ihl..(f.len - ip)
             /\ f.udp \in 8..(f.total - f.ihl),
      off |-> udp + 8,
      end |-> udp + f.udp]

\* ParseEthernetIPv4UDPRTP: its errors and its "not RTP" are skipped alike.
IsRtp(r) ==
  LET u == UdpPayload(r.frame)
  IN u.ok /\ ParseRTP([r.rtp EXCEPT !.len = u.end - u.off]).ok

PayloadLength(r) ==
  LET u == UdpPayload(r.frame)
      p == ParseRTP([r.rtp EXCEPT !.len = u.end - u.off])
  IN p.end - p.off

\* wrapEthernetIPv4UDPRTP around a packet without CSRCs, extension or padding.
Wrapped(packet, bytes) ==
  [packet |-> packet,
   frame |-> [len |-> 54 + bytes, tagged |-> FALSE, ipv4 |-> TRUE, ihl |-> 20,
              total |-> 40 + bytes, udp |-> 20 + bytes],
   rtp |-> [version |-> 2, cc |-> 0, ext |-> -1, pad |-> -1, len |-> 0]]

Nobody == [ssrc |-> 0, n |-> 0, ours |-> FALSE, sequence |-> 0, timestamp |-> 0]

\* A record that is not RTP: ARP, or a packet cut short by the capture.
Noise == [Wrapped(Nobody, 0) EXCEPT !.frame.ipv4 = FALSE]

-----------------------------------------------------------------------------
(* Senders, network and capture.                                           *)

PacketFrameCount(ptime) == IF ptime = 10 THEN 1 ELSE IF ptime = 20 THEN 2 ELSE 0

Speech(bytes) == bytes > 0 /\ bytes % FrameBytes = 0

Advance(bytes) ==
  IF Speech(bytes) THEN (bytes \div FrameBytes) * FrameSamples ELSE FrameSamples

stateForSSRC(s) ==
  IF s \in DOMAIN senders THEN senders[s]
  ELSE [n |-> 0, sequence |-> FirstSequence, timestamp |-> FirstTimestamp]

\* The next packet of s: matching or of another payload type, both numbered in
\* one sequence.
buildRTPPacket(s, ours, bytes) ==
  LET state == stateForSSRC(s)
  IN /\ senders' =
          [t \in DOMAIN senders \cup {s} |->
             IF t = s
             THEN [n |-> state.n + 1,
                   sequence |-> (state.sequence + 1) % SequenceModulus,
                   timestamp |-> (state.timestamp + Advance(bytes))
                                 % TimestampModulus]
             ELSE senders[t]]

Packet(s, ours) ==
  LET state == stateForSSRC(s)
  IN [ssrc |-> s, n |-> state.n, ours |-> ours,
      sequence |-> state.sequence, timestamp |-> state.timestamp]

Capturing == result = <<>> /\ Len(capture) < RtpMaxRecords

Send ==
  \E s \in Ssrcs, ours \in BOOLEAN, bytes \in PayloadSizes :
     /\ Capturing
     /\ ours \/ bytes = 20
     /\ buildRTPPacket(s, ours, bytes)
     /\ capture' = Append(capture, Wrapped(Packet(s, ours), bytes))
     /\ UNCHANGED <<held, trouble, result, verdict>>

Trouble ==
  /\ Capturing
  /\ trouble < RtpMaxTrouble
  /\ trouble' = trouble + 1
  /\ UNCHANGED <<result, verdict>>

Lost ==
  \E s \in Ssrcs : /\ Trouble
                   /\ buildRTPPacket(s, TRUE, 20)
                   /\ UNCHANGED <<capture, held>>

Delayed ==
  \E s \in Ssrcs : /\ Trouble
                   /\ buildRTPPacket(s, TRUE, 20)
                   /\ held' = Append(held, Wrapped(Packet(s, TRUE), 20))
                   /\ UNCHANGED capture

Arrives ==
  /\ Capturing /\ held # <<>>
  /\ capture' = Append(capture, Head(held))
  /\ held' = Tail(held)
  /\ UNCHANGED <<senders, trouble, result, verdict>>

Duplicated ==
  /\ Trouble
  /\ capture # <<>>
  /\ capture' = Append(capture, capture[Len(capture)])
  /\ UNCHANGED <<senders, held>>

OtherTraffic ==
  /\ Capturing
  /\ capture' = Append(capture, Noise)
  /\ UNCHANGED <<senders, held, trouble, result, verdict>>

-----------------------------------------------------------------------------
(* AnalyzePCAP.                                                            *)

\* ValidatePayload
ValidPayload(bytes, framesPerPacket) ==
  /\ Speech(bytes)
  /\ framesPerPacket # 0 => bytes \div FrameBytes = framesPerPacket

Empty == [x \in {} |-> <<>>]

Fresh == [failed |-> "", streams |-> Empty, seen |-> {}, fed |-> Empty,
          packets |-> 0, frames |-> 0, skipped |-> 0, decoded |-> 0]

\* Mutant: the sequence number is expected to grow without wrapping.
ContinuousUnwrapped(state, p) ==
  p.sequence = state.sequence + 1 /\ p.timestamp = state.next

\* What the stream's last packet leaves to be expected.
Continuous(state, p) ==
  /\ p.sequence = (state.sequence + 1) % SequenceModulus
  /\ p.timestamp = state.next

Put(f, key, value) ==
  [k \in DOMAIN f \cup {key} |-> IF k = key THEN value ELSE f[k]]

\* Mutant: one decoder for all SSRCs.
DecoderOfAny(ssrc) == 0

\* Which decoder a packet's frames go to.
DecoderOf(ssrc) == ssrc

Frames(p, count) == [i \in 1..count |-> [ssrc |-> p.ssrc, n |-> p.n, frame |-> i]]

Fed(acc, ssrc) == IF ssrc \in DOMAIN acc.fed THEN acc.fed[ssrc] ELSE <<>>

\* A matching packet whose payload is valid.
Accept(acc, p, bytes, opt) ==
  LET frames == bytes \div FrameBytes
      d == DecoderOf(p.ssrc)
      next == [sequence |-> p.sequence,
               next |-> (p.timestamp + frames * FrameSamples) % TimestampModulus]
  IN IF /\ opt.strict /\ p.ssrc \in DOMAIN acc.streams
        /\ ~Continuous(acc.streams[p.ssrc], p)
     THEN [acc EXCEPT !.failed = "continuity"]
     ELSE [acc EXCEPT
             !.streams = IF opt.strict THEN Put(@, p.ssrc, next) ELSE @,
             !.packets = @ + 1,
             !.frames = @ + frames,
             !.decoded = IF opt.decode THEN @ + frames ELSE @,
             !.fed = IF opt.decode
                     THEN Put(@, d, Fed(acc, d) \o Frames(p, frames)) ELSE @]

\* One record.  An error ends the loop, what is not RTP or not of the payload
\* type does not.
Analyze(acc, r, opt) ==
  IF acc.failed # "" THEN acc
  ELSE IF ~IsRtp(r) \/ ~r.packet.ours THEN [acc EXCEPT !.skipped = @ + 1]
  ELSE LET seen == [acc EXCEPT !.seen = @ \cup {r.packet.ssrc}]
       IN IF ValidPayload(PayloadLength(r), PacketFrameCount(opt.ptime))
          THEN Accept(seen, r.packet, PayloadLength(r), opt)
          ELSE [seen EXCEPT !.failed = "payload"]

Analyzed(records, opt) ==
  LET after[i \in 0..Len(records)] ==
        IF i = 0 THEN Fresh ELSE Analyze(after[i - 1], records[i], opt)
      end == after[Len(records)]
  IN IF end.failed = "" /\ end.packets = 0
     THEN [end EXCEPT !.failed = "no packets"] ELSE end

\* g729rtpreport reads the whole capture, or fails if it was cut short, and gives
\* no report if the checker fails.
BuildReport ==
  \E opt \in CheckerOptions, truncated \in BOOLEAN :
     /\ result = <<>>
     /\ result' =
          <<[opt |-> opt,
             rep |-> IF truncated THEN [Fresh EXCEPT !.failed = "truncated"]
                     ELSE Analyzed(capture, opt)]>>
     /\ UNCHANGED <<senders, capture, held, trouble, verdict>>

-----------------------------------------------------------------------------
(* g729rtpreportcheck.                                                     *)

\* Mutant: the verdict does not ask whether the report was made with strict
\* timestamps.
EvaluateLenient(opt, rep, metrics, limit) ==
  /\ limit.ptime \in {-1, opt.ptime}
  /\ rep.packets >= 1 /\ Cardinality(rep.seen) >= 1
  /\ limit.maxStreams > 0 => Cardinality(rep.seen) <= limit.maxStreams
  /\ limit.maxSkipped >= 0 => rep.skipped <= limit.maxSkipped
  /\ limit.decode => opt.decode /\ rep.decoded = rep.frames /\ metrics

Evaluate(opt, rep, metrics, limit) ==
  /\ limit.ptime \in {-1, opt.ptime}
  /\ limit.strict => opt.strict
  /\ rep.packets >= 1 /\ Cardinality(rep.seen) >= 1
  /\ limit.maxStreams > 0 => Cardinality(rep.seen) <= limit.maxStreams
  /\ limit.maxSkipped >= 0 => rep.skipped <= limit.maxSkipped
  /\ limit.decode => opt.decode /\ rep.decoded = rep.frames /\ metrics

\* metrics: the decoded PCM is neither near silence nor near clipping.
CheckReport ==
  \E limit \in Limits, metrics \in BOOLEAN :
     /\ result # <<>> /\ result[1].rep.failed = "" /\ verdict = "none"
     /\ verdict' = IF Evaluate(result[1].opt, result[1].rep, metrics, limit)
                 THEN "PASS" ELSE "FAIL"
     /\ UNCHANGED <<senders, capture, held, trouble, result>>

-----------------------------------------------------------------------------
RtpInit ==
  /\ senders = Empty /\ capture = <<>> /\ held = <<>> /\ trouble = 0
  /\ result = <<>> /\ verdict = "none"

RtpNext ==
  \/ Send \/ Lost \/ Delayed \/ Arrives \/ Duplicated \/ OtherTraffic
  \/ BuildReport \/ CheckReport

RtpSpec == RtpInit /\ [][RtpNext]_rtpVars
-----------------------------------------------------------------------------
(* Properties.                                                             *)

\* Where the packets of s are in the capture that are the checker's concern.
MatchingAt(s) ==
  {i \in DOMAIN capture : /\ IsRtp(capture[i])
                          /\ capture[i].packet.ours
                          /\ capture[i].packet.ssrc = s}

\* i and j are neighbours among those of s.
Consecutive(s, i, j) ==
  /\ i \in MatchingAt(s) /\ j \in MatchingAt(s) /\ i < j
  /\ \A k \in i + 1 .. j - 1 : k \notin MatchingAt(s)

\* Each was sent directly after the one captured before it, with nothing of the
\* sender's between them, of whatever payload type.
Unbroken(s) ==
  \A i, j \in DOMAIN capture :
    Consecutive(s, i, j) => capture[j].packet.n = capture[i].packet.n + 1

\* The strict check accepts a capture exactly if what it holds of each sender is
\* unbroken: wrapping numbers, other senders between, noise and a late start do
\* not fail it; a loss, a repetition or an exchange of packets always does, and
\* so does a packet of another type that took one of the sender's own numbers
\* (rtpcheck.go, AnalyzePCAP).
StrictAcceptsUnbroken ==
  result # <<>> /\ result[1].opt.strict =>
    /\ result[1].rep.failed = "" => \A s \in Ssrcs : Unbroken(s)
    /\ result[1].rep.failed = "continuity" => \E s \in Ssrcs : ~Unbroken(s)

\* What the decoder of its sender should be given of a matching record.
FramesOf(r) ==
  {[ssrc |-> r.packet.ssrc, n |-> r.packet.n, frame |-> f] :
     f \in 1 .. PayloadLength(r) \div FrameBytes}

\* A PASS that asks for strict timestamps and decoding vouches for the capture:
\* every record is accounted for, and each sender had a decoder to itself that
\* was given all its frames, in the order they were sent and without a gap.
PassIsEvidence ==
  verdict = "PASS" /\ (\A limit \in Limits : limit.strict /\ limit.decode) =>
    LET rep == result[1].rep
    IN /\ rep.packets + rep.skipped = Len(capture)
       /\ DOMAIN rep.fed = rep.seen
       /\ \A s \in rep.seen :
            LET got == rep.fed[s]
            IN /\ {got[i] : i \in DOMAIN got}
                    = UNION {FramesOf(capture[i]) : i \in MatchingAt(s)}
               /\ \A i \in 2..Len(got) :
                    \/ got[i].n = got[i - 1].n /\ got[i].frame = got[i - 1].frame + 1
                    \/ got[i].n = got[i - 1].n + 1 /\ got[i].frame = 1

\* The payload ParseRTP slices out is inside the packet, and behind its header,
\* whatever the header claims, of packets up to this length (rtpcheck.go 387-431).
\* A question of the parser alone, so asked in the reports of an empty capture.
ParseStaysInside ==
  capture = <<>> /\ senders = Empty /\ result # <<>> =>
    \A len \in 0..40, cc \in 0..3, ext \in -1..3, pad \in -1..30 :
      LET p == ParseRTP([len |-> len, version |-> 2, cc |-> cc, ext |-> ext,
                         pad |-> pad])
      IN p.ok => 12 + 4 * cc <= p.off /\ p.off <= p.end /\ p.end <= len
=============================================================================
