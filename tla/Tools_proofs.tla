----------------------------- MODULE Tools_proofs -----------------------------
(***************************************************************************)
(* The tools around the codec, for every value of their parameters: the    *)
(* chunks a page cuts its recording into do not matter to what it hears; a *)
(* paced load test takes the time its frames stand for; the RTP checker    *)
(* reads inside every datagram, passes a call in strict mode exactly when  *)
(* it is unbroken, and what it passes is what was sent, in order; the      *)
(* report, the fixture's reader and the web page say the same of one       *)
(* file, play what the roundtrip plays, and find the delay of another      *)
(* decoder.                                                                *)
(***************************************************************************)
EXTENDS LoadTest, RtpCheck, RtpWeb, Loopback, Induction, FiniteSetTheorems
LOCAL INSTANCE SequencesExt

-----------------------------------------------------------------------------
(* Arithmetic of frames.                                                   *)

\* What is over after a whole number of frames does not count.
LEMMA DivOf ==
  ASSUME NEW q \in Nat, NEW r \in Nat, NEW d \in Nat \ {0}, r < d
  PROVE  (q * d + r) \div d = q
<1> DEFINE p == (q * d + r) \div d
<1>1. /\ p \in Nat /\ q * d + r \in Nat
      /\ d * p <= q * d + r /\ q * d + r < d * p + d
  BY DivBounds
<1> HIDE DEF p
<1>2. CASE p < q
  <2>1. d * (p + 1) <= d * q
    BY <1>1, <1>2
  <2>2. QED
    BY <1>1, <2>1
<1>3. CASE p > q
  <2>1. d * (q + 1) <= d * p
    BY <1>1, <1>3
  <2>2. QED
    BY <1>1, <2>1
<1>4. QED
  BY <1>1, <1>2, <1>3 DEF p

\* More frames have more samples.
LEMMA Multiples ==
  ASSUME NEW d \in Nat, NEW a \in Nat, NEW b \in Nat, a <= b
  PROVE  a * d \in Nat /\ b * d \in Nat /\ a * d <= b * d
  OBVIOUS

-----------------------------------------------------------------------------
(* Loopback: sequences of frames.                                          *)

\* A concatenation, sample by sample.
LEMMA ConcatIs ==
  ASSUME NEW S, NEW a \in Seq(S), NEW b \in Seq(S)
  PROVE  /\ a \o b \in Seq(S) /\ Len(a \o b) = Len(a) + Len(b)
         /\ \A i \in 1 .. Len(a) : (a \o b)[i] = a[i]
         /\ \A i \in 1 .. Len(b) : (a \o b)[Len(a) + i] = b[i]
  OBVIOUS

\* Sequences are equal when their elements are.
LEMMA SameSeq ==
  ASSUME NEW S, NEW a \in Seq(S), NEW b \in Seq(S),
         Len(a) = Len(b), \A i \in 1 .. Len(a) : a[i] = b[i]
  PROVE  a = b
  OBVIOUS

\* One more frame.
LEMMA FramesAppend ==
  ASSUME NEW a \in Seq(Seq(Nat)), NEW p \in Seq(Nat)
  PROVE  /\ Append(a, p) \in Seq(Seq(Nat)) /\ Len(Append(a, p)) = Len(a) + 1
         /\ Append(a, p)[Len(a) + 1] = p
         /\ \A i \in 1 .. Len(a) : Append(a, p)[i] = a[i]
         /\ a \o <<p>> = Append(a, p)
  OBVIOUS

\* What the page sent as far as sample n.
Recording(n) == [i \in 1 .. n |-> i]

\* A part of a recording, sample by sample.
LEMMA SubSeqIs ==
  ASSUME NEW s \in Seq(Nat), NEW a \in Nat, NEW b \in Nat, a <= b, b <= Len(s)
  PROVE  /\ SubSeq(s, a + 1, b) \in Seq(Nat)
         /\ Len(SubSeq(s, a + 1, b)) = b - a
         /\ \A j \in 1 .. b - a : SubSeq(s, a + 1, b)[j] = s[a + j]
<1>1. /\ SubSeq(s, a + 1, b) \in Seq(Nat)
      /\ Len(SubSeq(s, a + 1, b)) = b - a
  OBVIOUS
<1>2. ASSUME NEW j \in 1 .. b - a PROVE SubSeq(s, a + 1, b)[j] = s[a + j]
  <2>1. SubSeq(s, a + 1, b)[j] = s[a + 1 + j - 1] /\ a + 1 + j - 1 = a + j
    OBVIOUS
  <2>2. QED
    BY <2>1
<1>3. QED
  BY <1>1, <1>2

\* Cutting a sequence loses nothing: frame k has the samples from where frame
\* k - 1 ended, and the rest is what follows the last frame.
LEMMA Cutting ==
  ASSUME NEW s \in Seq(Nat)
  PROVE  LET m == Len(s) \div LoopFrame
         IN  /\ m \in Nat /\ m * LoopFrame <= Len(s) /\ Len(s) < m * LoopFrame + LoopFrame
             /\ WholeFrames(s) \in Seq(Seq(Nat)) /\ Len(WholeFrames(s)) = m
             /\ \A k \in 1 .. m :
                  /\ Len(WholeFrames(s)[k]) = LoopFrame
                  /\ \A j \in 1 .. LoopFrame :
                       WholeFrames(s)[k][j] = s[(k - 1) * LoopFrame + j]
             /\ Rest(s) \in Seq(Nat) /\ Len(Rest(s)) = Len(s) - m * LoopFrame
             /\ \A j \in 1 .. Len(Rest(s)) : Rest(s)[j] = s[m * LoopFrame + j]
<1> DEFINE m == Len(s) \div LoopFrame
<1>0. LoopFrame \in Nat \ {0}
  BY LoopbackAssumption
<1>1. m \in Nat /\ m * LoopFrame <= Len(s) /\ Len(s) < m * LoopFrame + LoopFrame
  <2>1. Len(s) \in Nat
    OBVIOUS
  <2>2. QED
    BY <1>0, <2>1, DivBounds
<1>2. WholeFrames(s) = [k \in 1 .. m |-> FrameOf(s, k)]
  BY DEF WholeFrames
<1>3. Rest(s) = SubSeq(s, m * LoopFrame + 1, Len(s))
  BY SMTT(30), <1>0, <1>1 DEF Rest
<1> HIDE DEF m
<1>4. ASSUME NEW k \in 1 .. m
      PROVE  /\ FrameOf(s, k) \in Seq(Nat) /\ Len(FrameOf(s, k)) = LoopFrame
             /\ \A j \in 1 .. LoopFrame : FrameOf(s, k)[j] = s[(k - 1) * LoopFrame + j]
  <2> DEFINE a == (k - 1) * LoopFrame
             b == k * LoopFrame
  <2>1. a \in Nat /\ b \in Nat /\ b = a + LoopFrame
    BY <1>0
  <2>2. b <= Len(s)
    <3>1. b <= m * LoopFrame
      BY <1>0, <1>1, Multiples
    <3>2. QED
      BY <1>0, <1>1, <2>1, <3>1
  <2>3. FrameOf(s, k) = SubSeq(s, a + 1, b)
    BY DEF FrameOf
  <2> HIDE DEF a, b
  <2>4. /\ SubSeq(s, a + 1, b) \in Seq(Nat)
        /\ Len(SubSeq(s, a + 1, b)) = LoopFrame
        /\ \A j \in 1 .. LoopFrame : SubSeq(s, a + 1, b)[j] = s[a + j]
    <3>1. a <= b /\ b - a = LoopFrame
      BY <1>0, <2>1
    <3>2. QED
      BY <2>1, <2>2, <3>1, SubSeqIs
  <2>5. QED
    BY <2>3, <2>4 DEF a
<1>5. /\ WholeFrames(s) \in Seq(Seq(Nat)) /\ Len(WholeFrames(s)) = m
      /\ \A k \in 1 .. m : WholeFrames(s)[k] = FrameOf(s, k)
  BY <1>1, <1>2, <1>4
<1>6. /\ Rest(s) \in Seq(Nat) /\ Len(Rest(s)) = Len(s) - m * LoopFrame
      /\ \A j \in 1 .. Len(Rest(s)) : Rest(s)[j] = s[m * LoopFrame + j]
  <2> DEFINE a == m * LoopFrame
  <2>1. a \in Nat /\ a <= Len(s) /\ Len(s) \in Nat
    BY <1>0, <1>1
  <2> HIDE DEF a
  <2>2. /\ Rest(s) \in Seq(Nat) /\ Len(Rest(s)) = Len(s) - a
        /\ \A j \in 1 .. Len(Rest(s)) : Rest(s)[j] = s[a + j]
    BY SMTT(30), <1>3, <2>1, SubSeqIs DEF a
  <2>3. QED
    BY <2>2 DEF a
<1>7. QED
  BY <1>1, <1>4, <1>5, <1>6 DEF m

-----------------------------------------------------------------------------
(* Loopback: the inductive invariant.  Up to the first flush that pads, the *)
(* frames are the recording cut from its start; that flush leaves what one *)
(* call would have coded; whatever is sent after it, the padding shows.    *)

Shows(k) == 0 \in ToSet(coded[k])

NothingPadded ==
  /\ sentSamples = Len(coded) * LoopFrame + Len(tail)
  /\ \A k \in 1 .. Len(coded) :
       /\ Len(coded[k]) = LoopFrame
       /\ \A j \in 1 .. LoopFrame : coded[k][j] = (k - 1) * LoopFrame + j
  /\ \A j \in 1 .. Len(tail) : tail[j] = Len(coded) * LoopFrame + j

LastPadded ==
  /\ tail = <<>> /\ coded # <<>> /\ Shows(Len(coded))
  /\ coded = RoundTrip(Recording(sentSamples))

PaddedBefore ==
  \E k \in 1 .. Len(coded) : Shows(k) /\ (k < Len(coded) \/ tail # <<>>)

LoopTypeOK ==
  /\ tail \in Seq(Nat) /\ Len(tail) < LoopFrame
  /\ coded \in Seq(Seq(Nat)) /\ sentSamples \in Nat

LoopInv ==
  /\ LoopTypeOK
  /\ heardFrames = coded /\ encoded = <<>>
  /\ NothingPadded \/ LastPadded \/ PaddedBefore

\* Frames coded after a frame that shows padding leave it before the last.
LEMMA PaddingStays ==
  ASSUME LoopTypeOK, NEW new \in Seq(Seq(Nat)), coded' = coded \o new,
         NEW k \in 1 .. Len(coded), Shows(k),
         k < Len(coded) \/ new # <<>> \/ tail' # <<>>
  PROVE  PaddedBefore'
<1>1. /\ Len(coded) \in Nat /\ Len(new) \in Nat
      /\ Len(coded') = Len(coded) + Len(new)
      /\ coded'[k] = coded[k]
  BY DEF LoopTypeOK
<1>2. new # <<>> => Len(new) > 0
  OBVIOUS
<1>3. Shows(k)' /\ k \in 1 .. Len(coded)'
  BY <1>1 DEF Shows
<1>4. k < Len(coded)' \/ tail' # <<>>
  BY <1>1, <1>2
<1>5. QED
  BY <1>3, <1>4 DEF PaddedBefore

\* The samples of a chunk behind the tail.
Chunk(n) == tail \o [i \in 1 .. n |-> sentSamples + i]

\* What a write has to cut: the tail, then the samples sent with it.
LEMMA ChunkIs ==
  ASSUME LoopTypeOK, NEW n \in Nat
  PROVE  /\ Chunk(n) \in Seq(Nat) /\ Len(Chunk(n)) = Len(tail) + n
         /\ Len(Chunk(n)) \in Nat
         /\ \A i \in 1 .. Len(tail) : Chunk(n)[i] = tail[i]
         /\ \A i \in 1 .. n : Chunk(n)[Len(tail) + i] = sentSamples + i
<1> DEFINE t == [i \in 1 .. n |-> sentSamples + i]
<1>1. t \in Seq(Nat) /\ Len(t) = n /\ \A i \in 1 .. n : t[i] = sentSamples + i
  BY DEF LoopTypeOK
<1> HIDE DEF t
<1>2. tail \in Seq(Nat) /\ Len(tail) \in Nat
  BY DEF LoopTypeOK
<1>3. QED
  BY <1>1, <1>2 DEF Chunk, t

\* A write cuts all whole frames and keeps the rest.
LEMMA WriteKeepsInv ==
  ASSUME LoopInv, NEW n \in Nat,
         tail' = Rest(Chunk(n)), coded' = coded \o WholeFrames(Chunk(n)),
         sentSamples' = sentSamples + n,
         heardFrames' = heardFrames \o (encoded \o WholeFrames(Chunk(n))),
         encoded' = <<>>
  PROVE  LoopInv'
<1> DEFINE s == Chunk(n)
           new == WholeFrames(s)
           m == Len(s) \div LoopFrame
           c == Len(coded)
           t == Len(tail)
<1>0. LoopFrame \in Nat \ {0}
  BY LoopbackAssumption
<1>1. /\ LoopTypeOK /\ tail \in Seq(Nat) /\ coded \in Seq(Seq(Nat))
      /\ c \in Nat /\ t \in Nat /\ t < LoopFrame /\ sentSamples \in Nat
  BY DEF LoopInv, LoopTypeOK
<1>2. /\ s \in Seq(Nat) /\ Len(s) = t + n /\ Len(s) \in Nat
      /\ \A i \in 1 .. t : s[i] = tail[i]
      /\ \A i \in 1 .. n : s[t + i] = sentSamples + i
  BY <1>1, ChunkIs
<1> HIDE DEF s
<1>3. /\ m \in Nat /\ m * LoopFrame <= Len(s) /\ Len(s) < m * LoopFrame + LoopFrame
      /\ new \in Seq(Seq(Nat)) /\ Len(new) = m
      /\ \A k \in 1 .. m :
           /\ Len(new[k]) = LoopFrame
           /\ \A j \in 1 .. LoopFrame : new[k][j] = s[(k - 1) * LoopFrame + j]
      /\ Rest(s) \in Seq(Nat) /\ Len(Rest(s)) = Len(s) - m * LoopFrame
      /\ \A j \in 1 .. Len(Rest(s)) : Rest(s)[j] = s[m * LoopFrame + j]
  BY <1>2, Cutting
<1>4. tail' = Rest(s) /\ coded' = coded \o new
  BY DEF s
<1> HIDE DEF new, m
<1>5. /\ coded' \in Seq(Seq(Nat)) /\ Len(coded') = c + m
      /\ \A k \in 1 .. c : coded'[k] = coded[k]
      /\ \A k \in 1 .. m : coded'[c + k] = new[k]
  <2>1. /\ coded \o new \in Seq(Seq(Nat)) /\ Len(coded \o new) = c + Len(new)
        /\ \A k \in 1 .. c : (coded \o new)[k] = coded[k]
        /\ \A k \in 1 .. Len(new) : (coded \o new)[c + k] = new[k]
    <3>1. coded \in Seq(Seq(Nat)) /\ new \in Seq(Seq(Nat))
      BY <1>1, <1>3
    <3>2. QED
      BY <3>1
  <2>2. QED
    BY <2>1, <1>3, <1>4
<1>6. LoopTypeOK'
  BY SMTT(30), <1>0, <1>1, <1>2, <1>3, <1>4, <1>5 DEF LoopTypeOK
<1>7. heardFrames' = coded' /\ encoded' = <<>>
  BY <1>3, <1>4 DEF LoopInv, s, new
<1>8. CASE NothingPadded
  <2>1. /\ sentSamples = c * LoopFrame + t /\ c * LoopFrame \in Nat
        /\ m * LoopFrame \in Nat
    BY <1>0, <1>1, <1>3, <1>8 DEF NothingPadded
  <2>2. ASSUME NEW i \in 1 .. Len(s) PROVE s[i] = c * LoopFrame + i
    <3>1. CASE i \in 1 .. t
      BY <3>1, <1>2, <1>8 DEF NothingPadded
    <3>2. CASE i \notin 1 .. t
      <4>1. i - t \in 1 .. n /\ t + (i - t) = i
        BY <3>2, <1>1, <1>2
      <4>2. s[i] = sentSamples + (i - t)
        BY <4>1, <1>2
      <4>3. QED
        BY SMTT(30), <4>2, <2>1, <1>1
    <3>3. QED
      BY <3>1, <3>2
  <2>3. sentSamples' = (c + m) * LoopFrame + Len(tail')
    <3>1. (c + m) * LoopFrame = c * LoopFrame + m * LoopFrame
      BY <1>0, <1>1, <1>3
    <3>2. /\ sentSamples' = sentSamples + n /\ Len(tail') = Len(s) - m * LoopFrame
          /\ Len(s) = t + n
      BY <1>2, <1>3, <1>4
    <3>3. QED
      BY <1>1, <2>1, <3>1, <3>2
  <2>4. ASSUME NEW k \in 1 .. c + m
        PROVE  /\ Len(coded'[k]) = LoopFrame
               /\ \A j \in 1 .. LoopFrame : coded'[k][j] = (k - 1) * LoopFrame + j
    <3>1. CASE k \in 1 .. c
      BY <3>1, <1>5, <1>8 DEF NothingPadded
    <3>2. CASE k \notin 1 .. c
      <4>1. PICK l \in 1 .. m : k = c + l
        <5>1. k - c \in 1 .. m /\ k = c + (k - c)
          BY <3>2, <1>1, <1>3
        <5>2. QED
          BY <5>1
      <4>2. coded'[k] = new[l]
        BY <4>1, <1>5
      <4>3. ASSUME NEW j \in 1 .. LoopFrame
            PROVE  new[l][j] = (k - 1) * LoopFrame + j
        <5>1. l * LoopFrame <= m * LoopFrame /\ (l - 1) * LoopFrame \in Nat
              /\ l * LoopFrame = (l - 1) * LoopFrame + LoopFrame
          <6>1. /\ l \in Nat /\ m \in Nat /\ l <= m /\ l - 1 \in Nat
                /\ LoopFrame \in Nat
            BY <1>0, <1>3
          <6>2. l * LoopFrame <= m * LoopFrame
            BY <6>1, Multiples
          <6>3. (l - 1) * LoopFrame \in Nat
            BY <6>1, Multiples
          <6>4. l * LoopFrame = (l - 1) * LoopFrame + LoopFrame
            BY <6>1
          <6>5. QED
            BY <6>2, <6>3, <6>4
        <5>2. (l - 1) * LoopFrame + j \in 1 .. Len(s)
          <6>1. Len(s) \in Nat /\ m * LoopFrame <= Len(s)
            BY <1>2, <1>3
          <6>2. (l - 1) * LoopFrame + j <= m * LoopFrame
            BY SMTT(30), <5>1, <1>0, <2>1
          <6>3. (l - 1) * LoopFrame + j \in Nat /\ (l - 1) * LoopFrame + j >= 1
            BY <5>1
          <6>4. QED
            BY SMTT(30), <6>1, <6>2, <6>3, <2>1
        <5>3. new[l][j] = c * LoopFrame + ((l - 1) * LoopFrame + j)
          BY <5>2, <1>3, <2>2
        <5>4. (k - 1) * LoopFrame = c * LoopFrame + (l - 1) * LoopFrame
          BY <4>1, <1>0, <1>1
        <5>5. QED
          BY SMTT(30), <5>1, <5>3, <5>4, <2>1
      <4>4. QED
        BY <4>2, <4>3, <1>3
    <3>3. QED
      BY <3>1, <3>2
  <2>5. ASSUME NEW j \in 1 .. Len(tail')
        PROVE  tail'[j] = (c + m) * LoopFrame + j
    <3>1. m * LoopFrame + j \in 1 .. Len(s)
      <4>1. Len(s) \in Nat /\ Len(tail') = Len(s) - m * LoopFrame
        BY <1>2, <1>3, <1>4
      <4>2. QED
        BY SMTT(30), <4>1, <2>1
    <3>2. tail'[j] = c * LoopFrame + (m * LoopFrame + j)
      BY <3>1, <1>3, <1>4, <2>2
    <3>3. (c + m) * LoopFrame = c * LoopFrame + m * LoopFrame
      BY <1>0, <1>1, <1>3
    <3>4. QED
      BY <3>2, <3>3, <2>1
  <2>6. NothingPadded'
    BY <1>5, <2>3, <2>4, <2>5 DEF NothingPadded
  <2>7. QED
    BY <2>6, <1>6, <1>7 DEF LoopInv
<1>9. CASE LastPadded
  <2>1. CASE n = 0
    <3>1. Len(s) = 0 /\ m = 0
      BY <2>1, <1>0, <1>1, <1>2, <1>3, <1>9 DEF LastPadded
    <3>2. tail' = <<>> /\ new = <<>>
      <4>1. Len(tail') = 0 /\ tail' \in Seq(Nat) /\ Len(new) = 0
        BY <3>1, <1>0, <1>3, <1>4
      <4>2. QED
        BY <4>1, <1>3
    <3>3. coded' = coded /\ sentSamples' = sentSamples
      BY <3>2, <2>1, <1>1, <1>4
    <3>4. LastPadded'
      BY <3>2, <3>3, <1>9 DEF LastPadded, Shows, RoundTrip, Recording
    <3>5. QED
      BY <3>4, <1>6, <1>7 DEF LoopInv
  <2>2. CASE n > 0
    <3>1. new # <<>> \/ tail' # <<>>
      <4>1. CASE m = 0
        BY <4>1, <2>2, <1>0, <1>1, <1>2, <1>3, <1>4
      <4>2. CASE m # 0
        BY <4>2, <1>3
      <4>3. QED
        BY <4>1, <4>2
    <3>2. Shows(c) /\ c \in 1 .. Len(coded)
      BY <1>1, <1>9 DEF LastPadded
    <3>3. PaddedBefore'
      BY <3>1, <3>2, <1>1, <1>3, <1>4, PaddingStays
    <3>4. QED
      BY <3>3, <1>6, <1>7 DEF LoopInv
  <2>3. QED
    BY <2>1, <2>2
<1>10. CASE PaddedBefore
  <2>1. PICK k \in 1 .. Len(coded) : Shows(k) /\ (k < Len(coded) \/ tail # <<>>)
    BY <1>10 DEF PaddedBefore
  <2>2. tail # <<>> => new # <<>> \/ tail' # <<>>
    <3>1. SUFFICES ASSUME tail # <<>>, m = 0 PROVE tail' # <<>>
      BY <1>3
    <3>2. t > 0
      BY <3>1, <1>1
    <3>3. QED
      BY <3>1, <3>2, <1>0, <1>1, <1>2, <1>3, <1>4
  <2>3. PaddedBefore'
    BY <2>1, <2>2, <1>1, <1>3, <1>4, PaddingStays
  <2>4. QED
    BY <2>3, <1>6, <1>7 DEF LoopInv
<1>11. QED
  BY <1>8, <1>9, <1>10 DEF LoopInv

\* Before anything is padded, a frame is what one call would cut.
LEMMA PlainFrames ==
  ASSUME LoopTypeOK, NothingPadded, NEW k \in 1 .. Len(coded)
  PROVE  /\ k * LoopFrame <= sentSamples
         /\ coded[k] = FrameOf(Recording(sentSamples), k)
<1> DEFINE a == (k - 1) * LoopFrame
           r == Recording(sentSamples)
<1>0. LoopFrame \in Nat \ {0} /\ sentSamples \in Nat /\ Len(coded) \in Nat
      /\ Len(tail) \in Nat /\ coded[k] \in Seq(Nat)
  BY LoopbackAssumption DEF LoopTypeOK
<1>1. /\ a \in Nat /\ k * LoopFrame = a + LoopFrame
      /\ k * LoopFrame <= Len(coded) * LoopFrame
  BY SMTT(30), <1>0, Multiples
<1>2. k * LoopFrame <= sentSamples
  <2>1. sentSamples = Len(coded) * LoopFrame + Len(tail)
    BY DEF NothingPadded
  <2>2. QED
    BY <2>1, <1>0, <1>1
<1>3. r \in Seq(Nat) /\ Len(r) = sentSamples /\ \A i \in 1 .. sentSamples : r[i] = i
  BY <1>0 DEF Recording
<1>4. Len(coded[k]) = LoopFrame /\ \A j \in 1 .. LoopFrame : coded[k][j] = a + j
  BY DEF NothingPadded
<1> DEFINE b == a + LoopFrame
<1>5. FrameOf(r, k) = SubSeq(r, a + 1, b)
  BY <1>1 DEF FrameOf
<1>b. b \in Nat /\ a <= b /\ b - a = LoopFrame /\ b <= sentSamples
  BY <1>0, <1>1, <1>2
<1> HIDE DEF a, r, b
<1>6. /\ SubSeq(r, a + 1, b) \in Seq(Nat)
      /\ Len(SubSeq(r, a + 1, b)) = LoopFrame
      /\ \A j \in 1 .. LoopFrame : SubSeq(r, a + 1, b)[j] = r[a + j]
  BY <1>1, <1>3, <1>b, SubSeqIs
<1>7. ASSUME NEW j \in 1 .. LoopFrame
      PROVE  SubSeq(r, a + 1, b)[j] = coded[k][j]
  <2>1. a + j \in 1 .. sentSamples
    BY <1>0, <1>1, <1>b
  <2>2. QED
    BY <2>1, <1>3, <1>4, <1>6
<1>8. coded[k] = FrameOf(r, k)
  BY <1>0, <1>4, <1>5, <1>6, <1>7, SameSeq
<1>9. QED
  BY <1>2, <1>8 DEF r

\* Without a tail, the frames are those of one call for the whole recording.
LEMMA UnpaddedIsRoundTrip ==
  ASSUME LoopTypeOK, NothingPadded, tail = <<>>
  PROVE  coded = RoundTrip(Recording(sentSamples))
<1> DEFINE r == Recording(sentSamples)
<1>1. /\ LoopFrame \in Nat \ {0} /\ sentSamples \in Nat /\ Len(coded) \in Nat
      /\ coded \in Seq(Seq(Nat)) /\ Len(r) = sentSamples
  BY LoopbackAssumption DEF LoopTypeOK, Recording
<1>2. (Len(r) + LoopFrame - 1) \div LoopFrame = Len(coded)
  <2>1. Len(r) + LoopFrame - 1 = Len(coded) * LoopFrame + (LoopFrame - 1)
    <3>1. sentSamples = Len(coded) * LoopFrame + Len(tail) /\ Len(tail) = 0
      BY DEF NothingPadded
    <3>2. QED
      BY <1>1, <3>1
  <2>2. LoopFrame - 1 \in Nat /\ LoopFrame - 1 < LoopFrame
    BY <1>1
  <2>3. (Len(coded) * LoopFrame + (LoopFrame - 1)) \div LoopFrame = Len(coded)
    BY <1>1, <2>2, DivOf
  <2>4. QED
    BY <2>1, <2>3
<1>3. RoundTrip(r) = [k \in 1 .. Len(coded) |->
                       IF k * LoopFrame <= Len(r) THEN FrameOf(r, k)
                       ELSE Padded(SubSeq(r, (k - 1) * LoopFrame + 1, Len(r)))]
  BY <1>2 DEF RoundTrip
<1>4. \A k \in 1 .. Len(coded) : k * LoopFrame <= Len(r) /\ coded[k] = FrameOf(r, k)
  BY <1>1, PlainFrames
<1> HIDE DEF r
<1>5. RoundTrip(r) = [k \in 1 .. Len(coded) |-> coded[k]]
  BY <1>3, <1>4
<1>6. coded = [k \in 1 .. Len(coded) |-> coded[k]]
  BY <1>1
<1>7. QED
  BY <1>5, <1>6 DEF r

\* A padded tail is a frame, and its last sample shows the padding.
LEMMA PaddedIs ==
  ASSUME NEW s \in Seq(Nat), Len(s) < LoopFrame
  PROVE  Padded(s) \in Seq(Nat) /\ Len(Padded(s)) = LoopFrame /\ Padded(s)[LoopFrame] = 0
<1> DEFINE z == [i \in 1 .. LoopFrame - Len(s) |-> 0]
<1>1. LoopFrame \in Nat /\ Len(s) \in Nat /\ LoopFrame - Len(s) \in Nat \ {0}
  BY LoopbackAssumption
<1>2. z \in Seq(Nat) /\ Len(z) = LoopFrame - Len(s) /\ z[LoopFrame - Len(s)] = 0
  BY <1>1
<1> HIDE DEF z
<1>3. QED
  BY <1>1, <1>2 DEF Padded, z

\* With the tail padded, as one call pads it, likewise.
LEMMA PaddedIsRoundTrip ==
  ASSUME LoopTypeOK, NothingPadded, tail # <<>>
  PROVE  Append(coded, Padded(tail)) = RoundTrip(Recording(sentSamples))
<1> DEFINE r == Recording(sentSamples)
           c == Len(coded)
           t == Len(tail)
           all == Append(coded, Padded(tail))
<1>1. /\ LoopFrame \in Nat \ {0} /\ sentSamples \in Nat /\ c \in Nat
      /\ coded \in Seq(Seq(Nat)) /\ Len(r) = sentSamples /\ r \in Seq(Nat)
      /\ \A i \in 1 .. sentSamples : r[i] = i
      /\ tail \in Seq(Nat) /\ t \in Nat /\ t < LoopFrame
  BY LoopbackAssumption DEF LoopTypeOK, Recording
<1>2. t > 0 /\ c * LoopFrame \in Nat /\ sentSamples = c * LoopFrame + t
  BY <1>1 DEF NothingPadded
<1>3. (Len(r) + LoopFrame - 1) \div LoopFrame = c + 1
  <2>1. Len(r) + LoopFrame - 1 = (c + 1) * LoopFrame + (t - 1)
    BY <1>1, <1>2
  <2>2. t - 1 \in Nat /\ t - 1 < LoopFrame /\ c + 1 \in Nat
    BY <1>1, <1>2
  <2>3. ((c + 1) * LoopFrame + (t - 1)) \div LoopFrame = c + 1
    BY <1>1, <2>2, DivOf
  <2>4. QED
    BY <2>1, <2>3
<1>4. RoundTrip(r) = [k \in 1 .. c + 1 |->
                       IF k * LoopFrame <= Len(r) THEN FrameOf(r, k)
                       ELSE Padded(SubSeq(r, (k - 1) * LoopFrame + 1, Len(r)))]
  BY <1>3 DEF RoundTrip
<1>5. \A k \in 1 .. c : k * LoopFrame <= Len(r) /\ coded[k] = FrameOf(r, k)
  BY <1>1, PlainFrames
<1>6. tail = SubSeq(r, c * LoopFrame + 1, Len(r))
  <2> DEFINE a == c * LoopFrame
  <2>1. a \in Nat /\ a <= Len(r) /\ Len(r) - a = t /\ Len(r) \in Nat
        /\ \A j \in 1 .. t : tail[j] = a + j
    BY <1>1, <1>2 DEF NothingPadded
  <2> HIDE DEF a, r
  <2>2. /\ SubSeq(r, a + 1, Len(r)) \in Seq(Nat)
        /\ Len(SubSeq(r, a + 1, Len(r))) = Len(r) - a
        /\ \A j \in 1 .. Len(r) - a : SubSeq(r, a + 1, Len(r))[j] = r[a + j]
    BY <1>1, <2>1, SubSeqIs
  <2>3. \A j \in 1 .. t : SubSeq(r, a + 1, Len(r))[j] = tail[j]
    BY <1>1, <2>1, <2>2
  <2>4. tail = SubSeq(r, a + 1, Len(r))
    BY <1>1, <2>1, <2>2, <2>3
  <2>5. QED
    BY <2>4 DEF a
<1>7. ~((c + 1) * LoopFrame <= Len(r)) /\ (c + 1) - 1 = c
  <2>1. (c + 1) * LoopFrame = c * LoopFrame + LoopFrame
    BY <1>1
  <2>2. QED
    BY <2>1, <1>1, <1>2
<1> HIDE DEF r
<1>8. RoundTrip(r) = [k \in 1 .. c + 1 |-> IF k = c + 1 THEN Padded(tail) ELSE coded[k]]
  <2>1. ASSUME NEW k \in 1 .. c + 1
        PROVE  (IF k * LoopFrame <= Len(r) THEN FrameOf(r, k)
                ELSE Padded(SubSeq(r, (k - 1) * LoopFrame + 1, Len(r))))
                 = IF k = c + 1 THEN Padded(tail) ELSE coded[k]
    <3>1. CASE k = c + 1
      BY <3>1, <1>6, <1>7
    <3>2. CASE k # c + 1
      <4>1. k \in 1 .. c
        BY <3>2, <1>1
      <4>2. QED
        BY <3>2, <4>1, <1>5
    <3>3. QED
      BY <3>1, <3>2
  <2>2. QED
    BY <1>4, <2>1
<1>9. Padded(tail) \in Seq(Nat)
  BY <1>1, PaddedIs
<1>10. all = [k \in 1 .. c + 1 |-> IF k = c + 1 THEN Padded(tail) ELSE coded[k]]
  <2>1. /\ all \in Seq(Seq(Nat)) /\ Len(all) = c + 1 /\ all[c + 1] = Padded(tail)
        /\ \A k \in 1 .. c : all[k] = coded[k]
    BY <1>1, <1>9, FramesAppend
  <2> HIDE DEF all
  <2>2. \A k \in 1 .. c + 1 : all[k] = IF k = c + 1 THEN Padded(tail) ELSE coded[k]
    <3>1. ASSUME NEW k \in 1 .. c + 1, k # c + 1 PROVE k \in 1 .. c
      BY <1>1, <3>1
    <3>2. QED
      BY <2>1, <3>1
  <2>3. all = [k \in 1 .. c + 1 |-> all[k]]
    BY <1>1, <2>1
  <2>4. QED
    BY <2>2, <2>3
<1>11. QED
  BY <1>8, <1>10 DEF r

-----------------------------------------------------------------------------
\* A flush codes the padded tail or nothing.
LEMMA FlushKeepsInv ==
  ASSUME LoopInv, LoopFlush
  PROVE  LoopInv'
<1>1. /\ LoopTypeOK /\ tail \in Seq(Nat) /\ coded \in Seq(Seq(Nat)) /\ Len(tail) < LoopFrame
      /\ heardFrames = coded /\ encoded = <<>> /\ Len(coded) \in Nat
      /\ LoopFrame \in Nat \ {0}
  BY LoopbackAssumption DEF LoopInv, LoopTypeOK
<1>2. tail' = <<>> /\ sentSamples' = sentSamples /\ encoded' = <<>>
  BY DEF LoopFlush, Answer, AfterDecoding
<1>3. CASE tail = <<>>
  <2>1. coded' = coded \o <<>> /\ heardFrames' = heardFrames \o (encoded \o <<>>)
    BY <1>3 DEF LoopFlush, Answer
  <2>2. coded' = coded /\ heardFrames' = coded
    BY <1>1, <2>1
  <2>3. QED
    BY <1>2, <1>3, <2>2 DEF LoopInv, LoopTypeOK, NothingPadded, LastPadded,
       PaddedBefore, Shows, RoundTrip, Recording
<1>4. CASE tail # <<>>
  <2> DEFINE p == Padded(tail)
  <2>1. p \in Seq(Nat) /\ Len(p) = LoopFrame /\ p[LoopFrame] = 0
    BY <1>1, PaddedIs
  <2>2. coded' = coded \o <<p>> /\ heardFrames' = heardFrames \o (encoded \o <<p>>)
    BY <1>4 DEF LoopFlush, Answer
  <2> HIDE DEF p
  <2>3. coded' = Append(coded, p) /\ heardFrames' = coded'
    <3>1. <<p>> \in Seq(Seq(Nat)) /\ <<>> \o <<p>> = <<p>>
      BY <2>1
    <3>2. QED
      BY <1>1, <2>1, <2>2, <3>1, FramesAppend
  <2>4. /\ coded' \in Seq(Seq(Nat)) /\ Len(coded') = Len(coded) + 1
        /\ coded'[Len(coded) + 1] = p /\ coded' # <<>>
    <3>1. /\ Append(coded, p) \in Seq(Seq(Nat)) /\ Len(Append(coded, p)) = Len(coded) + 1
          /\ Append(coded, p)[Len(coded) + 1] = p /\ Append(coded, p) # <<>>
      <4>1. coded \in Seq(Seq(Nat)) /\ Len(coded) \in Nat
        BY <1>1
      <4>2. QED
        BY SMTT(30), <2>1, <4>1, FramesAppend
    <3>2. QED
      BY <2>3, <3>1
  <2>5. LoopTypeOK'
    BY <1>1, <1>2, <2>4 DEF LoopTypeOK
  <2>6. CASE NothingPadded
    <3>1. coded' = RoundTrip(Recording(sentSamples))
      BY <1>1, <1>4, <2>3, <2>6, PaddedIsRoundTrip DEF p
    <3>2. Shows(Len(coded))'
      BY <1>1, <2>1, <2>4 DEF Shows, ToSet
    <3>3. LastPadded'
      BY <1>2, <2>4, <3>1, <3>2 DEF LastPadded, RoundTrip, Recording
    <3>4. QED
      BY <1>2, <2>3, <2>5, <3>3 DEF LoopInv
  <2>7. CASE PaddedBefore
    <3>1. PICK k \in 1 .. Len(coded) : Shows(k)
      BY <2>7 DEF PaddedBefore
    <3>2. coded' = coded \o <<p>> /\ <<p>> \in Seq(Seq(Nat)) /\ <<p>> # <<>>
      BY <2>1, <2>2
    <3>3. PaddedBefore'
      BY <1>1, <3>1, <3>2, PaddingStays
    <3>4. QED
      BY <1>2, <2>3, <2>5, <3>3 DEF LoopInv
  <2>8. QED
    BY <1>4, <2>6, <2>7 DEF LoopInv, LastPadded
<1>5. QED
  BY <1>3, <1>4

\* A loopback stream that has sent nothing.
LEMMA LoopStarts ==
  ASSUME tail = <<>>, coded = <<>>, encoded = <<>>, heardFrames = <<>>, sentSamples = 0
  PROVE  LoopInv
<1>1. LoopFrame \in Nat \ {0} /\ Len(tail) = 0 /\ Len(coded) = 0 /\ 0 * LoopFrame = 0
  BY LoopbackAssumption
<1>2. LoopTypeOK
  BY <1>1 DEF LoopTypeOK
<1>3. NothingPadded
  BY <1>1 DEF NothingPadded
<1>4. QED
  BY <1>2, <1>3 DEF LoopInv

\* Every call keeps the invariant.
LEMMA LoopStepInv ==
  ASSUME LoopInv, [LoopNext]_loopVars
  PROVE  LoopInv'
<1>1. ASSUME NEW bytes \in ChunkBytes, LoopWrite(bytes) PROVE LoopInv'
  <2>1. CASE bytes % 2 # 0
    BY <1>1, <2>1 DEF LoopWrite, LoopInv, LoopTypeOK, NothingPadded, LastPadded,
       PaddedBefore, Shows, RoundTrip, Recording
  <2>2. CASE bytes % 2 = 0
    <3>1. bytes \div 2 \in Nat
      BY LoopbackAssumption
    <3>2. /\ tail' = Rest(Chunk(bytes \div 2))
          /\ coded' = coded \o WholeFrames(Chunk(bytes \div 2))
          /\ sentSamples' = sentSamples + bytes \div 2
          /\ heardFrames' = heardFrames \o (encoded \o WholeFrames(Chunk(bytes \div 2)))
          /\ encoded' = <<>>
      BY <1>1, <2>2 DEF LoopWrite, Chunk, Answer, AfterDecoding
    <3>3. QED
      BY <3>1, <3>2, WriteKeepsInv
  <2>3. QED
    BY <2>1, <2>2
<1>2. ASSUME LoopReset PROVE LoopInv'
  <2>1. /\ tail' = <<>> /\ coded' = <<>> /\ encoded' = <<>> /\ heardFrames' = <<>>
        /\ sentSamples' = 0
    BY <1>2 DEF LoopReset, ResetDecoder
  <2>2. LoopFrame \in Nat \ {0} /\ Len(tail') = 0 /\ Len(coded') = 0 /\ 0 * LoopFrame = 0
    BY <2>1, LoopbackAssumption
  <2>3. LoopTypeOK'
    BY <2>1, <2>2 DEF LoopTypeOK
  <2>4. NothingPadded'
    BY <2>1, <2>2 DEF NothingPadded
  <2>5. QED
    BY <2>1, <2>3, <2>4 DEF LoopInv
<1>3. CASE UNCHANGED loopVars
  BY <1>3 DEF loopVars, LoopInv, LoopTypeOK, NothingPadded, LastPadded,
     PaddedBefore, Shows, RoundTrip, Recording
<1>4. QED
  BY <1>1, <1>2, <1>3, FlushKeepsInv DEF LoopNext

\* At all times the frames are cut where one call would cut them, or a flush has
\* padded one.
THEOREM LoopInvHolds == LoopSpec => []LoopInv
<1>1. LoopInit => LoopInv
  BY LoopStarts, LoopbackAssumption DEF LoopInit
<1>2. QED
  BY <1>1, LoopStepInv, PTL DEF LoopSpec

\* What the page is promised follows.
LEMMA InvIsHeard == LoopInv => ChunksDoNotMatter
<1> SUFFICES ASSUME LoopInv, tail = <<>>,
                    \A k \in DOMAIN coded : 0 \in ToSet(coded[k]) => k = Len(coded)
             PROVE  coded = RoundTrip(Recording(sentSamples))
  BY DEF ChunksDoNotMatter, LoopInv, Recording
<1>1. LoopTypeOK /\ DOMAIN coded = 1 .. Len(coded) /\ Len(coded) \in Nat
  BY DEF LoopInv, LoopTypeOK
<1>2. ~PaddedBefore
  BY <1>1 DEF PaddedBefore, Shows
<1>3. QED
  BY <1>1, <1>2, UnpaddedIsRoundTrip DEF LoopInv, LastPadded

\* Whatever chunks the page sends and whenever it flushes or resets, what it has
\* heard is what one roundTripPCM16 of the recording would have played, unless a
\* flush padded a frame in the middle (main_js.go).
THEOREM ChunkingIsInvisible == LoopSpec => []ChunksDoNotMatter
  BY LoopInvHolds, InvIsHeard, PTL

-----------------------------------------------------------------------------
(* LoadTest: the schedule of a stream is fixed by the frames it has coded, *)
(* and what the report merges is what the streams recorded.                *)

\* The sums over the streams: each element counts, and what holds of each stream
\* holds of the sums.
LEMMA MergedIs ==
  ASSUME NEW x, \A i \in Streams : x[i] \in Nat
  PROVE  \E g \in [0 .. StreamCount -> Nat] :
           /\ Merged(x) = g[StreamCount] /\ g[0] = 0
           /\ \A k \in 1 .. StreamCount : g[k] = g[k - 1] + x[k - 1]
<1> DEFINE n == StreamCount
           y == [k \in 1 .. n |-> x[k - 1]]
           IsSum(f) == f = [k \in 0 .. n |-> IF k = 0 THEN 0 ELSE f[k - 1] + x[k - 1]]
           g == CHOOSE f : IsSum(f)
<1>1. n \in Nat /\ \A k \in 1 .. n : k - 1 \in Streams
  BY LoadAssumption DEF Streams
<1>2. \A k \in 1 .. n : y[k] = x[k - 1] /\ y[k] \in Nat
  BY <1>1
<1>3. Merged(x) = g[n]
  BY DEF Merged
<1> HIDE DEF y, n
<1>4. PICK f \in [0 .. n -> Int] : f[0] = 0 /\ \A k \in 1 .. n : f[k] = f[k - 1] + y[k]
  <2>1. \A k \in 1 .. n : y[k] \in Int
    BY <1>2
  <2>2. QED
    BY <1>1, <2>1, Sums
<1>5. IsSum(f)
  <2>1. f = [k \in 0 .. n |-> f[k]]
    BY <1>4
  <2>2. ASSUME NEW k \in 0 .. n
        PROVE  f[k] = IF k = 0 THEN 0 ELSE f[k - 1] + x[k - 1]
    <3>1. k = 0 \/ k \in 1 .. n
      BY <1>1
    <3>2. QED
      BY <1>2, <1>4, <3>1
  <2>3. QED
    BY <2>1, <2>2
<1>6. IsSum(g)
  BY <1>5
<1> HIDE DEF g
<1>7. g[0] = 0 /\ \A k \in 1 .. n : g[k] = g[k - 1] + y[k]
  <2>1. \A k \in 0 .. n : g[k] = IF k = 0 THEN 0 ELSE g[k - 1] + x[k - 1]
    BY <1>6
  <2>2. 0 \in 0 .. n /\ \A k \in 1 .. n : k \in 0 .. n /\ k # 0
    BY <1>1
  <2>3. QED
    BY <1>2, <2>1, <2>2
<1> DEFINE T == {k \in 0 .. n : g[k] \in Nat}
<1>8. 0 \in T
  BY <1>1, <1>7
<1>9. ASSUME NEW k \in 1 .. n, k - 1 \in T PROVE k \in T
  BY <1>2, <1>7, <1>9
<1>10. 0 .. n \subseteq T
  <2> HIDE DEF T
  <2>1. QED
    BY <1>1, <1>8, <1>9, RangeInduction
<1>11. g \in [0 .. n -> Nat]
  <2>1. \A k \in 0 .. n : g[k] \in Nat
    BY <1>10
  <2>2. g = [k \in 0 .. n |-> g[k]]
    BY <1>6
  <2>3. QED
    BY <2>1, <2>2
<1>12. \A k \in 1 .. n : g[k] = g[k - 1] + x[k - 1]
  BY <1>2, <1>7
<1>13. QED
  BY <1>3, <1>7, <1>11, <1>12 DEF n

\* Sums add up as their elements do.
LEMMA MergedAdds ==
  ASSUME NEW x, NEW y, NEW z,
         \A i \in Streams : /\ x[i] \in Nat /\ y[i] \in Nat /\ z[i] \in Nat
                            /\ x[i] + y[i] <= z[i]
  PROVE  /\ Merged(x) \in Nat /\ Merged(y) \in Nat /\ Merged(z) \in Nat
         /\ Merged(x) + Merged(y) <= Merged(z)
<1> DEFINE n == StreamCount
<1>1. n \in Nat /\ \A k \in 1 .. n : k - 1 \in Streams
  BY LoadAssumption DEF Streams
<1>2. PICK f \in [0 .. n -> Nat] :
        Merged(x) = f[n] /\ f[0] = 0 /\ \A k \in 1 .. n : f[k] = f[k - 1] + x[k - 1]
  BY MergedIs
<1>3. PICK g \in [0 .. n -> Nat] :
        Merged(y) = g[n] /\ g[0] = 0 /\ \A k \in 1 .. n : g[k] = g[k - 1] + y[k - 1]
  BY MergedIs
<1>4. PICK h \in [0 .. n -> Nat] :
        Merged(z) = h[n] /\ h[0] = 0 /\ \A k \in 1 .. n : h[k] = h[k - 1] + z[k - 1]
  BY MergedIs
<1> HIDE DEF n
<1> DEFINE T == {k \in 0 .. n : f[k] + g[k] <= h[k]}
<1>5. 0 \in T
  BY <1>1, <1>2, <1>3, <1>4
<1>6. ASSUME NEW k \in 1 .. n, k - 1 \in T PROVE k \in T
  <2>1. /\ f[k] = f[k - 1] + x[k - 1] /\ g[k] = g[k - 1] + y[k - 1]
        /\ h[k] = h[k - 1] + z[k - 1] /\ f[k - 1] + g[k - 1] <= h[k - 1]
    BY <1>2, <1>3, <1>4, <1>6
  <2>2. /\ x[k - 1] \in Nat /\ y[k - 1] \in Nat /\ z[k - 1] \in Nat
        /\ x[k - 1] + y[k - 1] <= z[k - 1]
    BY <1>1
  <2>3. f[k - 1] \in Nat /\ g[k - 1] \in Nat /\ h[k - 1] \in Nat /\ k \in 0 .. n
    BY <1>1
  <2>4. f[k] + g[k] <= h[k]
    BY <2>1, <2>2, <2>3
  <2>5. QED
    BY <2>3, <2>4
<1> HIDE DEF T
<1>7. 0 .. n \subseteq T
  BY <1>1, <1>5, <1>6, RangeInduction
<1>8. n \in 0 .. n
  BY <1>1
<1>9. f[n] + g[n] <= h[n]
  BY <1>7, <1>8 DEF T
<1>10. QED
  BY <1>2, <1>3, <1>4, <1>8, <1>9

\* No element is greater than the sum.
LEMMA MergedBounds ==
  ASSUME NEW x, \A i \in Streams : x[i] \in Nat
  PROVE  Merged(x) \in Nat /\ \A i \in Streams : x[i] <= Merged(x)
<1> DEFINE n == StreamCount
<1>1. n \in Nat /\ \A k \in 1 .. n : k - 1 \in Streams
  BY LoadAssumption DEF Streams
<1>2. PICK f \in [0 .. n -> Nat] :
        Merged(x) = f[n] /\ f[0] = 0 /\ \A k \in 1 .. n : f[k] = f[k - 1] + x[k - 1]
  BY MergedIs
<1> HIDE DEF n
<1> DEFINE T == {k \in 0 .. n : \A i \in 0 .. k - 1 : x[i] <= f[k]}
<1>3. 0 \in T
  BY <1>1
<1>4. ASSUME NEW k \in 1 .. n, k - 1 \in T PROVE k \in T
  <2>1. \A i \in 0 .. (k - 1) - 1 : x[i] <= f[k - 1]
    BY <1>4
  <2>2. f[k] = f[k - 1] + x[k - 1] /\ f[k - 1] \in Nat /\ x[k - 1] \in Nat /\ k \in 0 .. n
    BY <1>1, <1>2
  <2>3. ASSUME NEW i \in 0 .. k - 1 PROVE x[i] <= f[k]
    <3>1. CASE i = k - 1
      BY <2>2, <3>1
    <3>2. CASE i # k - 1
      <4>1. i \in 0 .. (k - 1) - 1 /\ i + 1 \in 1 .. n
        BY <3>2, <1>1
      <4>2. x[i] \in Nat
        <5>1. (i + 1) - 1 = i
          BY <4>1
        <5>2. QED
          BY <1>1, <4>1, <5>1
      <4>3. QED
        BY <2>1, <2>2, <4>1, <4>2
    <3>3. QED
      BY <3>1, <3>2
  <2>4. QED
    BY <2>2, <2>3
<1> HIDE DEF T
<1>5. 0 .. n \subseteq T
  BY <1>1, <1>3, <1>4, RangeInduction
<1>6. n \in T
  BY <1>1, <1>5
<1>7. n \in 0 .. n /\ \A i \in 0 .. n - 1 : x[i] <= f[n]
  BY <1>6 DEF T
<1>8. QED
  BY <1>2, <1>7 DEF Streams, n

\* Each time of a stream is within a limit or beyond it.
LEMMA EitherSide ==
  ASSUME NEW s \in Seq(Nat), NEW v \in Nat
  PROVE  /\ Cardinality({j \in DOMAIN s : s[j] <= v}) \in Nat
         /\ Cardinality({j \in DOMAIN s : s[j] > v}) \in Nat
         /\ Cardinality({j \in DOMAIN s : s[j] > v})
              + Cardinality({j \in DOMAIN s : s[j] <= v}) = Len(s)
<1> DEFINE A == {j \in DOMAIN s : s[j] <= v}
           B == {j \in DOMAIN s : s[j] > v}
<1>1. DOMAIN s = 1 .. Len(s) /\ Len(s) \in Nat
  OBVIOUS
<1>2. IsFiniteSet(DOMAIN s) /\ Cardinality(DOMAIN s) = Len(s)
  <2> DEFINE n == Len(s)
  <2>1. n \in Nat /\ n \in Int /\ 1 \in Int
    BY <1>1
  <2> HIDE DEF n
  <2>2. /\ IsFiniteSet(1 .. n)
        /\ Cardinality(1 .. n) = IF 1 > n THEN 0 ELSE n - 1 + 1
    BY <2>1, FS_Interval
  <2>3. Cardinality(1 .. n) = n
    BY <2>1, <2>2
  <2>4. QED
    BY <1>1, <2>2, <2>3 DEF n
<1>3. A \subseteq DOMAIN s /\ B \subseteq DOMAIN s
  OBVIOUS
<1>4. A \cup B = DOMAIN s /\ A \cap B = {}
  <2>1. \A j \in DOMAIN s : s[j] <= v <=> ~(s[j] > v)
    <3>1. \A j \in DOMAIN s : s[j] \in Nat
      BY <1>1
    <3>2. QED
      BY <3>1
  <2>2. QED
    BY <2>1, Zenon
<1> HIDE DEF A, B
<1>5. IsFiniteSet(A) /\ IsFiniteSet(B)
  BY <1>2, <1>3, FS_Subset
<1>6. Cardinality(A) \in Nat /\ Cardinality(B) \in Nat
  BY <1>5, FS_CardinalityType
<1>7. Cardinality(A \cup B) = Cardinality(A) + Cardinality(B) - Cardinality(A \cap B)
  BY <1>5, FS_Union
<1>8. Cardinality({}) = 0
  BY FS_EmptySet
<1>9. Cardinality(B) + Cardinality(A) = Len(s)
  <2>1. Len(s) = Cardinality(A) + Cardinality(B) - 0
    BY <1>2, <1>4, <1>7, <1>8
  <2>2. QED
    BY <1>6, <2>1
<1>10. QED
  BY <1>6, <1>9 DEF A, B

\* One more time beyond the limit is one more miss.
LEMMA OneMore ==
  ASSUME NEW s \in Seq(Nat), NEW t \in Nat, NEW v \in Nat
  PROVE  Cardinality({j \in DOMAIN Append(s, t) : Append(s, t)[j] > v})
           = Cardinality({j \in DOMAIN s : s[j] > v}) + IF t > v THEN 1 ELSE 0
<1> DEFINE B == {j \in DOMAIN s : s[j] > v}
           n == Len(s) + 1
           C == {j \in DOMAIN Append(s, t) : Append(s, t)[j] > v}
<1>1. DOMAIN s = 1 .. Len(s) /\ Len(s) \in Nat
  OBVIOUS
<1>2. IsFiniteSet(B)
  <2>1. IsFiniteSet(DOMAIN s)
    BY <1>1, FS_Interval
  <2>2. B \subseteq DOMAIN s
    OBVIOUS
  <2>3. QED
    BY <2>1, <2>2, FS_Subset
<1>3. Cardinality(B) \in Nat
  BY <1>2, FS_CardinalityType
<1>4. /\ DOMAIN Append(s, t) = 1 .. n /\ Append(s, t)[n] = t
      /\ \A j \in 1 .. Len(s) : Append(s, t)[j] = s[j]
  OBVIOUS
<1>5. n \notin B
  BY <1>1
<1>6. CASE t > v
  <2>1. C = B \cup {n}
    BY <1>1, <1>4, <1>6
  <2> HIDE DEF B, C, n
  <2>2. Cardinality(B \cup {n}) = Cardinality(B) + 1
    BY <1>2, <1>5, FS_AddElement
  <2>3. Cardinality(C) = Cardinality(B) + 1
    BY <2>1, <2>2
  <2>4. QED
    BY <2>3, <1>6 DEF B, C
<1>7. CASE ~(t > v)
  <2>1. C = B
    BY <1>1, <1>4, <1>7
  <2> HIDE DEF B, C, n
  <2>2. Cardinality(C) = Cardinality(B) + 0
    BY <2>1, <1>3
  <2>3. QED
    BY <2>2, <1>7 DEF B, C
<1>8. QED
  BY <1>6, <1>7

StreamCounts ==
  [frames : Nat, errors : Nat, misses : Nat, wakeLate : Nat, took : Seq(Nat)]

LoadTypeOK ==
  /\ realtime \in BOOLEAN /\ running \subseteq Streams
  /\ clock \in [Streams -> Nat] /\ due \in [Streams -> Nat]
  /\ counts \in [Streams -> StreamCounts]

\* When a paced stream's next frame is due.
OnSchedule ==
  realtime => \A i \in Streams :
    due[i] = FirstDue(i) + counts[i].frames * FrameDeadline

\* A stream's counts are those of the times it recorded, none longer than the test.
CountsAgree ==
  \A i \in Streams :
    /\ counts[i].frames = Len(counts[i].took)
    /\ counts[i].misses = Cardinality({j \in DOMAIN counts[i].took :
                                         counts[i].took[j] > FrameDeadline})
    /\ \A j \in DOMAIN counts[i].took : counts[i].took[j] <= clock[i]

LoadInv == LoadTypeOK /\ OnSchedule /\ PacedIsRealTime /\ CountsAgree

\* Streams start on schedule.
LEMMA LoadInitInv == LoadInit => LoadInv
<1> SUFFICES ASSUME LoadInit PROVE LoadInv
  OBVIOUS
<1>1. \A i \in Streams : counts[i] \in StreamCounts /\ counts[i].frames = 0
                           /\ counts[i].wakeLate = 0 /\ counts[i].misses = 0
                           /\ counts[i].took = <<>>
  BY DEF LoadInit, StreamCounts
<1>2. ASSUME NEW i \in Streams PROVE FirstDue(i) \in Nat
  <2>1. i * FrameDeadline \in Nat
    BY LoadAssumption DEF Streams
  <2>2. (i * FrameDeadline) \div StreamCount \in Nat
    BY <2>1, LoadAssumption, DivBounds
  <2>3. QED
    BY <2>2 DEF FirstDue
<1>3. LoadTypeOK
  BY <1>1, <1>2 DEF LoadInit, LoadTypeOK
<1>4. OnSchedule
  BY <1>1, <1>2, LoadAssumption DEF LoadInit, OnSchedule
<1>5. PacedIsRealTime
  BY <1>1 DEF LoadInit, PacedIsRealTime
<1>6. CountsAgree
  <2>1. DOMAIN <<>> = {} /\ Len(<<>>) = 0 /\ Cardinality({}) = 0
    BY FS_EmptySet
  <2>2. QED
    BY <1>1, <2>1 DEF CountsAgree
<1>7. QED
  BY <1>3, <1>4, <1>5, <1>6 DEF LoadInv

\* A stream's clock does not go back, and a paced stream never wakes before its
\* frame is due.
LEMMA WokenWhenDue ==
  ASSUME LoadTypeOK, NEW i \in Streams, NEW late \in Lateness
  PROVE  /\ Woken(i, late) \in Nat /\ Woken(i, late) >= clock[i]
         /\ realtime => Woken(i, late) >= due[i]
<1>1. clock[i] \in Nat /\ due[i] \in Nat /\ late \in Nat
  BY LoadAssumption DEF LoadTypeOK
<1>2. QED
  BY <1>1 DEF Woken, Later

\* A frame moves its stream, and no other, one deadline on.
LEMMA FrameKeepsSchedule ==
  ASSUME LoadInv, NEW i \in Streams, NEW late \in Lateness,
         NEW took \in Processing, NEW fails \in BOOLEAN,
         RunFrame(i, late, took, fails)
  PROVE  LoadInv'
<1> DEFINE woke == Woken(i, late)
           c == counts[i]
<1>0. /\ LoadTypeOK /\ OnSchedule /\ PacedIsRealTime /\ CountsAgree
      /\ took \in Nat /\ FrameDeadline \in Nat
  BY LoadAssumption DEF LoadInv
<1>1. woke \in Nat /\ woke >= clock[i] /\ (realtime => woke >= due[i])
  BY <1>0, WokenWhenDue
<1> HIDE DEF woke
<1>2. c \in StreamCounts
  BY <1>0 DEF LoadTypeOK
<1>3. /\ i \in running /\ woke <= Duration
      /\ clock' = [clock EXCEPT ![i] = woke + took]
      /\ due' = [due EXCEPT ![i] = @ + FrameDeadline]
      /\ realtime' = realtime /\ running' = running
  BY DEF RunFrame, woke
<1> DEFINE d == [frames |-> c.frames + 1,
                 errors |-> c.errors + IF fails THEN 1 ELSE 0,
                 misses |-> c.misses + IF took > FrameDeadline THEN 1 ELSE 0,
                 wakeLate |-> c.wakeLate + IF WakesLate(i, woke) THEN 1 ELSE 0,
                 took |-> Append(c.took, took)]
<1>4. counts' = [counts EXCEPT ![i] = d]
  BY DEF RunFrame, woke
<1>5. /\ d \in StreamCounts /\ d.frames = c.frames + 1
      /\ d.wakeLate <= c.wakeLate + 1 /\ d.took = Append(c.took, took)
      /\ d.misses = c.misses + IF took > FrameDeadline THEN 1 ELSE 0
  <2>1. /\ c.frames \in Nat /\ c.errors \in Nat /\ c.misses \in Nat
        /\ c.wakeLate \in Nat /\ c.took \in Seq(Nat)
    BY <1>2 DEF StreamCounts
  <2>2. Append(c.took, took) \in Seq(Nat)
    BY <2>1, <1>0
  <2>3. /\ d.frames = c.frames + 1 /\ d.took = Append(c.took, took)
        /\ d.errors = c.errors + IF fails THEN 1 ELSE 0
        /\ d.misses = c.misses + IF took > FrameDeadline THEN 1 ELSE 0
        /\ d.wakeLate = c.wakeLate + IF WakesLate(i, woke) THEN 1 ELSE 0
    OBVIOUS
  <2>4. d = [frames |-> d.frames, errors |-> d.errors, misses |-> d.misses,
             wakeLate |-> d.wakeLate, took |-> d.took]
    OBVIOUS
  <2> HIDE DEF d, c
  <2>5. /\ d.frames \in Nat /\ d.errors \in Nat /\ d.misses \in Nat
        /\ d.wakeLate \in Nat /\ d.wakeLate <= c.wakeLate + 1
    <3>1. /\ (IF fails THEN 1 ELSE 0) \in 0 .. 1
          /\ (IF took > FrameDeadline THEN 1 ELSE 0) \in 0 .. 1
          /\ (IF WakesLate(i, woke) THEN 1 ELSE 0) \in 0 .. 1
      OBVIOUS
    <3>2. \A n \in Nat, b \in 0 .. 1 : n + b \in Nat /\ n + b <= n + 1
      OBVIOUS
    <3>3. d.frames \in Nat
      BY <2>1, <2>3
    <3>4. QED
      BY <2>1, <2>3, <3>1, <3>2, <3>3, Zenon
  <2>6. d \in StreamCounts
    BY <2>2, <2>3, <2>4, <2>5 DEF StreamCounts
  <2>7. QED
    BY <2>3, <2>5, <2>6
<1> HIDE DEF d
<1>6. /\ counts'[i] = d /\ due'[i] = due[i] + FrameDeadline
      /\ \A k \in Streams \ {i} : counts'[k] = counts[k] /\ due'[k] = due[k]
  BY <1>0, <1>3, <1>4 DEF LoadTypeOK
<1>7. LoadTypeOK'
  BY <1>0, <1>1, <1>3, <1>4, <1>5 DEF LoadTypeOK
<1>8. \A k \in Streams : FirstDue(k)' = FirstDue(k)
  BY <1>3 DEF FirstDue
<1>9. /\ due[i] \in Nat /\ c.frames \in Nat /\ c.wakeLate \in Nat
      /\ d.wakeLate \in Nat
  BY <1>0, <1>2, <1>5 DEF LoadTypeOK, StreamCounts
<1>10. OnSchedule'
  <2>1. SUFFICES ASSUME realtime, NEW k \in Streams
                 PROVE  due'[k] = FirstDue(k) + counts'[k].frames * FrameDeadline
    BY <1>3, <1>8 DEF OnSchedule
  <2>2. due[k] = FirstDue(k) + counts[k].frames * FrameDeadline /\ due[k] \in Nat
    BY <2>1, <1>0 DEF OnSchedule, LoadTypeOK
  <2>3. CASE k = i
    <3>1. (c.frames + 1) * FrameDeadline = c.frames * FrameDeadline + FrameDeadline
      BY <1>0, <1>9
    <3>2. FirstDue(k) \in Int
      BY <2>1, LoadAssumption DEF FirstDue, Streams
    <3>3. /\ due'[k] = due[i] + FrameDeadline /\ counts'[k].frames = c.frames + 1
          /\ due[i] = FirstDue(k) + c.frames * FrameDeadline
      BY <2>2, <2>3, <1>5, <1>6
    <3>4. c.frames * FrameDeadline \in Int
      BY <1>0, <1>9
    <3> HIDE DEF c
    <3>5. QED
      BY <3>1, <3>2, <3>3, <3>4, <1>0
  <2>4. CASE k # i
    BY <2>2, <2>4, <1>6
  <2>5. QED
    BY <2>3, <2>4
<1>11. PacedIsRealTime'
  <2>1. SUFFICES ASSUME realtime, NEW k \in Streams
                 PROVE  /\ counts'[k].frames > 0 =>
                             FirstDue(k) + (counts'[k].frames - 1) * FrameDeadline <= Duration
                        /\ counts'[k].wakeLate
                             <= counts'[k].frames + IF k \in running THEN 0 ELSE 1
    BY <1>3, <1>8 DEF PacedIsRealTime
  <2>2. CASE k = i
    <3>1. counts'[k].frames - 1 = c.frames
      BY <2>2, <1>5, <1>6, <1>9
    <3>2. due[i] = FirstDue(i) + c.frames * FrameDeadline /\ due[i] <= Duration
      BY <2>1, <1>0, <1>1, <1>3, <1>9, LoadAssumption DEF OnSchedule
    <3>3. c.wakeLate <= c.frames + 0
      BY <2>1, <1>0, <1>3 DEF PacedIsRealTime
    <3>4. QED
      BY <2>2, <3>1, <3>2, <3>3, <1>3, <1>5, <1>6, <1>9
  <2>3. CASE k # i
    BY <2>1, <2>3, <1>0, <1>6 DEF PacedIsRealTime
  <2>4. QED
    BY <2>2, <2>3
<1>12. CountsAgree'
  <2>1. SUFFICES ASSUME NEW k \in Streams
                 PROVE  /\ counts'[k].frames = Len(counts'[k].took)
                        /\ counts'[k].misses = Cardinality({j \in DOMAIN counts'[k].took :
                                                  counts'[k].took[j] > FrameDeadline})
                        /\ \A j \in DOMAIN counts'[k].took :
                             counts'[k].took[j] <= clock'[k]
    BY DEF CountsAgree
  <2>2. /\ counts[k].frames = Len(counts[k].took)
        /\ counts[k].misses = Cardinality({j \in DOMAIN counts[k].took :
                                  counts[k].took[j] > FrameDeadline})
        /\ \A j \in DOMAIN counts[k].took : counts[k].took[j] <= clock[k]
    BY <1>0 DEF CountsAgree
  <2>3. CASE k # i
    <3>1. counts'[k] = counts[k] /\ clock'[k] = clock[k]
      BY <2>3, <1>0, <1>3, <1>6 DEF LoadTypeOK
    <3>2. QED
      BY <2>2, <3>1
  <2>4. CASE k = i
    <3>1. /\ counts'[k] = d /\ clock'[k] = woke + took /\ clock[i] \in Nat
          /\ c.took \in Seq(Nat) /\ Len(c.took) \in Nat
      BY <2>4, <1>0, <1>2, <1>3, <1>6 DEF LoadTypeOK, StreamCounts
    <3>2. counts'[k].frames = Len(counts'[k].took)
      BY <2>2, <2>4, <3>1, <1>5, <1>0
    <3>3. counts'[k].misses = Cardinality({j \in DOMAIN counts'[k].took :
                                counts'[k].took[j] > FrameDeadline})
      <4> DEFINE s == c.took
      <4>1. s \in Seq(Nat) /\ took \in Nat /\ FrameDeadline \in Nat
        BY <3>1, <1>0
      <4>2. /\ counts'[k].took = Append(s, took)
            /\ counts'[k].misses = Cardinality({j \in DOMAIN s : s[j] > FrameDeadline})
                                    + IF took > FrameDeadline THEN 1 ELSE 0
        BY <2>2, <2>4, <3>1, <1>5
      <4> HIDE DEF s
      <4>3. Cardinality({j \in DOMAIN Append(s, took) : Append(s, took)[j] > FrameDeadline})
              = Cardinality({j \in DOMAIN s : s[j] > FrameDeadline})
                + IF took > FrameDeadline THEN 1 ELSE 0
        BY <4>1, OneMore
      <4>4. QED
        BY <4>2, <4>3
    <3>4. ASSUME NEW j \in DOMAIN counts'[k].took
          PROVE  counts'[k].took[j] <= clock'[k]
      <4> DEFINE s == c.took
      <4>1. /\ s \in Seq(Nat) /\ j \in 1 .. Len(s) + 1 /\ counts'[k].took[j] = Append(s, took)[j]
            /\ \A n \in 1 .. Len(s) : s[n] <= clock[i]
        BY <2>2, <2>4, <3>1, <1>5
      <4> HIDE DEF s
      <4>2. CASE j = Len(s) + 1
        BY <4>1, <4>2, <3>1, <1>0, <1>1
      <4>3. CASE j # Len(s) + 1
        <5>1. j \in 1 .. Len(s) /\ Append(s, took)[j] = s[j] /\ s[j] \in Nat
          BY <4>1, <4>3, <1>0
        <5>2. QED
          BY <4>1, <5>1, <3>1, <1>0, <1>1
      <4>4. QED
        BY <4>2, <4>3
    <3>5. QED
      BY <3>2, <3>3, <3>4
  <2>5. QED
    BY <2>3, <2>4
<1>13. QED
  BY <1>7, <1>10, <1>11, <1>12 DEF LoadInv

\* A stream that ends leaves the schedule as it was.
LEMMA EndKeepsSchedule ==
  ASSUME LoadInv, NEW i \in Streams, NEW late \in Lateness, EndStream(i, late)
  PROVE  LoadInv'
<1> DEFINE woke == Woken(i, late)
           w == counts[i].wakeLate + IF WakesLate(i, woke) THEN 1 ELSE 0
<1>0. LoadTypeOK /\ OnSchedule /\ PacedIsRealTime /\ CountsAgree
  BY DEF LoadInv
<1>1. /\ i \in running /\ running' = running \ {i}
      /\ counts' = [counts EXCEPT ![i].wakeLate = w]
      /\ UNCHANGED <<realtime, clock, due, report>>
  BY DEF EndStream
<1>2. counts[i].wakeLate \in Nat /\ w \in Nat /\ w <= counts[i].wakeLate + 1
  BY <1>0 DEF LoadTypeOK, StreamCounts
<1> HIDE DEF w
<1>3. /\ counts' \in [Streams -> StreamCounts]
      /\ counts'[i].wakeLate = w
      /\ \A k \in Streams : /\ counts'[k].frames = counts[k].frames
                            /\ counts'[k].misses = counts[k].misses
                            /\ counts'[k].took = counts[k].took
      /\ \A k \in Streams \ {i} : counts'[k] = counts[k]
  BY <1>0, <1>1, <1>2 DEF LoadTypeOK, StreamCounts
<1>4. LoadTypeOK'
  BY <1>0, <1>1, <1>3 DEF LoadTypeOK
<1>5. OnSchedule'
  BY <1>0, <1>1, <1>3 DEF OnSchedule, FirstDue
<1>6. PacedIsRealTime'
  <2>1. SUFFICES ASSUME realtime, NEW k \in Streams
                 PROVE  /\ counts'[k].frames > 0 =>
                             FirstDue(k) + (counts'[k].frames - 1) * FrameDeadline <= Duration
                        /\ counts'[k].wakeLate
                             <= counts'[k].frames + IF k \in running' THEN 0 ELSE 1
    BY <1>1 DEF PacedIsRealTime, FirstDue
  <2>2. /\ counts[k].frames > 0 =>
             FirstDue(k) + (counts[k].frames - 1) * FrameDeadline <= Duration
        /\ counts[k].wakeLate <= counts[k].frames + IF k \in running THEN 0 ELSE 1
        /\ counts[k].frames \in Nat
    BY <2>1, <1>0 DEF PacedIsRealTime, LoadTypeOK, StreamCounts
  <2>3. CASE k = i
    BY <2>2, <2>3, <1>1, <1>2, <1>3
  <2>4. CASE k # i
    BY <2>2, <2>4, <1>1, <1>3
  <2>5. QED
    BY <2>3, <2>4
<1>7. CountsAgree'
  <2>1. \A k \in Streams : /\ counts'[k].frames = counts[k].frames
                          /\ counts'[k].misses = counts[k].misses
                          /\ counts'[k].took = counts[k].took
                          /\ clock'[k] = clock[k]
    BY <1>1, <1>3
  <2>2. ASSUME NEW k \in Streams
        PROVE  /\ counts'[k].frames = Len(counts'[k].took)
               /\ counts'[k].misses = Cardinality({j \in DOMAIN counts'[k].took :
                                         counts'[k].took[j] > FrameDeadline})
               /\ \A j \in DOMAIN counts'[k].took : counts'[k].took[j] <= clock'[k]
    <3>1. /\ counts[k].frames = Len(counts[k].took)
          /\ counts[k].misses = Cardinality({j \in DOMAIN counts[k].took :
                                    counts[k].took[j] > FrameDeadline})
          /\ \A j \in DOMAIN counts[k].took : counts[k].took[j] <= clock[k]
      BY <1>0 DEF CountsAgree
    <3>2. QED
      BY <2>1, <3>1, Zenon
  <2>3. QED
    BY <2>2 DEF CountsAgree
<1>8. QED
  BY <1>4, <1>5, <1>6, <1>7 DEF LoadInv

\* Every step of a stream keeps to the schedule.
LEMMA LoadStepInv == LoadInv /\ [LoadNext]_loadVars => LoadInv'
<1> SUFFICES ASSUME LoadInv, [LoadNext]_loadVars PROVE LoadInv'
  OBVIOUS
<1>1. CASE Report
  BY <1>1 DEF Report, LoadInv, LoadTypeOK, OnSchedule, PacedIsRealTime, CountsAgree, FirstDue
<1>2. CASE UNCHANGED loadVars
  BY <1>2 DEF loadVars, LoadInv, LoadTypeOK, OnSchedule, PacedIsRealTime, CountsAgree, FirstDue
<1>3. QED
  BY <1>1, <1>2, FrameKeepsSchedule, EndKeepsSchedule DEF LoadNext

\* However late its wakes and however slow its frames, a paced stream codes no
\* frame before its time, and at most one wake in excess of its frames is late
\* (g729loadtest, runStream).
THEOREM PacingIsRealTime == LoadSpec => []PacedIsRealTime
<1>1. LoadInv => PacedIsRealTime
  BY DEF LoadInv
<1>2. QED
  BY <1>1, LoadInitInv, LoadStepInv, PTL DEF LoadSpec

\* There is a time at every rank, and as many frames did not exceed it.
LEMMA RankedIs ==
  ASSUME LoadTypeOK, CountsAgree, NEW rank \in Nat, rank > 0,
         rank <= Merged([i \in Streams |-> Len(counts[i].took)])
  PROVE  /\ Ranked(rank) \in Nat
         /\ Merged([i \in Streams |-> Within(i, Ranked(rank))]) >= rank
<1> DEFINE len == [i \in Streams |-> Len(counts[i].took)]
           times == UNION {ToSet(counts[i].took) : i \in Streams}
           reach == {v \in times : Merged([i \in Streams |-> Within(i, v)]) >= rank}
<1>1. \A i \in Streams : counts[i].took \in Seq(Nat) /\ clock[i] \in Nat
  BY DEF LoadTypeOK, StreamCounts
<1>2. \A v : v \in times <=>
        \E i \in Streams : \E j \in DOMAIN counts[i].took : v = counts[i].took[j]
  BY DEF ToSet
<1>3. times \subseteq Nat
  <2>1. \A i \in Streams : \A j \in DOMAIN counts[i].took : counts[i].took[j] \in Nat
    BY <1>1
  <2> HIDE DEF times
  <2>2. QED
    BY <1>2, <2>1
<1>4. Ranked(rank) = CHOOSE v \in reach : \A w \in reach : v <= w
  BY DEF Ranked
<1>5. \A i \in Streams : len[i] = Len(counts[i].took) /\ len[i] \in Nat
  BY <1>1
<1>6. rank <= Merged(len)
  OBVIOUS
<1>7. \A v : v \in reach <=> v \in times /\ Merged([i \in Streams |-> Within(i, v)]) >= rank
  OBVIOUS
<1> HIDE DEF len, times, reach
<1>8. Merged(len) \in Nat /\ times # {}
  <2>1. Merged(len) \in Nat
    BY <1>5, MergedBounds
  <2>2. ASSUME times = {} PROVE FALSE
    <3>1. \A i \in Streams : DOMAIN counts[i].took = {}
      BY <1>2, <2>2
    <3>2. \A i \in Streams : len[i] = 0
      <4>1. ASSUME NEW i \in Streams PROVE Len(counts[i].took) = 0
        <5>1. counts[i].took \in Seq(Nat) /\ DOMAIN counts[i].took = {}
          BY <1>1, <3>1
        <5> DEFINE t == counts[i].took
        <5>2. t \in Seq(Nat) /\ DOMAIN t = {}
          BY <5>1
        <5> HIDE DEF t
        <5>3. Len(t) \in Nat /\ ~(1 \in 1 .. Len(t))
          BY <5>2
        <5>4. Len(t) = 0
          BY <5>3
        <5>5. QED
          BY <5>4 DEF t
      <4>2. QED
        BY <1>5, <4>1
    <3>3. \A i \in Streams : len[i] \in Nat /\ len[i] + len[i] <= len[i]
      BY <3>2
    <3>4. Merged(len) + Merged(len) <= Merged(len)
      BY <3>3, MergedAdds
    <3>5. QED
      BY <1>6, <2>1, <3>4
  <2>3. QED
    BY <2>1, <2>2
<1> DEFINE bounds == {b \in Nat : \A v \in times : v <= b}
<1>9. PICK m \in bounds : \A b \in bounds : m <= b
  <2>1. \A i \in Streams : clock[i] <= Merged(clock)
    BY <1>1, MergedBounds
  <2>2. Merged(clock) \in Nat
    BY <1>1, MergedBounds
  <2>3. ASSUME NEW v \in times PROVE v <= Merged(clock)
    <3>1. PICK i \in Streams : \E j \in DOMAIN counts[i].took : v = counts[i].took[j]
      BY <1>2
    <3>2. v \in Nat /\ v <= clock[i]
      BY <1>3, <3>1 DEF CountsAgree
    <3>3. QED
      BY <1>1, <2>1, <2>2, <3>2
  <2>4. bounds # {} /\ bounds \subseteq Nat
    BY <2>2, <2>3
  <2> HIDE DEF bounds
  <2>5. QED
    BY <2>4, NatLeast
<1>10. m \in Nat /\ \A v \in times : v <= m
  BY <1>9
<1>11. m \in times
  <2>1. ASSUME m \notin times PROVE FALSE
    <3>1. PICK u \in times : TRUE
      BY <1>8
    <3>2. \A v \in times : v \in Nat /\ v <= m - 1
      BY <1>3, <1>10, <2>1
    <3>3. m - 1 \in Nat
      BY <1>10, <3>1, <3>2
    <3>4. m - 1 \in bounds
      BY <3>2, <3>3
    <3>5. m <= m - 1
      BY <1>9, <3>4
    <3>6. QED
      BY <1>10, <3>5
  <2>2. QED
    BY <2>1
<1> HIDE DEF bounds
<1>12. ASSUME NEW i \in Streams PROVE Within(i, m) = len[i]
  <2>1. \A j \in DOMAIN counts[i].took : counts[i].took[j] <= m
    BY <1>2, <1>10
  <2>2. {j \in DOMAIN counts[i].took : counts[i].took[j] <= m} = 1 .. Len(counts[i].took)
    BY <1>1, <2>1
  <2>3. Cardinality(1 .. Len(counts[i].took)) = Len(counts[i].took)
    BY <1>1, FS_Interval
  <2>4. QED
    BY <1>5, <2>2, <2>3 DEF Within
<1>13. m \in reach
  <2>1. [i \in Streams |-> Within(i, m)] = len
    BY <1>12 DEF len
  <2>2. QED
    BY <1>6, <1>7, <1>8, <1>11, <2>1
<1>14. PICK w \in reach : \A v \in reach : w <= v
  <2>1. reach \in SUBSET Nat /\ reach # {}
    BY <1>3, <1>7, <1>13
  <2>2. QED
    BY <2>1, NatLeast
<1>15. Ranked(rank) \in reach
  BY <1>4, <1>14
<1>16. QED
  BY <1>3, <1>7, <1>15

\* What the test reports when it passes.
LEMMA PassBounds ==
  ASSUME LoadTypeOK, CountsAgree, Report
  PROVE  PassBoundsMisses'
<1> DEFINE frames == [i \in Streams |-> counts[i].frames]
           misses == [i \in Streams |-> counts[i].misses]
           len == [i \in Streams |-> Len(counts[i].took)]
           n == Merged(frames)
           m == Merged(misses)
           top == Percentile(Percent, Merged(len))
<1>1. \A i \in Streams : counts[i] \in StreamCounts
  BY DEF LoadTypeOK
<1>2. \A i \in Streams : counts[i].took \in Seq(Nat)
  BY <1>1 DEF StreamCounts
<1>3. frames = len
  BY DEF CountsAgree
<1>4. /\ report' # <<>> /\ report'[1].frames = n /\ report'[1].misses = m
      /\ report'[1].exit = 0 => ~(top > FrameDeadline)
  BY DEF Report
<1>5. FrameDeadline \in Nat /\ Percent \in 1 .. 100
  BY LoadAssumption
<1> DEFINE in(v) == [i \in Streams |-> Within(i, v)]
<1>6. ASSUME NEW v \in Nat, NEW i \in Streams
      PROVE  in(v)[i] \in Nat /\ in(v)[i] = Cardinality({j \in DOMAIN counts[i].took :
                                                     counts[i].took[j] <= v})
  BY <1>2, EitherSide DEF Within
<1>7. ASSUME NEW i \in Streams
      PROVE  /\ frames[i] \in Nat /\ misses[i] \in Nat
             /\ misses[i] + in(FrameDeadline)[i] <= frames[i]
  <2>1. misses[i] = Cardinality({j \in DOMAIN counts[i].took :
                                   counts[i].took[j] > FrameDeadline})
        /\ frames[i] = Len(counts[i].took)
    BY DEF CountsAgree
  <2>2. Len(counts[i].took) \in Nat
    BY <1>2
  <2> HIDE DEF in, misses, frames
  <2>3. /\ misses[i] \in Nat
        /\ misses[i] + in(FrameDeadline)[i] = Len(counts[i].took)
    <3>1. in(FrameDeadline)[i] = Cardinality({j \in DOMAIN counts[i].took :
                                                counts[i].took[j] <= FrameDeadline})
      BY <1>5, <1>6
    <3>2. counts[i].took \in Seq(Nat)
      BY <1>2
    <3>3. QED
      BY <1>5, <2>1, <3>1, <3>2, EitherSide
  <2>4. QED
    BY <1>5, <1>6, <2>1, <2>2, <2>3
<1>8. n \in Nat /\ m \in Nat /\ Merged(in(FrameDeadline)) \in Nat
      /\ m + Merged(in(FrameDeadline)) <= n
  <2> HIDE DEF in, misses, frames
  <2>1. \A i \in Streams : in(FrameDeadline)[i] \in Nat
    BY <1>5, <1>6
  <2>2. QED
    BY <1>7, <2>1, MergedAdds
<1> DEFINE index == (Percent * n + 99) \div 100 - 1
           rank == IF index < 0 THEN 1 ELSE index + 1
<1>9. n # 0 => top = Ranked(rank)
  BY <1>3 DEF Percentile
<1> HIDE DEF in, misses, n, m, top
<1>10. ASSUME n # 0
       PROVE  rank \in Nat /\ rank > 0 /\ rank <= n /\ 100 * rank >= Percent * n
  <2>1. Percent * n \in Nat /\ Percent * n <= 100 * n /\ Percent * n >= n
    BY <1>5, <1>8, <1>10
  <2> DEFINE a == Percent * n
  <2>2. a \in Nat /\ a >= n /\ a <= 100 * n
    BY <2>1
  <2> HIDE DEF a
  <2> DEFINE q == (a + 99) \div 100
  <2>3. q \in Nat /\ 100 * q <= a + 99 /\ a + 99 < 100 * q + 100
    BY <2>2
  <2> HIDE DEF q
  <2>4. q >= 1 /\ q <= n /\ 100 * q >= a
    BY <1>8, <1>10, <2>2, <2>3
  <2>5. rank = q
    BY <2>3, <2>4 DEF q, a
  <2> HIDE DEF rank
  <2>6. QED
    BY <2>3, <2>4, <2>5 DEF a
<1> HIDE DEF rank
<1>11. ASSUME ~(top > FrameDeadline) PROVE 100 * m <= (100 - Percent) * n
  <2>1. CASE n = 0
    BY <1>5, <1>8, <2>1
  <2>2. CASE n # 0
    <3>1. rank \in Nat /\ rank > 0 /\ rank <= n /\ 100 * rank >= Percent * n
      BY <1>10, <2>2
    <3>2. rank <= Merged([i \in Streams |-> Len(counts[i].took)])
      BY <1>3, <3>1 DEF n
    <3>3. Ranked(rank) \in Nat /\ Merged(in(Ranked(rank))) >= rank
      BY <3>1, <3>2, RankedIs DEF in
    <3>4. Ranked(rank) <= FrameDeadline
      BY <1>5, <1>9, <1>11, <2>2, <3>3
    <3> DEFINE zero == [i \in Streams |-> 0]
               r == Ranked(rank)
    <3>5. ASSUME NEW i \in Streams
          PROVE  /\ in(r)[i] \in Nat /\ zero[i] \in Nat /\ in(FrameDeadline)[i] \in Nat
                 /\ in(r)[i] + zero[i] <= in(FrameDeadline)[i]
      <4>1. /\ in(r)[i] = Cardinality({j \in DOMAIN counts[i].took : counts[i].took[j] <= r})
            /\ in(r)[i] \in Nat /\ in(FrameDeadline)[i] \in Nat
            /\ in(FrameDeadline)[i] = Cardinality({j \in DOMAIN counts[i].took :
                                                     counts[i].took[j] <= FrameDeadline})
        BY <1>5, <1>6, <3>3
      <4> DEFINE A == {j \in DOMAIN counts[i].took : counts[i].took[j] <= r}
                 B == {j \in DOMAIN counts[i].took : counts[i].took[j] <= FrameDeadline}
      <4>2. A \subseteq B
        <5> HIDE DEF r
        <5>1. \A j \in DOMAIN counts[i].took : counts[i].took[j] \in Nat
          BY <1>2
        <5>2. QED
          BY <1>5, <3>3, <3>4, <5>1 DEF r
      <4>3. IsFiniteSet(B)
        <5>1. IsFiniteSet(1 .. Len(counts[i].took))
          BY <1>2, FS_Interval
        <5>2. B \in SUBSET (1 .. Len(counts[i].took))
          BY <1>2
        <5>3. QED
          BY <5>1, <5>2, FS_Subset
      <4>4. Cardinality(A) <= Cardinality(B)
        <5> HIDE DEF A, B
        <5>1. QED
          BY <4>2, <4>3, FS_Subset
      <4>5. QED
        BY <4>1, <4>4
    <3> HIDE DEF zero
    <3>6. Merged(in(r)) \in Nat /\ Merged(zero) \in Nat
          /\ Merged(in(r)) + Merged(zero) <= Merged(in(FrameDeadline))
      <4> HIDE DEF r
      <4>1. QED
        BY <3>5, MergedAdds
    <3>7. m <= n - rank
      <4> DEFINE a == Merged(in(r))
                 b == Merged(in(FrameDeadline))
      <4>1. a \in Nat /\ b \in Nat /\ a <= b /\ a >= rank /\ m + b <= n
        BY <1>8, <3>3, <3>6
      <4> HIDE DEF a, b
      <4>2. QED
        BY <1>8, <3>1, <4>1
    <3>8. (100 - Percent) * n = 100 * n - Percent * n /\ Percent * n \in Int
      BY <1>5, <1>8
    <3>9. QED
      BY <1>8, <3>1, <3>7, <3>8
  <2>3. QED
    BY <2>1, <2>2
<1>12. QED
  BY <1>4, <1>11 DEF PassBoundsMisses

\* Only the report sets what the test returned.
LEMMA BoundStepInv ==
  ASSUME LoadInv, PassBoundsMisses, [LoadNext]_loadVars
  PROVE  PassBoundsMisses'
<1>1. CASE Report
  BY <1>1, PassBounds DEF LoadInv
<1>2. ASSUME ~Report PROVE report' = report
  BY <1>2 DEF LoadNext, EndStream, RunFrame, loadVars
<1>3. QED
  BY <1>1, <1>2 DEF PassBoundsMisses

\* However many streams, however many frames each of them codes and however slow
\* each is: a test that exits with 0 under the default limits missed the deadline
\* of no more frames than its percentile leaves out (g729loadtest, mergeResults
\* and percentile).
THEOREM PassBounded == LoadSpec => []PassBoundsMisses
<1>1. LoadInit => LoadInv /\ PassBoundsMisses
  BY LoadInitInv DEF LoadInit, PassBoundsMisses
<1>2. LoadInv /\ PassBoundsMisses /\ [LoadNext]_loadVars => LoadInv' /\ PassBoundsMisses'
  BY LoadStepInv, BoundStepInv
<1>3. QED
  BY <1>1, <1>2, PTL DEF LoadSpec

-----------------------------------------------------------------------------
(* RtpCheck: the parser and the records.                                   *)

\* What ParseRTP accepts lies behind the header and inside the packet, whatever
\* the header claims.
LEMMA ParsedIsInside ==
  ASSUME NEW len \in Nat, NEW cc \in Nat, NEW ext \in Int, NEW pad \in Int
  PROVE  LET p == ParseRTP([len |-> len, version |-> 2, cc |-> cc, ext |-> ext,
                            pad |-> pad])
         IN  p.ok => 12 + 4 * cc <= p.off /\ p.off <= p.end /\ p.end <= len
  BY DEF ParseRTP

\* The payload sliced out lies behind the header and inside the datagram
\* (ParseRTP).
THEOREM ParserStaysInside == RtpSpec => []ParseStaysInside
<1>1. ParseStaysInside
  BY ParsedIsInside DEF ParseStaysInside
<1>2. QED
  BY <1>1, PTL

\* A packet that is wrapped is found, and has the payload it was given.
LEMMA WrappedIs ==
  ASSUME NEW p, NEW b \in Nat
  PROVE  /\ Wrapped(p, b).packet = p
         /\ IsRtp(Wrapped(p, b))
         /\ PayloadLength(Wrapped(p, b)) = b
<1> DEFINE r == Wrapped(p, b)
           u == UdpPayload(r.frame)
<1>1. u.ok /\ u.off = 42 /\ u.end = 54 + b
  BY DEF UdpPayload, Wrapped
<1>2. u.end - u.off = 12 + b
  BY <1>1
<1>3. [r.rtp EXCEPT !.len = u.end - u.off]
        = [version |-> 2, cc |-> 0, ext |-> -1, pad |-> -1, len |-> 12 + b]
  <2> HIDE DEF u
  <2>1. QED
    BY <1>2 DEF Wrapped
<1> DEFINE q == ParseRTP([version |-> 2, cc |-> 0, ext |-> -1, pad |-> -1,
                          len |-> 12 + b])
<1>4. q.ok /\ q.off = 12 /\ q.end = 12 + b
  BY DEF ParseRTP
<1>5. q.end - q.off = b
  BY <1>4
<1>6. r.packet = p
  BY DEF Wrapped
<1>7. IsRtp(r) = (u.ok /\ q.ok)
  BY <1>3 DEF IsRtp
<1>8. PayloadLength(r) = q.end - q.off
  BY <1>3 DEF PayloadLength
<1> HIDE DEF r, u, q
<1>9. QED
  BY <1>1, <1>4, <1>5, <1>6, <1>7, <1>8 DEF r

\* Other traffic is not RTP.
LEMMA NoiseIs == ~IsRtp(Noise)
<1>1. Noise.frame.ipv4 = FALSE
  BY DEF Noise, Wrapped
<1>2. ~UdpPayload(Noise.frame).ok
  BY <1>1 DEF UdpPayload
<1>3. QED
  BY <1>2 DEF IsRtp

\* Fewer packets than there are numbers differ in their sequence numbers.
LEMMA NumberIs ==
  ASSUME NEW M \in Nat, NEW f \in 0 .. M - 1, NEW n \in Nat, n < M
  PROVE  (f + n) % M = IF f + n < M THEN f + n ELSE f + n - M
<1>1. CASE f + n < M
  BY <1>1
<1>2. CASE f + n >= M
  <2>1. f + n = 1 * M + (f + n - M) /\ f + n - M \in 0 .. M - 1
    BY <1>2
  <2>2. QED
    BY <2>1, <1>2
<1>3. QED
  BY <1>1, <1>2

\* The numbers of successive packets follow one another, wrapping.
LEMMA NumberNext ==
  ASSUME NEW M \in Nat, NEW f \in 0 .. M - 1, NEW b \in Nat, b + 1 < M
  PROVE  (((f + b) % M) + 1) % M = (f + (b + 1)) % M
<1> DEFINE c == (f + b) % M
<1>0. b < M /\ b + 1 \in Nat
  OBVIOUS
<1>1. c = IF f + b < M THEN f + b ELSE f + b - M
  BY <1>0, NumberIs
<1>2. (f + (b + 1)) % M = IF f + (b + 1) < M THEN f + (b + 1) ELSE f + (b + 1) - M
  BY <1>0, NumberIs
<1>3. c \in 0 .. M - 1
  BY <1>1
<1>4. (c + 1) % M = IF c + 1 < M THEN c + 1 ELSE 0
  <2> HIDE DEF c
  <2>1. CASE c + 1 < M
    BY <2>1, <1>3
  <2>2. CASE c + 1 = M
    BY <2>2, <1>3
  <2>3. QED
    BY <2>1, <2>2, <1>3
<1>5. QED
  BY <1>1, <1>2, <1>3, <1>4

\* Fewer packets than numbers have different numbers.
LEMMA NumbersDiffer ==
  ASSUME NEW M \in Nat, NEW f \in 0 .. M - 1, NEW a \in Nat, NEW b \in Nat,
         a < M, b < M, (f + a) % M = (f + b) % M
  PROVE  a = b
<1>1. (f + a) % M = IF f + a < M THEN f + a ELSE f + a - M
  BY NumberIs
<1>2. (f + b) % M = IF f + b < M THEN f + b ELSE f + b - M
  BY NumberIs
<1>3. QED
  BY <1>1, <1>2

-----------------------------------------------------------------------------
(* What the call leaves in the capture.                                    *)

PacketSet == [ssrc : Ssrcs, n : Nat, ours : BOOLEAN, sequence : Nat, timestamp : Nat]

RecordSet == {Noise} \cup {Wrapped(p, b) : p \in PacketSet, b \in Nat}

Matches(r) == IsRtp(r) /\ r.packet.ours

\* What S holds of each sender: it has numbered no more than many packets.
SendersAre(S, many) ==
  /\ S = [s \in DOMAIN S |-> S[s]] /\ DOMAIN S \subseteq Ssrcs
  /\ \A s \in DOMAIN S :
       /\ S[s] \in [n : Nat, sequence : Nat, timestamp : Nat]
       /\ S[s].n <= many
       /\ S[s].sequence = (FirstSequence + S[s].n) % SequenceModulus

\* A packet was numbered by its sender, and where the next one starts is where
\* this one ends.
NumberedBy(S, r) ==
  IsRtp(r) =>
    /\ r.packet.ssrc \in DOMAIN S
    /\ r.packet.n < S[r.packet.ssrc].n
    /\ r.packet.sequence = (FirstSequence + r.packet.n) % SequenceModulus
    /\ r.packet.n + 1 = S[r.packet.ssrc].n =>
         S[r.packet.ssrc].timestamp
           = (r.packet.timestamp + Advance(PayloadLength(r))) % TimestampModulus

Follows(q, r) ==
  IsRtp(q) /\ IsRtp(r) /\ r.packet.ssrc = q.packet.ssrc
  /\ r.packet.n = q.packet.n + 1 =>
    r.packet.timestamp
      = (q.packet.timestamp + Advance(PayloadLength(q))) % TimestampModulus

SentBy(S, H) ==
  /\ H \subseteq RecordSet
  /\ \A r \in H : NumberedBy(S, r)
  /\ \A q, r \in H : Follows(q, r)

\* The packet in an RTP record.
LEMMA RecordIs ==
  ASSUME NEW r \in RecordSet, IsRtp(r)
  PROVE  r.packet \in PacketSet /\ PayloadLength(r) \in Nat
<1>1. PICK p \in PacketSet, b \in Nat : r = Wrapped(p, b)
  BY NoiseIs DEF RecordSet
<1>2. QED
  BY <1>1, WrappedIs

\* Timestamps advance by a natural number.
LEMMA AdvanceIs ==
  ASSUME NEW b \in Nat
  PROVE  Advance(b) \in Nat
  BY DEF Advance, FrameBytes, FrameSamples

\* A packet built is numbered by its sender and follows those built before it.
LEMMA Built ==
  ASSUME RtpAssumption, NEW many \in Nat, many + 1 < SequenceModulus,
         SendersAre(senders, many), NEW H, SentBy(senders, H),
         NEW s \in Ssrcs, NEW ours \in BOOLEAN, NEW b \in Nat,
         buildRTPPacket(s, ours, b)
  PROVE  /\ SendersAre(senders', many + 1)
         /\ SentBy(senders', H \cup {Wrapped(Packet(s, ours), b)})
<1> DEFINE p == Packet(s, ours)
           new == Wrapped(p, b)
           st == stateForSSRC(s)
<1>1. /\ st \in [n : Nat, sequence : Nat, timestamp : Nat]
      /\ st.n <= many
      /\ st.sequence = (FirstSequence + st.n) % SequenceModulus
  <2>1. CASE s \in DOMAIN senders
    BY <2>1 DEF SendersAre, stateForSSRC
  <2>2. CASE s \notin DOMAIN senders
    <3>1. (FirstSequence + 0) % SequenceModulus = FirstSequence
      BY DEF RtpAssumption
    <3>2. QED
      BY <2>2, <3>1 DEF stateForSSRC, RtpAssumption
  <2>3. QED
    BY <2>1, <2>2
<1>2. /\ p = [ssrc |-> s, n |-> st.n, ours |-> ours,
              sequence |-> st.sequence, timestamp |-> st.timestamp]
      /\ p \in PacketSet
  BY <1>1 DEF Packet, PacketSet
<1> DEFINE after == [n |-> st.n + 1, sequence |-> (st.sequence + 1) % SequenceModulus,
                     timestamp |-> (st.timestamp + Advance(b)) % TimestampModulus]
<1>3. /\ DOMAIN senders' = DOMAIN senders \cup {s}
      /\ senders' = [t \in DOMAIN senders' |-> senders'[t]]
      /\ senders'[s] = after
      /\ \A t \in DOMAIN senders : t # s => senders'[t] = senders[t]
  BY DEF buildRTPPacket
<1>4. s \in DOMAIN senders => senders[s] = st
  BY DEF stateForSSRC
<1>5. st.n + 1 < SequenceModulus /\ st.n < SequenceModulus /\ st.n \in Nat
  BY <1>1 DEF RtpAssumption
<1>6. /\ after \in [n : Nat, sequence : Nat, timestamp : Nat]
      /\ after.n = st.n + 1
      /\ after.sequence = (FirstSequence + after.n) % SequenceModulus
      /\ after.timestamp = (st.timestamp + Advance(b)) % TimestampModulus
  <2>1. (st.sequence + 1) % SequenceModulus
          = (FirstSequence + (st.n + 1)) % SequenceModulus
    <3>1. SequenceModulus \in Nat /\ FirstSequence \in 0 .. SequenceModulus - 1
      BY DEF RtpAssumption
    <3>2. (((FirstSequence + st.n) % SequenceModulus) + 1) % SequenceModulus
            = (FirstSequence + (st.n + 1)) % SequenceModulus
      BY <1>5, <3>1, NumberNext
    <3>3. QED
      BY <1>1, <3>2
  <2>2. (st.sequence + 1) % SequenceModulus \in Nat
    BY <1>1 DEF RtpAssumption
  <2>3. (st.timestamp + Advance(b)) % TimestampModulus \in Nat
    BY <1>1, AdvanceIs DEF RtpAssumption
  <2>4. QED
    BY <1>1, <2>1, <2>2, <2>3
<1> HIDE DEF after, p, st
<1>7. SendersAre(senders', many + 1)
  <2>1. ASSUME NEW t \in DOMAIN senders'
        PROVE  /\ senders'[t] \in [n : Nat, sequence : Nat, timestamp : Nat]
               /\ senders'[t].n <= many + 1
               /\ senders'[t].sequence
                    = (FirstSequence + senders'[t].n) % SequenceModulus
    <3>1. CASE t = s
      BY <3>1, <1>1, <1>3, <1>6
    <3>2. CASE t # s
      BY <3>2, <1>3 DEF SendersAre
    <3>3. QED
      BY <3>1, <3>2
  <2>2. QED
    BY <1>3, <2>1 DEF SendersAre
<1>8. new.packet = p /\ IsRtp(new) /\ PayloadLength(new) = b /\ new \in RecordSet
  BY <1>2, WrappedIs DEF RecordSet
<1> HIDE DEF new
<1>9. NumberedBy(senders', new)
  <2>1. /\ p.ssrc = s /\ p.n = st.n /\ p.sequence = st.sequence
        /\ p.timestamp = st.timestamp
    BY <1>2
  <2>2. QED
    BY <2>1, <1>1, <1>3, <1>6, <1>8 DEF NumberedBy
<1>10. ASSUME NEW r \in H PROVE NumberedBy(senders', r)
  <2>1. CASE IsRtp(r)
    <3>1. r.packet.n \in Nat /\ r.packet.ssrc \in DOMAIN senders
          /\ r.packet.n < senders[r.packet.ssrc].n
          /\ r.packet.sequence = (FirstSequence + r.packet.n) % SequenceModulus
      BY <2>1, RecordIs DEF SentBy, NumberedBy, PacketSet
    <3>2. CASE r.packet.ssrc = s
      <4>1. senders'[r.packet.ssrc].n = st.n + 1 /\ senders[r.packet.ssrc].n = st.n
        BY <3>1, <3>2, <1>3, <1>4, <1>6
      <4>2. r.packet.n < st.n /\ r.packet.n + 1 # st.n + 1
        BY <4>1, <3>1, <1>5
      <4>3. QED
        BY <3>1, <4>1, <4>2, <1>3, <1>5 DEF NumberedBy
    <3>3. CASE r.packet.ssrc # s
      BY <3>1, <3>3, <1>3 DEF SentBy, NumberedBy
    <3>4. QED
      BY <3>2, <3>3
  <2>2. QED
    BY <2>1 DEF NumberedBy
<1>11. ASSUME NEW r \in H PROVE Follows(r, new) /\ Follows(new, r)
  <2>1. SUFFICES ASSUME IsRtp(r), r.packet.ssrc = s PROVE Follows(r, new) /\ Follows(new, r)
    BY <1>2, <1>8 DEF Follows
  <2>2. r.packet.n \in Nat /\ s \in DOMAIN senders /\ r.packet.n < st.n
        /\ (r.packet.n + 1 = st.n =>
              st.timestamp
                = (r.packet.timestamp + Advance(PayloadLength(r))) % TimestampModulus)
    BY <2>1, <1>4, RecordIs DEF SentBy, NumberedBy, PacketSet
  <2>3. new.packet.n = st.n /\ new.packet.timestamp = st.timestamp
    BY <1>2, <1>8
  <2>4. r.packet.n # st.n + 1
    BY <2>2, <1>5
  <2>5. QED
    BY <2>2, <2>3, <2>4 DEF Follows
<1>12. Follows(new, new)
  <2>1. new.packet.n \in Nat
    BY <1>2, <1>5, <1>8
  <2>2. QED
    BY <2>1 DEF Follows
<1>13. SentBy(senders', H \cup {new})
  BY <1>8, <1>9, <1>10, <1>11, <1>12 DEF SentBy
<1>14. QED
  BY <1>7, <1>13 DEF new, p

\* With what the network holds and what the checker and the report's reader said.
RecordsOf(seq) == {seq[i] : i \in 1 .. Len(seq)}

CallInv ==
  /\ capture \in Seq(RecordSet) /\ held \in Seq(RecordSet)
  /\ trouble \in 0 .. RtpMaxTrouble
  /\ Len(capture) <= RtpMaxRecords
  /\ SendersAre(senders, Len(capture) + trouble)
  /\ SentBy(senders, RecordsOf(capture) \cup RecordsOf(held))

ReportOf(r) ==
  \E opt \in CheckerOptions :
    \/ r = [opt |-> opt, rep |-> Analyzed(capture, opt)]
    \/ r = [opt |-> opt, rep |-> [Fresh EXCEPT !.failed = "truncated"]]

VerdictInv ==
  /\ result = <<>> => verdict = "none"
  /\ result # <<>> => \E r : result = <<r>> /\ ReportOf(r)
  /\ verdict = "PASS" =>
       /\ result[1].rep.failed = ""
       /\ \E limit \in Limits : /\ limit.strict => result[1].opt.strict
                                /\ limit.decode => result[1].opt.decode

RtpInv == CallInv /\ VerdictInv

\* Senders and network keep what is known of the records.
LEMMA CallInvStep ==
  ASSUME RtpAssumption, CallInv, RtpNext
  PROVE  CallInv'
<1>0. USE DEF RtpAssumption
<1> DEFINE n == Len(capture)
           H == RecordsOf(capture) \cup RecordsOf(held)
<1>1. /\ capture \in Seq(RecordSet) /\ held \in Seq(RecordSet)
      /\ n \in Nat /\ trouble \in 0 .. RtpMaxTrouble /\ n <= RtpMaxRecords
      /\ SendersAre(senders, n + trouble) /\ SentBy(senders, H)
  BY DEF CallInv
<1>2. Noise \in RecordSet /\ \A r \in RecordSet : r = Noise => ~IsRtp(r)
  BY NoiseIs DEF RecordSet
<1>3. ASSUME NEW many \in Nat, n + trouble <= many PROVE SendersAre(senders, many)
  BY SMTT(30), <1>1, <1>3 DEF SendersAre
<1>4. ASSUME NEW K, \A r \in K : r \in H \/ r = Noise
      PROVE  SentBy(senders, K)
  <2>1. \A r \in K : NumberedBy(senders, r)
    BY <1>1, <1>4, <1>2 DEF SentBy, NumberedBy
  <2>2. \A q, r \in K : Follows(q, r)
    BY <1>1, <1>4, <1>2 DEF SentBy, Follows
  <2>3. QED
    BY <1>1, <1>2, <1>4, <2>1, <2>2 DEF SentBy
<1>5. ASSUME NEW q \in RecordSet, NEW a \in Seq(RecordSet)
      PROVE  /\ Append(a, q) \in Seq(RecordSet) /\ Len(Append(a, q)) = Len(a) + 1
             /\ RecordsOf(Append(a, q)) = RecordsOf(a) \cup {q}
  <2> DEFINE b == Append(a, q)
             m == Len(a)
  <2>1. /\ b \in Seq(RecordSet) /\ m \in Nat /\ Len(b) = m + 1
        /\ \A i \in 1 .. m + 1 : b[i] = IF i = m + 1 THEN q ELSE a[i]
    OBVIOUS
  <2> HIDE DEF b, m
  <2>2. 1 .. m + 1 = (1 .. m) \cup {m + 1} /\ \A i \in 1 .. m : i # m + 1
    BY <2>1
  <2>3. {b[i] : i \in 1 .. m + 1} = {a[i] : i \in 1 .. m} \cup {q}
    BY <2>1, <2>2
  <2>4. RecordsOf(b) = RecordsOf(a) \cup {q}
    BY <2>1, <2>3 DEF RecordsOf, m
  <2>5. QED
    BY <2>1, <2>4 DEF b, m
<1>6. ASSUME NEW s \in Ssrcs, NEW ours \in BOOLEAN, NEW b \in Nat, Capturing,
             buildRTPPacket(s, ours, b)
      PROVE  LET r == Wrapped(Packet(s, ours), b)
             IN  /\ r \in RecordSet /\ SendersAre(senders', n + trouble + 1)
                 /\ SentBy(senders', H \cup {r})
  <2>1. n + trouble \in Nat /\ n + trouble + 1 < SequenceModulus
    BY <1>1, <1>6 DEF Capturing
  <2> DEFINE r == Wrapped(Packet(s, ours), b)
  <2>2. SendersAre(senders', n + trouble + 1) /\ SentBy(senders', H \cup {r})
    BY <1>1, <1>6, <2>1, Built
  <2>3. r \in RecordSet
    <3> HIDE DEF r
    <3>1. QED
      BY <2>2 DEF SentBy
  <2>4. QED
    BY <2>2, <2>3
<1>7. CASE Send
  <2>1. PICK s \in Ssrcs, ours \in BOOLEAN, b \in PayloadSizes :
          /\ Capturing /\ buildRTPPacket(s, ours, b)
          /\ capture' = Append(capture, Wrapped(Packet(s, ours), b))
          /\ UNCHANGED <<held, trouble>>
    BY <1>7 DEF Send
  <2> DEFINE r == Wrapped(Packet(s, ours), b)
  <2>2. /\ r \in RecordSet /\ SendersAre(senders', n + trouble + 1)
        /\ SentBy(senders', H \cup {r})
    BY <1>6, <2>1
  <2>3. capture' = Append(capture, r)
    BY <2>1
  <2> HIDE DEF r
  <2>4. /\ capture' \in Seq(RecordSet) /\ Len(capture') = n + 1
        /\ RecordsOf(capture') = RecordsOf(capture) \cup {r}
    BY <1>1, <1>5, <2>2, <2>3
  <2>5. RecordsOf(capture') \cup RecordsOf(held') = H \cup {r} /\ held' \in Seq(RecordSet)
    BY <1>1, <2>1, <2>4
  <2>6. n + 1 <= RtpMaxRecords /\ n + trouble + 1 = n + 1 + trouble
    BY <1>1, <2>1 DEF Capturing
  <2>7. SendersAre(senders', Len(capture') + trouble')
    BY <2>1, <2>2, <2>4, <2>6
  <2>8. SentBy(senders', RecordsOf(capture') \cup RecordsOf(held'))
    BY <2>2, <2>5
  <2>9. QED
    BY <1>1, <2>1, <2>4, <2>5, <2>6, <2>7, <2>8 DEF CallInv
<1>8. CASE Lost \/ Delayed
  <2>1. PICK s \in Ssrcs :
          /\ Capturing /\ buildRTPPacket(s, TRUE, 20)
          /\ trouble < RtpMaxTrouble /\ trouble' = trouble + 1 /\ capture' = capture
          /\ held' \in {held, Append(held, Wrapped(Packet(s, TRUE), 20))}
    BY <1>8 DEF Lost, Delayed, Trouble
  <2> DEFINE r == Wrapped(Packet(s, TRUE), 20)
  <2>2. /\ r \in RecordSet /\ SendersAre(senders', n + trouble + 1)
        /\ SentBy(senders', H \cup {r})
    BY <1>6, <2>1
  <2> HIDE DEF r
  <2>3. held' \in Seq(RecordSet) /\ RecordsOf(held') \subseteq RecordsOf(held) \cup {r}
    <3>1. held' = held \/ held' = Append(held, r)
      BY <2>1 DEF r
    <3>2. QED
      BY <1>1, <1>5, <2>2, <3>1
  <2>4. SentBy(senders', RecordsOf(capture) \cup RecordsOf(held'))
    BY <2>2, <2>3 DEF SentBy
  <2>5. QED
    BY <1>1, <2>1, <2>2, <2>3, <2>4 DEF CallInv
<1>9. CASE Arrives \/ Duplicated \/ OtherTraffic
  <2>1. /\ Capturing /\ senders' = senders /\ trouble' \in {trouble, trouble + 1}
        /\ trouble' \in 0 .. RtpMaxTrouble
    BY <1>1, <1>9 DEF Arrives, Duplicated, OtherTraffic, Trouble
  <2>2. PICK r \in H \cup {Noise} : r \in RecordSet /\ capture' = Append(capture, r)
    <3>1. CASE Arrives
      <4>1. held # <<>> /\ capture' = Append(capture, Head(held))
        BY <3>1 DEF Arrives
      <4>2. /\ 1 \in 1 .. Len(held) /\ Head(held) = held[1] /\ held[1] \in RecordSet
        BY <4>1, <1>1
      <4>3. held[1] \in RecordsOf(held)
        BY <4>2 DEF RecordsOf
      <4>4. QED
        BY <4>1, <4>2, <4>3
    <3>2. CASE Duplicated
      <4>1. n \in 1 .. n
        BY <1>1, <3>2 DEF Duplicated
      <4>2. QED
        BY <3>2, <4>1, <1>1 DEF Duplicated, RecordsOf
    <3>3. CASE OtherTraffic
      BY <3>3, <1>2 DEF OtherTraffic
    <3>4. QED
      BY <1>9, <3>1, <3>2, <3>3
  <2>3. held' \in Seq(RecordSet) /\ RecordsOf(held') \subseteq RecordsOf(held)
    <3>1. CASE held # <<>> /\ held' = Tail(held)
      <4>1. /\ Tail(held) \in Seq(RecordSet) /\ Len(Tail(held)) = Len(held) - 1
            /\ \A i \in 1 .. Len(held) - 1 : Tail(held)[i] = held[i + 1]
        BY <1>1, <3>1
      <4>2. QED
        BY <1>1, <3>1, <4>1 DEF RecordsOf
    <3>2. CASE held' = held
      BY <1>1, <3>2
    <3>3. QED
      BY <1>9, <3>1, <3>2 DEF Arrives, Duplicated, OtherTraffic
  <2>4. SentBy(senders, RecordsOf(capture') \cup RecordsOf(held'))
    <3>1. RecordsOf(capture') = RecordsOf(capture) \cup {r}
      BY <1>1, <1>5, <2>2
    <3>2. QED
      BY <1>4, <2>2, <2>3, <3>1
  <2>5. Len(capture') = n + 1 /\ capture' \in Seq(RecordSet) /\ n < RtpMaxRecords
    BY <1>1, <2>1, <2>2 DEF Capturing
  <2>6. SendersAre(senders, Len(capture') + trouble')
    BY <1>1, <1>3, <2>1, <2>5
  <2>7. QED
    BY <1>1, <2>1, <2>3, <2>4, <2>5, <2>6 DEF CallInv
<1>10. CASE BuildReport \/ CheckReport
  BY <1>10 DEF BuildReport, CheckReport, CallInv
<1>11. QED
  BY <1>7, <1>8, <1>9, <1>10 DEF RtpNext

\* A verdict is only ever one on the report that was made.
LEMMA VerdictInvStep ==
  ASSUME VerdictInv, RtpNext
  PROVE  VerdictInv'
<1>1. CASE BuildReport
  <2>1. PICK opt \in CheckerOptions, truncated \in BOOLEAN :
          /\ result = <<>> /\ capture' = capture /\ verdict' = verdict
          /\ result' =
               <<[opt |-> opt,
                  rep |-> IF truncated THEN [Fresh EXCEPT !.failed = "truncated"]
                          ELSE Analyzed(capture, opt)]>>
    BY <1>1 DEF BuildReport
  <2>2. result' # <<>> /\ verdict' = "none"
    BY <2>1 DEF VerdictInv
  <2>3. \E r : result' = <<r>> /\ ReportOf(r)'
    BY <2>1 DEF ReportOf
  <2>4. QED
    BY <2>2, <2>3 DEF VerdictInv
<1>2. CASE CheckReport
  <2>1. PICK limit \in Limits, metrics \in BOOLEAN :
          /\ result # <<>> /\ result[1].rep.failed = ""
          /\ verdict' = IF Evaluate(result[1].opt, result[1].rep, metrics, limit)
                        THEN "PASS" ELSE "FAIL"
          /\ UNCHANGED <<capture, result>>
    BY <1>2 DEF CheckReport
  <2>2. \E r : result' = <<r>> /\ ReportOf(r)'
    BY <2>1 DEF VerdictInv, ReportOf
  <2>3. ASSUME verdict' = "PASS"
        PROVE  /\ result'[1].rep.failed = ""
               /\ \E l \in Limits : /\ l.strict => result'[1].opt.strict
                                    /\ l.decode => result'[1].opt.decode
    BY <2>1, <2>3 DEF Evaluate
  <2>4. QED
    BY <2>1, <2>2, <2>3 DEF VerdictInv
<1>3. CASE ~BuildReport /\ ~CheckReport
  <2>1. result = <<>> /\ UNCHANGED <<result, verdict>>
    BY <1>3 DEF RtpNext, Send, Lost, Delayed, Arrives, Duplicated, OtherTraffic,
                Trouble, Capturing
  <2>2. QED
    BY <2>1 DEF VerdictInv
<1>4. QED
  BY <1>1, <1>2, <1>3

\* Records were sent and their senders still know them; a verdict is on a report
\* of the capture.
THEOREM RtpInvHolds == RtpSpec => []RtpInv
<1>0. RtpAssumption
  BY RtpAssumption
<1>1. RtpInit => RtpInv
  <2> SUFFICES ASSUME RtpInit PROVE RtpInv
    OBVIOUS
  <2>1. DOMAIN Empty = {} /\ Empty = [s \in DOMAIN Empty |-> Empty[s]]
    BY DEF Empty
  <2>2. CallInv
    BY <1>0, <2>1 DEF RtpInit, CallInv, SendersAre, SentBy, RecordsOf, RtpAssumption
  <2>3. VerdictInv
    BY DEF RtpInit, VerdictInv
  <2>4. QED
    BY <2>2, <2>3 DEF RtpInv
<1>2. RtpInv /\ [RtpNext]_rtpVars => RtpInv'
  <2> SUFFICES ASSUME RtpInv, [RtpNext]_rtpVars PROVE RtpInv'
    OBVIOUS
  <2>1. CASE RtpNext
    BY <1>0, <2>1, CallInvStep, VerdictInvStep DEF RtpInv
  <2>2. CASE UNCHANGED rtpVars
    BY <2>2 DEF rtpVars, RtpInv, CallInv, VerdictInv, ReportOf
  <2>3. QED
    BY <2>1, <2>2
<1>3. QED
  BY <1>1, <1>2, PTL DEF RtpSpec

-----------------------------------------------------------------------------
(* What the checker makes of a capture, record by record.                  *)

\* An account has these fields.
IsAccount(acc) ==
  acc = [failed |-> acc.failed, streams |-> acc.streams, seen |-> acc.seen,
         fed |-> acc.fed, packets |-> acc.packets, frames |-> acc.frames,
         skipped |-> acc.skipped, decoded |-> acc.decoded]

\* The analysis of a capture is a run of Analyze over its records.
LEMMA AnalyzedRuns ==
  ASSUME NEW records, Len(records) \in Nat, NEW opt
  PROVE  \E f : /\ f[0] = Fresh
                /\ \A i \in 1 .. Len(records) : f[i] = Analyze(f[i - 1], records[i], opt)
                /\ Analyzed(records, opt)
                     = LET end == f[Len(records)]
                       IN  IF end.failed = "" /\ end.packets = 0
                           THEN [end EXCEPT !.failed = "no packets"] ELSE end
<1> DEFINE n == Len(records)
           step(acc, i) == Analyze(acc, records[i], opt)
           RunsTo(f, m) == f = [i \in 0 .. m |-> IF i = 0 THEN Fresh ELSE step(f[i - 1], i)]
           T == {m \in Nat : \E f : RunsTo(f, m)}
<1> HIDE DEF step
<1>1. 0 \in T
  <2> DEFINE f == [i \in 0 .. 0 |-> Fresh]
  <2>1. f = [i \in 0 .. 0 |-> IF i = 0 THEN Fresh ELSE step(f[i - 1], i)]
    BY 0 .. 0 = {0}
  <2> HIDE DEF f
  <2>2. QED
    BY <2>1
<1>2. ASSUME NEW k \in 1 .. n, k - 1 \in T
      PROVE  k \in T
  <2>1. PICK f : RunsTo(f, k - 1)
    BY <1>2
  <2> DEFINE g == [i \in 0 .. k |-> IF i = k THEN step(f[k - 1], k) ELSE f[i]]
  <2>2. /\ \A i \in 0 .. k - 1 : g[i] = f[i]
        /\ g[k] = step(f[k - 1], k)
        /\ g = [i \in 0 .. k |-> g[i]]
    OBVIOUS
  <2>3. \A i \in 0 .. k - 1 : f[i] = IF i = 0 THEN Fresh ELSE step(f[i - 1], i)
    BY <2>1
  <2> HIDE DEF g
  <2>4. \A i \in 0 .. k : g[i] = IF i = 0 THEN Fresh ELSE step(g[i - 1], i)
    <3>1. ASSUME NEW i \in 0 .. k PROVE g[i] = IF i = 0 THEN Fresh ELSE step(g[i - 1], i)
      <4>1. CASE i = k
        <5>1. g[i - 1] = f[k - 1] /\ i # 0
          BY <4>1, <2>2
        <5>2. QED
          BY <4>1, <5>1, <2>2
      <4>2. CASE i # k
        <5>1. i \in 0 .. k - 1 /\ (i # 0 => i - 1 \in 0 .. k - 1)
          BY <4>2
        <5>2. QED
          BY <5>1, <2>2, <2>3
      <4>3. QED
        BY <4>1, <4>2
    <3>2. QED
      BY <3>1
  <2>5. RunsTo(g, k)
    BY <2>2, <2>4
  <2>6. QED
    BY <2>5
<1> HIDE DEF T
<1>3. n \in T
  <2>1. 0 .. n \subseteq T
    BY <1>1, <1>2, RangeInduction
  <2>2. QED
    BY <2>1
<1> DEFINE after == CHOOSE f : RunsTo(f, n)
<1>4. RunsTo(after, n)
  <2>1. \E f : RunsTo(f, n)
    BY <1>3 DEF T
  <2> HIDE DEF RunsTo
  <2>2. QED
    BY <2>1
<1>5. Analyzed(records, opt)
        = LET end == after[n]
          IN  IF end.failed = "" /\ end.packets = 0
              THEN [end EXCEPT !.failed = "no packets"] ELSE end
  BY DEF Analyzed, step
<1> HIDE DEF after
<1>6. \A i \in 0 .. n : after[i] = IF i = 0 THEN Fresh ELSE step(after[i - 1], i)
  BY <1>4
<1>7. after[0] = Fresh /\ \A i \in 1 .. n : after[i] = Analyze(after[i - 1], records[i], opt)
  BY <1>6 DEF step
<1>8. QED
  BY <1>5, <1>7

\* A record is skipped, taken, or ends the analysis.
Skips(acc, a) ==
  /\ a.failed = "" /\ a.skipped = acc.skipped + 1
  /\ a.streams = acc.streams /\ a.seen = acc.seen /\ a.fed = acc.fed
  /\ a.packets = acc.packets /\ a.frames = acc.frames /\ a.decoded = acc.decoded

NextOf(r) ==
  [sequence |-> r.packet.sequence,
   next |-> (r.packet.timestamp + (PayloadLength(r) \div FrameBytes) * FrameSamples)
            % TimestampModulus]

Takes(acc, r, opt, a) ==
  LET s == r.packet.ssrc
      frames == PayloadLength(r) \div FrameBytes
  IN  /\ a.failed = "" /\ Speech(PayloadLength(r))
      /\ opt.strict /\ s \in DOMAIN acc.streams => Continuous(acc.streams[s], r.packet)
      /\ a.streams = IF opt.strict THEN Put(acc.streams, s, NextOf(r)) ELSE acc.streams
      /\ a.seen = acc.seen \cup {s}
      /\ a.fed = IF opt.decode
                 THEN Put(acc.fed, s, Fed(acc, s) \o Frames(r.packet, frames))
                 ELSE acc.fed
      /\ a.packets = acc.packets + 1 /\ a.skipped = acc.skipped
      /\ a.frames = acc.frames + frames
      /\ a.decoded = IF opt.decode THEN acc.decoded + frames ELSE acc.decoded

Ends(acc, r, opt, a) ==
  \/ a.failed = "payload"
  \/ /\ a.failed = "continuity" /\ opt.strict /\ r.packet.ssrc \in DOMAIN acc.streams
     /\ ~Continuous(acc.streams[r.packet.ssrc], r.packet)

\* A record ends the analysis, is skipped or is taken into the account.
LEMMA AnalyzeIs ==
  ASSUME NEW acc, IsAccount(acc), NEW r, NEW opt
  PROVE  LET a == Analyze(acc, r, opt)
         IN  /\ IsAccount(a)
             /\ acc.failed # "" => a = acc
             /\ acc.failed = "" /\ ~Matches(r) => Skips(acc, a)
             /\ acc.failed = "" /\ Matches(r) => Takes(acc, r, opt, a) \/ Ends(acc, r, opt, a)
<1> DEFINE a == Analyze(acc, r, opt)
<1>1. CASE acc.failed # ""
  BY <1>1 DEF Analyze
<1>2. CASE acc.failed = "" /\ ~Matches(r)
  <2>1. a = [acc EXCEPT !.skipped = @ + 1]
    BY <1>2 DEF Analyze, Matches
  <2>2. IsAccount(a) /\ Skips(acc, a)
    <3> HIDE DEF a
    <3>1. QED
      BY <1>2, <2>1 DEF IsAccount, Skips
  <2>3. QED
    BY <1>2, <2>2
<1>3. CASE acc.failed = "" /\ Matches(r)
  <2> DEFINE seen == [acc EXCEPT !.seen = @ \cup {r.packet.ssrc}]
             b == PayloadLength(r)
             frames == b \div FrameBytes
             cont == /\ opt.strict /\ r.packet.ssrc \in DOMAIN acc.streams
                     /\ ~Continuous(acc.streams[r.packet.ssrc], r.packet)
  <2>1. /\ IsAccount(seen) /\ seen.failed = "" /\ seen.seen = acc.seen \cup {r.packet.ssrc}
        /\ seen.streams = acc.streams /\ seen.fed = acc.fed
        /\ seen.packets = acc.packets /\ seen.frames = acc.frames
        /\ seen.skipped = acc.skipped /\ seen.decoded = acc.decoded
    <3>1. seen = [failed |-> acc.failed, streams |-> acc.streams,
                  seen |-> acc.seen \cup {r.packet.ssrc}, fed |-> acc.fed,
                  packets |-> acc.packets, frames |-> acc.frames,
                  skipped |-> acc.skipped, decoded |-> acc.decoded]
      BY DEF IsAccount
    <3> HIDE DEF seen
    <3>2. QED
      BY <1>3, <3>1 DEF IsAccount
  <2>2. CASE ~ValidPayload(b, PacketFrameCount(opt.ptime))
    <3>1. a = [seen EXCEPT !.failed = "payload"]
      BY <1>3, <2>2 DEF Analyze, Matches
    <3> HIDE DEF seen
    <3>2. IsAccount(a) /\ a.failed = "payload"
      <4> HIDE DEF a
      <4>1. QED
        BY <2>1, <3>1 DEF IsAccount
    <3>3. QED
      BY <1>3, <3>2 DEF Ends
  <2>3. CASE ValidPayload(b, PacketFrameCount(opt.ptime)) /\ cont
    <3>1. a = [seen EXCEPT !.failed = "continuity"]
      <4>1. a = Accept(seen, r.packet, b, opt)
        BY <1>3, <2>3 DEF Analyze, Matches
      <4>2. QED
        BY <2>1, <2>3, <4>1 DEF Accept
    <3> HIDE DEF seen
    <3>2. IsAccount(a) /\ a.failed = "continuity"
      <4> HIDE DEF a
      <4>1. QED
        BY <2>1, <3>1 DEF IsAccount
    <3>3. QED
      BY <1>3, <2>3, <3>2 DEF Ends
  <2>4. CASE ValidPayload(b, PacketFrameCount(opt.ptime)) /\ ~cont
    <3>1. a = Accept(seen, r.packet, b, opt)
      BY <1>3, <2>4 DEF Analyze, Matches
    <3> HIDE DEF seen
    <3>2. a = [seen EXCEPT
                 !.streams = IF opt.strict THEN Put(@, r.packet.ssrc, NextOf(r)) ELSE @,
                 !.packets = @ + 1,
                 !.frames = @ + frames,
                 !.decoded = IF opt.decode THEN @ + frames ELSE @,
                 !.fed = IF opt.decode
                         THEN Put(@, r.packet.ssrc,
                                  Fed(seen, r.packet.ssrc) \o Frames(r.packet, frames))
                         ELSE @]
      BY <2>1, <2>4, <3>1 DEF Accept, NextOf, DecoderOf
    <3>3. Fed(seen, r.packet.ssrc) = Fed(acc, r.packet.ssrc)
      BY <2>1 DEF Fed
    <3>4. /\ IsAccount(a) /\ a.failed = ""
          /\ a.streams = IF opt.strict THEN Put(acc.streams, r.packet.ssrc, NextOf(r))
                         ELSE acc.streams
          /\ a.seen = acc.seen \cup {r.packet.ssrc}
          /\ a.fed = IF opt.decode
                     THEN Put(acc.fed, r.packet.ssrc,
                              Fed(acc, r.packet.ssrc) \o Frames(r.packet, frames))
                     ELSE acc.fed
          /\ a.packets = acc.packets + 1 /\ a.skipped = acc.skipped
          /\ a.frames = acc.frames + frames
          /\ a.decoded = IF opt.decode THEN acc.decoded + frames ELSE acc.decoded
      <4> HIDE DEF a, b, frames
      <4>1. QED
        BY <2>1, <3>2, <3>3 DEF IsAccount
    <3>5. Speech(b)
      BY <2>4 DEF ValidPayload
    <3>6. Takes(acc, r, opt, a)
      <4> HIDE DEF a
      <4>1. QED
        BY <2>4, <3>4, <3>5 DEF Takes
    <3>7. QED
      BY <1>3, <3>4, <3>6
  <2>5. QED
    BY <2>2, <2>3, <2>4
<1>4. QED
  BY <1>1, <1>2, <1>3

\* What the analysis needs of the capture: packets in step with their senders.
CaptureOk ==
  /\ capture \in Seq(RecordSet)
  /\ \A i \in DOMAIN capture : Matches(capture[i]) =>
       /\ capture[i].packet \in PacketSet
       /\ PayloadLength(capture[i]) \in Nat
       /\ capture[i].packet.n + 1 < SequenceModulus
       /\ capture[i].packet.sequence
            = (FirstSequence + capture[i].packet.n) % SequenceModulus
  /\ \A i, j \in DOMAIN capture :
       Matches(capture[i]) /\ Matches(capture[j]) => Follows(capture[i], capture[j])

\* What the checker may rely on in a capture.
LEMMA CaptureIsOk ==
  ASSUME RtpAssumption, CallInv
  PROVE  CaptureOk
<1>1. \A i \in DOMAIN capture : capture[i] \in RecordsOf(capture) /\ capture[i] \in RecordSet
  BY DEF CallInv, RecordsOf
<1>2. \A i, j \in DOMAIN capture : Follows(capture[i], capture[j])
  BY <1>1 DEF CallInv, SentBy
<1>3. ASSUME NEW i \in DOMAIN capture, Matches(capture[i])
      PROVE  /\ capture[i].packet \in PacketSet
             /\ PayloadLength(capture[i]) \in Nat
             /\ capture[i].packet.n + 1 < SequenceModulus
             /\ capture[i].packet.sequence
                  = (FirstSequence + capture[i].packet.n) % SequenceModulus
  <2> DEFINE r == capture[i]
             s == r.packet.ssrc
             many == Len(capture) + trouble
  <2>1. r \in RecordSet /\ IsRtp(r) /\ NumberedBy(senders, r)
    BY <1>1, <1>3 DEF CallInv, SentBy, Matches
  <2>2. r.packet \in PacketSet /\ PayloadLength(r) \in Nat
    BY <2>1, RecordIs
  <2>3. /\ s \in DOMAIN senders /\ r.packet.n < senders[s].n
        /\ r.packet.sequence = (FirstSequence + r.packet.n) % SequenceModulus
    BY <2>1 DEF NumberedBy
  <2>4. senders[s].n <= many /\ senders[s].n \in Nat
    BY <2>3 DEF CallInv, SendersAre
  <2>5. many \in Nat /\ many < SequenceModulus
    BY DEF CallInv, RtpAssumption
  <2>6. r.packet.n \in Nat
    BY <2>2 DEF PacketSet
  <2> HIDE DEF r, many, s
  <2>7. r.packet.n + 1 < SequenceModulus
    BY <2>3, <2>4, <2>5, <2>6 DEF RtpAssumption
  <2>8. QED
    BY <2>2, <2>3, <2>7 DEF r
<1>4. QED
  BY <1>2, <1>3 DEF CaptureOk, CallInv

\* The last record of s among the first k.
Latest(s, i, k) ==
  /\ i \in MatchingAt(s) /\ i <= k
  /\ \A j \in i + 1 .. k : j \notin MatchingAt(s)

\* A sender heard of has a last record.
LEMMA LatestIs ==
  ASSUME capture \in Seq(RecordSet), NEW s, NEW k \in 0 .. Len(capture),
         NEW m \in MatchingAt(s), m <= k
  PROVE  \E i : Latest(s, i, k)
<1> DEFINE T == {d \in Nat : d <= k /\ k - d \in MatchingAt(s)}
<1>1. \A i \in MatchingAt(s) : i \in 1 .. Len(capture)
  BY DEF MatchingAt
<1>2. k - m \in T
  <2>1. k - m \in Nat /\ k - m <= k /\ k - (k - m) = m
    BY <1>1
  <2>2. QED
    BY <2>1
<1>3. PICK d \in T : \A e \in T : d <= e
  <2>1. T \in SUBSET Nat /\ T # {}
    BY <1>2
  <2> HIDE DEF T
  <2>2. QED
    BY <2>1, NatLeast
<1>4. ASSUME NEW j \in (k - d) + 1 .. k PROVE j \notin MatchingAt(s)
  <2>1. k - j \in Nat /\ k - j < d /\ k - j <= k /\ k - (k - j) = j
    BY <1>1, <1>3
  <2>2. CASE j \in MatchingAt(s)
    <3>1. k - j \in T
      BY <2>1, <2>2
    <3>2. d <= k - j
      BY <1>3, <3>1
    <3>3. d \in Nat /\ k - j \in Nat /\ k - j < d
      BY <1>3, <2>1
    <3> HIDE DEF T
    <3>4. QED
      BY <3>2, <3>3
  <2>3. QED
    BY <2>2
<1>5. Latest(s, k - d, k)
  BY <1>3, <1>4 DEF Latest
<1>6. QED
  BY <1>5

\* A matching record k is its sender's, nobody else's.
LEMMA MatchingHere ==
  ASSUME capture \in Seq(RecordSet), NEW k \in 1 .. Len(capture)
  PROVE  /\ Matches(capture[k]) => k \in MatchingAt(capture[k].packet.ssrc)
         /\ \A s : k \in MatchingAt(s) <=> Matches(capture[k]) /\ s = capture[k].packet.ssrc
  BY DEF MatchingAt, Matches

\* The continuity the checker asks for is that of the sender's numbering.
LEMMA ContinuityIs ==
  ASSUME RtpAssumption, CaptureOk,
         NEW s, NEW i \in MatchingAt(s), NEW j \in MatchingAt(s),
         Speech(PayloadLength(capture[i]))
  PROVE  Continuous(NextOf(capture[i]), capture[j].packet)
           <=> capture[j].packet.n = capture[i].packet.n + 1
<1> DEFINE q == capture[i]
           r == capture[j]
           M == SequenceModulus
           F == FirstSequence
<1>1. /\ i \in DOMAIN capture /\ j \in DOMAIN capture /\ Matches(q) /\ Matches(r)
      /\ q.packet.ssrc = s /\ r.packet.ssrc = s
  BY DEF MatchingAt, Matches
<1>2. /\ q.packet.n \in Nat /\ r.packet.n \in Nat
      /\ q.packet.n + 1 < M /\ r.packet.n + 1 < M
      /\ q.packet.sequence = (F + q.packet.n) % M
      /\ r.packet.sequence = (F + r.packet.n) % M
      /\ Follows(q, r)
  BY <1>1 DEF CaptureOk, PacketSet
<1>3. M \in Nat /\ F \in 0 .. M - 1
  BY DEF RtpAssumption
<1>4. Advance(PayloadLength(q)) = (PayloadLength(q) \div FrameBytes) * FrameSamples
  BY DEF Advance
<1>5. Continuous(NextOf(q), r.packet)
        <=> /\ r.packet.sequence = (q.packet.sequence + 1) % M
            /\ r.packet.timestamp
                 = (q.packet.timestamp + Advance(PayloadLength(q))) % TimestampModulus
  BY <1>4 DEF Continuous, NextOf
<1>6. r.packet.n = q.packet.n + 1 =>
        r.packet.timestamp
          = (q.packet.timestamp + Advance(PayloadLength(q))) % TimestampModulus
  BY <1>1, <1>2 DEF Follows, Matches
<1> HIDE DEF q, r, M, F
<1> DEFINE a == r.packet.n
           b == q.packet.n
<1>7. (((F + b) % M) + 1) % M = (F + (b + 1)) % M
  BY <1>2, <1>3, NumberNext
<1>8. (F + a) % M = (F + (b + 1)) % M => a = b + 1
  <2>1. a \in Nat /\ b + 1 \in Nat /\ a < M /\ b + 1 < M
    BY <1>2, <1>3
  <2> HIDE DEF a
  <2>2. QED
    BY <1>3, <2>1, NumbersDiffer
<1>9. Continuous(NextOf(q), r.packet) <=> a = b + 1
  BY <1>2, <1>5, <1>6, <1>7, <1>8
<1>10. QED
  BY <1>9 DEF q, r

\* The checker's account of the first k records: which senders it has heard, where
\* it expects each of them to go on, and what it gave their decoders.
HeardBy(s, k) == \E i \in MatchingAt(s) : i <= k

Steady(s, k) ==
  \A i, j \in DOMAIN capture :
    j <= k /\ Consecutive(s, i, j) => capture[j].packet.n = capture[i].packet.n + 1

GivenTo(s, k) == UNION {FramesOf(capture[i]) : i \in {j \in MatchingAt(s) : j <= k}}

Elements(q) == {q[i] : i \in DOMAIN q}

FrameSet == [ssrc : Ssrcs, n : Nat, frame : Nat]

InOrder(got) ==
  \A i \in 2 .. Len(got) :
    \/ got[i].n = got[i - 1].n /\ got[i].frame = got[i - 1].frame + 1
    \/ got[i].n = got[i - 1].n + 1 /\ got[i].frame = 1

DecoderGot(got, s, k) ==
  /\ got \in Seq(FrameSet) /\ Len(got) > 0
  /\ Elements(got) = GivenTo(s, k)
  /\ InOrder(got)
  /\ \A i : Latest(s, i, k) => got[Len(got)].n = capture[i].packet.n

Counted(acc, k) ==
  /\ acc.packets \in Nat /\ acc.skipped \in Nat /\ acc.packets + acc.skipped = k
  /\ \A s : s \in acc.seen <=> HeardBy(s, k)
  /\ \A i \in 1 .. k : Matches(capture[i]) => Speech(PayloadLength(capture[i]))

Expecting(acc, k) ==
  /\ DOMAIN acc.streams = acc.seen
  /\ \A s, i : Latest(s, i, k) => acc.streams[s] = NextOf(capture[i])
  /\ \A s : Steady(s, k)

Decoding(acc, k) ==
  /\ DOMAIN acc.fed = acc.seen
  /\ \A s \in acc.seen : DecoderGot(acc.fed[s], s, k)

AccountIs(acc, k, opt) ==
  /\ IsAccount(acc)
  /\ acc.failed \in {"", "payload", "continuity"}
  /\ acc.failed = "continuity" => \E s \in Ssrcs : ~Unbroken(s)
  /\ acc.failed = "" =>
       /\ Counted(acc, k)
       /\ opt.strict => Expecting(acc, k)
       /\ opt.strict /\ opt.decode => Decoding(acc, k)

\* What changes between two records, for the sender heard and for the others.
LEMMA LastMoves ==
  ASSUME capture \in Seq(RecordSet), NEW k \in 1 .. Len(capture), NEW s, NEW i
  PROVE  /\ k \notin MatchingAt(s) => (Latest(s, i, k) <=> Latest(s, i, k - 1))
         /\ k \in MatchingAt(s) => (Latest(s, i, k) <=> i = k)
         /\ k \in MatchingAt(s) => (Consecutive(s, i, k) <=> Latest(s, i, k - 1))
<1>1. MatchingAt(s) \subseteq 1 .. Len(capture)
  BY DEF MatchingAt
<1>2. i \in MatchingAt(s) => /\ i \in 1 .. Len(capture)
                             /\ (i <= k <=> i = k \/ i <= k - 1)
                             /\ (i < k <=> i <= k - 1)
  BY <1>1
<1>3. i \in 1 .. k => i + 1 .. k = (i + 1 .. k - 1) \cup (IF i = k THEN {} ELSE {k})
  OBVIOUS
<1>4. CASE k \notin MatchingAt(s)
  BY <1>1, <1>2, <1>3, <1>4 DEF Latest
<1>5. CASE k \in MatchingAt(s)
  <2>1. Latest(s, i, k) <=> i = k
    <3>1. ASSUME Latest(s, i, k) PROVE i = k
      <4>1. i \in 1 .. k /\ (i < k => k \in i + 1 .. k)
        BY <1>1, <3>1 DEF Latest
      <4>2. QED
        BY <1>5, <3>1, <4>1 DEF Latest
    <3>2. ASSUME i = k PROVE Latest(s, i, k)
      <4>1. k + 1 .. k = {} /\ k <= k
        OBVIOUS
      <4>2. QED
        BY <1>5, <3>2, <4>1 DEF Latest
    <3>3. QED
      BY <3>1, <3>2
  <2>2. Consecutive(s, i, k) <=> Latest(s, i, k - 1)
    BY <1>2, <1>5 DEF Consecutive, Latest
  <2>3. QED
    BY <1>5, <2>1, <2>2
<1>6. QED
  BY <1>4, <1>5

\* What one more record changes of what was heard of a sender.
LEMMA HeardMoves ==
  ASSUME capture \in Seq(RecordSet), NEW k \in 1 .. Len(capture), NEW s
  PROVE  /\ HeardBy(s, k) <=> HeardBy(s, k - 1) \/ k \in MatchingAt(s)
         /\ k \notin MatchingAt(s) =>
              /\ Steady(s, k) <=> Steady(s, k - 1)
              /\ GivenTo(s, k) = GivenTo(s, k - 1)
         /\ k \in MatchingAt(s) =>
              /\ Steady(s, k) <=>
                   /\ Steady(s, k - 1)
                   /\ \A i : Latest(s, i, k - 1) =>
                             capture[k].packet.n = capture[i].packet.n + 1
              /\ GivenTo(s, k) = GivenTo(s, k - 1) \cup FramesOf(capture[k])
<1>1. \A i \in MatchingAt(s) : i \in 1 .. Len(capture) /\ (i <= k <=> i = k \/ i <= k - 1)
  BY DEF MatchingAt
<1>2. HeardBy(s, k) <=> HeardBy(s, k - 1) \/ k \in MatchingAt(s)
  BY <1>1 DEF HeardBy
<1>3. \A j \in DOMAIN capture : j <= k <=> j = k \/ j <= k - 1
  OBVIOUS
<1>4. CASE k \notin MatchingAt(s)
  <2>1. Steady(s, k) <=> Steady(s, k - 1)
    BY <1>3, <1>4 DEF Steady, Consecutive
  <2>2. {j \in MatchingAt(s) : j <= k} = {j \in MatchingAt(s) : j <= k - 1}
    BY <1>1, <1>4
  <2>3. QED
    BY <1>2, <1>4, <2>1, <2>2 DEF GivenTo
<1>5. CASE k \in MatchingAt(s)
  <2>1. \A i : Consecutive(s, i, k) <=> Latest(s, i, k - 1)
    BY <1>5, LastMoves
  <2>2. \A i : Latest(s, i, k - 1) => i \in DOMAIN capture
    BY DEF Latest, MatchingAt
  <2>3. Steady(s, k) <=>
          /\ Steady(s, k - 1)
          /\ \A i \in DOMAIN capture : Consecutive(s, i, k) =>
                            capture[k].packet.n = capture[i].packet.n + 1
    <3>1. k \in DOMAIN capture
      OBVIOUS
    <3> HIDE DEF Consecutive
    <3>2. QED
      BY <1>3, <3>1 DEF Steady
  <2>4. {j \in MatchingAt(s) : j <= k} = {j \in MatchingAt(s) : j <= k - 1} \cup {k}
    BY <1>1, <1>5
  <2>5. GivenTo(s, k) = GivenTo(s, k - 1) \cup FramesOf(capture[k])
    <3> DEFINE A == {j \in MatchingAt(s) : j <= k - 1}
    <3>1. GivenTo(s, k) = UNION {FramesOf(capture[i]) : i \in A \cup {k}}
      BY <2>4 DEF GivenTo
    <3>2. GivenTo(s, k - 1) = UNION {FramesOf(capture[i]) : i \in A}
      BY DEF GivenTo
    <3> HIDE DEF A
    <3>3. QED
      BY <3>1, <3>2
  <2>6. QED
    BY <1>2, <1>5, <2>1, <2>2, <2>3, <2>5
<1>6. QED
  BY <1>4, <1>5

\* The frames in a payload of speech.
LEMMA FramesAre ==
  ASSUME NEW r, r.packet \in PacketSet, PayloadLength(r) \in Nat, Speech(PayloadLength(r))
  PROVE  LET c == PayloadLength(r) \div FrameBytes
             F == Frames(r.packet, c)
         IN  /\ c \in Nat /\ c > 0 /\ F \in Seq(FrameSet) /\ Len(F) = c
             /\ \A i \in 1 .. c : F[i] = [ssrc |-> r.packet.ssrc, n |-> r.packet.n, frame |-> i]
             /\ Elements(F) = FramesOf(r)
<1> DEFINE b == PayloadLength(r)
           c == b \div FrameBytes
           F == Frames(r.packet, c)
           frame(i) == [ssrc |-> r.packet.ssrc, n |-> r.packet.n, frame |-> i]
<1>1. c \in Nat /\ c > 0
  <2>1. b \in Nat /\ b > 0 /\ b % 10 = 0
    BY DEF Speech, FrameBytes
  <2> HIDE DEF b
  <2>2. b \div 10 \in Nat /\ b \div 10 > 0
    BY <2>1
  <2>3. QED
    BY <2>2 DEF FrameBytes
<1> HIDE DEF c
<1>2. F = [i \in 1 .. c |-> frame(i)]
  BY DEF Frames
<1>3. \A i \in 1 .. c : frame(i) \in FrameSet
  BY <1>1 DEF FrameSet, PacketSet
<1>4. FramesOf(r) = {frame(i) : i \in 1 .. c}
  BY DEF FramesOf, c
<1> HIDE DEF F, frame
<1>5. F \in Seq(FrameSet) /\ Len(F) = c /\ DOMAIN F = 1 .. c
  BY <1>1, <1>2, <1>3
<1>6. \A i \in 1 .. c : F[i] = frame(i)
  BY <1>2
<1>7. {F[i] : i \in DOMAIN F} = FramesOf(r)
  BY <1>4, <1>5, <1>6
<1>8. QED
  BY <1>1, <1>5, <1>6, <1>7 DEF F, c, frame, Elements

\* The frames of one more packet, put behind those before it.
GoesOn(old, F, n) ==
  /\ old \in Seq(FrameSet) /\ F \in Seq(FrameSet) /\ Len(F) > 0 /\ n \in Nat
  /\ InOrder(old)
  /\ Len(old) > 0 => n = old[Len(old)].n + 1
  /\ \A i \in 1 .. Len(F) : F[i].n = n /\ F[i].frame = i

WentOn(got, old, F, n) ==
  /\ got \in Seq(FrameSet) /\ Len(got) > 0
  /\ Elements(got) = Elements(old) \cup Elements(F)
  /\ InOrder(got)
  /\ got[Len(got)].n = n

\* Frames that go on where those before them ended leave them in order.
LEMMA MoreFrames ==
  ASSUME NEW old, NEW F, NEW n, GoesOn(old, F, n)
  PROVE  WentOn(old \o F, old, F, n)
<1>0. /\ old \in Seq(FrameSet) /\ F \in Seq(FrameSet) /\ Len(F) > 0 /\ n \in Nat
      /\ InOrder(old)
      /\ Len(old) > 0 => n = old[Len(old)].n + 1
      /\ \A i \in 1 .. Len(F) : F[i].n = n /\ F[i].frame = i
  BY DEF GoesOn
<1> DEFINE got == old \o F
           m == Len(old)
           c == Len(F)
           A == Elements(old)
           B == Elements(F)
<1>1. /\ got \in Seq(FrameSet) /\ Len(got) = m + c /\ m \in Nat /\ c \in Nat
      /\ \A i \in 1 .. m : got[i] = old[i]
      /\ \A i \in 1 .. c : got[m + i] = F[i]
  BY <1>0
<1>2. DOMAIN got = 1 .. m + c /\ DOMAIN old = 1 .. m /\ DOMAIN F = 1 .. c
  BY <1>1
<1> HIDE DEF got, m, c
<1>3. {got[i] : i \in DOMAIN got} = A \cup B
  <2>0. A = {old[i] : i \in DOMAIN old} /\ B = {F[i] : i \in DOMAIN F}
    BY DEF Elements
  <2> HIDE DEF A, B
  <2>1. ASSUME NEW i \in DOMAIN got PROVE got[i] \in A \cup B
    <3>1. CASE i <= m
      BY <3>1, <1>1, <1>2, <2>0
    <3>2. CASE i > m
      <4>1. i - m \in 1 .. c /\ m + (i - m) = i
        BY <3>2, <1>1, <1>2
      <4>2. QED
        BY <4>1, <1>1, <1>2, <2>0
    <3>3. QED
      BY <3>1, <3>2, <1>1, <1>2
  <2>2. \A i \in 1 .. m : i \in DOMAIN got
    BY <1>1, <1>2
  <2>3. \A i \in 1 .. c : m + i \in DOMAIN got
    BY <1>1, <1>2
  <2>4. A \subseteq {got[i] : i \in DOMAIN got}
    <3>1. ASSUME NEW y \in A PROVE y \in {got[i] : i \in DOMAIN got}
      <4>1. PICK i \in 1 .. m : y = old[i]
        BY <1>2, <2>0
      <4>2. y = got[i] /\ i \in DOMAIN got
        BY <4>1, <1>1, <2>2
      <4>3. QED
        BY <4>2
    <3>2. QED
      BY <3>1
  <2>5. B \subseteq {got[i] : i \in DOMAIN got}
    <3>1. ASSUME NEW y \in B PROVE y \in {got[i] : i \in DOMAIN got}
      <4>1. PICK i \in 1 .. c : y = F[i]
        BY <1>2, <2>0
      <4>2. y = got[m + i] /\ m + i \in DOMAIN got
        BY <4>1, <1>1, <2>3
      <4>3. QED
        BY <4>2
    <3>2. QED
      BY <3>1
  <2>6. QED
    BY <2>1, <2>4, <2>5
<1>4. InOrder(got)
  <2>1. ASSUME NEW i \in 2 .. Len(got)
        PROVE  \/ got[i].n = got[i - 1].n /\ got[i].frame = got[i - 1].frame + 1
               \/ got[i].n = got[i - 1].n + 1 /\ got[i].frame = 1
    <3>1. CASE i <= m
      <4>1. i \in 2 .. m /\ i \in 1 .. m /\ i - 1 \in 1 .. m
        BY <3>1, <1>1
      <4>2. got[i] = old[i] /\ got[i - 1] = old[i - 1]
        BY <4>1, <1>1
      <4>3. QED
        BY <1>0, <4>1, <4>2 DEF InOrder, m
    <3>2. CASE i = m + 1
      <4>1. 1 \in 1 .. c /\ m \in 1 .. m /\ m > 0 /\ i - 1 = m
        BY SMTT(30), <3>2, <1>0, <1>1 DEF c
      <4>2. got[i] = F[1] /\ got[i - 1] = old[m]
        BY <3>2, <4>1, <1>1
      <4>3. F[1].n = n /\ F[1].frame = 1 /\ n = old[m].n + 1
        BY <1>0, <4>1 DEF c, m
      <4>4. QED
        BY <4>2, <4>3
    <3>3. CASE i > m + 1
      <4>0. i \in Nat /\ i <= m + c
        BY <1>1
      <4>1. i - m \in 1 .. c /\ (i - m) - 1 \in 1 .. c /\ m + (i - m) = i
            /\ m + ((i - m) - 1) = i - 1
        BY <3>3, <4>0, <1>1
      <4>2. got[i] = F[i - m] /\ got[i - 1] = F[(i - m) - 1]
        BY <4>1, <1>1
      <4>3. /\ F[i - m].n = n /\ F[i - m].frame = i - m
            /\ F[(i - m) - 1].n = n /\ F[(i - m) - 1].frame = (i - m) - 1
        BY <1>0, <4>1 DEF c
      <4>4. QED
        BY <4>1, <4>2, <4>3, <1>1
    <3>4. QED
      BY <3>1, <3>2, <3>3, <1>1
  <2>2. QED
    BY <2>1 DEF InOrder
<1>5. got[Len(got)].n = n /\ Len(got) > 0
  <2>1. c \in 1 .. c /\ got[m + c] = F[c]
    BY <1>0, <1>1 DEF c
  <2>2. F[c].n = n
    BY <1>0, <2>1 DEF c
  <2>3. QED
    BY <1>1, <2>1, <2>2
<1>6. Elements(got) = A \cup B
  BY <1>3 DEF Elements
<1>7. WentOn(got, old, F, n)
  BY <1>1, <1>4, <1>5, <1>6 DEF WentOn
<1>8. QED
  BY <1>7 DEF got

\* One more record keeps the account.
LEMMA AccountSteps ==
  ASSUME RtpAssumption, CaptureOk, NEW opt, NEW k \in 1 .. Len(capture),
         NEW acc, AccountIs(acc, k - 1, opt)
  PROVE  AccountIs(Analyze(acc, capture[k], opt), k, opt)
<1> DEFINE r == capture[k]
           a == Analyze(acc, r, opt)
           s == r.packet.ssrc
<1>1. capture \in Seq(RecordSet) /\ k \in DOMAIN capture /\ k - 1 \in 0 .. Len(capture)
  BY DEF CaptureOk
<1>2. /\ IsAccount(a)
      /\ acc.failed # "" => a = acc
      /\ acc.failed = "" /\ ~Matches(r) => Skips(acc, a)
      /\ acc.failed = "" /\ Matches(r) => Takes(acc, r, opt, a) \/ Ends(acc, r, opt, a)
  BY AnalyzeIs DEF AccountIs
<1> HIDE DEF a
<1>3. \A t : k \in MatchingAt(t) <=> Matches(r) /\ t = s
  BY <1>1, MatchingHere
<1> HIDE DEF r
<1>4. CASE acc.failed # ""
  <2>1. a = acc /\ acc.failed # ""
    BY <1>2, <1>4
  <2>2. AccountIs(a, k, opt)
    BY <2>1 DEF AccountIs
  <2>3. QED
    BY <2>2 DEF a, r
<1>5. CASE acc.failed = "" /\ ~Matches(r)
  <2>1. Skips(acc, a)
    BY <1>2, <1>5
  <2>2. \A t : k \notin MatchingAt(t)
    BY <1>3, <1>5
  <2>3. \A t, i : Latest(t, i, k) <=> Latest(t, i, k - 1)
    BY <1>1, <2>2, LastMoves
  <2>4. \A t : /\ HeardBy(t, k) <=> HeardBy(t, k - 1)
               /\ Steady(t, k) <=> Steady(t, k - 1)
               /\ GivenTo(t, k) = GivenTo(t, k - 1)
    BY <1>1, <2>2, HeardMoves
  <2>5. Counted(acc, k - 1) /\ (opt.strict => Expecting(acc, k - 1))
        /\ (opt.strict /\ opt.decode => Decoding(acc, k - 1))
    BY <1>5 DEF AccountIs
  <2>6. Counted(a, k)
    <3>1. \A i \in 1 .. k : i = k \/ i \in 1 .. k - 1
      OBVIOUS
    <3>2. \A i \in 1 .. k : Matches(capture[i]) => Speech(PayloadLength(capture[i]))
      BY <1>5, <2>5, <3>1 DEF Counted, r
    <3>3. a.packets \in Nat /\ a.skipped \in Nat /\ a.packets + a.skipped = k
      <4>1. /\ acc.packets \in Nat /\ acc.skipped \in Nat
            /\ acc.packets + acc.skipped = k - 1 /\ k \in Nat
        BY <1>1, <2>5 DEF Counted
      <4>2. a.packets = acc.packets /\ a.skipped = acc.skipped + 1
        BY <2>1 DEF Skips
      <4>3. QED
        BY <4>1, <4>2
    <3>4. \A t : t \in a.seen <=> HeardBy(t, k)
      BY <2>1, <2>4, <2>5 DEF Counted, Skips
    <3>5. QED
      BY <3>2, <3>3, <3>4 DEF Counted
  <2>7. opt.strict => Expecting(a, k)
    BY <2>1, <2>3, <2>4, <2>5 DEF Expecting, Skips
  <2>8. opt.strict /\ opt.decode => Decoding(a, k)
    <3>1. a.fed = acc.fed /\ a.seen = acc.seen
      BY <2>1 DEF Skips
    <3>2. \A got, t : DecoderGot(got, t, k) <=> DecoderGot(got, t, k - 1)
      BY <2>3, <2>4 DEF DecoderGot
    <3>3. QED
      BY <2>5, <3>1, <3>2 DEF Decoding
  <2>9. AccountIs(a, k, opt)
    BY <1>2, <2>1, <2>6, <2>7, <2>8 DEF AccountIs, Skips
  <2>10. QED
    BY <2>9 DEF a, r
<1>6. CASE acc.failed = "" /\ Matches(r)
  <2>1. /\ k \in MatchingAt(s) /\ s \in Ssrcs
        /\ r.packet \in PacketSet /\ PayloadLength(r) \in Nat
    BY <1>1, <1>3, <1>6 DEF CaptureOk, r, PacketSet
  <2>2. \A t : t # s => k \notin MatchingAt(t)
    BY <1>3
  <2>3. Counted(acc, k - 1) /\ (opt.strict => Expecting(acc, k - 1))
        /\ (opt.strict /\ opt.decode => Decoding(acc, k - 1))
    BY <1>6 DEF AccountIs
  <2>4. \A i : Latest(s, i, k - 1) => /\ i \in MatchingAt(s) /\ Speech(PayloadLength(capture[i]))
                                    /\ i \in 1 .. k - 1
    <3>1. ASSUME NEW i, Latest(s, i, k - 1)
          PROVE  /\ i \in MatchingAt(s) /\ Speech(PayloadLength(capture[i]))
                 /\ i \in 1 .. k - 1
      <4>1. i \in MatchingAt(s) /\ i \in 1 .. k - 1 /\ Matches(capture[i])
        BY <1>1, <3>1 DEF Latest, MatchingAt, Matches
      <4>2. QED
        BY <2>3, <4>1 DEF Counted
    <3>2. QED
      BY <3>1
  <2>5. ASSUME NEW i, Latest(s, i, k - 1), opt.strict
        PROVE  /\ s \in DOMAIN acc.streams
               /\ Continuous(acc.streams[s], r.packet)
                    <=> r.packet.n = capture[i].packet.n + 1
    <3>1. HeardBy(s, k - 1)
      BY <2>5 DEF HeardBy, Latest
    <3>2. s \in DOMAIN acc.streams /\ acc.streams[s] = NextOf(capture[i])
      BY <2>3, <2>5, <3>1 DEF Counted, Expecting
    <3>3. Continuous(NextOf(capture[i]), r.packet)
            <=> r.packet.n = capture[i].packet.n + 1
      BY <2>1, <2>4, <2>5, ContinuityIs DEF r
    <3>4. QED
      BY <3>2, <3>3
  <2>6. CASE Ends(acc, r, opt, a)
    <3>1. CASE a.failed = "payload"
      BY <1>2, <3>1 DEF AccountIs, a, r
    <3>2. CASE a.failed = "continuity"
      <4>1. /\ opt.strict /\ s \in DOMAIN acc.streams
            /\ ~Continuous(acc.streams[s], r.packet)
        BY <2>6, <3>2 DEF Ends
      <4>2. HeardBy(s, k - 1)
        BY <2>3, <4>1 DEF Counted, Expecting
      <4>3. PICK i : Latest(s, i, k - 1)
        BY <1>1, <4>2, LatestIs DEF HeardBy
      <4>4. r.packet.n # capture[i].packet.n + 1
        BY <2>5, <4>1, <4>3
      <4>5. Consecutive(s, i, k)
        BY <1>1, <2>1, <4>3, LastMoves
      <4>6. ~Unbroken(s)
        <5>1. i \in DOMAIN capture /\ k \in DOMAIN capture
          BY <1>1, <4>5 DEF Consecutive, MatchingAt
        <5>2. QED
          BY <4>4, <4>5, <5>1 DEF Unbroken, r
      <4>7. AccountIs(a, k, opt)
        BY <1>2, <2>1, <3>2, <4>6 DEF AccountIs
      <4>8. QED
        BY <4>7 DEF a, r
    <3>3. QED
      BY <2>6, <3>1, <3>2 DEF Ends
  <2>7. CASE Takes(acc, r, opt, a)
    <3>1. /\ a.failed = "" /\ Speech(PayloadLength(r))
          /\ opt.strict /\ s \in DOMAIN acc.streams => Continuous(acc.streams[s], r.packet)
          /\ opt.strict => a.streams = Put(acc.streams, s, NextOf(r))
          /\ a.seen = acc.seen \cup {s}
          /\ a.packets = acc.packets + 1 /\ a.skipped = acc.skipped
          /\ opt.decode => a.fed = Put(acc.fed, s, Fed(acc, s)
                                    \o Frames(r.packet, PayloadLength(r) \div FrameBytes))
      BY <2>7 DEF Takes
    <3>2. \A t : HeardBy(t, k) <=> HeardBy(t, k - 1) \/ t = s
      BY <1>1, <1>3, <1>6, HeardMoves
    <3>3. Counted(a, k)
      <4>1. \A i \in 1 .. k : i = k \/ i \in 1 .. k - 1
        OBVIOUS
      <4>2. \A i \in 1 .. k : Matches(capture[i]) => Speech(PayloadLength(capture[i]))
        BY <2>3, <3>1, <4>1 DEF Counted, r
      <4>3. \A t : t \in a.seen <=> HeardBy(t, k)
        BY <2>3, <3>1, <3>2 DEF Counted
      <4>4. a.packets \in Nat /\ a.skipped \in Nat /\ a.packets + a.skipped = k
        <5>1. /\ acc.packets \in Nat /\ acc.skipped \in Nat
              /\ acc.packets + acc.skipped = k - 1 /\ k \in Nat
          BY <1>1, <2>3 DEF Counted
        <5>2. a.packets = acc.packets + 1 /\ a.skipped = acc.skipped
          BY <3>1
        <5>3. QED
          BY <5>1, <5>2
      <4>5. QED
        BY <4>2, <4>3, <4>4 DEF Counted
    <3>4. ASSUME opt.strict, NEW i, Latest(s, i, k - 1)
          PROVE  r.packet.n = capture[i].packet.n + 1
      BY <2>5, <3>1, <3>4
    <3>5. ASSUME opt.strict PROVE Expecting(a, k)
      <4>1. DOMAIN a.streams = a.seen
        BY <2>3, <3>1, <3>5 DEF Expecting, Put
      <4>2. ASSUME NEW t, NEW i, Latest(t, i, k) PROVE a.streams[t] = NextOf(capture[i])
        <5>1. CASE t = s
          <6>1. i = k
            BY <1>1, <2>1, <4>2, <5>1, LastMoves
          <6>2. QED
            BY <3>1, <3>5, <5>1, <6>1 DEF Put, r
        <5>2. CASE t # s
          <6>1. Latest(t, i, k - 1)
            BY <1>1, <2>2, <4>2, <5>2, LastMoves
          <6>2. acc.streams[t] = NextOf(capture[i]) /\ t \in DOMAIN acc.streams
            BY <2>3, <3>5, <6>1 DEF Expecting, Counted, HeardBy, Latest
          <6>3. QED
            BY <3>1, <3>5, <5>2, <6>2 DEF Put
        <5>3. QED
          BY <5>1, <5>2
      <4>3. ASSUME NEW t PROVE Steady(t, k)
        <5>1. Steady(t, k - 1)
          BY <2>3, <3>5 DEF Expecting
        <5>2. CASE t = s
          BY <1>1, <2>1, <3>4, <3>5, <5>1, <5>2, HeardMoves DEF r
        <5>3. CASE t # s
          BY <1>1, <2>2, <5>1, <5>3, HeardMoves
        <5>4. QED
          BY <5>2, <5>3
      <4>4. QED
        BY <4>1, <4>2, <4>3 DEF Expecting
    <3>6. ASSUME opt.strict, opt.decode PROVE Decoding(a, k)
      <4> DEFINE F == Frames(r.packet, PayloadLength(r) \div FrameBytes)
                 old == Fed(acc, s)
      <4>1. /\ F \in Seq(FrameSet) /\ Len(F) > 0
            /\ \A i \in 1 .. Len(F) : F[i].n = r.packet.n /\ F[i].frame = i
            /\ Elements(F) = FramesOf(r)
        <5> DEFINE c == PayloadLength(r) \div FrameBytes
        <5>1. /\ c \in Nat /\ c > 0 /\ F \in Seq(FrameSet) /\ Len(F) = c
              /\ \A i \in 1 .. c :
                   F[i] = [ssrc |-> s, n |-> r.packet.n, frame |-> i]
              /\ Elements(F) = FramesOf(r)
          BY <2>1, <3>1, FramesAre
        <5> HIDE DEF c, F
        <5>2. QED
          BY <5>1
      <4>2. a.fed = Put(acc.fed, s, old \o F)
        BY <3>1, <3>6
      <4> HIDE DEF F
      <4>3. DOMAIN acc.fed = acc.seen
        BY <2>3, <3>6 DEF Decoding
      <4>4. DOMAIN a.fed = a.seen
        BY <3>1, <4>2, <4>3 DEF Put
      <4>5. /\ old \in Seq(FrameSet) /\ InOrder(old)
            /\ Elements(old) = GivenTo(s, k - 1)
            /\ Len(old) > 0 => r.packet.n = old[Len(old)].n + 1
        <5>1. CASE s \in acc.seen
          <6>1. old = acc.fed[s] /\ DecoderGot(old, s, k - 1)
            BY <2>3, <3>6, <4>3, <5>1 DEF Fed, Decoding
          <6>2. PICK i : Latest(s, i, k - 1)
            <7>1. HeardBy(s, k - 1)
              BY <2>3, <5>1 DEF Counted
            <7>2. QED
              BY <1>1, <7>1, LatestIs DEF HeardBy
          <6>3. r.packet.n = capture[i].packet.n + 1
            BY <3>4, <3>6, <6>2
          <6> HIDE DEF old
          <6>4. QED
            BY <6>1, <6>2, <6>3 DEF DecoderGot
        <5>2. CASE s \notin acc.seen
          <6>1. old = <<>>
            BY <4>3, <5>2 DEF Fed
          <6>2. GivenTo(s, k - 1) = {}
            BY <2>3, <5>2 DEF Counted, HeardBy, GivenTo
          <6> HIDE DEF old
          <6>3. old \in Seq(FrameSet) /\ Len(old) = 0 /\ DOMAIN old = {}
            BY <6>1
          <6>4. InOrder(old)
            <7>1. 2 .. 0 = {}
              OBVIOUS
            <7>2. QED
              BY <6>3, <7>1 DEF InOrder
          <6>5. QED
            BY <6>2, <6>3, <6>4 DEF Elements
        <5>3. QED
          BY <5>1, <5>2
      <4> HIDE DEF old
      <4> DEFINE got == old \o F
      <4>6. /\ got \in Seq(FrameSet) /\ Len(got) > 0
            /\ Elements(got) = GivenTo(s, k - 1) \cup FramesOf(r)
            /\ InOrder(got) /\ got[Len(got)].n = r.packet.n
        <5>1. r.packet.n \in Nat
          BY <2>1 DEF PacketSet
        <5>2. QED
          <6>1. /\ got \in Seq(FrameSet) /\ Len(got) > 0
                /\ Elements(got) = Elements(old) \cup Elements(F)
                /\ InOrder(got) /\ got[Len(got)].n = r.packet.n
            <7>1. GoesOn(old, F, r.packet.n)
              BY <4>1, <4>5, <5>1 DEF GoesOn
            <7>2. QED
              BY <7>1, MoreFrames DEF WentOn
          <6>2. QED
            BY <4>1, <4>5, <6>1
      <4> HIDE DEF got
      <4>7. DecoderGot(got, s, k)
        <5>1. GivenTo(s, k) = GivenTo(s, k - 1) \cup FramesOf(r)
          BY <1>1, <2>1, HeardMoves DEF r
        <5>2. \A i : Latest(s, i, k) => capture[i] = r
          BY <1>1, <2>1, LastMoves DEF r
        <5>3. QED
          BY <4>6, <5>1, <5>2 DEF DecoderGot
      <4>8. ASSUME NEW t \in a.seen PROVE DecoderGot(a.fed[t], t, k)
        <5>1. CASE t = s
          <6>1. a.fed[s] = got
            BY <4>2 DEF Put, got
          <6>2. QED
            BY <4>7, <5>1, <6>1
        <5>2. CASE t # s
          <6>1. t \in acc.seen /\ a.fed[t] = acc.fed[t]
            BY <3>1, <4>2, <4>3, <4>8, <5>2 DEF Put
          <6>2. DecoderGot(acc.fed[t], t, k - 1)
            BY <2>3, <3>6, <6>1 DEF Decoding
          <6>3. GivenTo(t, k) = GivenTo(t, k - 1) /\ \A i : Latest(t, i, k) <=> Latest(t, i, k - 1)
            BY <1>1, <2>2, <5>2, HeardMoves, LastMoves
          <6>4. QED
            BY <6>1, <6>2, <6>3 DEF DecoderGot
        <5>3. QED
          BY <5>1, <5>2
      <4>9. QED
        BY <4>4, <4>8 DEF Decoding
    <3>7. AccountIs(a, k, opt)
      BY <1>2, <3>1, <3>3, <3>5, <3>6 DEF AccountIs
    <3>8. QED
      BY <3>7 DEF a, r
  <2>8. QED
    BY <1>2, <1>6, <2>6, <2>7
<1>7. QED
  BY <1>4, <1>5, <1>6

\* What a report of the capture that is there says.
LEMMA AnalyzedIs ==
  ASSUME RtpAssumption, CaptureOk, NEW opt
  PROVE  LET a == Analyzed(capture, opt)
         IN  /\ a.failed = "" => AccountIs(a, Len(capture), opt)
             /\ a.failed = "continuity" => \E s \in Ssrcs : ~Unbroken(s)
<1> DEFINE n == Len(capture)
<1>1. n \in Nat /\ capture \in Seq(RecordSet)
  BY DEF CaptureOk
<1>2. PICK f : /\ f[0] = Fresh
               /\ \A i \in 1 .. n : f[i] = Analyze(f[i - 1], capture[i], opt)
               /\ Analyzed(capture, opt)
                    = LET end == f[n]
                      IN  IF end.failed = "" /\ end.packets = 0
                          THEN [end EXCEPT !.failed = "no packets"] ELSE end
  BY <1>1, AnalyzedRuns
<1> DEFINE T == {k \in Nat : AccountIs(f[k], k, opt)}
<1>3. 0 \in T
  <2>1. /\ Fresh.failed = "" /\ Fresh.packets = 0 /\ Fresh.skipped = 0
        /\ Fresh.seen = {} /\ DOMAIN Fresh.streams = {} /\ DOMAIN Fresh.fed = {}
        /\ IsAccount(Fresh)
    BY DEF Fresh, Empty, IsAccount
  <2>2. \A s : MatchingAt(s) \subseteq 1 .. n
    BY <1>1 DEF MatchingAt
  <2>3. \A s : ~HeardBy(s, 0) /\ Steady(s, 0)
    BY <1>1, <2>2 DEF HeardBy, Steady, Consecutive
  <2>4. \A s, i : ~Latest(s, i, 0)
    BY <2>2 DEF Latest
  <2>5. AccountIs(Fresh, 0, opt)
    <3>1. Counted(Fresh, 0)
      <4>1. \A i \in 1 .. 0 : FALSE
        OBVIOUS
      <4>2. /\ Fresh.packets \in Nat /\ Fresh.skipped \in Nat
            /\ Fresh.packets + Fresh.skipped = 0
        BY DEF Fresh
      <4>3. \A s : s \in Fresh.seen <=> HeardBy(s, 0)
        BY <2>1, <2>3
      <4>4. QED
        BY <4>1, <4>2, <4>3, Zenon DEF Counted
    <3>2. Expecting(Fresh, 0) /\ Decoding(Fresh, 0)
      BY <2>1, <2>3, <2>4 DEF Expecting, Decoding
    <3>3. QED
      BY <2>1, <3>1, <3>2 DEF AccountIs
  <2>6. QED
    BY <1>2, <2>5
<1>4. ASSUME NEW k \in 1 .. n, k - 1 \in T PROVE k \in T
  <2>1. AccountIs(f[k - 1], k - 1, opt) /\ k \in Nat
    BY <1>4
  <2>2. AccountIs(Analyze(f[k - 1], capture[k], opt), k, opt)
    BY <2>1, AccountSteps
  <2>3. QED
    BY <1>2, <2>1, <2>2
<1> HIDE DEF T
<1>5. n \in T
  <2>1. 0 .. n \subseteq T
    BY <1>1, <1>3, <1>4, RangeInduction
  <2>2. QED
    BY <1>1, <2>1
<1> DEFINE end == f[n]
           a == Analyzed(capture, opt)
<1>6. AccountIs(end, n, opt)
  BY <1>5 DEF T
<1>7. CASE end.failed = "" /\ end.packets = 0
  <2>1. a = [end EXCEPT !.failed = "no packets"]
    BY <1>2, <1>7
  <2> HIDE DEF end, a
  <2>2. a.failed = "no packets"
    BY <1>6, <2>1 DEF AccountIs, IsAccount
  <2>3. QED
    BY <2>2 DEF a
<1>8. CASE ~(end.failed = "" /\ end.packets = 0)
  <2>1. a = end
    BY <1>2, <1>8
  <2> HIDE DEF end, a
  <2>2. QED
    BY <1>6, <2>1 DEF AccountIs, a
<1>9. QED
  BY <1>7, <1>8

\* The strict check accepts exactly the captures that hold each sender's packets
\* unbroken: however many senders, records, losses, repetitions and delays there
\* are, and however the numbers wrap.
THEOREM StrictIsExact == RtpSpec => []StrictAcceptsUnbroken
<1>1. ASSUME RtpAssumption, RtpInv PROVE StrictAcceptsUnbroken
  <2>1. SUFFICES ASSUME result # <<>>, result[1].opt.strict
        PROVE  /\ result[1].rep.failed = "" => \A s \in Ssrcs : Unbroken(s)
               /\ result[1].rep.failed = "continuity" => \E s \in Ssrcs : ~Unbroken(s)
    BY DEF StrictAcceptsUnbroken
  <2>2. PICK r : result = <<r>> /\ ReportOf(r)
    BY <1>1, <2>1 DEF RtpInv, VerdictInv
  <2>3. PICK opt \in CheckerOptions :
          \/ r = [opt |-> opt, rep |-> Analyzed(capture, opt)]
          \/ r = [opt |-> opt, rep |-> [Fresh EXCEPT !.failed = "truncated"]]
    BY <2>2 DEF ReportOf
  <2>4. r.opt = opt /\ result[1] = r /\ opt.strict
    BY <2>1, <2>2, <2>3
  <2>5. CaptureOk
    BY <1>1, CaptureIsOk DEF RtpInv
  <2>6. CASE r.rep = Analyzed(capture, opt)
    <3> DEFINE a == Analyzed(capture, opt)
    <3>1. a.failed = "continuity" => \E s \in Ssrcs : ~Unbroken(s)
      BY <1>1, <2>5, AnalyzedIs
    <3>2. ASSUME a.failed = "" PROVE \A s \in Ssrcs : Unbroken(s)
      <4>1. AccountIs(a, Len(capture), opt)
        BY <1>1, <2>5, <3>2, AnalyzedIs
      <4> HIDE DEF a
      <4>2. \A s : Steady(s, Len(capture))
        BY <2>4, <3>2, <4>1 DEF AccountIs, Expecting
      <4>3. \A j \in DOMAIN capture : j <= Len(capture)
        BY <2>5 DEF CaptureOk
      <4>4. QED
        BY <4>2, <4>3 DEF Steady, Unbroken
    <3> HIDE DEF a
    <3>3. QED
      <4>1. result[1].rep = a
        BY <2>4, <2>6 DEF a
      <4>2. result[1].rep.failed = "" => \A s \in Ssrcs : Unbroken(s)
        BY <3>2, <4>1 DEF a
      <4>3. result[1].rep.failed = "continuity" => \E s \in Ssrcs : ~Unbroken(s)
        BY <3>1, <4>1 DEF a
      <4>4. QED
        BY <4>2, <4>3
  <2>7. CASE r.rep = [Fresh EXCEPT !.failed = "truncated"]
    <3>1. r.rep.failed = "truncated"
      BY <2>7 DEF Fresh
    <3>2. result[1].rep.failed = "truncated"
      BY <2>4, <3>1
    <3>3. result[1].rep.failed # "" /\ result[1].rep.failed # "continuity"
      BY <3>2
    <3>4. QED
      BY <3>3
  <2>8. r.rep = Analyzed(capture, opt) \/ r.rep = [Fresh EXCEPT !.failed = "truncated"]
    BY <2>3
  <2>9. QED
    BY <2>6, <2>7, <2>8
<1>2. RtpAssumption
  BY RtpAssumption
<1>3. RtpInv => StrictAcceptsUnbroken
  BY <1>1, <1>2
<1>4. QED
  BY <1>3, RtpInvHolds, PTL

\* A PASS on a strict, decoded report is evidence of a whole capture.
THEOREM PassVouches == RtpSpec => []PassIsEvidence
<1>1. ASSUME RtpAssumption, RtpInv PROVE PassIsEvidence
  <2> DEFINE rep == result[1].rep
  <2>1. SUFFICES ASSUME verdict = "PASS", \A limit \in Limits : limit.strict /\ limit.decode
        PROVE  /\ rep.packets + rep.skipped = Len(capture)
               /\ DOMAIN rep.fed = rep.seen
               /\ \A s \in rep.seen :
                    /\ Elements(rep.fed[s]) = UNION {FramesOf(capture[i]) : i \in MatchingAt(s)}
                    /\ InOrder(rep.fed[s])
    BY DEF PassIsEvidence, Elements, InOrder
  <2>2. rep.failed = "" /\ result[1].opt.strict /\ result[1].opt.decode /\ result # <<>>
    <3>1. result # <<>>
      BY <1>1, <2>1 DEF RtpInv, VerdictInv
    <3>2. QED
      BY <1>1, <2>1, <3>1 DEF RtpInv, VerdictInv
  <2>3. PICK r : result = <<r>> /\ ReportOf(r)
    BY <1>1, <2>2 DEF RtpInv, VerdictInv
  <2>4. PICK opt \in CheckerOptions :
          \/ r = [opt |-> opt, rep |-> Analyzed(capture, opt)]
          \/ r = [opt |-> opt, rep |-> [Fresh EXCEPT !.failed = "truncated"]]
    BY <2>3 DEF ReportOf
  <2>5. r.opt = opt /\ result[1] = r /\ opt.strict /\ opt.decode
    <3>1. r.opt = opt /\ result[1] = r
      BY <2>3, <2>4
    <3>2. QED
      BY <2>2, <3>1
  <2>6. rep = Analyzed(capture, opt)
    <3>1. CASE r.rep = [Fresh EXCEPT !.failed = "truncated"]
      <4>1. r.rep.failed = "truncated"
        BY <3>1 DEF Fresh
      <4>2. QED
        BY <2>2, <2>5, <4>1
    <3>2. QED
      BY <2>4, <2>5, <3>1
  <2>7. CaptureOk
    BY <1>1, CaptureIsOk DEF RtpInv
  <2> HIDE DEF rep
  <2>8. AccountIs(rep, Len(capture), opt)
    BY <1>1, <2>2, <2>6, <2>7, AnalyzedIs
  <2>9. Counted(rep, Len(capture)) /\ Decoding(rep, Len(capture))
    BY <2>2, <2>5, <2>8 DEF AccountIs
  <2>10. ASSUME NEW s
         PROVE  GivenTo(s, Len(capture)) = UNION {FramesOf(capture[i]) : i \in MatchingAt(s)}
    <3>1. \A j \in MatchingAt(s) : j <= Len(capture)
      BY <2>7 DEF MatchingAt, CaptureOk
    <3>2. {j \in MatchingAt(s) : j <= Len(capture)} = MatchingAt(s)
      BY <3>1
    <3>3. QED
      BY <3>2 DEF GivenTo
  <2>11. QED
    BY <2>9, <2>10 DEF Counted, Decoding, DecoderGot
<1>2. RtpAssumption
  BY RtpAssumption
<1>3. RtpInv => PassIsEvidence
  BY <1>1, <1>2
<1>4. QED
  BY <1>3, RtpInvHolds, PTL
-----------------------------------------------------------------------------
(* RtpWeb: sequences.                                                      *)

PCM == DOMAIN StrictLevel

\* What is assumed of the constants, with the levels' samples named.
LEMMA WebConstants ==
  /\ WebFrame \in Nat \ {0} /\ PreviewCap \in Nat /\ MaxShift \in Nat
  /\ NearSilence \in Nat /\ FileTails \subseteq 0 .. 9
  /\ 0 \in PCM /\ PCM \subseteq Int
  /\ StrictLevel \in [PCM -> Int] /\ EnhancedLevel \in [PCM -> Int]
  /\ \A r \in Recordings : r \in Seq(PCM)
  BY RtpWebAssumption DEF RtpWebAssumption, PCM

\* A part of a sequence, element by element.
LEMMA PartIs ==
  ASSUME NEW S, NEW s \in Seq(S), NEW a \in Nat, NEW b \in Nat, a <= b, b <= Len(s)
  PROVE  /\ SubSeq(s, a + 1, b) \in Seq(S)
         /\ Len(SubSeq(s, a + 1, b)) = b - a
         /\ \A j \in 1 .. b - a : SubSeq(s, a + 1, b)[j] = s[a + j]
<1>1. /\ SubSeq(s, a + 1, b) \in Seq(S)
      /\ Len(SubSeq(s, a + 1, b)) = b - a
  OBVIOUS
<1>2. ASSUME NEW j \in 1 .. b - a PROVE SubSeq(s, a + 1, b)[j] = s[a + j]
  <2>1. SubSeq(s, a + 1, b)[j] = s[a + 1 + j - 1] /\ a + 1 + j - 1 = a + j
    OBVIOUS
  <2>2. QED
    BY <2>1
<1>3. QED
  BY <1>1, <1>2

\* The beginning of a sequence.
LEMMA FirstOf ==
  ASSUME NEW S, NEW s \in Seq(S), NEW n \in Nat, n <= Len(s)
  PROVE  /\ SubSeq(s, 1, n) \in Seq(S) /\ Len(SubSeq(s, 1, n)) = n
         /\ \A j \in 1 .. n : SubSeq(s, 1, n)[j] = s[j]
<1>1. 0 + 1 = 1 /\ n - 0 = n /\ \A j \in 1 .. n : 0 + j = j
  OBVIOUS
<1>2. /\ SubSeq(s, 0 + 1, n) \in Seq(S) /\ Len(SubSeq(s, 0 + 1, n)) = n - 0
      /\ \A j \in 1 .. n - 0 : SubSeq(s, 0 + 1, n)[j] = s[0 + j]
  BY PartIs
<1>3. QED
  BY <1>1, <1>2

\* Blocks of d, one after another.
Joins(f, s, d) ==
  /\ Len(f) = Len(s) * d
  /\ \A k \in 1 .. Len(s) : \A j \in 1 .. d : f[(k - 1) * d + j] = s[k][j]

\* Parts of one length, joined: each element is where it belongs.
LEMMA FlattenIs ==
  ASSUME NEW S, NEW d \in Nat, NEW s \in Seq(Seq(S)),
         \A k \in 1 .. Len(s) : Len(s[k]) = d
  PROVE  FlattenSeq(s) \in Seq(S) /\ Joins(FlattenSeq(s), s, d)
<1> DEFINE n == Len(s)
<1>0. n \in Nat
  OBVIOUS
<1>1. CASE n = 0
  <2>1. s = <<>> /\ FlattenSeq(s) = s /\ n * d = 0
    BY <1>1 DEF FlattenSeq
  <2>2. Len(s) = 0 /\ Len(s) * d = 0 /\ 1 .. Len(s) = {}
    BY <1>1
  <2>3. FlattenSeq(s) = <<>> /\ <<>> \in Seq(S) /\ Len(<<>>) = 0
    BY <2>1
  <2> HIDE DEF n
  <2>4. QED
    BY <2>2, <2>3 DEF Joins
<1>2. CASE n # 0
  <2> DEFINE E == [k \in 1 .. n |-> [y \in Seq(S) |-> y \o s[k]]]
             IsFlat(f) == f = [i \in 1 .. n |-> IF i = 1 THEN s[i] ELSE f[i - 1] \o s[i]]
             g == CHOOSE f : IsFlat(f)
  <2>1. FlattenSeq(s) = g[n]
    BY <1>2 DEF FlattenSeq
  <2>2. \A k \in 1 .. n : s[k] \in Seq(S)
    OBVIOUS
  <2>3. \A k \in 1 .. n : \A y \in Seq(S) : E[k][y] = y \o s[k] /\ E[k][y] \in Seq(S)
    BY <2>2
  <2>4. E \in [1 .. n -> [Seq(S) -> Seq(S)]]
    BY <2>2
  <2> HIDE DEF E
  <2>5. StepsFrom(Seq(S), s[1], n, E)
    BY <1>0, <1>2, <2>2, <2>4 DEF StepsFrom
  <2>6. PICK f : RunsUp(f, Seq(S), s[1], n, E)
    <3> HIDE DEF n
    <3>1. QED
      BY <1>2, <2>5, RecursionUp
  <2>7. /\ f \in [1 .. n -> Seq(S)] /\ f[1] = s[1]
        /\ \A k \in 2 .. n : f[k] = E[k][f[k - 1]]
    BY <2>6 DEF RunsUp
  <2>8. \A k \in 1 .. n : f[k] = IF k = 1 THEN s[k] ELSE f[k - 1] \o s[k]
    <3>1. ASSUME NEW k \in 2 .. n PROVE f[k] = f[k - 1] \o s[k]
      <4>1. k \in 1 .. n /\ k - 1 \in 1 .. n
        BY <1>0
      <4>2. f[k - 1] \in Seq(S) /\ f[k] = E[k][f[k - 1]]
        BY <2>7, <4>1
      <4>3. QED
        BY <2>3, <4>1, <4>2
    <3>2. \A k \in 1 .. n : k = 1 \/ k \in 2 .. n
      BY <1>0
    <3>3. \A k \in 2 .. n : k # 1
      BY <1>0
    <3>4. QED
      BY <2>7, <3>1, <3>2, <3>3
  <2>9. IsFlat(f)
    <3>1. f = [k \in 1 .. n |-> f[k]]
      BY <2>7
    <3>2. QED
      BY <2>8, <3>1
  <2>10. IsFlat(g)
    BY <2>9
  <2> HIDE DEF g
  <2>11. \A k \in 1 .. n : g[k] = IF k = 1 THEN s[k] ELSE g[k - 1] \o s[k]
    BY <2>10
  <2> DEFINE Good(m) == /\ g[m] \in Seq(S) /\ Len(g[m]) = m * d
                        /\ \A k \in 1 .. m : \A j \in 1 .. d : g[m][(k - 1) * d + j] = s[k][j]
             T == {m \in 0 .. n : m > 0 => Good(m)}
  <2>12. 0 \in T
    BY <1>0
  <2>13. ASSUME NEW m \in 1 .. n, m - 1 \in T PROVE m \in T
    <3>1. CASE m = 1
      <4>1. g[1] = s[1] /\ 1 * d = d /\ (1 - 1) * d = 0
        BY <2>11, <3>1
      <4>2. s[1] \in Seq(S) /\ Len(s[1]) = d
        BY <2>2, <3>1
      <4>3. ASSUME NEW k \in 1 .. 1, NEW j \in 1 .. d PROVE g[1][(k - 1) * d + j] = s[k][j]
        <5>1. k = 1 /\ 0 + j = j
          OBVIOUS
        <5>2. QED
          BY <4>1, <5>1
      <4>4. Good(1)
        BY <4>1, <4>2, <4>3
      <4> HIDE DEF Good
      <4>5. QED
        BY <3>1, <4>4
    <3>2. CASE m # 1
      <4> DEFINE l == m - 1
      <4>1. l \in 1 .. n /\ l \in Nat /\ m = l + 1 /\ Good(l)
        BY <1>0, <3>2, <2>13
      <4>0. l \in Nat /\ m = l + 1
        BY <4>1
      <4>2. g[m] = g[l] \o s[m]
        BY <2>11, <3>2
      <4>3. s[m] \in Seq(S) /\ Len(s[m]) = d
        BY <2>2
      <4> HIDE DEF l
      <4>4. /\ g[l] \in Seq(S) /\ Len(g[l]) = l * d
            /\ \A k \in 1 .. l : \A j \in 1 .. d : g[l][(k - 1) * d + j] = s[k][j]
        BY <4>1
      <4> DEFINE a == g[l]
                 b == s[m]
      <4>5. /\ a \o b \in Seq(S) /\ Len(a \o b) = Len(a) + Len(b)
            /\ \A i \in 1 .. Len(a) : (a \o b)[i] = a[i]
            /\ \A i \in 1 .. Len(b) : (a \o b)[Len(a) + i] = b[i]
        <5>1. a \in Seq(S) /\ b \in Seq(S)
          BY <4>3, <4>4
        <5> HIDE DEF a, b
        <5>2. QED
          BY <5>1, ConcatIs
      <4>6. m * d = l * d + d /\ m - 1 = l /\ l * d \in Nat
        BY <4>1
      <4>7. g[m] = a \o b
        BY <4>2
      <4>8. ASSUME NEW k \in 1 .. m, NEW j \in 1 .. d
            PROVE  g[m][(k - 1) * d + j] = s[k][j]
        <5> DEFINE i == (k - 1) * d + j
        <5>1. CASE k = m
          <6>1. i = Len(a) + j /\ j \in 1 .. Len(b)
            BY <4>3, <4>4, <4>6, <5>1
          <6> HIDE DEF a, b, i
          <6>2. (a \o b)[i] = b[j]
            BY <4>5, <6>1
          <6>3. QED
            BY <4>7, <5>1, <6>2 DEF b, i
        <5>2. CASE k # m
          <6>1. k \in 1 .. l /\ k \in Nat /\ k - 1 \in Nat
            BY <4>1, <5>2
          <6>2. k * d <= l * d /\ k * d = (k - 1) * d + d /\ (k - 1) * d \in Nat
            <7>1. k * d <= l * d
              <8>1. k <= l
                BY <6>1
              <8>2. QED
                BY <4>0, <6>1, <8>1, Multiples
            <7>2. (k - 1) * d \in Nat
              BY <6>1
            <7>3. k * d = (k - 1) * d + d
              BY <6>1
            <7>4. QED
              BY <7>1, <7>2, <7>3
          <6>3. i \in 1 .. Len(a)
            <7>1. Len(a) = l * d /\ l * d \in Nat
              BY <4>4, <4>6
            <7>2. j \in 1 .. d /\ (k - 1) * d + d <= l * d /\ (k - 1) * d \in Nat
              BY <6>2
            <7> HIDE DEF a
            <7>3. QED
              BY <7>1, <7>2
          <6>4. a[i] = s[k][j]
            BY <4>4, <6>1
          <6> HIDE DEF a, b, i
          <6>5. (a \o b)[i] = a[i]
            BY <4>5, <6>3
          <6>6. QED
            BY <4>7, <6>4, <6>5 DEF i
        <5>3. QED
          BY <5>1, <5>2
      <4>9. Len(g[m]) = m * d
        BY <4>3, <4>4, <4>5, <4>6, <4>7
      <4>10. Good(m)
        BY <4>5, <4>7, <4>8, <4>9
      <4> HIDE DEF Good
      <4>11. QED
        BY <1>0, <4>10
    <3>3. QED
      BY <3>1, <3>2
  <2> HIDE DEF T
  <2>14. 0 .. n \subseteq T
    <3>1. QED
      BY <1>0, <2>12, <2>13, RangeInduction
  <2>15. Good(n)
    <3>1. n \in T
      BY <1>0, <2>14
    <3>2. QED
      BY <1>0, <1>2, <3>1 DEF T
  <2>16. QED
    BY <2>1, <2>15 DEF Joins
<1>3. QED
  BY <1>1, <1>2

-----------------------------------------------------------------------------
(* RtpWeb: the codec.                                                      *)

\* A payload: the code of a frame is the frames coded so far.
Coded(e) ==
  /\ e \in Seq(Seq(Seq(PCM)))
  /\ \A k \in 1 .. Len(e) :
       Len(e[k]) = k /\ \A j \in 1 .. k : Len(e[k][j]) = WebFrame

\* Padding completes the last frame and no more.
LEMMA PaddedWeb ==
  ASSUME NEW samples \in Seq(PCM)
  PROVE  /\ PaddedPCM(samples) \in Seq(PCM)
         /\ Len(samples) <= Len(PaddedPCM(samples))
         /\ \E m \in Nat : Len(PaddedPCM(samples)) = m * WebFrame
<1> DEFINE n == Len(samples)
           r == (-n) % WebFrame
           q == (-n) \div WebFrame
           z == [i \in 1 .. r |-> 0]
<1>1. n \in Nat /\ WebFrame \in Nat \ {0} /\ 0 \in PCM
  BY WebConstants
<1>2. r \in Nat /\ q \in Int /\ -n = q * WebFrame + r
  BY <1>1
<1>3. PaddedPCM(samples) = samples \o z
  BY DEF PaddedPCM
<1>4. z \in Seq(PCM) /\ Len(z) = r
  BY <1>1, <1>2
<1> HIDE DEF r, q, z
<1>5. samples \o z \in Seq(PCM) /\ Len(samples \o z) = n + r
  BY <1>4, ConcatIs
<1> DEFINE m == -q
<1>6. m \in Int /\ n + r = m * WebFrame
  <2>1. m * WebFrame = -(q * WebFrame)
    BY <1>1, <1>2
  <2>2. QED
    BY <1>1, <1>2, <2>1
<1> HIDE DEF m, n
<1>7. m \in Nat
  <2>1. SUFFICES ASSUME m <= -1 PROVE FALSE
    BY <1>6
  <2>2. m * WebFrame <= (-1) * WebFrame
    BY <1>1, <1>6, <2>1
  <2>3. QED
    BY <1>1, <1>2, <1>6, <2>2
<1>8. Len(PaddedPCM(samples)) = n + r /\ PaddedPCM(samples) \in Seq(PCM)
  BY <1>3, <1>5
<1>9. n <= n + r
  BY <1>1, <1>2
<1>10. Len(PaddedPCM(samples)) = m * WebFrame
  BY <1>6, <1>8
<1>11. QED
  BY <1>7, <1>8, <1>9, <1>10 DEF n

\* A recording of m frames has the m beginnings of its frames for a code.
LEMMA EncodedIs ==
  ASSUME NEW s \in Seq(PCM), NEW m \in Nat, Len(s) = m * WebFrame
  PROVE  Coded(EncodeFrames(s)) /\ Len(EncodeFrames(s)) = m
<1> DEFINE frame(k) == SubSeq(s, (k - 1) * WebFrame + 1, k * WebFrame)
           pcm == [k \in 1 .. m |-> frame(k)]
           e == [k \in 1 .. m |-> SubSeq(pcm, 1, k)]
<1>0. WebFrame \in Nat \ {0}
  BY WebConstants
<1>1. Len(s) \div WebFrame = m
  BY <1>0
<1>2. EncodeFrames(s) = e
  BY <1>1 DEF EncodeFrames
<1>3. ASSUME NEW k \in 1 .. m
      PROVE  frame(k) \in Seq(PCM) /\ Len(frame(k)) = WebFrame
  <2> DEFINE a == (k - 1) * WebFrame
             b == k * WebFrame
  <2>1. k \in Nat /\ k - 1 \in Nat /\ k <= m
    OBVIOUS
  <2>2. a \in Nat
    BY <1>0, <2>1
  <2>3. b = a + WebFrame
    BY <1>0, <2>1
  <2>4. b <= m * WebFrame
    BY <1>0, <2>1, Multiples
  <2>5. frame(k) = SubSeq(s, a + 1, b)
    OBVIOUS
  <2> HIDE DEF a, b, frame
  <2>6. b \in Nat /\ a <= b /\ b <= Len(s) /\ b - a = WebFrame
    BY <1>0, <2>2, <2>3, <2>4
  <2>7. SubSeq(s, a + 1, b) \in Seq(PCM) /\ Len(SubSeq(s, a + 1, b)) = b - a
    BY <2>2, <2>6, PartIs
  <2>8. QED
    BY <2>5, <2>6, <2>7
<1> HIDE DEF frame
<1>4. pcm \in Seq(Seq(PCM)) /\ Len(pcm) = m /\ \A k \in 1 .. m : pcm[k] = frame(k)
  BY <1>3
<1> HIDE DEF pcm
<1>5. ASSUME NEW k \in 1 .. m
      PROVE  /\ SubSeq(pcm, 1, k) \in Seq(Seq(PCM)) /\ Len(SubSeq(pcm, 1, k)) = k
             /\ \A j \in 1 .. k : Len(SubSeq(pcm, 1, k)[j]) = WebFrame
  <2>1. /\ SubSeq(pcm, 1, k) \in Seq(Seq(PCM)) /\ Len(SubSeq(pcm, 1, k)) = k
        /\ \A j \in 1 .. k : SubSeq(pcm, 1, k)[j] = pcm[j]
    <3>1. k \in Nat /\ k <= Len(pcm)
      BY <1>4
    <3>2. QED
      BY <1>4, <3>1, FirstOf
  <2>2. \A j \in 1 .. k : j \in 1 .. m
    OBVIOUS
  <2>3. QED
    BY <1>3, <1>4, <2>1, <2>2
<1>6. e \in Seq(Seq(Seq(PCM))) /\ Len(e) = m /\ \A k \in 1 .. m : e[k] = SubSeq(pcm, 1, k)
  BY <1>5
<1> HIDE DEF e
<1>7. \A k \in 1 .. m : Len(e[k]) = k /\ \A j \in 1 .. k : Len(e[k][j]) = WebFrame
  <2>1. ASSUME NEW k \in 1 .. m
        PROVE  Len(e[k]) = k /\ \A j \in 1 .. k : Len(e[k][j]) = WebFrame
    <3>1. e[k] = SubSeq(pcm, 1, k)
      BY <1>6
    <3>2. QED
      BY <1>5, <3>1
  <2>2. QED
    BY <2>1
<1>8. Coded(e)
  BY <1>6, <1>7 DEF Coded
<1>9. QED
  BY <1>2, <1>6, <1>8

\* A frame is decoded to a frame.
LEMMA RenderedIs ==
  ASSUME NEW level \in [PCM -> Int], NEW heard, NEW e, Coded(e), NEW k \in 1 .. Len(e)
  PROVE  /\ Rendered(level, heard, e[k]) \in Seq(Int)
         /\ Len(Rendered(level, heard, e[k])) = WebFrame
<1>0. WebFrame \in Nat
  BY WebConstants
<1>1. Last(e[k]) = e[k][k] /\ e[k] \in Seq(Seq(PCM)) /\ Len(e[k]) = k /\ k \in Nat
  <2>1. e \in Seq(Seq(Seq(PCM))) /\ Len(e[k]) = k
    BY DEF Coded
  <2>2. e[k] \in Seq(Seq(PCM)) /\ k \in Nat
    BY <2>1
  <2>3. Last(e[k]) = e[k][k]
    BY <2>1 DEF Last
  <2>4. QED
    BY <2>1, <2>2, <2>3
<1>2. e[k][k] \in Seq(PCM) /\ Len(e[k][k]) = WebFrame
  <2>1. k \in 1 .. Len(e[k])
    BY <1>1
  <2>2. e[k][k] \in Seq(PCM)
    BY <1>1, <2>1
  <2>3. QED
    BY <1>1, <2>1, <2>2 DEF Coded
<1> DEFINE f == e[k][k]
           played == [i \in 1 .. WebFrame |-> level[f[i]]]
<1>3. \A i \in 1 .. WebFrame : level[f[i]] \in Int
  BY <1>2
<1> HIDE DEF f
<1>4. played \in Seq(Int) /\ Len(played) = WebFrame
  BY <1>0, <1>3
<1>5. Garbled \in Seq(Int) /\ Len(Garbled) = WebFrame
  BY <1>0 DEF Garbled
<1>6. Rendered(level, heard, e[k]) = played \/ Rendered(level, heard, e[k]) = Garbled
  BY <1>1 DEF Rendered, f
<1> HIDE DEF played
<1>7. QED
  BY <1>4, <1>5, <1>6

\* A payload plays its frames one after another, each by a decoder in step.
LEMMA DecodedIs ==
  ASSUME NEW level \in [PCM -> Int], NEW e, Coded(e)
  PROVE  /\ DecodePayload(level, e) \in Seq(Int)
         /\ Len(DecodePayload(level, e)) = Len(e) * WebFrame
         /\ \A k \in 1 .. Len(e) : \A j \in 1 .. WebFrame :
              DecodePayload(level, e)[(k - 1) * WebFrame + j]
                = Rendered(level, Heard(e, k), e[k])[j]
<1> DEFINE n == Len(e)
           block(k) == Rendered(level, Heard(e, k), e[k])
           s == [k \in 1 .. n |-> block(k)]
<1>0. WebFrame \in Nat /\ n \in Nat /\ DOMAIN e = 1 .. n
  BY WebConstants DEF Coded
<1>1. \A k \in 1 .. n : block(k) \in Seq(Int) /\ Len(block(k)) = WebFrame
  BY RenderedIs
<1>2. DecodePayload(level, e) = FlattenSeq(s)
  BY <1>0 DEF DecodePayload
<1> HIDE DEF block
<1>3. s \in Seq(Seq(Int)) /\ Len(s) = n /\ \A k \in 1 .. n : s[k] = block(k)
  BY <1>0, <1>1
<1> HIDE DEF s, n
<1>4. /\ FlattenSeq(s) \in Seq(Int)
      /\ Len(FlattenSeq(s)) = Len(s) * WebFrame
      /\ \A k \in 1 .. Len(s) : \A j \in 1 .. WebFrame :
           FlattenSeq(s)[(k - 1) * WebFrame + j] = s[k][j]
  <2>1. \A k \in 1 .. Len(s) : Len(s[k]) = WebFrame
    BY <1>1, <1>3
  <2>2. s \in Seq(Seq(Int)) /\ WebFrame \in Nat
    BY <1>0, <1>3
  <2>3. QED
    <3>1. FlattenSeq(s) \in Seq(Int) /\ Joins(FlattenSeq(s), s, WebFrame)
      BY <2>1, <2>2, FlattenIs
    <3>2. QED
      BY <3>1 DEF Joins
<1>5. QED
  BY <1>2, <1>3, <1>4 DEF block, n

\* The beginning of a payload is played as the beginning of what it is played as.
LEMMA DecodedBegins ==
  ASSUME NEW level \in [PCM -> Int], NEW e, Coded(e), NEW n \in 0 .. Len(e)
  PROVE  /\ Coded(SubSeq(e, 1, n)) /\ Len(SubSeq(e, 1, n)) = n
         /\ DecodePayload(level, SubSeq(e, 1, n))
              = SubSeq(DecodePayload(level, e), 1, WebFrame * n)
<1> DEFINE f == SubSeq(e, 1, n)
           p == DecodePayload(level, f)
           q == DecodePayload(level, e)
           t == WebFrame * n
           r == SubSeq(q, 1, t)
<1>0. WebFrame \in Nat \ {0} /\ n \in Nat /\ Len(e) \in Nat /\ n <= Len(e)
  BY WebConstants DEF Coded
<1>1. f \in Seq(Seq(Seq(PCM))) /\ Len(f) = n /\ \A k \in 1 .. n : f[k] = e[k]
  BY <1>0, FirstOf DEF Coded
<1> HIDE DEF f
<1>2. \A k \in 1 .. n : k \in 1 .. Len(e)
  BY <1>0
<1>3. Coded(f)
  <2>1. \A k \in 1 .. n : Len(e[k]) = k /\ \A j \in 1 .. k : Len(e[k][j]) = WebFrame
    BY <1>2 DEF Coded
  <2>2. \A k \in 1 .. n : Len(f[k]) = k /\ \A j \in 1 .. k : Len(f[k][j]) = WebFrame
    <3>1. ASSUME NEW k \in 1 .. n
          PROVE  Len(f[k]) = k /\ \A j \in 1 .. k : Len(f[k][j]) = WebFrame
      <4>1. f[k] = e[k]
        BY <1>1
      <4>2. Len(e[k]) = k /\ \A j \in 1 .. k : Len(e[k][j]) = WebFrame
        BY <2>1
      <4>3. QED
        BY <4>1, <4>2
    <3>2. QED
      BY <3>1
  <2>3. QED
    BY <1>1, <2>2 DEF Coded
<1>4. ASSUME NEW k \in 1 .. n PROVE Heard(f, k) = Heard(e, k)
  <2>1. \A i \in 1 .. k - 1 : Last(f[i]) = Last(e[i])
    <3>1. \A i \in 1 .. k - 1 : i \in 1 .. n
      BY <1>0
    <3>2. QED
      BY <1>1, <3>1
  <2>2. QED
    BY <2>1 DEF Heard
<1>5. /\ p \in Seq(Int) /\ Len(p) = n * WebFrame
      /\ \A k \in 1 .. n : \A j \in 1 .. WebFrame :
           p[(k - 1) * WebFrame + j] = Rendered(level, Heard(f, k), f[k])[j]
  <2>1. /\ p \in Seq(Int) /\ Len(p) = Len(f) * WebFrame
        /\ \A k \in 1 .. Len(f) : \A j \in 1 .. WebFrame :
             p[(k - 1) * WebFrame + j] = Rendered(level, Heard(f, k), f[k])[j]
    BY <1>3, DecodedIs
  <2> HIDE DEF p
  <2>2. QED
    BY <1>1, <2>1
<1>6. /\ q \in Seq(Int) /\ Len(q) = Len(e) * WebFrame
      /\ \A k \in 1 .. Len(e) : \A j \in 1 .. WebFrame :
           q[(k - 1) * WebFrame + j] = Rendered(level, Heard(e, k), e[k])[j]
  BY DecodedIs
<1>7. t \in Nat /\ t = n * WebFrame /\ t <= Len(e) * WebFrame
  <2>1. n * WebFrame \in Nat /\ n * WebFrame <= Len(e) * WebFrame
    BY <1>0, Multiples
  <2>2. WebFrame * n = n * WebFrame
    BY <1>0
  <2>3. QED
    BY <2>1, <2>2
<1> HIDE DEF p, q, t
<1>8. r \in Seq(Int) /\ Len(r) = t /\ \A i \in 1 .. t : r[i] = q[i]
  BY <1>6, <1>7, FirstOf
<1>9. ASSUME NEW i \in 1 .. t PROVE p[i] = r[i]
  <2> DEFINE k == ((i - 1) \div WebFrame) + 1
             j == ((i - 1) % WebFrame) + 1
  <2>1. (i - 1) \in Nat /\ i - 1 < n * WebFrame
    BY <1>7
  <2>2. /\ (i - 1) \div WebFrame \in Nat /\ (i - 1) % WebFrame \in 0 .. WebFrame - 1
        /\ i - 1 = ((i - 1) \div WebFrame) * WebFrame + ((i - 1) % WebFrame)
    BY <1>0, <2>1
  <2>3. k \in Nat /\ k >= 1 /\ j \in 1 .. WebFrame /\ i = (k - 1) * WebFrame + j
    BY <1>0, <2>1, <2>2
  <2> HIDE DEF k, j
  <2>4. k <= n
    <3>1. SUFFICES ASSUME n <= k - 1 PROVE FALSE
      BY <1>0, <2>3
    <3>2. k - 1 \in Nat
      BY <2>3
    <3>3. n * WebFrame <= (k - 1) * WebFrame
      BY <1>0, <3>1, <3>2, Multiples
    <3>4. i > (k - 1) * WebFrame
      <4>1. (k - 1) * WebFrame \in Nat
        BY <1>0, <3>2, Multiples
      <4>2. QED
        BY <2>3, <4>1
    <3>5. QED
      <4>1. (k - 1) * WebFrame \in Nat /\ n * WebFrame \in Nat
        BY <1>0, <3>2, Multiples
      <4>2. QED
        BY <1>7, <3>3, <3>4, <4>1
  <2>5. k \in 1 .. n
    BY <1>0, <2>3, <2>4
  <2>6. p[i] = Rendered(level, Heard(f, k), f[k])[j]
    BY <1>5, <2>3, <2>5
  <2>7. q[i] = Rendered(level, Heard(e, k), e[k])[j]
    BY <1>2, <1>6, <2>3, <2>5
  <2>8. QED
    BY <1>1, <1>4, <1>8, <2>5, <2>6, <2>7
<1> HIDE DEF r
<1>10. p = r
  BY <1>5, <1>7, <1>8, <1>9, SameSeq
<1>11. QED
  BY <1>1, <1>3, <1>10 DEF f, p, q, r, t

-----------------------------------------------------------------------------
(* RtpWeb: what is sent, kept and answered.                                *)

Answers(ptime, decode, reference) ==
  [page |-> CheckPayload(file, ptime, decode, reference),
   command |-> AnalyzePayloadStream(file, ptime, decode),
   ptime |-> ptime, decode |-> decode, reference |-> reference]

WebInv ==
  /\ recording = <<>> => trip = NoTrip /\ file = NoFile /\ checked = <<>>
  /\ recording # <<>> =>
       \E samples \in Recordings, odd \in BOOLEAN, ptime \in Ptimes :
         /\ recording = <<[samples |-> samples, ptime |-> ptime]>>
         /\ \E reference : trip = RunRoundtrip(samples, odd, ptime, reference)
  /\ \E n \in 0 .. Len(trip.encoded), extra \in 0 .. 9 :
       /\ file = [frames |-> SubSeq(trip.encoded, 1, n), extra |-> extra]
       /\ n = Len(trip.encoded) => extra = 0
  /\ checked # <<>> =>
       \E ptime \in Ptimes, decode \in BOOLEAN,
          reference \in References(DecodePayload(StrictLevel, file.frames)) :
         checked = <<Answers(ptime, decode, reference)>>

\* What the answer to a round trip holds, if it is one.
LEMMA TripIs ==
  ASSUME NEW samples \in Recordings, NEW odd, NEW ptime, NEW reference,
         RunRoundtrip(samples, odd, ptime, reference) # NoTrip
  PROVE  LET t == RunRoundtrip(samples, odd, ptime, reference)
         IN  /\ FramesForPTime(ptime) # 0 /\ Len(samples) # 0
             /\ t.encoded = EncodeFrames(PaddedPCM(samples))
             /\ t.packets = PacketsOf(Len(t.encoded), FramesForPTime(ptime))
             /\ t.strict = DecodePayload(StrictLevel, t.encoded)
             /\ t.enhanced = DecodePayload(EnhancedLevel, t.encoded)
             /\ t.ok => ~IsZero(SubSeq(t.strict, 1, Len(samples)))
<1> DEFINE bits == EncodeFrames(PaddedPCM(samples))
           strict == DecodePayload(StrictLevel, bits)
           enhanced == DecodePayload(EnhancedLevel, bits)
           heard == SubSeq(strict, 1, Len(samples))
<1>1. PICK loud, faint, body, shift :
        RunRoundtrip(samples, odd, ptime, reference) =
          IF FramesForPTime(ptime) = 0 \/ Len(samples) = 0 \/ odd THEN NoTrip
          ELSE [ok |-> AllOK(<<loud, ~IsZero(heard), faint>>),
                body |-> body,
                packets |-> PacketsOf(Len(bits), FramesForPTime(ptime)),
                encoded |-> bits, strict |-> strict, enhanced |-> enhanced,
                shift |-> shift]
  BY Zenon DEF RunRoundtrip
<1>2. AllOK(<<loud, ~IsZero(heard), faint>>) => ~IsZero(heard)
  <2> DEFINE checks == <<loud, ~IsZero(heard), faint>>
  <2>1. 2 \in DOMAIN checks /\ checks[2] = ~IsZero(heard)
    OBVIOUS
  <2> HIDE DEF checks
  <2>2. AllOK(checks) => ~IsZero(heard)
    BY <2>1 DEF AllOK
  <2>3. QED
    BY <2>2 DEF checks
<1> DEFINE t == RunRoundtrip(samples, odd, ptime, reference)
<1> HIDE DEF bits, strict, enhanced, heard, t
<1>3. /\ FramesForPTime(ptime) # 0 /\ Len(samples) # 0
      /\ t = [ok |-> AllOK(<<loud, ~IsZero(heard), faint>>),
              body |-> body,
              packets |-> PacketsOf(Len(bits), FramesForPTime(ptime)),
              encoded |-> bits, strict |-> strict, enhanced |-> enhanced,
              shift |-> shift]
  BY <1>1 DEF t
<1>4. /\ t.encoded = bits /\ t.strict = strict /\ t.enhanced = enhanced
      /\ t.packets = PacketsOf(Len(bits), FramesForPTime(ptime))
      /\ t.ok => ~IsZero(heard)
  BY <1>2, <1>3
<1>5. QED
  BY <1>3, <1>4 DEF bits, strict, enhanced, heard, t

\* A round trip hands out a code.
LEMMA TripCoded ==
  ASSUME NEW samples \in Recordings, NEW odd, NEW ptime, NEW reference
  PROVE  Coded(RunRoundtrip(samples, odd, ptime, reference).encoded)
<1>1. CASE RunRoundtrip(samples, odd, ptime, reference) = NoTrip
  <2>1. RunRoundtrip(samples, odd, ptime, reference).encoded = <<>>
    BY <1>1 DEF NoTrip
  <2>2. Coded(<<>>)
    BY DEF Coded
  <2>3. QED
    BY <2>1, <2>2
<1>2. CASE RunRoundtrip(samples, odd, ptime, reference) # NoTrip
  <2>1. samples \in Seq(PCM)
    BY WebConstants
  <2>2. Coded(EncodeFrames(PaddedPCM(samples)))
    BY <2>1, PaddedWeb, EncodedIs
  <2>3. QED
    BY <1>2, <2>2, TripIs
<1>3. QED
  BY <1>1, <1>2

\* Nothing was sent or checked yet.
LEMMA WebStarts ==
  ASSUME WebInit
  PROVE  WebInv
<1>1. NoTrip.encoded = <<>> /\ Len(<<>>) = 0
  BY DEF NoTrip
<1>2. SubSeq(<<>>, 1, 0) = <<>>
  OBVIOUS
<1>3. file = [frames |-> SubSeq(trip.encoded, 1, 0), extra |-> 0]
  BY <1>1, <1>2 DEF WebInit, NoFile
<1>4. 0 \in 0 .. Len(trip.encoded) /\ 0 \in 0 .. 9
  BY <1>1 DEF WebInit
<1>5. \E n \in 0 .. Len(trip.encoded), extra \in 0 .. 9 :
        /\ file = [frames |-> SubSeq(trip.encoded, 1, n), extra |-> extra]
        /\ n = Len(trip.encoded) => extra = 0
  BY <1>3, <1>4, Zenon
<1>6. QED
  BY <1>5 DEF WebInit, WebInv

\* Requests, cuts of the file and checks keep the invariant.
LEMMA WebSteps ==
  ASSUME WebInv, WebNext
  PROVE  WebInv'
<1>1. CASE \E samples \in Recordings, odd \in BOOLEAN, ptime \in Ptimes :
             \E reference : AskRoundtrip(samples, odd, ptime, reference)
  <2>1. PICK samples \in Recordings, odd \in BOOLEAN, ptime \in Ptimes :
               \E reference : AskRoundtrip(samples, odd, ptime, reference)
    BY <1>1
  <2> PICK reference : AskRoundtrip(samples, odd, ptime, reference)
    BY <2>1
  <2> DEFINE t == RunRoundtrip(samples, odd, ptime, reference)
  <2>2. /\ recording = <<>> /\ checked' = checked /\ trip' = t
        /\ recording' = <<[samples |-> samples, ptime |-> ptime]>>
        /\ file' = [frames |-> IF t.body THEN t.encoded ELSE <<>>, extra |-> 0]
    BY DEF AskRoundtrip
  <2>3. recording' # <<>> /\ checked' = <<>>
    BY <2>2 DEF WebInv
  <2>4. Coded(t.encoded)
    BY TripCoded
  <2> DEFINE e == t.encoded
             n == IF t.body THEN Len(e) ELSE 0
  <2>5. Len(e) \in Nat /\ SubSeq(e, 1, Len(e)) = e /\ SubSeq(e, 1, 0) = <<>>
    <3>1. e \in Seq(Seq(Seq(PCM)))
      BY <2>4 DEF Coded
    <3> HIDE DEF e
    <3>2. QED
      BY <3>1
  <2>6. trip'.encoded = e
    BY <2>2
  <2>7. file' = [frames |-> SubSeq(e, 1, n), extra |-> 0]
    BY <2>2, <2>5
  <2>8. n \in 0 .. Len(e)
    BY <2>5
  <2> HIDE DEF t, n, e
  <2>9. \E k \in 0 .. Len(trip'.encoded), extra \in 0 .. 9 :
          /\ file' = [frames |-> SubSeq(trip'.encoded, 1, k), extra |-> extra]
          /\ k = Len(trip'.encoded) => extra = 0
    <3>1. 0 \in 0 .. 9
      OBVIOUS
    <3>2. QED
      BY <2>6, <2>7, <2>8, <3>1, Zenon
  <2>10. \E given : trip' = RunRoundtrip(samples, odd, ptime, given)
    BY <2>2 DEF t
  <2>11. QED
    BY <2>2, <2>3, <2>9, <2>10 DEF WebInv
<1>2. CASE \E m \in 0 .. Len(file.frames), extra \in FileTails : CutFile(m, extra)
  <2>1. PICK m \in 0 .. Len(file.frames), extra \in FileTails : CutFile(m, extra)
    BY <1>2
  <2>2. /\ checked = <<>> /\ m < Len(file.frames)
        /\ file' = [frames |-> SubSeq(file.frames, 1, m), extra |-> extra]
        /\ recording' = recording /\ trip' = trip /\ checked' = checked
    BY <2>1 DEF CutFile
  <2>3. PICK n \in 0 .. Len(trip.encoded), left \in 0 .. 9 :
               file = [frames |-> SubSeq(trip.encoded, 1, n), extra |-> left]
    BY DEF WebInv
  <2> DEFINE e == trip.encoded
  <2>4. Coded(e)
    <3>1. CASE recording = <<>>
      <4>1. e = <<>>
        BY <3>1 DEF WebInv, NoTrip
      <4>2. QED
        BY <4>1 DEF Coded
    <3>2. CASE recording # <<>>
      BY <3>2, TripCoded DEF WebInv
    <3>3. QED
      BY <3>1, <3>2
  <2>5. /\ e \in Seq(Seq(Seq(PCM))) /\ Len(e) \in Nat /\ file.frames = SubSeq(e, 1, n)
        /\ n \in Nat /\ n <= Len(e)
    BY <2>3, <2>4 DEF Coded
  <2> HIDE DEF e
  <2>6. Len(SubSeq(e, 1, n)) = n /\ SubSeq(e, 1, n) \in Seq(Seq(Seq(PCM)))
        /\ \A j \in 1 .. n : SubSeq(e, 1, n)[j] = e[j]
    BY <2>5, FirstOf
  <2>7. m \in Nat /\ m < n
    BY <2>2, <2>5, <2>6
  <2>8. SubSeq(SubSeq(e, 1, n), 1, m) = SubSeq(e, 1, m)
    <3> DEFINE a == SubSeq(e, 1, n)
    <3>1. a \in Seq(Seq(Seq(PCM))) /\ Len(a) = n /\ \A j \in 1 .. n : a[j] = e[j]
      BY <2>6
    <3> HIDE DEF a
    <3>2. /\ SubSeq(a, 1, m) \in Seq(Seq(Seq(PCM))) /\ Len(SubSeq(a, 1, m)) = m
          /\ \A j \in 1 .. m : SubSeq(a, 1, m)[j] = a[j]
      BY <2>7, <3>1, FirstOf
    <3>3. /\ SubSeq(e, 1, m) \in Seq(Seq(Seq(PCM))) /\ Len(SubSeq(e, 1, m)) = m
          /\ \A j \in 1 .. m : SubSeq(e, 1, m)[j] = e[j]
      <4>1. m <= Len(e)
        BY <2>5, <2>7
      <4>2. QED
        BY <2>5, <2>7, <4>1, FirstOf
    <3>4. \A j \in 1 .. m : j \in 1 .. n
      BY <2>7
    <3>5. SubSeq(a, 1, m) = SubSeq(e, 1, m)
      BY <3>1, <3>2, <3>3, <3>4, SameSeq
    <3>6. QED
      BY <3>5 DEF a
  <2>9. file' = [frames |-> SubSeq(e, 1, m), extra |-> extra] /\ extra \in 0 .. 9
    BY <2>2, <2>5, <2>8, WebConstants
  <2>10. m \in 0 .. Len(e) /\ m # Len(e)
    BY <2>5, <2>7
  <2>11. \E k \in 0 .. Len(trip'.encoded), x \in 0 .. 9 :
           /\ file' = [frames |-> SubSeq(trip'.encoded, 1, k), extra |-> x]
           /\ k = Len(trip'.encoded) => x = 0
    <3>1. trip'.encoded = e
      BY <2>2 DEF e
    <3>2. QED
      BY <2>9, <2>10, <3>1
  <2>12. recording # <<>>
    <3>1. SUFFICES ASSUME recording = <<>> PROVE FALSE
      OBVIOUS
    <3>2. file.frames = <<>>
      BY <3>1 DEF WebInv, NoFile
    <3>3. QED
      BY <2>2, <3>2
  <2>13. QED
    BY <2>2, <2>11, <2>12 DEF WebInv
<1>3. CASE \E ptime \in Ptimes, decode \in BOOLEAN : CheckFile(ptime, decode)
  <2>1. PICK ptime \in Ptimes, decode \in BOOLEAN : CheckFile(ptime, decode)
    BY <1>3
  <2>2. /\ recording # <<>> /\ recording' = recording /\ file' = file /\ trip' = trip
        /\ \E reference \in References(DecodePayload(StrictLevel, file.frames)) :
             checked' = <<Answers(ptime, decode, reference)>>
    BY <2>1 DEF CheckFile, Answers
  <2>3. \A reference : Answers(ptime, decode, reference)' = Answers(ptime, decode, reference)
    BY <2>2 DEF Answers
  <2>4. QED
    BY <2>2, <2>3 DEF WebInv
<1>4. QED
  BY <1>1, <1>2, <1>3 DEF WebNext

\* The file is a beginning of what the round trip coded, and the answers are
\* about it.
THEOREM WebInvHolds == WebSpec => []WebInv
<1>1. WebInv /\ UNCHANGED webVars => WebInv'
  BY DEF WebInv, webVars, Answers
<1>2. WebInv /\ [WebNext]_webVars => WebInv'
  BY <1>1, WebSteps
<1>3. QED
  BY <1>2, WebStarts, PTL DEF WebSpec

\* The file: the beginning of a payload, and less than a frame behind it.
LEMMA FileIs ==
  ASSUME WebInv
  PROVE  /\ Coded(trip.encoded)
         /\ file.extra \in 0 .. 9 /\ Len(file.frames) \in 0 .. Len(trip.encoded)
         /\ file.frames = SubSeq(trip.encoded, 1, Len(file.frames))
         /\ file.frames = trip.encoded => file.extra = 0
<1> DEFINE e == trip.encoded
<1>1. Coded(e)
  <2>1. CASE recording = <<>>
    <3>1. e = <<>>
      BY <2>1 DEF WebInv, NoTrip
    <3>2. QED
      BY <3>1 DEF Coded
  <2>2. CASE recording # <<>>
    BY <2>2, TripCoded DEF WebInv
  <2>3. QED
    BY <2>1, <2>2
<1>2. PICK n \in 0 .. Len(e), extra \in 0 .. 9 :
        /\ file = [frames |-> SubSeq(e, 1, n), extra |-> extra]
        /\ n = Len(e) => extra = 0
  BY DEF WebInv
<1> HIDE DEF e
<1>3. e \in Seq(Seq(Seq(PCM))) /\ Len(e) \in Nat /\ n \in Nat /\ n <= Len(e)
  BY <1>1, <1>2 DEF Coded
<1>4. Len(SubSeq(e, 1, n)) = n
  BY <1>3, FirstOf
<1>5. file.frames = SubSeq(e, 1, n) /\ file.extra = extra
  BY <1>2
<1>6. Len(file.frames) = n
  BY <1>4, <1>5
<1>7. QED
  BY <1>1, <1>2, <1>5, <1>6 DEF e

\* A file is whole frames exactly if nothing is behind them.
LEMMA BytesAre ==
  ASSUME NEW n \in Nat, NEW extra \in 0 .. 9
  PROVE  /\ (10 * n + extra) % 10 = extra
         /\ 10 * n + extra = 0 <=> (n = 0 /\ extra = 0)
  OBVIOUS

\* Bytes, frames and packets of 10 and 20 ms.
LEMMA HalvesAre ==
  ASSUME NEW n \in Nat
  PROVE  /\ (10 * n) \div 10 = n /\ n \div 1 = n /\ n % 1 = 0
         /\ (10 * n) % 20 = 0 <=> n % 2 = 0
         /\ n % 2 = 0 => (10 * n) \div 20 = n \div 2
         /\ n % 2 \in {0, 1}
  OBVIOUS

\* What the page and the command say of a file.
IsPage(page, f, ptime, decode) ==
  LET per == FramesForPTime(ptime)
      strict == IF decode THEN DecodePayload(StrictLevel, f.frames) ELSE <<>>
      enhanced == IF decode THEN DecodePayload(EnhancedLevel, f.frames) ELSE <<>>
      fails == per = 0 \/ FileBytes(f) = 0 \/ ~FrameSize(FileBytes(f))
  IN  /\ fails => page = Failure
      /\ ~fails => /\ page.ok <=> (~decode \/ ~IsZero(strict))
                   /\ page.packets = PacketsOf(Len(f.frames), per)
                   /\ page.frames = Len(f.frames)
                   /\ page.strict = Preview(strict)
                   /\ page.enhanced = Preview(enhanced)

\* The answer of the page, without the comparison with the other decoder.
LEMMA PageIs ==
  ASSUME NEW ptime, NEW decode \in BOOLEAN, NEW reference, NEW f
  PROVE  IsPage(CheckPayload(f, ptime, decode, reference), f, ptime, decode)
<1> DEFINE per == FramesForPTime(ptime)
           page == CheckPayload(f, ptime, decode, reference)
           strict == IF decode THEN DecodePayload(StrictLevel, f.frames) ELSE <<>>
           enhanced == IF decode THEN DecodePayload(EnhancedLevel, f.frames) ELSE <<>>
           fails == per = 0 \/ FileBytes(f) = 0 \/ ~FrameSize(FileBytes(f))
<1>1. /\ PageDecode(StrictLevel, f.frames) = DecodePayload(StrictLevel, f.frames)
      /\ PageDecode(EnhancedLevel, f.frames) = DecodePayload(EnhancedLevel, f.frames)
  BY DEF PageDecode, PageHeard, DecodePayload
<1>2. PICK r :
        page = IF fails THEN Failure
               ELSE [ok |-> AllOK(<<~decode \/ ~IsZero(strict)>>),
                     packets |-> PacketsOf(Len(f.frames), per),
                     frames |-> Len(f.frames), strict |-> Preview(strict),
                     enhanced |-> Preview(enhanced), reference |-> r]
  BY <1>1, Zenon DEF CheckPayload
<1>3. AllOK(<<~decode \/ ~IsZero(strict)>>) = (~decode \/ ~IsZero(strict))
  <2> DEFINE b == ~decode \/ ~IsZero(strict)
  <2>1. DOMAIN <<b>> = {1} /\ <<b>>[1] = b
    OBVIOUS
  <2> HIDE DEF b
  <2>2. AllOK(<<b>>) <=> b
    BY <2>1 DEF AllOK
  <2>3. AllOK(<<b>>) \in BOOLEAN /\ b \in BOOLEAN
    BY DEF AllOK, b
  <2>4. QED
    BY <2>2, <2>3 DEF b
<1> HIDE DEF per, page, strict, enhanced, fails
<1>4. ~fails => /\ page.ok <=> (~decode \/ ~IsZero(strict))
                /\ page.packets = PacketsOf(Len(f.frames), per)
                /\ page.frames = Len(f.frames)
                /\ page.strict = Preview(strict)
                /\ page.enhanced = Preview(enhanced)
  BY <1>2, <1>3
<1>5. fails => page = Failure
  BY <1>2
<1>6. IsPage(page, f, ptime, decode)
  BY <1>4, <1>5 DEF IsPage, per, strict, enhanced, fails
<1>7. QED
  BY <1>6 DEF page

\* What ToolsAgree says of two answers.
Agree(page, command, ptime, decode) ==
  /\ page.ok /\ command.ok =>
       /\ page.packets = command.packets /\ page.frames = command.frames
       /\ page.strict = Preview(command.decoded)
  /\ page.ok /\ ~command.ok =>
       ptime = 20 /\ file.extra = 0 /\ Len(file.frames) % 2 = 1
  /\ command.ok /\ ~page.ok =>
       FileBytes(file) = 0 \/ (decode /\ IsZero(command.decoded))

\* Page and command on one file.
LEMMA AgreementIs ==
  ASSUME WebInv, NEW ptime \in Ptimes, NEW decode \in BOOLEAN, NEW reference
  PROVE  Agree(CheckPayload(file, ptime, decode, reference),
               AnalyzePayloadStream(file, ptime, decode), ptime, decode)
<1> DEFINE page == CheckPayload(file, ptime, decode, reference)
           command == AnalyzePayloadStream(file, ptime, decode)
           per == FramesForPTime(ptime)
           n == Len(file.frames)
           bytes == FileBytes(file)
           strict == IF decode THEN DecodePayload(StrictLevel, file.frames) ELSE <<>>
           fails == per = 0 \/ bytes = 0 \/ ~FrameSize(bytes)
           refused == 10 * per = 0 \/ bytes = 2 \/ bytes % (10 * per) # 0
<1>1. per \in {0, 1, 2} /\ (per = 2 => ptime = 20)
  BY DEF FramesForPTime
<1>2. n \in Nat /\ file.extra \in 0 .. 9 /\ bytes = 10 * n + file.extra
  <2>1. Coded(trip.encoded) /\ file.extra \in 0 .. 9 /\ n \in 0 .. Len(trip.encoded)
    BY FileIs
  <2>2. QED
    BY <2>1 DEF FileBytes
<1>3. /\ fails => page = Failure
      /\ ~fails => /\ page.ok <=> (~decode \/ ~IsZero(strict))
                   /\ page.packets = PacketsOf(n, per)
                   /\ page.frames = n
                   /\ page.strict = Preview(strict)
  <2>1. IsPage(page, file, ptime, decode)
    BY PageIs
  <2> HIDE DEF page
  <2>2. QED
    BY <2>1 DEF IsPage
<1>4. command = IF refused
                THEN [ok |-> FALSE, packets |-> 0, frames |-> 0, decoded |-> <<>>]
                ELSE [ok |-> TRUE, packets |-> bytes \div (10 * per),
                      frames |-> bytes \div 10, decoded |-> strict]
  BY DEF AnalyzePayloadStream
<1> HIDE DEF page, command, per, n, strict, bytes
<1>5. /\ command.ok <=> ~refused
      /\ command.ok => /\ command.packets = bytes \div (10 * per)
                       /\ command.frames = bytes \div 10
                       /\ command.decoded = strict
  BY <1>4
<1>6. FrameSize(bytes) <=> file.extra = 0
  BY <1>2, BytesAre DEF FrameSize
<1>7. page.ok => ~fails
  BY <1>3 DEF Failure
<1> SUFFICES Agree(page, command, ptime, decode)
  BY DEF page, command
<1>8. CASE page.ok /\ command.ok
  <2>1. ~fails /\ ~refused /\ file.extra = 0 /\ bytes = 10 * n
    <3>1. file.extra = 0
      BY <1>6, <1>7, <1>8
    <3>2. QED
      BY <1>2, <1>5, <1>7, <1>8, <3>1
  <2>2. bytes \div 10 = n
    BY <1>2, <2>1, HalvesAre
  <2>3. PacketsOf(n, per) = bytes \div (10 * per)
    <3>1. CASE per = 1
      BY <1>2, <2>1, <3>1, HalvesAre DEF PacketsOf
    <3>2. CASE per = 2
      <4>1. (10 * n) % 20 = 0
        BY <2>1, <3>2
      <4>2. n % 2 = 0 /\ (10 * n) \div 20 = n \div 2
        BY <1>2, <4>1, HalvesAre
      <4>3. QED
        BY <1>2, <2>1, <3>2, <4>2 DEF PacketsOf
    <3>3. QED
      BY <1>1, <2>1, <3>1, <3>2
  <2>4. QED
    BY <1>3, <1>5, <1>8, <2>1, <2>2, <2>3 DEF Agree
<1>9. CASE page.ok /\ ~command.ok
  <2>1. ~fails /\ refused /\ file.extra = 0 /\ bytes = 10 * n
    <3>1. file.extra = 0
      BY <1>6, <1>7, <1>9
    <3>2. QED
      BY <1>2, <1>5, <1>7, <1>9, <3>1
  <2>2. bytes # 2
    BY <1>2, <2>1
  <2>3. bytes % (10 * per) # 0
    BY <1>1, <2>1, <2>2
  <2>4. per = 2 /\ n % 2 = 1
    <3>1. per # 1
      <4>1. SUFFICES ASSUME per = 1 PROVE FALSE
        OBVIOUS
      <4>2. (10 * n) % 10 # 0
        BY <2>1, <2>3, <4>1
      <4>3. QED
        BY <1>2, <4>2
    <3>2. per = 2
      BY <1>1, <2>1, <3>1
    <3>3. (10 * n) % 20 # 0
      BY <2>1, <2>3, <3>2
    <3>4. QED
      BY <1>2, <3>2, <3>3, HalvesAre
  <2>5. QED
    BY <1>1, <1>9, <2>1, <2>4 DEF Agree, n
<1>10. CASE command.ok /\ ~page.ok
  <2>1. ~refused
    BY <1>5, <1>10
  <2>2. CASE fails
    <3>1. per # 0
      BY <1>1, <2>1
    <3>2. bytes % 10 = 0
      <4>1. CASE per = 1
        BY <2>1, <4>1
      <4>2. CASE per = 2
        <5>1. bytes \in Nat
          BY <1>2
        <5>2. 10 * per = 20
          BY <4>2
        <5>3. bytes % (10 * per) = 0
          BY <2>1
        <5>4. bytes % 20 = 0
          BY <5>2, <5>3, Zenon
        <5>5. QED
          BY <5>1, <5>4
      <4>3. QED
        BY <1>1, <3>1, <4>1, <4>2
    <3>3. bytes = 0
      BY <2>2, <3>1, <3>2 DEF FrameSize
    <3>4. QED
      BY <1>10, <3>3 DEF Agree, bytes
  <2>3. CASE ~fails
    <3>1. decode /\ IsZero(strict)
      BY <1>3, <1>10, <2>3
    <3>2. QED
      BY <1>5, <1>10, <3>1 DEF Agree
  <2>4. QED
    BY <2>2, <2>3
<1>11. CASE ~page.ok /\ ~command.ok
  BY <1>11 DEF Agree
<1>12. QED
  BY <1>8, <1>9, <1>10, <1>11

\* What WebInv says of the check, if there was one.
LEMMA CheckIs ==
  ASSUME WebInv, NEW i \in DOMAIN checked
  PROVE  /\ recording # <<>>
         /\ \E ptime \in Ptimes, decode \in BOOLEAN,
               reference \in References(DecodePayload(StrictLevel, file.frames)) :
              checked[i] = Answers(ptime, decode, reference)
<1>1. checked # <<>>
  OBVIOUS
<1>2. recording # <<>>
  BY <1>1 DEF WebInv
<1>3. PICK ptime \in Ptimes, decode \in BOOLEAN,
           reference \in References(DecodePayload(StrictLevel, file.frames)) :
             checked = <<Answers(ptime, decode, reference)>>
  BY <1>1 DEF WebInv
<1>4. checked[i] = Answers(ptime, decode, reference)
  BY <1>3
<1>5. QED
  BY <1>2, <1>4

\* Page and command agree on every file, but for the three the property names,
\* whatever the frames, the cuts and the levels of the two decoders.
THEOREM OneVerdict == WebSpec => []ToolsAgree
<1>1. ASSUME WebInv PROVE ToolsAgree
  <2>1. ASSUME NEW i \in DOMAIN checked
        PROVE  Agree(checked[i].page, checked[i].command, checked[i].ptime,
                     checked[i].decode)
    <3>1. PICK ptime \in Ptimes, decode \in BOOLEAN,
               reference \in References(DecodePayload(StrictLevel, file.frames)) :
                 checked[i] = Answers(ptime, decode, reference)
      BY <1>1, CheckIs
    <3>2. /\ checked[i].page = CheckPayload(file, ptime, decode, reference)
          /\ checked[i].command = AnalyzePayloadStream(file, ptime, decode)
          /\ checked[i].ptime = ptime /\ checked[i].decode = decode
      BY <3>1 DEF Answers
    <3>3. QED
      BY <1>1, <3>2, AgreementIs
  <2>2. QED
    BY <2>1 DEF Agree, ToolsAgree
<1>2. QED
  BY <1>1, WebInvHolds, PTL

\* The round trip the page answered, if it did not refuse it.
LEMMA TripKept ==
  ASSUME WebInv, recording # <<>>
  PROVE  \E samples \in Seq(PCM) :
           \/ /\ trip = NoTrip
           \/ /\ FramesForPTime(recording[1].ptime) # 0
              /\ Len(samples) # 0
              /\ trip.encoded = EncodeFrames(PaddedPCM(samples))
              /\ trip.packets = PacketsOf(Len(trip.encoded),
                                          FramesForPTime(recording[1].ptime))
              /\ trip.strict = DecodePayload(StrictLevel, trip.encoded)
              /\ trip.enhanced = DecodePayload(EnhancedLevel, trip.encoded)
              /\ trip.ok => ~IsZero(SubSeq(trip.strict, 1, Len(samples)))
<1>1. PICK samples \in Recordings, odd \in BOOLEAN, ptime \in Ptimes :
        /\ recording = <<[samples |-> samples, ptime |-> ptime]>>
        /\ \E reference : trip = RunRoundtrip(samples, odd, ptime, reference)
  BY DEF WebInv
<1>2. samples \in Seq(PCM) /\ recording[1].ptime = ptime
  BY <1>1, WebConstants
<1>3. CASE trip = NoTrip
  BY <1>2, <1>3
<1>4. CASE trip # NoTrip
  <2> PICK reference : trip = RunRoundtrip(samples, odd, ptime, reference)
    BY <1>1
  <2>1. RunRoundtrip(samples, odd, ptime, reference) # NoTrip
    BY <1>4
  <2> DEFINE t == RunRoundtrip(samples, odd, ptime, reference)
  <2>2. /\ FramesForPTime(ptime) # 0 /\ Len(samples) # 0
        /\ t.encoded = EncodeFrames(PaddedPCM(samples))
        /\ t.packets = PacketsOf(Len(t.encoded), FramesForPTime(ptime))
        /\ t.strict = DecodePayload(StrictLevel, t.encoded)
        /\ t.enhanced = DecodePayload(EnhancedLevel, t.encoded)
        /\ t.ok => ~IsZero(SubSeq(t.strict, 1, Len(samples)))
    BY <2>1, TripIs
  <2>3. trip = t
    OBVIOUS
  <2> HIDE DEF t
  <2>4. QED
    BY <1>2, <2>2, <2>3
<1>5. QED
  BY <1>3, <1>4

\* The page decodes what the round trip decoded, as far as the file goes.
LEMMA PlaysIs ==
  ASSUME WebInv, recording # <<>>, NEW ptime, NEW reference,
         NEW decode \in BOOLEAN, decode,
         CheckPayload(file, ptime, decode, reference).frames > 0
  PROVE  LET page == CheckPayload(file, ptime, decode, reference)
             samples == WebFrame * Len(file.frames)
         IN  /\ page.strict = Preview(SubSeq(trip.strict, 1, samples))
             /\ page.enhanced = Preview(SubSeq(trip.enhanced, 1, samples))
<1> DEFINE page == CheckPayload(file, ptime, decode, reference)
           n == Len(file.frames)
           e == trip.encoded
           per == FramesForPTime(ptime)
           fails == per = 0 \/ FileBytes(file) = 0 \/ ~FrameSize(FileBytes(file))
<1>1. /\ fails => page = Failure
      /\ ~fails => /\ page.frames = n
                   /\ page.strict = Preview(DecodePayload(StrictLevel, file.frames))
                   /\ page.enhanced = Preview(DecodePayload(EnhancedLevel, file.frames))
  <2> DEFINE strict == IF decode THEN DecodePayload(StrictLevel, file.frames) ELSE <<>>
             enhanced == IF decode THEN DecodePayload(EnhancedLevel, file.frames) ELSE <<>>
  <2>1. /\ fails => page = Failure
        /\ ~fails => /\ page.frames = n
                     /\ page.strict = Preview(strict)
                     /\ page.enhanced = Preview(enhanced)
    <3>1. IsPage(page, file, ptime, decode)
      BY PageIs
    <3> HIDE DEF page
    <3>2. QED
      BY <3>1 DEF IsPage
  <2>2. /\ strict = DecodePayload(StrictLevel, file.frames)
        /\ enhanced = DecodePayload(EnhancedLevel, file.frames)
    OBVIOUS
  <2> HIDE DEF page, fails, n, strict, enhanced
  <2>3. QED
    BY <2>1, <2>2
<1>2. page.frames > 0
  OBVIOUS
<1> HIDE DEF page, fails, e, n
<1>3. ~fails
  BY <1>1, <1>2 DEF Failure
<1>4. Coded(e) /\ n \in 0 .. Len(e) /\ file.frames = SubSeq(e, 1, n)
  BY FileIs DEF e, n
<1>5. n > 0
  BY <1>1, <1>2, <1>3
<1>6. trip # NoTrip
  <2>1. SUFFICES ASSUME trip = NoTrip PROVE FALSE
    OBVIOUS
  <2>2. e = <<>>
    BY <2>1 DEF e, NoTrip
  <2>3. QED
    BY <1>4, <1>5, <2>2
<1>7. /\ trip.strict = DecodePayload(StrictLevel, e)
      /\ trip.enhanced = DecodePayload(EnhancedLevel, e)
  BY <1>6, TripKept DEF e
<1>8. /\ DecodePayload(StrictLevel, SubSeq(e, 1, n))
           = SubSeq(DecodePayload(StrictLevel, e), 1, WebFrame * n)
      /\ DecodePayload(EnhancedLevel, SubSeq(e, 1, n))
           = SubSeq(DecodePayload(EnhancedLevel, e), 1, WebFrame * n)
  <2>1. StrictLevel \in [PCM -> Int] /\ EnhancedLevel \in [PCM -> Int]
    BY WebConstants
  <2>2. DecodePayload(StrictLevel, SubSeq(e, 1, n))
           = SubSeq(DecodePayload(StrictLevel, e), 1, WebFrame * n)
    BY <1>4, <2>1, DecodedBegins
  <2>3. DecodePayload(EnhancedLevel, SubSeq(e, 1, n))
           = SubSeq(DecodePayload(EnhancedLevel, e), 1, WebFrame * n)
    BY <1>4, <2>1, DecodedBegins
  <2>4. QED
    BY <2>2, <2>3
<1>9. /\ page.strict = Preview(SubSeq(trip.strict, 1, WebFrame * n))
      /\ page.enhanced = Preview(SubSeq(trip.enhanced, 1, WebFrame * n))
  BY <1>1, <1>3, <1>4, <1>7, <1>8
<1>10. QED
  BY <1>9 DEF page, n

\* Of an undamaged file the page says what the round trip said.
LEMMA UndamagedIs ==
  ASSUME WebInv, recording # <<>>, file.frames = trip.encoded,
         NEW ptime, ptime = recording[1].ptime, NEW decode \in BOOLEAN, NEW reference
  PROVE  LET page == CheckPayload(file, ptime, decode, reference)
         IN  page.packets = trip.packets /\ (trip.ok => page.ok)
<1> DEFINE page == CheckPayload(file, ptime, decode, reference)
           n == Len(file.frames)
           e == trip.encoded
           per == FramesForPTime(ptime)
           fails == per = 0 \/ FileBytes(file) = 0 \/ ~FrameSize(FileBytes(file))
           strict == IF decode THEN DecodePayload(StrictLevel, file.frames) ELSE <<>>
<1>1. /\ fails => page = Failure
      /\ ~fails => /\ page.ok <=> (~decode \/ ~IsZero(strict))
                   /\ page.packets = PacketsOf(n, per)
  <2>1. IsPage(page, file, ptime, decode)
    BY PageIs
  <2> HIDE DEF page
  <2>2. QED
    BY <2>1 DEF IsPage
<1>2. Coded(e) /\ file.extra = 0 /\ n = Len(e) /\ n \in Nat
  <2>1. Coded(e) /\ file.extra = 0 /\ n = Len(e)
    BY FileIs
  <2>2. Len(e) \in Nat
    BY <2>1 DEF Coded
  <2>3. QED
    BY <2>1, <2>2
<1> HIDE DEF page, n, e
<1>3. FileBytes(file) = 10 * n /\ FrameSize(FileBytes(file))
  <2>1. FileBytes(file) = 10 * n + 0
    BY <1>2 DEF FileBytes, n
  <2>2. QED
    BY <1>2, <2>1 DEF FrameSize
<1>4. CASE trip = NoTrip
  <2>1. e = <<>> /\ trip.packets = 0 /\ trip.ok = FALSE
    BY <1>4 DEF e, NoTrip
  <2>2. fails
    BY <1>2, <1>3, <2>1
  <2>3. page.packets = 0
    BY <1>1, <2>2 DEF Failure
  <2>4. QED
    BY <2>1, <2>3 DEF page
<1>5. CASE trip # NoTrip
  <2>1. PICK samples \in Seq(PCM) :
          /\ per # 0 /\ Len(samples) # 0
          /\ e = EncodeFrames(PaddedPCM(samples))
          /\ trip.packets = PacketsOf(Len(e), per)
          /\ trip.strict = DecodePayload(StrictLevel, e)
          /\ trip.ok => ~IsZero(SubSeq(trip.strict, 1, Len(samples)))
    BY <1>5, TripKept DEF e
  <2> DEFINE l == Len(samples)
             padded == PaddedPCM(samples)
  <2>2. /\ l \in Nat /\ l # 0 /\ padded \in Seq(PCM) /\ l <= Len(padded)
        /\ WebFrame \in Nat \ {0}
    BY <2>1, PaddedWeb, WebConstants
  <2>3. PICK m \in Nat : Len(padded) = m * WebFrame
    BY PaddedWeb
  <2>4. Len(e) = m
    BY <2>1, <2>2, <2>3, EncodedIs
  <2> HIDE DEF l, padded
  <2>5. m # 0
    <3>1. SUFFICES ASSUME m = 0 PROVE FALSE
      OBVIOUS
    <3>2. Len(padded) = 0
      BY <2>2, <2>3, <3>1
    <3>3. QED
      BY <2>2, <3>2
  <2>6. ~fails
    BY <1>2, <1>3, <2>1, <2>4, <2>5
  <2>7. page.packets = trip.packets
    BY <1>1, <1>2, <2>1, <2>6
  <2>8. ASSUME trip.ok, decode PROVE ~IsZero(strict)
    <3> DEFINE p == DecodePayload(StrictLevel, e)
    <3>1. p \in Seq(Int) /\ Len(p) = Len(e) * WebFrame
      BY <1>2, WebConstants, DecodedIs
    <3>2. l <= Len(p) /\ ~IsZero(SubSeq(p, 1, l))
      BY <2>1, <2>2, <2>3, <2>4, <2>8, <3>1 DEF l
    <3>3. strict = p
      BY <2>8 DEF e
    <3> HIDE DEF p, strict
    <3>4. /\ SubSeq(p, 1, l) \in Seq(Int) /\ Len(SubSeq(p, 1, l)) = l
          /\ \A j \in 1 .. l : SubSeq(p, 1, l)[j] = p[j]
      BY <2>2, <3>1, <3>2, FirstOf
    <3>5. PICK j \in DOMAIN SubSeq(p, 1, l) : SubSeq(p, 1, l)[j] # 0
      BY <3>2 DEF IsZero
    <3>6. j \in 1 .. l
      BY <3>4, <3>5
    <3>7. j \in DOMAIN p /\ p[j] # 0
      BY <2>2, <3>1, <3>2, <3>4, <3>5, <3>6
    <3>8. QED
      BY <3>3, <3>7 DEF IsZero
  <2>9. trip.ok => page.ok
    BY <1>1, <2>6, <2>8
  <2>10. QED
    BY <2>7, <2>9 DEF page
<1>6. QED
  BY <1>4, <1>5

\* What the page gave out is what it plays, as far as it was kept, for every
\* recording, frame length and pair of decoders.
THEOREM PayloadIsTheTrip == WebSpec => []PayloadPlaysTheRoundtrip
<1>1. ASSUME WebInv PROVE PayloadPlaysTheRoundtrip
  <2>1. SUFFICES ASSUME NEW i \in DOMAIN checked
        PROVE  /\ checked[i].page.frames > 0 /\ checked[i].decode =>
                    /\ checked[i].page.strict
                         = Preview(SubSeq(trip.strict, 1, WebFrame * Len(file.frames)))
                    /\ checked[i].page.enhanced
                         = Preview(SubSeq(trip.enhanced, 1, WebFrame * Len(file.frames)))
               /\ file.frames = trip.encoded /\ checked[i].ptime = recording[1].ptime =>
                    /\ checked[i].page.packets = trip.packets
                    /\ trip.ok => checked[i].page.ok
    BY DEF PayloadPlaysTheRoundtrip
  <2>2. PICK ptime \in Ptimes, decode \in BOOLEAN,
             reference \in References(DecodePayload(StrictLevel, file.frames)) :
               checked[i] = Answers(ptime, decode, reference)
    BY <1>1, CheckIs
  <2>3. /\ checked[i].page = CheckPayload(file, ptime, decode, reference)
        /\ checked[i].ptime = ptime /\ checked[i].decode = decode
        /\ recording # <<>>
    BY <1>1, <2>2, CheckIs DEF Answers
  <2>4. ASSUME checked[i].page.frames > 0, checked[i].decode
        PROVE  /\ checked[i].page.strict
                    = Preview(SubSeq(trip.strict, 1, WebFrame * Len(file.frames)))
               /\ checked[i].page.enhanced
                    = Preview(SubSeq(trip.enhanced, 1, WebFrame * Len(file.frames)))
    <3>1. decode /\ CheckPayload(file, ptime, decode, reference).frames > 0
      BY <2>3, <2>4
    <3> DEFINE page == CheckPayload(file, ptime, decode, reference)
    <3>2. /\ page.strict
               = Preview(SubSeq(trip.strict, 1, WebFrame * Len(file.frames)))
          /\ page.enhanced
               = Preview(SubSeq(trip.enhanced, 1, WebFrame * Len(file.frames)))
      BY <1>1, <2>3, <3>1, PlaysIs
    <3>3. checked[i].page = page
      BY <2>3
    <3> HIDE DEF page
    <3>4. QED
      BY <3>2, <3>3
  <2>5. ASSUME file.frames = trip.encoded, checked[i].ptime = recording[1].ptime
        PROVE  checked[i].page.packets = trip.packets /\ (trip.ok => checked[i].page.ok)
    BY <1>1, <2>3, <2>5, UndamagedIs
  <2>6. QED
    BY <2>4, <2>5
<1>2. QED
  BY <1>1, WebInvHolds, PTL

-----------------------------------------------------------------------------
(* RtpWeb: the delay between two decoders.                                 *)

\* A square is not negative.
LEMMA SquareIs ==
  ASSUME NEW x \in Int
  PROVE  x * x \in Nat
<1>1. CASE x >= 0
  BY <1>1
<1>2. CASE x < 0
  <2> DEFINE y == -x
  <2>1. y \in Nat /\ x * x = y * y
    BY <1>2
  <2> HIDE DEF y
  <2>2. y * y \in Nat
    BY <2>1
  <2>3. QED
    BY <2>1, <2>2
<1>3. QED
  BY <1>1, <1>2

\* A sum of squares is a natural number, 0 if all are.
LEMMA SquaresAre ==
  ASSUME NEW s \in Seq(Int)
  PROVE  /\ SumSquares(s) \in Nat
         /\ (\A i \in 1 .. Len(s) : s[i] = 0) => SumSquares(s) = 0
<1> DEFINE n == Len(s)
           x == [i \in 1 .. n |-> s[i] * s[i]]
           IsSum(f) == f = [i \in 0 .. n |-> IF i = 0 THEN 0 ELSE f[i - 1] + s[i] * s[i]]
           g == CHOOSE f : IsSum(f)
<1>1. n \in Nat /\ \A i \in 1 .. n : s[i] \in Int
  OBVIOUS
<1>2. \A i \in 1 .. n : x[i] = s[i] * s[i] /\ x[i] \in Nat
  BY <1>1, SquareIs
<1>3. SumSquares(s) = g[n]
  BY DEF SumSquares
<1> HIDE DEF x, n
<1>4. PICK f \in [0 .. n -> Int] : f[0] = 0 /\ \A k \in 1 .. n : f[k] = f[k - 1] + x[k]
  <2>1. \A k \in 1 .. n : x[k] \in Int
    BY <1>2
  <2>2. QED
    BY <1>1, <2>1, Sums
<1>5. IsSum(f)
  <2>1. f = [k \in 0 .. n |-> f[k]]
    BY <1>4
  <2>2. ASSUME NEW k \in 0 .. n
        PROVE  f[k] = IF k = 0 THEN 0 ELSE f[k - 1] + s[k] * s[k]
    <3>1. k = 0 \/ k \in 1 .. n
      BY <1>1
    <3>2. QED
      BY <1>2, <1>4, <3>1
  <2>3. QED
    BY <2>1, <2>2
<1>6. IsSum(g)
  BY <1>5
<1> HIDE DEF g
<1>7. g[0] = 0 /\ \A k \in 1 .. n : g[k] = g[k - 1] + x[k]
  <2>1. \A k \in 0 .. n : g[k] = IF k = 0 THEN 0 ELSE g[k - 1] + s[k] * s[k]
    BY <1>6
  <2>2. 0 \in 0 .. n /\ \A k \in 1 .. n : k \in 0 .. n /\ k # 0
    BY <1>1
  <2>3. QED
    BY <1>2, <2>1, <2>2
<1> DEFINE T == {k \in 0 .. n : g[k] \in Nat /\ ((\A i \in 1 .. k : x[i] = 0) => g[k] = 0)}
<1>8. 0 \in T
  BY <1>1, <1>7
<1>9. ASSUME NEW k \in 1 .. n, k - 1 \in T PROVE k \in T
  <2>1. g[k - 1] \in Nat /\ ((\A i \in 1 .. k - 1 : x[i] = 0) => g[k - 1] = 0)
    BY <1>9
  <2>2. g[k] = g[k - 1] + x[k] /\ x[k] \in Nat /\ k \in 0 .. n
    BY <1>2, <1>7
  <2>3. (\A i \in 1 .. k : x[i] = 0) => x[k] = 0 /\ \A i \in 1 .. k - 1 : x[i] = 0
    OBVIOUS
  <2>4. QED
    BY <2>1, <2>2, <2>3
<1> HIDE DEF T
<1>10. 0 .. n \subseteq T
  BY <1>1, <1>8, <1>9, RangeInduction
<1>11. g[n] \in Nat /\ ((\A i \in 1 .. n : x[i] = 0) => g[n] = 0)
  <2>1. n \in T
    BY <1>1, <1>10
  <2>2. QED
    BY <2>1 DEF T
<1>12. (\A i \in 1 .. n : s[i] = 0) => \A i \in 1 .. n : x[i] = 0
  <2>1. ASSUME NEW i \in 1 .. n, s[i] = 0 PROVE x[i] = 0
    <3>1. x[i] = s[i] * s[i]
      BY <1>2
    <3>2. 0 * 0 = 0
      OBVIOUS
    <3>3. QED
      BY <2>1, <3>1, <3>2
  <2>2. QED
    BY <2>1
<1>13. QED
  BY <1>3, <1>11, <1>12 DEF n

\* A ratio of two parts of the same length.
LEMMA SnrIs ==
  ASSUME NEW a \in Seq(Int), NEW b \in Seq(Int), Len(a) = Len(b), Len(a) > 0
  PROVE  /\ SnrDB(a, b) = <<1, 0>> \/
              \E x \in Nat, y \in Nat : y > 0 /\ SnrDB(a, b) = <<x, y>>
         /\ (\A i \in 1 .. Len(a) : a[i] = b[i]) => SnrDB(a, b) = <<1, 0>>
<1> DEFINE n == Len(a)
           d == Differences(a, b)
           noise == SumSquares(d)
           signal == SumSquares(SubSeq(a, 1, Len(d)))
<1>1. d = [i \in 1 .. n |-> a[i] - b[i]]
  BY DEF Differences
<1>2. /\ d \in Seq(Int) /\ Len(d) = n /\ d # <<>>
      /\ \A i \in 1 .. n : d[i] = a[i] - b[i]
  <2> HIDE DEF d
  <2>1. d \in Seq(Int) /\ Len(d) = n /\ \A i \in 1 .. n : d[i] = a[i] - b[i]
    BY <1>1
  <2>2. QED
    BY <2>1
<1>3. SnrDB(a, b) = CASE d = <<>> -> <<1, 1>>
                      [] d # <<>> /\ noise = 0 -> <<1, 0>>
                      [] d # <<>> /\ noise > 0 /\ signal = 0 -> <<1, 1>>
                      [] OTHER -> <<signal, noise>>
  BY DEF SnrDB
<1> HIDE DEF d
<1>4. noise \in Nat /\ ((\A i \in 1 .. n : d[i] = 0) => noise = 0)
  BY <1>2, SquaresAre
<1>5. signal \in Nat
  <2>1. SubSeq(a, 1, Len(d)) \in Seq(Int)
    BY <1>2, FirstOf
  <2>2. QED
    BY <2>1, SquaresAre
<1> HIDE DEF noise, signal, n
<1>6. noise = 0 => SnrDB(a, b) = <<1, 0>>
  BY <1>2, <1>3
<1>7. noise > 0 /\ signal = 0 => SnrDB(a, b) = <<1, 1>>
  BY <1>2, <1>3
<1>8. noise > 0 /\ signal # 0 => SnrDB(a, b) = <<signal, noise>>
  BY <1>2, <1>3
<1>9. SnrDB(a, b) = <<1, 0>> \/ \E x \in Nat, y \in Nat : y > 0 /\ SnrDB(a, b) = <<x, y>>
  <2>1. CASE noise = 0
    BY <1>6, <2>1
  <2>2. CASE noise > 0 /\ signal = 0
    <3>1. 1 \in Nat /\ 1 > 0
      OBVIOUS
    <3>2. QED
      BY <1>7, <2>2, <3>1
  <2>3. CASE noise > 0 /\ signal # 0
    BY <1>4, <1>5, <1>8, <2>3
  <2>4. QED
    BY <1>4, <2>1, <2>2, <2>3
<1>10. ASSUME \A i \in 1 .. n : a[i] = b[i] PROVE SnrDB(a, b) = <<1, 0>>
  <2>1. \A i \in 1 .. n : d[i] = 0
    <3>1. \A i \in 1 .. n : a[i] \in Int
      BY DEF n
    <3>2. QED
      BY <1>2, <1>10, <3>1
  <2>2. QED
    BY <1>4, <1>6, <2>1
<1>11. QED
  BY <1>9, <1>10 DEF n

\* The parts compared at a shift.
LEMMA SlicesAre ==
  ASSUME NEW r \in Seq(Int), NEW p \in Seq(Int), NEW s \in Int,
         AlignedSlices(r, p, s)[1] # <<>>
  PROVE  LET a == AlignedSlices(r, p, s)[1]
             b == AlignedSlices(r, p, s)[2]
         IN  a \in Seq(Int) /\ b \in Seq(Int) /\ Len(a) = Len(b) /\ Len(a) > 0
<1> DEFINE i == IF s >= 0 THEN 0 ELSE -s
           j == IF s >= 0 THEN s ELSE 0
           n == IF Len(p) - j < Len(r) - i THEN Len(p) - j ELSE Len(r) - i
           a == SubSeq(r, i + 1, i + n)
           b == SubSeq(p, j + 1, j + n)
<1>1. AlignedSlices(r, p, s) = IF n <= 0 THEN << <<>>, <<>> >> ELSE <<a, b>>
  BY DEF AlignedSlices
<1>2. /\ i \in Nat /\ j \in Nat /\ n \in Int /\ i + n <= Len(r) /\ j + n <= Len(p)
      /\ Len(r) \in Nat /\ Len(p) \in Nat
  <2>1. i \in Nat /\ j \in Nat
    OBVIOUS
  <2> HIDE DEF i, j
  <2>2. Len(r) \in Nat /\ Len(p) \in Nat
    OBVIOUS
  <2>3. \A x \in Nat, y \in Nat :
          /\ (IF x - j < y - i THEN x - j ELSE y - i) \in Int
          /\ i + (IF x - j < y - i THEN x - j ELSE y - i) <= y
          /\ j + (IF x - j < y - i THEN x - j ELSE y - i) <= x
    BY <2>1
  <2>4. QED
    BY <2>1, <2>2, <2>3
<1> HIDE DEF i, j, n
<1>3. n > 0
  <2>1. SUFFICES ASSUME n <= 0 PROVE FALSE
    BY <1>2
  <2>2. AlignedSlices(r, p, s) = << <<>>, <<>> >>
    BY <1>1, <2>1
  <2>3. QED
    BY <2>2
<1> DEFINE i1 == i + n
           j1 == j + n
<1>4. /\ i1 \in Nat /\ i <= i1 /\ i1 <= Len(r) /\ i1 - i = n
      /\ j1 \in Nat /\ j <= j1 /\ j1 <= Len(p) /\ j1 - j = n
  BY <1>2, <1>3
<1> HIDE DEF i1, j1
<1>5. SubSeq(r, i + 1, i1) \in Seq(Int) /\ Len(SubSeq(r, i + 1, i1)) = i1 - i
  BY <1>2, <1>4, PartIs
<1>6. SubSeq(p, j + 1, j1) \in Seq(Int) /\ Len(SubSeq(p, j + 1, j1)) = j1 - j
  BY <1>2, <1>4, PartIs
<1>7. a \in Seq(Int) /\ b \in Seq(Int) /\ Len(a) = n /\ Len(b) = n
  BY <1>4, <1>5, <1>6 DEF i1, j1
<1> HIDE DEF a, b
<1>8. AlignedSlices(r, p, s) = <<a, b>>
  <2>1. ~(n <= 0)
    BY <1>2, <1>3
  <2>2. QED
    BY <1>1, <2>1
<1>9. QED
  BY <1>3, <1>7, <1>8

\* part is samples a + 1 to b of s.
IsPartOf(part, s, a, b) ==
  /\ part \in Seq(Int) /\ Len(part) = b - a
  /\ \A j \in 1 .. b - a : part[j] = s[a + j]

\* PartIs for samples.
LEMMA PartOfInts ==
  ASSUME NEW s \in Seq(Int), NEW a \in Nat, NEW b \in Nat, a <= b, b <= Len(s)
  PROVE  IsPartOf(SubSeq(s, a + 1, b), s, a, b)
  BY PartIs DEF IsPartOf

\* At the delay itself the parts are the same.
LEMMA DelayedSlices ==
  ASSUME NEW r \in Seq(Int), NEW p \in Seq(Int), Len(r) = Len(p),
         NEW d \in Nat, d < Len(p),
         \A k \in d + 1 .. Len(r) : r[k] = p[k - d]
  PROVE  LET a == AlignedSlices(r, p, -d)[1]
             b == AlignedSlices(r, p, -d)[2]
         IN  a # <<>> /\ \A i \in 1 .. Len(a) : a[i] = b[i]
<1> DEFINE L == Len(p)
           n == L - d
           a == SubSeq(r, d + 1, d + n)
           b == SubSeq(p, 0 + 1, 0 + n)
<1>1. L \in Nat /\ n \in Nat /\ n > 0 /\ d + n = L /\ 0 + n <= L /\ 0 + n \in Nat
  OBVIOUS
<1>2. AlignedSlices(r, p, -d) = <<a, b>>
  <2> DEFINE s == -d
             x == IF s >= 0 THEN 0 ELSE -s
             y == IF s >= 0 THEN s ELSE 0
             k == IF Len(p) - y < Len(r) - x THEN Len(p) - y ELSE Len(r) - x
  <2>1. AlignedSlices(r, p, s) = IF k <= 0 THEN << <<>>, <<>> >>
                                 ELSE <<SubSeq(r, x + 1, x + k), SubSeq(p, y + 1, y + k)>>
    BY DEF AlignedSlices
  <2>2. x = d /\ y = 0
    OBVIOUS
  <2> HIDE DEF x, y, s
  <2>3. k = n /\ ~(n <= 0)
    <3>1. \A u \in Nat, v \in Nat : u = v /\ d < u =>
            (IF u - 0 < v - d THEN u - 0 ELSE v - d) = u - d /\ ~(u - d <= 0)
      OBVIOUS
    <3>2. Len(p) \in Nat /\ Len(r) \in Nat
      OBVIOUS
    <3>3. QED
      BY <2>2, <3>1, <3>2
  <2> HIDE DEF k, n
  <2>4. AlignedSlices(r, p, s) = <<a, b>>
    BY <2>1, <2>2, <2>3
  <2>5. QED
    BY <2>4 DEF s
<1> DEFINE h == d + n
           m == 0 + n
<1>3. /\ h \in Nat /\ d <= h /\ h <= Len(r) /\ h - d = n
      /\ m \in Nat /\ 0 <= m /\ m <= Len(p) /\ m - 0 = n
  BY <1>1
<1> HIDE DEF n, h, m, a, b
<1>4. IsPartOf(SubSeq(r, d + 1, h), r, d, h)
  BY <1>3, PartOfInts
<1>5. IsPartOf(SubSeq(p, 0 + 1, m), p, 0, m)
  BY <1>3, PartOfInts
<1>6. /\ Len(a) = n /\ a \in Seq(Int)
      /\ \A i \in 1 .. n : a[i] = r[d + i]
      /\ \A i \in 1 .. n : b[i] = p[0 + i]
  <2>1. a = SubSeq(r, d + 1, h) /\ b = SubSeq(p, 0 + 1, m)
    BY DEF a, b, h, m
  <2> HIDE DEF a, b
  <2>2. QED
    BY <1>3, <1>4, <1>5, <2>1 DEF IsPartOf
<1>7. ASSUME NEW i \in 1 .. n PROVE a[i] = b[i]
  <2>1. d + i \in d + 1 .. Len(r) /\ (d + i) - d = i /\ 0 + i = i
    BY <1>1
  <2>2. r[d + i] = p[i]
    BY <2>1
  <2>3. QED
    BY <1>6, <2>1, <2>2
<1>8. a # <<>>
  BY <1>1, <1>6
<1>9. QED
  <2>1. AlignedSlices(r, p, -d)[1] = a /\ AlignedSlices(r, p, -d)[2] = b
    BY <1>2
  <2>2. \A i \in 1 .. Len(a) : a[i] = b[i]
    BY <1>6, <1>7
  <2>3. QED
    BY <1>8, <2>1, <2>2

\* Products of naturals with the same positive factor compare as the others do.
LEMMA Scaled ==
  ASSUME NEW x \in Nat, NEW y \in Nat, NEW z \in Nat \ {0}
  PROVE  x * z > y * z <=> x > y
<1>1. CASE x > y
  <2>1. x >= y + 1 /\ z > 0
    BY <1>1
  <2>2. x * z >= (y + 1) * z /\ (y + 1) * z = y * z + z
    BY <2>1
  <2>3. QED
    BY <1>1, <2>1, <2>2
<1>2. CASE x <= y
  <2>1. x * z <= y * z
    BY <1>2
  <2>2. QED
    BY <1>2, <2>1
<1>3. QED
  BY <1>1, <1>2

\* A ratio as FiniteDB leaves it: its denominator is not zero.
Ratios == Nat \X (Nat \ {0})

\* What does not exceed a ratio is exceeded by whatever exceeds it.
LEMMA ExceedsAll ==
  ASSUME NEW a \in Ratios, NEW b \in Ratios, NEW c \in Ratios,
         Exceeds(a, b), ~Exceeds(c, b)
  PROVE  Exceeds(a, c)
<1>1. PICK a1 \in Nat, a2 \in Nat \ {0} : a = <<a1, a2>>
  BY DEF Ratios
<1>2. PICK b1 \in Nat, b2 \in Nat \ {0} : b = <<b1, b2>>
  BY DEF Ratios
<1>3. PICK c1 \in Nat, c2 \in Nat \ {0} : c = <<c1, c2>>
  BY DEF Ratios
<1>4. a1 * b2 > b1 * a2 /\ c1 * b2 <= b1 * c2
  BY <1>1, <1>2, <1>3 DEF Exceeds
\* Both cross products times the third denominator.
<1>5. (a1 * b2) * c2 > (b1 * a2) * c2
  BY <1>4, Scaled
<1>6. (c1 * b2) * a2 <= (b1 * c2) * a2
  BY <1>4, Scaled
<1>7. (a1 * c2) * b2 > (c1 * a2) * b2
  BY <1>5, <1>6
<1>8. a1 * c2 > c1 * a2
  BY <1>7, Scaled
<1>9. QED
  BY <1>1, <1>3, <1>8 DEF Exceeds

\* What exceeds a ratio is not exceeded by it, and none exceeds itself.
LEMMA ExceedsOneWay ==
  ASSUME NEW a \in Ratios, NEW b \in Ratios, Exceeds(a, b)
  PROVE  ~Exceeds(b, a)
<1>1. PICK a1 \in Nat, a2 \in Nat \ {0} : a = <<a1, a2>>
  BY DEF Ratios
<1>2. PICK b1 \in Nat, b2 \in Nat \ {0} : b = <<b1, b2>>
  BY DEF Ratios
<1>3. a1 * b2 \in Nat /\ b1 * a2 \in Nat
  OBVIOUS
<1>4. QED
  BY <1>1, <1>2, <1>3 DEF Exceeds

\* Of the shifts tried there is a first that no other exceeds.
LEMMA FirstBest ==
  ASSUME NEW m \in Nat, NEW tried \in SUBSET (-m .. m), tried # {},
         NEW ratio \in [tried -> Ratios]
  PROVE  \E s \in tried : \A u \in tried :
           /\ ~Exceeds(ratio[u], ratio[s])
           /\ u < s => Exceeds(ratio[s], ratio[u])
<1> DEFINE Upto(k) == {s \in tried : s < k - m}
           Best(s, S) == \A u \in S : /\ ~Exceeds(ratio[u], ratio[s])
                                      /\ u < s => Exceeds(ratio[s], ratio[u])
           T == {k \in Nat : Upto(k) # {} => \E s \in Upto(k) : Best(s, Upto(k))}
           n == 2 * m + 1
<1>1. n \in Nat
  OBVIOUS
<1>2. 0 \in T
  <2>1. \A s \in tried : s \in Int /\ ~(s < 0 - m)
    OBVIOUS
  <2>2. Upto(0) = {}
    BY <2>1
  <2>3. QED
    BY <2>2
<1>3. ASSUME NEW k \in 1 .. n, k - 1 \in T
      PROVE  k \in T
  <2> DEFINE j == (k - 1) - m
  <2>1. k \in Nat /\ j \in Int /\ k - m = j + 1
    BY <1>1
  <2>2. \A s \in tried : s \in Int /\ ratio[s] \in Ratios
    OBVIOUS
  <2>3. Upto(k) = Upto(k - 1) \cup ({j} \cap tried)
    <3>1. \A s \in Int : s < k - m <=> s < j \/ s = j
      BY <2>1
    <3>2. \A s \in tried : s < k - m <=> s < (k - 1) - m \/ s = j
      BY <2>2, <3>1
    <3> HIDE DEF j
    <3>3. QED
      BY <3>2
  <2>4. \A s \in Upto(k - 1) : s \in tried /\ s < j /\ s \in Int
    BY <2>2
  <2>5. Upto(k - 1) # {} => \E s \in Upto(k - 1) : Best(s, Upto(k - 1))
    BY <1>3
  <2> HIDE DEF Upto, j
  <2>6. SUFFICES ASSUME Upto(k) # {} PROVE \E s \in Upto(k) : Best(s, Upto(k))
    BY <2>1
  <2>7. CASE j \notin tried
    BY <2>3, <2>5, <2>6, <2>7
  <2>8. CASE j \in tried /\ Upto(k - 1) = {}
    <3>1. Upto(k) = {j}
      BY <2>3, <2>8
    <3>2. ~Exceeds(ratio[j], ratio[j])
      BY <2>2, <2>8, ExceedsOneWay
    <3>3. Best(j, Upto(k))
      BY <2>1, <3>1, <3>2
    <3>4. QED
      BY <3>1, <3>3
  <2>9. CASE j \in tried /\ Upto(k - 1) # {}
    <3>1. PICK s \in Upto(k - 1) : Best(s, Upto(k - 1))
      BY <2>5, <2>9
    <3>2. s \in tried /\ s < j /\ s \in Int /\ s \in Upto(k) /\ j \in Upto(k)
      BY <2>3, <2>4, <2>9
    <3>3. CASE Exceeds(ratio[j], ratio[s])
      <4>1. ASSUME NEW u \in Upto(k)
            PROVE  /\ ~Exceeds(ratio[u], ratio[j])
                   /\ u < j => Exceeds(ratio[j], ratio[u])
        <5>1. CASE u = j
          BY <2>1, <2>2, <2>9, <5>1, ExceedsOneWay
        <5>2. CASE u \in Upto(k - 1)
          <6>1. u \in tried /\ ~Exceeds(ratio[u], ratio[s])
            BY <2>4, <3>1, <5>2
          <6>2. ratio[u] \in Ratios /\ ratio[s] \in Ratios /\ ratio[j] \in Ratios
            BY <2>2, <2>9, <3>2, <6>1
          <6>3. Exceeds(ratio[j], ratio[u])
            BY <3>3, <6>1, <6>2, ExceedsAll
          <6>4. QED
            BY <6>2, <6>3, ExceedsOneWay
        <5>3. QED
          BY <2>3, <5>1, <5>2
      <4>2. QED
        BY <3>2, <4>1
    <3>4. CASE ~Exceeds(ratio[j], ratio[s])
      <4>1. ASSUME NEW u \in Upto(k)
            PROVE  /\ ~Exceeds(ratio[u], ratio[s])
                   /\ u < s => Exceeds(ratio[s], ratio[u])
        <5>1. CASE u = j
          BY <2>1, <3>2, <3>4, <5>1
        <5>2. CASE u \in Upto(k - 1)
          BY <3>1, <5>2
        <5>3. QED
          BY <2>3, <5>1, <5>2
      <4>2. QED
        BY <3>2, <4>1
    <3>5. QED
      BY <3>3, <3>4
  <2>10. QED
    BY <2>7, <2>8, <2>9
<1>4. Upto(n) = tried
  <2>1. \A s \in tried : s \in Int /\ s < n - m
    OBVIOUS
  <2>2. QED
    BY <2>1
<1> HIDE DEF T, n, Upto
<1>5. n \in T
  <2>1. 0 .. n \subseteq T
    BY <1>1, <1>2, <1>3, RangeInduction
  <2>2. QED
    BY <1>1, <2>1
<1>6. \E s \in tried : Best(s, tried)
  BY <1>4, <1>5 DEF T
<1>7. QED
  BY <1>6

\* The ratio at a shift: a finite one, that of an exact match if the parts agree.
LEMMA RatioAt ==
  ASSUME NEW r \in Seq(Int), NEW p \in Seq(Int), NEW s \in Int,
         AlignedSlices(r, p, s)[1] # <<>>
  PROVE  LET a == AlignedSlices(r, p, s)[1]
             b == AlignedSlices(r, p, s)[2]
         IN  /\ SnrAt(r, p, s) \in Ratios
             /\ (\A i \in 1 .. Len(a) : a[i] = b[i]) => SnrAt(r, p, s) = ExactRatio
<1> DEFINE a == AlignedSlices(r, p, s)[1]
           b == AlignedSlices(r, p, s)[2]
<1>1. a \in Seq(Int) /\ b \in Seq(Int) /\ Len(a) = Len(b) /\ Len(a) > 0
  BY SlicesAre
<1>2. SnrAt(r, p, s) = FiniteDB(SnrDB(a, b))
  BY DEF SnrAt
<1> HIDE DEF a, b
<1>3. ExactRatio \in Ratios
  BY RtpWebAssumption DEF Ratios
<1>4. FiniteDB(<<1, 0>>) = ExactRatio
  BY DEF FiniteDB
<1>5. \A x \in Nat, y \in Nat : y > 0 => FiniteDB(<<x, y>>) = <<x, y>> /\ <<x, y>> \in Ratios
  BY DEF FiniteDB, Ratios
<1>6. SnrAt(r, p, s) \in Ratios
  <2>1. CASE SnrDB(a, b) = <<1, 0>>
    BY <1>2, <1>3, <1>4, <2>1
  <2>2. CASE \E x \in Nat, y \in Nat : y > 0 /\ SnrDB(a, b) = <<x, y>>
    BY <1>2, <1>5, <2>2
  <2>3. QED
    BY <1>1, <2>1, <2>2, SnrIs
<1>7. (\A i \in 1 .. Len(a) : a[i] = b[i]) => SnrAt(r, p, s) = ExactRatio
  BY <1>1, <1>2, <1>4, SnrIs
<1>8. QED
  BY <1>6, <1>7 DEF a, b

\* The search over shifts ends at a delay where the samples agree, or at a shift
\* of a finite ratio that is as high.
LEMMA ShiftFound ==
  ASSUME NEW r \in Seq(Int), NEW p \in Seq(Int), Len(r) = Len(p),
         NEW d \in 0 .. MaxShift, d < Len(p),
         \A k \in d + 1 .. Len(r) : r[k] = p[k - d]
  PROVE  LET found == BestAlignedQuality(r, p)
             s == found.shift
             a == AlignedSlices(r, p, s)[1]
             b == AlignedSlices(r, p, s)[2]
         IN  /\ a # <<>>
             /\ ~Exceeds(ExactRatio, found.snr)
             /\ s <= -d \/ Exceeds(found.snr, ExactRatio)
             /\ a = b => found.snr = ExactRatio /\ s <= -d
<1> DEFINE tried == {s \in -MaxShift .. MaxShift : AlignedSlices(r, p, s)[1] # <<>>}
           at(s) == SnrAt(r, p, s)
           best == {s \in tried : \A u \in tried :
                      /\ ~Exceeds(at(u), at(s))
                      /\ u < s => Exceeds(at(s), at(u))}
           c == CHOOSE s \in best : TRUE
<1>1. MaxShift \in Nat /\ d \in Nat
  BY WebConstants
<1>2. BestAlignedQuality(r, p) =
        IF tried = {} THEN [shift |-> 0, snr |-> <<1, 1>>] ELSE [shift |-> c, snr |-> at(c)]
  BY DEF BestAlignedQuality
<1>3. tried \in SUBSET (-MaxShift .. MaxShift) /\ tried \subseteq Int
  BY <1>1
<1>4. \A s \in tried : at(s) \in Ratios
  BY <1>3, RatioAt
<1>5. -d \in tried /\ at(-d) = ExactRatio
  <2>1. /\ AlignedSlices(r, p, -d)[1] # <<>>
        /\ \A i \in 1 .. Len(AlignedSlices(r, p, -d)[1]) :
             AlignedSlices(r, p, -d)[1][i] = AlignedSlices(r, p, -d)[2][i]
    BY <1>1, DelayedSlices
  <2>2. -d \in -MaxShift .. MaxShift /\ -d \in Int
    BY <1>1
  <2>3. QED
    BY <2>1, <2>2, RatioAt
<1>6. \A s \in tried : AlignedSlices(r, p, s)[1] # <<>>
  OBVIOUS
<1> HIDE DEF tried, at
<1>7. best # {}
  <2> DEFINE ratio == [s \in tried |-> at(s)]
  <2>1. ratio \in [tried -> Ratios] /\ \A s \in tried : ratio[s] = at(s)
    BY <1>4
  <2> HIDE DEF ratio
  <2>2. PICK s \in tried : \A u \in tried :
           /\ ~Exceeds(ratio[u], ratio[s])
           /\ u < s => Exceeds(ratio[s], ratio[u])
    BY <1>1, <1>3, <1>5, <2>1, FirstBest
  <2>3. s \in best
    BY <2>1, <2>2
  <2>4. QED
    BY <2>3
<1>8. c \in best
  <2> HIDE DEF best
  <2>1. QED
    BY <1>7
<1> HIDE DEF c
<1>9. /\ c \in tried /\ ~Exceeds(ExactRatio, at(c))
      /\ -d < c => Exceeds(at(c), ExactRatio)
  BY <1>5, <1>8
<1>10. c <= -d \/ Exceeds(at(c), ExactRatio)
  BY <1>1, <1>3, <1>9
<1>11. ASSUME AlignedSlices(r, p, c)[1] = AlignedSlices(r, p, c)[2]
       PROVE  at(c) = ExactRatio /\ c <= -d
  <2>1. at(c) = ExactRatio
    BY <1>3, <1>6, <1>9, <1>11, RatioAt DEF at
  <2>2. ~Exceeds(ExactRatio, ExactRatio)
    BY <1>9, <2>1
  <2>3. QED
    BY <1>10, <2>1, <2>2
<1>12. BestAlignedQuality(r, p) = [shift |-> c, snr |-> at(c)]
  BY <1>2, <1>9
<1>13. BestAlignedQuality(r, p).shift = c /\ BestAlignedQuality(r, p).snr = at(c)
  BY <1>12
<1>14. QED
  BY <1>6, <1>9, <1>10, <1>11, <1>13

\* DelayIsFound of one answer.
Found(theirs, ours, reply, d) ==
  LET s == reply.shift
      snr == reply.snr
      compared == AlignedSlices(theirs, ours, s)
  IN  /\ compared[1] # <<>>
      /\ \/ compared[1] = compared[2] /\ snr = ExactRatio /\ s <= -d
         \/ /\ compared[1] # compared[2]
            /\ ~Exceeds(ExactRatio, snr)
            /\ s <= -d \/ Exceeds(snr, ExactRatio)

\* If the other decoder answers in integers, a delay the search covers is found,
\* unless a shift has a finite ratio above that of an exact match.
THEOREM DelaysAreFound ==
  ASSUME \A s : References(s) \subseteq Seq(Int)
  PROVE  WebSpec => []DelayIsFound
<1>1. ASSUME WebInv PROVE DelayIsFound
  <2>1. SUFFICES ASSUME NEW i \in DOMAIN checked,
                        NEW d \in 0 .. MaxShift,
                        checked[i].page.strict # <<>>,
                        d < Len(checked[i].page.strict),
                        Len(checked[i].reference) = Len(checked[i].page.strict),
                        \A k \in d + 1 .. Len(checked[i].reference) :
                          checked[i].reference[k] = checked[i].page.strict[k - d]
        PROVE  Found(checked[i].reference, checked[i].page.strict,
                     checked[i].page.reference, d)
    BY DEF DelayIsFound, Found
  <2>2. PICK ptime \in Ptimes, decode \in BOOLEAN,
             reference \in References(DecodePayload(StrictLevel, file.frames)) :
               checked[i] = Answers(ptime, decode, reference)
    BY <1>1, CheckIs
  <2> DEFINE page == CheckPayload(file, ptime, decode, reference)
             strict == IF decode THEN PageDecode(StrictLevel, file.frames) ELSE <<>>
             p == Preview(strict)
             r == Preview(reference)
             n == IF Len(r) < Len(p) THEN Len(r) ELSE Len(p)
  <2>3. checked[i].page = page /\ checked[i].reference = reference
    BY <2>2 DEF Answers
  <2>4. /\ page.strict # <<>> /\ d < Len(page.strict)
        /\ Len(reference) = Len(page.strict)
        /\ \A k \in d + 1 .. Len(reference) : reference[k] = page.strict[k - d]
    BY <2>1, <2>3
  <2>5. page = Failure \/
          /\ page.strict = p
          /\ page.reference = IF n = 0 THEN Failure.reference
                              ELSE BestAlignedQuality(SubSeq(r, 1, n), SubSeq(p, 1, n))
    BY DEF CheckPayload
  <2>6. reference \in Seq(Int)
    OBVIOUS
  <2>7. strict \in Seq(Int)
    <3>1. Coded(file.frames)
      <4> DEFINE e == trip.encoded
                 c == Len(file.frames)
      <4>1. Coded(e) /\ c \in 0 .. Len(e) /\ file.frames = SubSeq(e, 1, c)
        BY <1>1, FileIs
      <4>2. StrictLevel \in [PCM -> Int]
        BY WebConstants
      <4> HIDE DEF e, c
      <4>3. Coded(SubSeq(e, 1, c))
        BY <4>1, <4>2, DecodedBegins
      <4>4. QED
        BY <4>1, <4>3
    <3>2. PageDecode(StrictLevel, file.frames) = DecodePayload(StrictLevel, file.frames)
      BY DEF PageDecode, PageHeard, DecodePayload
    <3>3. PageDecode(StrictLevel, file.frames) \in Seq(Int)
      BY <3>1, <3>2, WebConstants, DecodedIs
    <3>4. QED
      BY <3>3
  <2> HIDE DEF page, strict
  <2>8. PreviewCap \in Nat /\ \A s \in Seq(Int) :
          /\ Preview(s) \in Seq(Int) /\ Len(Preview(s)) <= PreviewCap
          /\ Len(s) <= PreviewCap => Preview(s) = s
    <3>1. ASSUME NEW s \in Seq(Int)
          PROVE  /\ Preview(s) \in Seq(Int) /\ Len(Preview(s)) <= PreviewCap
                 /\ Len(s) <= PreviewCap => Preview(s) = s
      <4> DEFINE l == IF Len(s) < PreviewCap THEN Len(s) ELSE PreviewCap
      <4>1. /\ l \in Nat /\ l <= Len(s) /\ l <= PreviewCap /\ Len(s) \in Nat
            /\ Len(s) <= PreviewCap => l = Len(s)
        BY WebConstants
      <4>2. Preview(s) = SubSeq(s, 1, l)
        BY DEF Preview
      <4> HIDE DEF l
      <4>3. SubSeq(s, 1, l) \in Seq(Int) /\ Len(SubSeq(s, 1, l)) = l
            /\ \A j \in 1 .. l : SubSeq(s, 1, l)[j] = s[j]
        BY <4>1, FirstOf
      <4>4. l = Len(s) => SubSeq(s, 1, l) = s
        BY <4>1, <4>3, SameSeq
      <4>5. QED
        BY <4>1, <4>2, <4>3, <4>4
    <3>2. QED
      BY <3>1, WebConstants
  <2>9. p \in Seq(Int) /\ Len(p) <= PreviewCap
    BY <2>7, <2>8
  <2>10. page.strict = p /\ page # Failure
    BY <2>4, <2>5 DEF Failure
  <2>11. r = reference
    BY <2>4, <2>6, <2>8, <2>9, <2>10
  <2>12. Len(r) = Len(p) /\ r \in Seq(Int) /\ n = Len(p)
    BY <2>4, <2>6, <2>10, <2>11
  <2> HIDE DEF p, r, n
  <2>13. SubSeq(r, 1, n) = r /\ SubSeq(p, 1, n) = p
    BY <2>9, <2>12
  <2>14. n # 0
    <3>1. p # <<>>
      BY <2>4, <2>10
    <3>2. QED
      BY <2>9, <2>12, <3>1
  <2>15. page.reference = BestAlignedQuality(r, p)
    BY <2>5, <2>10, <2>13, <2>14
  <2>16. /\ d < Len(p) /\ \A k \in d + 1 .. Len(r) : r[k] = p[k - d]
    BY <2>4, <2>10, <2>11
  <2>17. Found(r, p, BestAlignedQuality(r, p), d)
    BY <2>9, <2>12, <2>16, ShiftFound DEF Found
  <2>18. QED
    BY <2>3, <2>10, <2>11, <2>15, <2>17
<1>2. QED
  BY <1>1, WebInvHolds, PTL
=============================================================================
