----------------------------- MODULE SerialFile ----------------------------
(***************************************************************************)
(* Frames on the wire and in G.192 files: internal/bitstream.              *)
(*                                                                         *)
(* A frame is a tuple of indices, packed most significant bit first in the *)
(* order of Table 8.  A G.192 file gives each frame a word that says       *)
(* whether it was received, a length word, and one word per bit.  Files    *)
(* come from a writer and through tools that erase bits (a word of zero),  *)
(* damage words and cut files short; the strict reader accepts only what a *)
(* writer writes, the lenient one, and the loader of whole files, also     *)
(* erased bits.                                                            *)
(*                                                                         *)
(* A word is named for its value: "good" and "bad" are the two sync words, *)
(* "length" the length word, "1" and "0" the two bit words, "zero" the     *)
(* word 0x0000 and "other" any word else.                                  *)
(***************************************************************************)
EXTENDS Integers, Sequences
LOCAL INSTANCE SequencesExt

CONSTANTS
  Widths,       \* bits of the fields of a frame, in order (Table 8)
  FrameValues,  \* the frames a writer may write: tuples of field values
  MaxFrames,    \* bound of the model: frames in a file
  MaxFaults     \* bound of the model: faults a file suffers

\* The bits in front of field k + 1.
Offset[k \in 0 .. Len(Widths)] == IF k = 0 THEN 0 ELSE Offset[k - 1] + Widths[k]

FrameBits == Offset[Len(Widths)]

TwoTo[n \in 0 .. 16] == IF n = 0 THEN 1 ELSE 2 * TwoTo[n - 1]

ASSUME SerialAssumption ==
  /\ Widths \in Seq(1 .. 16) /\ Widths # <<>>
  /\ \A f \in FrameValues :
       /\ f \in Seq(Nat) /\ Len(f) = Len(Widths)
       /\ \A k \in DOMAIN f : f[k] < TwoTo[Widths[k]]
  /\ MaxFrames \in Nat /\ MaxFaults \in Nat

VARIABLES
  words,      \* the file
  frames,     \* what was written: the fields and the mark of each frame
  touched,    \* indices of the frames a fault touched
  faults,     \* number of faults
  position,   \* the reader's: words read; -1 while the file is not open
  strict,     \* the reader refuses erased bits
  readings    \* what each call of the reader returned

serialVars == <<words, frames, touched, faults, position, strict, readings>>

-----------------------------------------------------------------------------
(* Packing. *)

\* BitWriter.Write: the low n bits of a value, the highest of them first.
BitsOf(value, n) == [i \in 1 .. n |-> (value \div TwoTo[n - i]) % 2]

\* BitReader.Read.
ValueOf(bits) ==
  LET value[i \in 0 .. Len(bits)] == IF i = 0 THEN 0 ELSE 2 * value[i - 1] + bits[i]
  IN  value[Len(bits)]

Pack(f) == FlattenSeq([k \in DOMAIN Widths |-> BitsOf(f[k], Widths[k])])

Unpack(bits) ==
  [k \in DOMAIN Widths |->
     ValueOf(SubSeq(bits, Offset[k - 1] + 1, Offset[k]))]

-----------------------------------------------------------------------------
(* Files. *)

FrameWords == 2 + FrameBits

\* WriteG192Frame.
G192(f, bad) ==
  LET bits == Pack(f)
  IN  <<IF bad THEN "bad" ELSE "good", "length">>
      \o [i \in 1 .. FrameBits |-> IF bits[i] = 1 THEN "1" ELSE "0"]

\* The first thing wrong with the frame behind the first at words, if any.
FirstError(file, at, lenient) ==
  LET allowed == {"1", "0"} \cup IF lenient THEN {"zero"} ELSE {}
  IN  IF at = Len(file) THEN "EOF"
      ELSE IF at + FrameWords > Len(file) THEN "unexpected EOF"
      ELSE IF file[at + 1] \notin {"good", "bad"} THEN "sync"
      ELSE IF file[at + 2] # "length" THEN "length"
      ELSE IF \E i \in at + 3 .. at + FrameWords : file[i] \notin allowed THEN "bit"
      ELSE ""

\* Mutant: a bad word is found before the rest of its frame is read.
ConsumedWord(file, at, error) ==
  CASE error = "sync" -> at + 1
    [] error = "length" -> at + 2
    [] OTHER -> IF at + FrameWords > Len(file) THEN Len(file) ELSE at + FrameWords

\* A frame is read whole before any of it is looked at.
Consumed(file, at, error) ==
  IF at + FrameWords > Len(file) THEN Len(file) ELSE at + FrameWords

\* Mutant: an erased bit already makes the frame bad.
IsBadErased(sync, data) == sync = "bad" \/ \E i \in DOMAIN data : data[i] = "zero"

IsBad(sync, data) == sync = "bad" \/ \A i \in DOMAIN data : data[i] = "zero"

\* readG192FrameWithSoftbitPolicy: a lenient reader takes an erased bit for 0,
\* and a frame of nothing else for a bad one.
ReadG192Frame(file, at, lenient) ==
  LET error == FirstError(file, at, lenient)
      data == SubSeq(file, at + 3, at + FrameWords)
  IN  [error |-> error,
       next |-> Consumed(file, at, error),
       bits |-> IF error # "" THEN <<>>
                ELSE [i \in 1 .. FrameBits |-> IF data[i] = "1" THEN 1 ELSE 0],
       bad |-> error = "" /\ IsBad(file[at + 1], data)]

\* Mutant: a frame cut short ends the file like any other end.
EndsCut(error) == error \in {"EOF", "unexpected EOF"}

Ends(error) == error = "EOF"

\* ReadG192File: frames until the file ends between two of them, or an error.
ReadG192File(file) ==
  LET from[k \in 0 .. MaxFrames] ==
        LET r == ReadG192Frame(file, k * FrameWords, TRUE)
        IN  IF Ends(r.error) THEN [loaded |-> <<>>, error |-> ""]
            ELSE IF r.error # "" THEN [loaded |-> <<>>, error |-> r.error]
            ELSE [from[k + 1] EXCEPT !.loaded = <<<<r.bits, r.bad>>>> \o @]
  IN  from[0]

-----------------------------------------------------------------------------
(* A file's life. *)

SerialInit ==
  /\ words = <<>> /\ frames = <<>> /\ touched = {} /\ faults = 0
  /\ position = -1
  /\ strict = TRUE
  /\ readings = <<>>

WriteFrame(f, bad) ==
  /\ position = -1 /\ faults = 0
  /\ Len(frames) < MaxFrames
  /\ words' = words \o G192(f, bad)
  /\ frames' = Append(frames, <<f, bad>>)
  /\ UNCHANGED <<touched, faults, position, strict, readings>>

Faulty ==
  /\ position = -1 /\ frames # <<>> /\ faults < MaxFaults
  /\ faults' = faults + 1
  /\ UNCHANGED <<frames, position, strict, readings>>

\* One word of frame k is replaced.
Damage(k, i, word) ==
  /\ Faulty
  /\ LET at == (k - 1) * FrameWords + i
     IN  /\ at <= Len(words) /\ words[at] # word
         /\ words' = [words EXCEPT ![at] = word]
  /\ touched' = touched \cup {k}

\* All bits of frame k are erased.
EraseBits(k) ==
  /\ Faulty
  /\ k * FrameWords <= Len(words)
  /\ words' = [i \in DOMAIN words |->
                 IF i \in (k - 1) * FrameWords + 3 .. k * FrameWords THEN "zero"
                 ELSE words[i]]
  /\ touched' = touched \cup {k}

\* The file is cut after i words of frame k.
Cut(k, i) ==
  /\ Faulty
  /\ LET left == (k - 1) * FrameWords + i
     IN  /\ left < Len(words)
         /\ words' = SubSeq(words, 1, left)
  /\ touched' = touched \cup k .. Len(frames)

Open ==
  /\ position = -1
  /\ position' = 0
  /\ strict' \in BOOLEAN
  /\ UNCHANGED <<words, frames, touched, faults, readings>>

\* A caller reads frame after frame, past those it is told are damaged.
Read ==
  /\ position >= 0
  /\ \A r \in ToSet(readings) : r.error \notin {"EOF", "unexpected EOF"}
  /\ LET r == ReadG192Frame(words, position, ~strict)
     IN  /\ readings' = Append(readings, r)
         /\ position' = r.next
  /\ UNCHANGED <<words, frames, touched, faults, strict>>

SerialNext ==
  \/ \E f \in FrameValues, bad \in BOOLEAN : WriteFrame(f, bad)
  \/ \E k \in DOMAIN frames :
       \/ \E i \in {1, 2, FrameWords}, word \in {"bad", "zero", "other"} :
            Damage(k, i, word)
       \/ EraseBits(k)
       \/ \E i \in {0, 1, FrameWords - 1} : Cut(k, i)
  \/ Open
  \/ Read

SerialSpec == SerialInit /\ [][SerialNext]_serialVars

-----------------------------------------------------------------------------
(* Properties. *)

\* A frame no fault touched is read as it was written, fields and mark, at its
\* place, whatever was wrong with the frames before it, and by either reader
\* (g192.go 35-60 and 130-186, pack.go).
CleanFramesSurvive ==
  \A k \in DOMAIN readings :
    k \in DOMAIN frames /\ k \notin touched =>
      /\ readings[k].error = ""
      /\ Unpack(readings[k].bits) = frames[k][1]
      /\ readings[k].bad = frames[k][2]

\* Both readers are honest.  The lenient one differs from the strict one only on
\* frames with erased bits, which it accepts; it calls such a frame bad when it
\* was marked bad or nothing of it is left.  Loading a file returns the frames
\* before the first that cannot be read, and no error only if the file ended
\* behind a whole frame (g192.go 97-128 and 188-219).
ReadersAreHonest ==
  position = 0 =>
    LET file == ReadG192File(words)
        n == Len(file.loaded)
        tight(k) == ReadG192Frame(words, (k - 1) * FrameWords, FALSE)
        loose(k) == ReadG192Frame(words, (k - 1) * FrameWords, TRUE)
    IN  /\ \A k \in DOMAIN frames :
             LET at == (k - 1) * FrameWords
                 data == ToSet(SubSeq(words, at + 3, at + FrameWords))
             IN  at <= Len(words) /\ tight(k) # loose(k) =>
                   /\ tight(k).error = "bit" /\ "zero" \in data
                   /\ loose(k).error = "" =>
                        (loose(k).bad <=> words[at + 1] = "bad" \/ data = {"zero"})
        /\ \A k \in 1 .. n : /\ loose(k).error = ""
                             /\ file.loaded[k] = <<loose(k).bits, loose(k).bad>>
        /\ file.error = "" <=> Len(words) = n * FrameWords
        /\ file.error # "" => loose(n + 1).error = file.error
=============================================================================
