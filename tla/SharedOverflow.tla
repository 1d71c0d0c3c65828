--------------------------- MODULE SharedOverflow ---------------------------
(***************************************************************************)
(* The sticky overflow flag of internal/fixed and the synthesis filter     *)
(* that reads it.                                                          *)
(*                                                                         *)
(* The flag is one package variable.  Every saturating operation of every  *)
(* codec instance of the process may set it; filterSubframe of any         *)
(* instance clears it before its first pass, reads it after, and decides   *)
(* from it whether to run again with the excitation divided by four, which *)
(* the strict decoder then does to its whole excitation history.           *)
(*                                                                         *)
(* A stream is one Encoder or Decoder.  Its goroutine runs one call at a   *)
(* time.  A step is one access to the flag, with the private work around   *)
(* it; the interleavings of such steps are the least a Go program with     *)
(* this data race may do.                                                  *)
(***************************************************************************)
EXTENDS Integers, Sequences

CONSTANTS
  Streams,     \* codec instances
  Decoders,    \* those that are Decoders
  Strict,      \* Decoders driven by DecodeFrame alone
  Goroutines,
  On,          \* On[s]: the goroutine that calls stream s
  MaxFilters   \* filter runs of a stream between two Resets

ASSUME SharedAssumption ==
  /\ Strict \subseteq Decoders /\ Decoders \subseteq Streams
  /\ On \in [Streams -> Goroutines]
  /\ MaxFilters \in Nat

VARIABLES
  overflow,   \* the package variable
  at,         \* where each stream is ("idle": no call in progress)
  subframe,   \* filter runs in the call so far
  shift,      \* lastExcitationScaleShift of the stream's synthesizer
  saturated,  \* whether the stream's own first pass saturated
  took,       \* the shifts its filter runs chose, since Reset
  alone,      \* the shifts they would have chosen with a flag of their own
  committed   \* the shifts applied to its excitation history

vars == <<overflow, at, subframe, shift, saturated, took, alone, committed>>

Init ==
  /\ overflow = FALSE
  /\ at = [s \in Streams |-> "idle"]
  /\ subframe = [s \in Streams |-> 0]
  /\ shift = [s \in Streams |-> 0]
  /\ saturated = [s \in Streams |-> FALSE]
  /\ took = [s \in Streams |-> << >>]
  /\ alone = [s \in Streams |-> << >>]
  /\ committed = [s \in Streams |-> << >>]

Goto(s, l) == at' = [at EXCEPT ![s] = l]

-----------------------------------------------------------------------------
(* Calls.                                                                  *)

\* A goroutine calls DecodeFrame or EncodeFrame of one of its streams.
StartCall(s) ==
  /\ \A t \in Streams : On[t] = On[s] => at[t] = "idle"
  /\ s \in Decoders => Len(took[s]) + 2 <= MaxFilters
  /\ Goto(s, "run")
  /\ subframe' = [subframe EXCEPT ![s] = 0]
  /\ UNCHANGED <<overflow, shift, saturated, took, alone, committed>>

\* Saturating arithmetic anywhere in the codec but in the passes of the
\* filter: gains, postfilter, high-pass filter, LSP, correlations...
SaturateOutside(s) ==
  /\ at[s] = "run"
  /\ overflow' = TRUE
  /\ UNCHANGED <<at, subframe, shift, saturated, took, alone, committed>>

\* A Decoder filters two subframes; an Encoder filters each candidate of its
\* quality search, of which there may be none.
EndCall(s) ==
  /\ at[s] = "run"
  /\ s \in Decoders => subframe[s] = 2
  /\ Goto(s, "idle")
  /\ UNCHANGED <<overflow, subframe, shift, saturated, took, alone, committed>>

\* Reset starts the stream again; the flag is not the stream's to reset.
Reset(s) ==
  /\ \A t \in Streams : On[t] = On[s] => at[t] = "idle"
  /\ shift' = [shift EXCEPT ![s] = 0]
  /\ took' = [took EXCEPT ![s] = << >>]
  /\ alone' = [alone EXCEPT ![s] = << >>]
  /\ committed' = [committed EXCEPT ![s] = << >>]
  /\ UNCHANGED <<overflow, at, subframe, saturated>>

-----------------------------------------------------------------------------
(* filterSubframe.                                                         *)

\* Mutant: the first pass starts with whatever the flag holds.
ClearForgotten(s) ==
  /\ at[s] = "run"
  /\ Len(took[s]) < MaxFilters
  /\ s \in Decoders => subframe[s] < 2
  /\ shift' = [shift EXCEPT ![s] = 0]
  /\ saturated' = [saturated EXCEPT ![s] = FALSE]
  /\ Goto(s, "pass1")
  /\ UNCHANGED <<overflow, subframe, took, alone, committed>>

Clear(s) ==
  /\ at[s] = "run"
  /\ Len(took[s]) < MaxFilters
  /\ s \in Decoders => subframe[s] < 2
  /\ shift' = [shift EXCEPT ![s] = 0]
  /\ saturated' = [saturated EXCEPT ![s] = FALSE]
  /\ overflow' = FALSE
  /\ Goto(s, "pass1")
  /\ UNCHANGED <<subframe, took, alone, committed>>

\* An LMult, LMsu, LShl or Round of the first pass clamps its result.
Pass1Saturates(s) ==
  /\ at[s] = "pass1"
  /\ overflow' = TRUE
  /\ saturated' = [saturated EXCEPT ![s] = TRUE]
  /\ UNCHANGED <<at, subframe, shift, took, alone, committed>>

CheckClean(s) ==
  /\ at[s] = "pass1"
  /\ ~overflow
  /\ Goto(s, "filtered")
  /\ UNCHANGED <<overflow, subframe, shift, saturated, took, alone, committed>>

\* Mutant: the factor of four kept as a shift of four.
CheckOverflowFactor(s) ==
  /\ at[s] = "pass1"
  /\ overflow
  /\ shift' = [shift EXCEPT ![s] = 4]
  /\ Goto(s, "rescale")
  /\ UNCHANGED <<overflow, subframe, saturated, took, alone, committed>>

CheckOverflow(s) ==
  /\ at[s] = "pass1"
  /\ overflow
  /\ shift' = [shift EXCEPT ![s] = 2]
  /\ Goto(s, "rescale")
  /\ UNCHANGED <<overflow, subframe, saturated, took, alone, committed>>

ClearAgain(s) ==
  /\ at[s] = "rescale"
  /\ overflow' = FALSE
  /\ Goto(s, "pass2")
  /\ UNCHANGED <<subframe, shift, saturated, took, alone, committed>>

\* The second pass may saturate too; nobody reads the flag after it.
Pass2Saturates(s) ==
  /\ at[s] = "pass2"
  /\ overflow' = TRUE
  /\ UNCHANGED <<at, subframe, shift, saturated, took, alone, committed>>

Pass2Ends(s) ==
  /\ at[s] = "pass2"
  /\ Goto(s, "filtered")
  /\ UNCHANGED <<overflow, subframe, shift, saturated, took, alone, committed>>

\* The caller of the filter.  The strict decoder scales its excitation
\* history by the shift; DecodeFrameEnhanced, DecodeFramePostfilterBlend and
\* the Encoder's simulated decoder never ask for the shift.
Commit(s) ==
  /\ at[s] = "filtered"
  /\ took' = [took EXCEPT ![s] = Append(@, shift[s])]
  /\ alone' = [alone EXCEPT ![s] = Append(@, IF saturated[s] THEN 2 ELSE 0)]
  /\ committed' = [committed EXCEPT
                     ![s] = Append(@, IF s \in Strict THEN shift[s] ELSE 0)]
  /\ subframe' = [subframe EXCEPT ![s] = @ + 1]
  /\ Goto(s, "run")
  /\ UNCHANGED <<overflow, shift, saturated>>

-----------------------------------------------------------------------------
Step(s) ==
  \/ StartCall(s) \/ SaturateOutside(s) \/ EndCall(s) \/ Reset(s)
  \/ Clear(s) \/ Pass1Saturates(s) \/ CheckClean(s) \/ CheckOverflow(s)
  \/ ClearAgain(s) \/ Pass2Saturates(s) \/ Pass2Ends(s) \/ Commit(s)

Next == \E s \in Streams : Step(s)

Spec == Init /\ [][Next]_vars

-----------------------------------------------------------------------------
(* Properties.                                                             *)

Places == {"idle", "run", "pass1", "rescale", "pass2", "filtered"}

\* Types of the variables.
TypeOK ==
  /\ overflow \in BOOLEAN
  /\ at \in [Streams -> Places]
  /\ subframe \in [Streams -> Nat]
  /\ shift \in [Streams -> {0, 2}]
  /\ saturated \in [Streams -> BOOLEAN]
  /\ took \in [Streams -> Seq({0, 2})]
  /\ alone \in [Streams -> Seq({0, 2})]
  /\ committed \in [Streams -> Seq({0, 2})]

\* What a stream decodes depends on its own input alone: its filter runs take
\* the recovery path exactly when they would with a flag of their own.
StreamIsolation == took = alone

\* "The decoder is responsible for committing the scaled excitation history
\* when this recovery path is taken" (filter.go), whichever decode method the
\* caller uses.
RecoveryIsCommitted == \A s \in Decoders : committed[s] = took[s]

\* All streams are called by one goroutine.
OneGoroutine == \A s, t \in Streams : On[s] = On[t]
=============================================================================
