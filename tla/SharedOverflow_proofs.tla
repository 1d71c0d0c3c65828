------------------------ MODULE SharedOverflow_proofs ------------------------
(***************************************************************************)
(* Streams that share one goroutine are isolated although they share the   *)
(* flag, for any number of streams: a call is never interrupted, and the   *)
(* filter clears the flag before the pass it judges by it.  The proof      *)
(* needs every stream on the one goroutine; with two goroutines TLC finds  *)
(* the interference (run overflow_two).                                    *)
(***************************************************************************)
EXTENDS SharedOverflow, TLAPS

\* At most one stream is in a call.
OneCall ==
  \A s, t \in Streams : at[s] # "idle" /\ at[t] # "idle" => s = t

\* In its first pass the flag is the stream's own; after it, the shift is the
\* one its own saturation asks for.
FlagIsMine ==
  \A s \in Streams :
    /\ at[s] = "pass1" => shift[s] = 0 /\ overflow = saturated[s]
    /\ at[s] \in {"rescale", "pass2"} => shift[s] = 2 /\ saturated[s] = TRUE
    /\ at[s] = "filtered" => shift[s] = IF saturated[s] THEN 2 ELSE 0

Inv == TypeOK /\ OneCall /\ FlagIsMine /\ StreamIsolation

\* Nobody runs.
LEMMA InitInv == Init => Inv
<1> SUFFICES ASSUME Init PROVE Inv
  OBVIOUS
<1>1. << >> \in Seq({0, 2})
  OBVIOUS
<1>2. TypeOK
  BY <1>1 DEF Init, TypeOK, Places
<1>3. OneCall /\ FlagIsMine /\ StreamIsolation
  BY DEF Init, OneCall, FlagIsMine, StreamIsolation
<1>4. QED
  BY <1>2, <1>3 DEF Inv

\* The steps of every stream keep the types.
LEMMA StepTypes ==
  ASSUME TypeOK, NEW s \in Streams, Step(s)
  PROVE  TypeOK'
<1> USE DEF TypeOK, Places, Goto
<1>1. CASE StartCall(s)
  <2>1. /\ at' = [at EXCEPT ![s] = "run"]
        /\ subframe' = [subframe EXCEPT ![s] = 0]
        /\ UNCHANGED <<overflow, shift, saturated, took, alone, committed>>
    BY <1>1 DEF StartCall
  <2>2. QED
    BY <2>1
<1>e. CASE EndCall(s)
  BY <1>e DEF EndCall
<1>r. CASE Reset(s)
  <2> DEFINE nothing == << >>
  <2>1. nothing \in Seq({0, 2})
    OBVIOUS
  <2>2. /\ took' = [took EXCEPT ![s] = nothing]
        /\ alone' = [alone EXCEPT ![s] = nothing]
        /\ committed' = [committed EXCEPT ![s] = nothing]
        /\ shift' = [shift EXCEPT ![s] = 0]
        /\ UNCHANGED <<overflow, at, subframe, saturated>>
    BY <1>r DEF Reset
  <2> HIDE DEF nothing
  <2>3. QED
    BY <2>1, <2>2
<1>2. CASE SaturateOutside(s) \/ Pass1Saturates(s) \/ Pass2Saturates(s)
  BY <1>2 DEF SaturateOutside, Pass1Saturates, Pass2Saturates
<1>3. CASE Clear(s) \/ CheckClean(s) \/ CheckOverflow(s)
  BY <1>3 DEF Clear, CheckClean, CheckOverflow
<1>4. CASE ClearAgain(s) \/ Pass2Ends(s)
  BY <1>4 DEF ClearAgain, Pass2Ends
<1>5. CASE Commit(s)
  <2>1. /\ Append(took[s], shift[s]) \in Seq({0, 2})
        /\ \A x \in {0, 2} : /\ Append(alone[s], x) \in Seq({0, 2})
                             /\ Append(committed[s], x) \in Seq({0, 2})
    OBVIOUS
  <2>2. QED
    BY <1>5, <2>1 DEF Commit
<1>6. QED
  BY <1>1, <1>e, <1>r, <1>2, <1>3, <1>4, <1>5 DEF Step

\* A step of the one stream that runs keeps the invariant.
LEMMA StepInv ==
  ASSUME OneGoroutine, Inv, NEW s \in Streams, Step(s)
  PROVE  Inv'
<1> USE SharedAssumption
<1>t. TypeOK /\ OneCall /\ FlagIsMine /\ StreamIsolation
  BY DEF Inv
<1>1. TypeOK'
  BY <1>t, StepTypes
\* A call starts when no stream is in one; every other step is of the stream
\* whose call is in progress.
<1>2. /\ \A t \in Streams \ {s} : at[t] = "idle" /\ at'[t] = "idle"
      /\ at' \in [Streams -> Places]
  <2>1. CASE StartCall(s) \/ Reset(s)
    BY <1>t, <1>1, <2>1 DEF StartCall, Reset, Goto, TypeOK, OneGoroutine
  <2>2. CASE at[s] # "idle" /\ \A t \in Streams \ {s} : at'[t] = at[t]
    BY <1>t, <1>1, <2>2 DEF OneCall, TypeOK
  <2>3. Step(s) => \/ StartCall(s) \/ Reset(s)
                   \/ at[s] # "idle" /\ \A t \in Streams \ {s} : at'[t] = at[t]
    BY <1>t DEF Step, SaturateOutside, EndCall, Clear, Pass1Saturates,
       CheckClean, CheckOverflow, ClearAgain, Pass2Saturates, Pass2Ends,
       Commit, Goto, TypeOK
  <2>4. QED
    BY <2>1, <2>2, <2>3
<1>3. OneCall'
  BY <1>2 DEF OneCall
<1>4. FlagIsMine'
  <2> SUFFICES /\ at'[s] = "pass1" => shift'[s] = 0 /\ overflow' = saturated'[s]
               /\ at'[s] \in {"rescale", "pass2"} =>
                    shift'[s] = 2 /\ saturated'[s] = TRUE
               /\ at'[s] = "filtered" =>
                    shift'[s] = IF saturated'[s] THEN 2 ELSE 0
    BY <1>2 DEF FlagIsMine
  <2> USE <1>t DEF FlagIsMine, TypeOK, Goto
  <2>1. CASE StartCall(s) \/ EndCall(s) \/ Reset(s)
    BY <1>2, <2>1 DEF StartCall, EndCall, Reset, OneGoroutine
  <2>2. CASE SaturateOutside(s) \/ Pass1Saturates(s) \/ Pass2Saturates(s)
    BY <2>2 DEF SaturateOutside, Pass1Saturates, Pass2Saturates
  <2>3. CASE Clear(s)
    BY <2>3 DEF Clear
  <2>4. CASE CheckClean(s) \/ CheckOverflow(s)
    BY <2>4 DEF CheckClean, CheckOverflow
  <2>5. CASE ClearAgain(s) \/ Pass2Ends(s) \/ Commit(s)
    BY <2>5 DEF ClearAgain, Pass2Ends, Commit
  <2>6. QED
    BY <2>1, <2>2, <2>3, <2>4, <2>5 DEF Step
<1>5. StreamIsolation'
  <2>1. CASE Commit(s)
    BY <1>t, <2>1 DEF Commit, StreamIsolation, FlagIsMine
  <2>2. CASE Reset(s)
    BY <1>t, <2>2 DEF Reset, StreamIsolation
  <2>3. CASE took' = took /\ alone' = alone
    BY <1>t, <2>3 DEF StreamIsolation
  <2>4. QED
    BY <2>1, <2>2, <2>3 DEF Step, StartCall, SaturateOutside, EndCall, Clear,
       Pass1Saturates, CheckClean, CheckOverflow, ClearAgain, Pass2Saturates,
       Pass2Ends
<1>6. QED
  BY <1>1, <1>3, <1>4, <1>5 DEF Inv

\* On one goroutine, however many streams there are and whatever saturates
\* where, every filter run takes the recovery path exactly when its own
\* arithmetic overflowed: the package-global flag is not observable.
THEOREM IsolatedOnOneGoroutine ==
  ASSUME OneGoroutine
  PROVE  Spec => []StreamIsolation
<1>1. Inv /\ [Next]_vars => Inv'
  <2> SUFFICES ASSUME Inv, [Next]_vars PROVE Inv'
    OBVIOUS
  <2>1. CASE Next
    BY <2>1, StepInv DEF Next
  <2>2. CASE UNCHANGED vars
    BY <2>2 DEF vars, Inv, TypeOK, OneCall, FlagIsMine, StreamIsolation
  <2>3. QED
    BY <2>1, <2>2
<1>2. Inv => StreamIsolation
  BY DEF Inv
<1>3. QED
  BY InitInv, <1>1, <1>2, PTL DEF Spec
=============================================================================
