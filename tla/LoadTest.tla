----------------------------- MODULE LoadTest ------------------------------
(***************************************************************************)
(* The load generator, cmd/g729loadtest: each of a number of streams codes *)
(* one frame per period, or one after the other when it is not paced; the  *)
(* streams' counts are merged, and limits on the merged ratios decide the  *)
(* exit code.                                                              *)
(*                                                                         *)
(* The streams share nothing but the machine, which is what makes a wake   *)
(* late or a frame slow: how late and how slow is an input.  Time is in    *)
(* ticks from the start of the test, on each stream's own clock.           *)
(***************************************************************************)
EXTENDS Integers, Sequences, FiniteSets
LOCAL INSTANCE SequencesExt

CONSTANTS
  StreamCount,    \* -streams
  Duration,       \* -duration, in ticks
  FrameDeadline,  \* the period of a frame, in ticks (10 ms)
  WakeThreshold,  \* -wake-late-threshold, in ticks
  Lateness,       \* how late a sleeping stream may wake
  Processing,     \* how long a frame may take
  Percent         \* the percentile the limit is on (99)

Streams == 0 .. StreamCount - 1

\* A frame takes time; without pacing the test would not end otherwise.
ASSUME LoadAssumption ==
  /\ StreamCount \in Nat \ {0} /\ Duration \in Nat \ {0}
  /\ FrameDeadline \in Nat \ {0} /\ WakeThreshold \in Nat
  /\ Lateness \subseteq Nat /\ Processing \subseteq Nat \ {0}
  /\ Percent \in 1 .. 100

VARIABLES
  realtime,     \* -realtime: the streams are paced
  clock,        \* stream |-> its time
  due,          \* stream |-> when its next frame is due
  running,      \* the streams whose loop has not ended
  counts,       \* stream |-> its streamResult
  report        \* the merged report and the exit code; <<>> before

loadVars == <<realtime, clock, due, running, counts, report>>

-----------------------------------------------------------------------------
\* Streams start one after another, spread over a period.
FirstDue(i) == IF realtime THEN (i * FrameDeadline) \div StreamCount ELSE 0

Later(a, b) == IF a > b THEN a ELSE b

LoadInit ==
  /\ realtime \in BOOLEAN
  /\ clock = [i \in Streams |-> 0]
  /\ due = [i \in Streams |-> FirstDue(i)]
  /\ running = Streams
  /\ counts = [i \in Streams |-> [frames |-> 0, errors |-> 0, misses |-> 0,
                                  wakeLate |-> 0, took |-> <<>>]]
  /\ report = <<>>

\* Mutant: a stream does not wait for its frame.
WokenAtOnce(i, late) == clock[i]

Woken(i, late) ==
  IF realtime THEN Later(clock[i], due[i] + (IF clock[i] < due[i] THEN late ELSE 0))
  ELSE clock[i]

WakesLate(i, woke) == realtime /\ woke > due[i] + WakeThreshold

\* Mutant: a stream that wakes late does not look at the deadline.
EndStreamInTime(i, late) ==
  /\ i \in running
  /\ Woken(i, late) > Duration /\ ~WakesLate(i, Woken(i, late))
  /\ running' = running \ {i}
  /\ UNCHANGED <<realtime, clock, due, counts, report>>

\* The loop of runStream sleeps and wakes behind the deadline.
EndStream(i, late) ==
  /\ i \in running
  /\ LET woke == Woken(i, late)
     IN  /\ woke > Duration
         /\ counts' = [counts EXCEPT ![i].wakeLate =
                         @ + IF WakesLate(i, woke) THEN 1 ELSE 0]
  /\ running' = running \ {i}
  /\ UNCHANGED <<realtime, clock, due, report>>

\* It wakes in time, codes a frame, in which the codec may fail, and counts.
\* The schedule is fixed: a stream that fell behind catches up.
RunFrame(i, late, took, fails) ==
  /\ i \in running
  /\ LET woke == Woken(i, late)
     IN  /\ woke <= Duration
         /\ clock' = [clock EXCEPT ![i] = woke + took]
         /\ due' = [due EXCEPT ![i] = @ + FrameDeadline]
         /\ counts' = [counts EXCEPT ![i] =
              [frames |-> @.frames + 1,
               errors |-> @.errors + IF fails THEN 1 ELSE 0,
               misses |-> @.misses + IF took > FrameDeadline THEN 1 ELSE 0,
               wakeLate |-> @.wakeLate + IF WakesLate(i, woke) THEN 1 ELSE 0,
               took |-> Append(@.took, took)]]
  /\ UNCHANGED <<realtime, running, report>>

-----------------------------------------------------------------------------
(* The report. *)

\* The sum over all streams of what x gives for each.
Merged(x) ==
  LET sum[k \in 0 .. StreamCount] == IF k = 0 THEN 0 ELSE sum[k - 1] + x[k - 1]
  IN  sum[StreamCount]

\* How many of a stream's frames took no longer than v.
Within(i, v) ==
  Cardinality({j \in DOMAIN counts[i].took : counts[i].took[j] <= v})

\* The time at a rank of the streams' processing times in ascending order: the
\* least that as many frames do not exceed.
Ranked(rank) ==
  LET times == UNION {ToSet(counts[i].took) : i \in Streams}
      reach == {v \in times : Merged([i \in Streams |-> Within(i, v)]) >= rank}
  IN  CHOOSE v \in reach : \A w \in reach : v <= w

\* Mutant: the index of a percentile is rounded down.
PercentileDown(p, total) ==
  LET index == (p * total) \div 100 - 1
  IN  IF total = 0 THEN 0 ELSE Ranked(IF index < 0 THEN 1 ELSE index + 1)

\* The nearest rank, rounded up, of as many times as there are in all.
Percentile(p, total) ==
  LET index == (p * total + 99) \div 100 - 1
  IN  IF total = 0 THEN 0 ELSE Ranked(IF index < 0 THEN 1 ELSE index + 1)

\* mergeResults, and main's judgement of it under the default limits of 1.0.
Report ==
  /\ running = {} /\ report = <<>>
  /\ LET frames == Merged([i \in Streams |-> counts[i].frames])
         errors == Merged([i \in Streams |-> counts[i].errors])
         misses == Merged([i \in Streams |-> counts[i].misses])
         wakeLate == Merged([i \in Streams |-> counts[i].wakeLate])
         times == Merged([i \in Streams |-> Len(counts[i].took)])
         top == Percentile(Percent, times)
     IN  report' =
           <<[frames |-> frames, misses |-> misses, wakeLate |-> wakeLate,
              exit |-> IF \/ errors > 0
                          \/ misses > frames
                          \/ top > FrameDeadline
                          \/ realtime /\ frames > 0 /\ wakeLate > frames
                       THEN 1 ELSE 0]>>
  /\ UNCHANGED <<realtime, clock, due, running, counts>>

LoadNext ==
  \/ \E i \in Streams, late \in Lateness :
       \/ EndStream(i, late)
       \/ \E took \in Processing, fails \in BOOLEAN : RunFrame(i, late, took, fails)
  \/ Report

\* Goroutines are scheduled and clocks advance.
LoadSpec == LoadInit /\ [][LoadNext]_loadVars /\ WF_loadVars(LoadNext)

-----------------------------------------------------------------------------
(* Properties. *)

\* A test that passes with the default limits missed the deadline of no more
\* frames than the percentile leaves out, all streams taken together: the limit
\* on the percentile is a limit on misses, which the default limit on the miss
\* ratio itself is not (main.go 77-96, 293-334 and 362-374).
PassBoundsMisses ==
  report # <<>> /\ report[1].exit = 0 =>
    100 * report[1].misses <= (100 - Percent) * report[1].frames

\* A paced stream never codes more than real time asks of it, however it caught
\* up, and counts at most one late wake more than frames, the one that ended it:
\* that is all by which the reported ratio may pass one (main.go 170-216).
PacedIsRealTime ==
  realtime => \A i \in Streams :
    /\ counts[i].frames > 0 =>
         FirstDue(i) + (counts[i].frames - 1) * FrameDeadline <= Duration
    /\ counts[i].wakeLate <= counts[i].frames + IF i \in running THEN 0 ELSE 1

\* Every test ends with a report, paced or not.
LoadTestEnds == <>(report # <<>>)
=============================================================================
