-------------------------------- MODULE Timer --------------------------------
(***************************************************************************)
(* meter/default_timer.cc and default_distribution_summary.h: four         *)
(* statistics, each with a step bucket of its own that Record updates and  *)
(* Measure polls one after the other.  A bucket rolls when it is next used *)
(* (StepNumber shows when that is as good as atomic).  A value is the set  *)
(* of the records that went into it: counts, sums and maxima follow.       *)
(***************************************************************************)
EXTENDS Integers

CONSTANTS
  Records,       \* the calls of Record, each by some thread, at some time
  Negative,      \* those of a negative duration
  LastTimerStep  \* bound on the clock

ASSUME TimerAssumption == LastTimerStep \in Nat

VARIABLES
  timerStep,  \* the clock's step
  bucket,     \* sub_count_, sub_total_time_, sub_total_sq_, sub_max_
  total,      \* count_ and total_time_
  doing,      \* for each record what Record does next
  polling,    \* what Measure polls next
  polled,     \* what it polled of each statistic
  madeIn,     \* history: the step in which a record went into a statistic, or -1
  polledIn    \* history: the step in which each statistic was polled

timerVars == <<timerStep, bucket, total, doing, polling, polled, madeIn, polledIn>>

Statistics == {"count", "totalTime", "totalOfSquares", "max"}
Totals     == {"count_", "total_time_"}

\* Record's order, and Measure's, which is the same.
NextDone == [begin |-> "count", count |-> "count_", count_ |-> "total_time_",
             total_time_ |-> "totalTime", totalTime |-> "totalOfSquares",
             totalOfSquares |-> "max", max |-> "done"]
NextPoll == [count |-> "totalTime", totalTime |-> "totalOfSquares",
             totalOfSquares |-> "max", max |-> "done"]

\* StepNumber: roll, for the clock's step
Rolled(b) ==
  IF b.pos = timerStep THEN b
  ELSE [pos  |-> timerStep, open |-> {},
        last |-> IF b.pos = timerStep - 1 THEN b.open ELSE {}]

\* StepNumber: Add, UpdateCurrentMax
Updated(b, r) == [Rolled(b) EXCEPT !.open = @ \cup {r}]

TimerInit ==
  /\ timerStep = 0
  /\ bucket = [s \in Statistics |-> [pos |-> 0, open |-> {}, last |-> {}]]
  /\ total = [s \in Totals |-> {}]
  /\ doing = [r \in Records |-> "begin"]
  /\ polling = "done"
  /\ polled = [s \in Statistics |-> {}]
  /\ madeIn = [r \in Records |-> [s \in Statistics |-> -1]]
  /\ polledIn = [s \in Statistics |-> -1]

NextTimerStep ==
  /\ timerStep < LastTimerStep
  /\ timerStep' = timerStep + 1
  /\ UNCHANGED <<bucket, total, doing, polling, polled, madeIn, polledIn>>

\* Mutant: the count is incremented before the duration is looked at.
BeginRecordCounted(r) ==
  /\ doing[r] = "begin"
  /\ doing' = [doing EXCEPT ![r] = IF r \in Negative THEN "done" ELSE NextDone["count"]]
  /\ bucket' = [bucket EXCEPT !["count"] = Updated(@, r)]
  /\ madeIn' = [madeIn EXCEPT ![r]["count"] = IF r \in Negative THEN @ ELSE timerStep]
  /\ UNCHANGED <<timerStep, total, polling, polled, polledIn>>

\* A negative duration is ignored (Updated() is all that is left of the call).
BeginRecord(r) ==
  /\ doing[r] = "begin"
  /\ doing' = [doing EXCEPT ![r] = IF r \in Negative THEN "done" ELSE NextDone["begin"]]
  /\ UNCHANGED <<timerStep, bucket, total, polling, polled, madeIn, polledIn>>

UpdateStatistic(r) ==
  /\ doing[r] \in Statistics
  /\ bucket' = [bucket EXCEPT ![doing[r]] = Updated(@, r)]
  /\ madeIn' = [madeIn EXCEPT ![r] = [@ EXCEPT ![doing[r]] = timerStep]]
  /\ doing' = [doing EXCEPT ![r] = NextDone[doing[r]]]
  /\ UNCHANGED <<timerStep, total, polling, polled, polledIn>>

UpdateTotal(r) ==
  /\ doing[r] \in Totals
  /\ total' = [total EXCEPT ![doing[r]] = @ \cup {r}]
  /\ doing' = [doing EXCEPT ![r] = NextDone[doing[r]]]
  /\ UNCHANGED <<timerStep, bucket, polling, polled, madeIn, polledIn>>

BeginMeasure ==
  /\ polling = "done"
  /\ polling' = "count"
  /\ UNCHANGED <<timerStep, bucket, total, doing, polled, madeIn, polledIn>>

PollStatistic ==
  /\ polling \in Statistics
  /\ bucket' = [bucket EXCEPT ![polling] = Rolled(@)]
  /\ polled' = [polled EXCEPT ![polling] = Rolled(bucket[polling]).last]
  /\ polledIn' = [polledIn EXCEPT ![polling] = timerStep]
  /\ polling' = NextPoll[polling]
  /\ UNCHANGED <<timerStep, total, doing, madeIn>>

TimerNext ==
  \/ NextTimerStep \/ BeginMeasure \/ PollStatistic
  \/ \E r \in Records : BeginRecord(r) \/ UpdateStatistic(r) \/ UpdateTotal(r)

TimerSpec == TimerInit /\ [][TimerNext]_timerVars

----------------------------------------------------------------------------
(* Properties *)

Measured == polling = "done" /\ \A s, z \in Statistics : polledIn[s] = polledIn[z] /\ polledIn[s] >= 0

\* A Measure in which no boundary falls reports the interval before: whether
\* the buckets were used in the meantime or not, each statistic holds what was
\* recorded then, no negative duration, and all that any other holds, but for
\* records that were being made when the interval began or ended.
StatisticsAgree ==
  Measured =>
    \A s, z \in Statistics : \A r \in polled[s] :
      /\ r \notin Negative /\ madeIn[r][s] = polledIn[s] - 1
      /\ r \in polled[z] \/ madeIn[r][z] # madeIn[r][s]

=============================================================================
