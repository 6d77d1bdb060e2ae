---------------------------- MODULE Consolidation ----------------------------
(***************************************************************************)
(* meter/consolidation_registry.{h,cc}, the data: a hash map from ids to   *)
(* ConsolidatedValues, each a StepNumber over the reporting period and a   *)
(* mark.  The StepNumber is used with the mutex held, so it is the atomic  *)
(* bucket of StepBucket, here as a record.                                 *)
(*                                                                         *)
(* Time is in update periods ("steps").  A counter's value is its number   *)
(* of increments, the linear scaling to a rate per second (value /         *)
(* update_multiple_) left out.  Gauge values are ranks: 0 stands for       *)
(* kMinValue, below every value a gauge can measure.                       *)
(***************************************************************************)
EXTENDS Integers

CONSTANTS
  Ids,    \* the ids of the measurements
  Gauges  \* those whose statistic tag makes aggregate_op return Max

\* update(): StepNumber's UpdateCurrentMax or Add.
Merge(i, value, a) ==
  IF i \notin Gauges THEN value + a ELSE IF a > value THEN a ELSE value

\* StepNumber::RollCount; the clock's period never goes back in a bucket.
RollTo(b, period) ==
  IF b.pos < period
    THEN [b EXCEPT !.pos = period, !.open = 0,
                   !.last = IF b.pos = period - 1 THEN b.open ELSE 0]
    ELSE b

\* ConsolidatedValue's constructor.
NewEntry(period) == [marked |-> FALSE, pos |-> period, open |-> 0, last |-> 0]

Empty == [i \in {} |-> NewEntry(0)]

\* Mutant: the clock is not set back.
UpdateFromNow(values, ms, step, multiple) ==
  LET period == step \div multiple
      At(i) == IF i \in DOMAIN values THEN RollTo(values[i], period)
                                      ELSE NewEntry(period)
  IN  [i \in DOMAIN values \cup DOMAIN ms |->
         IF i \in DOMAIN ms THEN [At(i) EXCEPT !.open = Merge(i, @, ms[i])]
                            ELSE values[i]]

\* ConsolidationRegistry::update_from, with the clock set back to step - 1.
\* ms is a function from the ids measured to their values, NaNs left out.
UpdateFrom(values, ms, step, multiple) ==
  LET period == (step - 1) \div multiple
      At(i) == IF i \in DOMAIN values THEN RollTo(values[i], period)
                                      ELSE NewEntry(period)
  IN  [i \in DOMAIN values \cup DOMAIN ms |->
         IF i \in DOMAIN ms THEN [At(i) EXCEPT !.open = Merge(i, @, ms[i])]
                            ELSE values[i]]

\* has_value()
HasValue(e, period) == RollTo(e, period).last > 0

\* Mutant: the value of the current period instead of the last completed one.
MeasuredCurrent(values, period) ==
  [i \in {j \in DOMAIN values : RollTo(values[j], period).open > 0} |->
     RollTo(values[i], period).open]

\* ConsolidationRegistry::measurements: what it returns ...
Measured(values, period) ==
  [i \in {j \in DOMAIN values : HasValue(values[j], period)} |->
     RollTo(values[i], period).last]

\* Mutant: a mark is not cleared when the entry has a value again.
AfterMeasuredStaysMarked(values, period) ==
  LET Keep(i) == HasValue(values[i], period) \/ ~values[i].marked
  IN  [i \in {j \in DOMAIN values : Keep(j)} |->
         [RollTo(values[i], period)
            EXCEPT !.marked = @ \/ ~HasValue(values[i], period)]]

\* Mutant: what was measured is taken out.
AfterMeasuredTaken(values, period) ==
  LET Keep(i) == HasValue(values[i], period) \/ ~values[i].marked
  IN  [i \in {j \in DOMAIN values : Keep(j)} |->
         [RollTo(values[i], period)
            EXCEPT !.marked = ~HasValue(values[i], period), !.last = 0]]

\* ... and what it leaves: entries with no value are marked, and erased if
\* they were already marked.
AfterMeasured(values, period) ==
  LET Keep(i) == HasValue(values[i], period) \/ ~values[i].marked
  IN  [i \in {j \in DOMAIN values : Keep(j)} |->
         [RollTo(values[i], period)
            EXCEPT !.marked = ~HasValue(values[i], period)]]
=============================================================================
