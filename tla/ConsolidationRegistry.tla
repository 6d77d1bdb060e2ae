------------------------ MODULE ConsolidationRegistry ------------------------
(***************************************************************************)
(* meter/consolidation_registry.{h,cc} as a state machine: update_from and *)
(* measurements, called as main_sender means to call them: an update per   *)
(* step at most, and a measurement in the first step of a reporting        *)
(* period, after that step's update.  Steps may be skipped.  SendLoop has  *)
(* the callers as they are, and shows what becomes of the properties then. *)
(***************************************************************************)
EXTENDS Consolidation

CONSTANTS
  Multiple,     \* reporting_frequency_ / update_frequency_
  Amounts,      \* the values measured
  MaxStep       \* bound: the last step of the clock

ASSUME ConsolidationAssumption ==
  /\ Multiple \in Nat \ {0}
  /\ MaxStep \in Nat /\ Multiple <= MaxStep
  /\ Amounts \subseteq Nat
  /\ Gauges \subseteq Ids

VARIABLES
  step,      \* the current step: WallTime / update_frequency_
  values,    \* my_values
  \* History.
  updated,   \* the step of the last update
  measured,  \* the step of the last measurement
  before,    \* the step of the one before it
  fed,       \* per id and reporting period, what update_from was given for it
  report,    \* the values returned last
  dropped    \* the ids erased by the last measurement, with their entry

vars == <<step, values, updated, measured, before, fed, report, dropped>>

Period == step \div Multiple
Periods == 0..(MaxStep \div Multiple)

\* The clock is an epoch time: there is a period before the current one.
Init ==
  /\ step = Multiple
  /\ values = Empty
  /\ updated = 0 /\ measured = 0 /\ before = 0
  /\ fed = [i \in Ids |-> [p \in Periods |-> 0]]
  /\ report = Empty
  /\ dropped = Empty

\* Time passes; steps may be skipped.
Tick ==
  /\ step' \in step + 1 .. MaxStep
  /\ UNCHANGED <<values, updated, measured, before, fed, report, dropped>>

\* update_from; a gauge's value is above kMinValue, which is 0 here.
Update(ms) ==
  /\ updated < step /\ measured < step
  /\ \A i \in DOMAIN ms \cap Gauges : ms[i] > 0
  /\ values' = UpdateFrom(values, ms, step, Multiple)
  /\ fed' = [i \in Ids |->
               IF i \in DOMAIN ms
                 THEN [fed[i] EXCEPT ![(step - 1) \div Multiple] = Merge(i, @, ms[i])]
                 ELSE fed[i]]
  /\ updated' = step
  /\ UNCHANGED <<step, measured, before, report, dropped>>

\* measurements
Measure ==
  /\ step % Multiple = 0 /\ measured < step
  /\ report' = Measured(values, Period)
  /\ values' = AfterMeasured(values, Period)
  /\ dropped' = [i \in DOMAIN values \ DOMAIN values' |-> values[i]]
  /\ measured' = step /\ before' = measured
  /\ UNCHANGED <<step, updated, fed>>

Next ==
  \/ Tick
  \/ \E S \in SUBSET Ids : \E ms \in [S -> Amounts] : Update(ms)
  \/ Measure

Spec == Init /\ [][Next]_vars

-----------------------------------------------------------------------------
(* Properties *)

Buckets == [marked : BOOLEAN, pos : Nat, open : Nat, last : Nat]

\* Every variable keeps its type.
TypeOK ==
  /\ step \in Nat /\ updated \in Nat /\ measured \in Nat /\ before \in Nat
  /\ DOMAIN values \subseteq Ids /\ \A i \in DOMAIN values : values[i] \in Buckets
  /\ fed \in [Ids -> [Periods -> Nat]]
  /\ DOMAIN report \subseteq Ids /\ \A i \in DOMAIN report : report[i] \in Nat
  /\ DOMAIN dropped \subseteq Ids

\* consolidation_registry.cc:45 "attribute the update to the correct time
\* period": a measurement reports, for every id, what the updates of the
\* reporting period that has just ended amount to, nothing more and nothing
\* less, and no id that had none.
ReportsEndedPeriod ==
  measured = step /\ measured > 0 =>
    \A i \in Ids :
      fed[i][Period - 1] = IF i \in DOMAIN report THEN report[i] ELSE 0

\* consolidation_registry.cc:84-85 "it means two periods with no activity, then
\* then we consider the entry safe to be removed": an entry is erased by the second
\* of two measurements if nothing was fed to it in the period that either reports.
\* (If a measurement is skipped, these are not the last two periods.)
ErasedIsIdle ==
  \A i \in DOMAIN dropped :
    /\ before > 0
    /\ \A s \in {before, measured} : fed[i][s \div Multiple - 1] = 0
=============================================================================
