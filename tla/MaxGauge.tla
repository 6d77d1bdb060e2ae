------------------------------ MODULE MaxGauge ------------------------------
(***************************************************************************)
(* meter/default_max_gauge.h: value_, the largest value since the gauge    *)
(* was made, which Value() returns.  Update loads and stores it in two     *)
(* steps.  What Measure reports is the step bucket's (StepNumber).         *)
(***************************************************************************)
EXTENDS Integers

CONSTANTS
  Updaters,     \* the threads that call Update
  GaugeValues,  \* the values they call it with
  MaxUpdates    \* bound on the calls

ASSUME GaugeValuesAreIntegers == GaugeValues \subseteq Int

VARIABLES
  localMax,  \* value_
  update,    \* for each thread its call of Update: pc, v, current
  updates,   \* how many calls were made
  given,     \* history: the values of the calls that have stored
  raced      \* history: two calls have overlapped

maxGaugeVars == <<localMax, update, updates, given, raced>>

UpdateIdle(t) == update[t].pc = "idle"

Larger(a, b) == IF a > b THEN a ELSE b

MaxGaugeInit ==
  /\ localMax = 0
  /\ update = [t \in Updaters |-> [pc |-> "idle", v |-> 0, current |-> 0]]
  /\ updates = 0
  /\ given = {} /\ raced = FALSE

\* Update, as far as the load of value_.
BeginUpdate(t, v) ==
  /\ UpdateIdle(t)
  /\ updates < MaxUpdates /\ updates' = updates + 1
  /\ update' = [update EXCEPT ![t] = [pc |-> "store", v |-> v, current |-> localMax]]
  /\ raced' = (raced \/ \E s \in Updaters : ~UpdateIdle(s))
  /\ UNCHANGED <<localMax, given>>

\* Mutant: the value is stored without the comparison.
StoreLast(t) ==
  /\ update[t].pc = "store"
  /\ localMax' = update[t].v
  /\ given' = given \cup {update[t].v}
  /\ update' = [update EXCEPT ![t].pc = "idle"]
  /\ UNCHANGED <<updates, raced>>

StoreMax(t) ==
  /\ update[t].pc = "store"
  /\ localMax' = Larger(update[t].current, update[t].v)
  /\ given' = given \cup {update[t].v}
  /\ update' = [update EXCEPT ![t].pc = "idle"]
  /\ UNCHANGED <<updates, raced>>

MaxGaugeNext ==
  \E t \in Updaters : StoreMax(t) \/ \E v \in GaugeValues : BeginUpdate(t, v)

MaxGaugeSpec == MaxGaugeInit /\ [][MaxGaugeNext]_maxGaugeVars

----------------------------------------------------------------------------
(* Properties *)

\* The local maximum is always one of the values given, or the zero it starts
\* at, and never below zero; it is the largest of them as long as no two calls
\* of Update overlapped.  When two do, the later store may put a smaller value
\* over a larger one.
LocalMaxIsKept ==
  /\ localMax \in given \cup {0} /\ localMax >= 0
  /\ ~raced => \A v \in given : localMax >= v

=============================================================================
