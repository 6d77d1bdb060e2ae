--------------------------- MODULE MonotonicCounter ---------------------------
(***************************************************************************)
(* meter/monotonic_counter.{h,cc}: a counter fed with the readings of      *)
(* another, each of which counts what it rose.  Set takes no lock: one     *)
(* step per access to value_ and last_updated_, for any number of threads. *)
(***************************************************************************)
EXTENDS Integers

CONSTANTS
  Setters,   \* the threads that call Set
  Readings,  \* the amounts they call it with
  MaxSets    \* bound on the calls

ASSUME ReadingsAreIntegers == Readings \subseteq Int

VARIABLES
  reading,   \* value_
  updated,   \* last_updated_ > 0
  counted,   \* counter_->Count()
  set,       \* for each thread its call of Set: pc, amount, prev_value
  sets,      \* how many calls were made
  seen,      \* history: the amounts that some call has stored
  overlapped,\* history: two calls have overlapped
  risen      \* history: what the readings rose, the first being the baseline

monotonicVars == <<reading, updated, counted, set, sets, seen, overlapped, risen>>

SetIdle(t) == set[t].pc = "idle"

Rise(from, to) == IF to >= from THEN to - from ELSE 0

MonotonicInit ==
  /\ reading = 0 /\ updated = FALSE /\ counted = 0
  /\ set \in [Setters -> {[pc |-> "idle", amount |-> 0, prev |-> 0]}]
  /\ sets = 0
  /\ seen = {} /\ overlapped = FALSE /\ risen = 0

\* Mutant: the first reading is counted as a rise from zero.
BeginSetUnguarded(t, amount) ==
  /\ SetIdle(t)
  /\ sets < MaxSets /\ sets' = sets + 1
  /\ set' = [set EXCEPT ![t] = [@ EXCEPT !.pc = "value", !.amount = amount]]
  /\ overlapped' = (overlapped \/ \E s \in Setters : ~SetIdle(s))
  /\ risen' = risen + IF seen = {} THEN 0 ELSE Rise(reading, amount)
  /\ UNCHANGED <<reading, updated, counted, seen>>

\* Set, as far as the load of last_updated_ (and finding counter_).
BeginSet(t, amount) ==
  /\ SetIdle(t)
  /\ sets < MaxSets /\ sets' = sets + 1
  /\ set' = [set EXCEPT ![t] = [@ EXCEPT !.pc = IF updated THEN "value" ELSE "store",
                                         !.amount = amount]]
  /\ overlapped' = (overlapped \/ \E s \in Setters : ~SetIdle(s))
  /\ risen' = risen + IF seen = {} THEN 0 ELSE Rise(reading, amount)
  /\ UNCHANGED <<reading, updated, counted, seen>>

LoadValue(t) ==
  /\ set[t].pc = "value"
  /\ set' = [set EXCEPT ![t] = [@ EXCEPT !.pc = "add", !.prev = reading]]
  /\ UNCHANGED <<reading, updated, counted, sets, seen, overlapped, risen>>

AddDelta(t) ==
  /\ set[t].pc = "add"
  /\ counted' = counted + Rise(set[t].prev, set[t].amount)
  /\ set' = [set EXCEPT ![t].pc = "store"]
  /\ UNCHANGED <<reading, updated, sets, seen, overlapped, risen>>

StoreValue(t) ==
  /\ set[t].pc = "store"
  /\ reading' = set[t].amount
  /\ seen' = seen \cup {set[t].amount}
  /\ set' = [set EXCEPT ![t].pc = "updated"]
  /\ UNCHANGED <<updated, counted, sets, overlapped, risen>>

EndSet(t) ==
  /\ set[t].pc = "updated"
  /\ updated' = TRUE
  /\ set' = [set EXCEPT ![t].pc = "idle"]
  /\ UNCHANGED <<reading, counted, sets, seen, overlapped, risen>>

MonotonicNext ==
  \E t \in Setters : \/ \E amount \in Readings : BeginSet(t, amount)
                     \/ LoadValue(t) \/ AddDelta(t) \/ StoreValue(t) \/ EndSet(t)

MonotonicSpec == MonotonicInit /\ [][MonotonicNext]_monotonicVars

----------------------------------------------------------------------------
(* Properties *)

\* Whatever overlaps, what is counted is a rise from one reading to another:
\* the first is only a baseline, and the zero value_ starts at is never one.
\* Without overlap it is exactly what the readings rose, and a reading below
\* the one before it (the source restarted) counts nothing.
CountsOnlyRises ==
  /\ \A t \in Setters : set[t].pc = "add" => set[t].prev \in seen
  /\ ~overlapped /\ (\A t \in Setters : SetIdle(t)) => counted = risen

=============================================================================
