----------------------------- MODULE StepBucket -----------------------------
(***************************************************************************)
(* What meter/stepnumber.h promises its callers: a bucket that is open for *)
(* the current step and the value of the last completed interval, where    *)
(* rolling from one step to the next and merging an update each happen at  *)
(* once.  StepNumber implements it (see there); the modules that only need *)
(* the promise use these actions.                                          *)
(***************************************************************************)
EXTENDS Integers

CONSTANTS
  Kind,     \* "long", "double" or "max", as in StepNumber
  Amounts,  \* the arguments of Add / UpdateCurrentMax
  MaxStep   \* bound: the last step of the clock

VARIABLES
  clock,  \* the current step
  pos,    \* the step the bucket is open for
  open,   \* the value accumulated in that step
  last    \* the value of the step before, the init value if nothing rolled then

bucketVars == <<clock, pos, open, last>>

Merge(value, a) ==
  IF Kind # "max" THEN value + a ELSE IF a > value THEN a ELSE value

Init == clock = 0 /\ pos = 0 /\ open = 0 /\ last = 0

Tick ==
  /\ clock' \in clock + 1 .. MaxStep
  /\ UNCHANGED <<pos, open, last>>

Roll ==
  /\ pos < clock
  /\ pos' = clock
  /\ last' = IF pos = clock - 1 THEN open ELSE 0
  /\ open' = 0
  /\ UNCHANGED clock

Update(a) ==
  /\ open' = Merge(open, a)
  /\ UNCHANGED <<clock, pos, last>>

Next == Tick \/ Roll \/ \E a \in Amounts : Update(a)

Spec == Init /\ [][Next]_bucketVars
=============================================================================
