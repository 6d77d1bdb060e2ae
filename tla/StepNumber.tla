----------------------------- MODULE StepNumber -----------------------------
(***************************************************************************)
(* meter/stepnumber.h: the lock-free bucket under every counter, timer,    *)
(* distribution summary and max gauge.  Any application thread may add to  *)
(* it while the sender thread polls it; the only coordination is the CAS   *)
(* on last_init_pos_.  One action per atomic access of the source.         *)
(*                                                                         *)
(* Time is counted in steps (now / step_millis_), the only way the code    *)
(* uses the clock here.  Kind selects the instantiation: "long" is         *)
(* StepNumber<int64_t>::Add, "double" StepNumber<double>::Add, "max" is    *)
(* UpdateCurrentMax with values above init_.                               *)
(***************************************************************************)
EXTENDS Integers, FiniteSets, FiniteSetsExt

CONSTANTS
  Threads,          \* threads that call Add / UpdateCurrentMax / Poll
  Kind,             \* "long", "double" or "max"
  Amounts,          \* the arguments of Add / UpdateCurrentMax
  MaxStep,          \* bound: the last step of the clock
  MaxCalls,         \* bound: the number of updates
  PromptRolls,      \* environment: no step boundary falls inside a roll
  ClockMayStepBack  \* environment: the system clock may be set back

ASSUME ConstantsAssumption ==
  /\ Kind \in {"long", "double", "max"}
  /\ Amounts \subseteq Nat \ {0}
  /\ MaxStep \in Nat
  /\ MaxCalls \in Nat
  /\ {PromptRolls, ClockMayStepBack} \subseteq BOOLEAN

VARIABLES
  clock,          \* now / step_millis_
  last_init_pos,  \* last_init_pos_
  current,        \* current_
  previous,       \* previous_
  pc,             \* where each thread is in its call
  arg,            \* the update a thread is making, NoUpdate in a Poll
  stepTime,       \* local step_time of RollCount
  lastInit,       \* local last_init of RollCount
  v,              \* local v of RollCount
  m,              \* local m / current of the CAS loops
  calls,          \* updates begun so far (numbers them)
  \* History: which updates are in which place.
  contents,       \* those merged in current_
  batch,          \* those merged in each thread's v
  prev,           \* those merged in previous_
  published,      \* those that ever reached previous_
  dropped,        \* those a roll over a gap discarded
  skipped         \* a step went by without any call having rolled the bucket

clockVars == <<clock, skipped>>
shared  == <<last_init_pos, current, previous>>
locals  == <<pc, arg, stepTime, lastInit, v, m>>
history == <<contents, batch, prev, published, dropped>>
vars    == <<clockVars, shared, locals, calls, history>>

InitValue == 0
NoUpdate  == [id |-> 0, amount |-> 0, step |-> 0, landed |-> 0]
Updates   == [id : 1..MaxCalls, amount : Amounts, step : 0..MaxStep,
              landed : 0..MaxStep]

\* A thread is rolling from its CAS on last_init_pos_ to its store of previous_.
Rolling(t) == pc[t] \in {"exchange", "store"}

\* A thread is anywhere inside RollCount.
InRoll(t) == pc[t] \in {"load", "cas"} \/ Rolling(t)

Goto(t, label) == pc' = [pc EXCEPT ![t] = label]

Init ==
  /\ clock = 0 /\ last_init_pos = 0
  /\ current = InitValue /\ previous = InitValue
  /\ pc = [t \in Threads |-> "idle"]
  /\ arg = [t \in Threads |-> NoUpdate]
  /\ stepTime = [t \in Threads |-> 0]
  /\ lastInit = [t \in Threads |-> 0]
  /\ v = [t \in Threads |-> InitValue]
  /\ m = [t \in Threads |-> InitValue]
  /\ calls = 0
  /\ contents = {} /\ prev = {} /\ published = {} /\ dropped = {}
  /\ batch = [t \in Threads |-> {}]
  /\ skipped = FALSE

-----------------------------------------------------------------------------
(* The environment: the wall clock. *)

TickForward ==
  /\ clock < MaxStep
  /\ PromptRolls => \A t \in Threads : ~InRoll(t)
  /\ clock' \in clock + 1 .. MaxStep
  /\ skipped' = (skipped \/ last_init_pos # clock \/ clock' # clock + 1)
  /\ UNCHANGED <<shared, locals, calls, history>>

TickBack ==
  /\ ClockMayStepBack
  /\ clock > 0
  /\ clock' = clock - 1
  /\ UNCHANGED <<skipped, shared, locals, calls, history>>

-----------------------------------------------------------------------------
(* Entering a call: RollCountNow reads the clock first. *)

BeginPoll(t) ==
  /\ pc[t] = "idle"
  /\ Goto(t, "load")
  /\ stepTime' = [stepTime EXCEPT ![t] = clock]
  /\ UNCHANGED <<clockVars, shared, arg, lastInit, v, m, calls, history>>

BeginUpdate(t, a) ==
  /\ pc[t] = "idle" /\ calls < MaxCalls
  /\ Goto(t, "load")
  /\ calls' = calls + 1
  /\ arg' = [arg EXCEPT ![t] = [id |-> calls + 1, amount |-> a,
                                step |-> clock, landed |-> 0]]
  /\ stepTime' = [stepTime EXCEPT ![t] = clock]
  /\ UNCHANGED <<clockVars, shared, lastInit, v, m, history>>

-----------------------------------------------------------------------------
(* RollCount *)

LoadInitPos(t) ==
  /\ pc[t] = "load"
  /\ lastInit' = [lastInit EXCEPT ![t] = last_init_pos]
  /\ Goto(t, IF last_init_pos < stepTime[t] THEN "cas" ELSE "body")
  /\ UNCHANGED <<clockVars, shared, arg, stepTime, v, m, calls, history>>

\* Mutant: the CAS replaced by a plain store.
CasInitPosBlind(t) ==
  /\ pc[t] = "cas"
  /\ last_init_pos' = stepTime[t]
  /\ Goto(t, "exchange")
  /\ UNCHANGED <<clockVars, current, previous, arg, stepTime, lastInit, v, m,
                 calls, history>>

CasInitPos(t) ==
  /\ pc[t] = "cas"
  /\ \/ /\ last_init_pos = lastInit[t]
        /\ last_init_pos' = stepTime[t]
        /\ Goto(t, "exchange")
     \/ /\ last_init_pos # lastInit[t]
        /\ Goto(t, "body")
        /\ UNCHANGED last_init_pos
  /\ UNCHANGED <<clockVars, current, previous, arg, stepTime, lastInit, v, m,
                 calls, history>>

\* Mutant: a load instead of the exchange, so the bucket is not reset.
ExchangeCurrentKeeps(t) ==
  /\ pc[t] = "exchange"
  /\ v' = [v EXCEPT ![t] = current]
  /\ Goto(t, "store")
  /\ batch' = [batch EXCEPT ![t] = contents]
  /\ UNCHANGED <<clockVars, shared, arg, stepTime, lastInit, m, calls, contents,
                 prev, published, dropped>>

ExchangeCurrent(t) ==
  /\ pc[t] = "exchange"
  /\ v' = [v EXCEPT ![t] = current]
  /\ current' = InitValue
  /\ Goto(t, "store")
  /\ batch' = [batch EXCEPT ![t] = contents]
  /\ contents' = {}
  /\ UNCHANGED <<clockVars, last_init_pos, previous, arg, stepTime, lastInit, m,
                 calls, prev, published, dropped>>

\* Mutant: the value is kept over a gap of idle steps.
StorePreviousOverGap(t) ==
  /\ pc[t] = "store"
  /\ previous' = v[t]
  /\ prev' = batch[t]
  /\ published' = published \cup batch[t]
  /\ batch' = [batch EXCEPT ![t] = {}]
  /\ v' = [v EXCEPT ![t] = InitValue]
  /\ Goto(t, "body")
  /\ UNCHANGED <<clockVars, last_init_pos, current, arg, stepTime, lastInit, m,
                 calls, contents, dropped>>

\* Mutant: last_init compared with step_time instead of step_time - 1.
StorePreviousOffByOne(t) ==
  /\ pc[t] = "store"
  /\ previous' = InitValue
  /\ prev' = {}
  /\ dropped' = dropped \cup batch[t]
  /\ batch' = [batch EXCEPT ![t] = {}]
  /\ v' = [v EXCEPT ![t] = InitValue]
  /\ Goto(t, "body")
  /\ UNCHANGED <<clockVars, last_init_pos, current, arg, stepTime, lastInit, m,
                 calls, contents, published>>

StorePrevious(t) ==
  /\ pc[t] = "store"
  /\ \/ /\ lastInit[t] = stepTime[t] - 1
        /\ previous' = v[t]
        /\ prev' = batch[t]
        /\ published' = published \cup batch[t]
        /\ UNCHANGED dropped
     \/ /\ lastInit[t] # stepTime[t] - 1
        /\ previous' = InitValue
        /\ prev' = {}
        /\ dropped' = dropped \cup batch[t]
        /\ UNCHANGED published
  /\ batch' = [batch EXCEPT ![t] = {}]
  /\ v' = [v EXCEPT ![t] = InitValue]
  /\ Goto(t, "body")
  /\ UNCHANGED <<clockVars, last_init_pos, current, arg, stepTime, lastInit, m,
                 calls, contents>>

-----------------------------------------------------------------------------
(* The body of each call, after RollCountNow. *)

\* The call returns; its locals die.
Return(t) ==
  /\ Goto(t, "idle")
  /\ arg' = [arg EXCEPT ![t] = NoUpdate]
  /\ stepTime' = [stepTime EXCEPT ![t] = 0]
  /\ lastInit' = [lastInit EXCEPT ![t] = 0]
  /\ m' = [m EXCEPT ![t] = InitValue]
  /\ UNCHANGED <<clockVars, last_init_pos, previous, v, calls, batch, prev,
                 published, dropped>>

\* The thread's update is merged in current_ from now on.
Land(t) == contents' = contents \cup {[arg[t] EXCEPT !.landed = clock]}

ReadPrevious(t) ==
  /\ pc[t] = "body" /\ arg[t] = NoUpdate
  /\ Return(t)
  /\ UNCHANGED <<current, contents>>

\* Mutant: a store of the amount instead of the atomic +=.
AddLongOverwrites(t) ==
  /\ Kind = "long"
  /\ pc[t] = "body" /\ arg[t] # NoUpdate
  /\ current' = arg[t].amount
  /\ Land(t)
  /\ Return(t)

AddLong(t) ==
  /\ Kind = "long"
  /\ pc[t] = "body" /\ arg[t] # NoUpdate
  /\ current' = current + arg[t].amount
  /\ Land(t)
  /\ Return(t)

\* The load that starts both CAS loops; UpdateCurrentMax stops here when the
\* bucket already holds at least its value.
LoadCurrent(t) ==
  /\ Kind # "long"
  /\ pc[t] = "body" /\ arg[t] # NoUpdate
  /\ \/ /\ Kind = "max" /\ arg[t].amount <= current
        /\ Land(t)
        /\ Return(t)
        /\ UNCHANGED current
     \/ /\ Kind = "max" => arg[t].amount > current
        /\ m' = [m EXCEPT ![t] = current]
        /\ Goto(t, "swap")
        /\ UNCHANGED <<clockVars, shared, arg, stepTime, lastInit, v, calls, history>>

\* Mutant: the CAS of the loop replaced by a plain store.
SwapCurrentBlind(t) ==
  /\ pc[t] = "swap"
  /\ current' = IF Kind = "max" THEN arg[t].amount ELSE m[t] + arg[t].amount
  /\ Land(t)
  /\ Return(t)

SwapCurrent(t) ==
  /\ pc[t] = "swap"
  /\ current = m[t]
  /\ current' = IF Kind = "max" THEN arg[t].amount ELSE m[t] + arg[t].amount
  /\ Land(t)
  /\ Return(t)

\* compare_exchange_weak fails on a changed value, and may fail spuriously.
SwapFails(t) ==
  /\ pc[t] = "swap"
  /\ Goto(t, "body")
  /\ UNCHANGED <<clockVars, shared, arg, stepTime, lastInit, v, m, calls, history>>

-----------------------------------------------------------------------------
Roll(t) ==
  LoadInitPos(t) \/ CasInitPos(t) \/ ExchangeCurrent(t) \/ StorePrevious(t)

Body(t) ==
  ReadPrevious(t) \/ AddLong(t) \/ LoadCurrent(t) \/ SwapCurrent(t) \/ SwapFails(t)

Next ==
  \/ TickForward
  \/ TickBack
  \/ \E t \in Threads :
       \/ BeginPoll(t)
       \/ \E a \in Amounts : BeginUpdate(t, a)
       \/ Roll(t)
       \/ Body(t)

Spec == Init /\ [][Next]_vars

-----------------------------------------------------------------------------
(* Properties *)

\* Updates merged in current_ or already taken out of it.
Landed == contents \cup (UNION {batch[t] : t \in Threads}) \cup published \cup dropped

\* The value a bucket holding the set S of updates must have.
ValueOf(S) ==
  IF Kind = "max" THEN Max({u.amount : u \in S} \cup {InitValue})
                  ELSE MapThenSumSet(LAMBDA u : u.amount, S)

\* Every variable keeps its type; only an update is ever in a CAS loop.
TypeOK ==
  /\ clock \in 0..MaxStep /\ last_init_pos \in 0..MaxStep
  /\ current \in Nat /\ previous \in Nat
  /\ pc \in [Threads -> {"idle", "load", "cas", "exchange", "store", "body", "swap"}]
  /\ arg \in [Threads -> [id : 1..MaxCalls, amount : Amounts,
                          step : 0..MaxStep, landed : {0}] \cup {NoUpdate}]
  /\ \A t \in Threads : pc[t] = "swap" => arg[t] # NoUpdate
  /\ stepTime \in [Threads -> 0..MaxStep]
  /\ lastInit \in [Threads -> 0..MaxStep]
  /\ v \in [Threads -> Nat] /\ m \in [Threads -> Nat]
  /\ calls \in 0..MaxCalls
  /\ {contents, prev, published, dropped} \subseteq SUBSET Updates
  /\ batch \in [Threads -> SUBSET Updates]
  /\ skipped \in BOOLEAN

\* Two threads may be rolling at once (one stalled between its CAS and its
\* store), but never for the same interval: the CAS on last_init_pos_ hands
\* each of them its own range of steps.
RollsAreDisjoint ==
  \A s, t \in Threads :
    s # t /\ Rolling(s) /\ Rolling(t) =>
      stepTime[s] <= lastInit[t] \/ stepTime[t] <= lastInit[s]

\* An update is in exactly one place: never both still in current_ and in a
\* roller's hands, never published for two intervals or published and dropped,
\* however the rolls and the updates interleave.
CountedOnce ==
  /\ \A t \in Threads : batch[t] \cap contents = {}
  /\ \A s, t \in Threads : s # t => batch[s] \cap batch[t] = {}
  /\ \A t \in Threads : batch[t] \cap (published \cup dropped) = {}
  /\ contents \cap (published \cup dropped) = {}
  /\ published \cap dropped = {}
  /\ prev \subseteq published

\* The numbers are those of the updates: no update is overwritten by a
\* concurrent one or by a roll, and none is merged twice.
ValuesMatch ==
  /\ current = ValueOf(contents)
  /\ previous = ValueOf(prev)
  /\ \A t \in Threads : v[t] = ValueOf(batch[t])

\* A bucket that is rolled in every step (the registry polls every meter once
\* per step) never discards an update, whatever the threads interleave.
NothingDroppedWhenPolled == ~skipped => dropped = {}

\* When no step boundary falls inside a roll, an update is published for the
\* step before the one it read the clock in at the earliest and for the one it
\* landed in at the latest.
AttributedWithinOneStep ==
  [][\A t \in Threads : \A u \in batch[t] \cap (published' \ published) :
       u.step - 1 <= stepTime[t] - 1 /\ stepTime[t] - 1 <= u.landed]_vars

\* The intermediate states of a roll, as the promise of the bucket sees them: a
\* roll happens at its exchange, so before it the bucket is still open for the
\* old step, and after it the last interval is the one about to be stored.
BucketPos ==
  IF \E t \in Threads : pc[t] = "exchange"
  THEN lastInit[CHOOSE t \in Threads : pc[t] = "exchange"]
  ELSE last_init_pos

BucketLast ==
  IF \E t \in Threads : pc[t] = "store"
  THEN LET t == CHOOSE r \in Threads : pc[r] = "store"
       IN  IF lastInit[t] = stepTime[t] - 1 THEN v[t] ELSE InitValue
  ELSE previous

Bucket == INSTANCE StepBucket
            WITH pos <- BucketPos, open <- current, last <- BucketLast

\* When no step boundary falls inside a roll, concurrent updates, polls and
\* rolls behave as if each happened at once: StepNumber implements StepBucket.
ImplementsBucket == Bucket!Spec

=============================================================================
