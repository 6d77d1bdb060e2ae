----------------------------- MODULE MeterProofs -----------------------------
(***************************************************************************)
(* For any number of threads and calls: tasks that were stopped stay so,   *)
(* a monotonic counter counts only rises, a gauge keeps its maximum, and a *)
(* timer's statistics are of one interval.  For any strings and limits:    *)
(* AreTagsValid and AnalyzeTags agree.  For any maxima: no two buckets of  *)
(* a bucket function are merged.  For integers of any width: an estimated  *)
(* percentile is near the value it is of.                                  *)
(***************************************************************************)
EXTENDS LongTaskTimer, MonotonicCounter, MaxGauge, Timer, Validation,
        BucketFunctions, PercentileBuckets, FiniteSetTheorems, NaturalsInduction, WellFoundedInduction, TLAPS

-----------------------------------------------------------------------------
(* Long task timer *)

LongTaskInv ==
  /\ instant \in 0 .. LastInstant
  /\ next_ \in 0 .. MaxTasks
  /\ stopping \in [Stoppers -> Calls]
  /\ stopped \subseteq 0 .. next_ - 1
  /\ tasks_ \in [(0 .. next_ - 1) \ stopped -> 0 .. instant]
  /\ \A t \in Stoppers :
       /\ stopping[t].pc = "erase" /\ stopping[t].d >= 0 => stopping[t].task \in 0 .. next_ - 1
       /\ stopping[t].late => stopping[t].d = -1

LEMMA LongTaskInvInit == LongTaskInit => LongTaskInv
  BY LongTaskAssumption, SMT DEF LongTaskInit, LongTaskInv, Calls, TaskIds

\* The answer of Duration, and that a stopped task has none.
LEMMA DurationAnswers ==
  ASSUME LongTaskInv, NEW task \in TaskIds
  PROVE  /\ Duration(task) \in {-1} \cup 0 .. LastInstant
         /\ Duration(task) >= 0 => task \in 0 .. next_ - 1
         /\ task \in stopped => Duration(task) = -1
<1>1. CASE task \in DOMAIN tasks_
  <2>1. task \in (0 .. next_ - 1) \ stopped /\ tasks_[task] \in 0 .. instant
    BY <1>1 DEF LongTaskInv
  <2>2. QED
    BY <1>1, <2>1, LongTaskAssumption, SMT DEF LongTaskInv, Duration
<1>2. CASE task \notin DOMAIN tasks_
  BY <1>2, SMT DEF Duration
<1>3. QED
  BY <1>1, <1>2

LEMMA LongTaskInvStep == LongTaskInv /\ [LongTaskNext]_longTaskVars => LongTaskInv'
<1> SUFFICES ASSUME LongTaskInv, [LongTaskNext]_longTaskVars
             PROVE  LongTaskInv'
  OBVIOUS
<1> USE LongTaskAssumption
<1>1. CASE PassTime
  BY <1>1, SMT DEF LongTaskInv, PassTime, Calls
<1>2. CASE Start
  <2>1. next_' \in 0 .. MaxTasks /\ 0 .. next_' - 1 = (0 .. next_ - 1) \cup {next_}
    BY <1>2, SMT DEF LongTaskInv, Start
  <2>2. tasks_' \in [(0 .. next_' - 1) \ stopped' -> 0 .. instant']
    BY <1>2, <2>1, SMT DEF LongTaskInv, Start
  <2>3. QED
    BY <1>2, <2>1, <2>2, SMT DEF LongTaskInv, Start
<1>3. ASSUME NEW t \in Stoppers, EraseTask(t)
      PROVE  LongTaskInv'
  <2>1. stopping' \in [Stoppers -> Calls]
    BY <1>3, SMT DEF LongTaskInv, EraseTask, Calls
  <2>2. stopped' \subseteq 0 .. next_' - 1
    BY <1>3, SMT DEF LongTaskInv, EraseTask
  <2>3. tasks_' \in [(0 .. next_' - 1) \ stopped' -> 0 .. instant']
    <3>1. CASE stopping[t].d >= 0
      BY <1>3, <3>1 DEF LongTaskInv, EraseTask
    <3>2. CASE ~(stopping[t].d >= 0)
      BY <1>3, <3>2 DEF LongTaskInv, EraseTask
    <3>3. QED
      BY <3>1, <3>2
  <2>4. ASSUME NEW s \in Stoppers
        PROVE  /\ stopping'[s].d = stopping[s].d /\ stopping'[s].late = stopping[s].late
               /\ stopping'[s].task = stopping[s].task
               /\ stopping'[s].pc = "erase" => stopping[s].pc = "erase"
    BY <1>3, SMT DEF LongTaskInv, EraseTask, Calls
  <2>5. QED
    BY <1>3, <2>1, <2>2, <2>3, <2>4, SMT DEF LongTaskInv, EraseTask
<1>4. ASSUME NEW t \in Stoppers, NEW task \in TaskIds, BeginStop(t, task)
      PROVE  LongTaskInv'
  <2> DEFINE call == [pc |-> "erase", task |-> task, d |-> Duration(task), late |-> task \in stopped]
  <2>1. call \in Calls
    BY DurationAnswers DEF Calls
  <2>2. stopping' = [stopping EXCEPT ![t] = call]
    BY <1>4 DEF BeginStop
  <2>3. /\ call.d >= 0 => call.task \in 0 .. next_ - 1
        /\ call.late => call.d = -1
    BY DurationAnswers
  <2> HIDE DEF call
  <2>4. QED
    BY <1>4, <2>1, <2>2, <2>3, SMT DEF LongTaskInv, BeginStop
<1>5. CASE UNCHANGED longTaskVars
  BY <1>5 DEF LongTaskInv, longTaskVars
<1>6. QED
  BY <1>1, <1>2, <1>3, <1>4, <1>5 DEF LongTaskNext

\* However calls of Stop overlap, the running tasks are those that were
\* started and for which no Stop has returned a duration.
THEOREM StopsFinal == LongTaskSpec => []StopsAreFinal
<1>1. LongTaskInv => StopsAreFinal
  BY DEF LongTaskInv, StopsAreFinal
<1>2. QED
  BY <1>1, LongTaskInvInit, LongTaskInvStep, PTL DEF LongTaskSpec

-----------------------------------------------------------------------------
(* Monotonic counter *)

SetCalls == [pc : {"idle", "value", "add", "store", "updated"}, amount : Int, prev : Int]

MonotonicTypes ==
  /\ reading \in Int /\ counted \in Int /\ risen \in Int
  /\ updated \in BOOLEAN /\ overlapped \in BOOLEAN
  /\ set \in [Setters -> SetCalls]
  /\ sets \in Nat

\* Every reading in use is one that some call has stored.
ReadingsAreSeen ==
  /\ seen # {} => reading \in seen
  /\ updated => seen # {}
  /\ \A t \in Setters :
       /\ set[t].pc \in {"value", "add", "updated"} => seen # {}
       /\ set[t].pc = "add" => set[t].prev \in seen

\* What a call has still to count.
Pending(t) ==
  CASE set[t].pc = "value" -> Rise(reading, set[t].amount)
    [] set[t].pc = "add"   -> Rise(set[t].prev, set[t].amount)
    [] OTHER -> 0

\* Without overlap one call at most is under way, and all it has still to
\* count is missing.
OneAtATime ==
  ~overlapped =>
    /\ \A s, t \in Setters : ~SetIdle(s) /\ ~SetIdle(t) => s = t
    /\ (\A t \in Setters : SetIdle(t)) => counted = risen /\ (seen # {} => updated)
    /\ \A t \in Setters : ~SetIdle(t) => counted + Pending(t) = risen

MonotonicInv == MonotonicTypes /\ ReadingsAreSeen /\ OneAtATime

LEMMA MonotonicInvInit == MonotonicInit => MonotonicInv
<1> SUFFICES ASSUME MonotonicInit PROVE MonotonicInv
  OBVIOUS
<1>1. MonotonicTypes
  <2>1. updated \in BOOLEAN /\ overlapped \in BOOLEAN
    BY Zenon DEF MonotonicInit
  <2>2. [pc |-> "idle", amount |-> 0, prev |-> 0] \in SetCalls
    BY DEF SetCalls
  <2>3. set \in [Setters -> SetCalls]
    BY <2>2 DEF MonotonicInit
  <2>4. QED
    BY <2>1, <2>3 DEF MonotonicInit, MonotonicTypes
<1>2. \A t \in Setters : set[t].pc = "idle"
  BY DEF MonotonicInit
<1>3. ReadingsAreSeen /\ OneAtATime
  BY <1>2, SMT DEF MonotonicInit, ReadingsAreSeen, OneAtATime, SetIdle
<1>4. QED
  BY <1>1, <1>3 DEF MonotonicInv

LEMMA MonotonicTypesStep == MonotonicInv /\ [MonotonicNext]_monotonicVars => MonotonicTypes'
<1> SUFFICES ASSUME MonotonicInv, [MonotonicNext]_monotonicVars
             PROVE  MonotonicTypes'
  OBVIOUS
<1> USE ReadingsAreIntegers DEF MonotonicInv, MonotonicTypes, SetCalls
<1>1. ASSUME NEW t \in Setters, NEW amount \in Readings, BeginSet(t, amount)
      PROVE  MonotonicTypes'
  <2> DEFINE new == [set[t] EXCEPT !.pc = IF updated THEN "value" ELSE "store", !.amount = amount]
  <2>0. new \in SetCalls /\ set' = [set EXCEPT ![t] = new]
    BY <1>1 DEF BeginSet
  <2> HIDE DEF new
  <2>1. risen' \in Int /\ sets' \in Nat /\ set' \in [Setters -> SetCalls]
    BY <1>1, <2>0, SMT DEF BeginSet, Rise
  <2>2. overlapped' \in BOOLEAN
    BY <1>1, Zenon DEF BeginSet
  <2>3. QED
    BY <1>1, <2>1, <2>2 DEF BeginSet
<1>2. ASSUME NEW t \in Setters, LoadValue(t) PROVE MonotonicTypes'
  BY <1>2 DEF LoadValue
<1>3. ASSUME NEW t \in Setters, AddDelta(t) PROVE MonotonicTypes'
  BY <1>3, SMT DEF AddDelta, Rise
<1>4. ASSUME NEW t \in Setters, StoreValue(t) PROVE MonotonicTypes'
  BY <1>4 DEF StoreValue
<1>5. ASSUME NEW t \in Setters, EndSet(t) PROVE MonotonicTypes'
  BY <1>5 DEF EndSet
<1>6. CASE UNCHANGED monotonicVars
  BY <1>6 DEF monotonicVars
<1>7. QED
  BY <1>1, <1>2, <1>3, <1>4, <1>5, <1>6 DEF MonotonicNext

LEMMA ReadingsSeenStep == MonotonicInv /\ [MonotonicNext]_monotonicVars => ReadingsAreSeen'
<1> SUFFICES ASSUME MonotonicInv, [MonotonicNext]_monotonicVars
             PROVE  ReadingsAreSeen'
  OBVIOUS
<1> USE DEF MonotonicInv, MonotonicTypes, ReadingsAreSeen, SetCalls
<1>1. ASSUME NEW t \in Setters, NEW amount \in Readings, BeginSet(t, amount)
      PROVE  ReadingsAreSeen'
  BY <1>1, ReadingsAreIntegers, SMT DEF BeginSet
<1>2. ASSUME NEW t \in Setters, LoadValue(t) PROVE ReadingsAreSeen'
  BY <1>2, SMT DEF LoadValue
<1>3. ASSUME NEW t \in Setters, AddDelta(t) PROVE ReadingsAreSeen'
  BY <1>3, SMT DEF AddDelta
<1>4. ASSUME NEW t \in Setters, StoreValue(t) PROVE ReadingsAreSeen'
  BY <1>4, SMT DEF StoreValue
<1>5. ASSUME NEW t \in Setters, EndSet(t) PROVE ReadingsAreSeen'
  BY <1>5, SMT DEF EndSet
<1>6. CASE UNCHANGED monotonicVars
  BY <1>6 DEF monotonicVars
<1>7. QED
  BY <1>1, <1>2, <1>3, <1>4, <1>5, <1>6 DEF MonotonicNext

LEMMA OneAtATimeStep == MonotonicInv /\ [MonotonicNext]_monotonicVars => OneAtATime'
<1> SUFFICES ASSUME MonotonicInv, [MonotonicNext]_monotonicVars, ~overlapped'
             PROVE  OneAtATime'
  BY DEF OneAtATime
<1> USE DEF MonotonicInv, MonotonicTypes, SetCalls, SetIdle
<1>1. ASSUME NEW t \in Setters, NEW amount \in Readings, BeginSet(t, amount)
      PROVE  OneAtATime'
  <2>1. \A s \in Setters : SetIdle(s)
    BY <1>1, Zenon DEF BeginSet
  <2>2. ~overlapped /\ counted = risen /\ (seen # {} <=> updated)
    BY <1>1, <2>1, Zenon DEF BeginSet, OneAtATime, ReadingsAreSeen
  <2>3. set'[t].pc = (IF updated THEN "value" ELSE "store") /\ set'[t].amount = amount
    BY <1>1 DEF BeginSet
  <2>4. \A s \in Setters \ {t} : set'[s].pc = "idle"
    BY <1>1, <2>1 DEF BeginSet
  <2>5. reading' = reading /\ counted' = counted /\
        risen' = risen + (IF seen = {} THEN 0 ELSE Rise(reading, amount))
    BY <1>1 DEF BeginSet
  <2>6. counted' + Pending(t)' = risen'
    BY <2>2, <2>3, <2>5, ReadingsAreIntegers, SMT DEF Pending, Rise
  <2>7. QED
    BY <2>3, <2>4, <2>6, SMT DEF OneAtATime
<1>2. ASSUME NEW t \in Setters, set[t].pc # "idle", ~overlapped,
             \A s \in Setters \ {t} : set'[s] = set[s],
             set'[t].pc # "idle", counted' + Pending(t)' = risen'
      PROVE  OneAtATime'
  BY <1>2, SMT DEF OneAtATime
<1>3. ASSUME NEW t \in Setters, LoadValue(t) PROVE OneAtATime'
  <2>1. set'[t].pc = "add" /\ set'[t].prev = reading /\ set'[t].amount = set[t].amount
    BY <1>3 DEF LoadValue
  <2>2. counted + Pending(t) = risen /\ Pending(t) = Rise(reading, set[t].amount)
    BY <1>3, SMT DEF LoadValue, OneAtATime, Pending
  <2>3. Pending(t)' = Rise(reading, set[t].amount)
    BY <2>1, SMT DEF Pending, Rise
  <2>4. QED
    BY <1>2, <1>3, <2>1, <2>2, <2>3 DEF LoadValue
<1>4. ASSUME NEW t \in Setters, AddDelta(t) PROVE OneAtATime'
  <2>1. set'[t].pc = "store" /\ Pending(t)' = 0
    BY <1>4, SMT DEF AddDelta, Pending
  <2>2. counted + Pending(t) = risen /\ Pending(t) = Rise(set[t].prev, set[t].amount)
    BY <1>4, SMT DEF AddDelta, OneAtATime, Pending
  <2>3. counted' + 0 = risen'
    BY <1>4, <2>2, SMT DEF AddDelta, Rise
  <2>4. QED
    BY <1>2, <1>4, <2>1, <2>3 DEF AddDelta
<1>5. ASSUME NEW t \in Setters, StoreValue(t) PROVE OneAtATime'
  <2>1. set'[t].pc = "updated" /\ Pending(t)' = 0
    BY <1>5, SMT DEF StoreValue, Pending
  <2>2. counted + 0 = risen
    BY <1>5, SMT DEF StoreValue, OneAtATime, Pending
  <2>3. QED
    BY <1>2, <1>5, <2>1, <2>2 DEF StoreValue
<1>6. ASSUME NEW t \in Setters, EndSet(t) PROVE OneAtATime'
  <2>1. counted = risen
    BY <1>6, SMT DEF EndSet, OneAtATime, Pending
  <2>2. \A s \in Setters : set'[s].pc = "idle"
    BY <1>6, SMT DEF EndSet, OneAtATime
  <2>3. QED
    BY <1>6, <2>1, <2>2 DEF EndSet, OneAtATime
<1>7. CASE UNCHANGED monotonicVars
  BY <1>7 DEF monotonicVars, OneAtATime, Pending
<1>8. QED
  BY <1>1, <1>3, <1>4, <1>5, <1>6, <1>7 DEF MonotonicNext

\* Whatever overlaps, only rises between readings are counted; without overlap
\* all of them, exactly.
THEOREM OnlyRisesCounted == MonotonicSpec => []CountsOnlyRises
<1>1. MonotonicInv => CountsOnlyRises
  BY Zenon DEF MonotonicInv, ReadingsAreSeen, OneAtATime, CountsOnlyRises
<1>2. MonotonicInv /\ [MonotonicNext]_monotonicVars => MonotonicInv'
  BY MonotonicTypesStep, ReadingsSeenStep, OneAtATimeStep DEF MonotonicInv
<1>3. QED
  BY <1>1, <1>2, MonotonicInvInit, PTL DEF MonotonicSpec

-----------------------------------------------------------------------------
(* Max gauge *)

UpdateCalls == [pc : {"idle", "store"}, v : Int, current : Int]

MaxGaugeTypes ==
  /\ localMax \in Int
  /\ raced \in BOOLEAN
  /\ update \in [Updaters -> UpdateCalls]

\* What is stored, and what will be put back, is zero or some value given.
GivenValuesOnly ==
  /\ localMax \in given \cup {0} /\ localMax >= 0
  /\ \A t \in Updaters :
       update[t].pc = "store" => update[t].current \in given \cup {0} /\ update[t].current >= 0

\* Without overlap a call finds what it loaded still there when it stores.
MaximumKept ==
  ~raced =>
    /\ \A s, t \in Updaters : ~UpdateIdle(s) /\ ~UpdateIdle(t) => s = t
    /\ \A t \in Updaters : ~UpdateIdle(t) => update[t].current = localMax
    /\ \A v \in given : v \in Int /\ localMax >= v

MaxGaugeInv == MaxGaugeTypes /\ GivenValuesOnly /\ MaximumKept

LEMMA MaxGaugeInvInit == MaxGaugeInit => MaxGaugeInv
<1> SUFFICES ASSUME MaxGaugeInit PROVE MaxGaugeInv
  OBVIOUS
<1>1. raced \in BOOLEAN
  BY Zenon DEF MaxGaugeInit
<1>2. GivenValuesOnly /\ MaximumKept
  BY SMT DEF MaxGaugeInit, GivenValuesOnly, MaximumKept, UpdateIdle
<1>3. QED
  BY <1>1, <1>2, SMT DEF MaxGaugeInit, MaxGaugeInv, MaxGaugeTypes, UpdateCalls

LEMMA MaxGaugeInvStep == MaxGaugeInv /\ [MaxGaugeNext]_maxGaugeVars => MaxGaugeInv'
<1> SUFFICES ASSUME MaxGaugeInv, [MaxGaugeNext]_maxGaugeVars
             PROVE  MaxGaugeInv'
  OBVIOUS
<1> USE GaugeValuesAreIntegers DEF MaxGaugeInv, MaxGaugeTypes, UpdateCalls, UpdateIdle
<1>1. ASSUME NEW t \in Updaters, NEW v \in GaugeValues, BeginUpdate(t, v)
      PROVE  MaxGaugeInv'
  <2>1. raced' \in BOOLEAN
    BY <1>1, Zenon DEF BeginUpdate
  <2>2. GivenValuesOnly'
    BY <1>1, SMT DEF BeginUpdate, GivenValuesOnly
  <2>3. ~raced' => ~raced /\ \A s \in Updaters : update[s].pc = "idle"
    BY <1>1, Zenon DEF BeginUpdate
  <2>4. MaximumKept'
    BY <1>1, <2>3, SMT DEF BeginUpdate, MaximumKept
  <2>5. QED
    BY <1>1, <2>1, <2>2, <2>4, SMT DEF BeginUpdate
<1>2. ASSUME NEW t \in Updaters, StoreMax(t)
      PROVE  MaxGaugeInv'
  <2>1. GivenValuesOnly'
    BY <1>2, SMT DEF StoreMax, GivenValuesOnly, Larger
  <2>2. MaximumKept'
    BY <1>2, SMT DEF StoreMax, MaximumKept, Larger
  <2>3. QED
    BY <1>2, <2>1, <2>2, SMT DEF StoreMax, Larger
<1>3. CASE UNCHANGED maxGaugeVars
  BY <1>3 DEF maxGaugeVars, GivenValuesOnly, MaximumKept
<1>4. QED
  BY <1>1, <1>2, <1>3 DEF MaxGaugeNext

\* The local maximum is a value given or zero, and the largest as long as no
\* two calls of Update overlapped.
THEOREM MaximumIsKept == MaxGaugeSpec => []LocalMaxIsKept
<1>1. MaxGaugeInv => LocalMaxIsKept
  BY DEF MaxGaugeInv, GivenValuesOnly, MaximumKept, LocalMaxIsKept
<1>2. QED
  BY <1>1, MaxGaugeInvInit, MaxGaugeInvStep, PTL DEF MaxGaugeSpec

-----------------------------------------------------------------------------
(* Timer *)

Buckets == [pos : Nat, open : SUBSET Records, last : SUBSET Records]

\* The statistics Record has still to update when it is at d.
StillToUpdate(d) ==
  CASE d \in {"begin", "count"} -> Statistics
    [] d \in {"count_", "total_time_", "totalTime"} -> Statistics \ {"count"}
    [] d = "totalOfSquares" -> {"totalOfSquares", "max"}
    [] d = "max"  -> {"max"}
    [] d = "done" -> {}

TimerTypes ==
  /\ timerStep \in Nat
  /\ bucket \in [Statistics -> Buckets]
  /\ doing \in [Records -> {"begin", "done"} \cup Statistics \cup Totals]
  /\ polled \in [Statistics -> SUBSET Records]
  /\ madeIn \in [Records -> [Statistics -> {-1} \cup Nat]]
  /\ polledIn \in [Statistics -> {-1} \cup Nat]

\* A record enters each statistic once, and only if it is not negative.
EnteredOnce ==
  \A r \in Records :
    /\ \A s \in StillToUpdate(doing[r]) : madeIn[r][s] = -1
    /\ r \in Negative => doing[r] \in {"begin", "done"} /\ \A s \in Statistics : madeIn[r][s] = -1

\* A bucket holds the records of its own step and of the one before.
BucketHolds(s) ==
  /\ bucket[s].pos <= timerStep
  /\ \A r \in Records :
       /\ madeIn[r][s] <= bucket[s].pos
       /\ r \in bucket[s].open <=> madeIn[r][s] = bucket[s].pos
       /\ r \in bucket[s].last <=> madeIn[r][s] = bucket[s].pos - 1 /\ madeIn[r][s] >= 0

\* What was polled are the records of the step before.
PolledHolds(s) ==
  /\ polledIn[s] <= timerStep
  /\ polledIn[s] >= 0 =>
       \A r \in Records :
         r \in polled[s] <=> madeIn[r][s] = polledIn[s] - 1 /\ madeIn[r][s] >= 0

TimerInv ==
  /\ TimerTypes
  /\ EnteredOnce
  /\ \A s \in Statistics : BucketHolds(s) /\ PolledHolds(s)

LEMMA TimerInvInit == TimerInit => TimerInv
  BY SMT DEF TimerInit, TimerInv, TimerTypes, Buckets, EnteredOnce, BucketHolds, PolledHolds,
             Statistics, Totals, StillToUpdate

\* Rolled for the clock's step, a bucket holds what it should.
LEMMA RolledHolds ==
  ASSUME TimerInv, NEW s \in Statistics
  PROVE  /\ Rolled(bucket[s]) \in Buckets
         /\ Rolled(bucket[s]).pos = timerStep
         /\ \A r \in Records :
              /\ madeIn[r][s] <= timerStep
              /\ r \in Rolled(bucket[s]).open <=> madeIn[r][s] = timerStep
              /\ r \in Rolled(bucket[s]).last <=> madeIn[r][s] = timerStep - 1 /\ madeIn[r][s] >= 0
<1> DEFINE b == bucket[s]
<1>1. /\ b.pos \in Nat /\ timerStep \in Nat /\ b.pos <= timerStep
      /\ b.open \in SUBSET Records /\ b.last \in SUBSET Records
      /\ b = [pos |-> b.pos, open |-> b.open, last |-> b.last]
  BY DEF TimerInv, TimerTypes, Buckets, BucketHolds
<1>2. \A r \in Records : madeIn[r][s] \in {-1} \cup Nat
  BY DEF TimerInv, TimerTypes
<1>3. \A r \in Records :
       /\ madeIn[r][s] <= b.pos
       /\ r \in b.open <=> madeIn[r][s] = b.pos
       /\ r \in b.last <=> madeIn[r][s] = b.pos - 1 /\ madeIn[r][s] >= 0
  BY DEF TimerInv, BucketHolds
<1>4. CASE b.pos = timerStep
  BY <1>1, <1>3, <1>4 DEF Rolled, Buckets
<1>5. CASE b.pos # timerStep
  <2> DEFINE last == IF b.pos = timerStep - 1 THEN b.open ELSE {}
  <2>1. Rolled(b) = [pos |-> timerStep, open |-> {}, last |-> last]
    BY <1>5 DEF Rolled
  <2>2. \A r \in Records : /\ madeIn[r][s] <= timerStep /\ madeIn[r][s] # timerStep
                           /\ r \in last <=> madeIn[r][s] = timerStep - 1 /\ madeIn[r][s] >= 0
    BY <1>1, <1>2, <1>3, <1>5, SMT
  <2>3. last \in SUBSET Records
    BY <1>1
  <2> HIDE DEF last
  <2>4. /\ Rolled(b) \in Buckets /\ Rolled(b).pos = timerStep
        /\ Rolled(b).open = {} /\ Rolled(b).last = last
    BY <1>1, <2>1, <2>3 DEF Buckets
  <2>5. ASSUME NEW r \in Records
        PROVE  /\ madeIn[r][s] <= timerStep
               /\ r \in Rolled(b).open <=> madeIn[r][s] = timerStep
               /\ r \in Rolled(b).last <=> madeIn[r][s] = timerStep - 1 /\ madeIn[r][s] >= 0
    <3>1. madeIn[r][s] <= timerStep /\ madeIn[r][s] # timerStep
      BY <2>2
    <3>2. r \in last <=> madeIn[r][s] = timerStep - 1 /\ madeIn[r][s] >= 0
      BY <2>2
    <3>3. r \notin Rolled(b).open /\ Rolled(b).last = last
      BY <2>4
    <3> HIDE DEF b
    <3>4. QED
      BY <3>1, <3>2, <3>3
  <2>6. QED
    BY <2>4, <2>5
<1>6. QED
  BY <1>4, <1>5

LEMMA TimerInvStep == TimerInv /\ [TimerNext]_timerVars => TimerInv'
<1> SUFFICES ASSUME TimerInv, [TimerNext]_timerVars
             PROVE  TimerInv'
  OBVIOUS
<1>1. CASE NextTimerStep
  BY <1>1, SMT DEF NextTimerStep, TimerInv, TimerTypes, EnteredOnce, BucketHolds, PolledHolds, Buckets
<1>2. ASSUME NEW r \in Records, BeginRecord(r)
      PROVE  TimerInv'
  <2>1. TimerTypes'
    BY <1>2 DEF BeginRecord, TimerInv, TimerTypes, NextDone, Statistics
  <2>2. EnteredOnce'
    <3>1. /\ doing'[r] \in (IF r \in Negative THEN {"done"} ELSE {"count"})
          /\ \A q \in Records : q # r => doing'[q] = doing[q]
          /\ madeIn' = madeIn
      BY <1>2 DEF BeginRecord, TimerInv, TimerTypes, NextDone
    <3>2. StillToUpdate(doing'[r]) \subseteq StillToUpdate(doing[r])
      BY <1>2, <3>1, SMT DEF BeginRecord, StillToUpdate, Statistics
    <3>3. QED
      BY <3>1, <3>2 DEF TimerInv, EnteredOnce
  <2>3. QED
    BY <1>2, <2>1, <2>2 DEF BeginRecord, TimerInv, BucketHolds, PolledHolds
<1>3. ASSUME NEW r \in Records, UpdateTotal(r)
      PROVE  TimerInv'
  <2>1. TimerTypes'
    BY <1>3 DEF UpdateTotal, TimerInv, TimerTypes, NextDone, Statistics, Totals
  <2>2. EnteredOnce'
    BY <1>3, SMT DEF UpdateTotal, TimerInv, TimerTypes, EnteredOnce, NextDone, Statistics, Totals, StillToUpdate
  <2>3. QED
    BY <1>3, <2>1, <2>2 DEF UpdateTotal, TimerInv, BucketHolds, PolledHolds
<1>4. CASE BeginMeasure
  BY <1>4 DEF BeginMeasure, TimerInv, TimerTypes, EnteredOnce, BucketHolds, PolledHolds
<1>5. ASSUME NEW r \in Records, UpdateStatistic(r)
      PROVE  TimerInv'
  <2> DEFINE s == doing[r]
             new == Updated(bucket[s], r)
  <2>1. s \in Statistics /\ r \notin Negative /\ madeIn[r][s] = -1
    BY <1>5, SMT DEF UpdateStatistic, TimerInv, EnteredOnce, Statistics, StillToUpdate
  <2>2. /\ new \in Buckets /\ new.pos = timerStep
        /\ new.open = Rolled(bucket[s]).open \cup {r} /\ new.last = Rolled(bucket[s]).last
    BY <2>1, RolledHolds DEF Buckets, Updated
  <2>3. /\ bucket' = [bucket EXCEPT ![s] = new]
        /\ timerStep' = timerStep /\ polled' = polled /\ polledIn' = polledIn
        /\ doing' = [doing EXCEPT ![r] = NextDone[s]]
    BY <1>5 DEF UpdateStatistic
  <2>4. /\ madeIn' = [madeIn EXCEPT ![r] = [madeIn[r] EXCEPT ![s] = timerStep]]
        /\ madeIn'[r][s] = timerStep
        /\ \A q \in Records, z \in Statistics : q # r \/ z # s => madeIn'[q][z] = madeIn[q][z]
    BY <1>5, <2>1 DEF UpdateStatistic, TimerInv, TimerTypes
  <2>5. TimerTypes'
    <3>1. madeIn' \in [Records -> [Statistics -> {-1} \cup Nat]]
      BY <2>1, <2>4 DEF TimerInv, TimerTypes
    <3>2. NextDone[s] \in {"done"} \cup Statistics \cup Totals
      BY <2>1 DEF NextDone, Statistics, Totals
    <3>3. QED
      BY <2>1, <2>2, <2>3, <3>1, <3>2 DEF TimerInv, TimerTypes
  <2>6. EnteredOnce'
    <3>1. ASSUME NEW q \in Records, q # r
          PROVE  doing'[q] = doing[q] /\ \A z \in Statistics : madeIn'[q][z] = madeIn[q][z]
      BY <2>3, <2>4, <3>1 DEF TimerInv, TimerTypes
    <3>2. \A z \in StillToUpdate(NextDone[s]) : z \in StillToUpdate(s) /\ z \in Statistics /\ z # s
      BY <2>1, SMT DEF NextDone, StillToUpdate, Statistics
    <3>3. doing'[r] = NextDone[s]
      BY <2>3 DEF TimerInv, TimerTypes
    <3>4. \A z \in StillToUpdate(doing'[r]) : madeIn'[r][z] = -1
      BY <2>4, <3>2, <3>3 DEF TimerInv, EnteredOnce
    <3>5. \A q \in Records : StillToUpdate(doing[q]) \subseteq Statistics
      BY SMT DEF TimerInv, TimerTypes, StillToUpdate, Statistics, Totals
    <3>6. QED
      BY <2>1, <3>1, <3>4, <3>5 DEF TimerInv, EnteredOnce
  <2>7. ASSUME NEW z \in Statistics
        PROVE  BucketHolds(z)' /\ PolledHolds(z)'
    <3>1. CASE z # s
      BY <2>1, <2>3, <2>4, <3>1 DEF TimerInv, TimerTypes, BucketHolds, PolledHolds
    <3>2. CASE z = s
      <4>1. bucket'[z] = new
        BY <2>1, <2>3, <3>2 DEF TimerInv, TimerTypes
      <4>2. timerStep \in Nat /\ polledIn[z] \in {-1} \cup Nat /\ polledIn[z] <= timerStep
        BY DEF TimerInv, TimerTypes, PolledHolds
      <4>3. BucketHolds(z)'
        <5> DEFINE rolled == Rolled(bucket[s])
        <5>1. ASSUME NEW q \in Records
              PROVE  /\ madeIn[q][s] <= timerStep
                     /\ q \in rolled.open <=> madeIn[q][s] = timerStep
                     /\ q \in rolled.last <=> madeIn[q][s] = timerStep - 1 /\ madeIn[q][s] >= 0
          BY <2>1, RolledHolds
        <5>2. /\ new.pos = timerStep /\ new.open = rolled.open \cup {r} /\ new.last = rolled.last
              /\ r \notin rolled.last
          BY <2>1, <2>2, <5>1, SMT
        <5> HIDE DEF rolled, new
        <5>3. ASSUME NEW q \in Records
              PROVE  /\ madeIn'[q][s] <= timerStep
                     /\ q \in new.open <=> madeIn'[q][s] = timerStep
                     /\ q \in new.last <=> madeIn'[q][s] = timerStep - 1 /\ madeIn'[q][s] >= 0
          <6>1. CASE q = r
            BY <2>1, <2>4, <4>2, <5>2, <6>1, SMT
          <6>2. CASE q # r
            BY <2>1, <2>4, <5>1, <5>2, <6>2
          <6>3. QED
            BY <6>1, <6>2
        <5>4. QED
          BY <2>3, <3>2, <4>1, <4>2, <5>2, <5>3 DEF BucketHolds
      <4>4. ASSUME NEW q \in Records, polledIn[z] >= 0
            PROVE  q \in polled[z] <=> madeIn'[q][z] = polledIn[z] - 1 /\ madeIn'[q][z] >= 0
        <5>1. q \in polled[z] <=> madeIn[q][z] = polledIn[z] - 1 /\ madeIn[q][z] >= 0
          BY <4>4 DEF TimerInv, PolledHolds
        <5>2. QED
          BY <2>1, <2>4, <3>2, <4>2, <4>4, <5>1, SMT
      <4>5. PolledHolds(z)'
        BY <2>3, <4>2, <4>4 DEF PolledHolds
      <4>6. QED
        BY <4>3, <4>5
    <3>3. QED
      BY <3>1, <3>2
  <2>8. QED
    BY <2>5, <2>6, <2>7 DEF TimerInv
<1>6. CASE PollStatistic
  <2> DEFINE s == polling
             new == Rolled(bucket[s])
  <2>1. /\ s \in Statistics
        /\ bucket' = [bucket EXCEPT ![s] = new]
        /\ polled' = [polled EXCEPT ![s] = new.last]
        /\ polledIn' = [polledIn EXCEPT ![s] = timerStep]
        /\ timerStep' = timerStep /\ doing' = doing /\ madeIn' = madeIn
    BY <1>6 DEF PollStatistic
  <2>2. /\ new \in Buckets /\ new.pos = timerStep
        /\ \A r \in Records :
             /\ madeIn[r][s] <= timerStep
             /\ r \in new.open <=> madeIn[r][s] = timerStep
             /\ r \in new.last <=> madeIn[r][s] = timerStep - 1 /\ madeIn[r][s] >= 0
    BY <2>1, RolledHolds
  <2>3. new.last \in SUBSET Records /\ timerStep \in Nat
    BY <2>2 DEF Buckets, TimerInv, TimerTypes
  <2> HIDE DEF new, s
  <2>4. TimerTypes' /\ EnteredOnce'
    BY <2>1, <2>2, <2>3 DEF TimerInv, TimerTypes, EnteredOnce
  <2>5. ASSUME NEW z \in Statistics
        PROVE  BucketHolds(z)' /\ PolledHolds(z)'
    <3>1. CASE z # s
      BY <2>1, <3>1 DEF TimerInv, TimerTypes, BucketHolds, PolledHolds
    <3>2. CASE z = s
      <4>1. bucket'[z] = new /\ polled'[z] = new.last /\ polledIn'[z] = timerStep
        BY <2>1, <3>2 DEF TimerInv, TimerTypes
      <4>2. QED
        BY <2>1, <2>2, <2>3, <3>2, <4>1, SMT DEF BucketHolds, PolledHolds
    <3>3. QED
      BY <3>1, <3>2
  <2>6. QED
    BY <2>4, <2>5 DEF TimerInv
<1>7. CASE UNCHANGED timerVars
  BY <1>7 DEF timerVars, TimerInv, TimerTypes, EnteredOnce, BucketHolds, PolledHolds
<1>8. QED
  BY <1>1, <1>2, <1>3, <1>4, <1>5, <1>6, <1>7 DEF TimerNext

\* The statistics of a Measure in which no boundary falls are those of the
\* interval before, and agree but for records made across its ends.
THEOREM StatisticsOfOneInterval == TimerSpec => []StatisticsAgree
<1>1. TimerInv => StatisticsAgree
  <2> SUFFICES ASSUME TimerInv, Measured, NEW s \in Statistics, NEW z \in Statistics,
                      NEW r \in polled[s]
               PROVE  /\ r \notin Negative /\ madeIn[r][s] = polledIn[s] - 1
                      /\ r \in polled[z] \/ madeIn[r][z] # madeIn[r][s]
    BY DEF StatisticsAgree
  <2>1. polledIn[s] = polledIn[z] /\ polledIn[s] >= 0 /\ polledIn[z] >= 0 /\ r \in Records
    BY DEF Measured, TimerInv, TimerTypes
  <2>2. madeIn[r][s] = polledIn[s] - 1 /\ madeIn[r][s] >= 0
    BY <2>1 DEF TimerInv, PolledHolds
  <2>3. r \notin Negative
    BY <2>1, <2>2 DEF TimerInv, EnteredOnce
  <2>4. madeIn[r][z] = madeIn[r][s] => r \in polled[z]
    BY <2>1, <2>2 DEF TimerInv, PolledHolds
  <2>5. QED
    BY <2>2, <2>3, <2>4
<1>2. QED
  BY <1>1, TimerInvInit, TimerInvStep, PTL DEF TimerSpec

-----------------------------------------------------------------------------
(* Validation *)

TagsInv ==
  /\ DOMAIN tags \subseteq TagKeys /\ IsFiniteSet(DOMAIN tags)
  /\ tags \in [DOMAIN tags -> TagValues]

LEMMA TagsInvInit == ValidationInit => TagsInv
  BY FS_EmptySet DEF ValidationInit, TagsInv

LEMMA TagsInvStep == TagsInv /\ [ValidationNext]_tags => TagsInv'
<1>1. ASSUME TagsInv, NEW k \in TagKeys, NEW v \in TagValues, AddTag(k, v)
      PROVE  TagsInv'
  <2>1. DOMAIN tags' = DOMAIN tags \cup {k}
    BY <1>1 DEF AddTag
  <2>2. IsFiniteSet(DOMAIN tags')
    BY <1>1, <2>1, FS_AddElement DEF TagsInv
  <2>3. QED
    BY <1>1, <2>1, <2>2 DEF TagsInv, AddTag
<1>2. ASSUME TagsInv, UNCHANGED tags
      PROVE  TagsInv'
  BY <1>2 DEF TagsInv
<1>3. QED
  BY <1>1, <1>2 DEF ValidationNext

\* A list of issues without an error.
Clean(issues) == \A issue \in issues : issue.level # "ERROR"

LEMMA CleanUnion ==
  ASSUME NEW I, NEW J
  PROVE  Clean(I \cup J) <=> Clean(I) /\ Clean(J)
  BY DEF Clean

LEMMA CleanWhen ==
  ASSUME NEW condition, NEW what, NEW about
  PROVE  /\ Clean(When(condition, Issue("ERROR", what, about))) <=> ~condition
         /\ Clean(When(condition, Issue("WARN", what, about)))
<1>1. Issue("ERROR", what, about).level = "ERROR" /\ Issue("WARN", what, about).level # "ERROR"
  BY DEF Issue
<1>2. ASSUME NEW issue
      PROVE  Clean(When(condition, issue)) <=> (condition => issue.level # "ERROR")
  <2>1. CASE condition
    <3>1. When(condition, issue) = {issue}
      BY <2>1 DEF When
    <3>2. QED
      BY <2>1, <3>1 DEF Clean
  <2>2. CASE ~condition
    <3>1. When(condition, issue) = {}
      BY <2>2 DEF When
    <3>2. QED
      BY <2>2, <3>1 DEF Clean
  <2>3. QED
    BY <2>1, <2>2
<1>3. QED
  BY <1>1, <1>2

\* A tag without faults is one that is accepted.
LEMMA TagVerdicts ==
  ASSUME NEW k \in TagKeys, NEW v \in TagValues
  PROVE  Clean(AnalyzeTag(k, v)) <=> IsTagValid(k, v)
<1> DEFINE empty  == EmptyOrNull(k) \/ EmptyOrNull(v)
           longN  == Length[v] > MaxNameLength
           longK  == Length[k] > MaxKeyLength
           longV  == Length[v] > MaxValLength
           warnK  == When(k \in RecodedKeys, Issue("WARN", "key encoded", k))
           warnV  == When(<<k, v>> \in RecodedValues, Issue("WARN", "value encoded", k))
           errE   == When(empty, Issue("ERROR", "empty", k))
           errN   == When(longN, Issue("ERROR", "name too long", k))
           errK   == When(longK, Issue("ERROR", "key too long", k))
           errV   == When(longV, Issue("ERROR", "value too long", k))
           errR   == When(IsUserKeyInvalid(k), Issue("ERROR", "reserved", k))
           rest   == IF k = NameKey THEN errN ELSE (errK \cup errV) \cup errR
<1>1. AnalyzeTag(k, v) = ((warnK \cup warnV) \cup errE) \cup rest
  BY DEF AnalyzeTag
<1>2. /\ Clean(warnK) /\ Clean(warnV)
      /\ Clean(errE) <=> ~empty
      /\ Clean(errN) <=> ~longN
      /\ Clean(errK) <=> ~longK
      /\ Clean(errV) <=> ~longV
      /\ Clean(errR) <=> ~IsUserKeyInvalid(k)
  BY CleanWhen
<1>3. /\ ~longN <=> Length[v] <= MaxNameLength
      /\ ~longK <=> Length[k] <= MaxKeyLength
      /\ ~longV <=> Length[v] <= MaxValLength
  BY ValidationAssumption, SMT
<1> HIDE DEF warnK, warnV, errE, errN, errK, errV, errR
<1>4. Clean(rest) <=> IF k = NameKey THEN ~longN ELSE ~longK /\ ~longV /\ ~IsUserKeyInvalid(k)
  BY <1>2, CleanUnion
<1> HIDE DEF rest
<1>5. Clean(AnalyzeTag(k, v)) <=> ~empty /\ Clean(rest)
  BY <1>1, <1>2, CleanUnion
<1> HIDE DEF longN, longK, longV
<1>6. QED
  BY <1>3, <1>4, <1>5 DEF IsTagValid

\* Tags are published if and only if their analysis shows no error, for every
\* set of tags, every reserved key and every limit.
THEOREM Verdicts == ValidationSpec => []VerdictsAgree
<1>1. TagsInv => VerdictsAgree
  <2> SUFFICES ASSUME TagsInv PROVE VerdictsAgree
    OBVIOUS
  <2> DEFINE faults == UNION {AnalyzeTag(k, tags[k]) : k \in DOMAIN tags}
             many   == When(UserTags(tags) > MaxUserTags, Issue("ERROR", "too many", NameKey))
             noName == When(NameKey \notin DOMAIN tags, Issue("ERROR", "no name", NameKey))
  <2>1. AnalyzeTags(tags) = (faults \cup many) \cup noName
    BY DEF AnalyzeTags
  <2>2. Clean(faults) <=> \A k \in DOMAIN tags : IsTagValid(k, tags[k])
    <3>1. Clean(faults) <=> \A k \in DOMAIN tags : Clean(AnalyzeTag(k, tags[k]))
      BY DEF Clean
    <3>2. \A k \in DOMAIN tags : Clean(AnalyzeTag(k, tags[k])) <=> IsTagValid(k, tags[k])
      BY TagVerdicts DEF TagsInv
    <3>3. QED
      BY <3>1, <3>2
  <2>3. UserTags(tags) \in Nat
    <3>1. IsFiniteSet(DOMAIN tags \ (Restricted \ {NameKey}))
      BY FS_Difference DEF TagsInv
    <3>2. QED
      BY <3>1, FS_CardinalityType DEF UserTags
  <2>4. UserTags(tags) > MaxUserTags <=> ~(UserTags(tags) <= MaxUserTags)
    BY <2>3, ValidationAssumption, SMT
  <2>5. Clean(many) <=> UserTags(tags) <= MaxUserTags
    BY <2>4, CleanWhen
  <2>6. Clean(noName) <=> NameKey \in DOMAIN tags
    BY CleanWhen
  <2> HIDE DEF faults, many, noName
  <2>7. Clean(AnalyzeTags(tags)) <=> AreTagsValid(tags)
    BY <2>1, <2>2, <2>5, <2>6, CleanUnion DEF AreTagsValid
  <2>8. QED
    BY <2>7 DEF VerdictsAgree, Clean
<1>2. QED
  BY <1>1, TagsInvInit, TagsInvStep, PTL DEF ValidationSpec

-----------------------------------------------------------------------------
(* Bucket functions *)

\* A set of numbers has a least one.
LEMMA MinIs ==
  ASSUME NEW S \in SUBSET Nat, S # {}
  PROVE  Min(S) \in S /\ \A y \in S : Min(S) <= y
<1>1. PICK n \in S : \A k \in S : ~(<<k, n>> \in OpToRel(<, Nat))
  BY NatLessThanWellFounded, WFMin
<1>2. \A k \in S : ~(k < n)
  BY <1>1 DEF OpToRel
<1>3. \A k \in S : n <= k
  BY <1>2
<1>4. QED
  BY <1>3 DEF Min

Factors == {1, 1000, 1000000, 1024, 1048576}

Unit == {"ns", "us", "ms", "B", "KiB", "MiB", NoUnit, "k", "M"}

Formatter == [max : Nat, width : 1 .. 4, unit : Unit, factor : Factors]

\* What the last formatters are for is below this.
TheMost == 1000000000

\* Formatters of one unit, the last for what is below next.
IsUnit(vfs, factor, next) ==
  /\ vfs \in Seq(Formatter) /\ Len(vfs) \in 3 .. 4
  /\ \A i \in 1 .. Len(vfs) : /\ vfs[i].factor = factor /\ 8 * factor <= vfs[i].max
                              /\ vfs[i].max <= TooWide[vfs[i].width] * factor
  /\ vfs[Len(vfs)].max >= next

\* A formatter has as many digits as it needs.  What is too large for the one
\* before, but of the decimal ones, is eight of the unit or more.
Table(vfs, kind) ==
  /\ vfs \in Seq(Formatter) /\ Len(vfs) >= 1
  /\ vfs[Len(vfs)].max >= TheMost
  /\ \A i \in 1 .. Len(vfs) :
       /\ vfs[i].max <= TooWide[vfs[i].width] * vfs[i].factor
       /\ kind # "Decimal" => vfs[i].factor = 1 \/ (i > 1 /\ vfs[i - 1].max >= 8 * vfs[i].factor)

\* Three sequences, one after the other.
LEMMA Joined ==
  ASSUME NEW S, NEW a \in Seq(S), NEW b \in Seq(S), NEW c \in Seq(S),
         NEW la \in Nat, NEW lb \in Nat, NEW lc \in Nat, la = Len(a), lb = Len(b), lc = Len(c),
         NEW t, t = (a \o b) \o c
  PROVE  /\ t \in Seq(S) /\ Len(t) = la + lb + lc
         /\ \A i \in 1 .. la : t[i] = a[i]
         /\ \A i \in 1 .. lb : t[la + i] = b[i]
         /\ \A i \in 1 .. lc : t[la + lb + i] = c[i]
<1>1. t \in Seq(S) /\ Len(t) = la + lb + lc
  OBVIOUS
<1>2. \A i \in 1 .. la : t[i] = a[i]
  OBVIOUS
<1>3. \A i \in 1 .. lb : t[la + i] = b[i]
  OBVIOUS
<1>4. \A i \in 1 .. lc : t[la + lb + i] = c[i]
  OBVIOUS
<1>5. QED
  BY <1>1, <1>2, <1>3, <1>4

\* Formatters of three units, each up to eight of the next or more, are a table.
LEMMA UnitsJoin ==
  ASSUME NEW a, NEW b, NEW c, NEW kind, NEW fb \in Nat, NEW fc \in Nat, NEW nb \in Nat, NEW nc \in Nat, NEW nd \in Nat,
         IsUnit(a, 1, nb), IsUnit(b, fb, nc), IsUnit(c, fc, nd), nd >= TheMost,
         kind # "Decimal" => nb >= 8 * fb /\ nc >= 8 * fc
  PROVE  Table(a \o b \o c, kind)
<1> DEFINE la == Len(a)
           lb == Len(b)
           lc == Len(c)
           t == (a \o b) \o c
<1>1. /\ a \in Seq(Formatter) /\ b \in Seq(Formatter) /\ c \in Seq(Formatter)
      /\ la \in Nat /\ lb \in Nat /\ lc \in Nat /\ la >= 3 /\ lb >= 3 /\ lc >= 3
  <2>1. /\ a \in Seq(Formatter) /\ b \in Seq(Formatter) /\ c \in Seq(Formatter)
        /\ la \in 3 .. 4 /\ lb \in 3 .. 4 /\ lc \in 3 .. 4
    BY Zenon DEF IsUnit
  <2> HIDE DEF la, lb, lc
  <2>2. QED
    BY <2>1
<1> HIDE DEF la, lb, lc
<1>3. /\ t \in Seq(Formatter) /\ Len(t) = la + lb + lc
      /\ \A i \in 1 .. lc : t[la + lb + i] = c[i]
  BY <1>1 DEF la, lb, lc
<1>4. /\ \A i \in 1 .. la : t[i] = a[i]
      /\ \A i \in 1 .. lb : t[la + i] = b[i]
  BY <1>1 DEF la, lb, lc
<1> HIDE DEF t
<1>6. t[Len(t)].max >= TheMost
  <2>1. t[Len(t)] = c[lc]
    BY <1>1, <1>3, SMT
  <2>2. QED
    <3>1. c[lc].max >= nd
      BY SMT DEF IsUnit, lc
    <3>2. c[lc] \in Formatter
      BY <1>1 DEF lc
    <3>3. c[lc].max \in Nat
      BY <3>2, SMT DEF Formatter
    <3>4. c[lc].max >= TheMost
      BY <3>1, <3>3, SMT DEF TheMost
    <3>5. QED
      BY <2>1, <3>4, Zenon
<1> DEFINE Fits(vf) == vf.max <= TooWide[vf.width] * vf.factor
           Follows(i) == kind # "Decimal" => t[i].factor = 1 \/ (i > 1 /\ t[i - 1].max >= 8 * t[i].factor)
<1>7. ASSUME NEW i \in 1 .. la
      PROVE  Fits(t[i]) /\ Follows(i)
  <2>1. t[i] = a[i]
    BY <1>4
  <2>2. a[i].factor = 1 /\ a[i].max <= TooWide[a[i].width] * 1
    BY Zenon DEF IsUnit, la
  <2>3. QED
    BY <2>1, <2>2, Zenon
<1>8. ASSUME NEW i \in 1 .. lb
      PROVE  Fits(t[la + i]) /\ Follows(la + i)
  <2>1. t[la + i] = b[i] /\ b[i].factor = fb /\ b[i].max <= TooWide[b[i].width] * fb
    BY <1>4, SMT DEF IsUnit, lb
  <2>2. kind # "Decimal" => t[(la + i) - 1].max >= 8 * fb
    <3>1. CASE i = 1
      <4>1. t[(la + i) - 1] = a[la]
        BY <1>1, <1>4, <3>1
      <4>2. a[la].max >= nb
        BY DEF IsUnit, la
      <4>3. a[la] \in Formatter
        BY <1>1 DEF la
      <4>4. a[la].max \in Nat
        BY <4>3, SMT DEF Formatter
      <4>5. QED
        BY <4>1, <4>2, <4>4
    <3>2. CASE i > 1
      <4>1. i - 1 \in 1 .. lb /\ (la + i) - 1 = la + (i - 1)
        BY <1>1, <3>2
      <4>2. t[(la + i) - 1] = b[i - 1] /\ 8 * fb <= b[i - 1].max
        BY <1>4, <4>1 DEF IsUnit, lb
      <4>3. b[i - 1].max \in Nat
        <5>1. b[i - 1] \in Formatter
          BY <1>1, <4>1 DEF lb
        <5>2. QED
          BY <5>1, SMT DEF Formatter
      <4>4. QED
        BY <4>2, <4>3
    <3>3. QED
      BY <1>1, <3>1, <3>2
  <2>3. la + i > 1
    BY <1>1
  <2>4. Fits(t[la + i])
    BY <2>1, Zenon
  <2>5. Follows(la + i)
    <3>1. 8 * fb = 8 * t[la + i].factor
      BY <2>1, Zenon
    <3>2. kind # "Decimal" => (la + i > 1 /\ t[(la + i) - 1].max >= 8 * t[la + i].factor)
      BY <2>2, <2>3, <3>1, SMT
    <3>3. QED
      BY <3>2, Zenon
  <2>6. QED
    BY <2>4, <2>5
<1>9. ASSUME NEW i \in 1 .. lc
      PROVE  Fits(t[la + lb + i]) /\ Follows(la + lb + i)
  <2>1. t[la + lb + i] = c[i] /\ c[i].factor = fc /\ c[i].max <= TooWide[c[i].width] * fc
    BY <1>3, SMT DEF IsUnit, lc
  <2>2. kind # "Decimal" => t[(la + lb + i) - 1].max >= 8 * fc
    <3>1. CASE i = 1
      <4>1. t[(la + lb + i) - 1] = b[lb]
        <5>1. (la + lb + i) - 1 = la + lb /\ lb \in 1 .. lb
          BY <1>1, <3>1
        <5>2. QED
          BY <1>4, <5>1, Zenon
      <4>2. b[lb].max >= nc
        BY DEF IsUnit, lb
      <4>3. b[lb] \in Formatter
        BY <1>1 DEF lb
      <4>4. b[lb].max \in Nat
        BY <4>3, SMT DEF Formatter
      <4>5. QED
        BY <4>1, <4>2, <4>4
    <3>2. CASE i > 1
      <4>1. i - 1 \in 1 .. lc /\ (la + lb + i) - 1 = la + lb + (i - 1)
        BY <1>1, <3>2
      <4>2. t[(la + lb + i) - 1] = c[i - 1] /\ 8 * fc <= c[i - 1].max
        BY <1>3, <4>1, SMT DEF IsUnit, lc
      <4>3. c[i - 1].max \in Nat
        <5>1. c[i - 1] \in Formatter
          BY <1>1, <4>1 DEF lc
        <5>2. QED
          BY <5>1, SMT DEF Formatter
      <4>4. QED
        BY <4>2, <4>3
    <3>3. QED
      BY <1>1, <3>1, <3>2
  <2>3. la + lb + i > 1
    BY <1>1
  <2>4. Fits(t[la + lb + i])
    BY <2>1, Zenon
  <2>5. Follows(la + lb + i)
    <3>1. 8 * fc = 8 * t[la + lb + i].factor
      BY <2>1, Zenon
    <3>2. kind # "Decimal" => (la + lb + i > 1 /\ t[(la + lb + i) - 1].max >= 8 * t[la + lb + i].factor)
      BY <2>2, <2>3, <3>1, SMT
    <3>3. QED
      BY <3>2, Zenon
  <2>6. QED
    BY <2>4, <2>5
<1>10. ASSUME NEW i \in 1 .. la + lb + lc
       PROVE  Fits(t[i]) /\ Follows(i)
  <2> HIDE DEF Fits, Follows
  <2>1. CASE i <= la
    BY <1>1, <1>7, <2>1
  <2>2. CASE la < i /\ i <= la + lb
    <3>1. i - la \in 1 .. lb /\ la + (i - la) = i
      BY <1>1, <2>2
    <3>2. QED
      BY <1>8, <3>1
  <2>3. CASE la + lb < i
    <3>1. i - (la + lb) \in 1 .. lc /\ la + lb + (i - (la + lb)) = i
      BY <1>1, <2>3
    <3>2. QED
      BY <1>9, <3>1
  <2>4. QED
    BY <1>1, <2>1, <2>2, <2>3
<1>11. Len(t) >= 1
  BY <1>1, <1>3
<1>12. Table(t, kind)
  BY <1>3, <1>6, <1>10, <1>11, SMT DEF Table
<1>13. QED
  BY <1>12 DEF t

\* A fact of its own: a backend that is given the names need not compare them.
LEMMA Units ==
  /\ "ns" \in Unit /\ "us" \in Unit /\ "ms" \in Unit
  /\ "B" \in Unit /\ "KiB" \in Unit /\ "MiB" \in Unit
  /\ NoUnit \in Unit /\ "k" \in Unit /\ "M" \in Unit
BY Zenon DEF Unit

LEMMA ThreeFormatters ==
  ASSUME NEW u \in Unit, NEW F \in Factors
  PROVE  IsUnit(UnitFormatters(u, F, <<10, 100, 1000>>), F, 1000 * F)
BY SMT DEF UnitFormatters, IsUnit, Formatter, Factors, TooWide

\* So are those of every bucket function.
LEMMA Tables == \A kind \in DOMAIN Formatters : Table(Formatters[kind], kind)
<1>1. Table(TimeFormatters, "Age") /\ Table(TimeFormatters, "AgeBiasOld")
  <2>1. /\ IsUnit(UnitFormatters("ns", 1, <<10, 100, 1000, 8000>>), 1, 8000)
        /\ IsUnit(UnitFormatters("us", 1000, <<10, 100, 1000, 8000>>), 1000, 8000000)
        /\ IsUnit(UnitFormatters("ms", 1000000, <<10, 100, 1000>>), 1000000, 1000 * 1000000)
    <3>1. IsUnit(UnitFormatters("ns", 1, <<10, 100, 1000, 8000>>), 1, 8000)
      BY Units, SMT DEF UnitFormatters, IsUnit, Formatter, Factors, TooWide
    <3>2. IsUnit(UnitFormatters("us", 1000, <<10, 100, 1000, 8000>>), 1000, 8000000)
      BY Units, SMT DEF UnitFormatters, IsUnit, Formatter, Factors, TooWide
    <3>3. IsUnit(UnitFormatters("ms", 1000000, <<10, 100, 1000>>), 1000000, 1000 * 1000000)
      BY Units, ThreeFormatters, SMT DEF Factors
    <3>4. QED
      BY <3>1, <3>2, <3>3, SMT
  <2>2. 8000 = 8 * 1000 /\ 8000000 = 8 * 1000000 /\ 1000 * 1000000 >= TheMost
    BY SMT DEF TheMost
  <2>3. QED
    BY <2>1, <2>2, UnitsJoin, SMTT(30) DEF TimeFormatters
<1>2. Table(BinaryFormatters, "Bytes")
  <2>1. /\ IsUnit(UnitFormatters("B", 1, <<10, 100, 1000, 10000>>), 1, 10000)
        /\ IsUnit(UnitFormatters("KiB", 1024, <<10, 100, 1000, 10000>>), 1024, 10240000)
        /\ IsUnit(UnitFormatters("MiB", 1048576, <<10, 100, 1000>>), 1048576, 1000 * 1048576)
    <3>1. IsUnit(UnitFormatters("B", 1, <<10, 100, 1000, 10000>>), 1, 10000)
      BY Units, SMT DEF UnitFormatters, IsUnit, Formatter, Factors, TooWide
    <3>2. IsUnit(UnitFormatters("KiB", 1024, <<10, 100, 1000, 10000>>), 1024, 10240000)
      BY Units, SMT DEF UnitFormatters, IsUnit, Formatter, Factors, TooWide
    <3>3. IsUnit(UnitFormatters("MiB", 1048576, <<10, 100, 1000>>), 1048576, 1000 * 1048576)
      BY Units, ThreeFormatters, SMT DEF Factors
    <3>4. QED
      BY <3>1, <3>2, <3>3, SMT
  <2>2. 10000 >= 8 * 1024 /\ 10240000 >= 8 * 1048576 /\ 1000 * 1048576 >= TheMost
    BY SMT DEF TheMost
  <2>3. QED
    BY <2>1, <2>2, UnitsJoin, SMTT(30) DEF BinaryFormatters
<1>3. Table(DecimalFormatters, "Decimal")
  <2>1. /\ IsUnit(UnitFormatters(NoUnit, 1, <<10, 100, 1000>>), 1, 1000 * 1)
        /\ IsUnit(UnitFormatters("k", 1000, <<10, 100, 1000>>), 1000, 1000 * 1000)
        /\ IsUnit(UnitFormatters("M", 1000000, <<10, 100, 1000>>), 1000000, 1000 * 1000000)
    BY Units, ThreeFormatters, SMT DEF Factors
  <2>2. 1000 * 1000000 >= TheMost
    BY SMT DEF TheMost
  <2>3. QED
    BY <2>1, <2>2, UnitsJoin, SMTT(30) DEF DecimalFormatters
<1>4. QED
  BY <1>1, <1>2, <1>3, SMT DEF Formatters

\* Bucket functions with a max that the tables are for.
WithinTables == [kind : DOMAIN Formatters, max : 0 .. TheMost - 1]

\* What is selected is the first that passes.
LEMMA SelectedIs ==
  ASSUME NEW n \in Nat, NEW I \in SUBSET (1 .. n), NEW i, i = IF I # {} THEN Min(I) ELSE 0
  PROVE  /\ i = 0 => I = {}
         /\ i # 0 => i \in I /\ \A j \in I : i <= j
<1>1. CASE I = {}
  BY <1>1
<1>2. CASE I # {}
  <2>1. I \in SUBSET Nat /\ 0 \notin I
    BY SMT
  <2>2. Min(I) \in I /\ \A j \in I : Min(I) <= j
    BY <1>2, <2>1, MinIs, Zenon
  <2>3. i = Min(I)
    BY <1>2
  <2>4. QED
    BY <2>1, <2>2, <2>3, Zenon
<1>3. QED
  BY <1>1, <1>2

LEMMA FunctionIs ==
  ASSUME NEW f \in WithinTables
  PROVE  /\ Table(Formatters[f.kind], f.kind) /\ f.max < TheMost /\ f.max \in Nat
         /\ f.kind \in DOMAIN Formatters
<1>1. f.kind \in DOMAIN Formatters /\ f.max \in 0 .. TheMost - 1
  <2> DEFINE K == DOMAIN Formatters
  <2>1. f \in [kind : K, max : 0 .. TheMost - 1]
    BY SMT DEF WithinTables
  <2> HIDE DEF K
  <2>2. f.kind \in K /\ f.max \in 0 .. TheMost - 1
    BY <2>1, SMT
  <2>3. QED
    BY <2>2, Zenon DEF K
<1>2. f.max < TheMost /\ f.max \in Nat
  <2> DEFINE m == f.max
  <2>1. m \in 0 .. TheMost - 1
    BY <1>1
  <2> HIDE DEF m
  <2>2. TheMost \in Nat
    BY SMT DEF TheMost
  <2>3. m < TheMost /\ m \in Nat
    BY <2>1, <2>2, SMT
  <2>4. QED
    BY <2>3 DEF m
<1>3. Table(Formatters[f.kind], f.kind)
  BY <1>1, Tables, Zenon
<1>4. QED
  BY <1>1, <1>2, <1>3, Zenon

\* GetFormatter finds one: the first whose max is greater.
LEMMA FormatterIs ==
  ASSUME NEW f \in WithinTables
  PROVE  LET vfs == Formatters[f.kind] IN
         \E i \in 1 .. Len(vfs) : /\ GetFormatter(f) = vfs[i] /\ f.max < vfs[i].max
                                  /\ \A j \in 1 .. Len(vfs) : f.max < vfs[j].max => i <= j
<1> DEFINE vfs == Formatters[f.kind]
           I == {i \in 1 .. Len(vfs) : f.max < vfs[i].max}
           i == IF I # {} THEN Min(I) ELSE 0
<1>1. GetFormatter(f) = vfs[i]
  BY Zenon DEF GetFormatter, SelectInSeq
<1>2. Table(vfs, f.kind) /\ f.max < TheMost /\ f.max \in Nat
  BY FunctionIs, Zenon
<1> HIDE DEF vfs
<1>3. Len(vfs) \in 1 .. Len(vfs) /\ Len(vfs) \in Nat /\ vfs[Len(vfs)].max >= TheMost
  BY <1>2, SMT DEF Table
<1>4. vfs[Len(vfs)].max \in Nat
  <2>1. vfs[Len(vfs)] \in Formatter
    BY <1>2, <1>3, SMT DEF Table
  <2>2. QED
    BY <2>1, SMT DEF Formatter
<1>5. Len(vfs) \in I
  BY <1>2, <1>3, <1>4, SMT DEF TheMost
<1>6. I \in SUBSET (1 .. Len(vfs)) /\ I # {}
  BY <1>5, Zenon
<1>7. i \in I /\ \A j \in I : i <= j
  <2>1. i = IF I # {} THEN Min(I) ELSE 0
    OBVIOUS
  <2> HIDE DEF I, i
  <2>2. (i = 0 => I = {}) /\ (i # 0 => i \in I /\ \A j \in I : i <= j)
    BY <1>3, <1>6, <2>1, SelectedIs
  <2>3. QED
    BY <1>6, <2>2
<1>8. \E k \in 1 .. Len(vfs) : /\ GetFormatter(f) = vfs[k] /\ f.max < vfs[k].max
                               /\ \A j \in 1 .. Len(vfs) : f.max < vfs[j].max => k <= j
  <2> HIDE DEF i
  <2>1. QED
    BY <1>1, <1>7, Zenon
<1>9. QED
  BY <1>8, Zenon DEF vfs

\* What BucketsAreToldApart supposes of the function.
TellsApart(f) ==
  f.max >= IF f.kind = "Decimal" /\ f.max >= 1000 THEN 8 * GetFormatter(f).factor ELSE 4

\* Below a thousand, a decimal is shown as it is.
LEMMA SmallDecimals ==
  /\ Len(DecimalFormatters) \in Nat /\ Len(DecimalFormatters) >= 3 /\ DecimalFormatters[3].max = 1000
  /\ \A i \in 1 .. 3 : DecimalFormatters[i].factor = 1
<1> DEFINE a == UnitFormatters(NoUnit, 1, <<10, 100, 1000>>)
           b == UnitFormatters("k", 1000, <<10, 100, 1000>>)
           c == UnitFormatters("M", 1000000, <<10, 100, 1000>>)
<1>1. a \in Seq(Formatter) /\ b \in Seq(Formatter) /\ c \in Seq(Formatter)
  BY Units, ThreeFormatters, SMT DEF IsUnit, Factors
<1>2. Len(a) = 3 /\ a[3].max = 1000 /\ a[1].factor = 1 /\ a[2].factor = 1 /\ a[3].factor = 1
  BY SMT DEF UnitFormatters
<1>3. (a \o b) \o c = DecimalFormatters
  BY SMT DEF DecimalFormatters
<1> HIDE DEF a, b, c
<1>4. /\ Len(DecimalFormatters) \in Nat /\ Len(DecimalFormatters) >= 3
      /\ \A i \in 1 .. 3 : DecimalFormatters[i] = a[i]
  <2> DEFINE la == Len(a)
             d == DecimalFormatters
  <2>1. la \in Nat /\ la = Len(a) /\ d = (a \o b) \o c
    BY <1>1, <1>3
  <2> HIDE DEF la, d
  <2>2. Len(d) \in Nat /\ Len(d) >= la /\ \A i \in 1 .. la : d[i] = a[i]
    BY <1>1, <2>1
  <2>3. la = 3
    BY <1>2 DEF la
  <2>4. QED
    BY <2>2, <2>3 DEF d
<1>5. QED
  BY <1>2, <1>4, SMT

\* The label of the greatest boundary has no more digits than the formatter's,
\* and an eighth of it is a unit or more.
LEMMA FormatterSuits ==
  ASSUME NEW f \in WithinTables, TellsApart(f),
         NEW vf, vf = GetFormatter(f)
  PROVE  /\ vf \in Formatter
         /\ f.max < TooWide[vf.width] * vf.factor
         /\ vf.factor = 1 \/ f.max >= 8 * vf.factor
         /\ f.max \in Nat /\ f.max >= 4
<1> DEFINE vfs == Formatters[f.kind]
           m == f.max
<1>1. PICK i \in 1 .. Len(vfs) :
        /\ vf = vfs[i] /\ m < vfs[i].max
        /\ \A j \in 1 .. Len(vfs) : m < vfs[j].max => i <= j
  BY FormatterIs, Zenon
<1>2. Table(vfs, f.kind) /\ m \in Nat /\ f.kind \in DOMAIN Formatters
  BY FunctionIs, Zenon
<1>3. vfs[i] \in Formatter /\ vfs \in Seq(Formatter) /\ Len(vfs) \in Nat /\ vfs[i].max <= TooWide[vfs[i].width] * vfs[i].factor
  <2> HIDE DEF vfs
  <2>1. QED
    BY <1>2, SMT DEF Table
<1>4. vf.factor \in Factors /\ vf.width \in 1 .. 4 /\ vf.max \in Nat
  BY <1>1, <1>3, SMT DEF Formatter, Factors
<1>5. m < TooWide[vf.width] * vf.factor
  <2> DEFINE most == TooWide[vf.width] * vf.factor
  <2>1. TooWide[vf.width] \in Nat
    BY <1>4, SMT DEF TooWide
  <2>2. most \in Nat
    BY <1>4, <2>1, SMT DEF Factors
  <2>3. m < vf.max /\ vf.max <= most
    BY <1>1, <1>3, Zenon
  <2> HIDE DEF most, m
  <2>4. m < most
    BY <1>2, <1>4, <2>2, <2>3, SMT
  <2>5. QED
    BY <2>4 DEF most
<1>6. m >= 4
  <2>1. CASE f.kind = "Decimal" /\ m >= 1000
    BY <1>2, <2>1, SMT
  <2>2. CASE ~(f.kind = "Decimal" /\ m >= 1000)
    BY <2>2, Zenon DEF TellsApart
  <2>3. QED
    BY <2>1, <2>2
<1>7. CASE f.kind = "Decimal"
  <2>1. CASE m >= 1000
    <3>1. m >= 8 * vf.factor
      BY <1>7, <2>1, Zenon DEF TellsApart
    <3>2. QED
      BY <1>1, <1>2, <1>3, <1>5, <1>6, <3>1, Zenon
  <2>2. CASE m < 1000
    <3>1. vfs = DecimalFormatters
      BY <1>7, SMT DEF Formatters
    <3> HIDE DEF vfs
    <3>2. 3 \in 1 .. Len(vfs) /\ m < vfs[3].max
      BY <2>2, <3>1, SmallDecimals, SMT
    <3>3. i \in 1 .. 3
      BY <1>1, <1>3, <3>2, SMT
    <3>4. vf.factor = 1
      BY <1>1, <3>1, <3>3, SmallDecimals, SMT
    <3>5. QED
      BY <1>1, <1>2, <1>3, <1>5, <1>6, <3>4, Zenon
  <2>3. QED
    BY <1>2, <2>1, <2>2, SMT
<1>8. CASE f.kind # "Decimal"
  <2> HIDE DEF vfs, m
  <2>1. vfs[i].factor = 1 \/ (i > 1 /\ vfs[i - 1].max >= 8 * vfs[i].factor)
    BY <1>2, <1>8, Zenon DEF Table
  <2>2. CASE i > 1 /\ vfs[i - 1].max >= 8 * vfs[i].factor
    <3>1. i - 1 \in 1 .. Len(vfs) /\ ~(i <= i - 1)
      BY <1>3, <2>2, SMT
    <3>2. ~(m < vfs[i - 1].max)
      BY <1>1, <3>1, Zenon
    <3>3. vfs[i - 1] \in Formatter
      BY <1>3, <3>1, SMT
    <3>4. vfs[i - 1].max \in Nat
      BY <3>3, SMT DEF Formatter
    <3>5. m >= 8 * vf.factor
      BY <1>1, <1>2, <1>4, <2>2, <3>2, <3>4, SMT DEF Factors
    <3>6. QED
      BY <1>1, <1>2, <1>3, <1>5, <1>6, <3>5, Zenon DEF m
  <2>3. CASE vfs[i].factor = 1
    BY <1>1, <1>2, <1>3, <1>5, <1>6, <2>3, Zenon DEF m
  <2>4. QED
    BY <2>1, <2>2, <2>3
<1>9. QED
  BY <1>7, <1>8

\* What is a unit further has a greater number of units.
LEMMA WholeUnits ==
  ASSUME NEW F \in Factors, NEW x \in Nat, NEW y \in Nat
  PROVE  /\ x \div F \in Nat
         /\ x <= y => x \div F <= y \div F
         /\ y >= x + F => x \div F < y \div F
         /\ \A W \in Nat : x < W * F => x \div F < W
<1>1. CASE F = 1
  BY <1>1, SMT
<1>2. CASE F = 1000
  BY <1>2, SMT
<1>3. CASE F = 1000000
  BY <1>3, SMT
<1>4. CASE F = 1024
  BY <1>4, SMT
<1>5. CASE F = 1048576
  BY <1>5, SMT
<1>6. QED
  BY <1>1, <1>2, <1>3, <1>4, <1>5, SMT DEF Factors

\* Boundaries rise, each by a unit or more if it does.
LEMMA BoundariesRise ==
  ASSUME NEW f \in WithinTables, NEW m \in Nat, m = f.max, NEW F \in Factors,
         m >= 4, F = 1 \/ m >= 8 * F
  PROVE  /\ Boundaries(f) \in [1 .. 4 -> 0 .. m] /\ Len(Boundaries(f)) = 4
         /\ \A i, j \in 1 .. 4 :
              /\ i <= j => Boundaries(f)[i] <= Boundaries(f)[j]
              /\ Boundaries(f)[i] < Boundaries(f)[j] => Boundaries(f)[j] >= Boundaries(f)[i] + F
<1>1. CASE f.kind = "AgeBiasOld"
  <2>1. Boundaries(f) = <<m - m \div 2, m - m \div 4, m - m \div 8, m>>
    BY <1>1, Zenon DEF Boundaries
  <2>2. QED
    BY <2>1, SMT DEF Factors
<1>2. CASE f.kind # "AgeBiasOld"
  <2>1. Boundaries(f) = <<m \div 8, m \div 4, m \div 2, m>>
    BY <1>2, Zenon DEF Boundaries
  <2>2. QED
    BY <2>1, SMT DEF Factors
<1>3. QED
  BY <1>1, <1>2

\* The boundaries an amount is not above, and the first of them.
Above(f, amount) == {i \in 1 .. Len(Boundaries(f)) : amount <= Boundaries(f)[i]}

First(f, amount) == IF Above(f, amount) # {} THEN Min(Above(f, amount)) ELSE 0

\* A number is of the first boundary that an amount is not above.
LEMMA NumberIs ==
  ASSUME NEW f \in WithinTables, NEW amount \in Int, NEW r, r = LabelOf(f, amount),
         "number" \in DOMAIN r
  PROVE  /\ amount >= 0 /\ First(f, amount) # 0
         /\ r.number = Boundaries(f)[First(f, amount)] \div GetFormatter(f).factor
         /\ r.width = GetFormatter(f).width
<1> DEFINE i == First(f, amount)
           vf == GetFormatter(f)
           n == Boundaries(f)[i] \div vf.factor
           label == [number |-> n, width |-> vf.width, unit |-> vf.unit]
<1>1. r = CASE amount <= -1 -> [edge |-> "negative"]
            [] amount >= 0 /\ i # 0 -> label
            [] OTHER -> [edge |-> "large"]
  BY Zenon DEF LabelOf, SelectInSeq, First, Above
<1>2. "number" \notin DOMAIN [edge |-> "negative"] /\ "number" \notin DOMAIN [edge |-> "large"]
  BY SMT
<1> HIDE DEF i, n, vf, label
<1>3. CASE amount <= -1
  <2>1. ~(amount >= 0)
    BY <1>3, SMT
  <2>2. r = [edge |-> "negative"]
    BY <1>1, <1>3, <2>1, Zenon
  <2>3. QED
    BY <1>2, <2>2, Zenon
<1>4. CASE ~(amount <= -1)
  <2>1. amount >= 0
    BY <1>4, SMT
  <2>2. CASE i = 0
    <3>1. r = [edge |-> "large"]
      BY <1>1, <1>4, <2>2, Zenon
    <3>2. QED
      BY <1>2, <3>1, Zenon
  <2>3. CASE i # 0
    <3>1. r = label
      BY <1>1, <1>4, <2>1, <2>3, Zenon
    <3>2. r.number = n /\ r.width = vf.width
      BY <3>1, SMT DEF label
    <3>3. QED
      BY <2>1, <2>3, <3>2, Zenon DEF i, n, vf
  <2>4. QED
    BY <2>2, <2>3
<1>5. QED
  BY <1>3, <1>4

\* Then it is not above that boundary, and above those before it.
LEMMA FirstIs ==
  ASSUME NEW f \in WithinTables, Len(Boundaries(f)) = 4, NEW amount \in Int, First(f, amount) # 0
  PROVE  LET i == First(f, amount) IN
         /\ i \in 1 .. 4 /\ amount <= Boundaries(f)[i]
         /\ \A j \in 1 .. 4 : amount <= Boundaries(f)[j] => i <= j
<1> DEFINE I == Above(f, amount)
           i == First(f, amount)
<1>1. I \in SUBSET (1 .. 4) /\ \A j \in 1 .. 4 : j \in I <=> amount <= Boundaries(f)[j]
  BY Zenon DEF Above
<1>2. i = IF I # {} THEN Min(I) ELSE 0
  BY Zenon DEF First
<1> HIDE DEF I, i
<1>3. i # 0
  BY DEF i
<1>4. i \in I /\ \A j \in I : i <= j
  BY <1>1, <1>2, <1>3, SelectedIs
<1>5. i \in 1 .. 4 /\ amount <= Boundaries(f)[i] /\ \A j \in 1 .. 4 : amount <= Boundaries(f)[j] => i <= j
  BY <1>1, <1>4, Zenon
<1>6. QED
  BY <1>5, Zenon DEF i

\* Of two amounts with a number.
LEMMA TwoAreToldApart ==
  ASSUME NEW f \in WithinTables, TellsApart(f),
         NEW x \in Int, NEW y \in Int,
         NEW r, r = LabelOf(f, x), "number" \in DOMAIN r,
         NEW s, s = LabelOf(f, y), "number" \in DOMAIN s
  PROVE  /\ r.number < TooWide[r.width]
         /\ x < y => /\ r.number <= s.number
                     /\ r.number < s.number <=> \E m \in Range(Boundaries(f)) : x <= m /\ m < y
<1> DEFINE vf == GetFormatter(f)
           F == vf.factor
           W == TooWide[vf.width]
           m == f.max
           B == Boundaries(f)
           i == First(f, x)
           j == First(f, y)
<1>1. /\ vf \in Formatter /\ m < W * F /\ (F = 1 \/ m >= 8 * F) /\ m \in Nat /\ m >= 4
  BY FormatterSuits, Zenon
<1>2. F \in Factors /\ W \in Nat
  BY <1>1, SMT DEF Formatter, Factors, TooWide
<1>3. /\ B \in [1 .. 4 -> 0 .. m] /\ Len(B) = 4
      /\ \A k, l \in 1 .. 4 : /\ k <= l => B[k] <= B[l]
                              /\ B[k] < B[l] => B[l] >= B[k] + F
  <2> HIDE DEF F
  <2>1. QED
    BY <1>1, <1>2, BoundariesRise, Zenon
<1>4. /\ i # 0 /\ r.number = B[i] \div F /\ r.width = vf.width
      /\ j # 0 /\ s.number = B[j] \div F
  BY NumberIs, Zenon
<1>5. /\ i \in 1 .. 4 /\ x <= B[i] /\ \A k \in 1 .. 4 : x <= B[k] => i <= k
      /\ j \in 1 .. 4 /\ y <= B[j] /\ \A k \in 1 .. 4 : y <= B[k] => j <= k
  BY <1>3, <1>4, FirstIs, Zenon
<1>6. Range(B) = {B[k] : k \in 1 .. 4}
  BY <1>3, Zenon DEF Range
<1> DEFINE p == B[i]
           q == B[j]
<1> HIDE DEF F, W, m, B, i, j
<1>7. p \in Nat /\ q \in Nat /\ p <= m
  BY <1>1, <1>3, <1>5, SMT
<1>8. p \div F < W
  <2> DEFINE top == W * F
  <2>1. top \in Nat /\ m < top
    BY <1>1, <1>2, SMT DEF Factors
  <2> HIDE DEF p, top
  <2>2. p < top
    BY <1>1, <1>7, <2>1, SMT
  <2>3. QED
    BY <1>2, <1>7, <2>2, WholeUnits, Zenon DEF top
<1>9. ASSUME x < y
      PROVE  p \div F <= q \div F /\ (p \div F < q \div F <=> \E b \in Range(B) : x <= b /\ b < y)
  <2>1. p <= q
    <3>1. x <= B[j]
      BY <1>5, <1>7, <1>9, SMT
    <3>2. i <= j
      BY <1>5, <3>1, Zenon
    <3>3. QED
      BY <1>3, <1>5, <3>2, Zenon
  <2>2. p \div F <= q \div F
    <3> HIDE DEF p, q
    <3>1. QED
      BY <1>2, <1>7, <2>1, WholeUnits, Zenon
  <2>3. ASSUME p \div F < q \div F
        PROVE  x <= p /\ p < y
    <3>1. p # q
      BY <1>2, <1>7, <2>3, WholeUnits, SMT
    <3>2. ~(y <= p)
      <4>1. SUFFICES ASSUME y <= p PROVE FALSE
        OBVIOUS
      <4>2. j <= i
        BY <1>5, <4>1, Zenon
      <4>3. q <= p
        BY <1>3, <1>5, <4>2, Zenon
      <4>4. QED
        BY <1>7, <2>1, <3>1, <4>3, SMT
    <3>3. QED
      BY <1>5, <1>7, <3>2, SMT
  <2>4. ASSUME NEW b \in Range(B), x <= b, b < y
        PROVE  p \div F < q \div F
    <3>1. PICK k \in 1 .. 4 : b = B[k]
      BY <1>6
    <3>2. p <= b
      BY <1>3, <1>5, <2>4, <3>1, Zenon
    <3>3. p < q
      BY <1>3, <1>5, <1>7, <2>4, <3>1, <3>2, SMT
    <3>4. q >= p + F
      BY <1>3, <1>5, <3>3, Zenon
    <3> HIDE DEF p, q
    <3>5. QED
      BY <1>2, <1>7, <3>4, WholeUnits, Zenon
  <2>5. p \in Range(B)
    BY <1>5, <1>6
  <2>6. QED
    BY <2>2, <2>3, <2>4, <2>5, Zenon
<1>10. QED
  BY <1>4, <1>8, <1>9, Zenon DEF B, W

\* What is labelled was labelled by the function.
BucketInv ==
  /\ function \in WithinTables
  /\ \A r \in labelled : r[1] \in Int /\ r[2] = LabelOf(function, r[1])

LEMMA BucketInvInit == MakeFunction => BucketInv
<1>1. ASSUME NEW f \in [kind : DOMAIN Formatters, max : Maxima]
      PROVE  f \in WithinTables
  <2>1. Maxima \subseteq 0 .. TheMost - 1
    <3> SUFFICES ASSUME NEW m \in Maxima PROVE m \in 0 .. TheMost - 1
      OBVIOUS
    <3>1. m \in Nat /\ m < TheMost /\ TheMost \in Nat
      BY BucketFunctionAssumption, SMT DEF TheMost
    <3>2. QED
      BY <3>1, SMT
  <2> DEFINE K == DOMAIN Formatters
  <2> HIDE DEF K
  <2>2. f \in [kind : K, max : Maxima]
    BY DEF K
  <2>3. f \in [kind : K, max : 0 .. TheMost - 1]
    BY <2>1, <2>2, Zenon
  <2>4. QED
    BY <2>3, Zenon DEF K, WithinTables
<1>2. QED
  BY <1>1, Zenon DEF MakeFunction, BucketInv

LEMMA BucketInvStep == BucketInv /\ [RecordAmount]_bucketFunctionVars => BucketInv'
<1> SUFFICES ASSUME BucketInv, [RecordAmount]_bucketFunctionVars
             PROVE  BucketInv'
  OBVIOUS
<1>1. CASE RecordAmount
  <2> DEFINE B == Boundaries(function)
  <2>1. function.max \in Nat /\ \A b \in Range(B) : b \in Int
    <3>1. function.max \in Nat
      BY FunctionIs, Zenon DEF BucketInv
    <3> DEFINE m == function.max
    <3>2. B = (IF function.kind = "AgeBiasOld" THEN <<m - m \div 2, m - m \div 4, m - m \div 8, m>>
                                               ELSE <<m \div 8, m \div 4, m \div 2, m>>)
      BY Zenon DEF Boundaries
    <3> HIDE DEF m, B
    <3>3. m \in Nat
      BY <3>1 DEF m
    <3>4. DOMAIN B = 1 .. 4 /\ \A k \in 1 .. 4 : B[k] \in Int
      BY <3>2, <3>3, SMT
    <3>5. QED
      BY <3>1, <3>4, Zenon DEF Range
  <2>2. PICK amount \in {-1, 0, function.max + 1} \cup UNION {{b, b + 1} : b \in Range(B)} :
          labelled' = labelled \cup {<<amount, LabelOf(function, amount)>>}
    BY <1>1, Zenon DEF RecordAmount
  <2> HIDE DEF B
  <2>3. amount \in Int
    BY <2>1, <2>2, SMT
  <2>4. function' = function
    BY <1>1, Zenon DEF RecordAmount
  <2>5. ASSUME NEW r \in labelled'
        PROVE  r[1] \in Int /\ r[2] = LabelOf(function, r[1])
    <3> DEFINE label == LabelOf(function, amount)
    <3>1. CASE r \in labelled
      BY <3>1, Zenon DEF BucketInv
    <3>2. CASE r = <<amount, label>>
      <4> HIDE DEF label
      <4>1. r[1] = amount /\ r[2] = label
        BY <3>2
      <4>2. QED
        BY <2>3, <4>1, Zenon DEF label
    <3>3. QED
      BY <2>2, <3>1, <3>2, Zenon
  <2>6. QED
    BY <2>4, <2>5, Zenon DEF BucketInv
<1>2. CASE UNCHANGED bucketFunctionVars
  BY <1>2, Zenon DEF bucketFunctionVars, BucketInv
<1>3. QED
  BY <1>1, <1>2

LEMMA BucketInvHolds == BucketInv => BucketsAreToldApart
<1> DEFINE Apart(x, y) ==
             /\ x[2].number < TooWide[x[2].width]
             /\ x[1] < y[1] =>
                  /\ x[2].number <= y[2].number
                  /\ x[2].number < y[2].number <=>
                       \E m \in Range(Boundaries(function)) : x[1] <= m /\ m < y[1]
<1>1. (TellsApart(function) => \A x, y \in {r \in labelled : "number" \in DOMAIN r[2]} : Apart(x, y))
        => BucketsAreToldApart
  BY DEF TellsApart, BucketsAreToldApart
<1>2. ASSUME BucketInv, TellsApart(function),
             NEW x \in labelled, "number" \in DOMAIN x[2],
             NEW y \in labelled, "number" \in DOMAIN y[2]
      PROVE  Apart(x, y)
  <2>1. /\ function \in WithinTables
        /\ x[1] \in Int /\ x[2] = LabelOf(function, x[1])
        /\ y[1] \in Int /\ y[2] = LabelOf(function, y[1])
    BY <1>2, Zenon DEF BucketInv
  <2> DEFINE f == function
             a == x[1]
             b == y[1]
             k == x[2]
             l == y[2]
  <2> HIDE DEF f, a, b, k, l
  <2>2. f \in WithinTables /\ TellsApart(f) /\ a \in Int /\ b \in Int
    BY <1>2, <2>1, Zenon DEF f, a, b
  <2>3. k = LabelOf(f, a) /\ "number" \in DOMAIN k /\ l = LabelOf(f, b) /\ "number" \in DOMAIN l
    BY <1>2, <2>1, Zenon DEF f, a, b, k, l
  <2>4. /\ k.number < TooWide[k.width]
        /\ a < b => /\ k.number <= l.number
                    /\ k.number < l.number <=> \E m \in Range(Boundaries(f)) : a <= m /\ m < b
    BY <2>2, <2>3, TwoAreToldApart
  <2>5. QED
    BY <2>4, Zenon DEF f, a, b, k, l
<1>3. QED
  <2> HIDE DEF Apart
  <2>1. QED
    BY <1>1, <1>2, Zenon

\* Whatever the max of a bucket function and however many amounts are recorded,
\* the labels BucketsFunction::operator() gives sort as the amounts do, and are
\* the same only for amounts with no boundary between them.
THEOREM ToldApart == BucketFunctionSpec => []BucketsAreToldApart
<1>1. MakeFunction => BucketInv
  BY BucketInvInit
<1>2. BucketInv /\ [RecordAmount]_bucketFunctionVars => BucketInv'
  BY BucketInvStep
<1>3. BucketInv => BucketsAreToldApart
  BY BucketInvHolds
<1>4. QED
  BY <1>1, <1>2, <1>3, PTL DEF BucketFunctionSpec

-----------------------------------------------------------------------------
(* Functions defined by recursion, and division *)

\* A set of numbers has a least one, and induction follows.
LEMMA Least ==
  ASSUME NEW T \in SUBSET Nat, T # {}
  PROVE  \E n \in T : \A k \in T : n <= k
<1>1. PICK n \in T : \A k \in T : ~(<<k, n>> \in OpToRel(<, Nat))
  BY NatLessThanWellFounded, WFMin
<1>2. \A k \in T : ~(k < n)
  BY <1>1 DEF OpToRel
<1>3. QED
  BY <1>2

LEMMA Induction ==
  ASSUME NEW T, 0 \in T, \A n \in Nat : n \in T => n + 1 \in T
  PROVE  \A n \in Nat : n \in T
<1> SUFFICES ASSUME Nat \ T # {} PROVE FALSE
  OBVIOUS
<1>1. PICK n \in Nat \ T : \A k \in Nat \ T : n <= k
  BY Least
<1>2. n # 0 /\ n - 1 \in Nat /\ ~(n <= n - 1)
  BY <1>1
<1>3. QED
  BY <1>1, <1>2

\* g has the first n steps from z.
Steps(g, z, step, n) == g = [k \in 0 .. n |-> IF k = 0 THEN z ELSE step[k][g[k - 1]]]

LEMMA StepsExist ==
  ASSUME NEW z, NEW step
  PROVE  \A n \in Nat : \E g : Steps(g, z, step, n)
<1> DEFINE T == {n \in Nat : \E g : Steps(g, z, step, n)}
<1>1. 0 \in T
  <2> DEFINE g == [k \in 0 .. 0 |-> z]
  <2>1. Steps(g, z, step, 0)
    BY DEF Steps
  <2>2. QED
    BY <2>1
<1>2. ASSUME NEW n \in Nat, n \in T
      PROVE  n + 1 \in T
  <2>1. PICK g : Steps(g, z, step, n)
    BY <1>2
  <2> DEFINE h == [k \in 0 .. (n + 1) |-> IF k = 0 THEN z ELSE step[k][g[k - 1]]]
  <2>2. \A k \in 0 .. n : h[k] = g[k]
    <3> SUFFICES ASSUME NEW k \in 0 .. n PROVE h[k] = g[k]
      OBVIOUS
    <3>1. k \in 0 .. (n + 1)
      OBVIOUS
    <3>2. g[k] = IF k = 0 THEN z ELSE step[k][g[k - 1]]
      BY <2>1, Zenon DEF Steps
    <3>3. h[k] = IF k = 0 THEN z ELSE step[k][g[k - 1]]
      BY <3>1, Zenon
    <3>4. QED
      BY <3>2, <3>3, Zenon
  <2>3. \A k \in 0 .. (n + 1) : k # 0 => k - 1 \in 0 .. n
    OBVIOUS
  <2>4. \A k \in 0 .. (n + 1) : k # 0 => h[k - 1] = g[k - 1]
    BY <2>2, <2>3
  <2>5. Steps(h, z, step, n + 1)
    BY <2>4 DEF Steps
  <2>6. QED
    BY <2>5
<1> HIDE DEF T
<1>3. \A n \in Nat : n \in T
  BY <1>1, <1>2, Induction
<1>4. QED
  BY <1>3 DEF T

LEMMA StepsUnique ==
  ASSUME NEW z, NEW step, NEW n \in Nat, NEW m \in Nat, NEW g, NEW h,
         Steps(g, z, step, n), Steps(h, z, step, m)
  PROVE  \A k \in Nat : k <= n /\ k <= m => g[k] = h[k]
<1> DEFINE T == {k \in Nat : k <= n /\ k <= m => g[k] = h[k]}
<1>1. 0 \in T
  BY DEF Steps
<1>2. ASSUME NEW k \in Nat, k \in T
      PROVE  k + 1 \in T
  <2> SUFFICES ASSUME k + 1 <= n, k + 1 <= m
               PROVE  g[k + 1] = h[k + 1]
    OBVIOUS
  <2>1. g[k] = h[k]
    BY <1>2
  <2>2. k + 1 \in 0 .. n /\ k + 1 \in 0 .. m /\ k + 1 # 0 /\ (k + 1) - 1 = k
    OBVIOUS
  <2>3. g[k + 1] = step[k + 1][g[k]] /\ h[k + 1] = step[k + 1][h[k]]
    BY <2>2 DEF Steps
  <2>4. QED
    BY <2>1, <2>3
<1> HIDE DEF T
<1>3. \A k \in Nat : k \in T
  BY <1>1, <1>2, Induction
<1>4. QED
  BY <1>3 DEF T

\* A function of numbers may be defined by its first value and by its steps.
Stepped(f, z, step) ==
  /\ DOMAIN f = Nat /\ f = [k \in Nat |-> f[k]]
  /\ f[0] = z /\ \A n \in Nat : f[n + 1] = step[n + 1][f[n]]

LEMMA Recursion ==
  ASSUME NEW z, NEW step
  PROVE  \E f : Stepped(f, z, step)
<1> DEFINE G(n) == CHOOSE g : Steps(g, z, step, n)
           F == [n \in Nat |-> G(n)[n]]
<1>1. \A n \in Nat : Steps(G(n), z, step, n)
  BY StepsExist
<1> HIDE DEF G
<1>2. F[0] = z
  BY <1>1 DEF Steps
<1>3. ASSUME NEW n \in Nat
      PROVE  F[n + 1] = step[n + 1][F[n]]
  <2>1. n + 1 \in Nat /\ n + 1 \in 0 .. (n + 1) /\ n + 1 # 0 /\ (n + 1) - 1 = n /\ n <= n /\ n <= n + 1
    OBVIOUS
  <2>2. G(n + 1)[n + 1] = step[n + 1][G(n + 1)[n]]
    BY <1>1, <2>1 DEF Steps
  <2>3. G(n + 1)[n] = G(n)[n]
    BY <1>1, <2>1, StepsUnique
  <2>4. QED
    BY <2>1, <2>2, <2>3
<1>4. Stepped(F, z, step)
  BY <1>2, <1>3, Zenon DEF Stepped
<1>5. QED
  BY <1>4


-----------------------------------------------------------------------------
(* Powers of four and the table of buckets *)

IsPowerOf4(f) == f = [k \in Nat |-> IF k = 0 THEN 1 ELSE 4 * f[k - 1]]

LEMMA PowerOf4Def == IsPowerOf4(PowerOf4)
<1> DEFINE step == [k \in Nat |-> [x \in Nat |-> 4 * x]]
<1>1. PICK f : Stepped(f, 1, step)
  BY Recursion
<1>0. \A n \in Nat : f[n] \in Nat => f[n + 1] = 4 * f[n]
  <2> SUFFICES ASSUME NEW n \in Nat, f[n] \in Nat PROVE f[n + 1] = 4 * f[n]
    OBVIOUS
  <2>1. f[n + 1] = step[n + 1][f[n]]
    BY <1>1 DEF Stepped
  <2>2. step[n + 1] = [x \in Nat |-> 4 * x]
    OBVIOUS
  <2> HIDE DEF step
  <2>3. QED
    BY <2>1, <2>2, Zenon
<1>2. \A n \in Nat : f[n] \in Nat
  <2> DEFINE T == {n \in Nat : f[n] \in Nat}
  <2>1. 0 \in T
    BY <1>1 DEF Stepped
  <2>2. ASSUME NEW n \in Nat, n \in T
        PROVE  n + 1 \in T
    BY <1>0, <2>2
  <2> HIDE DEF T
  <2>3. \A n \in Nat : n \in T
    BY <2>1, <2>2, Induction
  <2>4. QED
    BY <2>3 DEF T
<1>3. \A n \in Nat : f[n + 1] = 4 * f[n]
  BY <1>0, <1>2
<1>4. \A k \in Nat : f[k] = IF k = 0 THEN 1 ELSE 4 * f[k - 1]
  <2> SUFFICES ASSUME NEW k \in Nat, k # 0 PROVE f[k] = 4 * f[k - 1]
    BY <1>1 DEF Stepped
  <2>1. k - 1 \in Nat /\ (k - 1) + 1 = k
    OBVIOUS
  <2>2. QED
    BY <1>3, <2>1
<1>5. IsPowerOf4(f)
  BY <1>1, <1>4, Zenon DEF Stepped, IsPowerOf4
<1>6. PowerOf4 = CHOOSE g : IsPowerOf4(g)
  BY Zenon DEF PowerOf4, IsPowerOf4
<1>7. QED
  BY <1>5, <1>6, Zenon

Third(k) == PowerOf4[k] \div 3

\* Three times its third, and one.
LEMMA PowersOf4 ==
  /\ PowerOf4[0] = 1
  /\ \A k \in Nat : /\ PowerOf4[k] \in Nat /\ PowerOf4[k + 1] = 4 * PowerOf4[k]
                    /\ Third(k) \in Nat /\ PowerOf4[k] = 3 * Third(k) + 1
                    /\ k > 0 => Third(k) >= 1
<1>1. PowerOf4[0] = 1 /\ \A k \in Nat : PowerOf4[k + 1] = 4 * PowerOf4[k]
  <2>1. PowerOf4 = [k \in Nat |-> IF k = 0 THEN 1 ELSE 4 * PowerOf4[k - 1]]
    BY PowerOf4Def, Zenon DEF IsPowerOf4
  <2> DEFINE P == PowerOf4
  <2>2. \A k \in Nat : P[k] = IF k = 0 THEN 1 ELSE 4 * P[k - 1]
    BY <2>1, Zenon
  <2> HIDE DEF P
  <2>3. P[0] = 1 /\ \A k \in Nat : P[k + 1] = 4 * P[k]
    BY <2>2
  <2>4. QED
    BY <2>3 DEF P
<1> DEFINE T == {k \in Nat : PowerOf4[k] \in Nat /\ PowerOf4[k] = 3 * Third(k) + 1
                              /\ Third(k) \in Nat /\ (k > 0 => Third(k) >= 1)}
<1>2. 0 \in T
  BY <1>1 DEF Third
<1>3. ASSUME NEW k \in Nat, k \in T
      PROVE  k + 1 \in T
  <2> DEFINE p == PowerOf4[k]
             q == PowerOf4[k + 1]
             t == Third(k)
  <2>1. p \in Nat /\ p = 3 * t + 1 /\ t \in Nat /\ q = 4 * p
    BY <1>1, <1>3
  <2>2. Third(k + 1) = q \div 3
    BY DEF Third
  <2> HIDE DEF p, q, t
  <2>3. q \in Nat /\ q \div 3 = 4 * t + 1 /\ q = 3 * (q \div 3) + 1
    BY <2>1
  <2>4. QED
    BY <2>1, <2>2, <2>3 DEF q
<1> HIDE DEF T
<1>4. \A k \in Nat : k \in T
  BY <1>2, <1>3, Induction
<1>5. QED
  BY <1>1, <1>4 DEF T

LEMMA PowersRise ==
  ASSUME NEW k \in Nat, NEW l \in Nat, k < l
  PROVE  4 * PowerOf4[k] <= PowerOf4[l]
<1> DEFINE T == {n \in Nat : PowerOf4[k + 1] <= PowerOf4[(k + 1) + n]}
<1>1. 0 \in T
  <2>1. (k + 1) + 0 = k + 1 /\ k + 1 \in Nat
    OBVIOUS
  <2>2. PowerOf4[k + 1] \in Nat
    BY <2>1, PowersOf4
  <2>3. QED
    BY <2>1, <2>2
<1>2. ASSUME NEW n \in Nat, n \in T
      PROVE  n + 1 \in T
  <2>1. /\ PowerOf4[k + 1] \in Nat /\ PowerOf4[(k + 1) + n] \in Nat
        /\ PowerOf4[((k + 1) + n) + 1] = 4 * PowerOf4[(k + 1) + n]
    <3>1. k + 1 \in Nat /\ (k + 1) + n \in Nat
      OBVIOUS
    <3>2. QED
      BY <3>1, PowersOf4
  <2>2. (k + 1) + (n + 1) = ((k + 1) + n) + 1
    OBVIOUS
  <2>3. QED
    BY <1>2, <2>1, <2>2
<1> HIDE DEF T
<1>3. \A n \in Nat : n \in T
  BY <1>1, <1>2, Induction
<1>4. l - (k + 1) \in Nat /\ (k + 1) + (l - (k + 1)) = l
  OBVIOUS
<1>5. PowerOf4[k + 1] <= PowerOf4[l]
  BY <1>3, <1>4 DEF T
<1>6. QED
  BY <1>5, PowersOf4

\* The quotient, bounded by its multiples.
LEMMA Division ==
  ASSUME NEW a \in Nat, NEW d \in Nat \ {0}
  PROVE  \E q \in Nat : /\ a \div d = q /\ d * q \in Nat /\ d * q <= a /\ a < d * q + d
                        /\ a % d = a - d * q
<1>1. a \div d \in Int /\ a \div d >= 0
  OBVIOUS
<1>2. a - d * (a \div d) \in 0..d - 1 /\ a % d = a - d * (a \div d)
  OBVIOUS
<1>3. PICK q \in Nat : a \div d = q
  BY <1>1
<1>4. d * q \in Nat
  OBVIOUS
<1>5. a - d * q \in 0..d - 1 /\ a % d = a - d * q
  BY <1>2, <1>3
<1> DEFINE x == d * q
<1>6. x \in Nat /\ a - x \in 0..d - 1
  BY <1>4, <1>5
<1> HIDE DEF x
<1>7. x <= a /\ a < x + d
  BY <1>6
<1> QED BY <1>3, <1>4, <1>5, <1>7 DEF x

\* Multiplying keeps the order.
LEMMA ProductsRise ==
  ASSUME NEW d \in Nat \ {0}, NEW q \in Nat, NEW r \in Nat, q < r
  PROVE  d * q \in Nat /\ d * r \in Nat /\ d * q + d <= d * r
<1>1. PICK e \in Nat : r = q + 1 + e
  <2>1. r - q - 1 \in Nat /\ r = q + 1 + (r - q - 1)
    OBVIOUS
  <2> QED BY <2>1
<1>2. d * r = d * q + d + d * e
  BY <1>1
<1>3. d * e \in Nat /\ d * q \in Nat /\ d * r \in Nat
  OBVIOUS
<1> QED BY <1>2, <1>3

\* Dividing keeps the order.
LEMMA DivisionIsMonotone ==
  ASSUME NEW a \in Nat, NEW b \in Nat, NEW d \in Nat \ {0}, a <= b
  PROVE  a \div d \in Nat /\ b \div d \in Nat /\ a \div d <= b \div d
<1>1. PICK q \in Nat : a \div d = q /\ d * q \in Nat /\ d * q <= a
  BY Division
<1>2. PICK r \in Nat : b \div d = r /\ d * r \in Nat /\ b < d * r + d
  BY Division
<1> DEFINE x == d * q
           y == d * r
<1>3. x \in Nat /\ y \in Nat /\ x <= a /\ b < y + d
  BY <1>1, <1>2
<1>4. r < q => y + d <= x
  BY ProductsRise
<1> HIDE DEF x, y
<1> QED BY <1>1, <1>2, <1>3, <1>4

\* How many values a power of four and its thirds give.
Values(k) == (9 * Third(k) + 2) \div Third(k)

LEMMA WidthHalved == Half \in Nat /\ Half >= 3 /\ Half - 1 \in Nat /\ Half - 2 \in Nat
BY PercentileAssumption DEF Half

\* The largest integer is just below twice the last power of four.
LEMMA Largest ==
  /\ PowerOf4[Half] \in Nat /\ PowerOf4[Half] = 4 * PowerOf4[Half - 1]
  /\ PowerOf4[Half - 1] \in Nat /\ PowerOf4[Half - 1] >= 16
  /\ MaxInteger \in Nat /\ MaxInteger = 2 * PowerOf4[Half - 1] - 1
<1>1. (Half - 1) + 1 = Half /\ (Half - 2) + 1 = Half - 1
  BY WidthHalved
<1>2. PowerOf4[Half - 1] \in Nat /\ PowerOf4[Half] = 4 * PowerOf4[Half - 1]
  BY <1>1, WidthHalved, PowersOf4
<1>3. PowerOf4[1] = 4 /\ 4 * PowerOf4[1] <= PowerOf4[Half - 1]
  <2>1. PowerOf4[1] = 4
    <3>1. 0 + 1 = 1 /\ 0 \in Nat
      OBVIOUS
    <3>2. PowerOf4[0 + 1] = 4 * PowerOf4[0]
      BY PowersOf4
    <3>3. QED
      BY <3>1, <3>2, PowersOf4
  <2>2. 1 \in Nat /\ 1 < Half - 1
    BY WidthHalved
  <2>3. QED
    BY <2>1, <2>2, WidthHalved, PowersRise
<1> DEFINE p == PowerOf4[Half - 1]
           q == PowerOf4[Half]
<1>4. p \in Nat /\ q = 4 * p /\ p >= 16
  BY <1>2, <1>3
<1>5. MaxInteger = q \div 2 - 1
  BY DEF MaxInteger
<1> HIDE DEF p, q
<1>6. MaxInteger \in Nat /\ MaxInteger = 2 * p - 1 /\ q \in Nat
  BY <1>4, <1>5
<1>7. QED
  BY <1>4, <1>6 DEF p, q

\* Only the power of four after the last one overflows, to zero.
LEMMA NotWrapped ==
  /\ \A n \in Nat : n <= PowerOf4[Half - 1] => Wrap(n) = n
  /\ Wrap(4 * PowerOf4[Half - 1]) = 0
<1> DEFINE p == PowerOf4[Half - 1]
           q == PowerOf4[Half]
           m == MaxInteger
<1>1. p \in Nat /\ q = 4 * p /\ p >= 16 /\ m = 2 * p - 1
  BY Largest
<1>2. \A n : Wrap(n) = IF n % q > m THEN (n % q) - q ELSE n % q
  BY DEF Wrap
<1> HIDE DEF p, q, m
<1>3. ASSUME NEW n \in Nat, n <= p
      PROVE  n % q = n
  <2>1. n < q /\ q \in Nat \ {0}
    BY <1>1, <1>3
  <2>2. PICK r \in Nat : /\ n \div q = r /\ q * r \in Nat /\ q * r <= n /\ n % q = n - q * r
    BY <2>1, Division
  <2>3. 0 < r => q * 0 + q <= q * r
    BY <2>1, ProductsRise
  <2>4. r = 0
    <3> DEFINE y == q * r
    <3>1. y <= n /\ y \in Nat
      BY <2>2
    <3>2. 0 < r => q <= y
      BY <2>1, <2>3
    <3> HIDE DEF y
    <3>3. QED
      BY <2>1, <3>1, <3>2
  <2>5. QED
    BY <2>1, <2>2, <2>4
<1>4. \A n \in Nat : n <= p => Wrap(n) = n
  <2> SUFFICES ASSUME NEW n \in Nat, n <= p PROVE Wrap(n) = n
    OBVIOUS
  <2>1. n % q = n
    BY <1>3
  <2>2. ~(n > m)
    BY <1>1
  <2>3. QED
    BY <1>2, <2>1, <2>2
<1>5. Wrap(4 * p) = 0
  <2>1. q % q = 0
    <3>1. q \in Nat \ {0}
      BY <1>1
    <3>2. PICK r \in Nat : /\ q \div q = r /\ q * r <= q /\ q < q * r + q /\ q % q = q - q * r
      BY <3>1, Division
    <3>3. q * 1 = q /\ q * 0 = 0
      BY <3>1
    <3>4. 1 < r => q * 1 + q <= q * r
      BY <3>1, ProductsRise
    <3> DEFINE y == q * r
    <3>5. y \in Nat /\ y <= q
      BY <3>1, <3>2
    <3>6. 1 < r => q + q <= y
      BY <3>3, <3>4
    <3>7. r = 0 => y = 0
      BY <3>1
    <3>8. q < y + q
      BY <3>2
    <3> HIDE DEF y
    <3>9. r = 1
      BY <3>1, <3>5, <3>6, <3>7, <3>8
    <3>10. QED
      BY <3>1, <3>2, <3>3, <3>9
  <2>2. ~(0 > m)
    BY <1>1
  <2>3. QED
    BY <1>1, <1>2, <2>1, <2>2
<1>6. QED
  BY <1>4, <1>5 DEF p

\* The values of a power of four: its thirds, the last power excepted, which has none.
LEMMA GroupIs ==
  ASSUME NEW k \in Nat, k > 0, k < Half - 1
  PROVE  ValuesFrom(PowerOf4[k]) = [j \in 1 .. Values(k) |-> PowerOf4[k] + (j - 1) * Third(k)]
<1> DEFINE p == PowerOf4[k]
           d == Third(k)
<1>1. p \in Nat /\ d \in Nat /\ p = 3 * d + 1 /\ d >= 1
  BY PowersOf4
<1>2. Wrap(p * 4) = 4 * p
  <2>1. 4 * p <= PowerOf4[Half - 1]
    BY WidthHalved, PowersRise
  <2>2. p * 4 = 4 * p /\ 4 * p \in Nat
    BY <1>1
  <2>3. QED
    BY <2>1, <2>2, NotWrapped
<1>3. d = p \div 3
  BY DEF Third
<1>4. ValuesFrom(p) = [j \in 1 .. ((4 * p - d) - p + d - 1) \div d |-> p + (j - 1) * d]
  <2> HIDE DEF p, d
  <2>1. QED
    BY <1>2, <1>3 DEF ValuesFrom
<1>5. (4 * p - d) - p + d - 1 = 9 * d + 2
  <2> HIDE DEF p, d
  <2>1. QED
    BY <1>1
<1>6. Values(k) = (9 * d + 2) \div d
  BY DEF Values
<1>7. QED
  BY <1>4, <1>5, <1>6

LEMMA LastGroupIsEmpty == ValuesFrom(PowerOf4[Half - 1]) = <<>>
<1> DEFINE p == PowerOf4[Half - 1]
           d == Third(Half - 1)
<1>1. p \in Nat /\ d \in Nat /\ p = 3 * d + 1 /\ d >= 1
  <2>1. Half - 1 \in Nat /\ Half - 1 > 0
    BY WidthHalved
  <2>2. QED
    BY <2>1, PowersOf4
<1>2. Wrap(p * 4) = 0
  <2>1. p * 4 = 4 * p
    BY <1>1
  <2>2. QED
    BY <2>1, NotWrapped
<1>3. d = p \div 3
  BY DEF Third
<1> DEFINE n == ((0 - d) - p + d - 1) \div d
<1>4. ValuesFrom(p) = [j \in 1 .. n |-> p + (j - 1) * d]
  <2> HIDE DEF p, d
  <2>1. QED
    BY <1>2, <1>3 DEF ValuesFrom
<1>5. 1 .. n = {}
  <2> HIDE DEF p, d
  <2>1. (0 - d) - p + d - 1 = -(3 * d + 2)
    BY <1>1
  <2>2. n \in Int /\ n < 1
    BY <1>1, <2>1
  <2> HIDE DEF n
  <2>3. QED
    BY <2>2
<1> HIDE DEF n, p, d
<1>6. QED
  BY <1>4, <1>5 DEF p

LEMMA GroupsAreSequences ==
  ASSUME NEW k \in Nat, k > 0
  PROVE  ValuesFrom(PowerOf4[k]) \in Seq(Int)
<1> DEFINE p == PowerOf4[k]
           d == Third(k)
           w == Wrap(p * 4)
<1>1. p \in Nat /\ d \in Nat /\ d >= 1
  BY PowersOf4
<1>2. w \in Int
  <2> DEFINE q == PowerOf4[Half]
             m == MaxInteger
  <2>1. q \in Nat /\ q > 0 /\ m \in Nat
    BY Largest
  <2>2. w = IF (p * 4) % q > m THEN ((p * 4) % q) - q ELSE (p * 4) % q
    BY DEF Wrap
  <2> HIDE DEF w, q, m
  <2>3. p * 4 \in Nat
    BY <1>1
  <2> HIDE DEF p
  <2>4. (p * 4) % q \in Int
    BY <2>1, <2>3
  <2>5. QED
    BY <2>1, <2>2, <2>4
<1> DEFINE n == ((w - d) - p + d - 1) \div d
<1>3. n \in Int
  <2> HIDE DEF w, p, d
  <2>1. QED
    BY <1>1, <1>2
<1>4. ValuesFrom(p) = [j \in 1 .. n |-> p + (j - 1) * d]
  <2>1. d = p \div 3
    BY DEF Third
  <2> HIDE DEF p, d
  <2>2. QED
    BY <2>1 DEF ValuesFrom
<1> HIDE DEF w, p, d, n
<1>5. PICK l \in Nat : 1 .. n = 1 .. l
  <2>1. CASE n < 0
    <3>1. 1 .. n = 1 .. 0
      BY <1>3, <2>1
    <3>2. QED
      BY <3>1
  <2>2. CASE ~(n < 0)
    BY <1>3, <2>2
  <2>3. QED
    BY <2>1, <2>2
<1>6. \A j \in 1 .. l : p + (j - 1) * d \in Int
  BY <1>1
<1>7. [j \in 1 .. l |-> p + (j - 1) * d] \in Seq(Int)
  <2> DEFINE x(j) == p + (j - 1) * d
  <2>1. \A j \in 1 .. l : x(j) \in Int
    BY <1>6
  <2> HIDE DEF x
  <2>2. [j \in 1 .. l |-> x(j)] \in Seq(Int)
    BY <2>1
  <2>3. QED
    BY <2>2, Zenon DEF x
<1>8. QED
  BY <1>4, <1>5, <1>7 DEF p

IsBucketValues(f) ==
  f = [k \in Nat |-> IF k = 0 THEN <<1, 2, 3>> ELSE f[k - 1] \o ValuesFrom(PowerOf4[k])]

LEMMA SequencesJoined ==
  ASSUME NEW s \in Seq(Int), NEW t \in Seq(Int)
  PROVE  /\ s \o t \in Seq(Int) /\ Len(s \o t) = Len(s) + Len(t)
         /\ \A j \in 1 .. Len(s) : (s \o t)[j] = s[j]
         /\ \A j \in 1 .. Len(t) : (s \o t)[Len(s) + j] = t[j]
OBVIOUS

\* The table is built group by group.
LEMMA BucketValuesDef ==
  /\ BucketValues[0] = <<1, 2, 3>>
  /\ \A k \in Nat : /\ BucketValues[k] \in Seq(Int)
                    /\ BucketValues[k + 1] = BucketValues[k] \o ValuesFrom(PowerOf4[k + 1])
<1> DEFINE V(k) == ValuesFrom(PowerOf4[k])
           step == [k \in Nat |-> [b \in Seq(Int) |-> b \o V(k)]]
           z == <<1, 2, 3>>
<1>1. PICK f : Stepped(f, z, step)
  BY Recursion
<1>0. \A n \in Nat : f[n] \in Seq(Int) => f[n + 1] = f[n] \o V(n + 1)
  <2> SUFFICES ASSUME NEW n \in Nat, f[n] \in Seq(Int) PROVE f[n + 1] = f[n] \o V(n + 1)
    OBVIOUS
  <2>1. f[n + 1] = step[n + 1][f[n]]
    BY <1>1, Zenon DEF Stepped
  <2>0. n + 1 \in Nat
    OBVIOUS
  <2>2. step[n + 1] = [b \in Seq(Int) |-> b \o V(n + 1)]
    BY <2>0, Zenon
  <2> HIDE DEF step, V
  <2>3. QED
    BY <2>1, <2>2, Zenon
<1>7. z \in Seq(Int)
  OBVIOUS
<1> HIDE DEF z
<1>2. \A n \in Nat : f[n] \in Seq(Int)
  <2> DEFINE T == {n \in Nat : f[n] \in Seq(Int)}
  <2>1. 0 \in T
    <3>1. f[0] = z
      BY <1>1, Zenon DEF Stepped
    <3>2. QED
      BY <1>7, <3>1
  <2>2. ASSUME NEW n \in Nat, n \in T
        PROVE  n + 1 \in T
    <3>1. n + 1 \in Nat /\ n + 1 > 0
      OBVIOUS
    <3>2. V(n + 1) \in Seq(Int)
      BY <3>1, GroupsAreSequences
    <3>3. f[n] \in Seq(Int) /\ f[n + 1] = f[n] \o V(n + 1)
      BY <1>0, <2>2
    <3> HIDE DEF V
    <3>4. f[n + 1] \in Seq(Int)
      BY <3>2, <3>3, SequencesJoined, Zenon
    <3>5. QED
      BY <3>1, <3>4
  <2> HIDE DEF T
  <2>3. \A n \in Nat : n \in T
    BY <2>1, <2>2, Induction
  <2>4. QED
    BY <2>3 DEF T
<1>3. \A n \in Nat : f[n + 1] = f[n] \o V(n + 1)
  BY <1>0, <1>2, Zenon
<1> HIDE DEF step, V
<1>4. \A k \in Nat : f[k] = IF k = 0 THEN z ELSE f[k - 1] \o V(k)
  <2> SUFFICES ASSUME NEW k \in Nat PROVE f[k] = IF k = 0 THEN z ELSE f[k - 1] \o V(k)
    OBVIOUS
  <2>0. CASE k = 0
    BY <1>1, <2>0, Zenon DEF Stepped
  <2>1. CASE k # 0
    <3>1. k - 1 \in Nat /\ (k - 1) + 1 = k
      BY <2>1
    <3>2. f[(k - 1) + 1] = f[k - 1] \o V((k - 1) + 1)
      BY <1>3, <3>1, Zenon
    <3>3. QED
      BY <2>1, <3>1, <3>2, Zenon
  <2>2. QED
    BY <2>0, <2>1, Zenon
<1>5. IsBucketValues(f)
  <2>1. f = [k \in Nat |-> f[k]]
    BY <1>1, Zenon DEF Stepped
  <2>2. f = [k \in Nat |-> IF k = 0 THEN z ELSE f[k - 1] \o V(k)]
    BY <1>4, <2>1, Zenon
  <2>3. QED
    BY <2>2, Zenon DEF IsBucketValues, z, V
<1>6. BucketValues = CHOOSE g : IsBucketValues(g)
  BY Zenon DEF BucketValues, IsBucketValues
<1>8. IsBucketValues(BucketValues)
  BY <1>5, <1>6, Zenon
<1>9. BucketValues = [k \in Nat |-> IF k = 0 THEN z ELSE BucketValues[k - 1] \o V(k)]
  BY <1>8, Zenon DEF IsBucketValues, z, V
<1> DEFINE B == BucketValues
<1>10. \A k \in Nat : B[k] = IF k = 0 THEN z ELSE B[k - 1] \o V(k)
  BY <1>9, Zenon
<1> HIDE DEF B
<1>11. B[0] = z
  BY <1>10
<1>12. \A k \in Nat : B[k + 1] = B[k] \o V(k + 1)
  <2> SUFFICES ASSUME NEW k \in Nat PROVE B[k + 1] = B[k] \o V(k + 1)
    OBVIOUS
  <2>1. k + 1 \in Nat /\ k + 1 # 0 /\ (k + 1) - 1 = k
    OBVIOUS
  <2>2. QED
    BY <1>10, <2>1, Zenon
<1>13. \A k \in Nat : B[k] \in Seq(Int)
  <2> DEFINE T == {n \in Nat : B[n] \in Seq(Int)}
  <2>1. 0 \in T
    BY <1>7, <1>11
  <2>2. ASSUME NEW n \in Nat, n \in T
        PROVE  n + 1 \in T
    <3>1. n + 1 \in Nat /\ n + 1 > 0
      OBVIOUS
    <3>2. V(n + 1) \in Seq(Int)
      BY <3>1, GroupsAreSequences DEF V
    <3>3. B[n] \in Seq(Int) /\ B[n + 1] = B[n] \o V(n + 1)
      BY <1>12, <2>2
    <3>4. B[n + 1] \in Seq(Int)
      BY <3>2, <3>3, SequencesJoined, Zenon
    <3>5. QED
      BY <3>1, <3>4
  <2> HIDE DEF T
  <2>3. \A n \in Nat : n \in T
    BY <2>1, <2>2, Induction
  <2>4. QED
    BY <2>3 DEF T
<1>14. QED
  BY <1>11, <1>12, <1>13, Zenon DEF B, z, V

LEMMA Multiples ==
  ASSUME NEW d \in Nat, NEW i \in Nat, NEW j \in Nat, i < j, d >= 1
  PROVE  i * d \in Nat /\ j * d \in Nat /\ i * d + d <= j * d
<1>1. d \in Nat \ {0}
  OBVIOUS
<1>2. d * i \in Nat /\ d * j \in Nat /\ d * i + d <= d * j
  BY <1>1, ProductsRise
<1>3. d * i = i * d /\ d * j = j * d
  OBVIOUS
<1>4. QED
  BY <1>2, <1>3

\* Thirds fill the group up to near the next power of four.
LEMMA ValuesAre ==
  ASSUME NEW k \in Nat, k > 0
  PROVE  /\ Values(k) \in Nat /\ Values(k) >= 9
         /\ Values(k) * Third(k) \in Nat
         /\ Values(k) * Third(k) <= 9 * Third(k) + 2
         /\ 9 * Third(k) + 2 < Values(k) * Third(k) + Third(k)
<1> DEFINE d == Third(k)
<1>1. d \in Nat \ {0} /\ d >= 1
  <2>1. d \in Nat /\ d >= 1
    BY PowersOf4
  <2> HIDE DEF d
  <2>2. QED
    BY <2>1
<1> DEFINE n == Values(k)
<1>2. n = (9 * d + 2) \div d
  BY DEF Values
<1> HIDE DEF n, d
<1>3. PICK q \in Nat : n = q /\ d * q \in Nat /\ d * q <= 9 * d + 2 /\ 9 * d + 2 < d * q + d
  <2>1. 9 * d + 2 \in Nat
    BY <1>1
  <2>2. QED
    BY <1>1, <1>2, <2>1, Division
<1>4. n * d = d * q
  BY <1>1, <1>3
<1>5. n < 9 => d * n + d <= d * 9
  BY <1>1, <1>3, ProductsRise
<1> DEFINE x == d * q
<1>6. /\ x \in Nat /\ x <= 9 * d + 2 /\ 9 * d + 2 < x + d
      /\ n < 9 => x + d <= d * 9
  BY <1>3, <1>5
<1>7. n * d = x
  BY <1>4
<1> HIDE DEF x
<1>8. ~(n < 9)
  BY <1>1, <1>6
<1>9. QED
  BY <1>3, <1>6, <1>7, <1>8 DEF n, d

LEMMA Group ==
  ASSUME NEW k \in Nat, k > 0, k < Half - 1, NEW g, g = ValuesFrom(PowerOf4[k])
  PROVE  /\ g \in Seq(Int) /\ Len(g) = Values(k)
         /\ \A j \in 1 .. Values(k) : /\ g[j] = PowerOf4[k] + (j - 1) * Third(k)
                                      /\ PowerOf4[k] <= g[j] /\ g[j] < PowerOf4[k + 1]
         /\ \A i, j \in 1 .. Values(k) : i < j => g[i] < g[j]
<1> DEFINE p == PowerOf4[k]
           d == Third(k)
           n == Values(k)
<1>1. p \in Nat /\ d \in Nat /\ p = 3 * d + 1 /\ d >= 1 /\ PowerOf4[k + 1] = 4 * p
  BY PowersOf4
<1>2. n \in Nat /\ n * d \in Nat /\ n * d <= 9 * d + 2
  BY ValuesAre
<1>3. g = [j \in 1 .. n |-> p + (j - 1) * d]
  BY GroupIs
<1>4. g \in Seq(Int)
  BY GroupsAreSequences
<1> HIDE DEF p, d, n
<1>5. Len(g) = n
  <2>1. DOMAIN g = 1 .. n
    BY <1>3, Zenon
  <2>2. QED
    BY <1>2, <1>4, <2>1
<1>6. \A j \in 1 .. n : g[j] = p + (j - 1) * d
  BY <1>3, Zenon
<1>7. ASSUME NEW j \in 1 .. n
      PROVE  p <= g[j] /\ g[j] < 4 * p
  <2>1. j - 1 \in Nat /\ j - 1 < n
    BY <1>2
  <2>2. (j - 1) * d \in Nat /\ (j - 1) * d + d <= n * d
    BY <1>1, <1>2, <2>1, Multiples
  <2> DEFINE x == (j - 1) * d
             y == n * d
  <2>3. x \in Nat /\ y \in Nat /\ x + d <= y /\ y <= 9 * d + 2 /\ g[j] = p + x
    BY <1>2, <1>6, <2>2
  <2> HIDE DEF x, y
  <2>4. QED
    BY <1>1, <2>3
<1>8. ASSUME NEW i \in 1 .. n, NEW j \in 1 .. n, i < j
      PROVE  g[i] < g[j]
  <2>1. i - 1 \in Nat /\ j - 1 \in Nat /\ i - 1 < j - 1
    BY <1>2, <1>8
  <2>2. (i - 1) * d \in Nat /\ (j - 1) * d \in Nat /\ (i - 1) * d + d <= (j - 1) * d
    BY <1>1, <2>1, Multiples
  <2> DEFINE x == (i - 1) * d
             y == (j - 1) * d
  <2>3. x \in Nat /\ y \in Nat /\ x + d <= y /\ g[i] = p + x /\ g[j] = p + y
    BY <1>6, <2>2
  <2> HIDE DEF x, y
  <2>4. QED
    BY <1>1, <2>3
<1>9. QED
  BY <1>1, <1>4, <1>5, <1>6, <1>7, <1>8 DEF p, d, n

\* A table of values that rise and stay below a bound.
Rising(s, bound) ==
  /\ s \in Seq(Int)
  /\ \A i \in 1 .. Len(s) : 0 < s[i] /\ s[i] < bound
  /\ \A i, j \in 1 .. Len(s) : i < j => s[i] < s[j]

LEMMA RisingJoined ==
  ASSUME NEW s, NEW t, NEW b \in Nat, NEW c \in Nat, b > 0, Rising(s, b), b <= c, t \in Seq(Int),
         \A j \in 1 .. Len(t) : b <= t[j] /\ t[j] < c,
         \A i, j \in 1 .. Len(t) : i < j => t[i] < t[j]
  PROVE  Rising(s \o t, c)
<1> DEFINE u == s \o t
           m == Len(s)
           n == Len(t)
<1>1. s \in Seq(Int) /\ m \in Nat /\ n \in Nat
  BY DEF Rising
<1>2. /\ u \in Seq(Int) /\ Len(u) = m + n
      /\ \A j \in 1 .. m : u[j] = s[j]
      /\ \A j \in 1 .. n : u[m + j] = t[j]
  BY <1>1, SequencesJoined, Zenon
<1>3. /\ \A i \in 1 .. m : s[i] \in Int /\ 0 < s[i] /\ s[i] < b
      /\ \A i \in 1 .. n : t[i] \in Int /\ b <= t[i] /\ t[i] < c
      /\ \A i, j \in 1 .. m : i < j => s[i] < s[j]
      /\ \A i, j \in 1 .. n : i < j => t[i] < t[j]
  <2>1. \A i \in 1 .. m : s[i] \in Int
    BY <1>1
  <2>2. \A i \in 1 .. n : t[i] \in Int
    OBVIOUS
  <2>3. QED
    BY <2>1, <2>2 DEF Rising
<1> HIDE DEF u, m, n
<1>4. \A i \in 1 .. (m + n) : i <= m \/ (i - m \in 1 .. n /\ i = m + (i - m))
  BY <1>1
<1>5. ASSUME NEW i \in 1 .. (m + n)
      PROVE  u[i] \in Int /\ 0 < u[i] /\ u[i] < c
  <2>1. CASE i <= m
    <3>1. i \in 1 .. m
      BY <1>1, <2>1
    <3>2. u[i] = s[i] /\ s[i] \in Int /\ 0 < s[i] /\ s[i] < b
      BY <1>2, <1>3, <3>1
    <3>3. QED
      BY <3>2
  <2>2. CASE ~(i <= m)
    <3>1. i - m \in 1 .. n /\ i = m + (i - m)
      BY <1>4, <2>2
    <3>2. u[i] = t[i - m] /\ t[i - m] \in Int /\ b <= t[i - m] /\ t[i - m] < c
      BY <1>2, <1>3, <3>1
    <3>3. QED
      BY <3>2
  <2>3. QED
    BY <2>1, <2>2
<1>6. ASSUME NEW i \in 1 .. (m + n), NEW j \in 1 .. (m + n), i < j
      PROVE  u[i] < u[j]
  <2>1. CASE j <= m
    <3>1. i \in 1 .. m /\ j \in 1 .. m
      BY <1>1, <1>6, <2>1
    <3>2. u[i] = s[i] /\ u[j] = s[j] /\ s[i] < s[j]
      BY <1>2, <1>3, <1>6, <3>1
    <3>3. QED
      BY <3>2
  <2>2. CASE i <= m /\ ~(j <= m)
    <3>1. i \in 1 .. m /\ j - m \in 1 .. n /\ j = m + (j - m)
      BY <1>1, <1>4, <2>2
    <3>2. u[i] = s[i] /\ s[i] \in Int /\ s[i] < b /\ u[j] = t[j - m] /\ b <= t[j - m] /\ t[j - m] \in Int
      BY <1>2, <1>3, <3>1
    <3>3. QED
      BY <3>2
  <2>3. CASE ~(i <= m)
    <3>1. i - m \in 1 .. n /\ i = m + (i - m) /\ j - m \in 1 .. n /\ j = m + (j - m) /\ i - m < j - m
      BY <1>1, <1>4, <1>6, <2>3
    <3>2. u[i] = t[i - m] /\ u[j] = t[j - m] /\ t[i - m] < t[j - m]
      BY <1>2, <1>3, <3>1
    <3>3. QED
      BY <3>2
  <2>4. QED
    BY <1>1, <1>6, <2>1, <2>2, <2>3
<1>7. QED
  BY <1>2, <1>5, <1>6 DEF Rising, u

\* Up to any power of four the table rises and stays below the next.
LEMMA TableRises ==
  \A k \in Nat : k < Half - 1 => /\ Rising(BucketValues[k], PowerOf4[k + 1])
                                 /\ Len(BucketValues[k]) >= 3
<1> DEFINE B == BucketValues
           T == {k \in Nat : k < Half - 1 => Rising(B[k], PowerOf4[k + 1]) /\ Len(B[k]) >= 3}
<1>1. 0 \in T
  <2>1. PowerOf4[0 + 1] = 4
    <3>1. 0 \in Nat
      OBVIOUS
    <3>2. PowerOf4[0 + 1] = 4 * PowerOf4[0]
      BY <3>1, PowersOf4
    <3>3. QED
      BY <3>2, PowersOf4
  <2>2. Rising(<<1, 2, 3>>, 4) /\ Len(<<1, 2, 3>>) = 3
    BY DEF Rising
  <2>3. B[0] = <<1, 2, 3>>
    BY BucketValuesDef
  <2>4. Rising(B[0], PowerOf4[0 + 1]) /\ Len(B[0]) >= 3
    BY <2>1, <2>2, <2>3
  <2>5. QED
    BY <2>4
<1>2. ASSUME NEW k \in Nat, k \in T
      PROVE  k + 1 \in T
  <2> SUFFICES ASSUME k + 1 < Half - 1
               PROVE  Rising(B[k + 1], PowerOf4[(k + 1) + 1]) /\ Len(B[k + 1]) >= 3
    OBVIOUS
  <2> DEFINE g == ValuesFrom(PowerOf4[k + 1])
             b == PowerOf4[k + 1]
             c == PowerOf4[(k + 1) + 1]
             n == Values(k + 1)
  <2>0. k < Half - 1
    BY WidthHalved
  <2>1. Rising(B[k], b) /\ Len(B[k]) >= 3
    BY <1>2, <2>0
  <2>2. k + 1 \in Nat /\ k + 1 > 0
    OBVIOUS
  <2>3. b \in Nat /\ c \in Nat /\ b <= c /\ b > 0
    <3>1. (k + 1) + 1 \in Nat
      OBVIOUS
    <3>2. b \in Nat /\ c = 4 * b /\ b = 3 * Third(k + 1) + 1 /\ Third(k + 1) \in Nat
      BY <2>2, PowersOf4
    <3> HIDE DEF b, c
    <3>3. QED
      BY <3>2
  <2>4. /\ g \in Seq(Int) /\ Len(g) = n
        /\ \A j \in 1 .. n : b <= g[j] /\ g[j] < c
        /\ \A i, j \in 1 .. n : i < j => g[i] < g[j]
    BY <2>2, Group
  <2>5. B[k + 1] = B[k] \o g /\ B[k] \in Seq(Int)
    BY BucketValuesDef
  <2> HIDE DEF g, b, c, n, B
  <2>6. Rising(B[k + 1], c)
    BY <2>1, <2>3, <2>4, <2>5, RisingJoined
  <2>7. Len(B[k + 1]) = Len(B[k]) + Len(g)
    BY <2>4, <2>5, SequencesJoined
  <2>8. Len(B[k + 1]) >= 3
    BY <2>1, <2>4, <2>5, <2>7
  <2>9. QED
    BY <2>6, <2>8 DEF c
<1> HIDE DEF T
<1>3. \A k \in Nat : k \in T
  BY <1>1, <1>2, Induction
<1>4. QED
  BY <1>3 DEF T

\* A shorter table begins a longer one.
LEMMA TableGrows ==
  ASSUME NEW k \in Nat, NEW l \in Nat, k <= l
  PROVE  /\ Len(BucketValues[k]) \in Nat /\ Len(BucketValues[l]) \in Nat
         /\ Len(BucketValues[k]) <= Len(BucketValues[l])
         /\ \A m \in 1 .. Len(BucketValues[k]) : BucketValues[l][m] = BucketValues[k][m]
<1> DEFINE B == BucketValues
           T == {n \in Nat : /\ Len(B[k]) <= Len(B[k + n])
                             /\ \A m \in 1 .. Len(B[k]) : B[k + n][m] = B[k][m]}
<1>0. \A n \in Nat : B[n] \in Seq(Int) /\ Len(B[n]) \in Nat
  <2>1. \A n \in Nat : B[n] \in Seq(Int)
    BY BucketValuesDef
  <2> HIDE DEF B
  <2>2. QED
    BY <2>1
<1>1. 0 \in T
  <2>1. k + 0 = k
    OBVIOUS
  <2>2. Len(B[k]) <= Len(B[k])
    BY <1>0
  <2>3. QED
    BY <2>1, <2>2
<1>2. ASSUME NEW n \in Nat, n \in T
      PROVE  n + 1 \in T
  <2> DEFINE g == ValuesFrom(PowerOf4[(k + n) + 1])
             s == B[k + n]
             u == B[(k + n) + 1]
  <2>1. k + n \in Nat /\ (k + n) + 1 \in Nat /\ (k + n) + 1 > 0 /\ k + (n + 1) = (k + n) + 1
    OBVIOUS
  <2>2. g \in Seq(Int) /\ s \in Seq(Int) /\ u = s \o g
    BY <2>1, GroupsAreSequences, BucketValuesDef
  <2>3. Len(B[k]) <= Len(s) /\ \A m \in 1 .. Len(B[k]) : s[m] = B[k][m]
    BY <1>2
  <2> HIDE DEF g, s, B
  <2>4. Len(u) = Len(s) + Len(g) /\ \A m \in 1 .. Len(s) : u[m] = s[m]
    BY <2>2, SequencesJoined
  <2>5. Len(s) \in Nat /\ Len(g) \in Nat /\ Len(B[k]) \in Nat
    BY <1>0, <2>2
  <2>6. Len(B[k]) <= Len(u)
    BY <2>3, <2>4, <2>5
  <2>7. \A m \in 1 .. Len(B[k]) : u[m] = B[k][m]
    <3>1. \A m \in 1 .. Len(B[k]) : m \in 1 .. Len(s)
      BY <2>3, <2>5
    <3>2. QED
      BY <2>3, <2>4, <3>1
  <2>8. QED
    BY <2>1, <2>6, <2>7
<1> HIDE DEF T
<1>3. \A n \in Nat : n \in T
  BY <1>1, <1>2, Induction
<1>4. l - k \in Nat /\ k + (l - k) = l
  OBVIOUS
<1>5. l - k \in T
  BY <1>3, <1>4
<1>6. QED
  BY <1>0, <1>4, <1>5 DEF T

\* The last power of four adds no values: the largest integer follows.
LEMMA LastBucket ==
  /\ LastIndex = Len(BucketValues[Half - 2]) /\ LastIndex \in Nat /\ LastIndex >= 3
  /\ Get(LastIndex) = MaxInteger
  /\ \A i \in 0 .. (LastIndex - 1) : Get(i) = BucketValues[Half - 2][i + 1]
  /\ PowerOf4Index(Half - 1) = LastIndex
<1> DEFINE b == BucketValues[Half - 2]
           m == Len(b)
<1>1. BucketValues[Half - 1] = b \o ValuesFrom(PowerOf4[Half - 1]) /\ b \in Seq(Int)
  <2>1. (Half - 2) + 1 = Half - 1
    BY WidthHalved
  <2>2. QED
    BY <2>1, WidthHalved, BucketValuesDef
<1>2. m >= 3
  <2>1. Half - 2 < Half - 1
    BY WidthHalved
  <2>2. QED
    BY <2>1, WidthHalved, TableRises
<1>3. BucketValues[Half - 1] = b
  <2> HIDE DEF b
  <2>1. b \o <<>> = b
    BY <1>1
  <2>2. QED
    BY <1>1, <2>1, LastGroupIsEmpty
<1>4. kBucketValues = Append(b, MaxInteger)
  BY <1>3 DEF kBucketValues
<1>5. PowerOf4Index(Half - 1) = m
  <2>1. (Half - 1) - 1 = Half - 2 /\ Half - 1 # 0
    BY WidthHalved
  <2>2. QED
    BY <2>1 DEF PowerOf4Index
<1> HIDE DEF b
<1>6. m \in Nat
  BY <1>1
<1>7. /\ Len(kBucketValues) = m + 1
      /\ \A j \in 1 .. m : kBucketValues[j] = b[j]
      /\ kBucketValues[m + 1] = MaxInteger
  BY <1>1, <1>4, Largest
<1> HIDE DEF m
<1>8. LastIndex = m
  BY <1>6, <1>7 DEF LastIndex
<1>9. \A i \in 0 .. (m - 1) : i + 1 \in 1 .. m
  BY <1>6
<1>10. \A i \in 0 .. (m - 1) : Get(i) = b[i + 1]
  BY <1>7, <1>9 DEF Get
<1>11. Get(m) = MaxInteger
  BY <1>7 DEF Get
<1>12. QED
  BY <1>2, <1>5, <1>6, <1>8, <1>10, <1>11 DEF b, m

\* The table the generator writes is in ascending order, without duplicates, and
\* holds positive integers only, although its last power of four overflows.
THEOREM BucketsRise ==
  /\ \A i \in 0 .. LastIndex : Get(i) \in Nat /\ Get(i) > 0
  /\ \A i, j \in 0 .. LastIndex : i < j => Get(i) < Get(j)
<1> DEFINE b == BucketValues[Half - 2]
           p == PowerOf4[Half - 1]
           m == LastIndex
<1>1. Rising(b, p)
  <2>1. Half - 2 < Half - 1 /\ (Half - 2) + 1 = Half - 1
    BY WidthHalved
  <2>2. QED
    BY <2>1, WidthHalved, TableRises
<1>2. /\ m = Len(b) /\ m \in Nat /\ Get(m) = MaxInteger
      /\ \A i \in 0 .. (m - 1) : Get(i) = b[i + 1]
  BY LastBucket
<1>3. p \in Nat /\ p >= 16 /\ MaxInteger = 2 * p - 1
  BY Largest
<1> HIDE DEF b, p, m
<1>4. /\ \A i \in 1 .. m : b[i] \in Int /\ 0 < b[i] /\ b[i] < p
      /\ \A i, j \in 1 .. m : i < j => b[i] < b[j]
  BY <1>1, <1>2 DEF Rising
<1>5. \A i \in 0 .. m : (i \in 0 .. (m - 1) /\ i + 1 \in 1 .. m) \/ i = m
  BY <1>2
<1>6. \A i \in 0 .. (m - 1) : Get(i) \in Nat /\ Get(i) > 0 /\ Get(i) < p
  BY <1>2, <1>4, <1>5
<1>7. \A i \in 0 .. m : Get(i) \in Nat /\ Get(i) > 0
  BY <1>2, <1>3, <1>5, <1>6
<1>8. ASSUME NEW i \in 0 .. m, NEW j \in 0 .. m, i < j
      PROVE  Get(i) < Get(j)
  <2>1. i \in 0 .. (m - 1)
    BY <1>2, <1>8
  <2>2. CASE j = m
    BY <1>2, <1>3, <1>6, <2>1, <2>2
  <2>3. CASE j # m
    <3>1. j \in 0 .. (m - 1) /\ i + 1 \in 1 .. m /\ j + 1 \in 1 .. m /\ i + 1 < j + 1
      BY <1>2, <1>8, <2>1, <2>3
    <3>2. b[i + 1] < b[j + 1]
      BY <1>4, <3>1
    <3>3. QED
      BY <1>2, <2>1, <3>1, <3>2
  <2>4. QED
    BY <2>2, <2>3
<1>9. QED
  BY <1>7, <1>8 DEF m

\* Where the groups begin.
LEMMA PositionsRise ==
  ASSUME NEW k \in Nat, NEW l \in Nat, 0 < k, k <= l, l <= Half - 1
  PROVE  /\ PowerOf4Index(k) \in Nat /\ PowerOf4Index(l) \in Nat
         /\ PowerOf4Index(k) <= PowerOf4Index(l) /\ PowerOf4Index(l) <= LastIndex
         /\ PowerOf4Index(k) >= 3
         /\ Get(PowerOf4Index(k) - 1) < PowerOf4[k]
         /\ \A m \in 1 .. PowerOf4Index(k) : Get(m - 1) = BucketValues[k - 1][m]
<1> DEFINE i == PowerOf4Index(k)
           j == PowerOf4Index(l)
           s == BucketValues[k - 1]
           b == BucketValues[Half - 2]
<1>1. /\ k - 1 \in Nat /\ l - 1 \in Nat /\ Half - 2 \in Nat /\ k - 1 < Half - 1 /\ (k - 1) + 1 = k
      /\ k - 1 <= l - 1 /\ l - 1 <= Half - 2 /\ k - 1 <= Half - 2 /\ k # 0 /\ l # 0
  BY WidthHalved
<1>2. i = Len(s) /\ j = Len(BucketValues[l - 1])
  BY <1>1 DEF PowerOf4Index
<1>3. i \in Nat /\ j \in Nat /\ i <= j
  BY <1>1, <1>2, TableGrows
<1>4. j <= LastIndex
  BY <1>1, <1>2, TableGrows, LastBucket
<1>5. \A m \in 1 .. i : b[m] = s[m]
  BY <1>1, <1>2, TableGrows
<1>6. Rising(s, PowerOf4[k]) /\ i >= 3
  BY <1>1, <1>2, TableRises
<1>7. \A m \in 0 .. (LastIndex - 1) : Get(m) = b[m + 1]
  BY LastBucket
<1>8. LastIndex \in Nat
  BY LastBucket
<1> HIDE DEF i, j, s, b
<1>9. \A m \in 1 .. i : Get(m - 1) = s[m]
  <2>1. \A m \in 1 .. i : m - 1 \in 0 .. (LastIndex - 1) /\ (m - 1) + 1 = m
    BY <1>3, <1>4, <1>8
  <2>2. QED
    BY <1>5, <1>7, <2>1
<1>10. Get(i - 1) < PowerOf4[k]
  <2>1. i \in 1 .. i
    BY <1>3, <1>6
  <2>2. s[i] < PowerOf4[k]
    BY <1>2, <1>6, <2>1 DEF Rising
  <2>3. QED
    BY <1>9, <2>1, <2>2
<1>11. QED
  BY <1>3, <1>4, <1>6, <1>9, <1>10 DEF i, j, s

\* What a group holds.
LEMMA GroupPositions ==
  ASSUME NEW k \in Nat, 0 < k, k < Half - 1
  PROVE  /\ PowerOf4Index(k + 1) = PowerOf4Index(k) + Values(k)
         /\ \A j \in 0 .. (Values(k) - 1) :
              Get(PowerOf4Index(k) + j) = PowerOf4[k] + j * Third(k)
<1> DEFINE i == PowerOf4Index(k)
           n == Values(k)
           s == BucketValues[k - 1]
           u == BucketValues[k]
           g == ValuesFrom(PowerOf4[k])
<1>1. k - 1 \in Nat /\ (k - 1) + 1 = k /\ k + 1 \in Nat /\ 0 < k + 1 /\ k + 1 <= Half - 1 /\ (k + 1) - 1 = k /\ k # 0 /\ k + 1 # 0 /\ k <= k + 1
  BY WidthHalved
<1>2. u = s \o g /\ s \in Seq(Int)
  BY <1>1, BucketValuesDef
<1>3. i = Len(s) /\ PowerOf4Index(k + 1) = Len(u)
  BY <1>1 DEF PowerOf4Index
<1>4. g \in Seq(Int) /\ Len(g) = n /\ \A j \in 1 .. n : g[j] = PowerOf4[k] + (j - 1) * Third(k)
  BY Group
<1>5. n \in Nat
  BY ValuesAre
<1>6. Len(u) = i + n /\ \A j \in 1 .. n : u[i + j] = g[j]
  <2> HIDE DEF u, s, g, n, i
  <2>1. QED
    BY <1>2, <1>3, <1>4, SequencesJoined
<1>7. \A m \in 1 .. Len(u) : Get(m - 1) = u[m]
  <2>1. \A m \in 1 .. PowerOf4Index(k + 1) : Get(m - 1) = BucketValues[(k + 1) - 1][m]
    <3>1. Half - 1 \in Nat
      BY WidthHalved
    <3>2. QED
      BY <1>1, <3>1, PositionsRise
  <2>2. QED
    BY <1>1, <1>3, <2>1
<1>8. i \in Nat
  BY <1>2, <1>3
<1> DEFINE p == PowerOf4[k]
           d == Third(k)
<1> HIDE DEF i, n, s, u, g, p, d
<1>9. ASSUME NEW j \in 0 .. (n - 1)
      PROVE  Get(i + j) = p + j * d
  <2>1. j + 1 \in 1 .. n /\ (j + 1) - 1 = j /\ i + (j + 1) \in 1 .. Len(u) /\ (i + (j + 1)) - 1 = i + j
    BY <1>5, <1>6, <1>8
  <2>2. Get(i + j) = u[i + (j + 1)]
    BY <1>7, <2>1
  <2>3. u[i + (j + 1)] = g[j + 1]
    BY <1>6, <2>1
  <2>4. g[j + 1] = p + j * d
    BY <1>4, <2>1 DEF p, d
  <2>5. QED
    BY <2>2, <2>3, <2>4
<1>10. QED
  BY <1>3, <1>6, <1>9 DEF i, n, p, d

LEMMA PowerOf4One == PowerOf4[1] = 4 /\ Third(1) = 1
<1>1. 0 \in Nat /\ 1 \in Nat /\ 0 + 1 = 1
  OBVIOUS
<1>2. PowerOf4[0 + 1] = 4 * PowerOf4[0]
  BY <1>1, PowersOf4
<1>3. PowerOf4[1] = 4
  BY <1>1, <1>2, PowersOf4
<1>4. QED
  BY <1>3 DEF Third

\* The power of four found with the leading zeros.
LEMMA PowerFound ==
  ASSUME NEW v \in Nat, v > 4, v <= MaxInteger
  PROVE  /\ PowerBelow(v) \in 1 .. (Half - 1)
         /\ PowerOf4[PowerBelow(v)] <= v /\ v < 4 * PowerOf4[PowerBelow(v)]
<1> DEFINE S == {n \in Nat : v < 4 * PowerOf4[n]}
           Is(k) == PowerOf4[k] <= v /\ v < 4 * PowerOf4[k]
<1>1. Half - 1 \in Nat /\ Half - 1 >= 1 /\ Half \in Nat /\ Half >= 3
  BY WidthHalved
<1>2. Half - 1 \in S
  <2> DEFINE p == PowerOf4[Half - 1]
             m == MaxInteger
  <2>1. p \in Nat /\ m = 2 * p - 1 /\ v <= m /\ p >= 16
    BY Largest
  <2>2. v < 4 * p
    <3> HIDE DEF p, m
    <3>1. QED
      BY <2>1
  <2>3. QED
    BY <1>1, <2>2
<1>3. PICK n \in S : \A k \in S : n <= k
  <2>1. S \in SUBSET Nat /\ S # {}
    BY <1>2
  <2> HIDE DEF S
  <2>2. QED
    BY <2>1, Least
<1>4. n \in Nat /\ n <= Half - 1 /\ v < 4 * PowerOf4[n]
  BY <1>2, <1>3
<1>5. n # 0
  BY <1>4, PowersOf4
<1>6. PowerOf4[n] <= v
  <2>1. n - 1 \in Nat /\ (n - 1) + 1 = n /\ ~(n <= n - 1)
    BY <1>4, <1>5
  <2>2. ~(v < 4 * PowerOf4[n - 1])
    BY <1>3, <2>1
  <2>3. PowerOf4[n] = 4 * PowerOf4[n - 1] /\ PowerOf4[n] \in Nat
    BY <2>1, <1>4, PowersOf4
  <2> DEFINE x == PowerOf4[n]
             y == PowerOf4[n - 1]
  <2>4. x = 4 * y /\ x \in Nat /\ ~(v < 4 * y)
    BY <2>2, <2>3
  <2> HIDE DEF x, y
  <2>5. x <= v
    BY <2>4
  <2>6. QED
    BY <2>5 DEF x
<1>7. n \in 1 .. Half /\ Is(n)
  BY <1>1, <1>4, <1>5, <1>6
<1>8. PowerBelow(v) = CHOOSE k \in 1 .. Half : Is(k)
  BY DEF PowerBelow
<1> HIDE DEF Is
<1>9. PowerBelow(v) \in 1 .. Half /\ Is(PowerBelow(v))
  BY <1>7, <1>8, Zenon
<1>10. PowerBelow(v) # Half
  <2> SUFFICES ASSUME PowerBelow(v) = Half PROVE FALSE
    OBVIOUS
  <2>1. PowerOf4[Half] <= v
    BY <1>9 DEF Is
  <2> DEFINE p == PowerOf4[Half - 1]
             q == PowerOf4[Half]
             m == MaxInteger
  <2>2. p \in Nat /\ q = 4 * p /\ p >= 16 /\ m = 2 * p - 1 /\ v <= m /\ q <= v
    BY <2>1, Largest
  <2> HIDE DEF p, q, m
  <2>3. QED
    BY <2>2
<1>11. QED
  BY <1>1, <1>9, <1>10 DEF Is

\* Where IndexOf finds a value above four.
LEMMA Position ==
  ASSUME NEW v \in Nat, v > 4, v <= MaxInteger
  PROVE  \E k \in 1 .. (Half - 1), q \in Nat :
           /\ k \in Nat /\ 0 < k /\ k <= Half - 1 /\ PowerOf4[k] <= v /\ v < 4 * PowerOf4[k]
           /\ q = (v - PowerOf4[k]) \div Third(k)
           /\ q * Third(k) \in Nat
           /\ PowerOf4[k] + q * Third(k) <= v
           /\ v < PowerOf4[k] + q * Third(k) + Third(k)
           /\ q <= Values(k)
           /\ IndexOf(v) = IF q + PowerOf4Index(k) >= LastIndex THEN LastIndex
                           ELSE q + PowerOf4Index(k) + 1
<1> DEFINE k == PowerBelow(v)
           p == PowerOf4[k]
           d == Third(k)
           n == Values(k)
           i == PowerOf4Index(k)
           q == (v - p) \div d
<1>1. k \in 1 .. (Half - 1) /\ k \in Nat /\ 0 < k /\ k <= Half - 1 /\ p <= v /\ v < 4 * p
  <2>1. k \in 1 .. (Half - 1) /\ p <= v /\ v < 4 * p
    BY PowerFound
  <2> HIDE DEF k, p
  <2>2. QED
    BY <2>1, WidthHalved
<1>2. d = p \div 3
  BY DEF Third
<1>3. p \in Nat /\ d \in Nat /\ d >= 1 /\ p = 3 * d + 1
  BY <1>1, PowersOf4
<1>4. n \in Nat /\ n * d \in Nat /\ 9 * d + 2 < n * d + d
  BY <1>1, ValuesAre
<1>5. IndexOf(v) = IF q + i >= LastIndex THEN LastIndex ELSE q + i + 1
  <2>1. ~(v <= 0) /\ ~(v <= 4)
    OBVIOUS
  <2>2. IndexOf(v) = LET pos == (v - p) \div (p \div 3) + i
                     IN  IF pos >= LastIndex THEN LastIndex ELSE pos + 1
    BY <2>1, Zenon DEF IndexOf
  <2> HIDE DEF p, i, k, d
  <2>3. QED
    BY <1>2, <2>2
<1> HIDE DEF k, p, d, n, i
<1>6. v - p \in Nat /\ d \in Nat \ {0}
  BY <1>1, <1>3
<1>7. q \in Nat /\ d * q \in Nat /\ d * q <= v - p /\ v - p < d * q + d
  BY <1>6, Division
<1>8. d * q = q * d /\ d * n = n * d
  BY <1>4, <1>6, <1>7
<1>9. n < q => d * n + d <= d * q
  BY <1>4, <1>6, <1>7, ProductsRise
<1> HIDE DEF q
<1> DEFINE x == q * d
           y == n * d
<1>10. /\ x \in Nat /\ y \in Nat /\ x <= v - p /\ v - p < x + d /\ 9 * d + 2 < y + d
       /\ n < q => y + d <= x
  BY <1>4, <1>7, <1>8, <1>9
<1> HIDE DEF x, y
<1>11. p + x <= v /\ v < p + x + d /\ q <= n
  BY <1>1, <1>3, <1>4, <1>7, <1>10
<1>12. /\ p + q * d <= v /\ v < p + q * d + d /\ q * d \in Nat
  BY <1>10, <1>11 DEF x
<1>13. q = (v - p) \div d
  BY DEF q
<1> DEFINE Found(kk, qq) ==
           /\ kk \in Nat /\ 0 < kk /\ kk <= Half - 1 /\ PowerOf4[kk] <= v /\ v < 4 * PowerOf4[kk]
           /\ qq = (v - PowerOf4[kk]) \div Third(kk)
           /\ qq * Third(kk) \in Nat
           /\ PowerOf4[kk] + qq * Third(kk) <= v
           /\ v < PowerOf4[kk] + qq * Third(kk) + Third(kk)
           /\ qq <= Values(kk)
           /\ IndexOf(v) = IF qq + PowerOf4Index(kk) >= LastIndex THEN LastIndex
                           ELSE qq + PowerOf4Index(kk) + 1
<1>14. Found(k, q)
  BY <1>1, <1>5, <1>11, <1>12, <1>13, Zenon DEF p, d, n, i
<1> HIDE DEF Found
<1>15. \E kk \in 1 .. (Half - 1), qq \in Nat : Found(kk, qq)
  BY <1>1, <1>7, <1>14, Zenon
<1>16. QED
  BY <1>15, Zenon DEF Found

\* The bucket of v: it and the one below bound v, the last bucket excepted.
Near(v, i) ==
  /\ i \in 0 .. LastIndex
  /\ i >= 2 => Get(i - 2) <= v
  /\ v < Get(i) \/ i = LastIndex

\* The buckets of the first values are exact.
LEMMA FirstBuckets ==
  LastIndex >= 12 /\ \A m \in 0 .. 4 : Get(m) = m + 1
<1>1. 1 \in Nat /\ 0 < 1 /\ 1 < Half - 1 /\ 1 <= 1 /\ 1 <= Half - 1 /\ 1 + 1 \in Nat /\ 0 < 1 + 1 /\ 1 + 1 <= 1 + 1 /\ 1 + 1 <= Half - 1 /\ 1 - 1 = 0
  BY WidthHalved
<1>2. BucketValues[0] = <<1, 2, 3>>
  BY BucketValuesDef
<1>3. PowerOf4Index(1) = 3
  <2>1. PowerOf4Index(1) = Len(BucketValues[0])
    BY <1>1 DEF PowerOf4Index
  <2>2. Len(<<1, 2, 3>>) = 3
    OBVIOUS
  <2>3. QED
    BY <1>2, <2>1, <2>2
<1>4. \A m \in 1 .. 3 : Get(m - 1) = BucketValues[0][m]
  BY <1>1, <1>3, PositionsRise
<1>5. \A m \in 1 .. 3 : Get(m - 1) = m
  <2>1. \A m \in 1 .. 3 : <<1, 2, 3>>[m] = m
    OBVIOUS
  <2>2. QED
    BY <1>2, <1>4, <2>1
<1>6. Values(1) \in Nat /\ Values(1) >= 9
  BY <1>1, ValuesAre
<1>7. /\ PowerOf4Index(1 + 1) = 3 + Values(1)
      /\ \A j \in 0 .. (Values(1) - 1) : Get(3 + j) = 4 + j * 1
  BY <1>1, <1>3, GroupPositions, PowerOf4One
<1>8. PowerOf4Index(1 + 1) <= LastIndex
  BY <1>1, PositionsRise
<1>9. LastIndex >= 12
  BY <1>6, <1>7, <1>8, LastBucket
<1>10. Get(3) = 4 /\ Get(4) = 5
  <2>1. 0 \in 0 .. (Values(1) - 1) /\ 1 \in 0 .. (Values(1) - 1)
    BY <1>6
  <2>2. Get(3 + 0) = 4 + 0 * 1 /\ Get(3 + 1) = 4 + 1 * 1
    BY <1>7, <2>1
  <2>3. QED
    BY <2>2
<1>11. Get(0) = 1 /\ Get(1) = 2 /\ Get(2) = 3
  <2>1. Get(1 - 1) = 1 /\ Get(2 - 1) = 2 /\ Get(3 - 1) = 3
    BY <1>5
  <2>2. QED
    BY <2>1
<1>12. ASSUME NEW m \in 0 .. 4 PROVE Get(m) = m + 1
  <2>1. m = 0 \/ m = 1 \/ m = 2 \/ m = 3 \/ m = 4
    OBVIOUS
  <2>2. QED
    BY <1>10, <1>11, <2>1
<1>13. QED
  BY <1>9, <1>12

\* IndexOf finds for every value a bucket of the table whose lower neighbour or
\* itself holds the value: never a lower one, and at most one too high.
THEOREM IndexNear ==
  ASSUME NEW v \in Nat, v <= MaxInteger
  PROVE  Near(v, IndexOf(v))
<1>1. LastIndex \in Nat
  BY LastBucket
<1>2. CASE v <= 4
  <2>1. IndexOf(v) = v
    BY <1>2 DEF IndexOf
  <2>2. v \in 0 .. 4 /\ v >= 2 => v - 2 \in 0 .. 4
    BY <1>2
  <2>3. Get(v) = v + 1 /\ v \in 0 .. LastIndex
    BY <1>1, <1>2, FirstBuckets
  <2>4. v >= 2 => Get(v - 2) = (v - 2) + 1
    <3>1. v >= 2 => v - 2 \in 0 .. 4
      BY <1>2
    <3>2. QED
      BY <3>1, FirstBuckets
  <2>5. QED
    BY <2>1, <2>3, <2>4 DEF Near
<1>3. CASE v > 4
  <2>1. PICK k \in 1 .. (Half - 1), q \in Nat :
           /\ k \in Nat /\ 0 < k /\ k <= Half - 1 /\ PowerOf4[k] <= v /\ v < 4 * PowerOf4[k]
           /\ q = (v - PowerOf4[k]) \div Third(k)
           /\ q * Third(k) \in Nat
           /\ PowerOf4[k] + q * Third(k) <= v
           /\ v < PowerOf4[k] + q * Third(k) + Third(k)
           /\ q <= Values(k)
           /\ IndexOf(v) = IF q + PowerOf4Index(k) >= LastIndex THEN LastIndex
                           ELSE q + PowerOf4Index(k) + 1
    BY <1>3, Position, Zenon
  <2> DEFINE p == PowerOf4[k]
             d == Third(k)
             n == Values(k)
             i == PowerOf4Index(k)
             m == LastIndex
             h == Half - 1
             x == q * d
  <2>2. /\ p \in Nat /\ d \in Nat /\ d >= 1 /\ p = 3 * d + 1
        /\ n \in Nat /\ n >= 9
        /\ h \in Nat /\ m \in Nat
    BY <2>1, PowersOf4, ValuesAre, WidthHalved, LastBucket
  <2>3. /\ i \in Nat /\ i <= m /\ i >= 3 /\ Get(i - 1) < p
    <3>1. k <= k /\ 0 < k /\ k <= h
      BY <2>1
    <3>2. QED
      BY <2>1, <3>1, PositionsRise
  <2>4. /\ x \in Nat /\ p <= v /\ p + x <= v /\ v < p + x + d /\ v < 4 * p
        /\ IndexOf(v) = IF q + i >= m THEN m ELSE q + i + 1
        /\ q <= n
    BY <2>1, Zenon
  <2>5. /\ \A j \in 0 .. m : Get(j) \in Nat
        /\ \A j, l \in 0 .. m : j < l => Get(j) < Get(l)
    BY BucketsRise
  <2>6. k < h => \A j \in 0 .. (n - 1) : Get(i + j) = p + j * d
    BY <2>1, GroupPositions
  <2>7. k < h => /\ i + n <= m /\ v < Get(i + n)
    <3> SUFFICES ASSUME k < h PROVE i + n <= m /\ v < Get(i + n)
      OBVIOUS
    <3>1. PowerOf4Index(k + 1) = i + n
      BY <2>1, GroupPositions
    <3>2. k + 1 \in Nat /\ 0 < k + 1 /\ k + 1 <= h /\ k + 1 <= k + 1
      BY <2>1, <2>2
    <3>3. PowerOf4Index(k + 1) <= m
      BY <3>2, <2>2, PositionsRise
    <3>4. PowerOf4[k + 1] = 4 * p
      BY <2>1, PowersOf4
    <3>5. CASE k + 1 < h
      <4>1. Values(k + 1) \in Nat /\ Values(k + 1) >= 9
        BY <3>2, ValuesAre
      <4>2. 0 \in 0 .. (Values(k + 1) - 1)
        BY <4>1
      <4>3. Get(PowerOf4Index(k + 1) + 0) = PowerOf4[k + 1] + 0 * Third(k + 1)
        BY <3>2, <3>5, <4>2, GroupPositions
      <4>4. Third(k + 1) \in Nat
        BY <3>2, PowersOf4
      <4> HIDE DEF p, d, n, i, m, h, x
      <4>5. Get(i + n) = 4 * p
        BY <3>1, <3>4, <4>3, <4>4, <2>2, <2>3
      <4>6. QED
        BY <2>4, <3>1, <3>3, <4>5
    <3>6. CASE k + 1 = h
      <4>1. PowerOf4Index(k + 1) = m /\ Get(m) = MaxInteger
        BY <3>6, LastBucket
      <4>2. MaxInteger = 2 * PowerOf4[h] - 1
        BY Largest
      <4> HIDE DEF p, d, n, i, m, h, x
      <4>3. Get(i + n) = 2 * (4 * p) - 1
        BY <3>1, <3>4, <3>6, <4>1, <4>2
      <4>4. QED
        BY <2>2, <2>4, <3>1, <3>3, <4>3
    <3> HIDE DEF h
    <3>7. QED
      BY <2>1, <2>2, <3>2, <3>5, <3>6
  <2>8. q >= 1 => q - 1 \in Nat /\ (q - 1) * d \in Nat /\ (q - 1) * d + d <= x
    <3>1. q >= 1 => q - 1 \in Nat /\ q - 1 < q
      BY <2>1
    <3> HIDE DEF d
    <3>2. QED
      BY <2>1, <2>2, <3>1, Multiples
  <2>9. (q + 1) * d = x + d
    <3> HIDE DEF d
    <3>1. QED
      BY <2>1, <2>2
  <2> HIDE DEF p, d, n, i, m, h, x
  <2>10. k < h \/ k = h
    BY <2>1, <2>2 DEF h
  <2>11. k = h => i = m
    BY LastBucket DEF h, i, m
  <2>12. k < h /\ q + i <= m => Get(q + i - 1) <= v
    <3> SUFFICES ASSUME k < h, q + i <= m PROVE Get(q + i - 1) <= v
      OBVIOUS
    <3>1. CASE q = 0
      <4>1. q + i - 1 = i - 1
        BY <2>3, <3>1
      <4>2. i - 1 \in 0 .. m
        BY <2>2, <2>3
      <4>3. QED
        BY <2>2, <2>3, <2>4, <2>5, <4>1, <4>2
    <3>2. CASE q # 0
      <4>1. q - 1 \in 0 .. (n - 1) /\ q + i - 1 = i + (q - 1)
        BY <2>1, <2>2, <2>3, <2>4, <3>2
      <4>2. Get(i + (q - 1)) = p + (q - 1) * d
        BY <2>6, <4>1
      <4> DEFINE y == (q - 1) * d
      <4>3. y \in Nat /\ y + d <= x /\ Get(q + i - 1) = p + y
        BY <2>1, <2>8, <3>2, <4>1, <4>2
      <4> HIDE DEF y
      <4>4. QED
        BY <2>2, <2>4, <4>3
    <3>3. QED
      BY <3>1, <3>2
  <2>13. CASE q + i >= m
    <3>1. IndexOf(v) = m
      BY <2>4, <2>13
    <3>2. Get(m - 1) <= v
      <4>1. CASE k = h
        <5>1. m - 1 \in 0 .. m
          BY <2>2, <2>3, <2>11, <4>1
        <5>2. QED
          BY <2>2, <2>3, <2>4, <2>5, <2>11, <4>1, <5>1
      <4>2. CASE k < h
        <5>1. q + i = m
          BY <2>1, <2>2, <2>3, <2>4, <2>7, <2>13, <4>2
        <5>2. QED
          <6>1. q + i - 1 = m - 1 /\ q + i <= m
            BY <2>1, <2>2, <2>3, <5>1
          <6>2. Get(q + i - 1) <= v
            BY <2>12, <4>2, <6>1
          <6>3. QED
            BY <6>1, <6>2
      <4>3. QED
        BY <2>10, <4>1, <4>2
    <3>3. m - 2 \in 0 .. m /\ m - 1 \in 0 .. m /\ m - 2 < m - 1 /\ m \in 0 .. m
      BY <2>2, <2>3
    <3>4. Get(m - 2) <= v
      <4>1. Get(m - 2) < Get(m - 1) /\ Get(m - 2) \in Nat /\ Get(m - 1) \in Nat
        BY <2>5, <3>3
      <4>2. QED
        BY <3>2, <4>1
    <3>5. QED
      BY <3>1, <3>3, <3>4 DEF Near, m
  <2>14. CASE q + i < m
    <3>1. IndexOf(v) = q + i + 1
      BY <2>1, <2>2, <2>3, <2>4, <2>14
    <3>2. q + i + 1 \in 0 .. m /\ (q + i + 1) - 2 = q + i - 1
      BY <2>1, <2>2, <2>3, <2>14
    <3>3. k < h
      BY <2>1, <2>2, <2>3, <2>10, <2>11, <2>14
    <3>4. Get((q + i + 1) - 2) <= v
      <4>1. q + i <= m
        BY <2>1, <2>2, <2>3, <2>14
      <4>2. QED
        BY <2>12, <3>2, <3>3, <4>1
    <3>5. v < Get(q + i + 1)
      <4>1. CASE q + 1 <= n - 1
        <5>1. q + 1 \in 0 .. (n - 1) /\ q + i + 1 = i + (q + 1)
          BY <2>1, <2>2, <2>3, <4>1
        <5>2. Get(i + (q + 1)) = p + (q + 1) * d
          BY <2>6, <3>3, <5>1
        <5>3. Get(q + i + 1) = p + (x + d)
          BY <2>9, <5>1, <5>2
        <5>4. QED
          BY <2>2, <2>4, <5>3
      <4>2. CASE q + 1 > n - 1
        <5>1. i + n \in 0 .. m /\ i + n <= q + i + 1
          BY <2>1, <2>2, <2>3, <2>7, <3>3, <4>2
        <5>2. v < Get(i + n)
          BY <2>7, <3>3
        <5>3. i + n = q + i + 1 \/ i + n < q + i + 1
          BY <2>1, <2>2, <2>3, <5>1
        <5>4. Get(i + n) <= Get(q + i + 1) /\ Get(i + n) \in Nat /\ Get(q + i + 1) \in Nat
          BY <2>5, <3>2, <5>1, <5>3
        <5>5. QED
          BY <5>2, <5>4
      <4>3. QED
        BY <2>1, <2>2, <4>1, <4>2
    <3>6. QED
      BY <3>1, <3>2, <3>4, <3>5 DEF Near, m
  <2>15. QED
    BY <2>1, <2>2, <2>3, <2>13, <2>14
<1>4. QED
  BY <1>2, <1>3

\* A greater value is never put into a lower bucket, so the order of the values
\* is that of their buckets.
THEOREM IndexRises ==
  ASSUME NEW v \in Int, NEW w \in Int, v <= w, w <= MaxInteger
  PROVE  IndexOf(v) \in 0 .. LastIndex /\ IndexOf(w) \in 0 .. LastIndex /\ IndexOf(v) <= IndexOf(w)
<1> DEFINE m == LastIndex
<1>0. MaxInteger \in Nat
  BY Largest
<1>1. m \in Nat /\ m >= 12
  BY LastBucket, FirstBuckets
<1>2. \A u \in Int : u <= MaxInteger => IndexOf(u) \in 0 .. m
  <2> SUFFICES ASSUME NEW u \in Int, u <= MaxInteger PROVE IndexOf(u) \in 0 .. m
    OBVIOUS
  <2>1. CASE u <= 0
    BY <1>1, <2>1 DEF IndexOf
  <2>2. CASE ~(u <= 0)
    <3>1. u \in Nat
      BY <2>2
    <3>2. QED
      BY <3>1, IndexNear DEF Near
  <2>3. QED
    BY <2>1, <2>2
<1>3. \A u \in Int : u <= 0 => IndexOf(u) = 0
  BY DEF IndexOf
<1>4. \A u \in Int : 0 < u /\ u <= 4 => IndexOf(u) = u
  <2> SUFFICES ASSUME NEW u \in Int, 0 < u, u <= 4 PROVE IndexOf(u) = u
    OBVIOUS
  <2>1. ~(u <= 0)
    OBVIOUS
  <2>2. QED
    BY <2>1, Zenon DEF IndexOf
<1> DEFINE Found(u, k, q) ==
           /\ k \in Nat /\ 0 < k /\ k <= Half - 1 /\ PowerOf4[k] <= u /\ u < 4 * PowerOf4[k]
           /\ q = (u - PowerOf4[k]) \div Third(k)
           /\ q \in Nat /\ q <= Values(k)
           /\ IndexOf(u) = IF q + PowerOf4Index(k) >= m THEN m
                           ELSE q + PowerOf4Index(k) + 1
<1>5. ASSUME NEW u \in Int, 4 < u, u <= MaxInteger
      PROVE  \E k, q : Found(u, k, q)
  <2>1. u \in Nat /\ u > 4
    BY <1>5
  <2>2. QED
    BY <1>5, <2>1, Position, Zenon
<1>6. ASSUME NEW u \in Int, 4 < u, u <= MaxInteger
      PROVE  IndexOf(u) >= 4
  <2>1. PICK k, q : Found(u, k, q)
    BY <1>5, <1>6
  <2>2. Half - 1 \in Nat /\ k <= k
    BY WidthHalved, <2>1
  <2>3. PowerOf4Index(k) \in Nat /\ PowerOf4Index(k) >= 3
    BY <2>1, <2>2, PositionsRise
  <2>4. QED
    BY <1>1, <2>1, <2>3
<1>7. ASSUME 4 < v
      PROVE  IndexOf(v) <= IndexOf(w)
  <2>1. 4 < w /\ v <= MaxInteger
    BY <1>0, <1>7
  <2>2. PICK k, q : Found(v, k, q)
    BY <1>5, <1>7, <2>1
  <2>3. PICK l, r : Found(w, l, r)
    BY <1>5, <2>1
  <2> DEFINE i == PowerOf4Index(k)
             j == PowerOf4Index(l)
             p == PowerOf4[k]
             d == Third(k)
             pp == PowerOf4[l]
             n == Values(k)
             h == Half - 1
  <2>4. /\ p \in Nat /\ pp \in Nat /\ d \in Nat /\ d >= 1 /\ h \in Nat /\ n \in Nat
    BY <2>2, <2>3, PowersOf4, ValuesAre, WidthHalved
  <2>5. i \in Nat /\ j \in Nat
    <3>1. k <= k /\ l <= l
      BY <2>2, <2>3
    <3>2. QED
      BY <2>2, <2>3, <3>1, <2>4, PositionsRise
  <2>6. /\ IndexOf(v) = IF q + i >= m THEN m ELSE q + i + 1
        /\ IndexOf(w) = IF r + j >= m THEN m ELSE r + j + 1
        /\ q \in Nat /\ r \in Nat
    BY <2>2, <2>3, Zenon
  <2>7. q + i <= r + j
    <3>1. CASE k = l
      <4>1. p <= v /\ q = (v - p) \div d /\ r = (w - p) \div d
        BY <2>2, <2>3, <3>1
      <4>2. v - p \in Nat /\ w - p \in Nat /\ v - p <= w - p /\ d \in Nat \ {0}
        BY <2>4, <4>1
      <4> HIDE DEF p, d
      <4>3. q <= r
        BY <4>1, <4>2, DivisionIsMonotone
      <4>4. i = j
        BY <3>1
      <4>5. QED
        BY <2>5, <2>6, <4>3, <4>4
    <3>2. CASE k < l
      <4>1. k + 1 \in Nat /\ 0 < k + 1 /\ k + 1 <= l /\ k < h
        BY <2>2, <2>3, <2>4, <3>2
      <4>2. PowerOf4Index(k + 1) = i + n
        BY <2>2, <4>1, GroupPositions
      <4>3. PowerOf4Index(k + 1) <= j
        BY <2>3, <4>1, PositionsRise
      <4>4. q <= n
        BY <2>2
      <4> HIDE DEF i, j, n
      <4>5. QED
        BY <2>4, <2>5, <2>6, <4>2, <4>3, <4>4
    <3>3. CASE l < k
      <4>1. 4 * pp <= p
        BY <2>2, <2>3, <3>3, PowersRise
      <4>2. w < 4 * pp /\ p <= v
        BY <2>2, <2>3
      <4> HIDE DEF p, pp
      <4>3. QED
        BY <2>4, <4>1, <4>2
    <3>4. QED
      BY <2>2, <2>3, <3>1, <3>2, <3>3
  <2> HIDE DEF i, j, m
  <2>8. QED
    BY <1>1, <2>5, <2>6, <2>7
<1>8. IndexOf(v) <= IndexOf(w)
  <2>1. v <= MaxInteger
    BY <1>0
  <2>2. IndexOf(v) \in Int /\ IndexOf(w) \in Nat
    BY <1>1, <1>2, <2>1
  <2>3. CASE v <= 0
    BY <1>3, <2>2, <2>3
  <2>4. CASE 0 < v /\ w <= 4
    BY <1>4, <2>4
  <2>5. CASE 0 < v /\ v <= 4 /\ 4 < w
    <3>1. IndexOf(v) = v /\ IndexOf(w) >= 4
      BY <1>4, <1>6, <2>5
    <3>2. QED
      BY <2>2, <2>5, <3>1
  <2>6. QED
    BY <1>7, <2>3, <2>4, <2>5
<1>9. v <= MaxInteger
  BY <1>0
<1>10. QED
  BY <1>2, <1>8, <1>9

-----------------------------------------------------------------------------
(* Percentiles *)

\* The places of recorded whose bucket is i, and those whose bucket is at most i.
In(i) == {j \in 1 .. Len(recorded) : IndexOf(recorded[j]) = i}
UpTo(i) == {j \in 1 .. Len(recorded) : IndexOf(recorded[j]) <= i}

PercentileIInv ==
  /\ recorded \in Seq(-1 .. MaxInteger)
  /\ DOMAIN counts = 0 .. LastIndex
  /\ \A i \in 0 .. LastIndex : counts[i] = Cardinality(In(i))

LEMMA Places ==
  ASSUME NEW S, S \subseteq 1 .. Len(recorded), recorded \in Seq(-1 .. MaxInteger)
  PROVE  /\ Len(recorded) \in Nat /\ IsFiniteSet(S)
         /\ Cardinality(S) \in Nat /\ Cardinality(S) <= Len(recorded)
         /\ S # {} <=> Cardinality(S) # 0
         /\ Cardinality(1 .. Len(recorded)) = Len(recorded)
<1> DEFINE n == Len(recorded)
<1>1. n \in Nat
  OBVIOUS
<1> HIDE DEF n
<1>2. IsFiniteSet(1 .. n) /\ Cardinality(1 .. n) = n
  <2>1. 1 \in Int /\ n \in Int
    BY <1>1
  <2>2. IsFiniteSet(1 .. n) /\ Cardinality(1 .. n) = IF 1 > n THEN 0 ELSE n - 1 + 1
    BY <2>1, FS_Interval
  <2>3. QED
    BY <1>1, <2>2
<1>3. S \in SUBSET (1 .. n)
  BY DEF n
<1>4. IsFiniteSet(S) /\ Cardinality(S) <= Cardinality(1 .. n)
  BY <1>2, <1>3, FS_Subset
<1>5. Cardinality(S) \in Nat /\ (S # {} <=> Cardinality(S) # 0)
  BY <1>4, FS_CardinalityType, FS_EmptySet
<1>6. QED
  BY <1>1, <1>2, <1>4, <1>5 DEF n

LEMMA SmallerSets ==
  ASSUME NEW S, NEW T, S \subseteq T, T \subseteq 1 .. Len(recorded), recorded \in Seq(-1 .. MaxInteger)
  PROVE  /\ Cardinality(S) \in Nat /\ Cardinality(T) \in Nat
         /\ Cardinality(S) <= Cardinality(T)
<1>1. S \subseteq 1 .. Len(recorded) /\ S \in SUBSET T
  OBVIOUS
<1>2. IsFiniteSet(T) /\ Cardinality(S) \in Nat /\ Cardinality(T) \in Nat
  BY <1>1, Places
<1>3. QED
  BY <1>1, <1>2, FS_Subset

LEMMA RecordedAre ==
  ASSUME recorded \in Seq(-1 .. MaxInteger), NEW j \in 1 .. Len(recorded)
  PROVE  /\ recorded[j] \in Int /\ -1 <= recorded[j] /\ recorded[j] <= MaxInteger
         /\ IndexOf(recorded[j]) \in 0 .. LastIndex
         /\ IndexOf(recorded[j]) \in Int
<1>1. MaxInteger \in Nat /\ LastIndex \in Nat
  BY Largest, LastBucket
<1>2. recorded[j] \in -1 .. MaxInteger
  <2> DEFINE V == -1 .. MaxInteger
  <2>1. recorded \in Seq(V)
    OBVIOUS
  <2> HIDE DEF V
  <2>2. recorded[j] \in V
    BY <2>1
  <2>3. QED
    BY <2>2 DEF V
<1>3. recorded[j] \in Int /\ -1 <= recorded[j] /\ recorded[j] <= MaxInteger /\ recorded[j] <= recorded[j]
  BY <1>1, <1>2
<1>4. IndexOf(recorded[j]) \in 0 .. LastIndex
  BY <1>3, IndexRises
<1>5. QED
  BY <1>1, <1>3, <1>4

\* The next bucket adds its own values to those counted so far.
LEMMA CountsStep ==
  ASSUME recorded \in Seq(-1 .. MaxInteger), NEW i \in Nat, i <= LastIndex
  PROVE  /\ Cardinality(UpTo(i)) = Cardinality(UpTo(i - 1)) + Cardinality(In(i))
         /\ Cardinality(UpTo(i - 1)) \in Nat /\ Cardinality(In(i)) \in Nat
<1> DEFINE S == UpTo(i - 1)
           T == In(i)
<1>1. S \subseteq 1 .. Len(recorded) /\ T \subseteq 1 .. Len(recorded)
  BY DEF UpTo, In
<1>2. IsFiniteSet(S) /\ IsFiniteSet(T) /\ Cardinality(S) \in Nat /\ Cardinality(T) \in Nat
  BY <1>1, Places
<1>3. \A j \in 1 .. Len(recorded) : IndexOf(recorded[j]) \in Int
  BY RecordedAre
<1>4. S \cap T = {}
  BY <1>3 DEF UpTo, In
<1>5. UpTo(i) = S \cup T
  BY <1>3 DEF UpTo, In
<1> HIDE DEF S, T
<1>6. Cardinality(S \cup T) = Cardinality(S) + Cardinality(T) - Cardinality(S \cap T)
  BY <1>2, FS_Union
<1>7. Cardinality(S \cup T) = Cardinality(S) + Cardinality(T)
  <2>1. Cardinality(S \cap T) = 0
    BY <1>4, FS_EmptySet, Zenon
  <2>2. QED
    BY <1>2, <1>6, <2>1
<1>8. QED
  BY <1>2, <1>5, <1>7 DEF S, T

IsCountUpTo(f) == f = [i \in -1 .. LastIndex |-> IF i = -1 THEN 0 ELSE f[i - 1] + counts[i]]

\* The running total is the number of values in the buckets so far.
LEMMA CountUpToIs ==
  ASSUME PercentileIInv
  PROVE  \A i \in -1 .. LastIndex : CountUpTo[i] = Cardinality(UpTo(i))
<1> DEFINE m == LastIndex
           f == [i \in -1 .. m |-> Cardinality(UpTo(i))]
<1>1. m \in Nat /\ recorded \in Seq(-1 .. MaxInteger)
  BY LastBucket DEF PercentileIInv
<1> HIDE DEF m
<1>2. UpTo(-1) = {}
  <2>1. \A j \in 1 .. Len(recorded) : IndexOf(recorded[j]) \in 0 .. m
    BY <1>1, RecordedAre DEF m
  <2>2. \A j \in 1 .. Len(recorded) : ~(IndexOf(recorded[j]) <= -1)
    BY <1>1, <2>1
  <2>3. QED
    BY <2>2 DEF UpTo
<1>3. \A i \in 0 .. m : Cardinality(UpTo(i)) = Cardinality(UpTo(i - 1)) + counts[i]
  <2> SUFFICES ASSUME NEW i \in 0 .. m
               PROVE  Cardinality(UpTo(i)) = Cardinality(UpTo(i - 1)) + counts[i]
    OBVIOUS
  <2>1. i \in Nat /\ i <= LastIndex
    BY <1>1 DEF m
  <2>2. counts[i] = Cardinality(In(i))
    BY DEF PercentileIInv, m
  <2>3. QED
    BY <1>1, <2>1, <2>2, CountsStep
<1>4. \A i \in -1 .. m : i = -1 \/ (i \in 0 .. m /\ i - 1 \in -1 .. m)
  BY <1>1
<1>5. IsCountUpTo(f)
  <2>1. ASSUME NEW i \in -1 .. m
        PROVE  Cardinality(UpTo(i)) = IF i = -1 THEN 0 ELSE f[i - 1] + counts[i]
    <3>1. CASE i = -1
      BY <1>2, <3>1, FS_EmptySet
    <3>2. CASE i # -1
      <4>1. i \in 0 .. m /\ i - 1 \in -1 .. m
        BY <1>4, <3>2
      <4>2. f[i - 1] = Cardinality(UpTo(i - 1))
        BY <4>1
      <4>3. Cardinality(UpTo(i)) = Cardinality(UpTo(i - 1)) + counts[i]
        BY <1>3, <4>1
      <4> HIDE DEF f
      <4>4. QED
        BY <3>2, <4>2, <4>3, Zenon
    <3>3. QED
      BY <3>1, <3>2
  <2>2. f = [i \in -1 .. m |-> IF i = -1 THEN 0 ELSE f[i - 1] + counts[i]]
    <3> DEFINE c(i) == IF i = -1 THEN 0 ELSE f[i - 1] + counts[i]
    <3>1. \A i \in -1 .. m : Cardinality(UpTo(i)) = c(i)
      BY <2>1, Zenon
    <3> HIDE DEF c
    <3>2. [i \in -1 .. m |-> Cardinality(UpTo(i))] = [i \in -1 .. m |-> c(i)]
      BY <3>1, Zenon
    <3>3. QED
      BY <3>2, Zenon DEF c
  <2> HIDE DEF f
  <2>3. QED
    BY <2>2, Zenon DEF IsCountUpTo, m
<1>6. CountUpTo = CHOOSE g : IsCountUpTo(g)
  BY Zenon DEF CountUpTo, IsCountUpTo
<1>7. IsCountUpTo(CountUpTo)
  <2> HIDE DEF f
  <2>1. QED
    BY <1>5, <1>6, Zenon
<1> DEFINE C == CountUpTo
<1>8. C = [i \in -1 .. m |-> IF i = -1 THEN 0 ELSE C[i - 1] + counts[i]]
  BY <1>7, Zenon DEF IsCountUpTo, m
<1>9. \A i \in -1 .. m : C[i] = IF i = -1 THEN 0 ELSE C[i - 1] + counts[i]
  <2> HIDE DEF C
  <2>1. QED
    BY <1>8, Zenon
<1> HIDE DEF C
<1> DEFINE T == {n \in Nat : n <= m + 1 => C[n - 1] = Cardinality(UpTo(n - 1))}
<1>10. 0 \in T
  <2>1. 0 - 1 = -1 /\ -1 \in -1 .. m
    BY <1>1
  <2>2. C[-1] = 0
    BY <1>9, <2>1
  <2>3. QED
    BY <1>2, <2>1, <2>2, FS_EmptySet
<1>11. ASSUME NEW n \in Nat, n \in T
       PROVE  n + 1 \in T
  <2> SUFFICES ASSUME n + 1 <= m + 1
               PROVE  C[(n + 1) - 1] = Cardinality(UpTo((n + 1) - 1))
    OBVIOUS
  <2>1. (n + 1) - 1 = n /\ n \in 0 .. m /\ n \in -1 .. m /\ n # -1 /\ n <= m + 1
    BY <1>1
  <2>2. C[n - 1] = Cardinality(UpTo(n - 1))
    BY <1>11, <2>1
  <2>3. C[n] = C[n - 1] + counts[n]
    BY <1>9, <2>1
  <2>4. Cardinality(UpTo(n)) = Cardinality(UpTo(n - 1)) + counts[n]
    BY <1>3, <2>1
  <2>5. QED
    BY <2>1, <2>2, <2>3, <2>4, Zenon
<1> HIDE DEF T
<1>12. \A n \in Nat : n \in T
  BY <1>10, <1>11, Induction
<1>13. ASSUME NEW i \in -1 .. m
       PROVE  C[i] = Cardinality(UpTo(i))
  <2>1. i + 1 \in Nat /\ i + 1 <= m + 1 /\ (i + 1) - 1 = i
    BY <1>1
  <2>2. C[(i + 1) - 1] = Cardinality(UpTo((i + 1) - 1))
    BY <1>12, <2>1 DEF T
  <2>3. QED
    BY <2>1, <2>2, Zenon
<1>14. QED
  BY <1>13 DEF C, m

LEMMA PercentileInitially == PercentileInit => PercentileIInv
<1> SUFFICES ASSUME PercentileInit PROVE PercentileIInv
  OBVIOUS
<1>1. recorded \in Seq(-1 .. MaxInteger) /\ Len(recorded) = 0
  BY DEF PercentileInit
<1>2. counts = [i \in 0 .. LastIndex |-> 0]
  BY DEF PercentileInit
<1>3. \A i : In(i) = {}
  BY <1>1 DEF In
<1>4. \A i : Cardinality(In(i)) = 0
  BY <1>3, FS_EmptySet, Zenon
<1>5. DOMAIN counts = 0 .. LastIndex /\ \A i \in 0 .. LastIndex : counts[i] = Cardinality(In(i))
  BY <1>2, <1>4, Zenon
<1>6. QED
  BY <1>1, <1>5 DEF PercentileIInv

LEMMA PercentileStep ==
  ASSUME PercentileIInv, [PercentileNext]_percentileVars
  PROVE  PercentileIInv'
<1>1. CASE UNCHANGED percentileVars
  BY <1>1 DEF percentileVars, PercentileIInv, In
<1>2. ASSUME NEW v \in -1 .. MaxInteger, RecordValue(v)
      PROVE  PercentileIInv'
  <2> DEFINE n == Len(recorded)
             x == IndexOf(v)
             V == -1 .. MaxInteger
             m == LastIndex
  <2>1. recorded \in Seq(V) /\ v \in V /\ recorded' = Append(recorded, v)
    BY <1>2 DEF PercentileIInv, RecordValue
  <2>2. counts' = [counts EXCEPT ![x] = counts[x] + 1]
    BY <1>2 DEF RecordValue
  <2>3. x \in 0 .. m
    <3>1. MaxInteger \in Nat
      BY Largest
    <3>2. v \in Int /\ v <= v /\ v <= MaxInteger
      BY <3>1
    <3>3. QED
      BY <3>2, IndexRises
  <2>4. DOMAIN counts = 0 .. m /\ \A i \in 0 .. m : counts[i] = Cardinality(In(i))
    BY DEF PercentileIInv
  <2> HIDE DEF x, V, m
  <2>5. /\ recorded' \in Seq(V) /\ n \in Nat /\ Len(recorded') = n + 1
        /\ \A j \in 1 .. n : recorded'[j] = recorded[j]
        /\ recorded'[n + 1] = v
    BY <2>1
  <2> HIDE DEF n
  <2>6. 1 .. Len(recorded') = (1 .. n) \cup {n + 1} /\ n + 1 \notin 1 .. n
    BY <2>5
  <2>7. ASSUME NEW i \in 0 .. m
        PROVE  counts'[i] = Cardinality(In(i)')
    <3> DEFINE S == In(i)
    <3>1. S \subseteq 1 .. n
      BY DEF In, n
    <3>2. IsFiniteSet(S) /\ Cardinality(S) \in Nat
      <4>1. recorded \in Seq(-1 .. MaxInteger)
        BY <2>1 DEF V
      <4>2. QED
        BY <3>1, <4>1, Places DEF n
    <3>3. S = {j \in 1 .. n : IndexOf(recorded[j]) = i}
      BY DEF In, n
    <3>4. In(i)' = {j \in 1 .. Len(recorded') : IndexOf(recorded'[j]) = i}
      BY DEF In
    <3>5. In(i)' = IF i = x THEN S \cup {n + 1} ELSE S
      BY <2>5, <2>6, <3>3, <3>4 DEF x
    <3> HIDE DEF S
    <3>6. n + 1 \notin S
      BY <2>6, <3>1
    <3>7. Cardinality(S \cup {n + 1}) = Cardinality(S) + 1
      BY <3>2, <3>6, FS_AddElement
    <3>8. counts[i] = Cardinality(S)
      BY <2>4 DEF S
    <3>9. counts'[i] = IF i = x THEN counts[i] + 1 ELSE counts[i]
      BY <2>2, <2>4
    <3>10. CASE i = x
      <4>1. In(i)' = S \cup {n + 1}
        BY <3>5, <3>10
      <4>2. counts'[i] = Cardinality(S) + 1
        BY <3>8, <3>9, <3>10
      <4>3. QED
        BY <3>7, <4>1, <4>2
    <3>11. CASE i # x
      <4>1. In(i)' = S
        BY <3>5, <3>11
      <4>2. counts'[i] = Cardinality(S)
        BY <3>8, <3>9, <3>11
      <4>3. QED
        BY <4>1, <4>2
    <3>12. QED
      BY <3>10, <3>11
  <2>8. DOMAIN counts' = 0 .. m
    BY <2>2, <2>4
  <2>9. QED
    BY <2>5, <2>7, <2>8 DEF PercentileIInv, V, m
<1>3. QED
  BY <1>1, <1>2 DEF PercentileNext

\* The counters are those of the values recorded, bucket by bucket.
THEOREM PercentileInvariant == PercentileSpec => []PercentileIInv
<1>1. PercentileInit => PercentileIInv
  BY PercentileInitially
<1>2. PercentileIInv /\ [PercentileNext]_percentileVars => PercentileIInv'
  BY PercentileStep
<1>3. QED
  BY <1>1, <1>2, PTL DEF PercentileSpec

\* The places of the values below x, and of those not above x.
Below(x) == {j \in 1 .. Len(recorded) : recorded[j] < x}
AtMost(x) == {j \in 1 .. Len(recorded) : recorded[j] <= x}

IsRank(r, p) == 100 * r >= p * Len(recorded) /\ 100 * (r - 1) < p * Len(recorded)

\* A percentage of n values has a rank.
LEMMA Ranks ==
  ASSUME NEW n \in Nat \ {0}, NEW p \in 1 .. 100
  PROVE  /\ p * n \in Nat
         /\ \E r \in 1 .. n : 100 * r >= p * n /\ 100 * (r - 1) < p * n
<1> DEFINE y == p * n
           S == {r \in Nat : 100 * r >= y}
<1>1. y \in Nat /\ y >= 1 /\ y <= 100 * n
  <2>1. n * p \in Nat /\ n * 100 \in Nat /\ y = n * p
    OBVIOUS
  <2>2. p < 100 => n * p + n <= n * 100
    BY ProductsRise
  <2>3. n * 0 + n <= n * p
    BY ProductsRise
  <2> DEFINE z == n * p
  <2>4. z \in Nat /\ y = z /\ (p < 100 => z + n <= n * 100) /\ (p = 100 => z = n * 100) /\ n <= z
    BY <2>1, <2>2, <2>3
  <2> HIDE DEF z, y
  <2>5. QED
    BY <2>4
<1> HIDE DEF y
<1>2. n \in S
  BY <1>1
<1>3. PICK r \in S : \A k \in S : r <= k
  <2>1. S \in SUBSET Nat /\ S # {}
    BY <1>2
  <2> HIDE DEF S
  <2>2. QED
    BY <2>1, Least
<1>4. r \in Nat /\ r <= n /\ 100 * r >= y /\ r # 0
  BY <1>1, <1>2, <1>3
<1>5. 100 * (r - 1) < y
  <2>1. r - 1 \in Nat /\ ~(r <= r - 1)
    BY <1>4
  <2>2. ~(100 * (r - 1) >= y)
    BY <1>3, <2>1
  <2>3. QED
    BY <1>1, <2>1, <2>2
<1>6. r \in 1 .. n
  BY <1>4
<1>7. QED
  BY <1>1, <1>4, <1>5, <1>6 DEF y

LEMMA Greatest ==
  ASSUME NEW T, T \subseteq Int, T # {}, NEW b \in Int, \A x \in T : x <= b
  PROVE  \E y \in T : \A x \in T : x <= y
<1> DEFINE S == {n \in Nat : b - n \in T}
<1>1. S # {}
  <2>1. PICK x \in T : TRUE
    OBVIOUS
  <2>2. b - x \in Nat /\ b - (b - x) = x
    BY <2>1
  <2>3. QED
    BY <2>1, <2>2
<1>2. PICK n \in S : \A k \in S : n <= k
  <2>1. S \in SUBSET Nat
    OBVIOUS
  <2> HIDE DEF S
  <2>2. QED
    BY <1>1, <2>1, Least
<1>3. \A x \in T : x <= b - n
  <2> SUFFICES ASSUME NEW x \in T PROVE x <= b - n
    OBVIOUS
  <2>1. b - x \in Nat /\ b - (b - x) = x
    OBVIOUS
  <2>2. n <= b - x
    BY <1>2, <2>1
  <2>3. QED
    BY <1>2, <2>2
<1>4. QED
  BY <1>2, <1>3

\* The value of a rank.
LEMMA RankedValue ==
  ASSUME PercentileIInv, NEW rank \in 1 .. Len(recorded)
  PROVE  \E j \in 1 .. Len(recorded) :
           /\ Cardinality(Below(recorded[j])) < rank
           /\ Cardinality(AtMost(recorded[j])) >= rank
<1> DEFINE n == Len(recorded)
           M == MaxInteger
           R == {recorded[j] : j \in 1 .. n}
<1>1. recorded \in Seq(-1 .. M) /\ n \in Nat /\ rank \in Nat /\ 1 <= rank /\ rank <= n
  BY DEF PercentileIInv
<1>2. \A j \in 1 .. n : recorded[j] \in Int /\ -1 <= recorded[j] /\ recorded[j] <= M
  BY <1>1, RecordedAre
<1>3. M \in Int
  BY Largest
<1>4. \A x : /\ Cardinality(Below(x)) \in Nat /\ Cardinality(AtMost(x)) \in Nat
             /\ Below(x) # {} <=> Cardinality(Below(x)) # 0
  <2> SUFFICES ASSUME NEW x
               PROVE  /\ Cardinality(Below(x)) \in Nat /\ Cardinality(AtMost(x)) \in Nat
                      /\ Below(x) # {} <=> Cardinality(Below(x)) # 0
    OBVIOUS
  <2>1. Below(x) \subseteq 1 .. Len(recorded) /\ AtMost(x) \subseteq 1 .. Len(recorded)
    BY DEF Below, AtMost
  <2>2. QED
    BY <1>1, <2>1, Places
<1> HIDE DEF M, n
<1>5. R \subseteq Int /\ \A x \in R : x <= M
  BY <1>2
<1> DEFINE Q == {x \in R : Cardinality(AtMost(x)) >= rank}
<1>6. Q # {}
  <2>1. 1 \in 1 .. n
    BY <1>1
  <2>2. R # {}
    BY <2>1
  <2>3. PICK y \in R : \A x \in R : x <= y
    <3> HIDE DEF R
    <3>1. QED
      BY <1>3, <1>5, <2>2, Greatest
  <2>4. AtMost(y) = 1 .. n
    BY <2>3 DEF AtMost, n
  <2>5. Cardinality(1 .. n) = n
    <3>1. 1 .. Len(recorded) \subseteq 1 .. Len(recorded)
      OBVIOUS
    <3>2. QED
      BY <1>1, <3>1, Places DEF n, M
  <2>6. y \in Q
    BY <1>1, <2>4, <2>5
  <2>7. QED
    BY <2>6
<1> DEFINE S == {k \in Nat : k - 1 \in Q}
<1>7. PICK k \in S : \A l \in S : k <= l
  <2>1. S \in SUBSET Nat
    OBVIOUS
  <2>2. S # {}
    <3>1. PICK x \in Q : TRUE
      BY <1>6
    <3>2. x \in Int /\ -1 <= x
      BY <1>2, <3>1
    <3> HIDE DEF Q
    <3>3. x + 1 \in Nat /\ (x + 1) - 1 = x
      BY <3>2
    <3>4. x + 1 \in S
      BY <3>1, <3>3
    <3>5. QED
      BY <3>4
  <2> HIDE DEF S
  <2>3. QED
    BY <2>1, <2>2, Least
<1> DEFINE x == k - 1
<1>8. x \in Q /\ x \in Int
  BY <1>7
<1>9. \A y \in Q : x <= y
  <2> SUFFICES ASSUME NEW y \in Q PROVE x <= y
    OBVIOUS
  <2>1. y \in Int /\ -1 <= y
    BY <1>2
  <2> HIDE DEF Q
  <2>2. y + 1 \in Nat /\ (y + 1) - 1 = y
    BY <2>1
  <2>3. k <= y + 1 /\ k \in Nat
    BY <1>7, <2>2
  <2>4. QED
    BY <2>1, <2>3
<1> HIDE DEF x, S
<1>10. Cardinality(Below(x)) < rank
  <2> SUFFICES ASSUME ~(Cardinality(Below(x)) < rank) PROVE FALSE
    OBVIOUS
  <2>1. Cardinality(Below(x)) \in Nat /\ Cardinality(Below(x)) # 0 /\ Cardinality(Below(x)) >= rank
    BY <1>1, <1>4
  <2>2. Below(x) # {}
    BY <1>4, <2>1
  <2> DEFINE L == {y \in R : y < x}
  <2>3. L # {}
    BY <2>2 DEF Below, n
  <2>4. L \subseteq Int /\ \A y \in L : y <= M
    BY <1>5
  <2>5. PICK y \in L : \A z \in L : z <= y
    <3> HIDE DEF L
    <3>1. QED
      BY <1>3, <2>3, <2>4, Greatest
  <2>6. y \in R /\ y < x /\ \A z \in R : z < x => z <= y
    BY <2>5
  <2>7. Below(x) \subseteq AtMost(y)
    BY <2>6 DEF Below, AtMost, n
  <2>8. Cardinality(Below(x)) <= Cardinality(AtMost(y))
    <3>1. AtMost(y) \subseteq 1 .. Len(recorded)
      BY DEF AtMost
    <3>2. QED
      BY <1>1, <2>7, <3>1, SmallerSets DEF M
  <2>9. Cardinality(AtMost(y)) >= rank
    BY <1>1, <1>4, <2>1, <2>8
  <2>10. y \in Q
    BY <2>6, <2>9
  <2>11. y \in Int
    BY <1>5, <2>6
  <2>12. x <= y
    BY <1>9, <2>10
  <2> HIDE DEF Q, R, L
  <2>13. QED
    BY <1>8, <2>6, <2>11, <2>12
<1>11. PICK j \in 1 .. n : x = recorded[j]
  BY <1>8
<1>12. Cardinality(AtMost(x)) >= rank
  BY <1>8
<1>13. QED
  BY <1>10, <1>11, <1>12 DEF n

LEMMA TimesRises ==
  ASSUME NEW a \in Nat, NEW b \in Nat, NEW c \in Nat, a <= b
  PROVE  a * c \in Nat /\ b * c \in Nat /\ a * c <= b * c
<1>1. b - a \in Nat /\ b = a + (b - a)
  OBVIOUS
<1>2. PICK e \in Nat : b = a + e
  BY <1>1
<1>3. b * c = a * c + e * c
  BY <1>2
<1>4. a * c \in Nat /\ e * c \in Nat /\ b * c \in Nat
  OBVIOUS
<1>5. QED
  BY <1>3, <1>4

\* A point of the interval from low to high is between them.
LEMMA Interpolated ==
  ASSUME NEW a \in Nat, NEW c \in Nat, NEW low \in Nat, NEW below \in Nat, NEW high \in Nat,
         a <= 100 * c, low <= below, below <= high
  PROVE  /\ low * (100 * c) <= a * (high - below) + 100 * c * below
         /\ a * (high - below) + 100 * c * below <= high * (100 * c)
<1> DEFINE d == 100 * c
<1>1. d \in Nat /\ a <= d
  OBVIOUS
<1> HIDE DEF d
<1>2. PICK w \in Nat : high - below = w /\ high = below + w
  <2>1. high - below \in Nat /\ high = below + (high - below)
    OBVIOUS
  <2>2. QED
    BY <2>1
<1>3. low * d \in Nat /\ below * d \in Nat /\ low * d <= below * d
  BY <1>1, TimesRises
<1>4. a * w \in Nat /\ d * w \in Nat /\ a * w <= d * w
  BY <1>1, TimesRises
<1>5. high * d = below * d + d * w /\ d * below = below * d
  BY <1>1, <1>2
<1>6. low * d <= a * w + d * below /\ a * w + d * below <= high * d
  <2> DEFINE x == low * d
             y == below * d
             z == a * w
             u == d * w
  <2>1. x \in Nat /\ y \in Nat /\ z \in Nat /\ u \in Nat /\ x <= y /\ z <= u
        /\ high * d = y + u /\ d * below = y
    BY <1>3, <1>4, <1>5
  <2> HIDE DEF x, y, z, u
  <2>2. x <= z + y /\ z + y <= y + u
    BY <2>1
  <2>3. QED
    BY <2>1, <2>2 DEF x, z
<1>7. QED
  BY <1>2, <1>6 DEF d

LEMMA CountsRise ==
  ASSUME PercentileIInv, NEW i \in -1 .. LastIndex, NEW j \in -1 .. LastIndex, i <= j
  PROVE  CountUpTo[i] \in Nat /\ CountUpTo[j] \in Nat /\ CountUpTo[i] <= CountUpTo[j]
<1>1. recorded \in Seq(-1 .. MaxInteger) /\ LastIndex \in Nat
  BY LastBucket DEF PercentileIInv
<1>2. CountUpTo[i] = Cardinality(UpTo(i)) /\ CountUpTo[j] = Cardinality(UpTo(j))
  BY CountUpToIs
<1>3. \A k \in 1 .. Len(recorded) : IndexOf(recorded[k]) \in Int
  BY <1>1, RecordedAre
<1>4. UpTo(i) \subseteq UpTo(j) /\ UpTo(j) \subseteq 1 .. Len(recorded)
  BY <1>1, <1>3 DEF UpTo
<1>5. QED
  BY <1>1, <1>2, <1>4, SmallerSets

\* The bucket of the value of a rank is the one the percentile is taken from.
IsBucketOf(i, p) ==
  /\ 100 * CountUpTo[i - 1] < p * CountUpTo[LastIndex]
  /\ p * CountUpTo[LastIndex] <= 100 * CountUpTo[i]

LEMMA BucketOfRank ==
  ASSUME PercentileIInv, NEW p \in 1 .. 100, NEW rank \in 1 .. Len(recorded), IsRank(rank, p),
         NEW x \in Int, x <= MaxInteger,
         Cardinality(Below(x)) < rank, Cardinality(AtMost(x)) >= rank
  PROVE  /\ IsBucketOf(IndexOf(x), p)
         /\ \A i \in 0 .. LastIndex : IsBucketOf(i, p) => i = IndexOf(x)
         /\ p * CountUpTo[LastIndex] \in Nat
<1> DEFINE n == Len(recorded)
           m == LastIndex
           i == IndexOf(x)
<1>1. recorded \in Seq(-1 .. MaxInteger) /\ m \in Nat /\ n \in Nat /\ rank \in Nat /\ n >= 1
  BY LastBucket DEF PercentileIInv
<1>2. i \in 0 .. m
  <2>1. x <= x
    OBVIOUS
  <2>2. QED
    BY <2>1, IndexRises
<1>3. i \in -1 .. m /\ i - 1 \in -1 .. m /\ m \in -1 .. m
  BY <1>1, <1>2
<1>4. /\ CountUpTo[i] = Cardinality(UpTo(i)) /\ CountUpTo[i - 1] = Cardinality(UpTo(i - 1))
      /\ CountUpTo[m] = Cardinality(UpTo(m))
  BY <1>3, CountUpToIs
<1>5. \A j \in 1 .. n : /\ recorded[j] \in Int /\ recorded[j] <= MaxInteger
                        /\ IndexOf(recorded[j]) \in 0 .. m
  BY <1>1, RecordedAre
<1>6. CountUpTo[m] = n
  <2>1. UpTo(m) = 1 .. n
    BY <1>1, <1>5 DEF UpTo
  <2>2. Cardinality(1 .. n) = n
    <3>1. 1 .. n \subseteq 1 .. Len(recorded)
      OBVIOUS
    <3>2. QED
      BY <1>1, <3>1, Places
  <2>3. QED
    BY <1>4, <2>1, <2>2
<1> HIDE DEF n, m, i
<1>7. Below(x) \subseteq 1 .. Len(recorded) /\ AtMost(x) \subseteq 1 .. Len(recorded)
      /\ UpTo(i) \subseteq 1 .. Len(recorded) /\ UpTo(i - 1) \subseteq 1 .. Len(recorded)
  BY DEF Below, AtMost, UpTo
<1>8. UpTo(i - 1) \subseteq Below(x)
  <2> SUFFICES ASSUME NEW j \in 1 .. n, IndexOf(recorded[j]) <= i - 1, ~(recorded[j] < x)
               PROVE  FALSE
    BY DEF UpTo, Below, n
  <2>1. recorded[j] \in Int /\ recorded[j] <= MaxInteger /\ x <= recorded[j]
    BY <1>5
  <2>2. i <= IndexOf(recorded[j])
    BY <2>1, IndexRises DEF i
  <2>3. IndexOf(recorded[j]) \in 0 .. m
    BY <1>5
  <2>4. QED
    BY <1>1, <1>2, <2>2, <2>3
<1>9. AtMost(x) \subseteq UpTo(i)
  <2> SUFFICES ASSUME NEW j \in 1 .. n, recorded[j] <= x
               PROVE  IndexOf(recorded[j]) <= i
    BY DEF UpTo, AtMost, n
  <2>1. recorded[j] \in Int
    BY <1>5
  <2>2. QED
    BY <2>1, IndexRises DEF i
<1>10. /\ CountUpTo[i - 1] \in Nat /\ CountUpTo[i] \in Nat
       /\ CountUpTo[i - 1] <= Cardinality(Below(x)) /\ Cardinality(Below(x)) \in Nat
       /\ Cardinality(AtMost(x)) <= CountUpTo[i] /\ Cardinality(AtMost(x)) \in Nat
  BY <1>1, <1>4, <1>7, <1>8, <1>9, SmallerSets
<1> DEFINE y == p * n
<1>11. 100 * rank >= y /\ 100 * (rank - 1) < y
  BY DEF IsRank, n
<1>12. y \in Nat
  BY <1>1
<1> HIDE DEF y
<1> DEFINE b == CountUpTo[i - 1]
           c == CountUpTo[i]
<1>13. b \in Nat /\ c \in Nat /\ b < rank /\ c >= rank
  BY <1>1, <1>10
<1> HIDE DEF b, c
<1>14. 100 * b < y /\ y <= 100 * c
  BY <1>1, <1>11, <1>12, <1>13
<1>15. p * CountUpTo[m] = y
  BY <1>6 DEF y
<1>16. IsBucketOf(i, p)
  BY <1>14, <1>15 DEF b, c, m, IsBucketOf
<1>17. ASSUME NEW k \in 0 .. m, IsBucketOf(k, p)
       PROVE  k = i
  <2>1. k \in -1 .. m /\ k - 1 \in -1 .. m /\ k \in Int
    BY <1>1
  <2> DEFINE e == CountUpTo[k - 1]
             f == CountUpTo[k]
  <2>2. 100 * e < y /\ y <= 100 * f
    BY <1>15, <1>17 DEF IsBucketOf, m
  <2>3. k < i => f \in Nat /\ f <= b
    <3> SUFFICES ASSUME k < i PROVE f \in Nat /\ f <= b
      OBVIOUS
    <3>1. k <= i - 1
      BY <1>1, <1>2, <2>1
    <3>2. QED
      BY <1>3, <2>1, <3>1, CountsRise DEF m, b
  <2>4. i < k => e \in Nat /\ c <= e
    <3> SUFFICES ASSUME i < k PROVE e \in Nat /\ c <= e
      OBVIOUS
    <3>1. i <= k - 1
      BY <1>1, <1>2, <2>1
    <3>2. QED
      BY <1>3, <2>1, <3>1, CountsRise DEF m, c
  <2> HIDE DEF e, f
  <2>5. ~(k < i) /\ ~(i < k)
    BY <1>12, <1>13, <1>14, <2>2, <2>3, <2>4
  <2>6. QED
    BY <1>1, <1>2, <2>1, <2>5
<1>18. QED
  BY <1>12, <1>15, <1>16, <1>17 DEF i, m

\* What EstimateIsNear says of a recorded value.
EstimatedNear(x, p) ==
  LET v   == IF x < 0 THEN 0 ELSE x
      i   == IndexOf(v)
      low == IF i < 2 THEN 0 ELSE Get(i - 2)
      e   == Percentile(p)
  IN  /\ low <= v /\ (v < Get(i) \/ i = LastIndex)
      /\ low * e.den <= e.num /\ e.num <= Get(i) * e.den

\* The estimate is taken from the one bucket in which the percentage is reached.
LEMMA PercentileIs ==
  ASSUME NEW p, NEW i \in 0 .. LastIndex, IsBucketOf(i, p),
         \A j \in 0 .. LastIndex : IsBucketOf(j, p) => j = i
  PROVE  Percentile(p) =
           [num |-> (p * CountUpTo[LastIndex] - 100 * CountUpTo[i - 1])
                      * (Get(i) - (IF i = 0 THEN 0 ELSE Get(i - 1)))
                    + 100 * counts[i] * (IF i = 0 THEN 0 ELSE Get(i - 1)),
            den |-> 100 * counts[i]]
<1> DEFINE k == CHOOSE n \in 0 .. LastIndex : IsBucketOf(n, p)
<1>1. k = i
  OBVIOUS
<1>2. Percentile(p) =
           [num |-> (p * CountUpTo[LastIndex] - 100 * CountUpTo[k - 1])
                      * (Get(k) - (IF k = 0 THEN 0 ELSE Get(k - 1)))
                    + 100 * counts[k] * (IF k = 0 THEN 0 ELSE Get(k - 1)),
            den |-> 100 * counts[k]]
  BY Zenon DEF Percentile, IsBucketOf
<1> HIDE DEF k
<1>3. QED
  BY <1>1, <1>2, Zenon

\* The value of the rank and the estimate are both near.
LEMMA ValueEstimated ==
  ASSUME PercentileIInv, NEW p \in 1 .. 100, NEW rank \in 1 .. Len(recorded), IsRank(rank, p),
         NEW x \in Int, x <= MaxInteger,
         Cardinality(Below(x)) < rank, Cardinality(AtMost(x)) >= rank
  PROVE  EstimatedNear(x, p)
<1> DEFINE v == IF x < 0 THEN 0 ELSE x
           i == IndexOf(v)
           m == LastIndex
           low == IF i < 2 THEN 0 ELSE Get(i - 2)
           below == IF i = 0 THEN 0 ELSE Get(i - 1)
           e == Percentile(p)
<1>1. v \in Nat /\ v <= MaxInteger /\ m \in Nat
  BY Largest, LastBucket
<1>2. IndexOf(x) = i
  <2>1. CASE x < 0
    <3>1. v = 0 /\ x <= 0 /\ 0 <= 0
      BY <2>1
    <3>2. IndexOf(x) = 0 /\ IndexOf(0) = 0
      BY <3>1 DEF IndexOf
    <3>3. QED
      BY <3>1, <3>2
  <2>2. CASE ~(x < 0)
    BY <2>2
  <2>3. QED
    BY <2>1, <2>2
<1>3. Near(v, i)
  BY <1>1, IndexNear
<1> HIDE DEF v
<1>4. i \in 0 .. m /\ (v < Get(i) \/ i = m) /\ low <= v
  <2>1. i \in 0 .. m /\ (i >= 2 => Get(i - 2) <= v) /\ (v < Get(i) \/ i = m)
    BY <1>3 DEF Near
  <2>2. i \in Nat
    BY <1>1, <2>1
  <2> HIDE DEF i
  <2>3. low <= v
    BY <1>1, <2>1, <2>2
  <2>4. QED
    BY <2>1, <2>3 DEF i
<1>5. /\ IsBucketOf(i, p) /\ \A j \in 0 .. m : IsBucketOf(j, p) => j = i
      /\ p * CountUpTo[m] \in Nat
  BY <1>2, BucketOfRank
<1>6. e = [num |-> (p * CountUpTo[m] - 100 * CountUpTo[i - 1]) * (Get(i) - below)
                   + 100 * counts[i] * below,
           den |-> 100 * counts[i]]
  BY <1>4, <1>5, PercentileIs, Zenon
<1>7. low \in Nat /\ below \in Nat /\ Get(i) \in Nat /\ low <= below /\ below <= Get(i)
  <2> HIDE DEF i, m
  <2>1. i \in 0 .. m /\ m \in Nat
    BY <1>1, <1>4
  <2>2. /\ \A j \in 0 .. m : Get(j) \in Nat /\ Get(j) > 0
        /\ \A j, k \in 0 .. m : j < k => Get(j) < Get(k)
    BY BucketsRise DEF m
  <2>3. i # 0 => i - 1 \in 0 .. m /\ i - 1 < i
    BY <2>1
  <2>4. ~(i < 2) => i - 2 \in 0 .. m /\ i - 2 < i - 1 /\ i # 0
    BY <2>1
  <2>5. QED
    BY <2>1, <2>2, <2>3, <2>4
<1> DEFINE a == p * CountUpTo[m] - 100 * CountUpTo[i - 1]
           c == counts[i]
<1>8. a \in Nat /\ c \in Nat /\ a <= 100 * c
  <2> DEFINE y == p * CountUpTo[m]
             b == CountUpTo[i - 1]
             f == CountUpTo[i]
  <2>1. 100 * b < y /\ y <= 100 * f /\ y \in Nat
    BY <1>5 DEF IsBucketOf
  <2>2. i \in Nat /\ i <= m
    BY <1>1, <1>4
  <2>3. recorded \in Seq(-1 .. MaxInteger) /\ c = Cardinality(In(i))
    BY <1>4 DEF PercentileIInv
  <2>4. i \in -1 .. m /\ i - 1 \in -1 .. m
    BY <1>1, <2>2
  <2>5. f = Cardinality(UpTo(i)) /\ b = Cardinality(UpTo(i - 1))
    BY <2>4, CountUpToIs
  <2>6. f = b + c /\ b \in Nat /\ c \in Nat
    BY <2>2, <2>3, <2>5, CountsStep
  <2> HIDE DEF y, b, f, c
  <2>7. y - 100 * b \in Nat /\ y - 100 * b <= 100 * c
    BY <2>1, <2>6
  <2>8. QED
    BY <2>6, <2>7 DEF y, b
<1>9. e.num = a * (Get(i) - below) + 100 * c * below /\ e.den = 100 * c
  <2> DEFINE num == a * (Get(i) - below) + 100 * c * below
             den == 100 * c
  <2>1. e = [num |-> num, den |-> den]
    BY <1>6
  <2> HIDE DEF num, den, e
  <2>2. e.num = num /\ e.den = den
    BY <2>1
  <2>3. QED
    BY <2>2 DEF num, den
<1> HIDE DEF a, c, e, low, below, i, m
<1>10. /\ low * (100 * c) <= a * (Get(i) - below) + 100 * c * below
       /\ a * (Get(i) - below) + 100 * c * below <= Get(i) * (100 * c)
  BY <1>7, <1>8, Interpolated
<1>11. low * e.den <= e.num /\ e.num <= Get(i) * e.den
  BY <1>9, <1>10
<1>12. QED
  BY <1>4, <1>11, Zenon DEF EstimatedNear, e, low, i, v, m

LEMMA AllEstimated == PercentileIInv => EstimateIsNear
<1> SUFFICES ASSUME PercentileIInv, recorded # <<>>, NEW p \in Percentages
             PROVE  LET n         == Len(recorded)
                        rank      == CHOOSE r \in 1 .. n : 100 * r >= p * n /\ 100 * (r - 1) < p * n
                        IsThat(x) == /\ Cardinality({j \in 1 .. n : recorded[j] < x}) < rank
                                     /\ Cardinality({j \in 1 .. n : recorded[j] <= x}) >= rank
                        e         == Percentile(p)
                    IN  \E x \in Range(recorded) :
                          LET v   == IF x < 0 THEN 0 ELSE x
                              i   == IndexOf(v)
                              low == IF i < 2 THEN 0 ELSE Get(i - 2)
                          IN  /\ IsThat(x)
                              /\ low <= v /\ (v < Get(i) \/ i = LastIndex)
                              /\ low * e.den <= e.num /\ e.num <= Get(i) * e.den
  BY Zenon DEF EstimateIsNear
<1> DEFINE rank == CHOOSE r \in 1 .. Len(recorded) : IsRank(r, p)
<1>1. p \in 1 .. 100
  BY PercentileAssumption
<1>2. recorded \in Seq(-1 .. MaxInteger)
  BY DEF PercentileIInv
<1>3. Len(recorded) \in Nat \ {0}
  <2> DEFINE V == -1 .. MaxInteger
  <2>1. recorded \in Seq(V)
    BY <1>2
  <2> HIDE DEF V
  <2>2. QED
    BY <2>1
<1>4. \E r \in 1 .. Len(recorded) : IsRank(r, p)
  BY <1>1, <1>3, Ranks DEF IsRank
<1>5. rank \in 1 .. Len(recorded) /\ IsRank(rank, p)
  BY <1>4, Zenon
<1>6. rank = CHOOSE r \in 1 .. Len(recorded) : 100 * r >= p * Len(recorded) /\ 100 * (r - 1) < p * Len(recorded)
  BY Zenon DEF IsRank
<1> HIDE DEF rank
<1>7. PICK k \in 1 .. Len(recorded) : /\ Cardinality(Below(recorded[k])) < rank
                                      /\ Cardinality(AtMost(recorded[k])) >= rank
  BY <1>5, RankedValue
<1> DEFINE x == recorded[k]
<1>8. x \in Int /\ x <= MaxInteger
  BY <1>2, RecordedAre
<1>9. x \in Range(recorded)
  <2>1. DOMAIN recorded = 1 .. Len(recorded)
    BY <1>2
  <2>2. QED
    BY <2>1 DEF Range
<1>10. Cardinality(Below(x)) < rank /\ Cardinality(AtMost(x)) >= rank
  BY <1>7
<1> HIDE DEF x
<1>11. EstimatedNear(x, p)
  BY <1>1, <1>5, <1>8, <1>10, ValueEstimated
<1>12. QED
  BY <1>6, <1>9, <1>10, <1>11, Zenon DEF EstimatedNear, Below, AtMost

\* Percentiles: an estimate is within the bucket of the value that has the rank, or
\* the bucket below, for any values recorded.
THEOREM EstimatesAreNear == PercentileSpec => []EstimateIsNear
<1>1. QED
  BY PercentileInvariant, AllEstimated, PTL

=============================================================================
