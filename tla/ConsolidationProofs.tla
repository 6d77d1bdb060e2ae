------------------------- MODULE ConsolidationProofs -------------------------
(***************************************************************************)
(* For every set of ids, every reporting multiple and every bound: called  *)
(* as main_sender means to, a consolidation registry reports exactly what  *)
(* it was fed for the period that has just ended, and what it erases had   *)
(* nothing to report, now and the last time.                               *)
(***************************************************************************)
EXTENDS ConsolidationRegistry, TLAPS

-----------------------------------------------------------------------------
(* Division by Multiple *)

\* The quotient by Multiple, bounded by its multiples.
LEMMA Division ==
  ASSUME NEW a \in Nat
  PROVE  \E q \in Nat : /\ a \div Multiple = q
                        /\ Multiple * q \in Nat
                        /\ Multiple * q <= a /\ a < Multiple * q + Multiple
                        /\ a % Multiple = 0 => a = Multiple * q
<1>1. a \div Multiple \in Int /\ a \div Multiple >= 0
  BY ConsolidationAssumption
<1>2. a - Multiple * (a \div Multiple) \in 0..Multiple - 1
  BY ConsolidationAssumption
<1>3. a % Multiple = a - Multiple * (a \div Multiple)
  BY ConsolidationAssumption
<1>4. PICK q \in Nat : a \div Multiple = q
  BY <1>1
<1>5. Multiple * q \in Nat
  BY <1>4, ConsolidationAssumption
<1>6. a - Multiple * q \in 0..Multiple - 1 /\ a % Multiple = a - Multiple * q
  BY <1>2, <1>3, <1>4
<1>7. Multiple * q <= a /\ a < Multiple * q + Multiple
  BY <1>6, <1>5, ConsolidationAssumption
<1>8. a % Multiple = 0 => a = Multiple * q
  BY <1>6, <1>5, ConsolidationAssumption
<1> QED BY <1>4, <1>5, <1>7, <1>8

\* Multiplying by Multiple keeps the order.
LEMMA Factors ==
  ASSUME NEW q \in Nat, NEW r \in Nat, q < r
  PROVE  Multiple * q + Multiple <= Multiple * r
<1>1. PICK d \in Nat : r = q + 1 + d
  <2>1. r - q - 1 \in Nat /\ r = q + 1 + (r - q - 1)
    OBVIOUS
  <2> QED BY <2>1
<1>2. Multiple * r = Multiple * q + Multiple + Multiple * d
  BY <1>1, ConsolidationAssumption
<1>3. Multiple * d \in Nat /\ Multiple * q \in Nat
  BY ConsolidationAssumption
<1> QED BY <1>2, <1>3, ConsolidationAssumption

LEMMA DivisionIsMonotone ==
  ASSUME NEW a \in Nat, NEW b \in Nat, a <= b
  PROVE  a \div Multiple <= b \div Multiple
<1>1. PICK q \in Nat : a \div Multiple = q /\ Multiple * q \in Nat /\ Multiple * q <= a
  BY Division
<1>2. PICK r \in Nat : b \div Multiple = r /\ Multiple * r \in Nat /\ b < Multiple * r + Multiple
  BY Division
<1>3. r < q => FALSE
  <2> SUFFICES ASSUME r < q PROVE FALSE
    OBVIOUS
  <2>1. Multiple * r + Multiple <= Multiple * q
    BY Factors
  <2> DEFINE x == Multiple * r
             y == Multiple * q
  <2>2. x \in Nat /\ y \in Nat /\ y <= a /\ b < x + Multiple /\ x + Multiple <= y
    BY <1>1, <1>2, <2>1
  <2> HIDE DEF x, y
  <2> QED BY <2>2, ConsolidationAssumption
<1> QED BY <1>1, <1>2, <1>3

\* The steps before the first one of a period belong to periods before.
LEMMA PeriodBefore ==
  ASSUME NEW a \in Nat, NEW b \in Nat, b % Multiple = 0, a < b
  PROVE  a \div Multiple < b \div Multiple
<1>1. PICK q \in Nat : a \div Multiple = q /\ Multiple * q \in Nat /\ Multiple * q <= a
  BY Division
<1>2. PICK r \in Nat : b \div Multiple = r /\ Multiple * r \in Nat /\ b = Multiple * r
  BY Division
<1>3. r <= q => FALSE
  <2> SUFFICES ASSUME r <= q PROVE FALSE
    OBVIOUS
  <2>1. CASE r = q
    BY <1>1, <1>2, <2>1
  <2>2. CASE r < q
    <3>1. Multiple * r + Multiple <= Multiple * q
      BY <2>2, Factors
    <3> DEFINE x == Multiple * r
               y == Multiple * q
    <3>2. x \in Nat /\ y \in Nat /\ y <= a /\ a < x /\ x + Multiple <= y
      BY <1>1, <1>2, <3>1
    <3> HIDE DEF x, y
    <3> QED BY <3>2, ConsolidationAssumption
  <2> QED BY <2>1, <2>2
<1> QED BY <1>1, <1>2, <1>3

\* ... and the step just before it to the period just before.
LEMMA LastStepOfPeriod ==
  ASSUME NEW b \in Nat, b % Multiple = 0, b > 0
  PROVE  (b - 1) \div Multiple = b \div Multiple - 1
<1>1. PICK r \in Nat : b \div Multiple = r /\ Multiple * r \in Nat /\ b = Multiple * r
  BY Division
<1>2. PICK q \in Nat : /\ (b - 1) \div Multiple = q /\ Multiple * q \in Nat
                        /\ b - 1 < Multiple * q + Multiple
  <2>1. b - 1 \in Nat
    OBVIOUS
  <2> QED BY <2>1, Division
<1>3. q < r
  BY <1>1, <1>2, PeriodBefore
<1>4. q + 1 < r => FALSE
  <2> SUFFICES ASSUME q + 1 < r PROVE FALSE
    OBVIOUS
  <2>1. Multiple * (q + 1) + Multiple <= Multiple * r
    BY q + 1 \in Nat, Factors
  <2>2. Multiple * (q + 1) = Multiple * q + Multiple
    BY ConsolidationAssumption
  <2> DEFINE x == Multiple * r
             y == Multiple * q
  <2>3. /\ x \in Nat /\ y \in Nat /\ b = x /\ b - 1 < y + Multiple
        /\ y + Multiple + Multiple <= x
    BY <1>1, <1>2, <2>1, <2>2
  <2> HIDE DEF x, y
  <2> QED BY <2>3, ConsolidationAssumption
<1> QED BY <1>1, <1>2, <1>3, <1>4

-----------------------------------------------------------------------------
(* The inductive invariant *)

FedPeriod == (step - 1) \div Multiple

\* The clock and the calls already made.
ClockInv ==
  /\ step \in Multiple..MaxStep
  /\ updated \in 0..step
  /\ measured \in 0..step /\ measured % Multiple = 0
  /\ before \in 0..measured /\ before % Multiple = 0

\* A bucket is open for a period that has been fed or measured, holds what it
\* was fed, and there is nothing for a later period.
BucketInv ==
  \A i \in DOMAIN values :
    /\ \/ updated > 0 /\ values[i].pos <= (updated - 1) \div Multiple
       \/ values[i].pos <= measured \div Multiple
    /\ values[i].open = IF values[i].pos \in Periods THEN fed[i][values[i].pos] ELSE 0
    /\ \A p \in Periods : p > values[i].pos => fed[i][p] = 0

\* An id without an entry was fed nothing since it was last measured.
AbsentInv ==
  \A i \in Ids \ DOMAIN values :
    \A p \in Periods : p >= measured \div Multiple => fed[i][p] = 0

\* A mark says that the last measurement had nothing to report.
MarkInv ==
  \A i \in DOMAIN values : values[i].marked =>
    measured > 0 /\ fed[i][measured \div Multiple - 1] = 0

Inv ==
  TypeOK /\ ClockInv /\ BucketInv /\ AbsentInv /\ MarkInv /\ ReportsEndedPeriod /\ ErasedIsIdle

-----------------------------------------------------------------------------
(* The parts of a step *)

LEMMA RolledEntry ==
  ASSUME NEW e \in Buckets, NEW p \in Nat
  PROVE  /\ RollTo(e, p) \in Buckets
         /\ RollTo(e, p).marked = e.marked
         /\ RollTo(e, p).pos = IF e.pos < p THEN p ELSE e.pos
         /\ RollTo(e, p).open = IF e.pos < p THEN 0 ELSE e.open
         /\ e.pos < p => RollTo(e, p).last = IF e.pos = p - 1 THEN e.open ELSE 0
  BY DEF RollTo, Buckets

LEMMA MergedAmount ==
  ASSUME NEW i \in Ids, NEW v \in Nat, NEW a \in Nat
  PROVE  Merge(i, v, a) \in Nat
  BY DEF Merge

LEMMA PeriodsInRange ==
  ASSUME ClockInv
  PROVE  /\ step \in Nat /\ step > 0 /\ updated \in Nat /\ measured \in Nat
         /\ Period \in Periods /\ FedPeriod \in Periods
<1>1. step \in Nat /\ step > 0 /\ updated \in Nat /\ measured \in Nat /\ MaxStep \in Nat
  BY ConsolidationAssumption DEF ClockInv
<1>2. step - 1 \in Nat /\ step <= MaxStep /\ step - 1 <= MaxStep
  BY <1>1 DEF ClockInv
<1>3. /\ step \div Multiple \in Nat /\ (step - 1) \div Multiple \in Nat
      /\ MaxStep \div Multiple \in Nat
  BY <1>1, <1>2, Division
<1>4. /\ step \div Multiple <= MaxStep \div Multiple
      /\ (step - 1) \div Multiple <= MaxStep \div Multiple
  BY <1>1, <1>2, DivisionIsMonotone
<1> QED BY <1>1, <1>3, <1>4 DEF Period, FedPeriod, Periods

\* A measurement is of a period that an update that comes after it is not fed to.
LEMMA MeasuredPeriods ==
  ASSUME Inv, NEW s \in {before, measured}, s > 0
  PROVE  /\ s \div Multiple - 1 \in Periods
         /\ s \div Multiple \in Nat /\ s \div Multiple <= measured \div Multiple
<1>1. /\ s \in Nat /\ s % Multiple = 0 /\ measured \in Nat /\ s <= measured
      /\ step \in Nat /\ measured <= step /\ step \in Multiple..MaxStep /\ MaxStep \in Nat
  BY PeriodsInRange, ConsolidationAssumption DEF Inv, ClockInv
<1>2. 0 \div Multiple = 0 /\ 0 \div Multiple < s \div Multiple
  BY <1>1, PeriodBefore, ConsolidationAssumption
<1>3. /\ s \div Multiple \in Nat /\ MaxStep \div Multiple \in Nat
      /\ measured \div Multiple \in Nat
      /\ s \div Multiple <= MaxStep \div Multiple /\ s \div Multiple <= measured \div Multiple
  <2>1. s <= MaxStep
    BY <1>1
  <2> QED BY <1>1, <2>1, Division, DivisionIsMonotone
<1> QED BY <1>2, <1>3 DEF Periods

\* When an update may come, no bucket is ahead of it.
LEMMA NoBucketAhead ==
  ASSUME Inv, updated < step, measured < step
  PROVE  /\ measured \div Multiple \in Nat /\ measured \div Multiple <= FedPeriod
         /\ \A i \in DOMAIN values : values[i].pos <= FedPeriod
<1>1. /\ step \in Nat /\ updated \in Nat /\ measured \in Nat /\ FedPeriod \in Nat
      /\ step - 1 \in Nat
  BY PeriodsInRange DEF Inv, Periods
<1>2. measured \div Multiple \in Nat /\ measured \div Multiple <= FedPeriod
  BY <1>1, Division, DivisionIsMonotone DEF FedPeriod
<1>3. ASSUME updated > 0
      PROVE  /\ (updated - 1) \div Multiple \in Nat
             /\ (updated - 1) \div Multiple <= FedPeriod
  <2>1. updated - 1 \in Nat /\ updated - 1 <= step - 1
    BY <1>1, <1>3
  <2> QED BY <2>1, <1>1, Division, DivisionIsMonotone DEF FedPeriod
<1>4. \A i \in DOMAIN values : values[i].pos \in Nat
  BY DEF Inv, TypeOK, Buckets
<1> QED BY <1>1, <1>2, <1>3, <1>4 DEF Inv, BucketInv

\* When a measurement may come, every bucket is of an earlier period.
LEMMA BucketsBehind ==
  ASSUME Inv, step % Multiple = 0, measured < step
  PROVE  /\ Period \in Nat /\ Period > 0 /\ Period - 1 \in Periods
         /\ measured \div Multiple \in Nat /\ measured \div Multiple <= Period - 1
         /\ \A i \in DOMAIN values : values[i].pos < Period
<1>1. /\ step \in Nat /\ updated \in Nat /\ measured \in Nat /\ updated <= step
      /\ Period \in Periods /\ Period \in Nat
  BY PeriodsInRange DEF Inv, Periods, ClockInv
<1>2. measured \div Multiple \in Nat /\ measured \div Multiple < Period
  BY <1>1, Division, PeriodBefore DEF Period
<1>3. ASSUME updated > 0
      PROVE  (updated - 1) \div Multiple \in Nat /\ (updated - 1) \div Multiple < Period
  <2>1. updated - 1 \in Nat /\ updated - 1 < step
    BY <1>1, <1>3
  <2> QED BY <2>1, <1>1, Division, PeriodBefore DEF Period
<1>4. \A i \in DOMAIN values : values[i].pos \in Nat
  BY DEF Inv, TypeOK, Buckets
<1>5. \A i \in DOMAIN values : values[i].pos < Period
  BY <1>1, <1>2, <1>3, <1>4 DEF Inv, BucketInv
<1>6. MaxStep \div Multiple \in Nat
  BY ConsolidationAssumption, Division
<1>7. Period > 0 /\ measured \div Multiple <= Period - 1
  BY <1>1, <1>2
<1>8. Period - 1 \in Periods
  BY <1>1, <1>6, <1>7 DEF Periods
<1> QED BY <1>1, <1>2, <1>5, <1>7, <1>8

\* What an update leaves: buckets of the period fed for the ids it is about.
LEMMA UpdateStep ==
  ASSUME Inv, NEW S \in SUBSET Ids, NEW ms \in [S -> Amounts], Update(ms)
  PROVE  Inv'
<1> DEFINE period == FedPeriod
           At(i) == IF i \in DOMAIN values THEN RollTo(values[i], period)
                                           ELSE NewEntry(period)
<1>1. /\ updated < step /\ measured < step /\ updated' = step
      /\ UNCHANGED <<step, measured, before, report, dropped>>
  BY DEF Update
<1>2. /\ step \in Nat /\ step > 0 /\ period \in Periods /\ period \in Nat
      /\ measured \div Multiple \in Nat /\ measured \div Multiple <= period
      /\ \A i \in DOMAIN values : values[i].pos <= period
  BY <1>1, NoBucketAhead, PeriodsInRange DEF Inv, Periods
<1>3. \A i \in DOMAIN values : i \in Ids /\ values[i] \in Buckets
  BY DEF Inv, TypeOK
<1>4. /\ DOMAIN values' = DOMAIN values \cup S
      /\ \A i \in S : values'[i] = [At(i) EXCEPT !.open = Merge(i, At(i).open, ms[i])]
      /\ \A i \in DOMAIN values \ S : values'[i] = values[i]
  BY DEF Update, UpdateFrom, FedPeriod
<1>5. /\ fed \in [Ids -> [Periods -> Nat]]
      /\ \A i \in Ids \ S : fed'[i] = fed[i]
      /\ \A i \in S : fed'[i] = [fed[i] EXCEPT ![period] = Merge(i, fed[i][period], ms[i])]
      /\ fed' \in [Ids -> [Periods -> Nat]]
  <2>1. fed \in [Ids -> [Periods -> Nat]]
    BY DEF Inv, TypeOK
  <2>2. \A i \in S : ms[i] \in Nat
    BY ConsolidationAssumption
  <2>3. /\ \A i \in Ids \ S : fed'[i] = fed[i]
        /\ \A i \in S : fed'[i] = [fed[i] EXCEPT ![period] = Merge(i, fed[i][period], ms[i])]
    BY DEF Update, FedPeriod
  <2>4. \A i \in S : Merge(i, fed[i][period], ms[i]) \in Nat
    BY <1>2, <2>1, <2>2, MergedAmount
  <2>5. \A i \in Ids : fed'[i] \in [Periods -> Nat]
    <3> SUFFICES ASSUME NEW i \in Ids PROVE fed'[i] \in [Periods -> Nat]
      OBVIOUS
    <3>1. fed[i] \in [Periods -> Nat]
      BY <2>1
    <3>2. CASE i \in S
      <4> DEFINE v == Merge(i, fed[i][period], ms[i])
      <4>1. fed'[i] = [fed[i] EXCEPT ![period] = v] /\ v \in Nat
        BY <2>3, <2>4, <3>2
      <4> HIDE DEF v
      <4> QED BY <3>1, <4>1
    <3> QED BY <2>3, <3>1, <3>2
  <2>6. fed' = [i \in Ids |-> fed'[i]]
    BY DEF Update
  <2> QED BY <2>1, <2>3, <2>5, <2>6
<1>6. ASSUME NEW i \in S
      PROVE  /\ At(i) \in Buckets /\ At(i).pos = period /\ At(i).open = fed[i][period]
             /\ \A p \in Periods : p > period => fed[i][p] = 0
  <2>1. CASE i \in DOMAIN values
    <3>1. /\ values[i] \in Buckets /\ values[i].pos \in Nat /\ values[i].pos <= period
          /\ values[i].open = IF values[i].pos \in Periods THEN fed[i][values[i].pos] ELSE 0
          /\ \A p \in Periods : p > values[i].pos => fed[i][p] = 0
      BY <1>2, <1>3, <2>1 DEF Inv, BucketInv, Buckets
    <3>2. At(i) = RollTo(values[i], period)
      BY <2>1
    <3>7. LET r == RollTo(values[i], period)
          IN  /\ r \in Buckets
              /\ r.pos = IF values[i].pos < period THEN period ELSE values[i].pos
              /\ r.open = IF values[i].pos < period THEN 0 ELSE values[i].open
      BY ONLY <1>2, <3>1, RolledEntry
    <3>3. At(i) \in Buckets /\ At(i).pos = period
      BY ONLY <1>2, <3>1, <3>2, <3>7
    <3>4. At(i).open = IF values[i].pos < period THEN 0 ELSE values[i].open
      BY ONLY <3>2, <3>7
    <3>5. At(i).open = fed[i][period]
      BY <1>2, <3>1, <3>4
    <3>6. \A p \in Periods : p > period => fed[i][p] = 0
      <4>1. \A p \in Periods : p \in Int
        BY DEF Periods
      <4> QED BY <1>2, <3>1, <4>1
    <3> QED BY <3>3, <3>5, <3>6
  <2>2. CASE i \notin DOMAIN values
    <3>1. \A p \in Periods : p >= measured \div Multiple => fed[i][p] = 0
      BY <2>2 DEF Inv, AbsentInv
    <3>2. \A p \in Periods : p \in Int
      BY DEF Periods
    <3>3. fed[i][period] = 0 /\ \A p \in Periods : p > period => fed[i][p] = 0
      BY <1>2, <3>1, <3>2
    <3> QED BY <1>2, <2>2, <3>3 DEF NewEntry, Buckets
  <2> QED BY <2>1, <2>2
<1>7. ASSUME NEW i \in S
      PROVE  /\ values'[i] \in Buckets /\ values'[i].pos = period
             /\ values'[i].open = fed'[i][period]
             /\ \A p \in Periods : p > period => fed'[i][p] = 0
  <2>1. ms[i] \in Nat /\ At(i).open \in Nat
    BY <1>6, ConsolidationAssumption DEF Buckets
  <2>2. Merge(i, At(i).open, ms[i]) \in Nat
    BY <2>1, MergedAmount
  <2>3. /\ values'[i] \in Buckets /\ values'[i].pos = period
        /\ values'[i].open = Merge(i, At(i).open, ms[i])
    <3>1. values'[i] = [At(i) EXCEPT !.open = Merge(i, At(i).open, ms[i])]
      BY <1>4
    <3> HIDE DEF At
    <3> QED BY <3>1, <2>2, <1>6 DEF Buckets
  <2>4. fed'[i] = [fed[i] EXCEPT ![period] = Merge(i, fed[i][period], ms[i])]
    BY <1>5
  <2>5. fed'[i][period] = Merge(i, fed[i][period], ms[i])
    BY <2>4, <1>2, <1>5
  <2>6. \A p \in Periods : p > period => fed'[i][p] = 0
    <3>1. fed[i] \in [Periods -> Nat]
      BY <1>5
    <3>2. \A p \in Periods : p > period => p # period /\ fed[i][p] = 0
      BY <1>2, <1>6 DEF Periods
    <3> QED BY <2>4, <3>1, <3>2
  <2> QED BY <1>6, <2>3, <2>5, <2>6
<1>8. TypeOK'
  <2>1. \A i \in DOMAIN values' : i \in Ids /\ values'[i] \in Buckets
    BY <1>3, <1>4, <1>7
  <2>2. DOMAIN dropped' \subseteq Ids
    BY <1>1 DEF Inv, TypeOK
  <2> QED BY <1>1, <1>2, <1>5, <2>1, <2>2 DEF Inv, TypeOK
<1>9. ClockInv'
  BY <1>1, <1>2 DEF Inv, ClockInv
<1>10. BucketInv'
  <2>1. period = (updated' - 1) \div Multiple /\ updated' > 0
    BY <1>1, <1>2 DEF FedPeriod
  <2>2. ASSUME NEW i \in DOMAIN values', i \in S
        PROVE  /\ values'[i].pos <= (updated' - 1) \div Multiple
               /\ values'[i].open = IF values'[i].pos \in Periods THEN fed'[i][values'[i].pos] ELSE 0
               /\ \A p \in Periods : p > values'[i].pos => fed'[i][p] = 0
    <3>1. /\ values'[i].pos = period /\ values'[i].open = fed'[i][period]
          /\ \A p \in Periods : p > period => fed'[i][p] = 0
      BY <1>7, <2>2
    <3>2. period \in Periods /\ period \in Nat
      BY <1>2
    <3> HIDE DEF At, period
    <3>3. values'[i].pos <= (updated' - 1) \div Multiple
      <4>1. period <= period
        BY ONLY <3>2
      <4> QED BY ONLY <4>1, <2>1, <3>1
    <3>4. values'[i].open = IF values'[i].pos \in Periods THEN fed'[i][values'[i].pos] ELSE 0
      BY ONLY <3>1, <3>2, Zenon
    <3>5. \A p \in Periods : p > values'[i].pos => fed'[i][p] = 0
      BY ONLY <3>1, Zenon
    <3> QED BY ONLY <3>3, <3>4, <3>5
  <2>3. ASSUME NEW i \in DOMAIN values', i \notin S
        PROVE  /\ values'[i].pos <= (updated' - 1) \div Multiple
               /\ values'[i].open = IF values'[i].pos \in Periods THEN fed'[i][values'[i].pos] ELSE 0
               /\ \A p \in Periods : p > values'[i].pos => fed'[i][p] = 0
    <3>1. i \in DOMAIN values /\ i \in Ids \ S
      BY <1>3, <1>4, <2>3
    <3>2. values'[i] = values[i] /\ fed'[i] = fed[i]
      BY <1>4, <1>5, <3>1
    <3> QED BY <1>2, <2>1, <3>1, <3>2 DEF Inv, BucketInv
  <2> QED BY <2>1, <2>2, <2>3 DEF BucketInv, Periods
<1>11. AbsentInv'
  BY <1>1, <1>4, <1>5 DEF Inv, AbsentInv, Periods
<1>13. ASSUME NEW s \in {before, measured}, s > 0, NEW i \in Ids
       PROVE  fed'[i][s \div Multiple - 1] = fed[i][s \div Multiple - 1]
  <2> DEFINE p == s \div Multiple - 1
  <2>1. /\ p \in Periods /\ s \div Multiple \in Nat
        /\ s \div Multiple <= measured \div Multiple
    BY <1>13, MeasuredPeriods
  <2>2. p # period
    BY <1>2, <2>1
  <2> HIDE DEF p, period
  <2>3. CASE i \in S
    <3>1. fed[i] \in [Periods -> Nat]
      BY <1>5
    <3>2. fed'[i] = [fed[i] EXCEPT ![period] = Merge(i, fed[i][period], ms[i])]
      BY <1>5, <2>3
    <3>3. fed'[i][p] = fed[i][p]
      BY <2>1, <2>2, <3>1, <3>2
    <3> QED BY <3>3 DEF p
  <2>4. CASE i \notin S
    BY <1>5, <2>4 DEF p
  <2> QED BY <2>3, <2>4
<1>14. MarkInv'
  <2> SUFFICES ASSUME NEW i \in DOMAIN values', values'[i].marked
               PROVE  measured > 0 /\ fed'[i][measured \div Multiple - 1] = 0
    BY <1>1 DEF MarkInv
  <2>1. CASE i \in S
    <3>1. At(i).marked
      BY <1>4, <1>6, <2>1 DEF Buckets
    <3>2. i \in DOMAIN values /\ values[i].marked
      <4>1. i \in DOMAIN values
        BY <3>1 DEF NewEntry
      <4> QED BY <1>2, <1>3, <3>1, <4>1, RolledEntry
    <3> QED BY <1>3, <1>13, <3>2 DEF Inv, MarkInv
  <2>2. CASE i \notin S
    <3>1. i \in DOMAIN values /\ values[i].marked
      BY <1>4, <2>2
    <3> QED BY <1>3, <1>13, <3>1 DEF Inv, MarkInv
  <2> QED BY <2>1, <2>2
<1>12. ReportsEndedPeriod' /\ ErasedIsIdle'
  <2>1. measured' # step'
    BY <1>1, PeriodsInRange DEF Inv
  <2>2. ErasedIsIdle'
    <3> SUFFICES ASSUME NEW i \in DOMAIN dropped, NEW s \in {before, measured}
                 PROVE  before > 0 /\ fed'[i][s \div Multiple - 1] = 0
      BY <1>1 DEF ErasedIsIdle
    <3>1. before > 0 /\ fed[i][s \div Multiple - 1] = 0 /\ i \in Ids
      BY DEF Inv, ErasedIsIdle, TypeOK
    <3>2. s \in Nat /\ s > 0
      BY <1>2, <3>1 DEF Inv, ClockInv
    <3> QED BY <1>13, <3>1, <3>2
  <2> QED BY <2>1, <2>2 DEF ReportsEndedPeriod
<1> QED BY <1>8, <1>9, <1>10, <1>11, <1>12, <1>14 DEF Inv

\* What a measurement reports and leaves.
LEMMA MeasureStep ==
  ASSUME Inv, Measure
  PROVE  Inv'
<1> DEFINE Rolled(i) == RollTo(values[i], Period)
<1>1. /\ step % Multiple = 0 /\ measured < step /\ measured' = step /\ before' = measured
      /\ UNCHANGED <<step, updated, fed>>
  BY DEF Measure
<1>2. /\ step \in Nat /\ step > 0 /\ Period \in Nat /\ Period > 0
      /\ Period \in Periods /\ Period - 1 \in Periods /\ Period' = Period
      /\ measured \div Multiple \in Nat /\ measured \div Multiple <= Period - 1
      /\ measured' \div Multiple = Period
  BY <1>1, BucketsBehind, PeriodsInRange DEF Inv, Period
<1>3. fed \in [Ids -> [Periods -> Nat]] /\ \A p \in Periods : p \in Int
  BY DEF Inv, TypeOK, Periods
<1>4. ASSUME NEW i \in DOMAIN values
      PROVE  /\ i \in Ids /\ Rolled(i) \in Buckets
             /\ Rolled(i).pos = Period /\ Rolled(i).open = 0
             /\ Rolled(i).last = fed[i][Period - 1]
             /\ \A p \in Periods : p >= Period => fed[i][p] = 0
  <2>1. i \in Ids /\ values[i] \in Buckets /\ values[i].pos \in Nat
    BY DEF Inv, TypeOK, Buckets
  <2>2. values[i].pos < Period
    BY <1>1, BucketsBehind
  <2>3. /\ values[i].open = IF values[i].pos \in Periods THEN fed[i][values[i].pos] ELSE 0
        /\ \A p \in Periods : p > values[i].pos => fed[i][p] = 0
    BY DEF Inv, BucketInv
  <2>4. LET r == RollTo(values[i], Period)
        IN  /\ r \in Buckets /\ r.pos = Period /\ r.open = 0
            /\ r.last = IF values[i].pos = Period - 1 THEN values[i].open ELSE 0
    BY ONLY <1>2, <2>1, <2>2, RolledEntry
  <2>5. \A p \in Periods : p >= Period => fed[i][p] = 0
    BY <1>2, <1>3, <2>1, <2>2, <2>3
  <2>6. fed[i][Period - 1] = IF values[i].pos = Period - 1 THEN values[i].open ELSE 0
    BY <1>2, <1>3, <2>1, <2>2, <2>3
  <2> QED BY <2>1, <2>4, <2>5, <2>6
<1>5. ASSUME NEW i \in Ids \ DOMAIN values
      PROVE  fed[i][Period - 1] = 0 /\ \A p \in Periods : p >= Period => fed[i][p] = 0
  BY <1>2, <1>3 DEF Inv, AbsentInv
<1> DEFINE reported == {j \in DOMAIN values : Rolled(j).last > 0}
           kept == {j \in DOMAIN values : Rolled(j).last > 0 \/ ~values[j].marked}
<1>6. /\ DOMAIN report' = reported
      /\ \A i \in reported : report'[i] = Rolled(i).last
  BY DEF Measure, Measured, HasValue
<1>7. /\ DOMAIN values' = kept
      /\ \A i \in kept : values'[i] = [Rolled(i) EXCEPT !.marked = ~(Rolled(i).last > 0)]
  BY DEF Measure, AfterMeasured, HasValue
<1>8. /\ DOMAIN dropped' \subseteq DOMAIN values
      /\ \A i \in DOMAIN dropped' : ~(Rolled(i).last > 0) /\ values[i].marked
  BY DEF Measure, AfterMeasured, HasValue
<1> HIDE DEF Rolled
<1>9. ASSUME NEW i \in kept
      PROVE  /\ i \in Ids /\ values'[i] \in Buckets
             /\ values'[i].pos = Period /\ values'[i].open = 0
  <2>1. Rolled(i) \in Buckets /\ (~(Rolled(i).last > 0)) \in BOOLEAN
    BY <1>4
  <2> QED BY <1>4, <1>7, <2>1 DEF Buckets
<1>10. TypeOK'
  <2>1. \A i \in DOMAIN values' : i \in Ids /\ values'[i] \in Buckets
    BY <1>7, <1>9
  <2>2. \A i \in DOMAIN report' : i \in Ids /\ report'[i] \in Nat
    BY <1>2, <1>3, <1>4, <1>6
  <2>3. DOMAIN dropped' \subseteq Ids
    BY <1>4, <1>8
  <2> QED BY <1>1, <1>2, <2>1, <2>2, <2>3 DEF Inv, TypeOK, Periods
<1>11. ClockInv'
  BY <1>1, <1>2 DEF Inv, ClockInv
<1>12. BucketInv'
  <2> SUFFICES ASSUME NEW i \in DOMAIN values'
               PROVE  /\ values'[i].pos = Period /\ values'[i].open = fed[i][Period]
                      /\ \A p \in Periods : p > values'[i].pos => fed[i][p] = 0
    BY <1>1, <1>2 DEF BucketInv, Periods
  <2>1. i \in kept /\ i \in DOMAIN values
    BY <1>7
  <2>2. \A p \in Periods : p >= Period => fed[i][p] = 0
    BY <1>4, <2>1
  <2> QED BY <1>2, <1>3, <1>9, <2>1, <2>2
<1>13. AbsentInv'
  <2> SUFFICES ASSUME NEW i \in Ids, NEW p \in Periods, p >= Period
               PROVE  fed[i][p] = 0
    BY <1>1, <1>2 DEF AbsentInv, Periods
  <2> QED BY <1>4, <1>5
<1>14. ReportsEndedPeriod'
  <2> SUFFICES ASSUME NEW i \in Ids
               PROVE  fed[i][Period - 1] = IF i \in DOMAIN report' THEN report'[i] ELSE 0
    BY <1>1, <1>2 DEF ReportsEndedPeriod
  <2>1. CASE i \in reported
    BY <1>4, <1>6, <2>1
  <2>2. CASE i \in DOMAIN values \ reported
    <3>1. Rolled(i).last = fed[i][Period - 1] /\ ~(Rolled(i).last > 0)
      BY <1>4, <2>2
    <3>2. fed[i][Period - 1] \in Nat
      BY <1>2, <1>3
    <3> QED BY <1>6, <2>2, <3>1, <3>2
  <2>3. CASE i \notin DOMAIN values
    BY <1>5, <1>6, <2>3
  <2> QED BY <2>1, <2>2, <2>3
<1>15. ErasedIsIdle'
  <2> SUFFICES ASSUME NEW i \in DOMAIN dropped'
               PROVE  /\ measured > 0 /\ fed[i][measured \div Multiple - 1] = 0
                      /\ fed[i][Period - 1] = 0
    BY <1>1, <1>2 DEF ErasedIsIdle
  <2>1. i \in DOMAIN values /\ values[i].marked /\ ~(Rolled(i).last > 0)
    BY <1>8
  <2>2. Rolled(i).last = fed[i][Period - 1] /\ fed[i][Period - 1] \in Nat
    BY <1>2, <1>3, <1>4, <2>1
  <2> QED BY <2>1, <2>2 DEF Inv, MarkInv
<1>16. MarkInv'
  <2> SUFFICES ASSUME NEW i \in DOMAIN values', values'[i].marked
               PROVE  step > 0 /\ fed[i][Period - 1] = 0
    BY <1>1, <1>2 DEF MarkInv
  <2>1. i \in kept /\ i \in DOMAIN values
    BY <1>7
  <2>2. ~(Rolled(i).last > 0)
    BY <1>4, <1>7, <2>1 DEF Buckets
  <2>3. Rolled(i).last = fed[i][Period - 1] /\ fed[i][Period - 1] \in Nat
    BY <1>2, <1>3, <1>4, <2>1
  <2> QED BY <1>2, <2>2, <2>3
<1> QED BY <1>10, <1>11, <1>12, <1>13, <1>14, <1>15, <1>16 DEF Inv

-----------------------------------------------------------------------------
(* The theorems *)

\* The invariant, of which the theorems below are the parts.
THEOREM Invariance == Spec => []Inv
<1>1. Init => Inv
  <2> SUFFICES ASSUME Init PROVE Inv
    OBVIOUS
  <2>1. /\ step = Multiple /\ Multiple \in Nat /\ Multiple > 0 /\ Multiple <= MaxStep
        /\ MaxStep \in Nat /\ updated = 0 /\ measured = 0 /\ before = 0
        /\ DOMAIN values = {} /\ DOMAIN report = {} /\ DOMAIN dropped = {}
        /\ fed = [i \in Ids |-> [p \in Periods |-> 0]]
    BY ConsolidationAssumption DEF Init, Empty
  <2>2. 0 % Multiple = 0
    BY <2>1
  <2>3. TypeOK /\ ClockInv
    BY <2>1, <2>2 DEF TypeOK, ClockInv
  <2>4. BucketInv /\ AbsentInv /\ MarkInv /\ ReportsEndedPeriod /\ ErasedIsIdle
    BY <2>1 DEF BucketInv, AbsentInv, MarkInv, ReportsEndedPeriod, ErasedIsIdle
  <2> QED BY <2>3, <2>4 DEF Inv
<1>2. Inv /\ [Next]_vars => Inv'
  <2> SUFFICES ASSUME Inv, [Next]_vars PROVE Inv'
    OBVIOUS
  <2>1. CASE Tick
    <3>1. /\ step' \in step + 1 .. MaxStep
          /\ UNCHANGED <<values, updated, measured, before, fed, report, dropped>>
      BY <2>1 DEF Tick
    <3>2. step \in Nat /\ MaxStep \in Nat /\ Multiple \in Nat
      BY ConsolidationAssumption, PeriodsInRange DEF Inv
    <3>3. ClockInv' /\ measured' # step' /\ step' \in Nat
      BY <3>1, <3>2 DEF Inv, ClockInv
    <3>4. TypeOK'
      BY <3>1, <3>3 DEF Inv, TypeOK, Periods
    <3>5. BucketInv' /\ AbsentInv' /\ MarkInv' /\ ErasedIsIdle'
      BY <3>1 DEF Inv, BucketInv, AbsentInv, MarkInv, ErasedIsIdle, Periods
    <3> QED BY <3>3, <3>4, <3>5 DEF Inv, ReportsEndedPeriod
  <2>2. ASSUME NEW S \in SUBSET Ids, NEW ms \in [S -> Amounts], Update(ms)
        PROVE  Inv'
    BY <2>2, UpdateStep
  <2>3. CASE Measure
    BY <2>3, MeasureStep
  <2>4. CASE UNCHANGED vars
    BY <2>4 DEF vars, Inv, TypeOK, ClockInv, BucketInv, AbsentInv, MarkInv,
                ReportsEndedPeriod, ErasedIsIdle, Periods, Period
  <2> QED BY <2>1, <2>2, <2>3, <2>4 DEF Next
<1> QED BY <1>1, <1>2, PTL DEF Spec

\* Every variable keeps its type.
THEOREM TypeCorrect == Spec => []TypeOK
<1>1. Inv => TypeOK
  BY DEF Inv
<1> QED BY <1>1, Invariance, PTL

\* A measurement reports exactly what was fed for the period just ended.
THEOREM ReportsAreExact == Spec => []ReportsEndedPeriod
<1>1. Inv => ReportsEndedPeriod
  BY DEF Inv
<1> QED BY <1>1, Invariance, PTL

\* An entry is erased only if neither the last measurement nor the one before it
\* had anything to report of it.
THEOREM ErasesOnlyIdle == Spec => []ErasedIsIdle
<1>1. Inv => ErasedIsIdle
  BY DEF Inv
<1> QED BY <1>1, Invariance, PTL
=============================================================================
