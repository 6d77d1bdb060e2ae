---------------------------- MODULE SendLoopProofs ----------------------------
(***************************************************************************)
(* Theorems about SendLoop, for any frequencies, meters, updates, lateness *)
(* of the waits and length of the runs: until the client is stopped, and   *)
(* of what the first stop sends again.                                     *)
(*                                                                         *)
(* The argument: as long as no run is torn, what was recorded in a period  *)
(* is at any moment in a store, or under way from a meter to it, or was    *)
(* lost by a sender that skipped a step (MainInv, SubsInv); when the store *)
(* is measured nothing of the period before is under way any more; and     *)
(* what was recorded in a period that has been sent does not change again. *)
(***************************************************************************)
EXTENDS SendLoop, TLAPS

(* Division *)

\* The quotient, bounded by its multiples.
LEMMA Division ==
  ASSUME NEW a \in Nat, NEW d \in Nat \ {0}
  PROVE  \E q \in Nat : /\ a \div d = q /\ d * q \in Nat /\ d * q <= a /\ a < d * q + d
                        /\ a % d = a - d * q
<1>1. a \div d \in Int /\ a \div d >= 0
  OBVIOUS
<1>2. a - d * (a \div d) \in 0..d - 1 /\ a % d = a - d * (a \div d)
  OBVIOUS
<1>3. PICK q \in Nat : a \div d = q
  BY <1>1
<1>4. d * q \in Nat
  OBVIOUS
<1>5. a - d * q \in 0..d - 1 /\ a % d = a - d * q
  BY <1>2, <1>3
<1> DEFINE x == d * q
<1>6. x \in Nat /\ a - x \in 0..d - 1
  BY <1>4, <1>5
<1> HIDE DEF x
<1>7. x <= a /\ a < x + d
  BY <1>6
<1> QED BY <1>3, <1>4, <1>5, <1>7 DEF x

\* Multiplying keeps the order.
LEMMA Factors ==
  ASSUME NEW d \in Nat \ {0}, NEW q \in Nat, NEW r \in Nat, q < r
  PROVE  d * q \in Nat /\ d * r \in Nat /\ d * q + d <= d * r
<1>1. PICK e \in Nat : r = q + 1 + e
  <2>1. r - q - 1 \in Nat /\ r = q + 1 + (r - q - 1)
    OBVIOUS
  <2> QED BY <2>1
<1>2. d * r = d * q + d + d * e
  BY <1>1
<1>3. d * e \in Nat /\ d * q \in Nat /\ d * r \in Nat
  OBVIOUS
<1> QED BY <1>2, <1>3

\* The bounds determine the quotient.
LEMMA Quotient ==
  ASSUME NEW a \in Nat, NEW d \in Nat \ {0}, NEW r \in Nat, d * r <= a, a < d * r + d
  PROVE  a \div d = r
<1>1. PICK q \in Nat : a \div d = q /\ d * q \in Nat /\ d * q <= a /\ a < d * q + d
  BY Division
<1> DEFINE x == d * q
           y == d * r
<1>2. x \in Nat /\ y \in Nat /\ x <= a /\ a < x + d /\ y <= a /\ a < y + d
  BY <1>1
<1>3. q < r => x + d <= y
  BY Factors
<1>4. r < q => y + d <= x
  BY Factors
<1> HIDE DEF x, y
<1> QED BY <1>1, <1>2, <1>3, <1>4

\* Dividing keeps the order.
LEMMA DivisionIsMonotone ==
  ASSUME NEW a \in Nat, NEW b \in Nat, NEW d \in Nat \ {0}, a <= b
  PROVE  a \div d \in Nat /\ b \div d \in Nat /\ a \div d <= b \div d
<1>1. PICK q \in Nat : a \div d = q /\ d * q \in Nat /\ d * q <= a
  BY Division
<1>2. PICK r \in Nat : b \div d = r /\ d * r \in Nat /\ b < d * r + d
  BY Division
<1> DEFINE x == d * q
           y == d * r
<1>3. x \in Nat /\ y \in Nat /\ x <= a /\ b < y + d
  BY <1>1, <1>2
<1>4. r < q => y + d <= x
  BY Factors
<1> HIDE DEF x, y
<1> QED BY <1>1, <1>2, <1>3, <1>4

\* k whole intervals later.
LEMMA IntervalsLater ==
  ASSUME NEW a \in Nat, NEW d \in Nat \ {0}, NEW k \in Nat
  PROVE  (a + d * k) \div d = a \div d + k
<1>1. PICK q \in Nat : a \div d = q /\ d * q \in Nat /\ d * q <= a /\ a < d * q + d
  BY Division
<1>2. d * (q + k) = d * q + d * k /\ d * k \in Nat
  OBVIOUS
<1> DEFINE x == d * q
           y == d * k
<1>3. /\ x \in Nat /\ y \in Nat /\ x <= a /\ a < x + d /\ d * (q + k) = x + y
      /\ a + d * k = a + y
  BY <1>1, <1>2
<1> HIDE DEF x, y
<1>4. a + y \in Nat /\ d * (q + k) <= a + y /\ a + y < d * (q + k) + d /\ q + k \in Nat
  BY <1>3
<1>5. (a + y) \div d = q + k
  BY <1>4, Quotient
<1> QED BY <1>1, <1>3, <1>5

\* One interval later.
LEMMA NextInterval ==
  ASSUME NEW a \in Nat, NEW d \in Nat \ {0}
  PROVE  (a + d) \div d = a \div d + 1
<1>1. (a + d * 1) \div d = a \div d + 1
  BY 1 \in Nat, IntervalsLater, Zenon
<1>2. d * 1 = d
  OBVIOUS
<1> QED BY <1>1, <1>2

\* Dividing twice.
LEMMA NestedDivision ==
  ASSUME NEW a \in Nat, NEW d \in Nat \ {0}, NEW e \in Nat \ {0}
  PROVE  (a \div d) \div e = a \div (d * e)
<1>1. PICK q \in Nat : a \div d = q /\ d * q \in Nat /\ d * q <= a /\ a < d * q + d
  BY Division
<1>2. PICK r \in Nat : q \div e = r /\ e * r \in Nat /\ e * r <= q /\ q < e * r + e
  BY Division
<1>3. d * (e * r) \in Nat /\ d * (e * r) <= d * q
  <2> DEFINE z == e * r
  <2>1. z \in Nat /\ z <= q
    BY <1>2
  <2> HIDE DEF z
  <2>2. z < q => d * z + d <= d * q
    BY <2>1, Factors
  <2>3. d * z \in Nat
    BY <2>1
  <2> DEFINE x == d * z
             y == d * q
  <2>4. x \in Nat /\ y \in Nat /\ (z = q => x = y) /\ (z < q => x + d <= y)
    BY <1>1, <2>2, <2>3
  <2> HIDE DEF x, y
  <2>5. x \in Nat /\ x <= y
    BY <2>1, <2>4
  <2> QED BY <2>5 DEF x, y, z
<1>4. d * q + d <= d * (e * r + e)
  <2>1. e * r + e \in Nat /\ q < e * r + e
    BY <1>2
  <2> QED BY <2>1, Factors
<1>5. /\ d * (e * r + e) = (d * e) * r + d * e
      /\ d * (e * r) = (d * e) * r /\ d * e \in Nat \ {0}
  OBVIOUS
<1> DEFINE x == d * q
           y == (d * e) * r
           z == d * e
<1>6. /\ x \in Nat /\ y \in Nat /\ z \in Nat /\ y <= x /\ x <= a /\ a < x + d
      /\ x + d <= y + z
  BY <1>1, <1>3, <1>4, <1>5
<1> HIDE DEF x, y, z
<1>7. y <= a /\ a < y + z
  BY <1>6
<1>8. (d * e) * r <= a /\ a < (d * e) * r + d * e
  BY <1>7 DEF y, z
<1>9. a \div (d * e) = r
  BY <1>5, <1>8, Quotient
<1> QED BY <1>1, <1>2, <1>9

\* The step before the first one of an interval is in the interval before.
LEMMA FirstOfInterval ==
  ASSUME NEW b \in Nat \ {0}, NEW d \in Nat \ {0}, b % d = 0
  PROVE  b \div d \in Nat \ {0} /\ (b - 1) \div d = b \div d - 1 /\ b = d * (b \div d)
<1>1. PICK r \in Nat : b \div d = r /\ d * r \in Nat /\ b % d = b - d * r
  BY Division
<1>2. b = d * r
  <2> DEFINE x == d * r
  <2>1. x \in Nat /\ b - x = 0
    BY <1>1
  <2> HIDE DEF x
  <2>2. b = x
    BY <2>1
  <2> QED BY <2>2 DEF x
<1>3. r # 0
  BY <1>2
<1>4. r - 1 \in Nat /\ d * (r - 1) = d * r - d
  BY <1>3
<1>5. b - 1 \in Nat /\ d * (r - 1) <= b - 1 /\ b - 1 < d * (r - 1) + d
  BY <1>2, <1>4
<1>6. (b - 1) \div d = r - 1
  BY <1>4, <1>5, Quotient
<1> QED BY <1>1, <1>2, <1>3, <1>6

\* Of two different numbers with one remainder the divisor lies between.
LEMMA SameRemainder ==
  ASSUME NEW a \in Nat, NEW b \in Nat, NEW d \in Nat \ {0}, a % d = b % d, a < b
  PROVE  a + d <= b
<1>1. PICK q \in Nat : d * q \in Nat /\ a % d = a - d * q
  BY Division
<1>2. PICK r \in Nat : d * r \in Nat /\ b % d = b - d * r
  BY Division
<1> DEFINE x == d * q
           y == d * r
<1>3. x \in Nat /\ y \in Nat /\ a - x = b - y
  BY <1>1, <1>2
<1>4. /\ q < r => x + d <= y
      /\ r < q => y + d <= x
      /\ q = r => x = y
  BY Factors
<1> HIDE DEF x, y
<1> QED BY <1>3, <1>4

-----------------------------------------------------------------------------
(* The invariant of the loop, until it is stopped *)

Now == now \div StepTicks

\* The first step whose updates were not measured.  (A run that has been woken
\* measures the step before its own.)
Unmeasured ==
  IF pc = "measure" \/ (pc = "wait" /\ run = 0) THEN start \div StepTicks - 1
                                                ELSE start \div StepTicks

\* The last step whose run is done with main, and with the subscriptions.
MainStep == IF pc \in {"wait", "measure", "subs"} THEN Unmeasured ELSE Unmeasured - 1
SubsStep == IF pc \in {"wait", "measure"} THEN Unmeasured ELSE Unmeasured - 1

\* Where the loop is in time: a run's looks at the clock, up to the POST to main,
\* are in the step it began in, and no step is without a run, if none was skipped.
ClockInv ==
  /\ phase = "loop" /\ offset = 0 /\ shouldRun
  /\ Minute <= start /\ start <= now /\ now <= MaxTime
  /\ pc \notin {"wait", "subs"} \/ (pc = "subs" /\ torn = {}) => Now = start \div StepTicks
  /\ pc = "wait" => Unmeasured + 1 <= deadline \div StepTicks
  /\ pc \in {"wait", "subs"} /\ ~skipped => Now <= Unmeasured + 1
  /\ pc \in {"stamp", "send"} => Now % Multiple = 0
  /\ pc = "send" => timestamp = Now \div Multiple

\* The meters' buckets are rolled to a step between.
RegistryInv ==
  \A i \in Ids :
    /\ registry[i].pos <= Now
    /\ pc \notin {"wait", "measure", "subs"} => registry[i].pos = Now
    /\ pc = "subs" \/ ~skipped => Unmeasured <= registry[i].pos

\* The entries of a store are of periods up to that of a step.
Behind(values, f, s) == \A i \in DOMAIN values : values[i].pos <= s \div f

MainBehind == Behind(main, Multiple, MainStep)
SubsBehind == \A f \in SubMultiples : Behind(subs[f], f, SubsStep)

\* What a store holds for a period.
Held(values, i, p) ==
  IF i \notin DOMAIN values THEN 0
  ELSE IF values[i].pos = p THEN values[i].open
  ELSE IF values[i].pos = p + 1 THEN values[i].last ELSE 0

\* What is under way from a meter to the stores: the updates of the step that
\* ended last, and of the open one.
EndedStep(i) == IF pc = "update" THEN Now - 1 ELSE registry[i].pos - 1

Ended(i) ==
  IF pc = "update" THEN (IF i \in DOMAIN pending THEN pending[i] ELSE 0)
  ELSE IF Unmeasured < registry[i].pos THEN registry[i].last ELSE 0

Open(i) == IF Unmeasured <= registry[i].pos THEN registry[i].open ELSE 0

In(f, s, p, a) == IF s \div f = p THEN a ELSE 0

UnderWay(f, i, p) ==
  Merge(i, In(f, EndedStep(i), p, Ended(i)), In(f, registry[i].pos, p, Open(i)))

\* Nothing is anywhere that was not recorded, and of a sender that skipped no step
\* nothing is missing that will still be sent.
MainInv ==
  \A i \in Ids, p \in Periods :
    LET total == Merge(i, Held(main, i, p), UnderWay(Multiple, i, p))
    IN  /\ total <= recorded[Multiple][i][p]
        /\ ~skipped /\ MainStep \div Multiple <= p + 1 => total = recorded[Multiple][i][p]

\* After a batch of a frequency that is not sent at its end, the period that was
\* open then is not sent any more.
StillSent(f, p) ==
  /\ SubsStep \div f <= p + 1
  /\ \A b \in SubBatches : b.multiple = f => (b.step - 1) \div f < p

SubsInv ==
  \A f \in SubMultiples, i \in Ids, p \in Periods :
    LET total == Merge(i, Held(subs[f], i, p), UnderWay(f, i, p))
    IN  /\ total <= recorded[f][i][p]
        /\ ~skipped /\ StillSent(f, p) => total = recorded[f][i][p]

\* The batches are of minutes that are over; none is missing if the sender skipped
\* no step.
BatchesInv ==
  /\ batches \in Seq([minute : Nat, values : UNION {[S -> Nat] : S \in SUBSET Ids}])
  /\ \A j \in DOMAIN batches : (batches[j].minute + 1) * Multiple <= MainStep
  /\ ~skipped => \A m \in Nat \ {0} :
       (m + 1) * Multiple <= MainStep => \E b \in Batches : b.minute = m

\* A frequency's turn comes every Multiple steps, if the sender skipped none.
SubBatchesInv ==
  /\ subBatches \in Seq([multiple : SubMultiples, step : Nat \ {0},
                         values : UNION {[S -> Nat] : S \in SUBSET Ids}])
  /\ \A b \in SubBatches : b.multiple <= b.step /\ b.step <= SubsStep
  /\ ~skipped => \A b \in SubBatches :
       \E r \in Nat : r % Multiple = b.multiple - 1 /\ run - r = SubsStep + 1 - b.step

\* What the properties say of the batches for main, ...
MainSent ==
  \A b \in Batches : b.minute \in Minutes =>
    \A i \in Ids : /\ Sent(b, i) <= RecordedInMinute(i, b.minute)
                   /\ ~skipped => Sent(b, i) = RecordedInMinute(i, b.minute)

\* ... and of the subscriptions' results.
SubsSent ==
  \A b \in SubBatches, i \in Ids :
    /\ Sent(b, i) <= RecordedInInterval(b, i)
    /\ ~skipped /\ 2 * b.multiple <= Multiple + 1 => Sent(b, i) = RecordedInInterval(b, i)

\* The part about the subscriptions holds until a step ends during a POST to main.
SubsLoopInv == SubsBehind /\ SubsInv /\ SubBatchesInv /\ SubsSent

LoopInv ==
  /\ ClockInv /\ RegistryInv /\ MainBehind /\ MainInv /\ BatchesInv /\ MainSent
  /\ torn = {} => SubsLoopInv

-----------------------------------------------------------------------------
(* Merging *)

\* What aggregating two values returns, with 0 its neutral element.
LEMMA MergeType ==
  ASSUME NEW i, NEW a \in Nat, NEW b \in Nat
  PROVE  /\ Merge(i, a, b) \in Nat /\ Merge(i, 0, b) = b /\ Merge(i, a, 0) = a
         /\ a <= Merge(i, a, b) /\ b <= Merge(i, a, b)
  BY DEF Merge

\* Values may be aggregated in any order.
LEMMA MergeInAnyOrder ==
  ASSUME NEW i, NEW a \in Nat, NEW b \in Nat, NEW c \in Nat
  PROVE  /\ Merge(i, a, b) = Merge(i, b, a)
         /\ Merge(i, Merge(i, a, b), c) = Merge(i, a, Merge(i, b, c))
  BY DEF Merge

\* Aggregating larger values returns a larger one.
LEMMA MergeMonotone ==
  ASSUME NEW i, NEW a \in Nat, NEW b \in Nat, NEW c \in Nat, NEW d \in Nat, a <= c, b <= d
  PROVE  Merge(i, a, b) <= Merge(i, c, d)
  BY DEF Merge

-----------------------------------------------------------------------------
(* The operations of a store *)

\* An entry of a store, rolled to a period.
LEMMA RolledEntry ==
  ASSUME NEW e \in Entries, NEW q \in Nat
  PROVE  /\ RollTo(e, q) \in Entries
         /\ e.pos < q => /\ RollTo(e, q).pos = q /\ RollTo(e, q).open = 0
                         /\ RollTo(e, q).last = IF e.pos = q - 1 THEN e.open ELSE 0
                         /\ RollTo(e, q).marked = e.marked
         /\ ~(e.pos < q) => RollTo(e, q) = e
  BY DEF RollTo, Entries

\* A meter's bucket, rolled to a step.
LEMMA RolledBucket ==
  ASSUME NEW e \in Buckets, NEW q \in Nat
  PROVE  /\ RollTo(e, q) \in Buckets
         /\ e.pos < q => /\ RollTo(e, q).pos = q /\ RollTo(e, q).open = 0
                         /\ RollTo(e, q).last = IF e.pos = q - 1 THEN e.open ELSE 0
         /\ ~(e.pos < q) => RollTo(e, q) = e
  BY DEF RollTo, Buckets

\* What a store holds is a number.
LEMMA HeldType ==
  ASSUME NEW V, IsStore(V), NEW i, NEW p
  PROVE  Held(V, i, p) \in Nat
  BY DEF Held, IsStore, Entries

Given(ms, i) == IF i \in DOMAIN ms THEN ms[i] ELSE 0

IsGiven(ms) == DOMAIN ms \subseteq Ids /\ \A i \in DOMAIN ms : ms[i] \in Nat

\* What an update adds goes to the period of the step before; only periods that
\* are over are lost.
LEMMA StoreUpdated ==
  ASSUME NEW V, IsStore(V), NEW ms, IsGiven(ms), NEW s \in Nat \ {0}, NEW f \in Nat \ {0},
         Behind(V, f, s - 1)
  PROVE  LET W == UpdateFrom(V, ms, s, f)
         IN  /\ IsStore(W) /\ Behind(W, f, s - 1)
             /\ \A i \in Ids, p \in Nat :
                  LET total == Merge(i, Held(V, i, p), In(f, s - 1, p, Given(ms, i)))
                  IN  /\ Held(W, i, p) <= total
                      /\ (s - 1) \div f <= p + 1 => Held(W, i, p) = total
<1> DEFINE W == UpdateFrom(V, ms, s, f)
           q == (s - 1) \div f
           At(i) == IF i \in DOMAIN V THEN RollTo(V[i], q) ELSE NewEntry(q)
<1>1. q \in Nat
  BY s - 1 \in Nat, DivisionIsMonotone
<1>2. /\ DOMAIN W = DOMAIN V \cup DOMAIN ms
      /\ \A i \in DOMAIN ms : W[i] = [At(i) EXCEPT !.open = Merge(i, At(i).open, ms[i])]
      /\ \A i \in DOMAIN V \ DOMAIN ms : W[i] = V[i]
  BY DEF UpdateFrom
<1>3. \A i \in DOMAIN V : i \in Ids /\ V[i] \in Entries /\ V[i].pos <= q
  BY DEF IsStore, Behind
<1> HIDE DEF q, W
<1>4. ASSUME NEW i \in DOMAIN ms
      PROVE  /\ i \in Ids /\ At(i) \in Entries /\ At(i).pos = q
             /\ W[i] \in Entries /\ W[i].pos = q /\ W[i].last = At(i).last
             /\ W[i].open = Merge(i, At(i).open, ms[i])
             /\ At(i).open \in Nat /\ ms[i] \in Nat
  <2>1. i \in Ids /\ ms[i] \in Nat
    BY DEF IsGiven
  <2>2. At(i) \in Entries /\ At(i).pos = q
    <3>1. CASE i \in DOMAIN V
      <4>1. V[i] \in Entries /\ V[i].pos <= q /\ At(i) = RollTo(V[i], q)
        BY <1>3, <3>1
      <4>2. V[i].pos \in Nat
        BY <4>1 DEF Entries
      <4>3. RollTo(V[i], q) \in Entries
        BY <1>1, <4>1, RolledEntry
      <4>4. RollTo(V[i], q).pos = q
        <5>1. CASE V[i].pos < q
          BY <1>1, <4>1, <5>1, RolledEntry
        <5>2. CASE V[i].pos = q
          BY <1>1, <4>1, <5>2, RolledEntry
        <5> QED BY <1>1, <4>1, <4>2, <5>1, <5>2
      <4> QED BY <4>1, <4>3, <4>4
    <3>2. CASE i \notin DOMAIN V
      BY <1>1, <3>2 DEF NewEntry, Entries
    <3> QED BY <3>1, <3>2
  <2> HIDE DEF At
  <2>3. At(i).open \in Nat
    BY <2>2 DEF Entries
  <2>4. Merge(i, At(i).open, ms[i]) \in Nat
    BY <2>1, <2>3, MergeType
  <2>5. W[i] = [At(i) EXCEPT !.open = Merge(i, At(i).open, ms[i])]
    BY <1>2
  <2> QED BY <2>1, <2>2, <2>3, <2>4, <2>5 DEF Entries
<1>5. IsStore(W) /\ Behind(W, f, s - 1)
  <2>1. \A i \in DOMAIN W : i \in Ids /\ W[i] \in Entries /\ W[i].pos <= q
    BY <1>1, <1>2, <1>3, <1>4
  <2> QED BY <2>1 DEF IsStore, Behind, q
<1>6. ASSUME NEW i \in Ids, NEW p \in Nat
      PROVE  LET total == Merge(i, Held(V, i, p), In(f, s - 1, p, Given(ms, i)))
             IN  /\ Held(W, i, p) <= total
                 /\ q <= p + 1 => Held(W, i, p) = total
  <2>1. Held(V, i, p) \in Nat /\ Held(W, i, p) \in Nat
    BY <1>5, HeldType
  <2>2. CASE i \notin DOMAIN ms
    <3>1. Held(W, i, p) = Held(V, i, p)
      BY <1>2, <2>2 DEF Held
    <3>2. In(f, s - 1, p, Given(ms, i)) = 0
      BY <2>2 DEF In, Given
    <3> QED BY <2>1, <3>1, <3>2, MergeType
  <2>3. CASE i \in DOMAIN ms
    <3>1. In(f, s - 1, p, Given(ms, i)) = IF q = p THEN ms[i] ELSE 0
      BY <2>3 DEF In, Given, q
    <3>2. Held(W, i, p) = IF q = p THEN Merge(i, At(i).open, ms[i])
                          ELSE IF q = p + 1 THEN At(i).last ELSE 0
      <4>1. i \in DOMAIN W
        BY <1>2, <2>3
      <4> HIDE DEF At
      <4> QED BY <1>4, <2>3, <4>1 DEF Held
    <3>3. /\ q = p => At(i).open = Held(V, i, p)
          /\ q = p + 1 => At(i).last = Held(V, i, p)
          /\ q < p => Held(V, i, p) = 0
      <4>1. CASE i \in DOMAIN V
        <5>1. V[i] \in Entries /\ V[i].pos \in Nat /\ V[i].pos <= q
          BY <1>3, <4>1 DEF Entries
        <5>2. At(i) = RollTo(V[i], q)
          BY <4>1
        <5>3. CASE V[i].pos = q
          <6>1. At(i) = V[i]
            BY <1>1, <5>1, <5>2, <5>3, RolledEntry
          <6> QED BY <1>1, <4>1, <5>3, <6>1 DEF Held
        <5>4. CASE V[i].pos < q
          <6>1. At(i).open = 0 /\ At(i).last = IF V[i].pos = q - 1 THEN V[i].open ELSE 0
            BY <1>1, <5>1, <5>2, <5>4, RolledEntry
          <6> HIDE DEF At
          <6> QED BY <1>1, <4>1, <5>1, <5>4, <6>1 DEF Held
        <5> QED BY <1>1, <5>1, <5>3, <5>4
      <4>2. CASE i \notin DOMAIN V
        BY <4>2 DEF Held, NewEntry
      <4> QED BY <4>1, <4>2
    <3>4. At(i).open \in Nat /\ ms[i] \in Nat
      BY <1>4, <2>3
    <3> HIDE DEF At
    <3>5. CASE q = p
      BY <3>1, <3>2, <3>3, <3>5, <2>1
    <3>6. CASE q # p
      <4>1. Merge(i, Held(V, i, p), In(f, s - 1, p, Given(ms, i))) = Held(V, i, p)
        BY <2>1, <3>1, <3>6, MergeType
      <4> QED BY <1>1, <2>1, <3>2, <3>3, <3>6, <4>1
    <3> QED BY <3>5, <3>6
  <2> QED BY <2>2, <2>3
<1> QED BY <1>5, <1>6 DEF q, W

\* A measurement returns what was held for the period before, and loses only that
\* of earlier ones or of a period that is open already.
LEMMA StoreMeasured ==
  ASSUME NEW V, IsStore(V), NEW q \in Nat \ {0}, NEW top \in Nat, top <= q,
         \A i \in DOMAIN V : V[i].pos <= top
  PROVE  LET W == AfterMeasured(V, q)
             values == Measured(V, q)
         IN  /\ IsStore(W) /\ \A i \in DOMAIN W : W[i].pos <= q
             /\ values \in UNION {[S -> Nat] : S \in SUBSET Ids}
             /\ \A i \in Ids : Given(values, i) = Held(V, i, q - 1)
             /\ \A i \in Ids, p \in Nat :
                  /\ Held(W, i, p) <= Held(V, i, p)
                  /\ q <= p + 1 /\ (p = q => top < q) => Held(W, i, p) = Held(V, i, p)
<1> DEFINE W == AfterMeasured(V, q)
           values == Measured(V, q)
           At(i) == RollTo(V[i], q)
<1>1. ASSUME NEW i \in DOMAIN V
      PROVE  /\ i \in Ids /\ V[i] \in Entries /\ V[i].pos \in Nat /\ V[i].pos <= q
             /\ At(i) \in Entries /\ At(i).pos = q /\ At(i).last \in Nat
             /\ V[i].pos = q => At(i) = V[i]
             /\ V[i].pos < q => At(i).open = 0
             /\ V[i].pos < q => At(i).last = IF V[i].pos = q - 1 THEN V[i].open ELSE 0
  <2>1. i \in Ids /\ V[i] \in Entries /\ V[i].pos <= top
    BY DEF IsStore
  <2>2. V[i].pos \in Nat /\ V[i].pos <= q
    BY <2>1 DEF Entries
  <2>3. At(i) \in Entries /\ At(i).pos = q
    BY <2>1, <2>2, RolledEntry
  <2>4. At(i).last \in Nat
    BY <2>3 DEF Entries
  <2> QED BY <2>1, <2>2, <2>3, <2>4, RolledEntry
<1>2. /\ DOMAIN W = {i \in DOMAIN V : At(i).last > 0 \/ ~V[i].marked}
      /\ \A i \in DOMAIN W : W[i] = [At(i) EXCEPT !.marked = ~(At(i).last > 0)]
  BY DEF AfterMeasured, HasValue
<1>3. /\ DOMAIN values = {i \in DOMAIN V : At(i).last > 0}
      /\ \A i \in DOMAIN values : values[i] = At(i).last
      /\ values = [i \in DOMAIN values |-> values[i]]
  BY DEF Measured, HasValue
<1>4. ASSUME NEW i \in Ids
      PROVE  Held(V, i, q - 1) = IF i \in DOMAIN V THEN At(i).last ELSE 0
  BY <1>1 DEF Held
<1> HIDE DEF At, W, values
<1>5. ASSUME NEW i \in DOMAIN W
      PROVE  /\ i \in DOMAIN V /\ W[i] \in Entries
             /\ W[i].pos = q /\ W[i].open = At(i).open /\ W[i].last = At(i).last
  <2>1. i \in DOMAIN V /\ At(i) \in Entries /\ At(i).pos = q
    BY <1>1, <1>2
  <2>2. (~(At(i).last > 0)) \in BOOLEAN
    OBVIOUS
  <2> QED BY <1>2, <2>1, <2>2 DEF Entries
<1>6. IsStore(W) /\ \A i \in DOMAIN W : W[i].pos <= q
  BY <1>1, <1>5 DEF IsStore
<1>7. values \in UNION {[S -> Nat] : S \in SUBSET Ids}
  <2>1. DOMAIN values \in SUBSET Ids /\ \A i \in DOMAIN values : values[i] \in Nat
    BY <1>1, <1>3
  <2>2. values \in [DOMAIN values -> Nat]
    BY <1>3, <2>1
  <2> QED BY <2>1, <2>2
<1>8. \A i \in Ids : Given(values, i) = Held(V, i, q - 1)
  <2> SUFFICES ASSUME NEW i \in Ids PROVE Given(values, i) = Held(V, i, q - 1)
    OBVIOUS
  <2>1. CASE i \in DOMAIN values
    BY <1>3, <1>4, <2>1 DEF Given
  <2>2. CASE i \in DOMAIN V \ DOMAIN values
    BY <1>1, <1>3, <1>4, <2>2 DEF Given
  <2>3. CASE i \notin DOMAIN V
    BY <1>3, <1>4, <2>3 DEF Given
  <2> QED BY <2>1, <2>2, <2>3
<1>9. ASSUME NEW i \in Ids, NEW p \in Nat
      PROVE  /\ Held(W, i, p) <= Held(V, i, p)
             /\ q <= p + 1 /\ (p = q => top < q) => Held(W, i, p) = Held(V, i, p)
  <2>1. Held(V, i, p) \in Nat
    BY HeldType
  <2>2. CASE i \in DOMAIN W
    <3>1. i \in DOMAIN V /\ Held(W, i, p) = IF q = p THEN At(i).open
                                            ELSE IF q = p + 1 THEN At(i).last ELSE 0
      BY <1>5, <2>2 DEF Held
    <3>2. CASE q = p + 1
      <4>1. q - 1 = p
        BY <3>2
      <4> QED BY <1>4, <2>1, <3>1, <3>2, <4>1
    <3>3. CASE q = p
      <4>1. Held(V, i, p) = IF V[i].pos = q THEN V[i].open ELSE 0
        BY <1>1, <3>1, <3>3 DEF Held
      <4>2. Held(W, i, p) = At(i).open
        BY <3>1, <3>3
      <4>3. At(i).open = Held(V, i, p)
        <5>1. CASE V[i].pos = q
          BY <1>1, <3>1, <4>1, <5>1
        <5>2. CASE V[i].pos < q
          BY <1>1, <3>1, <4>1, <5>2
        <5> QED BY <1>1, <3>1, <5>1, <5>2
      <4> QED BY <2>1, <4>2, <4>3
    <3>4. CASE q # p /\ q # p + 1
      <4>1. q < p => Held(V, i, p) = 0
        BY <1>1, <3>1 DEF Held
      <4> QED BY <2>1, <3>1, <3>4, <4>1
    <3> QED BY <3>2, <3>3, <3>4
  <2>3. CASE i \notin DOMAIN W
    <3>1. Held(W, i, p) = 0
      BY <2>3 DEF Held
    <3>2. CASE i \in DOMAIN V
      <4>1. At(i).last = 0
        BY <1>1, <1>2, <2>3, <3>2
      <4>2. q = p + 1 => Held(V, i, p) = 0
        BY <1>4, <3>2, <4>1
      <4>3. q <= p /\ (p = q => top < q) => V[i].pos < p
        BY <1>1, <3>2 DEF Entries
      <4>4. V[i].pos < p => Held(V, i, p) = 0
        BY <1>1, <3>2 DEF Held
      <4> QED BY <2>1, <3>1, <4>2, <4>3, <4>4
    <3>3. CASE i \notin DOMAIN V
      BY <3>1, <3>3 DEF Held
    <3> QED BY <3>2, <3>3
  <2> QED BY <2>2, <2>3
<1> QED BY <1>6, <1>7, <1>8, <1>9 DEF W, values

-----------------------------------------------------------------------------
(* Types *)

\* What the offset of the clock depends on.
OffsetInv ==
  /\ Minute <= now /\ now <= MaxTime /\ Minute <= now + offset
  /\ phase \in {"flush1", "flush2"} => pc # "wait"
  /\ phase = "flush1" => offset < prevStep

\* What is assumed of the constants, and of the minute.
LEMMA Constants ==
  /\ StepTicks \in Nat \ {0} /\ Multiple \in Nat \ {0} /\ Minute \in Nat \ {0}
  /\ StepTicks <= Minute /\ 2 * Minute <= MaxTime
  /\ MaxTime \in Nat /\ Slack \in Nat /\ MaxBusy \in Nat
  /\ SubMultiples \subseteq 1..Multiple /\ Amounts \subseteq Nat
<1>1. StepTicks \in Nat \ {0} /\ Multiple \in Nat \ {0}
  BY SendLoopAssumption
<1>2. StepTicks * Multiple \in Nat \ {0} /\ StepTicks <= StepTicks * Multiple
  <2>1. CASE Multiple = 1
    BY <1>1, <2>1
  <2>2. CASE 1 < Multiple
    BY <1>1, <2>2, Factors, 1 \in Nat
  <2> QED BY <1>1, <2>1, <2>2
<1> QED BY <1>1, <1>2, SendLoopAssumption DEF Minute

\* Every frequency is of one step at least, and of a minute at most.
LEMMA FrequenciesArePositive ==
  ASSUME NEW f \in Frequencies
  PROVE  f \in Nat \ {0} /\ f <= Multiple
  BY Constants DEF Frequencies

\* The step of the wall clock is not the first one there ever was.
LEMMA WallStepType ==
  ASSUME NEW t \in Nat, Minute <= t
  PROVE  t \div StepTicks \in Nat \ {0} /\ t \div StepTicks - 1 \in Nat
<1>1. (0 + StepTicks) \div StepTicks = 0 \div StepTicks + 1
  BY Constants, NextInterval
<1>2. 0 \div StepTicks = 0
  BY Constants, Quotient
<1>3. StepTicks \div StepTicks = 1
  BY <1>1, <1>2, Constants
<1>4. t \div StepTicks \in Nat /\ 1 <= t \div StepTicks
  BY <1>3, Constants, DivisionIsMonotone
<1> QED BY <1>4

\* The operations of a store keep its type.
LEMMA StoreTypes ==
  ASSUME NEW V, IsStore(V), NEW ms, IsGiven(ms), NEW s \in Nat \ {0}, NEW f \in Nat \ {0},
         NEW q \in Nat
  PROVE  IsStore(UpdateFrom(V, ms, s, f)) /\ IsStore(AfterMeasured(V, q))
<1> DEFINE p == (s - 1) \div f
           W == UpdateFrom(V, ms, s, f)
           At(i) == IF i \in DOMAIN V THEN RollTo(V[i], p) ELSE NewEntry(p)
<1>1. p \in Nat
  BY s - 1 \in Nat, DivisionIsMonotone
<1>2. /\ DOMAIN W = DOMAIN V \cup DOMAIN ms
      /\ \A i \in DOMAIN ms : W[i] = [At(i) EXCEPT !.open = Merge(i, At(i).open, ms[i])]
      /\ \A i \in DOMAIN V \ DOMAIN ms : W[i] = V[i]
  BY DEF UpdateFrom
<1>3. \A i \in DOMAIN V : i \in Ids /\ V[i] \in Entries
  BY DEF IsStore
<1> HIDE DEF p, W
<1>4. ASSUME NEW i \in DOMAIN ms PROVE i \in Ids /\ W[i] \in Entries
  <2>1. i \in Ids /\ ms[i] \in Nat
    BY DEF IsGiven
  <2>2. At(i) \in Entries
    <3>1. CASE i \in DOMAIN V
      BY <1>1, <1>3, <3>1, RolledEntry
    <3>2. CASE i \notin DOMAIN V
      BY <1>1, <3>2 DEF NewEntry, Entries
    <3> QED BY <3>1, <3>2
  <2> HIDE DEF At
  <2>3. At(i).open \in Nat
    BY <2>2 DEF Entries
  <2>4. Merge(i, At(i).open, ms[i]) \in Nat
    BY <2>1, <2>3, MergeType
  <2> QED BY <1>2, <2>1, <2>2, <2>4 DEF Entries
<1>5. IsStore(W)
  BY <1>2, <1>3, <1>4 DEF IsStore
<1>6. IsStore(AfterMeasured(V, q))
  <2>1. ASSUME NEW i \in DOMAIN V
        PROVE  [RollTo(V[i], q) EXCEPT !.marked = ~HasValue(V[i], q)] \in Entries
    <3>1. RollTo(V[i], q) \in Entries
      BY <1>3, RolledEntry
    <3>2. (~HasValue(V[i], q)) \in BOOLEAN
      BY DEF HasValue
    <3> QED BY <3>1, <3>2 DEF Entries
  <2> QED BY <1>3, <2>1 DEF IsStore, AfterMeasured
<1> QED BY <1>5, <1>6 DEF W

\* An update keeps the types of the meters and of the history.
LEMMA RecordTyping ==
  ASSUME TypeOK, OffsetInv, NEW i \in Ids, NEW a \in Amounts, Record(i, a)
  PROVE  /\ registry' \in [Ids -> Buckets]
         /\ recorded' \in [Frequencies -> [Ids -> [Periods -> Nat]]]
<1>1. a \in Nat
  BY Constants
<1>2. registry' \in [Ids -> Buckets]
  <2>1. WallStep \in Nat
    <3>1. WallTime \in Nat
      BY Constants DEF TypeOK, OffsetInv, WallTime
    <3> QED BY <3>1, Constants, DivisionIsMonotone DEF WallStep
  <2>2. registry[i] \in Buckets
    BY DEF TypeOK
  <2>3. RollTo(registry[i], WallStep) \in Buckets
    BY <2>1, <2>2, RolledBucket
  <2> DEFINE b == RollTo(registry[i], WallStep)
  <2>4. /\ b \in Buckets
        /\ registry' = [registry EXCEPT ![i] = [b EXCEPT !.open = Merge(i, b.open, a)]]
    <3>1. b \in Buckets
      BY <2>3
    <3>2. registry' = [registry EXCEPT ![i] =
                         [RollTo(registry[i], WallStep) EXCEPT
                            !.open = Merge(i, RollTo(registry[i], WallStep).open, a)]]
      BY DEF Record
    <3> QED BY <3>1, <3>2
  <2> HIDE DEF b
  <2>5. b.open \in Nat
    BY <2>4 DEF Buckets
  <2>6. Merge(i, b.open, a) \in Nat
    BY <1>1, <2>5, MergeType
  <2>7. [b EXCEPT !.open = Merge(i, b.open, a)] \in Buckets
    BY <2>4, <2>6 DEF Buckets
  <2> QED BY <2>4, <2>7 DEF TypeOK
<1>3. ASSUME NEW f \in Frequencies
      PROVE  [recorded[f] EXCEPT ![i][(now \div StepTicks) \div f] =
                Merge(i, @, a)] \in [Ids -> [Periods -> Nat]]
  <2>1. recorded[f] \in [Ids -> [Periods -> Nat]]
    BY DEF TypeOK
  <2> DEFINE p == (now \div StepTicks) \div f
  <2>2. p \in Periods => Merge(i, recorded[f][i][p], a) \in Nat
    <3> HIDE DEF p
    <3>1. ASSUME p \in Periods PROVE recorded[f][i][p] \in Nat
      BY <2>1, <3>1
    <3> QED BY <1>1, <3>1, MergeType
  <2> HIDE DEF p
  <2>3. [recorded[f] EXCEPT ![i][p] = Merge(i, recorded[f][i][p], a)]
          \in [Ids -> [Periods -> Nat]]
    BY <2>1, <2>2
  <2> QED BY <2>3 DEF p
<1> QED BY <1>2, <1>3 DEF Record

FlagsOK == shouldRun \in BOOLEAN /\ notified \in BOOLEAN /\ skipped \in BOOLEAN

\* The flags stay Boolean.
LEMMA FlagTyping == FlagsOK /\ [Next]_vars => FlagsOK'
<1> SUFFICES ASSUME FlagsOK, [Next]_vars PROVE FlagsOK'
  OBVIOUS
<1> USE DEF FlagsOK, stopping, history
<1>1. CASE Tick
  BY <1>1, Zenon DEF Tick
<1>2. CASE Stop
  BY <1>2, Zenon DEF Stop
<1>3. CASE Start
  BY <1>3, Zenon DEF Start
<1>4. CASE UNCHANGED <<stopping, skipped>>
  BY <1>4
<1>5. CASE Run
  <2>1. UNCHANGED <<stopping, skipped>>
    BY <1>5 DEF Run, Wake, Join, Measure, UpdateRegistries, CheckWindow, TakeTimestamp,
                SendToMain, SendSubsAndWait, EndFlush
  <2> QED BY <1>4, <2>1
<1>6. CASE \E i \in Ids, a \in Amounts : Record(i, a)
  BY <1>4, <1>6 DEF Record
<1> QED BY <1>1, <1>2, <1>3, <1>4, <1>5, <1>6 DEF Next, vars

\* Every action keeps the types.
LEMMA Typing ==
  ASSUME TypeOK, OffsetInv, [Next]_vars
  PROVE  TypeOK' /\ OffsetInv'
<1> USE DEF TypeOK, OffsetInv, Calls, stopping, registries, sender, history
<1>w. /\ WallTime \in Nat /\ WallStep \in Nat \ {0}
      /\ \A f \in Nat \ {0} : WallStep \div f \in Nat
      /\ WallTime \div Minute \in Nat
  <2>1. WallTime \in Nat /\ Minute <= WallTime
    BY Constants DEF WallTime
  <2>2. WallStep \in Nat \ {0}
    BY <2>1, WallStepType DEF WallStep
  <2>3. ASSUME NEW f \in Nat \ {0} PROVE WallStep \div f \in Nat
    <3>1. f \in Nat \ {0}
      OBVIOUS
    <3> QED BY ONLY <2>2, <3>1, DivisionIsMonotone
  <2>4. WallTime \div Minute \in Nat
    BY <2>1, Constants, DivisionIsMonotone
  <2> QED BY <2>1, <2>2, <2>3, <2>4
<1>m. \A f \in SubMultiples : f \in Nat \ {0}
  BY Constants
<1>f. shouldRun' \in BOOLEAN /\ notified' \in BOOLEAN /\ skipped' \in BOOLEAN
  BY FlagTyping DEF FlagsOK
<1>1. CASE UNCHANGED vars
  BY <1>1 DEF vars
<1>2. CASE Tick
  <2>1. /\ now' = now + 1 /\ now < MaxTime /\ UNCHANGED <<offset, phase, pc, prevStep>>
    BY <1>2 DEF Tick
  <2>c. busy' \in Nat /\ torn' \subseteq Calls
    <3>1. CASE pc = "wait"
      BY <1>2, <3>1 DEF Tick
    <3>2. CASE pc # "wait"
      <4>1. busy' = busy + 1 /\ torn' \subseteq torn \cup {pc}
        BY <1>2, <3>2 DEF Tick
      <4>2. pc \in Calls /\ torn \subseteq Calls /\ busy \in Nat
        BY <3>2
      <4> QED BY ONLY <4>1, <4>2
    <3> QED BY <3>1, <3>2
  <2>2. WallTime' = WallTime + 1
    BY <2>1 DEF WallTime
  <2>3. OffsetInv'
    BY <1>w, <2>1, <2>2, Constants
  <2> QED BY <1>2, <1>f, <2>1, <2>c, <2>3 DEF Tick
<1>3. ASSUME NEW i \in Ids, NEW a \in Amounts, Record(i, a)
      PROVE  TypeOK' /\ OffsetInv'
  <2>1. /\ registry' \in [Ids -> Buckets]
        /\ recorded' \in [Frequencies -> [Ids -> [Periods -> Nat]]]
    BY <1>3, RecordTyping
  <2> QED BY <1>3, <1>f, <2>1 DEF Record
<1>4. CASE Stop
  BY <1>4, <1>f DEF Stop
<1>5. CASE Start
  BY <1>5, <1>f DEF Start
<1>6. CASE Wake
  BY <1>6 DEF Wake
<1>7. CASE Join
  <2>1. PICK q \in Nat : /\ WallTime \div Minute = q /\ Minute * q \in Nat
                         /\ Minute * q <= WallTime /\ WallTime < Minute * q + Minute
    BY <1>w, Constants, Division
  <2>2. (WallTime \div Minute) * Minute = Minute * q
    BY <2>1, Constants
  <2>3. prevStep' = Minute * q /\ UNCHANGED <<now, offset>>
    BY <1>7, <2>2 DEF Join
  <2>4. prevStep' \in Nat /\ offset < prevStep'
    BY <2>1, <2>3, Constants DEF WallTime
  <2> QED BY <1>7, <2>3, <2>4 DEF Join, WallTime
<1>8. CASE Measure
  <2>1. ASSUME NEW i \in Ids PROVE RollTo(registry[i], WallStep) \in Buckets
    BY <1>w, RolledBucket
  <2>2. registry' \in [Ids -> Buckets]
    BY <1>8, <2>1 DEF Measure
  <2>3. \A i \in Ids : registry'[i].last \in Nat
    BY <2>2 DEF Buckets
  <2>4. DOMAIN pending' \subseteq Ids /\ \A i \in DOMAIN pending' : pending'[i] \in Nat
    BY <1>8, <2>3 DEF Measure
  <2> QED BY <1>8, <2>2, <2>4 DEF Measure
<1>9. CASE UpdateRegistries
  <2>1. IsGiven(pending)
    BY DEF IsGiven
  <2>2. IsStore(main') /\ \A f \in SubMultiples : IsStore(subs'[f])
    BY <1>9, <1>w, <1>m, <2>1, Constants, StoreTypes DEF UpdateRegistries
  <2>3. DOMAIN subs' = SubMultiples
    BY <1>9 DEF UpdateRegistries
  <2> QED BY <1>9, <2>2, <2>3 DEF UpdateRegistries
<1>10. CASE CheckWindow
  BY <1>10 DEF CheckWindow
<1>11. CASE TakeTimestamp
  BY <1>11, <1>w DEF TakeTimestamp
<1>e. IsGiven(Empty)
  BY DEF Empty, IsGiven
<1>12. CASE SendToMain
  <2>1. IsStore(main')
    BY <1>12, <1>w, <1>e, Constants, StoreTypes DEF SendToMain
  <2> QED BY <1>12, <2>1 DEF SendToMain
<1>13. CASE SendSubsAndWait
  <2>1. \A f \in SubMultiples : IsStore(subs'[f])
    <3> SUFFICES ASSUME NEW f \in SubMultiples PROVE IsStore(subs'[f])
      OBVIOUS
    <3>1. subs'[f] = subs[f] \/ subs'[f] = AfterMeasured(subs[f], WallStep \div f)
      <4>1. CASE f = (run % Multiple) + 1
        BY <1>13, <4>1 DEF SendSubsAndWait
      <4>2. CASE f # (run % Multiple) + 1
        BY <1>13, <4>2 DEF SendSubsAndWait
      <4> QED BY <4>1, <4>2
    <3> QED BY <1>w, <1>m, <1>e, <3>1, StoreTypes
  <2>2. deadline' \in Nat /\ run' \in Nat
    <3>1. /\ deadline' = IF start + StepTicks > now THEN start + StepTicks ELSE now + 1
          /\ run' = run + 1
      BY <1>13 DEF SendSubsAndWait
    <3>2. start \in Nat /\ StepTicks \in Nat /\ now \in Nat /\ run \in Nat
      BY Constants
    <3> QED BY ONLY <3>1, <3>2
  <2> QED BY <1>13, <2>1, <2>2 DEF SendSubsAndWait
<1>14. CASE EndFlush
  <2>1. \A f \in SubMultiples : IsStore(subs'[f])
    BY <1>14, <1>w, <1>m, <1>e, StoreTypes DEF EndFlush
  <2>2. CASE phase = "flush1"
    <3>1. /\ offset' = Minute - (WallTime - prevStep) /\ phase' = "flush2"
          /\ pc' = "measure" /\ start' = now /\ now' = now
      BY <1>14, <2>2 DEF EndFlush
    <3>2. offset' \in Int /\ Minute <= now' + offset'
      <4>1. /\ offset' = Minute - ((now + offset) - prevStep) /\ offset < prevStep
            /\ Minute \in Nat /\ now \in Nat /\ offset \in Int /\ prevStep \in Nat
        BY <2>2, <3>1, Constants DEF WallTime
      <4> QED BY ONLY <3>1, <4>1
    <3> QED BY <1>14, <2>1, <3>1, <3>2 DEF EndFlush
  <2>3. CASE phase = "flush2"
    <3>1. phase' = "stopped" /\ pc' = "wait" /\ UNCHANGED <<now, offset, start>>
      BY <1>14, <2>3 DEF EndFlush
    <3> QED BY <1>14, <2>1, <3>1 DEF EndFlush, WallTime
  <2> QED BY <1>14, <2>2, <2>3 DEF EndFlush
<1> QED BY <1>1, <1>2, <1>3, <1>4, <1>5, <1>6, <1>7, <1>8, <1>9, <1>10, <1>11, <1>12,
        <1>13, <1>14 DEF Next, Run

\* The initial values have their types.
LEMMA InitialTypes == Init => TypeOK /\ OffsetInv
<1> SUFFICES ASSUME Init PROVE TypeOK /\ OffsetInv
  OBVIOUS
<1>1. now \in Nat /\ Minute <= now /\ now <= MaxTime
  BY Constants DEF Init
<1>2. now \div StepTicks \in Nat
  BY <1>1, Constants, DivisionIsMonotone
<1>3. registry \in [Ids -> Buckets]
  BY <1>2 DEF Init, Buckets
<1>4. /\ IsStore(main)
      /\ DOMAIN subs = SubMultiples /\ \A f \in SubMultiples : IsStore(subs[f])
  BY DEF Init, Empty, IsStore
<1>5. shouldRun \in BOOLEAN /\ notified \in BOOLEAN /\ skipped \in BOOLEAN
  BY Zenon DEF Init
<1>6. {start, deadline, run, timestamp, prevStep, records, stops, busy} \subseteq Nat
  BY <1>1 DEF Init
<1>7. DOMAIN pending \subseteq Ids /\ \A i \in DOMAIN pending : pending[i] \in Nat
  BY DEF Init
<1>8. recorded \in [Frequencies -> [Ids -> [Periods -> Nat]]]
  BY DEF Init
<1> QED BY <1>1, <1>3, <1>4, <1>5, <1>6, <1>7, <1>8 DEF Init, TypeOK, OffsetInv, WallTime

\* Every variable keeps its type, and the clock stays past the first minute.
THEOREM TypeCorrect == Spec => [](TypeOK /\ OffsetInv)
<1>1. TypeOK /\ OffsetInv /\ [Next]_vars => (TypeOK /\ OffsetInv)'
  BY Typing
<1> QED BY <1>1, InitialTypes, PTL DEF Spec

-----------------------------------------------------------------------------
(* The steps of the loop in time *)

\* Where the steps that are spoken of lie.
LEMMA StepsOfLoop ==
  ASSUME TypeOK, ClockInv
  PROVE  /\ WallTime = now /\ WallStep = Now
         /\ Now \in Nat \ {0} /\ Unmeasured \in Nat
         /\ MainStep \in Nat /\ SubsStep \in Nat
         /\ pc = "wait" => Unmeasured <= Now
         /\ pc = "wait" /\ deadline <= now => Unmeasured < Now
         /\ pc \in {"wait", "subs"} /\ ~skipped => Now <= Unmeasured + 1
         /\ pc = "measure" => Unmeasured = Now - 1
         /\ pc \notin {"wait", "measure", "subs"} => Unmeasured = Now
         /\ pc = "subs" => Unmeasured <= Now /\ (torn = {} => Unmeasured = Now)
         /\ Unmeasured <= Now
<1>1. now \in Nat /\ start \in Nat /\ deadline \in Nat /\ Minute <= start /\ start <= now
  BY DEF TypeOK, ClockInv
<1>2. WallTime = now /\ WallStep = Now
  BY <1>1 DEF ClockInv, WallTime, WallStep, Now
<1> DEFINE s == start \div StepTicks
           d == deadline \div StepTicks
<1>3. Minute <= now
  BY <1>1, Constants
<1>4. Now \in Nat \ {0} /\ s \in Nat \ {0}
  BY <1>1, <1>3, WallStepType DEF Now
<1>5. s <= Now
  BY <1>1, Constants, DivisionIsMonotone DEF Now
<1>6. d \in Nat /\ (deadline <= now => d <= Now)
  BY <1>1, Constants, DivisionIsMonotone DEF Now
<1>7. pc \notin {"wait", "subs"} \/ (pc = "subs" /\ torn = {}) => Now = s
  BY DEF ClockInv
<1>8. pc = "wait" => Unmeasured + 1 <= d
  BY DEF ClockInv
<1>9. pc \in {"wait", "subs"} /\ ~skipped => Now <= Unmeasured + 1
  BY DEF ClockInv
<1>10. Unmeasured = IF pc = "measure" \/ (pc = "wait" /\ run = 0) THEN s - 1 ELSE s
  BY DEF Unmeasured
<1> HIDE DEF s, d
<1>11. Unmeasured \in Nat /\ (pc = "measure" => Unmeasured = Now - 1) /\ Unmeasured <= Now
  BY <1>4, <1>5, <1>7, <1>10
<1>12. /\ pc \notin {"wait", "measure", "subs"} => Unmeasured = Now
       /\ pc = "subs" /\ torn = {} => Unmeasured = Now
  BY <1>7, <1>10
<1>13. MainStep \in Nat /\ SubsStep \in Nat
  BY <1>4, <1>10, <1>11 DEF MainStep, SubsStep
<1> QED BY <1>2, <1>4, <1>6, <1>8, <1>9, <1>11, <1>12, <1>13

\* A later tick is not in an earlier step.
LEMMA LaterStep ==
  ASSUME NEW a \in Nat, NEW b \in Nat, a <= b
  PROVE  a \div StepTicks <= b \div StepTicks
  BY Constants, DivisionIsMonotone

\* The clock's part of the invariant, by what changes it.
LEMMA ClockStep ==
  ASSUME Whole', TypeOK, TypeOK', LoopInv, stops = 0, stops' = 0, [Next]_vars
  PROVE  /\ ClockInv'
         /\ phase = "loop" /\ Now \in Nat /\ Now' \in Nat /\ Now <= Now'
         /\ (~skipped' => ~skipped) /\ (torn' = {} => torn = {})
         /\ \/ UNCHANGED vars
            \/ /\ Tick /\ UNCHANGED <<Unmeasured, MainStep, SubsStep>>
               /\ pc \notin {"wait", "subs"} \/ (pc = "subs" /\ torn' = {}) => Now' = Now
            \/ Now' = Now /\ \/ /\ \E i \in Ids, a \in Amounts : Record(i, a)
                                /\ UNCHANGED <<Unmeasured, MainStep, SubsStep>>
                             \/ /\ Wake /\ Unmeasured <= Unmeasured'
                                /\ MainStep' = Unmeasured' /\ SubsStep' = Unmeasured'
                                /\ ~skipped => Unmeasured' = Unmeasured
                             \/ /\ Measure /\ Unmeasured' = Now
                                /\ UNCHANGED <<MainStep, SubsStep>>
                             \/ /\ (UpdateRegistries \/ TakeTimestamp)
                                /\ UNCHANGED <<Unmeasured, MainStep, SubsStep>>
                             \/ /\ CheckWindow /\ UNCHANGED <<Unmeasured, SubsStep>>
                                /\ IF Now % Multiple = 0 THEN MainStep' = MainStep
                                                         ELSE MainStep' = Now
                             \/ /\ SendToMain /\ UNCHANGED <<Unmeasured, SubsStep>>
                                /\ MainStep' = Now
                             \/ /\ SendSubsAndWait /\ UNCHANGED <<Unmeasured, MainStep>>
                                /\ SubsStep' = Unmeasured
<1> USE DEF stopping, registries, sender, history
<1>1. /\ ClockInv /\ phase = "loop" /\ shouldRun /\ offset = 0
      /\ WallTime = now /\ WallStep = Now /\ Now \in Nat \ {0} /\ Unmeasured \in Nat
      /\ pc = "wait" /\ deadline <= now => Unmeasured < Now
      /\ pc \in {"wait", "subs"} /\ ~skipped => Now <= Unmeasured + 1
      /\ pc = "measure" => Unmeasured = Now - 1
      /\ pc \notin {"wait", "measure", "subs"} => Unmeasured = Now
      /\ Unmeasured <= Now
  BY StepsOfLoop DEF LoopInv, ClockInv
<1>2. /\ now \in Nat /\ now' \in Nat /\ start \in Nat /\ deadline \in Nat
      /\ run \in Nat /\ MaxTime \in Nat
  BY Constants DEF TypeOK
<1>3. CASE UNCHANGED vars
  <2>1. ClockInv'
    BY <1>1, <1>3 DEF vars, ClockInv, Now, Unmeasured
  <2> QED BY <1>1, <1>3, <2>1 DEF vars, Now
<1>4. CASE Tick
  <2>1. /\ now' = now + 1 /\ now <= MaxTime - 1
        /\ UNCHANGED <<phase, pc, start, deadline, run, offset, shouldRun, timestamp>>
    BY <1>1, <1>2, <1>4 DEF Tick
  <2>2. Now <= Now' /\ Now' \in Nat /\ Now' <= Now + 1
    <3>1. (now + StepTicks) \div StepTicks = Now + 1
      BY <1>2, Constants, NextInterval DEF Now
    <3>2. now <= now' /\ now' <= now + StepTicks /\ now + StepTicks \in Nat
      BY <1>2, <2>1, Constants
    <3> QED BY <1>2, <3>1, <3>2, Constants, DivisionIsMonotone DEF Now
  <2>3. UNCHANGED <<Unmeasured, MainStep, SubsStep>>
    BY <2>1 DEF Unmeasured, MainStep, SubsStep
  <2>4. StepEnds \/ Now' = Now
    <3>1. StepEnds <=> Now' > Now
      BY <1>1, <1>2, <2>1 DEF StepEnds, Now
    <3> QED BY <1>1, <2>2, <3>1
  <2>5. /\ ~skipped' => ~skipped
        /\ ~skipped' /\ StepEnds => RunBegan
    BY <1>1, <1>4, Zenon DEF Tick
  <2>6. pc # "wait" => torn' = IF StepEnds THEN torn \cup {pc} ELSE torn
    BY <1>4 DEF Tick
  <2>7. pc = "wait" => torn' = torn
    BY <1>4 DEF Tick
  <2>8. torn' = {} => torn = {}
    BY <2>6, <2>7
  <2>9. pc \notin {"wait", "subs"} \/ (pc = "subs" /\ torn' = {}) => Now' = Now
    BY <2>4, <2>6 DEF Whole
  <2>10. pc \in {"wait", "subs"} /\ ~skipped' => Now' <= Unmeasured + 1
    <3>1. RunBegan /\ pc \in {"wait", "subs"} => Unmeasured = Now
      BY <1>2, Constants DEF RunBegan, Unmeasured, Now
    <3> QED BY <1>1, <2>2, <2>4, <2>5, <3>1
  <2>11. ClockInv'
    <3>1. /\ Minute <= start' /\ start' <= now' /\ now' <= MaxTime
          /\ phase' = "loop" /\ offset' = 0 /\ shouldRun'
      BY <1>1, <1>2, <2>1, Constants DEF ClockInv
    <3>2. pc' \notin {"wait", "subs"} \/ (pc' = "subs" /\ torn' = {}) =>
            Now' = start' \div StepTicks
      BY <1>1, <2>1, <2>8, <2>9 DEF ClockInv
    <3>3. /\ pc' = "wait" => Unmeasured' + 1 <= deadline' \div StepTicks
          /\ pc' \in {"wait", "subs"} /\ ~skipped' => Now' <= Unmeasured' + 1
      BY <1>1, <2>1, <2>3, <2>10 DEF ClockInv
    <3>4. /\ pc' \in {"stamp", "send"} => Now' % Multiple = 0
          /\ pc' = "send" => timestamp' = Now' \div Multiple
      BY <1>1, <2>1, <2>9 DEF ClockInv
    <3> QED BY <3>1, <3>2, <3>3, <3>4 DEF ClockInv
  <2> QED BY <1>1, <1>4, <2>2, <2>3, <2>5, <2>8, <2>9, <2>11
<1>5. ASSUME NEW i \in Ids, NEW a \in Amounts, Record(i, a)
      PROVE  /\ ClockInv' /\ Now' = Now /\ skipped' = skipped /\ torn' = torn
             /\ UNCHANGED <<Unmeasured, MainStep, SubsStep>>
  BY <1>1, <1>5 DEF Record, ClockInv, Now, Unmeasured, MainStep, SubsStep
<1>6. CASE Stop \/ Start \/ Join \/ EndFlush
  BY <1>1, <1>6 DEF Stop, Start, Join, EndFlush, TypeOK
<1>7. CASE Wake
  <2>1. /\ pc = "wait" /\ deadline <= now /\ pc' = "measure" /\ start' = now
        /\ UNCHANGED <<now, skipped, torn, phase, offset, shouldRun>>
    BY <1>7, <1>2 DEF Wake
  <2>2. Now' = Now /\ Unmeasured' = Now - 1
    BY <2>1 DEF Now, Unmeasured
  <2>3. MainStep' = Unmeasured' /\ SubsStep' = Unmeasured'
    BY <2>1 DEF MainStep, SubsStep
  <2>4. ClockInv'
    <3>1. start' \div StepTicks = Now'
      BY <2>1 DEF Now
    <3> QED BY <1>1, <1>2, <2>1, <3>1, Constants DEF ClockInv
  <2>5. Unmeasured <= Unmeasured' /\ (~skipped => Unmeasured' = Unmeasured)
    BY <1>1, <2>1, <2>2
  <2> QED BY <1>1, <1>7, <2>1, <2>2, <2>3, <2>4, <2>5
<1>8. CASE Measure \/ UpdateRegistries \/ TakeTimestamp
  <2>1. /\ UNCHANGED <<now, skipped, torn, phase, offset, shouldRun, start, deadline, run>>
        /\ Now' = Now
    BY <1>8 DEF Measure, UpdateRegistries, TakeTimestamp, Now
  <2>2. /\ Measure => pc = "measure" /\ pc' = "update"
        /\ UpdateRegistries => pc = "update" /\ pc' = "check"
        /\ TakeTimestamp => pc = "stamp" /\ pc' = "send" /\ timestamp' = now \div Minute
    BY <1>1 DEF Measure, UpdateRegistries, TakeTimestamp
  <2>s. now \div Minute = Now \div Multiple
    BY <1>2, Constants, NestedDivision DEF Now, Minute
  <2>p. pc \notin {"wait", "subs"} /\ pc' \notin {"wait", "subs"}
    BY <1>8, <2>2
  <2>t. pc' \in {"stamp", "send"} => pc = "stamp"
    BY <1>8, <2>2
  <2>3. ClockInv'
    BY <1>1, <1>8, <2>1, <2>2, <2>s, <2>p, <2>t DEF ClockInv
  <2>4. Unmeasured' = Now
    BY <1>1, <1>8, <2>1, <2>2, <2>3 DEF Unmeasured, ClockInv, Now
  <2>5. UNCHANGED <<MainStep, SubsStep>> /\ (~Measure => Unmeasured' = Unmeasured)
    BY <1>1, <1>8, <2>2, <2>4 DEF MainStep, SubsStep
  <2> QED BY <1>1, <1>8, <2>1, <2>3, <2>4, <2>5
<1>9. CASE CheckWindow \/ SendToMain
  <2>1. /\ UNCHANGED <<now, skipped, torn, phase, offset, shouldRun, start, deadline, run>>
        /\ Now' = Now
    BY <1>9 DEF CheckWindow, SendToMain, Now
  <2>2. /\ CheckWindow => /\ pc = "check"
                          /\ pc' = IF Now % Multiple = 0 THEN "stamp" ELSE "subs"
        /\ SendToMain => pc = "send" /\ pc' = "subs"
    BY <1>1 DEF CheckWindow, SendToMain
  <2>4. Unmeasured' = Unmeasured /\ Unmeasured = Now
    BY <1>1, <1>9, <2>1, <2>2 DEF Unmeasured
  <2>c. /\ Now = start \div StepTicks /\ Minute <= start /\ start <= now /\ now <= MaxTime
        /\ pc = "send" => Now % Multiple = 0
    BY <1>1, <1>9, <2>2 DEF ClockInv
  <2>3. ClockInv'
    BY <1>1, <1>9, <2>1, <2>2, <2>4, <2>c DEF ClockInv
  <2>5. SubsStep' = SubsStep /\ MainStep = Now - 1
    BY <1>9, <2>2, <2>4 DEF SubsStep, MainStep
  <2>6. MainStep' = IF pc' = "subs" THEN Now ELSE Now - 1
    BY <1>9, <2>2, <2>4 DEF MainStep
  <2> QED BY <1>1, <1>9, <2>1, <2>2, <2>3, <2>4, <2>5, <2>6
<1>10. CASE SendSubsAndWait
  <2>1. /\ pc = "subs" /\ pc' = "wait" /\ run' = run + 1
        /\ deadline' \in Nat /\ start + StepTicks <= deadline'
        /\ UNCHANGED <<now, skipped, torn, phase, offset, shouldRun, start>>
    BY <1>1, <1>2, <1>10, Constants DEF SendSubsAndWait
  <2>2. Now' = Now /\ Unmeasured = start \div StepTicks /\ Unmeasured' = Unmeasured
    BY <1>2, <2>1 DEF Now, Unmeasured
  <2>3. Unmeasured + 1 <= deadline' \div StepTicks
    <3>1. (start + StepTicks) \div StepTicks = Unmeasured + 1
      BY <1>2, <2>2, Constants, NextInterval
    <3> QED BY <1>2, <2>1, <3>1, Constants, DivisionIsMonotone
  <2>4. ClockInv'
    BY <1>1, <1>2, <2>1, <2>2, <2>3 DEF ClockInv
  <2>5. MainStep' = MainStep /\ SubsStep' = Unmeasured
    BY <1>1, <2>1, <2>2 DEF MainStep, SubsStep
  <2> QED BY <1>1, <1>10, <2>1, <2>2, <2>4, <2>5
<1> QED BY <1>1, <1>3, <1>4, <1>5, <1>6, <1>7, <1>8, <1>9, <1>10 DEF Next, Run

-----------------------------------------------------------------------------
(* What is under way from the meters to the stores *)

\* What counts for a period is a number, and is aggregated as a whole.
LEMMA InType ==
  ASSUME NEW f, NEW s, NEW p, NEW a \in Nat, NEW b \in Nat, NEW i
  PROVE  /\ In(f, s, p, a) \in Nat /\ In(f, s, p, 0) = 0
         /\ In(f, s, p, Merge(i, a, b)) = Merge(i, In(f, s, p, a), In(f, s, p, b))
  BY MergeType, 0 \in Nat DEF In

\* What is under way is a number.
LEMMA UnderWayType ==
  ASSUME TypeOK, NEW i \in Ids
  PROVE  /\ registry[i] \in Buckets
         /\ registry[i].pos \in Nat /\ registry[i].open \in Nat /\ registry[i].last \in Nat
         /\ Ended(i) \in Nat /\ Open(i) \in Nat
         /\ \A f, p : UnderWay(f, i, p) \in Nat
<1>1. registry[i] \in Buckets
  BY DEF TypeOK
<1>2. registry[i].pos \in Nat /\ registry[i].open \in Nat /\ registry[i].last \in Nat
  BY <1>1 DEF Buckets
<1>3. Ended(i) \in Nat /\ Open(i) \in Nat
  BY <1>2 DEF TypeOK, Ended, Open
<1>4. \A f, p : UnderWay(f, i, p) \in Nat
  BY <1>3, InType, MergeType DEF UnderWay
<1> QED BY <1>1, <1>2, <1>3, <1>4

\* The same of the next state.
LEMMA UnderWayTypeNext ==
  ASSUME TypeOK', NEW i \in Ids
  PROVE  /\ Ended(i)' \in Nat /\ Open(i)' \in Nat
         /\ \A f, p : UnderWay(f, i, p)' \in Nat
<1>1. registry'[i] \in Buckets
  BY DEF TypeOK
<1>2. registry'[i].pos \in Nat /\ registry'[i].open \in Nat /\ registry'[i].last \in Nat
  BY <1>1 DEF Buckets
<1>3. Ended(i)' \in Nat /\ Open(i)' \in Nat
  BY <1>2 DEF TypeOK, Ended, Open
<1>4. \A f, p : UnderWay(f, i, p)' \in Nat
  BY <1>3, InType, MergeType DEF UnderWay
<1> QED BY <1>3, <1>4

\* The bucket of a meter that is updated.
LEMMA RecordedBucket ==
  ASSUME TypeOK, ClockInv, RegistryInv, NEW i \in Ids, NEW a \in Amounts, Record(i, a)
  PROVE  /\ a \in Nat /\ Now' = Now /\ pc' = pc /\ skipped' = skipped /\ UNCHANGED pending
         /\ registry'[i].pos = Now
         /\ registry[i].pos = Now => /\ registry'[i].last = registry[i].last
                                     /\ registry'[i].open = Merge(i, registry[i].open, a)
         /\ registry[i].pos # Now =>
              /\ registry[i].pos < Now /\ pc \in {"wait", "measure", "subs"}
              /\ registry'[i].open = a
              /\ registry'[i].last = IF registry[i].pos = Now - 1 THEN registry[i].open ELSE 0
         /\ \A j \in Ids \ {i} : registry'[j] = registry[j]
<1> DEFINE b == RollTo(registry[i], Now)
<1>1. WallStep = Now /\ Now \in Nat
  BY StepsOfLoop
<1>2. /\ registry[i] \in Buckets /\ registry[i].pos \in Nat /\ registry[i].pos <= Now
      /\ registry[i].open \in Nat
      /\ registry[i].pos # Now => pc \in {"wait", "measure", "subs"}
  BY UnderWayType DEF RegistryInv, TypeOK
<1>3. /\ b \in Buckets
      /\ registry[i].pos < Now =>
           /\ b.pos = Now /\ b.open = 0
           /\ b.last = IF registry[i].pos = Now - 1 THEN registry[i].open ELSE 0
      /\ registry[i].pos = Now => b = registry[i]
  BY <1>1, <1>2, RolledBucket
<1>4. registry' = [registry EXCEPT ![i] = [b EXCEPT !.open = Merge(i, b.open, a)]]
  BY <1>1 DEF Record
<1> HIDE DEF b
<1>5. a \in Nat /\ Merge(i, 0, a) = a
  BY Constants, MergeType
<1>6. /\ registry'[i] = [b EXCEPT !.open = Merge(i, b.open, a)]
      /\ \A j \in Ids \ {i} : registry'[j] = registry[j]
  BY <1>4 DEF TypeOK
<1>7. /\ registry'[i].pos = b.pos /\ registry'[i].last = b.last
      /\ registry'[i].open = Merge(i, b.open, a)
  BY <1>3, <1>6 DEF Buckets
<1>8. Now' = Now /\ pc' = pc /\ skipped' = skipped /\ UNCHANGED pending
  BY DEF Record, Now, sender
<1> QED BY <1>1, <1>2, <1>3, <1>5, <1>6, <1>7, <1>8

\* The bucket of any meter when they are measured.
LEMMA MeasuredBucket ==
  ASSUME TypeOK, ClockInv, RegistryInv, Measure, NEW i \in Ids
  PROVE  /\ Now' = Now /\ pc = "measure" /\ pc' = "update" /\ skipped' = skipped
         /\ registry'[i].pos = Now
         /\ registry[i].pos = Now => registry'[i] = registry[i]
         /\ registry[i].pos # Now =>
              /\ registry[i].pos < Now /\ registry'[i].open = 0
              /\ registry'[i].last = IF registry[i].pos = Now - 1 THEN registry[i].open ELSE 0
         /\ registry'[i].last \in Nat /\ Given(pending', i) = registry'[i].last
<1>1. WallStep = Now /\ Now \in Nat
  BY StepsOfLoop
<1>2. /\ registry[i] \in Buckets /\ registry[i].pos \in Nat /\ registry[i].pos <= Now
      /\ registry'[i] = RollTo(registry[i], Now)
  BY <1>1, UnderWayType DEF RegistryInv, Measure
<1>3. registry'[i].last \in Nat
  BY <1>1, <1>2, RolledBucket DEF Buckets
<1>4. Given(pending', i) = registry'[i].last
  <2>1. pending' = [j \in {k \in Ids : k \in Gauges => registry'[k].last > 0} |->
                      registry'[j].last]
    BY DEF Measure
  <2>2. CASE i \in Gauges => registry'[i].last > 0
    BY <2>1, <2>2 DEF Given
  <2>3. CASE ~(i \in Gauges => registry'[i].last > 0)
    BY <1>3, <2>1, <2>3 DEF Given
  <2> QED BY <2>2, <2>3
<1>5. Now' = Now /\ pc = "measure" /\ pc' = "update" /\ skipped' = skipped
  BY DEF Measure, Now, history
<1>6. CASE registry[i].pos = Now
  BY <1>1, <1>2, <1>3, <1>4, <1>5, <1>6, RolledBucket
<1>7. CASE registry[i].pos < Now
  BY <1>1, <1>2, <1>3, <1>4, <1>5, <1>7, RolledBucket
<1> QED BY <1>1, <1>2, <1>6, <1>7

\* The meters' part of the invariant.
LEMMA RegistryStep ==
  ASSUME Whole', TypeOK, TypeOK', LoopInv, stops = 0, stops' = 0, [Next]_vars
  PROVE  RegistryInv'
<1> USE DEF stopping, registries, sender, history
<1>1. /\ ClockInv /\ RegistryInv /\ Now \in Nat /\ Now' \in Nat /\ Now <= Now'
      /\ Unmeasured \in Nat /\ (~skipped' => ~skipped)
      /\ Unmeasured <= Now
  BY ClockStep, StepsOfLoop DEF LoopInv
<1>2. SUFFICES ASSUME NEW j \in Ids
               PROVE  /\ registry'[j].pos <= Now'
                      /\ pc' \notin {"wait", "measure", "subs"} => registry'[j].pos = Now'
                      /\ pc' = "subs" \/ ~skipped' => Unmeasured' <= registry'[j].pos
  BY DEF RegistryInv
<1>3. /\ registry[j].pos \in Nat /\ registry[j].pos <= Now
      /\ pc \notin {"wait", "measure", "subs"} => registry[j].pos = Now
      /\ pc = "subs" \/ ~skipped => Unmeasured <= registry[j].pos
  BY <1>1, UnderWayType DEF RegistryInv
<1>5. CASE UNCHANGED vars
  BY <1>1, <1>3, <1>5 DEF vars, Now, Unmeasured
<1>6. CASE /\ Tick /\ UNCHANGED <<Unmeasured, MainStep, SubsStep>>
           /\ pc \notin {"wait", "subs"} => Now' = Now
  BY <1>1, <1>3, <1>6 DEF Tick
<1>7. ASSUME NEW i \in Ids, NEW a \in Amounts, Record(i, a), Now' = Now,
             UNCHANGED <<Unmeasured, MainStep, SubsStep>>
      PROVE  /\ registry'[j].pos <= Now'
             /\ pc' \notin {"wait", "measure", "subs"} => registry'[j].pos = Now'
             /\ pc' = "subs" \/ ~skipped' => Unmeasured' <= registry'[j].pos
  <2>1. CASE j = i
    BY <1>1, <1>7, <2>1, RecordedBucket
  <2>2. CASE j # i
    BY <1>1, <1>3, <1>7, <2>2, RecordedBucket
  <2> QED BY <2>1, <2>2
<1>8. CASE Wake /\ Now' = Now /\ (~skipped => Unmeasured' = Unmeasured)
  BY <1>1, <1>3, <1>8 DEF Wake
<1>9. CASE Measure /\ Now' = Now /\ Unmeasured' = Now
  BY <1>1, <1>9, MeasuredBucket
<1>10. CASE (UpdateRegistries \/ TakeTimestamp \/ CheckWindow \/ SendToMain \/ SendSubsAndWait)
            /\ Now' = Now /\ Unmeasured' = Unmeasured
  BY <1>1, <1>3, <1>10
     DEF UpdateRegistries, TakeTimestamp, CheckWindow, SendToMain, SendSubsAndWait
<1> QED BY <1>5, <1>6, <1>7, <1>8, <1>9, <1>10, ClockStep

\* A step that neither moves nor changes what is under way.
LEMMA UnderWaySame ==
  ASSUME UNCHANGED <<registry, Unmeasured>>,
         \/ pc # "update" /\ pc' # "update"
         \/ UNCHANGED <<pc, Now, pending>>
  PROVE  \A f, p : \A i \in Ids : UnderWay(f, i, p)' = UnderWay(f, i, p)
<1> SUFFICES ASSUME NEW f, NEW p, NEW i \in Ids
             PROVE  UnderWay(f, i, p)' = UnderWay(f, i, p)
  OBVIOUS
<1>1. EndedStep(i)' = EndedStep(i) /\ Ended(i)' = Ended(i) /\ Open(i)' = Open(i)
  BY DEF EndedStep, Ended, Open
<1> QED BY <1>1 DEF UnderWay

\* An update adds itself.
LEMMA UnderWayRecord ==
  ASSUME TypeOK, TypeOK', ClockInv, RegistryInv, NEW i \in Ids, NEW a \in Amounts,
         Record(i, a), UNCHANGED Unmeasured, NEW f, NEW p, NEW j \in Ids
  PROVE  LET sum == Merge(j, UnderWay(f, j, p), IF j = i THEN In(f, Now, p, a) ELSE 0)
         IN  /\ UnderWay(f, j, p)' <= sum
             /\ ~skipped => UnderWay(f, j, p)' = sum
<1> DEFINE sum == Merge(j, UnderWay(f, j, p), IF j = i THEN In(f, Now, p, a) ELSE 0)
           pos == registry[i].pos
           e == In(f, EndedStep(i), p, Ended(i))
           o == In(f, pos, p, Open(i))
           r == In(f, Now, p, a)
<1>1. /\ Now \in Nat /\ Unmeasured \in Nat
      /\ pc \in {"wait", "measure", "subs"} /\ ~skipped => Now <= Unmeasured + 1
      /\ pc \notin {"wait", "measure", "subs"} => Unmeasured = Now
      /\ Unmeasured <= Now
  BY StepsOfLoop DEF TypeOK
<1>2. /\ pos \in Nat /\ Ended(i) \in Nat /\ Open(i) \in Nat /\ registry[i].open \in Nat
      /\ UnderWay(f, j, p) \in Nat /\ UnderWay(f, j, p)' \in Nat
      /\ pc = "subs" \/ ~skipped => Unmeasured <= pos
  BY UnderWayType, UnderWayTypeNext DEF RegistryInv
<1>3. /\ a \in Nat /\ Now' = Now /\ pc' = pc /\ UNCHANGED pending
      /\ registry'[i].pos = Now
      /\ pos = Now => /\ registry'[i].last = registry[i].last
                      /\ registry'[i].open = Merge(i, registry[i].open, a)
      /\ pos # Now => /\ pos < Now /\ pc \in {"wait", "measure", "subs"}
                      /\ registry'[i].open = a
                      /\ registry'[i].last = IF pos = Now - 1 THEN registry[i].open ELSE 0
      /\ \A k \in Ids \ {i} : registry'[k] = registry[k]
  BY RecordedBucket
<1>4. e \in Nat /\ o \in Nat /\ r \in Nat
  BY <1>2, <1>3, InType
<1>5. CASE j # i
  <2>1. UnderWay(f, j, p)' = UnderWay(f, j, p)
    BY <1>3, <1>5 DEF UnderWay, EndedStep, Ended, Open
  <2> QED BY <1>2, <1>5, <2>1, MergeType
<1>6. CASE j = i /\ pos = Now
  <2>1. EndedStep(i)' = EndedStep(i) /\ Ended(i)' = Ended(i)
    BY <1>3, <1>6 DEF EndedStep, Ended
  <2>2. Open(i)' = Merge(i, Open(i), a)
    BY <1>1, <1>3, <1>6 DEF Open
  <2>3. In(f, registry'[i].pos, p, Open(i)') = Merge(i, o, r)
    BY <1>2, <1>3, <1>6, <2>2, InType
  <2>4. UnderWay(f, i, p)' = Merge(i, e, Merge(i, o, r))
    BY <2>1, <2>3 DEF UnderWay
  <2>5. sum = Merge(i, Merge(i, e, o), r)
    BY <1>6 DEF UnderWay
  <2> HIDE DEF e, o, r, sum
  <2>6. UnderWay(f, i, p)' = sum
    BY <1>4, <2>4, <2>5, MergeInAnyOrder
  <2>7. UnderWay(f, j, p)' = sum
    BY <1>6, <2>6
  <2> QED BY <1>2, <2>7 DEF sum
<1>7. CASE j = i /\ pos # Now
  <2>1. pc # "update" /\ pc' # "update" /\ pos < Now
    BY <1>3, <1>7
  <2>2. EndedStep(i)' = Now - 1
    BY <1>3, <2>1 DEF EndedStep
  <2>3. Open(i)' = a
    BY <1>1, <1>3, <1>7 DEF Open
  <2>4. Ended(i)' = IF pos = Now - 1 THEN Open(i) ELSE 0
    BY <1>1, <1>2, <1>3, <1>7, <2>1 DEF Ended, Open
  <2>5. In(f, EndedStep(i)', p, Ended(i)') = IF pos = Now - 1 THEN o ELSE 0
    BY <1>2, <2>2, <2>4, InType
  <2>6. UnderWay(f, i, p)' = Merge(i, IF pos = Now - 1 THEN o ELSE 0, r)
    BY <1>3, <2>3, <2>5 DEF UnderWay
  <2>7. sum = Merge(i, Merge(i, e, o), r)
    BY <1>7 DEF UnderWay
  <2>8. ~skipped => pos = Now - 1 /\ Ended(i) = 0
    BY <1>1, <1>2, <1>3, <1>7, <2>1 DEF Ended
  <2>9. ~skipped => e = 0
    BY <2>8, InType, 0 \in Nat
  <2> HIDE DEF e, o, r, sum
  <2>10. Merge(i, e, o) \in Nat /\ o <= Merge(i, e, o) /\ (e = 0 => Merge(i, e, o) = o)
    BY <1>4, MergeType
  <2>11. UnderWay(f, i, p)' <= sum
    BY <1>4, <2>6, <2>7, <2>10, MergeMonotone
  <2>12. ~skipped => UnderWay(f, i, p)' = sum
    BY <2>6, <2>7, <2>8, <2>9, <2>10
  <2>13. UnderWay(f, j, p)' <= sum /\ (~skipped => UnderWay(f, j, p)' = sum)
    BY <1>7, <2>11, <2>12
  <2> QED BY <2>13 DEF sum
<1> QED BY <1>5, <1>6, <1>7

\* To wake up and to measure may lose something, if a step was skipped.
LEMMA UnderWayWake ==
  ASSUME TypeOK, TypeOK', ClockInv, RegistryInv, Wake, Unmeasured' \in Nat,
         Unmeasured <= Unmeasured', ~skipped => Unmeasured' = Unmeasured,
         NEW f, NEW p, NEW i \in Ids
  PROVE  /\ UnderWay(f, i, p)' <= UnderWay(f, i, p)
         /\ ~skipped => UnderWay(f, i, p)' = UnderWay(f, i, p)
<1>1. registry' = registry /\ pc = "wait" /\ pc' = "measure"
  BY DEF Wake, registries
<1>2. Unmeasured \in Nat
  BY StepsOfLoop
<1>3. /\ registry[i].pos \in Nat /\ registry[i].last \in Nat /\ registry[i].open \in Nat
      /\ Ended(i) \in Nat /\ Open(i) \in Nat
      /\ UnderWay(f, i, p) \in Nat /\ UnderWay(f, i, p)' \in Nat
  BY UnderWayType, UnderWayTypeNext
<1>4. /\ EndedStep(i)' = EndedStep(i)
      /\ Ended(i)' = Ended(i) \/ Ended(i)' = 0
      /\ Open(i)' = Open(i) \/ Open(i)' = 0
      /\ ~skipped => Ended(i)' = Ended(i) /\ Open(i)' = Open(i)
  BY <1>1, <1>2, <1>3 DEF EndedStep, Ended, Open
<1> DEFINE e == In(f, EndedStep(i), p, Ended(i))
           o == In(f, registry[i].pos, p, Open(i))
           e1 == In(f, EndedStep(i), p, Ended(i)')
           o1 == In(f, registry[i].pos, p, Open(i)')
<1>5. /\ e \in Nat /\ o \in Nat
      /\ (e1 = e \/ e1 = 0) /\ (o1 = o \/ o1 = 0)
      /\ ~skipped => e1 = e /\ o1 = o
  BY <1>3, <1>4, InType, 0 \in Nat
<1>6. UnderWay(f, i, p) = Merge(i, e, o) /\ UnderWay(f, i, p)' = Merge(i, e1, o1)
  BY <1>1, <1>4 DEF UnderWay
<1> HIDE DEF e, o, e1, o1
<1>7. e1 \in Nat /\ o1 \in Nat /\ e1 <= e /\ o1 <= o
  BY <1>5
<1> QED BY <1>5, <1>6, <1>7, MergeMonotone

\* The same of the measurement.
LEMMA UnderWayMeasure ==
  ASSUME TypeOK, TypeOK', ClockInv, RegistryInv, Measure, Unmeasured' = Now,
         NEW f, NEW p, NEW i \in Ids
  PROVE  /\ UnderWay(f, i, p)' <= UnderWay(f, i, p)
         /\ ~skipped => UnderWay(f, i, p)' = UnderWay(f, i, p)
<1> DEFINE pos == registry[i].pos
           e == In(f, EndedStep(i), p, Ended(i))
           o == In(f, pos, p, Open(i))
           e1 == In(f, EndedStep(i)', p, Ended(i)')
           o1 == In(f, registry'[i].pos, p, Open(i)')
<1>1. /\ Now' = Now /\ pc = "measure" /\ pc' = "update"
      /\ registry'[i].pos = Now
      /\ pos = Now => registry'[i] = registry[i]
      /\ pos # Now =>
           /\ pos < Now /\ registry'[i].open = 0
           /\ registry'[i].last = IF pos = Now - 1 THEN registry[i].open ELSE 0
      /\ registry'[i].last \in Nat /\ Given(pending', i) = registry'[i].last
  BY MeasuredBucket
<1>2. Now \in Nat \ {0} /\ Unmeasured = Now - 1
  BY <1>1, StepsOfLoop
<1>3. /\ pos \in Nat /\ registry[i].last \in Nat /\ registry[i].open \in Nat
      /\ Ended(i) \in Nat /\ Open(i) \in Nat /\ Ended(i)' \in Nat /\ Open(i)' \in Nat
      /\ ~skipped => Unmeasured <= pos
  BY UnderWayType, UnderWayTypeNext DEF RegistryInv
<1>4. EndedStep(i)' = Now - 1 /\ Ended(i)' = registry'[i].last /\ Open(i)' = registry'[i].open
  BY <1>1, <1>2 DEF EndedStep, Ended, Open, Given
<1>5. EndedStep(i) = pos - 1
  BY <1>1 DEF EndedStep
<1>6. e \in Nat /\ o \in Nat /\ e1 \in Nat /\ o1 \in Nat
  BY <1>3, InType
<1>7. CASE pos = Now
  <2>1. Ended(i)' = Ended(i) /\ Open(i)' = Open(i)
    BY <1>1, <1>2, <1>4, <1>7 DEF Ended, Open
  <2>2. e1 = e /\ o1 = o
    BY <1>1, <1>4, <1>5, <1>7, <2>1
  <2> QED BY <2>2, <1>6, MergeType DEF UnderWay
<1>8. CASE pos # Now
  <2>1. Open(i)' = 0 /\ Ended(i)' = IF pos = Now - 1 THEN Open(i) ELSE 0
    BY <1>1, <1>2, <1>3, <1>4, <1>8 DEF Open
  <2>2. o1 = 0
    BY <2>1, InType, 0 \in Nat
  <2>3. e1 = IF pos = Now - 1 THEN o ELSE 0
    BY <1>4, <2>1, InType, 0 \in Nat
  <2>4. ~skipped => pos = Now - 1 /\ Ended(i) = 0
    BY <1>1, <1>2, <1>3, <1>8 DEF Ended
  <2>5. ~skipped => e = 0
    BY <2>4, InType, 0 \in Nat
  <2>6. UnderWay(f, i, p) = Merge(i, e, o) /\ UnderWay(f, i, p)' = Merge(i, e1, o1)
    BY DEF UnderWay
  <2> HIDE DEF e, o, e1, o1
  <2>7. /\ Merge(i, e1, o1) = e1 /\ o <= Merge(i, e, o) /\ Merge(i, e, o) \in Nat
        /\ e = 0 => Merge(i, e, o) = o
    BY <1>6, <2>2, MergeType
  <2> QED BY <1>6, <2>3, <2>4, <2>5, <2>6, <2>7
<1> QED BY <1>7, <1>8

\* What was measured is handed over.
LEMMA UnderWayUpdate ==
  ASSUME TypeOK, TypeOK', ClockInv, RegistryInv, UpdateRegistries, UNCHANGED Unmeasured,
         NEW f, NEW p, NEW i \in Ids
  PROVE  UnderWay(f, i, p) = Merge(i, In(f, Now - 1, p, Given(pending, i)), UnderWay(f, i, p)')
<1>1. /\ pc = "update" /\ pc' # "update" /\ registry' = registry
  BY DEF UpdateRegistries
<1>2. Now \in Nat /\ Unmeasured = Now /\ registry[i].pos = Now
  BY <1>1, StepsOfLoop DEF RegistryInv
<1>3. Ended(i) = Given(pending, i) /\ EndedStep(i) = Now - 1
  BY <1>1 DEF Ended, EndedStep, Given
<1>4. Ended(i)' = 0 /\ Open(i)' = Open(i)
  BY <1>1, <1>2 DEF Ended, Open
<1>5. Open(i) \in Nat
  BY UnderWayType
<1>6. In(f, EndedStep(i)', p, Ended(i)') = 0
  BY <1>4, InType, 0 \in Nat
<1>7. UnderWay(f, i, p)' = In(f, registry[i].pos, p, Open(i))
  BY <1>1, <1>4, <1>5, <1>6, InType, MergeType DEF UnderWay
<1> QED BY <1>3, <1>7 DEF UnderWay

-----------------------------------------------------------------------------
(* From the meters to the stores *)

\* The first update is after the first minute.
LEMMA EnoughSteps ==
  ASSUME TypeOK, ClockInv
  PROVE  Multiple <= Now
<1>1. now \in Nat /\ Minute <= now /\ Minute \in Nat
  BY Constants DEF TypeOK, ClockInv
<1>2. Minute \div StepTicks = Multiple
  <2>1. StepTicks * Multiple <= Minute /\ Minute < StepTicks * Multiple + StepTicks
    BY <1>1, Constants DEF Minute
  <2> QED BY <1>1, <2>1, Constants, Quotient
<1>3. Minute \div StepTicks <= Now
  BY <1>1, LaterStep DEF Now
<1> QED BY <1>2, <1>3

\* What is recorded in a step.
LEMMA RecordedStep ==
  ASSUME TypeOK, ClockInv, NEW j \in Ids, NEW a \in Amounts, Record(j, a),
         NEW f \in Frequencies, NEW i \in Ids, NEW p \in Periods
  PROVE  recorded'[f][i][p] = Merge(i, recorded[f][i][p], IF i = j THEN In(f, Now, p, a) ELSE 0)
<1> DEFINE c == Now \div f
           r == recorded[f]
<1>1. r \in [Ids -> [Periods -> Nat]]
  BY DEF TypeOK
<1>2. recorded'[f] = [r EXCEPT ![j][c] = Merge(j, r[j][c], a)]
  BY DEF Record, Now
<1> HIDE DEF c, r
<1>3. r[i][p] \in Nat
  BY <1>1
<1>4. CASE i = j /\ c = p
  <2>1. recorded'[f][i][p] = Merge(i, r[i][p], a)
    BY <1>1, <1>2, <1>4
  <2>2. In(f, Now, p, a) = a
    BY <1>4 DEF In, c
  <2> QED BY <1>4, <2>1, <2>2 DEF r
<1>5. CASE ~(i = j /\ c = p)
  <2>1. recorded'[f][i][p] = r[i][p]
    BY <1>1, <1>2, <1>5
  <2>2. (IF i = j THEN In(f, Now, p, a) ELSE 0) = 0
    BY <1>5 DEF In, c
  <2> QED BY <1>3, <2>1, <2>2, MergeType DEF r
<1> QED BY <1>4, <1>5

\* What a store holds and what is under way to it, together.
Total(V, f, i, p) == Merge(i, Held(V, i, p), UnderWay(f, i, p))

\* Unless it is handed over, what is under way to a store changes by what is
\* recorded, and may be lost if a step was skipped.
LEMMA Flow ==
  ASSUME Whole', TypeOK, TypeOK', LoopInv, stops = 0, stops' = 0, [Next]_vars,
         ~UpdateRegistries, NEW f \in Frequencies, NEW i \in Ids, NEW p \in Periods,
         NEW h \in Nat, Merge(i, h, UnderWay(f, i, p)) <= recorded[f][i][p]
  PROVE  /\ Merge(i, h, UnderWay(f, i, p)') <= recorded'[f][i][p]
         /\ ~skipped /\ Merge(i, h, UnderWay(f, i, p)) = recorded[f][i][p] =>
              Merge(i, h, UnderWay(f, i, p)') = recorded'[f][i][p]
<1> DEFINE u == UnderWay(f, i, p)
           u1 == UnderWay(f, i, p)'
           r == recorded[f][i][p]
           r1 == recorded'[f][i][p]
<1>1. ClockInv /\ RegistryInv /\ Unmeasured \in Nat
  BY StepsOfLoop DEF LoopInv
<1>2. u \in Nat /\ u1 \in Nat
  BY UnderWayType, UnderWayTypeNext
<1>3. r \in Nat /\ r1 \in Nat
  BY DEF TypeOK
<1>4. \/ \E j \in Ids, a \in Amounts : Record(j, a) /\ UNCHANGED Unmeasured
      \/ UNCHANGED recorded /\ u1 <= u /\ (~skipped => u1 = u)
  <2>1. CASE UNCHANGED vars
    <3>1. UNCHANGED <<registry, Unmeasured, pc, Now, pending, recorded>>
      BY <2>1 DEF vars, registries, sender, history, Unmeasured, Now
    <3> QED BY <1>2, <3>1, UnderWaySame
  <2>2. CASE /\ Tick /\ UNCHANGED Unmeasured
             /\ pc \notin {"wait", "subs"} => Now' = Now
    <3>1. UNCHANGED <<registry, Unmeasured, pc, pending, recorded>>
      BY <2>2 DEF Tick, registries, sender
    <3>2. pc = "update" => Now' = Now
      BY <2>2
    <3> QED BY <1>2, <2>2, <3>1, <3>2, UnderWaySame
  <2>3. CASE Wake /\ Unmeasured <= Unmeasured' /\ (~skipped => Unmeasured' = Unmeasured)
    <3>1. recorded' = recorded
      BY <2>3 DEF Wake, history
    <3>2. Unmeasured' \in Nat
      BY <1>1, <2>3, StepsOfLoop, ClockStep DEF Wake, TypeOK, Unmeasured, Now
    <3> QED BY <1>1, <2>3, <3>1, <3>2, UnderWayWake
  <2>4. CASE Measure /\ Unmeasured' = Now
    <3>1. recorded' = recorded
      BY <2>4 DEF Measure, history
    <3> QED BY <1>1, <2>4, <3>1, UnderWayMeasure
  <2>5. CASE (TakeTimestamp \/ CheckWindow \/ SendToMain \/ SendSubsAndWait)
             /\ UNCHANGED Unmeasured
    <3>1. UNCHANGED <<registry, recorded>> /\ pc # "update" /\ pc' # "update"
      BY <2>5 DEF TakeTimestamp, CheckWindow, SendToMain, SendSubsAndWait, registries, history
    <3> QED BY <1>2, <2>5, <3>1, UnderWaySame
  <2>6. ASSUME NEW j \in Ids, NEW a \in Amounts, Record(j, a), UNCHANGED Unmeasured
        PROVE  \E k \in Ids, b \in Amounts : Record(k, b) /\ UNCHANGED Unmeasured
    BY <2>6
  <2> QED BY <2>1, <2>2, <2>3, <2>4, <2>5, <2>6, ClockStep
<1>5. CASE UNCHANGED recorded /\ u1 <= u /\ (~skipped => u1 = u)
  <2>1. Merge(i, h, u1) <= Merge(i, h, u) /\ Merge(i, h, u) \in Nat /\ Merge(i, h, u1) \in Nat
    BY <1>2, <1>5, MergeMonotone, MergeType
  <2> QED BY <1>3, <1>5, <2>1
<1>6. ASSUME NEW j \in Ids, NEW a \in Amounts, Record(j, a), UNCHANGED Unmeasured
      PROVE  /\ Merge(i, h, u1) <= r1
             /\ ~skipped /\ Merge(i, h, u) = r => Merge(i, h, u1) = r1
  <2> DEFINE d == IF i = j THEN In(f, Now, p, a) ELSE 0
  <2>1. r1 = Merge(i, r, d)
    BY <1>1, <1>6, RecordedStep
  <2>2. u1 <= Merge(i, u, d) /\ (~skipped => u1 = Merge(i, u, d))
    BY <1>1, <1>6, UnderWayRecord
  <2>3. d \in Nat
    BY <1>6, Constants, InType, 0 \in Nat
  <2> HIDE DEF d, u, u1, r, r1
  <2>4. /\ Merge(i, u, d) \in Nat /\ Merge(i, h, u) \in Nat
        /\ Merge(i, h, Merge(i, u, d)) = Merge(i, Merge(i, h, u), d)
    BY <1>2, <2>3, MergeType, MergeInAnyOrder
  <2>5. Merge(i, h, u1) <= Merge(i, h, Merge(i, u, d))
    BY <1>2, <2>2, <2>4, MergeMonotone
  <2>6. Merge(i, Merge(i, h, u), d) <= Merge(i, r, d)
    <3>1. Merge(i, h, u) <= r
      BY DEF u, r
    <3> QED BY <1>3, <2>3, <2>4, <3>1, MergeMonotone
  <2>7. /\ Merge(i, h, u1) \in Nat /\ Merge(i, r, d) \in Nat
        /\ Merge(i, Merge(i, h, u), d) \in Nat
    BY <1>2, <1>3, <2>3, <2>4, MergeType
  <2> QED BY <2>1, <2>2, <2>4, <2>5, <2>6, <2>7
<1> QED BY <1>4, <1>5, <1>6

\* When the measurements are handed over, nothing is added or lost that is of a
\* period which may still be sent.
LEMMA HandedOver ==
  ASSUME TypeOK, TypeOK', ClockInv, RegistryInv, UpdateRegistries, UNCHANGED Unmeasured,
         NEW f \in Frequencies, NEW V, IsStore(V), Behind(V, f, Now - 1)
  PROVE  LET W == UpdateFrom(V, pending, Now, f)
         IN  /\ Behind(W, f, Now - 1)
             /\ \A i \in Ids, p \in Periods :
                  LET t == Merge(i, Held(W, i, p), UnderWay(f, i, p)')
                  IN  /\ t <= Total(V, f, i, p)
                      /\ (Now - 1) \div f <= p + 1 => t = Total(V, f, i, p)
<1> DEFINE W == UpdateFrom(V, pending, Now, f)
<1>1. Now \in Nat \ {0}
  BY StepsOfLoop
<1>2. IsGiven(pending)
  BY DEF TypeOK, IsGiven
<1>3. f \in Nat \ {0}
  BY FrequenciesArePositive
<1>4. /\ IsStore(W) /\ Behind(W, f, Now - 1)
      /\ \A i \in Ids, p \in Nat :
           LET total == Merge(i, Held(V, i, p), In(f, Now - 1, p, Given(pending, i)))
           IN  /\ Held(W, i, p) <= total
               /\ (Now - 1) \div f <= p + 1 => Held(W, i, p) = total
  BY <1>1, <1>2, <1>3, StoreUpdated
<1> HIDE DEF W
<1>5. ASSUME NEW i \in Ids, NEW p \in Periods
      PROVE  LET t == Merge(i, Held(W, i, p), UnderWay(f, i, p)')
             IN  /\ t <= Total(V, f, i, p)
                 /\ (Now - 1) \div f <= p + 1 => t = Total(V, f, i, p)
  <2> DEFINE u1 == UnderWay(f, i, p)'
             g == In(f, Now - 1, p, Given(pending, i))
             h == Held(V, i, p)
             k == Held(W, i, p)
  <2>1. p \in Nat
    BY DEF Periods
  <2>2. g \in Nat /\ h \in Nat /\ k \in Nat /\ u1 \in Nat
    <3>1. Given(pending, i) \in Nat
      BY <1>2, 0 \in Nat DEF Given, IsGiven
    <3> QED BY <1>4, <3>1, InType, HeldType, UnderWayTypeNext
  <2>3. UnderWay(f, i, p) = Merge(i, g, u1)
    BY UnderWayUpdate
  <2>4. k <= Merge(i, h, g) /\ ((Now - 1) \div f <= p + 1 => k = Merge(i, h, g))
    BY <1>4, <2>1
  <2>5. Total(V, f, i, p) = Merge(i, h, Merge(i, g, u1))
    BY <2>3 DEF Total
  <2> HIDE DEF g, h, k, u1
  <2>6. Total(V, f, i, p) = Merge(i, Merge(i, h, g), u1) /\ Merge(i, h, g) \in Nat
    BY <2>2, <2>5, MergeType, MergeInAnyOrder
  <2>7. Merge(i, k, u1) <= Total(V, f, i, p)
    BY <2>2, <2>4, <2>6, MergeMonotone
  <2>8. (Now - 1) \div f <= p + 1 => Merge(i, k, u1) = Total(V, f, i, p)
    BY <2>4, <2>6
  <2> QED BY <2>7, <2>8 DEF k, u1
<1> QED BY <1>4, <1>5 DEF W

\* The steps that are done with a store never go back.
LEMMA StepsAdvance ==
  ASSUME Whole', TypeOK, TypeOK', LoopInv, stops = 0, stops' = 0, [Next]_vars,
         NEW f \in Frequencies
  PROVE  /\ MainStep \in Nat /\ MainStep' \in Nat /\ MainStep <= MainStep'
         /\ SubsStep \in Nat /\ SubsStep' \in Nat /\ SubsStep <= SubsStep'
         /\ MainStep \div f \in Nat /\ MainStep' \div f \in Nat
         /\ MainStep \div f <= MainStep' \div f
         /\ SubsStep \div f \in Nat /\ SubsStep' \div f \in Nat
         /\ SubsStep \div f <= SubsStep' \div f
<1>1. /\ ClockInv /\ Now \in Nat \ {0} /\ Unmeasured \in Nat
      /\ MainStep \in Nat /\ SubsStep \in Nat
      /\ pc \notin {"wait", "measure", "subs"} => Unmeasured = Now
      /\ pc = "subs" => MainStep = Unmeasured /\ SubsStep = Unmeasured - 1
  BY StepsOfLoop DEF LoopInv, MainStep, SubsStep
<1>2. /\ pc \in {"wait", "measure"} => MainStep = Unmeasured /\ SubsStep = Unmeasured
      /\ pc \notin {"wait", "measure", "subs"} => MainStep <= Now /\ SubsStep <= Now
  BY <1>1 DEF MainStep, SubsStep
<1>3. /\ MainStep' \in Nat /\ MainStep <= MainStep'
      /\ SubsStep' \in Nat /\ SubsStep <= SubsStep'
  <2>1. CASE UNCHANGED vars
    <3>1. UNCHANGED <<MainStep, SubsStep>>
      BY <2>1 DEF vars, sender, MainStep, SubsStep, Unmeasured
    <3> QED BY <1>1, <3>1
  <2>2. CASE UNCHANGED <<MainStep, SubsStep>>
    BY <1>1, <2>2
  <2>3. CASE /\ Wake /\ Unmeasured <= Unmeasured'
             /\ MainStep' = Unmeasured' /\ SubsStep' = Unmeasured'
    <3>1. start' \in Nat /\ Minute <= start' /\ start' = now
      BY <1>1, <2>3, Constants DEF Wake, TypeOK, ClockInv
    <3>2. Unmeasured' \in Nat
      BY <2>3, <3>1, WallStepType DEF Wake, Unmeasured
    <3> QED BY <1>1, <1>2, <2>3, <3>2 DEF Wake
  <2>4. CASE CheckWindow /\ SubsStep' = SubsStep /\ MainStep' \in {MainStep, Now}
    BY <1>1, <1>2, <2>4 DEF CheckWindow
  <2>5. CASE SendToMain /\ SubsStep' = SubsStep /\ MainStep' = Now
    BY <1>1, <1>2, <2>5 DEF SendToMain
  <2>6. CASE SendSubsAndWait /\ SubsStep' = Unmeasured /\ MainStep' = MainStep
    BY <1>1, <1>2, <2>6 DEF SendSubsAndWait
  <2> QED BY <2>1, <2>2, <2>3, <2>4, <2>5, <2>6, ClockStep
<1> QED BY <1>1, <1>3, FrequenciesArePositive, DivisionIsMonotone

\* A store that is behind a step is behind a later one.
LEMMA BehindMore ==
  ASSUME NEW V, IsStore(V), NEW f \in Frequencies, NEW s \in Nat, NEW t \in Nat, s <= t,
         Behind(V, f, s)
  PROVE  Behind(V, f, t)
<1>1. s \div f \in Nat /\ t \div f \in Nat /\ s \div f <= t \div f
  BY FrequenciesArePositive, DivisionIsMonotone
<1>2. \A i \in DOMAIN V : V[i].pos \in Nat
  BY DEF IsStore, Entries
<1> QED BY <1>1, <1>2 DEF Behind

\* Of the batch for a minute.
LEMMA MinuteOfBatch ==
  ASSUME TypeOK, ClockInv, pc = "send"
  PROVE  /\ Now \div Multiple \in Nat \ {0} /\ Now = Multiple * (Now \div Multiple)
         /\ (Now - 1) \div Multiple = Now \div Multiple - 1
         /\ WallTime \div Minute = Now \div Multiple /\ timestamp = Now \div Multiple
         /\ MainStep = Now - 1 /\ SubsStep = Now - 1
<1>1. /\ WallTime = now /\ Now \in Nat \ {0} /\ Unmeasured = Now /\ Now % Multiple = 0
      /\ timestamp = Now \div Multiple
  BY StepsOfLoop DEF ClockInv
<1>2. now \div Minute = Now \div Multiple
  BY Constants, NestedDivision DEF TypeOK, Now, Minute
<1>3. MainStep = Now - 1 /\ SubsStep = Now - 1
  BY <1>1 DEF MainStep, SubsStep
<1>4. /\ Now \div Multiple \in Nat \ {0} /\ Now = Multiple * (Now \div Multiple)
      /\ (Now - 1) \div Multiple = Now \div Multiple - 1
  BY <1>1, Constants, FirstOfInterval
<1> QED BY <1>1, <1>2, <1>3, <1>4

\* What the measurement of the main store returns and leaves.
LEMMA MainMeasured ==
  ASSUME TypeOK, ClockInv, MainBehind, SendToMain
  PROVE  LET q == Now \div Multiple
             values == Measured(main, q)
         IN  /\ main' = AfterMeasured(main, q)
             /\ batches' = Append(batches, [minute |-> q - 1, values |-> values])
             /\ Behind(main', Multiple, Now)
             /\ values \in UNION {[S -> Nat] : S \in SUBSET Ids}
             /\ \A i \in Ids : Given(values, i) = Held(main, i, q - 1)
             /\ \A i \in Ids, p \in Periods :
                  /\ Held(main', i, p) <= Held(main, i, p)
                  /\ q <= p + 1 => Held(main', i, p) = Held(main, i, p)
<1> DEFINE q == Now \div Multiple
           values == Measured(main, q)
<1>1. pc = "send"
  BY DEF SendToMain
<1>2. /\ q \in Nat \ {0} /\ WallTime \div Minute = q /\ timestamp = q
      /\ (Now - 1) \div Multiple = q - 1 /\ MainStep = Now - 1
  BY <1>1, MinuteOfBatch
<1>3. main' = AfterMeasured(main, q)
  BY <1>2 DEF SendToMain
<1>4. batches' = Append(batches, [minute |-> q - 1, values |-> values])
  BY <1>2 DEF SendToMain
<1>5. IsStore(main) /\ \A i \in DOMAIN main : main[i].pos <= q - 1
  BY <1>2 DEF TypeOK, MainBehind, Behind
<1> HIDE DEF q
<1>6. q - 1 \in Nat /\ q - 1 <= q /\ q - 1 < q
  BY <1>2
<1>7. /\ \A i \in DOMAIN main' : main'[i].pos <= q
      /\ values \in UNION {[S -> Nat] : S \in SUBSET Ids}
      /\ \A i \in Ids : Given(values, i) = Held(main, i, q - 1)
      /\ \A i \in Ids, p \in Nat :
           /\ Held(main', i, p) <= Held(main, i, p)
           /\ q <= p + 1 /\ (p = q => q - 1 < q) => Held(main', i, p) = Held(main, i, p)
  BY <1>2, <1>3, <1>5, <1>6, StoreMeasured
<1>8. Periods \subseteq Nat
  BY DEF Periods
<1>9. /\ \A i \in Ids, p \in Periods :
           /\ Held(main', i, p) <= Held(main, i, p)
           /\ q <= p + 1 => Held(main', i, p) = Held(main, i, p)
  BY <1>6, <1>7, <1>8
<1> QED BY <1>3, <1>4, <1>7, <1>9 DEF q, Behind

\* The same of a subscription's store.
LEMMA SubsMeasured ==
  ASSUME TypeOK, ClockInv, torn = {}, SubsBehind, SendSubsAndWait, NEW f \in SubMultiples,
         f = (run % Multiple) + 1
  PROVE  LET q == Now \div f
             values == Measured(subs[f], q)
         IN  /\ subs'[f] = AfterMeasured(subs[f], q) /\ q \in Nat \ {0}
             /\ subBatches' = Append(subBatches,
                                     [multiple |-> f, step |-> Now, values |-> values])
             /\ Behind(subs'[f], f, Now)
             /\ values \in UNION {[S -> Nat] : S \in SUBSET Ids}
             /\ \A i \in Ids : Given(values, i) = Held(subs[f], i, q - 1)
             /\ \A i \in Ids, p \in Periods :
                  /\ Held(subs'[f], i, p) <= Held(subs[f], i, p)
                  /\ q <= p + 1 /\ (Now - 1) \div f < p =>
                       Held(subs'[f], i, p) = Held(subs[f], i, p)
<1> DEFINE q == Now \div f
           top == (Now - 1) \div f
           V == subs[f]
           W == subs'[f]
           values == Measured(V, q)
<1>1. WallStep = Now /\ Now \in Nat \ {0} /\ SubsStep = Now - 1
  <2>1. pc = "subs"
    BY DEF SendSubsAndWait
  <2> QED BY <2>1, StepsOfLoop DEF SubsStep
<1>2. f \in Nat \ {0} /\ f <= Multiple /\ Multiple \in Nat
  BY Constants
<1>3. q \in Nat \ {0}
  <2>1. f <= Now /\ f \in Nat /\ Now \in Nat
    BY <1>1, <1>2, EnoughSteps
  <2>2. f \div f = 1
    <3>1. f * 1 = f
      BY <1>2
    <3> QED BY <1>2, <3>1, Quotient, 1 \in Nat
  <2>3. q \in Nat /\ f \div f <= q
    BY <1>2, <2>1, DivisionIsMonotone
  <2> QED BY <2>2, <2>3
<1>4. top \in Nat /\ top <= q
  BY <1>1, <1>2, Now - 1 \in Nat, DivisionIsMonotone
<1>5. /\ W = AfterMeasured(V, q)
      /\ subBatches' = Append(subBatches, [multiple |-> f, step |-> Now, values |-> values])
  BY <1>1 DEF SendSubsAndWait, SubBatch, TypeOK
<1>6. IsStore(V) /\ \A i \in DOMAIN V : V[i].pos <= top
  BY <1>1 DEF TypeOK, SubsBehind, Behind
<1> HIDE DEF q, top, V, W
<1>7. /\ \A i \in DOMAIN W : W[i].pos <= q
      /\ values \in UNION {[S -> Nat] : S \in SUBSET Ids}
      /\ \A i \in Ids : Given(values, i) = Held(V, i, q - 1)
      /\ \A i \in Ids, p \in Nat :
           /\ Held(W, i, p) <= Held(V, i, p)
           /\ q <= p + 1 /\ (p = q => top < q) => Held(W, i, p) = Held(V, i, p)
  BY <1>3, <1>4, <1>5, <1>6, StoreMeasured
<1>8. Periods \subseteq Nat
  BY DEF Periods
<1>9. /\ \A i \in Ids, p \in Periods :
           /\ Held(W, i, p) <= Held(V, i, p)
           /\ q <= p + 1 /\ top < p =>
                Held(W, i, p) = Held(V, i, p)
  BY <1>3, <1>4, <1>7, <1>8
<1> QED BY <1>3, <1>5, <1>7, <1>9 DEF q, top, V, W, Behind

-----------------------------------------------------------------------------
(* The stores' part of the invariant *)

\* A step that leaves the main store and its time alone, or sends from it.
LEMMA MainSteps ==
  ASSUME Whole', TypeOK, TypeOK', LoopInv, stops = 0, stops' = 0, [Next]_vars
  PROVE  \/ main' = main /\ ~UpdateRegistries
         \/ SendToMain /\ main' # main
         \/ UpdateRegistries
<1> USE DEF registries
<1>1. CASE UNCHANGED vars \/ Tick \/ Wake \/ Measure \/ TakeTimestamp \/ CheckWindow
           \/ SendSubsAndWait \/ SendToMain \/ \E i \in Ids, a \in Amounts : Record(i, a)
  <2>1. main' = main \/ SendToMain
    BY <1>1 DEF vars, Tick, Record, Wake, Measure, TakeTimestamp, CheckWindow, SendSubsAndWait
  <2> QED BY <2>1
<1> QED BY <1>1, ClockStep

\* The main store's part: sending drops only what is of earlier periods.
LEMMA MainStoreStep ==
  ASSUME Whole', TypeOK, TypeOK', LoopInv, stops = 0, stops' = 0, [Next]_vars
  PROVE  Behind(main', Multiple, MainStep') /\ MainInv'
<1>1. /\ ClockInv /\ RegistryInv /\ MainBehind /\ MainInv /\ IsStore(main) /\ IsStore(main')
      /\ Multiple \in Frequencies /\ (~skipped' => ~skipped)
  BY ClockStep DEF LoopInv, TypeOK, Frequencies
<1>2. /\ MainStep \in Nat /\ MainStep' \in Nat /\ MainStep <= MainStep'
      /\ MainStep \div Multiple \in Nat /\ MainStep' \div Multiple \in Nat
      /\ MainStep \div Multiple <= MainStep' \div Multiple
  BY <1>1, StepsAdvance
<1>3. ASSUME NEW i \in Ids, NEW p \in Periods
      PROVE  /\ p \in Nat /\ Held(main, i, p) \in Nat /\ Held(main', i, p) \in Nat
             /\ UnderWay(Multiple, i, p) \in Nat /\ UnderWay(Multiple, i, p)' \in Nat
             /\ recorded[Multiple][i][p] \in Nat /\ recorded'[Multiple][i][p] \in Nat
             /\ Total(main, Multiple, i, p) \in Nat
             /\ Total(main, Multiple, i, p) <= recorded[Multiple][i][p]
             /\ ~skipped /\ MainStep \div Multiple <= p + 1 =>
                  Total(main, Multiple, i, p) = recorded[Multiple][i][p]
  <2>1. /\ p \in Nat /\ Held(main, i, p) \in Nat /\ Held(main', i, p) \in Nat
        /\ UnderWay(Multiple, i, p) \in Nat /\ UnderWay(Multiple, i, p)' \in Nat
        /\ recorded[Multiple][i][p] \in Nat /\ recorded'[Multiple][i][p] \in Nat
    <3>1. p \in Nat
      BY DEF Periods
    <3>2. recorded[Multiple][i][p] \in Nat /\ recorded'[Multiple][i][p] \in Nat
      BY <1>1 DEF TypeOK
    <3>3. Held(main, i, p) \in Nat /\ Held(main', i, p) \in Nat
      BY <1>1, HeldType
    <3>4. UnderWay(Multiple, i, p) \in Nat /\ UnderWay(Multiple, i, p)' \in Nat
      BY UnderWayType, UnderWayTypeNext
    <3> QED BY <3>1, <3>2, <3>3, <3>4
  <2> QED BY <1>1, <2>1, MergeType DEF MainInv, Total
<1> DEFINE total1(i, p) == Merge(i, Held(main', i, p), UnderWay(Multiple, i, p)')
<1>4. SUFFICES /\ Behind(main', Multiple, MainStep')
               /\ \A i \in Ids, p \in Periods :
                    /\ total1(i, p) <= recorded'[Multiple][i][p]
                    /\ ~skipped /\ MainStep' \div Multiple <= p + 1 =>
                         total1(i, p) = recorded'[Multiple][i][p]
  BY <1>1 DEF MainInv
<1>5. CASE main' = main /\ ~UpdateRegistries
  <2>1. Behind(main', Multiple, MainStep')
    BY <1>1, <1>2, <1>5, BehindMore DEF MainBehind
  <2>2. ASSUME NEW i \in Ids, NEW p \in Periods
        PROVE  /\ total1(i, p) <= recorded'[Multiple][i][p]
               /\ ~skipped /\ MainStep' \div Multiple <= p + 1 =>
                    total1(i, p) = recorded'[Multiple][i][p]
    <3>1. /\ total1(i, p) <= recorded'[Multiple][i][p]
          /\ ~skipped /\ Total(main, Multiple, i, p) = recorded[Multiple][i][p] =>
               total1(i, p) = recorded'[Multiple][i][p]
      BY <1>1, <1>3, <1>5, Flow DEF Total
    <3>2. MainStep' \div Multiple <= p + 1 => MainStep \div Multiple <= p + 1
      BY <1>2, <1>3
    <3> HIDE DEF total1
    <3> QED BY <1>3, <3>1, <3>2
  <2> QED BY <2>1, <2>2
<1>6. CASE SendToMain
  <2>1. /\ Behind(main', Multiple, Now) /\ MainStep' = Now
        /\ \A i \in Ids, p \in Periods :
             /\ Held(main', i, p) <= Held(main, i, p)
             /\ Now \div Multiple <= p + 1 => Held(main', i, p) = Held(main, i, p)
    <3>1. pc = "send" /\ pc' = "subs"
      BY <1>6 DEF SendToMain
    <3>2. MainStep' = Now
      BY <3>1, <1>1, <1>6, ClockStep DEF SendToMain, MainStep, Tick, Record, Wake, Measure,
         UpdateRegistries, TakeTimestamp, CheckWindow, SendSubsAndWait, vars, sender
    <3> QED BY <1>1, <1>6, <3>2, MainMeasured
  <2>2. ASSUME NEW i \in Ids, NEW p \in Periods
        PROVE  /\ total1(i, p) <= recorded'[Multiple][i][p]
               /\ ~skipped /\ MainStep' \div Multiple <= p + 1 =>
                    total1(i, p) = recorded'[Multiple][i][p]
    <3> DEFINE kept == Merge(i, Held(main, i, p), UnderWay(Multiple, i, p)')
    <3>1. ~UpdateRegistries
      BY <1>6 DEF SendToMain, UpdateRegistries
    <3>2. /\ kept <= recorded'[Multiple][i][p]
          /\ ~skipped /\ Total(main, Multiple, i, p) = recorded[Multiple][i][p] =>
               kept = recorded'[Multiple][i][p]
      BY <1>1, <1>3, <3>1, Flow DEF Total
    <3>3. MainStep' \div Multiple <= p + 1 => MainStep \div Multiple <= p + 1
      BY <1>2, <1>3
    <3>4. total1(i, p) <= kept /\ kept \in Nat /\ total1(i, p) \in Nat
      BY <1>3, <2>1, MergeMonotone, MergeType
    <3>5. MainStep' \div Multiple <= p + 1 => total1(i, p) = kept
      BY <2>1
    <3> HIDE DEF total1, kept
    <3> QED BY <1>3, <3>2, <3>3, <3>4, <3>5
  <2> QED BY <2>1, <2>2
<1>7. CASE UpdateRegistries
  <2>1. /\ WallStep = Now /\ Now \in Nat \ {0} /\ MainStep = Now - 1
        /\ UNCHANGED <<MainStep, Unmeasured, recorded>>
    <3>1. pc = "update" /\ pc' = "check" /\ UNCHANGED <<start, now, recorded, run>>
      BY <1>1, <1>7 DEF UpdateRegistries, ClockInv, history
    <3>2. Unmeasured = Now /\ WallStep = Now /\ Now \in Nat \ {0}
      BY <1>1, <3>1, StepsOfLoop
    <3> QED BY <3>1, <3>2 DEF MainStep, Unmeasured, Now
  <2>2. main' = UpdateFrom(main, pending, Now, Multiple) /\ Behind(main, Multiple, Now - 1)
    BY <1>1, <1>7, <2>1 DEF UpdateRegistries, MainBehind
  <2>3. /\ Behind(main', Multiple, Now - 1)
        /\ \A i \in Ids, p \in Periods :
             /\ total1(i, p) <= Total(main, Multiple, i, p)
             /\ (Now - 1) \div Multiple <= p + 1 => total1(i, p) = Total(main, Multiple, i, p)
    BY <1>1, <1>7, <2>1, <2>2, HandedOver
  <2>4. ASSUME NEW i \in Ids, NEW p \in Periods
        PROVE  /\ total1(i, p) <= recorded'[Multiple][i][p]
               /\ ~skipped /\ MainStep' \div Multiple <= p + 1 =>
                    total1(i, p) = recorded'[Multiple][i][p]
    <3>1. total1(i, p) \in Nat
      BY <1>3, MergeType
    <3> HIDE DEF total1
    <3> QED BY <1>3, <2>1, <2>3, <3>1
  <2> QED BY <2>1, <2>3, <2>4
<1> QED BY <1>5, <1>6, <1>7, MainSteps

\* The subscriptions' part holds as long as no step ended during a POST to main.
LEMMA SubsPart ==
  ASSUME Whole', TypeOK, TypeOK', LoopInv, stops = 0, stops' = 0, [Next]_vars, torn' = {}
  PROVE  torn = {} /\ SubsBehind /\ SubsInv /\ SubBatchesInv /\ SubsSent
  BY ClockStep DEF LoopInv, SubsLoopInv

\* Results of subscriptions are only added.
LEMMA SubsSteps ==
  ASSUME Whole', TypeOK, TypeOK', LoopInv, stops = 0, stops' = 0, [Next]_vars, torn' = {}
  PROVE  /\ SubBatches \subseteq SubBatches'
         /\ \/ UNCHANGED <<subs, subBatches>> /\ ~UpdateRegistries
            \/ SendSubsAndWait
            \/ UpdateRegistries /\ UNCHANGED subBatches
<1> USE DEF registries, history
<1>1. CASE UNCHANGED vars \/ Tick \/ Wake \/ Measure \/ TakeTimestamp \/ CheckWindow
           \/ SendToMain \/ \E i \in Ids, a \in Amounts : Record(i, a)
  <2>1. UNCHANGED <<subs, subBatches>>
    BY <1>1 DEF vars, Tick, Record, Wake, Measure, TakeTimestamp, CheckWindow, SendToMain
  <2> QED BY <2>1 DEF SubBatches
<1>2. CASE UpdateRegistries
  BY <1>2 DEF UpdateRegistries, SubBatches
<1>3. CASE SendSubsAndWait
  <2>1. subBatches \in Seq([multiple : SubMultiples, step : Nat \ {0},
                         values : UNION {[S -> Nat] : S \in SUBSET Ids}])
    BY SubsPart DEF SubBatchesInv
  <2>2. subBatches' = subBatches
        \/ subBatches' = Append(subBatches, SubBatch((run % Multiple) + 1))
    BY <1>3 DEF SendSubsAndWait
  <2>3. SubBatches \subseteq SubBatches'
    BY <2>1, <2>2 DEF SubBatches, Range
  <2> QED BY <1>3, <2>3
<1> QED BY <1>1, <1>2, <1>3, ClockStep

\* The subscriptions' part: a period open at a frequency's turn may be dropped.
LEMMA SubsStoresStep ==
  ASSUME Whole', TypeOK, TypeOK', LoopInv, stops = 0, stops' = 0, [Next]_vars, torn' = {}
  PROVE  SubsBehind' /\ SubsInv'
<1> SUFFICES ASSUME NEW f \in SubMultiples
             PROVE  /\ Behind(subs'[f], f, SubsStep')
                    /\ \A i \in Ids, p \in Periods :
                         LET total1 == Merge(i, Held(subs'[f], i, p), UnderWay(f, i, p)')
                         IN  /\ total1 <= recorded'[f][i][p]
                             /\ ~skipped' /\ StillSent(f, p)' => total1 = recorded'[f][i][p]
  BY DEF SubsBehind, SubsInv
<1> DEFINE V == subs[f]
           W == subs'[f]
<1>1. /\ ClockInv /\ RegistryInv /\ SubsBehind /\ SubsInv /\ IsStore(V) /\ IsStore(W)
      /\ f \in Frequencies /\ (~skipped' => ~skipped) /\ torn = {}
  BY ClockStep, SubsPart DEF LoopInv, TypeOK, Frequencies
<1>2. /\ SubsStep \in Nat /\ SubsStep' \in Nat /\ SubsStep <= SubsStep'
      /\ SubsStep \div f \in Nat /\ SubsStep' \div f \in Nat
      /\ SubsStep \div f <= SubsStep' \div f
  BY <1>1, StepsAdvance
<1>3. ASSUME NEW i \in Ids, NEW p \in Periods
      PROVE  /\ p \in Nat /\ Held(V, i, p) \in Nat /\ Held(W, i, p) \in Nat
             /\ UnderWay(f, i, p) \in Nat /\ UnderWay(f, i, p)' \in Nat
             /\ recorded[f][i][p] \in Nat /\ recorded'[f][i][p] \in Nat
             /\ Total(V, f, i, p) \in Nat
             /\ Total(V, f, i, p) <= recorded[f][i][p]
             /\ ~skipped /\ StillSent(f, p) => Total(V, f, i, p) = recorded[f][i][p]
  <2>1. p \in Nat
    BY DEF Periods
  <2>2. recorded[f][i][p] \in Nat /\ recorded'[f][i][p] \in Nat
    BY <1>1 DEF TypeOK
  <2>3. Held(V, i, p) \in Nat /\ Held(W, i, p) \in Nat
    BY <1>1, HeldType
  <2>4. UnderWay(f, i, p) \in Nat /\ UnderWay(f, i, p)' \in Nat
    BY UnderWayType, UnderWayTypeNext
  <2>5. Total(V, f, i, p) \in Nat
    BY <2>3, <2>4, MergeType DEF Total
  <2>6. /\ Total(V, f, i, p) <= recorded[f][i][p]
        /\ ~skipped /\ StillSent(f, p) => Total(V, f, i, p) = recorded[f][i][p]
    BY <1>1 DEF SubsInv, Total
  <2> QED BY <2>1, <2>2, <2>3, <2>4, <2>5, <2>6
<1>4. ASSUME NEW p \in Periods, StillSent(f, p)'
      PROVE  StillSent(f, p) /\ SubsStep' \div f <= p + 1
  <2>1. SubsStep' \div f <= p + 1
    BY <1>4 DEF StillSent
  <2>2. SubsStep \div f <= p + 1
    BY <1>2, <2>1 DEF Periods
  <2>3. \A b \in SubBatches : b.multiple = f => (b.step - 1) \div f < p
    BY <1>4, SubsSteps DEF StillSent
  <2> QED BY <2>1, <2>2, <2>3 DEF StillSent
<1> DEFINE total1(i, p) == Merge(i, Held(W, i, p), UnderWay(f, i, p)')
<1>5. SUFFICES /\ Behind(W, f, SubsStep')
               /\ \A i \in Ids, p \in Periods :
                    /\ total1(i, p) <= recorded'[f][i][p]
                    /\ ~skipped /\ StillSent(f, p)' => total1(i, p) = recorded'[f][i][p]
  BY <1>1
<1>6. ASSUME W = V, ~UpdateRegistries
      PROVE  /\ Behind(W, f, SubsStep')
             /\ \A i \in Ids, p \in Periods :
                  /\ total1(i, p) <= recorded'[f][i][p]
                  /\ ~skipped /\ StillSent(f, p)' => total1(i, p) = recorded'[f][i][p]
  <2>1. Behind(W, f, SubsStep')
    BY <1>1, <1>2, <1>6, BehindMore DEF SubsBehind
  <2>2. ASSUME NEW i \in Ids, NEW p \in Periods
        PROVE  /\ total1(i, p) <= recorded'[f][i][p]
               /\ ~skipped /\ StillSent(f, p)' => total1(i, p) = recorded'[f][i][p]
    <3>1. /\ total1(i, p) <= recorded'[f][i][p]
          /\ ~skipped /\ Total(V, f, i, p) = recorded[f][i][p] =>
               total1(i, p) = recorded'[f][i][p]
      BY <1>1, <1>3, <1>6, Flow DEF Total
    <3> HIDE DEF total1
    <3> QED BY <1>3, <1>4, <3>1
  <2> QED BY <2>1, <2>2
<1>7. CASE SendSubsAndWait /\ f = (run % Multiple) + 1
  <2>1. ~UpdateRegistries /\ SubsStep' = Now /\ Now \in Nat
    <3>1. pc = "subs" /\ pc' = "wait" /\ run' = run + 1
      BY <1>7 DEF SendSubsAndWait
    <3>2. Unmeasured = Now /\ Now \in Nat
      BY <1>1, <3>1, StepsOfLoop
    <3>3. SubsStep' = Now
      BY <1>7, <3>1, <3>2 DEF SubsStep, Unmeasured, SendSubsAndWait, TypeOK
    <3> QED BY <3>1, <3>2, <3>3 DEF UpdateRegistries
  <2> DEFINE b == [multiple |-> f, step |-> Now, values |-> Measured(V, Now \div f)]
  <2>2. /\ subBatches' = Append(subBatches, b)
        /\ Behind(W, f, Now)
        /\ \A i \in Ids, p \in Periods :
             /\ Held(W, i, p) <= Held(V, i, p)
             /\ Now \div f <= p + 1 /\ (Now - 1) \div f < p => Held(W, i, p) = Held(V, i, p)
    BY <1>1, <1>7, SubsMeasured
  <2>3. b \in SubBatches'
    <3>1. subBatches \in Seq([multiple : SubMultiples, step : Nat \ {0},
                           values : UNION {[S -> Nat] : S \in SUBSET Ids}])
      BY SubsPart DEF SubBatchesInv
    <3>2. Len(subBatches) + 1 \in DOMAIN subBatches' /\ subBatches'[Len(subBatches) + 1] = b
      BY <2>2, <3>1
    <3> QED BY <3>2 DEF SubBatches, Range
  <2>4. ASSUME NEW p \in Periods, StillSent(f, p)'
        PROVE  (Now - 1) \div f < p
    <3>1. b.multiple = f /\ b.step = Now
      OBVIOUS
    <3> HIDE DEF b
    <3> QED BY <2>3, <2>4, <3>1 DEF StillSent
  <2>5. ASSUME NEW i \in Ids, NEW p \in Periods
        PROVE  /\ total1(i, p) <= recorded'[f][i][p]
               /\ ~skipped /\ StillSent(f, p)' => total1(i, p) = recorded'[f][i][p]
    <3> DEFINE kept == Merge(i, Held(V, i, p), UnderWay(f, i, p)')
    <3>1. /\ kept <= recorded'[f][i][p]
          /\ ~skipped /\ Total(V, f, i, p) = recorded[f][i][p] => kept = recorded'[f][i][p]
      BY <1>1, <1>3, <2>1, Flow DEF Total
    <3>2. total1(i, p) <= kept /\ kept \in Nat /\ total1(i, p) \in Nat
      <4>1. Held(W, i, p) <= Held(V, i, p)
        BY <2>2
      <4>2. /\ Held(V, i, p) \in Nat /\ Held(W, i, p) \in Nat
            /\ UnderWay(f, i, p)' \in Nat /\ UnderWay(f, i, p)' <= UnderWay(f, i, p)'
        BY <1>3
      <4> HIDE DEF V, W, b
      <4>3. kept \in Nat /\ total1(i, p) \in Nat
        BY <4>2, MergeType
      <4>4. total1(i, p) <= kept
        BY <4>1, <4>2, MergeMonotone
      <4> QED BY <4>3, <4>4
    <3>3. StillSent(f, p)' => total1(i, p) = kept
      BY <1>4, <2>1, <2>2, <2>4
    <3> HIDE DEF total1, kept
    <3> QED BY <1>3, <1>4, <3>1, <3>2, <3>3
  <2> QED BY <2>1, <2>2, <2>5
<1>8. CASE UpdateRegistries
  <2>1. /\ WallStep = Now /\ Now \in Nat \ {0} /\ SubsStep = Now - 1
        /\ UNCHANGED <<SubsStep, Unmeasured, recorded>>
    <3>1. pc = "update" /\ pc' = "check" /\ UNCHANGED <<start, now, recorded, run>>
      BY <1>1, <1>8 DEF UpdateRegistries, ClockInv, history
    <3>2. Unmeasured = Now /\ WallStep = Now /\ Now \in Nat \ {0}
      BY <1>1, <3>1, StepsOfLoop
    <3> QED BY <3>1, <3>2 DEF SubsStep, Unmeasured, Now
  <2>2. W = UpdateFrom(V, pending, Now, f) /\ Behind(V, f, Now - 1)
    BY <1>1, <1>8, <2>1 DEF UpdateRegistries, SubsBehind
  <2>3. /\ Behind(W, f, Now - 1)
        /\ \A i \in Ids, p \in Periods :
             /\ total1(i, p) <= Total(V, f, i, p)
             /\ (Now - 1) \div f <= p + 1 => total1(i, p) = Total(V, f, i, p)
    BY <1>1, <1>8, <2>1, <2>2, HandedOver
  <2>4. ASSUME NEW i \in Ids, NEW p \in Periods
        PROVE  /\ total1(i, p) <= recorded'[f][i][p]
               /\ ~skipped /\ StillSent(f, p)' => total1(i, p) = recorded'[f][i][p]
    <3>1. total1(i, p) \in Nat
      BY <1>3, MergeType
    <3> HIDE DEF total1
    <3> QED BY <1>3, <1>4, <2>1, <2>3, <3>1
  <2> QED BY <2>1, <2>3, <2>4
<1>9. CASE SendSubsAndWait /\ f # (run % Multiple) + 1
  <2>1. W = V /\ ~UpdateRegistries
    BY <1>9 DEF SendSubsAndWait, UpdateRegistries, TypeOK
  <2> QED BY <1>6, <2>1
<1> QED BY <1>6, <1>7, <1>8, <1>9, SubsSteps

-----------------------------------------------------------------------------
(* What was sent *)

\* What was recorded in a period that is over does not change any more.
LEMMA EndedPeriod ==
  ASSUME Whole', TypeOK, TypeOK', LoopInv, stops = 0, stops' = 0, [Next]_vars,
         NEW f \in Frequencies, NEW i \in Ids, NEW p \in Periods, p < Now \div f
  PROVE  recorded'[f][i][p] = recorded[f][i][p]
<1>1. ClockInv /\ Now \in Nat
  BY StepsOfLoop DEF LoopInv
<1>2. CASE UNCHANGED vars \/ Tick \/ Wake \/ Measure \/ TakeTimestamp \/ CheckWindow
           \/ SendToMain \/ SendSubsAndWait \/ UpdateRegistries
  BY <1>2 DEF vars, Tick, Wake, Measure, TakeTimestamp, CheckWindow, SendToMain, SendSubsAndWait,
              UpdateRegistries, history
<1>3. ASSUME NEW j \in Ids, NEW a \in Amounts, Record(j, a)
      PROVE  recorded'[f][i][p] = recorded[f][i][p]
  <2>1. recorded'[f][i][p] = Merge(i, recorded[f][i][p], IF i = j THEN In(f, Now, p, a) ELSE 0)
    BY <1>1, <1>3, RecordedStep
  <2>2. In(f, Now, p, a) = 0
    <3>1. Now \div f \in Nat /\ p \in Nat
      BY <1>1, FrequenciesArePositive, DivisionIsMonotone DEF Periods
    <3> QED BY <3>1 DEF In
  <2>3. recorded[f][i][p] \in Nat
    BY DEF TypeOK
  <2> QED BY <2>1, <2>2, <2>3, MergeType
<1> QED BY <1>2, <1>3, ClockStep

\* When a store is about to be sent, nothing of the period before is under way.
LEMMA NothingUnderWay ==
  ASSUME TypeOK, ClockInv, RegistryInv, pc = "send" \/ (pc = "subs" /\ torn = {}),
         NEW f \in Frequencies, NEW i \in Ids
  PROVE  UnderWay(f, i, Now \div f - 1) = 0
<1> DEFINE q == Now \div f
<1>1. Now \in Nat /\ Unmeasured = Now /\ registry[i].pos = Now
  <2>1. Now \in Nat /\ Unmeasured = Now /\ registry[i].pos \in Nat
    BY StepsOfLoop, UnderWayType
  <2> QED BY <2>1 DEF RegistryInv
<1>2. q \in Nat
  <2>1. f \in Nat \ {0}
    BY FrequenciesArePositive
  <2> QED BY <1>1, <2>1, DivisionIsMonotone
<1>3. Ended(i) = 0 /\ Open(i) \in Nat
  BY <1>1, UnderWayType DEF Ended
<1>4. In(f, EndedStep(i), q - 1, Ended(i)) = 0
  BY <1>3, InType, 0 \in Nat
<1>5. In(f, registry[i].pos, q - 1, Open(i)) = 0
  <2> HIDE DEF q
  <2>1. q # q - 1
    BY <1>2
  <2> QED BY <1>1, <2>1 DEF In, q
<1> QED BY <1>4, <1>5, MergeType, 0 \in Nat DEF UnderWay

\* Periods that are over are among those of the history.
LEMMA PeriodsOfHistory ==
  ASSUME TypeOK, ClockInv, NEW f \in Frequencies, NEW p \in Nat, p < Now \div f
  PROVE  p \in Periods
<1>1. now \in Nat /\ now <= MaxTime /\ MaxTime \in Nat
  BY Constants DEF TypeOK, ClockInv
<1>2. Now \in Nat /\ MaxTime \div StepTicks \in Nat /\ Now <= MaxTime \div StepTicks
  BY <1>1, Constants, DivisionIsMonotone DEF Now
<1>3. Now \div f \in Nat /\ Now \div f <= Now
  <2>1. PICK q \in Nat : Now \div f = q /\ f * q \in Nat /\ f * q <= Now
    BY <1>2, FrequenciesArePositive, Division
  <2>2. q <= f * q
    <3>1. PICK e \in Nat : f = e + 1
      <4>1. f - 1 \in Nat /\ f = (f - 1) + 1
        BY FrequenciesArePositive
      <4> QED BY <4>1
    <3>2. f * q = e * q + q /\ e * q \in Nat
      BY <3>1
    <3> QED BY <3>2
  <2> DEFINE x == f * q
  <2>3. x \in Nat /\ x <= Now /\ q <= x
    BY <2>1, <2>2
  <2> HIDE DEF x
  <2> QED BY <1>2, <2>1, <2>3
<1> QED BY <1>2, <1>3 DEF Periods

\* The minutes' steps are ordered as the minutes.
LEMMA Multiples ==
  ASSUME NEW a \in Nat, NEW b \in Nat
  PROVE  /\ a * Multiple \in Nat /\ b * Multiple \in Nat
         /\ a < b => a * Multiple + Multiple <= b * Multiple
<1>1. a * Multiple = Multiple * a /\ b * Multiple = Multiple * b
  BY Constants
<1>2. Multiple * a \in Nat /\ Multiple * b \in Nat
  BY Constants
<1>3. a < b => Multiple * a + Multiple <= Multiple * b
  BY Constants, Factors
<1> QED BY <1>1, <1>2, <1>3

\* A minute that is over at a step.
LEMMA MinuteIsOver ==
  ASSUME NEW m \in Nat, NEW s \in Nat, (m + 1) * Multiple <= s
  PROVE  m < s \div Multiple
<1>1. PICK q \in Nat : /\ s \div Multiple = q /\ Multiple * q \in Nat
                       /\ s < Multiple * q + Multiple
  BY Constants, Division
<1> DEFINE x == (m + 1) * Multiple
           y == q * Multiple
<1>2. Multiple * q = y
  BY Constants
<1>3. x \in Nat /\ y \in Nat /\ (q < m + 1 => y + Multiple <= x)
  BY Multiples
<1>4. x <= s /\ s < y + Multiple /\ Multiple \in Nat
  BY <1>1, <1>2, Constants
<1> HIDE DEF x, y
<1> QED BY <1>1, <1>3, <1>4

\* A minute whose step is done is one that was not yet, or was sent.
LEMMA MinutesOfStep ==
  ASSUME Whole', TypeOK, TypeOK', LoopInv, stops = 0, stops' = 0, [Next]_vars,
         ~SendToMain
  PROVE  /\ UNCHANGED batches
         /\ ~skipped => \A m \in Nat : (m + 1) * Multiple <= MainStep' =>
                                      (m + 1) * Multiple <= MainStep
<1>1. /\ ClockInv /\ MainStep \in Nat /\ Now \in Nat \ {0}
      /\ pc \notin {"wait", "measure", "subs"} => Unmeasured = Now
  BY StepsOfLoop DEF LoopInv
<1>2. UNCHANGED batches
  <2>1. CASE UNCHANGED vars \/ Tick \/ Wake \/ Measure \/ TakeTimestamp \/ CheckWindow
             \/ SendSubsAndWait \/ UpdateRegistries
             \/ \E i \in Ids, a \in Amounts : Record(i, a)
    BY <2>1 DEF vars, Tick, Record, Wake, Measure, TakeTimestamp, CheckWindow, SendSubsAndWait,
                UpdateRegistries, history
  <2> QED BY <2>1, ClockStep
<1>3. ASSUME ~skipped, NEW m \in Nat, (m + 1) * Multiple <= MainStep'
      PROVE  (m + 1) * Multiple <= MainStep
  <2>1. CASE MainStep' = MainStep
    BY <1>3, <2>1
  <2>2. CASE UNCHANGED vars
    BY <1>3, <2>2 DEF vars, sender, MainStep, Unmeasured
  <2>3. CASE Wake /\ MainStep' = Unmeasured' /\ Unmeasured' = Unmeasured
    BY <1>3, <2>3 DEF Wake, MainStep
  <2>4. CASE CheckWindow /\ Now % Multiple # 0 /\ MainStep' = Now
    <3>1. MainStep = Now - 1
      BY <1>1, <2>4 DEF CheckWindow, MainStep
    <3>2. (m + 1) * Multiple # Now
      <4>1. SUFFICES ASSUME Now = (m + 1) * Multiple PROVE FALSE
        OBVIOUS
      <4>2. Now = Multiple * (m + 1)
        BY <4>1, Constants
      <4>3. Now < Multiple * (m + 1) + Multiple
        BY <1>1, <4>2, Constants
      <4>4. Now \div Multiple = m + 1
        BY <1>1, <4>2, <4>3, Constants, Quotient
      <4>5. Now % Multiple = Now - Multiple * (m + 1)
        <5>1. PICK q \in Nat : Now \div Multiple = q /\ Now % Multiple = Now - Multiple * q
          BY <1>1, Constants, Division
        <5> QED BY <4>4, <5>1
      <4>6. Now % Multiple = 0
        BY <1>1, <4>2, <4>5
      <4> QED BY <2>4, <4>6
    <3> DEFINE x == (m + 1) * Multiple
    <3>3. x \in Nat /\ x # Now /\ x <= Now
      BY <1>3, <2>4, <3>2, Multiples
    <3> HIDE DEF x
    <3>4. x <= MainStep
      BY <1>1, <3>1, <3>3
    <3> QED BY <3>4 DEF x
  <2> QED BY <1>3, <2>1, <2>2, <2>3, <2>4, ClockStep
<1> QED BY <1>2, <1>3

\* The part about the batches for main.
LEMMA MainBatchesStep ==
  ASSUME Whole', TypeOK, TypeOK', LoopInv, stops = 0, stops' = 0, [Next]_vars
  PROVE  BatchesInv' /\ MainSent'
<1> DEFINE Values == UNION {[S -> Nat] : S \in SUBSET Ids}
           Batch == [minute : Nat, values : Values]
<1>1. /\ ClockInv /\ RegistryInv /\ MainBehind /\ MainInv /\ BatchesInv
      /\ batches \in Seq(Batch) /\ (~skipped' => ~skipped)
      /\ Now \in Nat \ {0} /\ Multiple \in Frequencies
      /\ MainStep \in Nat /\ MainStep' \in Nat /\ MainStep <= MainStep' /\ MainStep <= Now
  <2>1. /\ ClockInv /\ RegistryInv /\ MainBehind /\ MainInv /\ BatchesInv
        /\ batches \in Seq(Batch) /\ Multiple \in Frequencies
    BY DEF LoopInv, BatchesInv, Frequencies
  <2>2. ~skipped' => ~skipped
    BY ClockStep
  <2>3. /\ Now \in Nat \ {0} /\ MainStep \in Nat /\ Unmeasured \in Nat /\ Unmeasured <= Now
    BY <2>1, StepsOfLoop
  <2>4. MainStep <= Now
    BY <2>3 DEF MainStep
  <2>5. MainStep' \in Nat /\ MainStep <= MainStep'
    BY <2>1, StepsAdvance
  <2> QED BY <2>1, <2>2, <2>3, <2>4, <2>5
<1>2. \A b \in Batches : b \in Batch /\ (b.minute + 1) * Multiple <= MainStep
  <2>1. \A j \in DOMAIN batches : (batches[j].minute + 1) * Multiple <= MainStep
    BY <1>1 DEF BatchesInv
  <2> HIDE DEF Batch
  <2>2. \A j \in DOMAIN batches : batches[j] \in Batch
    BY <1>1
  <2> QED BY <2>1, <2>2 DEF Batches, Range
<1>3. MainSent
  BY DEF LoopInv
<1>4. ASSUME NEW b \in Batches
      PROVE  /\ b.minute \in Nat /\ b.minute < Now \div Multiple /\ b.minute \in Periods
             /\ \A i \in Ids :
                  recorded'[Multiple][i][b.minute] = recorded[Multiple][i][b.minute]
  <2>1. b.minute \in Nat
    BY <1>2
  <2> DEFINE x == (b.minute + 1) * Multiple
  <2>2. x \in Nat /\ x <= MainStep
    BY <1>2, <2>1, Constants
  <2> HIDE DEF x
  <2>3. x <= Now
    BY <1>1, <2>2
  <2>4. b.minute < Now \div Multiple
    BY <1>1, <2>1, <2>3, MinuteIsOver DEF x
  <2>5. b.minute \in Periods
    BY <1>1, <2>1, <2>4, PeriodsOfHistory
  <2> QED BY <1>1, <2>1, <2>4, <2>5, EndedPeriod
<1>5. ASSUME NEW b \in Batches, b.minute \in Minutes, NEW i \in Ids
      PROVE  /\ Sent(b, i) <= recorded'[Multiple][i][b.minute]
             /\ ~skipped => Sent(b, i) = recorded'[Multiple][i][b.minute]
  BY <1>3, <1>4, <1>5 DEF MainSent, RecordedInMinute
<1>j. \A j \in DOMAIN batches : /\ batches[j] \in Batches /\ batches[j].minute \in Nat
                               /\ (batches[j].minute + 1) * Multiple <= MainStep
  <2>1. \A j \in DOMAIN batches : batches[j] \in Batches
    BY DEF Batches, Range
  <2> QED BY <1>2, <1>4, <2>1
<1>6. ASSUME NEW m \in Nat, NEW s \in Nat, NEW t \in Nat, (m + 1) * Multiple <= s, s <= t
      PROVE  (m + 1) * Multiple <= t
  <2> DEFINE x == (m + 1) * Multiple
  <2>1. x \in Nat /\ x <= s
    BY <1>6, Constants
  <2> HIDE DEF x
  <2>2. x <= t
    BY <1>6, <2>1
  <2> QED BY <2>2 DEF x
<1>7. CASE ~SendToMain
  <2>1. /\ batches' = batches /\ Batches' = Batches
        /\ ~skipped => \A m \in Nat : (m + 1) * Multiple <= MainStep' =>
                                      (m + 1) * Multiple <= MainStep
    BY <1>7, MinutesOfStep DEF Batches
  <2>2. MainSent'
    BY <1>1, <1>5, <2>1 DEF MainSent, RecordedInMinute, Sent
  <2>3. \A j \in DOMAIN batches : (batches[j].minute + 1) * Multiple <= MainStep'
    <3>1. SUFFICES ASSUME NEW j \in DOMAIN batches
                   PROVE  (batches[j].minute + 1) * Multiple <= MainStep'
      OBVIOUS
    <3>2. batches[j].minute \in Nat /\ (batches[j].minute + 1) * Multiple <= MainStep
      BY <1>j
    <3> QED BY <1>1, <1>6, <3>2
  <2>4. ~skipped' => \A m \in Nat \ {0} :
          (m + 1) * Multiple <= MainStep' => \E b \in Batches : b.minute = m
    BY <1>1, <2>1 DEF BatchesInv
  <2> QED BY <1>1, <2>1, <2>2, <2>3, <2>4 DEF BatchesInv
<1>8. CASE SendToMain
  <2> DEFINE q == Now \div Multiple
             values == Measured(main, q)
             b == [minute |-> q - 1, values |-> values]
             n == Len(batches) + 1
  <2>1. /\ pc = "send" /\ pc' = "subs"
        /\ q \in Nat \ {0} /\ Now = Multiple * q /\ (Now - 1) \div Multiple = q - 1
        /\ MainStep = Now - 1
    BY <1>1, <1>8, MinuteOfBatch DEF SendToMain
  <2>2. MainStep' = Now
    BY <2>1, <1>1, <1>8, ClockStep DEF SendToMain, MainStep, Tick, Record, Wake, Measure,
       UpdateRegistries, TakeTimestamp, CheckWindow, SendSubsAndWait, vars, sender
  <2>3. /\ batches' = Append(batches, b) /\ values \in Values
        /\ \A i \in Ids : Given(values, i) = Held(main, i, q - 1)
    BY <1>1, <1>8, MainMeasured
  <2> HIDE DEF q, values
  <2>4. b \in Batch /\ b.minute = q - 1 /\ b.values = values
    BY <2>1, <2>3
  <2> HIDE DEF b, Batch
  <2>5. /\ n \in Nat /\ DOMAIN batches = 1..(n - 1) /\ DOMAIN batches' = 1..n
        /\ batches' \in Seq(Batch) /\ batches'[n] = b
        /\ \A j \in DOMAIN batches : batches'[j] = batches[j]
    BY <1>1, <2>3, <2>4
  <2>6. Batches' = Batches \cup {b}
    BY <2>5 DEF Batches, Range
  <2>7. q * Multiple = Now
    BY <2>1, Constants
  <2>8. ASSUME NEW m \in Nat, (m + 1) * Multiple <= MainStep
        PROVE  m < q - 1
    <3> DEFINE x == (m + 1) * Multiple
               y == q * Multiple
    <3>1. x \in Nat /\ y \in Nat /\ (q < m + 1 => y + Multiple <= x) /\ (q = m + 1 => x = y)
      BY <2>1, Multiples
    <3>2. x <= MainStep /\ y = Now /\ Multiple \in Nat
      BY <2>7, <2>8, Constants
    <3> HIDE DEF x, y
    <3>3. ~(q <= m + 1)
      BY <1>1, <2>1, <3>1, <3>2
    <3> QED BY <2>1, <3>3
  <2>9. ASSUME NEW m \in Nat, (m + 1) * Multiple <= MainStep', m # q - 1
        PROVE  (m + 1) * Multiple <= MainStep
    <3> DEFINE x == (m + 1) * Multiple
               y == q * Multiple
    <3>1. /\ x \in Nat /\ y \in Nat
          /\ m + 1 < q => x + Multiple <= y
          /\ q < m + 1 => y + Multiple <= x
      BY <2>1, Multiples
    <3>2. x <= Now /\ y = Now /\ Multiple \in Nat \ {0}
      BY <2>2, <2>7, <2>9, Constants
    <3> HIDE DEF x, y
    <3>3. x <= MainStep
      BY <1>1, <2>1, <2>9, <3>1, <3>2
    <3> QED BY <3>3 DEF x
  <2>10. \A j \in DOMAIN batches' : (batches'[j].minute + 1) * Multiple <= MainStep'
    <3>1. SUFFICES ASSUME NEW j \in DOMAIN batches'
                   PROVE  (batches'[j].minute + 1) * Multiple <= MainStep'
      OBVIOUS
    <3>2. CASE j = n
      <4>1. batches'[j].minute + 1 = q
        BY <2>1, <2>4, <2>5, <3>2
      <4>2. q * Multiple <= MainStep'
        BY <1>1, <2>2, <2>7
      <4> QED BY <4>1, <4>2
    <3>3. CASE j \in DOMAIN batches
      <4>1. /\ batches'[j].minute \in Nat
            /\ (batches'[j].minute + 1) * Multiple <= MainStep
        BY <1>j, <2>5, <3>3
      <4> QED BY <1>1, <1>6, <4>1
    <3> QED BY <2>5, <3>2, <3>3
  <2>11. ~skipped' => \A m \in Nat \ {0} :
           (m + 1) * Multiple <= MainStep' => \E c \in Batches' : c.minute = m
    <3>1. SUFFICES ASSUME ~skipped', NEW m \in Nat \ {0}, (m + 1) * Multiple <= MainStep'
                   PROVE  \E c \in Batches' : c.minute = m
      OBVIOUS
    <3>2. CASE m = q - 1
      BY <2>4, <2>6, <3>2
    <3>3. CASE m # q - 1
      <4>1. (m + 1) * Multiple <= MainStep
        BY <2>9, <3>1, <3>3
      <4> QED BY <1>1, <2>6, <3>1, <4>1 DEF BatchesInv
    <3> QED BY <3>2, <3>3
  <2>12. BatchesInv'
    BY <2>5, <2>10, <2>11 DEF BatchesInv, Batch
  <2>13. ASSUME NEW i \in Ids
         PROVE  /\ Sent(b, i) <= recorded'[Multiple][i][q - 1]
                /\ ~skipped => Sent(b, i) = recorded'[Multiple][i][q - 1]
    <3>1. Sent(b, i) = Held(main, i, q - 1)
      BY <2>3, <2>4 DEF Sent, Given
    <3>2. UnderWay(Multiple, i, q - 1) = 0
      BY <1>1, <2>1, NothingUnderWay DEF q
    <3>3. q - 1 \in Nat /\ q - 1 < q
      BY <2>1
    <3>4. q - 1 \in Periods
      BY <1>1, <3>3, PeriodsOfHistory DEF q
    <3>5. Held(main, i, q - 1) \in Nat /\ IsStore(main)
      BY HeldType DEF TypeOK
    <3>6. Merge(i, Held(main, i, q - 1), UnderWay(Multiple, i, q - 1)) = Held(main, i, q - 1)
      BY <3>2, <3>5, MergeType, 0 \in Nat
    <3>7. MainStep \div Multiple <= (q - 1) + 1
      BY <2>1
    <3>8. /\ Held(main, i, q - 1) <= recorded[Multiple][i][q - 1]
          /\ ~skipped => Held(main, i, q - 1) = recorded[Multiple][i][q - 1]
      BY <1>1, <3>4, <3>6, <3>7 DEF MainInv
    <3>9. recorded'[Multiple][i][q - 1] = recorded[Multiple][i][q - 1]
      BY <1>1, <3>3, <3>4, EndedPeriod DEF q
    <3> QED BY <3>1, <3>8, <3>9
  <2>14. MainSent'
    <3>1. SUFFICES ASSUME NEW c \in Batches', c.minute \in Minutes, NEW i \in Ids
                   PROVE  /\ Sent(c, i) <= recorded'[Multiple][i][c.minute]
                          /\ ~skipped' => Sent(c, i) = recorded'[Multiple][i][c.minute]
      BY DEF MainSent, RecordedInMinute, Sent
    <3>2. CASE c = b
      BY <1>1, <2>4, <2>13, <3>2
    <3>3. CASE c \in Batches
      BY <1>1, <1>5, <3>1, <3>3
    <3> QED BY <2>6, <3>2, <3>3
  <2> QED BY <2>12, <2>14
<1> QED BY <1>7, <1>8

\* A frequency's turn is never twice in fewer than Multiple steps.
LEMMA TurnsApart ==
  ASSUME TypeOK, ClockInv, SubBatchesInv, pc = "subs", torn = {}, ~skipped,
         NEW b \in SubBatches, b.multiple = (run % Multiple) + 1
  PROVE  b.step + Multiple <= Now
<1>1. PICK r \in Nat : r % Multiple = b.multiple - 1 /\ run - r = SubsStep + 1 - b.step
  BY DEF SubBatchesInv
<1>2. SubsStep = Now - 1 /\ Now \in Nat \ {0}
  BY StepsOfLoop DEF SubsStep
<1>3. b.step <= SubsStep /\ b.step \in Nat
  <2> DEFINE Batch == [multiple : SubMultiples, step : Nat \ {0},
                       values : UNION {[S -> Nat] : S \in SUBSET Ids}]
  <2>1. b.step <= SubsStep /\ subBatches \in Seq(Batch)
    BY DEF SubBatchesInv
  <2>2. b \in Batch => b.step \in Nat
    OBVIOUS
  <2> HIDE DEF Batch
  <2>3. b \in Batch
    BY <2>1 DEF SubBatches, Range
  <2> QED BY <2>1, <2>2, <2>3
<1>4. run \in Nat /\ run % Multiple \in Nat
  BY Constants DEF TypeOK
<1>5. r < run /\ r % Multiple = run % Multiple
  BY <1>1, <1>2, <1>3, <1>4
<1>6. r + Multiple <= run
  BY <1>4, <1>5, Constants, SameRemainder
<1> QED BY <1>1, <1>2, <1>3, <1>4, <1>6, Constants

\* So the open interval of its last turn is not the one it is sent now.
LEMMA IntervalsApart ==
  ASSUME NEW s \in Nat \ {0}, NEW t \in Nat, NEW f \in Nat \ {0}, 2 * f <= Multiple + 1,
         s + Multiple <= t
  PROVE  (s - 1) \div f < t \div f - 1
<1>1. s - 1 \in Nat /\ (s - 1) + f * 2 \in Nat /\ (s - 1) + f * 2 <= t
  BY Constants
<1>2. ((s - 1) + f * 2) \div f = (s - 1) \div f + 2
  BY <1>1, IntervalsLater, 2 \in Nat
<1>3. ((s - 1) + f * 2) \div f <= t \div f /\ t \div f \in Nat /\ (s - 1) \div f \in Nat
  BY <1>1, DivisionIsMonotone
<1> DEFINE x == ((s - 1) + f * 2) \div f
           y == (s - 1) \div f
           z == t \div f
<1>4. x = y + 2 /\ x <= z /\ z \in Nat /\ y \in Nat
  BY <1>2, <1>3
<1> HIDE DEF x, y, z
<1>5. y < z - 1
  BY <1>4
<1> QED BY <1>5 DEF y, z

\* Steps that send nothing to subscriptions.
LEMMA TurnsKept ==
  ASSUME Whole', TypeOK, TypeOK', LoopInv, stops = 0, stops' = 0, [Next]_vars,
         ~SendSubsAndWait
  PROVE  UNCHANGED <<run, subBatches>> /\ (~skipped => SubsStep' = SubsStep)
<1>1. UNCHANGED <<run, subBatches>>
  <2>1. CASE UNCHANGED vars \/ Tick \/ Wake \/ Measure \/ TakeTimestamp \/ CheckWindow
             \/ SendToMain \/ UpdateRegistries \/ \E i \in Ids, a \in Amounts : Record(i, a)
    BY <2>1 DEF vars, Tick, Record, Wake, Measure, TakeTimestamp, CheckWindow, SendToMain,
                UpdateRegistries, sender, history
  <2> QED BY <2>1, ClockStep
<1>2. ~skipped => SubsStep' = SubsStep
  <2>1. CASE UNCHANGED vars
    BY <2>1 DEF vars, sender, SubsStep, Unmeasured
  <2>2. CASE Wake /\ SubsStep' = Unmeasured' /\ (~skipped => Unmeasured' = Unmeasured)
    BY <2>2 DEF Wake, SubsStep
  <2>3. CASE SubsStep' = SubsStep
    BY <2>3
  <2> QED BY <2>1, <2>2, <2>3, ClockStep
<1> QED BY <1>1, <1>2

\* The part about the subscriptions' results.
LEMMA SubBatchesStep ==
  ASSUME Whole', TypeOK, TypeOK', LoopInv, stops = 0, stops' = 0, [Next]_vars, torn' = {}
  PROVE  SubBatchesInv' /\ SubsSent'
<1> DEFINE Values == UNION {[S -> Nat] : S \in SUBSET Ids}
           Batch == [multiple : SubMultiples, step : Nat \ {0}, values : Values]
<1>1. /\ ClockInv /\ RegistryInv /\ SubsBehind /\ SubsInv /\ SubBatchesInv
      /\ subBatches \in Seq(Batch) /\ (~skipped' => ~skipped)
      /\ Now \in Nat \ {0} /\ SubMultiples \subseteq Frequencies
      /\ SubsStep \in Nat /\ SubsStep' \in Nat /\ SubsStep <= SubsStep' /\ SubsStep <= Now
      /\ run \in Nat /\ torn = {}
  <2>1. /\ ClockInv /\ RegistryInv /\ SubsBehind /\ SubsInv /\ SubBatchesInv
        /\ subBatches \in Seq(Batch) /\ SubMultiples \subseteq Frequencies /\ torn = {}
    BY SubsPart DEF LoopInv, SubBatchesInv, Frequencies
  <2>2. ~skipped' => ~skipped
    BY ClockStep
  <2>3. /\ Now \in Nat \ {0} /\ SubsStep \in Nat /\ Unmeasured \in Nat /\ Unmeasured <= Now
    BY <2>1, StepsOfLoop
  <2>4. SubsStep <= Now
    BY <2>3 DEF SubsStep
  <2>5. SubsStep' \in Nat /\ SubsStep <= SubsStep'
    <3>1. Multiple \in Frequencies
      BY DEF Frequencies
    <3> QED BY <3>1, StepsAdvance
  <2>6. run \in Nat
    BY DEF TypeOK
  <2> QED BY <2>1, <2>2, <2>3, <2>4, <2>5, <2>6
<1> HIDE DEF Values
<1>2. ASSUME NEW b \in SubBatches
      PROVE  /\ b \in Batch /\ b.multiple \in SubMultiples /\ b.step \in Nat \ {0}
             /\ b.multiple <= b.step /\ b.step <= SubsStep
             /\ ~skipped => \E r \in Nat : /\ r % Multiple = b.multiple - 1
                                        /\ run - r = SubsStep + 1 - b.step
  <2> HIDE DEF Batch
  <2>1. b \in Batch
    BY <1>1 DEF SubBatches, Range
  <2>2. /\ b.multiple <= b.step /\ b.step <= SubsStep
        /\ ~skipped => \E r \in Nat : /\ r % Multiple = b.multiple - 1
                                   /\ run - r = SubsStep + 1 - b.step
    BY <1>1 DEF SubBatchesInv
  <2>3. b.multiple \in SubMultiples /\ b.step \in Nat \ {0}
    BY <2>1 DEF Batch
  <2> QED BY <2>1, <2>2, <2>3
<1>3. SubsSent
  BY SubsPart
<1>4. ASSUME NEW b \in SubBatches
      PROVE  \A i \in Ids : RecordedInInterval(b, i)' = RecordedInInterval(b, i)
  <2> DEFINE f == b.multiple
             q == b.step \div f
  <2>1. f \in Frequencies /\ f \in Nat \ {0} /\ b.step \in Nat /\ f <= b.step /\ b.step <= Now
    BY <1>1, <1>2, FrequenciesArePositive
  <2>2. f \div f = 1
    <3> HIDE DEF f
    <3>1. f * 1 = f
      BY <2>1
    <3> QED BY <2>1, <3>1, Quotient, 1 \in Nat
  <2>3. q \in Nat /\ f \div f <= q
    BY <2>1, DivisionIsMonotone
  <2>4. Now \div f \in Nat /\ q <= Now \div f
    BY <1>1, <2>1, DivisionIsMonotone
  <2> HIDE DEF q
  <2>5. q - 1 \in Nat /\ q - 1 < Now \div f
    BY <2>2, <2>3, <2>4
  <2>6. q - 1 \in Periods
    BY <1>1, <2>1, <2>5, PeriodsOfHistory
  <2>7. \A i \in Ids : recorded'[f][i][q - 1] = recorded[f][i][q - 1]
    BY <2>1, <2>5, <2>6, EndedPeriod
  <2> QED BY <2>7 DEF RecordedInInterval, q
<1>5. CASE ~SendSubsAndWait \/ (run % Multiple) + 1 \notin SubMultiples
  <2>1. subBatches' = subBatches /\ (~skipped => run' - run = SubsStep' - SubsStep /\ run' \in Nat)
    <3>1. CASE ~SendSubsAndWait
      BY <1>1, <3>1, TurnsKept
    <3>2. CASE SendSubsAndWait /\ (run % Multiple) + 1 \notin SubMultiples
      <4>1. pc = "subs" /\ pc' = "wait" /\ run' = run + 1 /\ subBatches' = subBatches
        BY <3>2 DEF SendSubsAndWait
      <4>2. Unmeasured = Now
        BY <1>1, <4>1, StepsOfLoop
      <4>3. SubsStep = Now - 1
        BY <4>1, <4>2 DEF SubsStep
      <4>4. SubsStep' = Now
        BY <1>1, <3>2, <4>1, <4>2 DEF SubsStep, Unmeasured, SendSubsAndWait
      <4> QED BY <1>1, <4>1, <4>3, <4>4
    <3> QED BY <1>5, <3>1, <3>2
  <2>2. SubBatches' = SubBatches
    BY <2>1 DEF SubBatches
  <2>3. \A b \in SubBatches : b.multiple <= b.step /\ b.step <= SubsStep'
    <3> HIDE DEF Batch
    <3> QED BY <1>1, <1>2
  <2>4. ~skipped' => \A b \in SubBatches : \E r \in Nat : /\ r % Multiple = b.multiple - 1
                                                       /\ run' - r = SubsStep' + 1 - b.step
    <3>1. SUFFICES ASSUME ~skipped', NEW b \in SubBatches
                   PROVE  \E r \in Nat : /\ r % Multiple = b.multiple - 1
                                         /\ run' - r = SubsStep' + 1 - b.step
      OBVIOUS
    <3>2. PICK r \in Nat : r % Multiple = b.multiple - 1 /\ run - r = SubsStep + 1 - b.step
      BY <1>1, <1>2, <3>1
    <3>3. b.step \in Nat
      BY <1>2
    <3>4. run' - r = SubsStep' + 1 - b.step
      <4>1. ~skipped
        BY <1>1, <3>1
      <4>2. run' - run = SubsStep' - SubsStep /\ run' \in Nat
        BY <2>1, <4>1
      <4>3. /\ run \in Nat /\ SubsStep \in Nat /\ SubsStep' \in Nat
            /\ run - r = SubsStep + 1 - b.step
        BY <1>1, <3>2
      <4> HIDE DEF Batch
      <4> QED BY <3>3, <4>2, <4>3
    <3> QED BY <3>2, <3>4
  <2>5. SubBatchesInv'
    BY <1>1, <2>1, <2>2, <2>3, <2>4 DEF SubBatchesInv, Batch, Values
  <2>6. SubsSent'
    BY <1>1, <1>3, <1>4, <2>2 DEF SubsSent, Sent
  <2> QED BY <2>5, <2>6
<1>6. CASE SendSubsAndWait /\ (run % Multiple) + 1 \in SubMultiples
  <2> DEFINE f == (run % Multiple) + 1
             q == Now \div f
             values == Measured(subs[f], q)
             b == [multiple |-> f, step |-> Now, values |-> values]
             n == Len(subBatches) + 1
  <2>1. /\ f \in SubMultiples /\ f \in Frequencies /\ f \in Nat \ {0} /\ f <= Multiple
    BY <1>1, <1>6, Constants
  <2>2. f - 1 = run % Multiple
    BY <1>1, Constants
  <2>3. /\ q \in Nat \ {0}
        /\ subBatches' = Append(subBatches, b) /\ values \in Values
        /\ \A i \in Ids : Given(values, i) = Held(subs[f], i, q - 1)
    BY <1>1, <1>6, <2>1, SubsMeasured DEF Values
  <2>4. pc = "subs" /\ pc' = "wait" /\ run' = run + 1 /\ start' = start
    BY <1>6 DEF SendSubsAndWait
  <2>5. Unmeasured = Now /\ SubsStep = Now - 1 /\ SubsStep' = Now
    <3>1. Unmeasured = Now
      BY <1>1, <2>4, StepsOfLoop
    <3> QED BY <1>1, <2>4, <3>1 DEF SubsStep, Unmeasured
  <2>6. f <= Now
    BY <1>1, <2>1, EnoughSteps, Constants
  <2> HIDE DEF f, q, values
  <2>7. b \in Batch /\ b.multiple = f /\ b.step = Now /\ b.values = values
    BY <1>1, <2>1, <2>3
  <2> HIDE DEF b, Batch
  <2>8. /\ n \in Nat /\ DOMAIN subBatches = 1..(n - 1) /\ DOMAIN subBatches' = 1..n
        /\ subBatches' \in Seq(Batch) /\ subBatches'[n] = b
        /\ \A j \in DOMAIN subBatches : subBatches'[j] = subBatches[j]
    BY <1>1, <2>3, <2>7
  <2>9. SubBatches' = SubBatches \cup {b}
    BY <2>8 DEF SubBatches, Range
  <2>10. \A c \in SubBatches' : c.multiple <= c.step /\ c.step <= SubsStep'
    <3>1. b.multiple <= b.step /\ b.step <= SubsStep'
      BY <1>1, <2>5, <2>6, <2>7
    <3>2. \A c \in SubBatches : c.multiple <= c.step /\ c.step <= SubsStep'
      BY <1>1, <1>2
    <3> QED BY <2>9, <3>1, <3>2
  <2>11. ~skipped' => \A c \in SubBatches' : \E r \in Nat : /\ r % Multiple = c.multiple - 1
                                                         /\ run' - r = SubsStep' + 1 - c.step
    <3>1. SUFFICES ASSUME ~skipped', NEW c \in SubBatches'
                   PROVE  \E r \in Nat : /\ r % Multiple = c.multiple - 1
                                         /\ run' - r = SubsStep' + 1 - c.step
      OBVIOUS
    <3>2. CASE c = b
      <4>1. /\ run \in Nat /\ run % Multiple = c.multiple - 1
            /\ run' - run = SubsStep' + 1 - c.step
        BY <1>1, <2>2, <2>4, <2>5, <2>7, <3>2
      <4> QED BY <4>1
    <3>3. CASE c \in SubBatches
      <4>1. PICK r \in Nat : r % Multiple = c.multiple - 1 /\ run - r = SubsStep + 1 - c.step
        BY <1>1, <1>2, <3>1, <3>3
      <4>2. c.step \in Nat
        BY <1>2, <3>3
      <4>3. run' - r = SubsStep' + 1 - c.step
        BY <1>1, <2>4, <2>5, <4>1, <4>2
      <4> QED BY <4>1, <4>3
    <3> QED BY <2>9, <3>1, <3>2, <3>3
  <2>12. SubBatchesInv'
    BY <2>8, <2>10, <2>11 DEF SubBatchesInv, Batch, Values
  <2>13. ASSUME NEW i \in Ids
         PROVE  /\ Sent(b, i) <= recorded'[f][i][q - 1]
                /\ ~skipped /\ 2 * f <= Multiple + 1 => Sent(b, i) = recorded'[f][i][q - 1]
    <3>1. Sent(b, i) = Held(subs[f], i, q - 1)
      BY <2>3, <2>7 DEF Sent, Given
    <3>2. UnderWay(f, i, q - 1) = 0
      BY <1>1, <2>1, <2>4, NothingUnderWay DEF q
    <3>3. q - 1 \in Nat /\ q - 1 < q
      BY <2>3
    <3>4. q - 1 \in Periods
      BY <1>1, <2>1, <3>3, PeriodsOfHistory DEF q
    <3>5. Held(subs[f], i, q - 1) \in Nat
      BY <2>1, HeldType DEF TypeOK
    <3>6. Merge(i, Held(subs[f], i, q - 1), UnderWay(f, i, q - 1)) = Held(subs[f], i, q - 1)
      BY <3>2, <3>5, MergeType, 0 \in Nat
    <3>7. ASSUME ~skipped, 2 * f <= Multiple + 1
          PROVE  StillSent(f, q - 1)
      <4>1. SubsStep \div f <= (q - 1) + 1
        <5>1. (Now - 1) \div f \in Nat /\ (Now - 1) \div f <= q
          BY <1>1, <2>1, Now - 1 \in Nat, DivisionIsMonotone DEF q
        <5> QED BY <2>3, <2>5, <5>1
      <4>2. ASSUME NEW c \in SubBatches, c.multiple = f
            PROVE  (c.step - 1) \div f < q - 1
        <5>1. c.multiple = (run % Multiple) + 1
          BY <4>2 DEF f
        <5>2. c.step + Multiple <= Now
          BY <1>1, <2>4, <3>7, <5>1, TurnsApart
        <5>3. c.step \in Nat \ {0}
          BY <1>2
        <5> QED BY <1>1, <2>1, <3>7, <5>2, <5>3, IntervalsApart DEF q
      <4> QED BY <4>1, <4>2 DEF StillSent
    <3>8. /\ Held(subs[f], i, q - 1) <= recorded[f][i][q - 1]
          /\ ~skipped /\ 2 * f <= Multiple + 1 =>
               Held(subs[f], i, q - 1) = recorded[f][i][q - 1]
      BY <1>1, <2>1, <3>4, <3>6, <3>7 DEF SubsInv
    <3>9. recorded'[f][i][q - 1] = recorded[f][i][q - 1]
      BY <1>1, <2>1, <3>3, <3>4, EndedPeriod DEF q
    <3> QED BY <3>1, <3>8, <3>9
  <2>14. SubsSent'
    <3>1. SUFFICES ASSUME NEW c \in SubBatches', NEW i \in Ids
                   PROVE  /\ Sent(c, i) <= RecordedInInterval(c, i)'
                          /\ ~skipped' /\ 2 * c.multiple <= Multiple + 1 =>
                               Sent(c, i) = RecordedInInterval(c, i)'
      BY DEF SubsSent, Sent
    <3>2. CASE c = b
      <4>1. RecordedInInterval(c, i)' = recorded'[f][i][q - 1]
        BY <2>7, <3>2 DEF RecordedInInterval, q
      <4> QED BY <1>1, <2>7, <2>13, <3>2, <4>1
    <3>3. CASE c \in SubBatches
      <4>1. RecordedInInterval(c, i)' = RecordedInInterval(c, i)
        BY <1>4, <3>3
      <4> QED BY <1>1, <1>3, <3>3, <4>1 DEF SubsSent
    <3> QED BY <2>9, <3>1, <3>2, <3>3
  <2> QED BY <2>12, <2>14
<1> QED BY <1>5, <1>6

-----------------------------------------------------------------------------
(* The invariant, and what follows from it *)

\* Every step of a client that was not stopped keeps the invariant.
LEMMA LoopStep ==
  ASSUME Whole', TypeOK, TypeOK', LoopInv, stops = 0, stops' = 0, [Next]_vars
  PROVE  LoopInv'
<1>1. ClockInv' /\ RegistryInv'
  BY ClockStep, RegistryStep
<1>2. MainBehind' /\ MainInv' /\ BatchesInv' /\ MainSent'
  BY MainStoreStep, MainBatchesStep DEF MainBehind
<1>3. ASSUME torn' = {} PROVE SubsLoopInv'
  BY <1>3, SubsStoresStep, SubBatchesStep DEF SubsLoopInv
<1> QED BY <1>1, <1>2, <1>3 DEF LoopInv

\* A stop is never undone.
LEMMA StopsStep == TypeOK /\ [Next]_vars => stops' = stops \/ stops' = stops + 1
<1> SUFFICES ASSUME TypeOK, [Next]_vars PROVE stops' = stops \/ stops' = stops + 1
  OBVIOUS
<1> USE DEF history
<1>1. CASE UNCHANGED vars
  BY <1>1 DEF vars
<1>2. CASE Tick \/ Stop \/ Start \/ Run \/ \E i \in Ids, a \in Amounts : Record(i, a)
  BY <1>2 DEF Tick, Stop, Start, Record, Run, Wake, Join, Measure, UpdateRegistries, CheckWindow,
              TakeTimestamp, SendToMain, SendSubsAndWait, EndFlush
<1> QED BY <1>1, <1>2 DEF Next

\* Nor is a run made whole again.
LEMMA TornStep == [Next]_vars => torn \subseteq torn'
<1> SUFFICES ASSUME [Next]_vars PROVE torn \subseteq torn'
  OBVIOUS
<1> USE DEF history
<1>1. CASE UNCHANGED vars
  BY <1>1 DEF vars
<1>2. CASE Tick
  BY <1>2 DEF Tick
<1>3. CASE Stop \/ Start \/ Run \/ \E i \in Ids, a \in Amounts : Record(i, a)
  BY <1>3 DEF Stop, Start, Record, Run, Wake, Join, Measure, UpdateRegistries, CheckWindow,
              TakeTimestamp, SendToMain, SendSubsAndWait, EndFlush
<1> QED BY <1>1, <1>2, <1>3 DEF Next

\* The invariant holds when the client is started.
LEMMA InitialLoop == Init => LoopInv
<1> SUFFICES ASSUME Init PROVE LoopInv
  OBVIOUS
<1>1. TypeOK
  BY InitialTypes
<1>2. /\ now \in Nat /\ Minute <= now /\ now < 2 * Minute /\ now <= MaxTime
      /\ phase = "loop" /\ pc = "wait" /\ start = now /\ deadline = now /\ run = 0 /\ offset = 0
  BY Constants DEF Init
<1>3. Now \in Nat \ {0} /\ Now - 1 \in Nat
  BY <1>2, WallStepType DEF Now
<1>4. Unmeasured = Now - 1 /\ MainStep = Now - 1 /\ SubsStep = Now - 1
  BY <1>2 DEF Unmeasured, MainStep, SubsStep, Now
<1>5. ClockInv
  <2>1. shouldRun
    BY DEF Init
  <2>2. deadline \div StepTicks = Unmeasured + 1 /\ Now <= Unmeasured + 1
    BY <1>2, <1>3, <1>4 DEF Now
  <2> QED BY <1>2, <2>1, <2>2, Constants DEF ClockInv
<1>6. RegistryInv
  <2>1. \A i \in Ids : registry[i].pos = Now
    BY DEF Init, Now
  <2>2. Unmeasured <= Now /\ Now <= Now
    BY <1>3, <1>4
  <2> QED BY <1>2, <2>1, <2>2 DEF RegistryInv
<1>7. DOMAIN main = {} /\ \A f \in SubMultiples : DOMAIN subs[f] = {}
  BY DEF Init, Empty
<1>8. MainBehind /\ SubsBehind
  BY <1>7 DEF MainBehind, SubsBehind, Behind
<1>9. ASSUME NEW i \in Ids, NEW f \in Frequencies, NEW p \in Periods
      PROVE  UnderWay(f, i, p) = 0 /\ recorded[f][i][p] = 0
  <2>1. registry[i].open = 0 /\ registry[i].last = 0 /\ recorded[f][i][p] = 0
    BY DEF Init
  <2>2. Ended(i) = 0 /\ Open(i) = 0
    BY <1>2, <2>1 DEF Ended, Open
  <2> QED BY <2>1, <2>2, InType, MergeType, 0 \in Nat DEF UnderWay
<1>10. Multiple \in Frequencies /\ SubMultiples \subseteq Frequencies
  BY DEF Frequencies
<1>11. MainInv
  BY <1>7, <1>9, <1>10, MergeType, 0 \in Nat DEF MainInv, Held
<1>12. SubsInv
  BY <1>7, <1>9, <1>10, MergeType, 0 \in Nat DEF SubsInv, Held
<1>13. batches = <<>> /\ subBatches = <<>> /\ Batches = {} /\ SubBatches = {}
  BY DEF Init, Batches, SubBatches, Range
<1>14. BatchesInv
  <2>1. ASSUME NEW m \in Nat \ {0}, (m + 1) * Multiple <= MainStep
        PROVE  FALSE
    <3>1. 1 * Multiple + Multiple <= (m + 1) * Multiple /\ (m + 1) * Multiple \in Nat
      BY Multiples
    <3>2. Multiple \in Nat /\ 1 * Multiple = Multiple
      BY Constants
    <3> DEFINE x == (m + 1) * Multiple
    <3>3. x \in Nat /\ x <= Now - 1 /\ Multiple + Multiple <= x
      BY <1>4, <2>1, <3>1, <3>2
    <3> HIDE DEF x
    <3>4. Now < Multiple + Multiple
      <4>1. now <= Minute + Minute - 1 /\ Minute + Minute - 1 \in Nat /\ Minute \in Nat
        BY <1>2, Constants
      <4> DEFINE k == Multiple + Multiple - 1
      <4>2. k \in Nat /\ StepTicks * k + StepTicks = Minute + Minute /\ StepTicks \in Nat \ {0}
        BY Constants DEF Minute
      <4>3. StepTicks * k \in Nat
        BY <4>2
      <4> DEFINE y == StepTicks * k
      <4>4. y \in Nat /\ y + StepTicks = Minute + Minute
        BY <4>2, <4>3
      <4> HIDE DEF k, y
      <4>5. y <= Minute + Minute - 1 /\ Minute + Minute - 1 < y + StepTicks
        BY <4>1, <4>2, <4>4
      <4>6. (Minute + Minute - 1) \div StepTicks = k
        BY <4>1, <4>2, <4>5, Quotient DEF y
      <4>7. Now <= k
        BY <1>2, <4>1, <4>6, LaterStep DEF Now
      <4> QED BY <1>3, <3>2, <4>2, <4>7 DEF k
    <3> QED BY <1>3, <3>2, <3>3, <3>4
  <2> QED BY <1>13, <2>1 DEF BatchesInv
<1>15. SubBatchesInv
  BY <1>13 DEF SubBatchesInv
<1>16. MainSent /\ SubsSent
  BY <1>13 DEF MainSent, SubsSent
<1> QED BY <1>5, <1>6, <1>8, <1>11, <1>12, <1>14, <1>15, <1>16 DEF LoopInv, SubsLoopInv

\* The invariant holds until the client is stopped.
LEMMA LoopInvariant == Spec => [](TypeOK /\ (stops = 0 /\ Whole => LoopInv))
<1> DEFINE Inv == TypeOK /\ OffsetInv /\ (stops = 0 /\ Whole => LoopInv)
<1>1. Init => Inv
  BY InitialTypes, InitialLoop
<1>2. Inv /\ [Next]_vars => Inv'
  <2> SUFFICES ASSUME Inv, [Next]_vars PROVE Inv'
    OBVIOUS
  <2>1. TypeOK' /\ OffsetInv'
    BY Typing
  <2>2. stops' = 0 => stops = 0
    <3>1. stops \in Nat
      BY DEF TypeOK
    <3> QED BY <3>1, StopsStep
  <2>3. Whole' => Whole
    BY TornStep DEF Whole
  <2> QED BY <2>1, <2>2, <2>3, LoopStep
<1>3. Inv => TypeOK /\ (stops = 0 /\ Whole => LoopInv)
  OBVIOUS
<1> HIDE DEF Inv
<1> QED BY <1>1, <1>2, <1>3, PTL DEF Spec

\* No batch reports more than was recorded in the minute it is about, however late
\* the sender wakes up and however long its POSTs take, as long as no run is torn;
\* nor does a result of a subscription, as long as none is by the POST to main either
\* (NothingIsInflated): send_to_main, send_subscriptions and the registries they
\* measure.
THEOREM NotInflated == Spec => []NothingIsInflated
<1>1. TypeOK /\ (stops = 0 /\ Whole => LoopInv) => NothingIsInflated
  BY DEF LoopInv, SubsLoopInv, MainSent, SubsSent, NothingIsInflated
<1> QED BY <1>1, LoopInvariant, PTL

\* A sender that begins a run in every step, none of them torn, sends every minute in
\* the first step of the next (PromptSenderSendsEveryMinute).
THEOREM PromptSends == Spec => []PromptSenderSendsEveryMinute
<1>1. TypeOK /\ (stops = 0 /\ Whole => LoopInv) => PromptSenderSendsEveryMinute
  <2> SUFFICES ASSUME TypeOK, LoopInv, ~skipped, NEW m \in Minutes,
                      now >= (m + 1) * Minute + StepTicks
               PROVE  \E b \in Batches : b.minute = m
    BY DEF PromptSenderSendsEveryMinute, EveryMinuteIsSent
  <2>1. m \in Nat \ {0}
    BY DEF Minutes
  <2>2. /\ ClockInv /\ Now \in Nat \ {0} /\ Unmeasured \in Nat /\ MainStep \in Nat
        /\ pc \in {"wait", "subs"} => Now <= Unmeasured + 1
        /\ pc = "measure" => Unmeasured = Now - 1
        /\ pc \notin {"wait", "measure", "subs"} => Unmeasured = Now
    BY StepsOfLoop DEF LoopInv
  <2>3. Now - 1 <= MainStep
    BY <2>2 DEF MainStep
  <2> DEFINE x == (m + 1) * Multiple
  <2>4. x \in Nat /\ (m + 1) * Minute = StepTicks * x
    BY <2>1, Constants DEF Minute
  <2>5. x + 1 <= Now
    <3> HIDE DEF x
    <3>1. StepTicks * (x + 1) = StepTicks * x + StepTicks /\ StepTicks * x \in Nat
          /\ StepTicks \in Nat \ {0}
      BY <2>4, Constants
    <3> DEFINE y == StepTicks * (x + 1)
    <3>2. y \in Nat /\ y < y + StepTicks /\ now \in Nat /\ y <= now
      BY <2>4, <3>1 DEF TypeOK
    <3>3. y \div StepTicks = x + 1
      <4>1. x + 1 \in Nat /\ StepTicks * (x + 1) <= y /\ y < StepTicks * (x + 1) + StepTicks
        BY <2>4, <3>2
      <4>2. y \in Nat /\ StepTicks \in Nat \ {0}
        BY <3>1, <3>2
      <4> HIDE DEF y
      <4> QED BY <4>1, <4>2, Quotient
    <3> HIDE DEF y
    <3>4. y \div StepTicks <= now \div StepTicks
      BY <3>2, LaterStep
    <3> QED BY <3>3, <3>4 DEF Now
  <2>6. x <= MainStep
    <3> HIDE DEF x
    <3> QED BY <2>2, <2>3, <2>4, <2>5
  <2> QED BY <2>1, <2>6 DEF LoopInv, BatchesInv
<1> QED BY <1>1, LoopInvariant, PTL

\* The batch of a minute holds what was recorded in it, of such a sender
\* (BatchesAreExact): nothing is lost between the meters, main_registry_
\* and what send_to_main pushes.
THEOREM BatchesExact == Spec => []BatchesAreExact
<1>1. TypeOK /\ (stops = 0 /\ Whole => LoopInv) => BatchesAreExact
  BY DEF LoopInv, MainSent, BatchesAreExact
<1> QED BY <1>1, LoopInvariant, PTL

\* The same of the subscriptions' results, for the frequencies of at most half a
\* minute and of runs that the POST to main does not tear either (SubBatchesAreExact).
THEOREM SubBatchesExact == Spec => []SubBatchesAreExact
<1>1. TypeOK /\ (stops = 0 /\ Whole => LoopInv) => SubBatchesAreExact
  BY DEF LoopInv, SubsLoopInv, SubsSent, SubBatchesAreExact, SubBatchIsExact, Whole
<1> QED BY <1>1, LoopInvariant, PTL

-----------------------------------------------------------------------------
(* The invariant up to the end of the first stop *)

TheMinute == Now \div Multiple

\* The values of a batch: none is 0.
SentValues == UNION {[S -> Nat \ {0}] : S \in SUBSET Ids}

LastIsSent == \E b \in Batches : b.minute = TheMinute - 1

\* The batches are of minutes that are over; that of the minute before agrees with
\* what main still holds of it.
SentInv ==
  /\ \A b \in Batches : b.minute \in Nat /\ b.minute < TheMinute
  /\ \A b \in Batches, i \in Ids :
       b.minute = TheMinute - 1 => Given(b.values, i) = Held(main, i, TheMinute - 1)

MetersInv ==
  \A i \in Ids :
    /\ registry[i].pos <= Now
    /\ pc \notin {"wait", "measure", "subs"} => registry[i].pos = Now
    /\ pc = "update" => Given(pending, i) = registry[i].last

\* In the first step of a minute the meters still have updates of the minute before.
\* Measured once more after that minute was sent, they change nothing of it: main has
\* the meter, rolled to the new minute.
FirstStepInv ==
  Now % Multiple = 0 => \A i \in Ids :
    IF LastIsSent
      THEN /\ registry[i].pos = Now
           /\ registry[i].last > 0 =>
                i \in DOMAIN main /\ main[i].pos = TheMinute /\ main[i].last > 0
      ELSE /\ i \in DOMAIN main => main[i].pos < TheMinute
           /\ pc \in {"check", "stamp", "send"} /\ registry[i].last > 0 =>
                Held(main, i, TheMinute - 1) > 0

\* The first flush: Stop remembers the minute, which may end while main is sent.
Flush1Inv ==
  \E m \in Nat : /\ prevStep = m * Minute /\ (pc # "subs" => m = TheMinute)
                 /\ \A b \in Batches : b.minute < m

\* Before the clock is moved forward.
BeforeFlush2 ==
  /\ offset = 0
  /\ phase = "flush1" => Flush1Inv
  /\ phase = "loop" /\ pc \in {"stamp", "send"} => Now % Multiple = 0
  /\ pc = "send" => timestamp = TheMinute
  /\ \A i \in DOMAIN main : main[i].pos <= TheMinute
  /\ MetersInv /\ SentInv /\ FirstStepInv

\* After that: the minute of the last batch is a new one.
InFlush2 ==
  /\ \A b \in Batches : b.minute \in Nat /\ b.minute + 1 < WallTime \div Minute
  /\ pc = "send" => timestamp = WallTime \div Minute

BatchesType == batches \in Seq([minute : Int, values : SentValues])

BatchesAgree == \A b, c \in Batches : b.minute = c.minute => b.values = c.values

ResendInv ==
  FirstLife /\ Whole =>
    /\ BatchesType /\ BatchesAgree
    /\ ~shouldRun \/ phase # "loop" => stops = 1
    /\ phase \in {"loop", "flush1"} => BeforeFlush2
    /\ phase = "flush2" /\ pc # "subs" => InFlush2
    /\ phase = "stopped" => pc = "wait"

-----------------------------------------------------------------------------
(* The operations of a store, once more *)

\* What an update does to an entry that is rolled further, or not at all.
LEMMA EntryUpdated ==
  ASSUME NEW V, IsStore(V), NEW ms, IsGiven(ms), NEW s \in Nat \ {0}, NEW f \in Nat \ {0},
         NEW i \in Ids
  PROVE  LET W == UpdateFrom(V, ms, s, f)
             q == (s - 1) \div f
         IN  /\ i \in DOMAIN V /\ q < V[i].pos =>
                  i \in DOMAIN W /\ W[i].pos = V[i].pos /\ W[i].last = V[i].last
             /\ Given(ms, i) = 0 /\ ~(i \in DOMAIN V /\ q < V[i].pos) =>
                  Held(W, i, q) = Held(V, i, q)
             /\ i \in DOMAIN W => W[i].pos = q \/ (i \in DOMAIN V /\ W[i].pos = V[i].pos)
<1> DEFINE W == UpdateFrom(V, ms, s, f)
           q == (s - 1) \div f
           At == IF i \in DOMAIN V THEN RollTo(V[i], q) ELSE NewEntry(q)
<1>1. q \in Nat
  BY s - 1 \in Nat, DivisionIsMonotone
<1>2. /\ DOMAIN W = DOMAIN V \cup DOMAIN ms
      /\ i \in DOMAIN ms => W[i] = [At EXCEPT !.open = Merge(i, At.open, ms[i])]
      /\ i \in DOMAIN V \ DOMAIN ms => W[i] = V[i]
  BY DEF UpdateFrom
<1> HIDE DEF q, W
<1>3. i \in DOMAIN V => V[i] \in Entries /\ V[i].pos \in Nat
  BY DEF IsStore, Entries
<1>4. i \in DOMAIN ms => ms[i] \in Nat
  BY DEF IsGiven
<1>5. CASE i \notin DOMAIN ms
  BY <1>2, <1>5 DEF Held, W, q
<1>6. CASE i \in DOMAIN ms /\ i \in DOMAIN V /\ q < V[i].pos
  <2>1. At = V[i]
    BY <1>1, <1>3, <1>6, RolledEntry
  <2>2. W[i] = [V[i] EXCEPT !.open = Merge(i, V[i].open, ms[i])]
    BY <1>2, <1>6, <2>1
  <2>3. W[i].pos = V[i].pos /\ W[i].last = V[i].last
    BY <1>3, <1>6, <2>2 DEF Entries
  <2> QED BY <1>2, <1>6, <2>3 DEF W, q
<1>7. CASE i \in DOMAIN ms /\ ~(i \in DOMAIN V /\ q < V[i].pos)
  <2>1. At \in Entries /\ At.pos = q /\ At.open = Held(V, i, q)
    <3>1. CASE i \notin DOMAIN V
      BY <1>1, <3>1 DEF NewEntry, Entries, Held
    <3>2. CASE i \in DOMAIN V /\ V[i].pos = q
      <4>1. At = V[i]
        BY <1>1, <1>3, <3>2, RolledEntry
      <4> QED BY <1>3, <3>2, <4>1 DEF Held
    <3>3. CASE i \in DOMAIN V /\ V[i].pos < q
      <4>1. At \in Entries /\ At.pos = q /\ At.open = 0
        BY <1>1, <1>3, <3>3, RolledEntry
      <4> QED BY <1>1, <1>3, <3>3, <4>1 DEF Held
    <3> QED BY <1>1, <1>3, <1>7, <3>1, <3>2, <3>3
  <2> HIDE DEF At
  <2>2. At.open \in Nat
    BY <2>1 DEF Entries
  <2>3. W[i].pos = q /\ W[i].open = Merge(i, At.open, ms[i])
    BY <1>2, <1>7, <2>1 DEF Entries
  <2>4. i \in DOMAIN W /\ Held(W, i, q) = Merge(i, At.open, ms[i])
    BY <1>2, <1>7, <2>3 DEF Held
  <2>5. Given(ms, i) = 0 => Held(W, i, q) = Held(V, i, q)
    BY <1>7, <2>1, <2>2, <2>4, MergeType, 0 \in Nat DEF Given
  <2> QED BY <1>7, <2>3, <2>5 DEF W, q
<1> QED BY <1>5, <1>6, <1>7 DEF W, q

\* A measurement returns no 0, and keeps the entries it returned.
LEMMA EntryMeasured ==
  ASSUME NEW V, IsStore(V), NEW q \in Nat \ {0}
  PROVE  /\ Measured(V, q) \in SentValues
         /\ \A i \in DOMAIN V : V[i].pos <= q /\ Held(V, i, q - 1) > 0 =>
              /\ i \in DOMAIN AfterMeasured(V, q)
              /\ AfterMeasured(V, q)[i].pos = q /\ AfterMeasured(V, q)[i].last > 0
<1> DEFINE values == Measured(V, q)
           W == AfterMeasured(V, q)
           At(i) == RollTo(V[i], q)
<1>1. ASSUME NEW i \in DOMAIN V
      PROVE  /\ i \in Ids /\ V[i] \in Entries /\ V[i].pos \in Nat
             /\ At(i) \in Entries /\ At(i).last \in Nat
             /\ V[i].pos = q => At(i) = V[i]
             /\ V[i].pos < q => At(i).pos = q
             /\ V[i].pos < q => At(i).last = IF V[i].pos = q - 1 THEN V[i].open ELSE 0
  <2>1. i \in Ids /\ V[i] \in Entries /\ V[i].pos \in Nat
    BY DEF IsStore, Entries
  <2>2. At(i) \in Entries
    BY <2>1, RolledEntry
  <2>3. At(i).last \in Nat
    BY <2>2 DEF Entries
  <2> QED BY <2>1, <2>2, <2>3, RolledEntry
<1>2. /\ DOMAIN W = {i \in DOMAIN V : At(i).last > 0 \/ ~V[i].marked}
      /\ \A i \in DOMAIN W : W[i] = [At(i) EXCEPT !.marked = ~(At(i).last > 0)]
  BY DEF AfterMeasured, HasValue
<1>3. /\ DOMAIN values = {i \in DOMAIN V : At(i).last > 0}
      /\ \A i \in DOMAIN values : values[i] = At(i).last
      /\ values = [i \in DOMAIN values |-> values[i]]
  BY DEF Measured, HasValue
<1> HIDE DEF At, W, values
<1>4. values \in SentValues
  <2>1. DOMAIN values \in SUBSET Ids /\ \A i \in DOMAIN values : values[i] \in Nat \ {0}
    BY <1>1, <1>3
  <2>2. values \in [DOMAIN values -> Nat \ {0}]
    BY <1>3, <2>1
  <2> QED BY <2>1, <2>2 DEF SentValues
<1>5. ASSUME NEW i \in DOMAIN V, V[i].pos <= q, Held(V, i, q - 1) > 0
      PROVE  i \in DOMAIN W /\ W[i].pos = q /\ W[i].last > 0
  <2>1. Held(V, i, q - 1) = At(i).last
    BY <1>1, <1>5 DEF Held
  <2>2. At(i).pos = q
    BY <1>1, <1>5
  <2>3. i \in DOMAIN W /\ W[i] = [At(i) EXCEPT !.marked = ~(At(i).last > 0)]
    BY <1>2, <1>5, <2>1
  <2> QED BY <1>1, <1>5, <2>1, <2>2, <2>3 DEF Entries
<1> QED BY <1>4, <1>5 DEF W, values

\* The values of a batch are known by what they give.
LEMMA SameValues ==
  ASSUME NEW v \in SentValues, NEW w \in SentValues, \A i \in Ids : Given(v, i) = Given(w, i)
  PROVE  v = w
<1>1. PICK S \in SUBSET Ids : v \in [S -> Nat \ {0}]
  BY DEF SentValues
<1>2. PICK T \in SUBSET Ids : w \in [T -> Nat \ {0}]
  BY DEF SentValues
<1>3. \A i \in Ids : (i \in S <=> i \in T) /\ (i \in S => v[i] = w[i])
  BY <1>1, <1>2 DEF Given
<1>4. S = T
  BY <1>3
<1> QED BY <1>1, <1>2, <1>3, <1>4

-----------------------------------------------------------------------------
(* The steps *)

\* What the invariant assumes of the clock.
LEMMA ClockBeforeFlush2 ==
  ASSUME TypeOK, OffsetInv, offset = 0
  PROVE  /\ WallTime = now /\ WallStep = Now /\ WallTime \div Minute = TheMinute
         /\ Now \in Nat \ {0} /\ TheMinute \in Nat \ {0}
         /\ now \in Nat /\ Minute <= now
<1>1. now \in Nat /\ Minute <= now
  BY DEF TypeOK, OffsetInv
<1>2. WallTime = now
  BY <1>1 DEF WallTime
<1>3. WallStep = Now
  BY <1>2 DEF WallStep, Now
<1>4. Now \in Nat \ {0}
  BY <1>1, WallStepType DEF Now
<1>5. now \div Minute = TheMinute
  BY <1>1, Constants, NestedDivision DEF TheMinute, Now, Minute
<1>6. Minute \div Minute = 1
  <2>1. Minute * 1 = Minute
    BY Constants
  <2>2. Minute \in Nat /\ Minute < Minute + Minute /\ Minute \in Nat \ {0}
    BY Constants
  <2>3. Minute * 1 <= Minute /\ Minute < Minute * 1 + Minute
    BY <2>1, <2>2
  <2> QED BY <2>2, <2>3, Quotient, 1 \in Nat
<1>7. now \div Minute \in Nat /\ 1 <= now \div Minute
  BY <1>1, <1>6, Constants, DivisionIsMonotone
<1> QED BY <1>1, <1>2, <1>3, <1>4, <1>5, <1>7

\* The minute after one that was moved to is the one after.
LEMMA MinuteAfter ==
  ASSUME NEW m \in Nat
  PROVE  (m * Minute + Minute) \div Minute = m + 1
<1>1. Minute * m = m * Minute /\ m * Minute \in Nat /\ Minute \in Nat \ {0}
  BY Constants
<1>2. (m * Minute) \div Minute = m
  <2> DEFINE x == m * Minute
  <2>1. x \in Nat /\ Minute * m <= x /\ x < Minute * m + Minute
    BY <1>1
  <2> HIDE DEF x
  <2>2. x \div Minute = m
    BY <1>1, <2>1, Quotient
  <2> QED BY <2>2 DEF x
<1> QED BY <1>1, <1>2, NextInterval

\* A tick starts a new step, or none; the first step of a minute starts the minute.
LEMMA ResendTick ==
  ASSUME TypeOK, TypeOK', OffsetInv, OffsetInv', ResendInv, FirstLife, Whole, Whole', Tick
  PROVE  ResendInv'
<1>1. /\ UNCHANGED <<offset, stopping, registries, sender, recorded, records, stops, batches>>
      /\ now' = now + 1
  BY DEF Tick
<1>2. pc \in {"wait", "subs"} \/ WallStep' = WallStep
  <2>1. now \in Nat /\ offset \in Int /\ Minute <= WallTime
    BY DEF TypeOK, OffsetInv, WallTime
  <2>2. WallTime \in Nat /\ WallTime' = WallTime + 1
    BY <1>1, <2>1, Constants DEF WallTime
  <2>3. WallStep \in Nat /\ WallStep' \in Nat /\ WallStep <= WallStep'
    BY <2>2, Constants, DivisionIsMonotone DEF WallStep
  <2>4. StepEnds <=> WallStep' > WallStep
    BY <2>2 DEF StepEnds, WallStep
  <2>5. pc # "wait" => torn' = IF StepEnds THEN torn \cup {pc} ELSE torn
    BY DEF Tick
  <2>6. pc \notin {"wait", "subs"} => ~StepEnds
    BY <2>5 DEF Whole
  <2> QED BY <2>3, <2>4, <2>6
<1>3. Batches' = Batches /\ BatchesType' /\ BatchesAgree'
  BY <1>1 DEF ResendInv, BatchesType, Batches, BatchesAgree
<1>4. (~shouldRun \/ phase # "loop" => stops = 1)'
  BY <1>1 DEF ResendInv, stopping, sender
<1>5. ASSUME phase \in {"loop", "flush1"}
      PROVE  BeforeFlush2'
  <2>1. BeforeFlush2 /\ offset = 0 /\ offset' = 0
    BY <1>1, <1>5 DEF ResendInv, BeforeFlush2
  <2>n. pc \in {"wait", "subs"} \/ Now' = Now
    <3>1. WallStep = Now
      BY <2>1, ClockBeforeFlush2
    <3>2. WallStep' = Now'
      BY <2>1 DEF TypeOK, WallStep, WallTime, Now
    <3> QED BY <1>2, <3>1, <3>2
  <2>2. /\ Now \in Nat \ {0} /\ TheMinute \in Nat \ {0}
        /\ Now' \in Nat \ {0} /\ TheMinute' \in Nat
    <3>1. Now \in Nat \ {0} /\ TheMinute \in Nat \ {0} /\ now \in Nat /\ Minute <= now
      BY <2>1, ClockBeforeFlush2
    <3>2. now + 1 \in Nat /\ Minute <= now + 1
      BY <3>1, Constants
    <3>3. Now' \in Nat \ {0}
      BY <1>1, <3>2, WallStepType DEF Now
    <3>4. TheMinute' \in Nat
      <4>1. PICK n \in Nat : n = Now'
        BY <3>3
      <4>2. n \div Multiple \in Nat
        BY Constants, DivisionIsMonotone
      <4> QED BY <4>1, <4>2 DEF TheMinute
    <3> QED BY <3>1, <3>3, <3>4
  <2>3. Now <= Now'
    <3>1. now \in Nat /\ now + 1 \in Nat /\ now <= now + 1
      BY DEF TypeOK
    <3> QED BY <1>1, <3>1, LaterStep DEF Now
  <2>4. TheMinute <= TheMinute'
    BY <2>2, <2>3, Constants, DivisionIsMonotone DEF TheMinute
  <2>5. Now' % Multiple = 0 /\ Now' # Now => TheMinute < TheMinute'
    <3>1. SUFFICES ASSUME Now' % Multiple = 0, Now' # Now PROVE TheMinute < TheMinute'
      OBVIOUS
    <3>6. PICK n \in Nat \ {0} : n = Now'
      BY <2>2
    <3>2. n - 1 \in Nat /\ Now <= n - 1
      <4>1. Now <= n /\ n # Now
        BY <2>3, <3>1, <3>6
      <4>2. Now \in Nat
        BY <2>2
      <4> QED BY <4>1, <4>2
    <3>3. n \div Multiple \in Nat /\ (n - 1) \div Multiple = n \div Multiple - 1
      BY <3>1, <3>6, Constants, FirstOfInterval
    <3>4. Now \div Multiple <= (n - 1) \div Multiple
      BY <2>2, <3>2, Constants, DivisionIsMonotone
    <3>5. TheMinute = Now \div Multiple /\ TheMinute' = n \div Multiple
      BY <3>6 DEF TheMinute
    <3> QED BY <2>2, <3>3, <3>4, <3>5
  <2>6. SentInv /\ SentInv'
    <3>1. SentInv
      BY <2>1 DEF BeforeFlush2
    <3>2. main' = main
      BY <1>1 DEF registries
    <3>3. CASE TheMinute' = TheMinute
      BY <1>3, <3>1, <3>2, <3>3 DEF SentInv, Held
    <3>4. CASE TheMinute < TheMinute'
      <4>1. \A b \in Batches : b.minute \in Nat /\ b.minute < TheMinute' - 1
        BY <2>2, <3>1, <3>4 DEF SentInv
      <4>2. \A b \in Batches : b.minute \in Nat /\ b.minute < TheMinute' /\ b.minute # TheMinute' - 1
        BY <2>2, <4>1
      <4> QED BY <1>3, <3>1, <4>2 DEF SentInv
    <3> QED BY <2>2, <2>4, <3>1, <3>3, <3>4
  <2>7. MetersInv'
    <3>1. MetersInv /\ \A i \in Ids : registry[i].pos \in Nat
      BY <2>1 DEF BeforeFlush2, TypeOK, Buckets
    <3>2. registry' = registry /\ pc' = pc /\ pending' = pending
      BY <1>1 DEF registries, sender
    <3> QED BY <2>2, <2>3, <2>n, <3>1, <3>2 DEF MetersInv, Given
  <2>8. \A i \in DOMAIN main : main[i].pos \in Nat /\ main[i].pos <= TheMinute
    BY <2>1 DEF BeforeFlush2, TypeOK, IsStore, Entries
  <2>9. main' = main
    BY <1>1 DEF registries
  <2>10. \A i \in DOMAIN main' : main'[i].pos <= TheMinute'
    BY <2>2, <2>4, <2>8, <2>9
  <2>11. FirstStepInv'
    <3>1. CASE Now' = Now
      <4>1. TheMinute' = TheMinute
        BY <3>1 DEF TheMinute
      <4>2. FirstStepInv
        BY <2>1 DEF BeforeFlush2
      <4>3. pc' = pc /\ registry' = registry
        BY <1>1 DEF registries, sender
      <4> QED BY <1>3, <2>9, <3>1, <4>1, <4>2, <4>3 DEF FirstStepInv, LastIsSent, Held
    <3>2. CASE Now' # Now
      <4>1. SUFFICES ASSUME Now' % Multiple = 0 PROVE FirstStepInv'
        BY DEF FirstStepInv
      <4>2. TheMinute < TheMinute'
        BY <2>5, <3>2, <4>1
      <4>3. \A b \in Batches : b.minute # TheMinute' - 1
        BY <2>2, <2>6, <4>2 DEF SentInv
      <4>4. ~LastIsSent'
        BY <1>3, <4>3 DEF LastIsSent
      <4>5. \A i \in DOMAIN main' : main'[i].pos < TheMinute'
        BY <2>2, <2>8, <2>9, <4>2
      <4>6. pc' \in {"wait", "subs"}
        BY <1>1, <2>n, <3>2 DEF sender
      <4> QED BY <4>4, <4>5, <4>6 DEF FirstStepInv
    <3> QED BY <3>1, <3>2
  <2>12. /\ phase' = phase /\ pc' = pc /\ timestamp' = timestamp /\ prevStep' = prevStep
    BY <1>1 DEF sender
  <2>13. pc \notin {"wait", "subs"} => TheMinute' = TheMinute
    BY <2>n DEF TheMinute
  <2>14. phase' = "flush1" => Flush1Inv'
    <3>1. SUFFICES ASSUME phase = "flush1" PROVE Flush1Inv'
      BY <2>12
    <3>2. pc # "wait"
      BY <3>1 DEF OffsetInv
    <3> QED BY <1>3, <2>1, <2>12, <2>13, <3>1, <3>2 DEF BeforeFlush2, Flush1Inv, Minute
  <2>15. /\ phase' = "loop" /\ pc' \in {"stamp", "send"} => Now' % Multiple = 0
         /\ pc' = "send" => timestamp' = TheMinute'
    BY <2>1, <2>n, <2>12, <2>13 DEF BeforeFlush2
  <2> QED BY <2>1, <2>6, <2>7, <2>10, <2>11, <2>14, <2>15 DEF BeforeFlush2
<1>6. phase' = phase /\ pc' = pc /\ timestamp' = timestamp
  BY <1>1 DEF sender
<1>7. ASSUME phase = "flush2", pc # "subs"
      PROVE  InFlush2'
  <2>1. InFlush2 /\ pc # "wait" /\ WallStep' = WallStep
    BY <1>2, <1>7 DEF ResendInv, OffsetInv
  <2>2. WallTime \in Nat /\ WallTime' \in Nat
    <3>1. now \in Nat /\ offset \in Int /\ Minute <= WallTime
      BY DEF TypeOK, OffsetInv, WallTime
    <3> QED BY <1>1, <3>1, Constants DEF WallTime
  <2>3. WallTime \div Minute = WallStep \div Multiple
    BY <2>2, Constants, NestedDivision DEF WallStep, Minute
  <2>4. WallTime' \div Minute = WallStep' \div Multiple
    BY <2>2, Constants, NestedDivision DEF WallStep, Minute
  <2>5. WallTime' \div Minute = WallTime \div Minute
    BY <2>1, <2>3, <2>4
  <2> QED BY <1>3, <1>6, <2>1, <2>5 DEF InFlush2, Minute
<1> QED BY <1>3, <1>4, <1>5, <1>6, <1>7 DEF ResendInv

\* What the invariant says, and what most actions leave alone.
LEMMA ResendKept ==
  ASSUME ResendInv, FirstLife, Whole, UNCHANGED <<now, offset, stopping, main, phase, stops, batches>>,
         phase \in {"loop", "flush1"} => MetersInv' /\ FirstStepInv',
         phase = "loop" /\ pc' \in {"stamp", "send"} =>
           pc \in {"stamp", "send"} \/ Now % Multiple = 0,
         phase = "flush1" => prevStep' = prevStep,
         phase \in {"loop", "flush1", "flush2"} /\ pc' = "send" =>
           \/ pc = "send" /\ timestamp' = timestamp
           \/ timestamp' = WallTime \div Minute /\ (offset = 0 => timestamp' = TheMinute),
         phase \in {"flush1", "flush2"} /\ pc = "subs" => pc' = "subs",
         phase = "stopped" /\ pc = "wait" => pc' = "wait"
  PROVE  ResendInv'
<1>1. Batches' = Batches /\ BatchesType' /\ BatchesAgree'
  BY DEF ResendInv, BatchesType, Batches, BatchesAgree
<1>2. /\ Now' = Now /\ TheMinute' = TheMinute /\ WallTime' = WallTime
      /\ phase' = phase
  BY DEF Now, TheMinute, WallTime
<1>3. (~shouldRun \/ phase # "loop" => stops = 1)'
  BY DEF ResendInv, stopping
<1>4. ASSUME phase \in {"loop", "flush1"} PROVE BeforeFlush2'
  <2>1. BeforeFlush2
    BY <1>4 DEF ResendInv
  <2>2. SentInv'
    BY <1>1, <1>2, <2>1 DEF BeforeFlush2, SentInv, Held
  <2>3. offset' = 0 /\ \A i \in DOMAIN main' : main'[i].pos <= TheMinute'
    BY <1>2, <2>1 DEF BeforeFlush2
  <2>4. phase' = "flush1" => Flush1Inv'
    BY <1>1, <1>2, <2>1 DEF BeforeFlush2, Flush1Inv, Minute
  <2>5. phase' = "loop" /\ pc' \in {"stamp", "send"} => Now' % Multiple = 0
    BY <1>2, <2>1 DEF BeforeFlush2
  <2>6. pc' = "send" => timestamp' = TheMinute'
    BY <1>2, <1>4, <2>1 DEF BeforeFlush2
  <2> QED BY <1>4, <2>2, <2>3, <2>4, <2>5, <2>6 DEF BeforeFlush2
<1>5. ASSUME phase = "flush2", pc' # "subs" PROVE InFlush2'
  <2>1. InFlush2
    BY <1>5 DEF ResendInv
  <2> QED BY <1>1, <1>2, <1>5, <2>1 DEF InFlush2
<1> QED BY <1>1, <1>2, <1>3, <1>4, <1>5 DEF ResendInv

\* An update rolls the meter to the step, as a run does.
LEMMA ResendRecord ==
  ASSUME TypeOK, OffsetInv, ResendInv, FirstLife, Whole,
         NEW j \in Ids, NEW a \in Amounts, Record(j, a)
  PROVE  ResendInv'
<1>1. /\ UNCHANGED <<now, offset, stopping, main, subs, sender, stops, batches>>
      /\ registry' = [registry EXCEPT ![j] =
                        [RollTo(registry[j], WallStep) EXCEPT
                           !.open = Merge(j, RollTo(registry[j], WallStep).open, a)]]
  BY DEF Record
<1>2. Now' = Now /\ TheMinute' = TheMinute /\ LastIsSent' = LastIsSent
  BY <1>1 DEF Now, TheMinute, LastIsSent, Batches
<1>3. ASSUME phase \in {"loop", "flush1"}
      PROVE  MetersInv' /\ FirstStepInv'
  <2>1. BeforeFlush2 /\ offset = 0
    BY <1>3 DEF ResendInv, BeforeFlush2
  <2>2. WallStep = Now /\ Now \in Nat
    BY <2>1, ClockBeforeFlush2
  <2>3. /\ \A i \in Ids : registry[i] \in Buckets /\ registry[i].pos \in Nat
        /\ \A i \in Ids : registry[i].pos <= Now
    BY <2>1 DEF BeforeFlush2, MetersInv, TypeOK, Buckets
  <2>4. \A i \in Ids : /\ registry'[i].pos <= Now
                       /\ registry[i].pos = Now =>
                            registry'[i].pos = Now /\ registry'[i].last = registry[i].last
    <3> SUFFICES ASSUME NEW i \in Ids
                 PROVE  /\ registry'[i].pos <= Now
                        /\ registry[i].pos = Now =>
                             registry'[i].pos = Now /\ registry'[i].last = registry[i].last
      OBVIOUS
    <3>1. DOMAIN registry = Ids
      BY DEF TypeOK
    <3>2. CASE i # j
      <4>1. registry'[i] = registry[i]
        BY <1>1, <3>1, <3>2
      <4> QED BY <2>3, <4>1
    <3>3. CASE i = j
      <4> DEFINE b == RollTo(registry[j], Now)
      <4>1. b \in Buckets /\ b.pos = Now /\ (registry[j].pos = Now => b = registry[j])
        <5>1. CASE registry[j].pos < Now
          BY <2>2, <2>3, <5>1, RolledBucket
        <5>2. CASE registry[j].pos = Now
          BY <2>2, <2>3, <5>2, RolledBucket
        <5> QED BY <2>2, <2>3, <5>1, <5>2
      <4>2. registry'[i] = [b EXCEPT !.open = Merge(j, b.open, a)]
        BY <1>1, <2>2, <3>1, <3>3
      <4> HIDE DEF b
      <4>3. registry'[i].pos = b.pos /\ registry'[i].last = b.last
        BY <4>1, <4>2 DEF Buckets
      <4> QED BY <2>2, <3>3, <4>1, <4>3
    <3> QED BY <3>2, <3>3
  <2>5. pc' = pc /\ pending' = pending /\ main' = main
    BY <1>1 DEF sender
  <2>6. MetersInv'
    BY <1>2, <2>1, <2>4, <2>5 DEF BeforeFlush2, MetersInv
  <2>7. FirstStepInv'
    <3>1. SUFFICES ASSUME Now % Multiple = 0, NEW i \in Ids
          PROVE IF LastIsSent
            THEN /\ registry'[i].pos = Now
                 /\ registry'[i].last > 0 =>
                      i \in DOMAIN main /\ main[i].pos = TheMinute /\ main[i].last > 0
            ELSE /\ i \in DOMAIN main => main[i].pos < TheMinute
                 /\ pc \in {"check", "stamp", "send"} /\ registry'[i].last > 0 =>
                      Held(main, i, TheMinute - 1) > 0
      BY <1>2, <2>5 DEF FirstStepInv, Held
    <3>2. IF LastIsSent
            THEN /\ registry[i].pos = Now
                 /\ registry[i].last > 0 =>
                      i \in DOMAIN main /\ main[i].pos = TheMinute /\ main[i].last > 0
            ELSE /\ i \in DOMAIN main => main[i].pos < TheMinute
                 /\ pc \in {"check", "stamp", "send"} /\ registry[i].last > 0 =>
                      Held(main, i, TheMinute - 1) > 0
      BY <2>1, <3>1 DEF BeforeFlush2, FirstStepInv
    <3>3. CASE LastIsSent
      BY <2>4, <3>2, <3>3
    <3>4. CASE ~LastIsSent
      <4>1. pc \in {"check", "stamp", "send"} => registry[i].pos = Now
        BY <2>1 DEF BeforeFlush2, MetersInv
      <4> QED BY <2>4, <3>2, <3>4, <4>1
    <3> QED BY <3>3, <3>4
  <2> QED BY <2>6, <2>7
<1> QED BY <1>1, <1>3, ResendKept DEF sender

\* Steps of the sender that change neither a meter nor main.
LEMMA ResendControl ==
  ASSUME TypeOK, OffsetInv, ResendInv, FirstLife, Whole,
         Wake \/ CheckWindow \/ TakeTimestamp \/ SendSubsAndWait
  PROVE  ResendInv'
<1>1. /\ UNCHANGED <<now, offset, stopping, main, registry, phase, stops, batches, prevStep,
                     pending>>
      /\ pc' \in {"wait", "measure", "check", "stamp", "send", "subs"}
      /\ pc \in {"wait", "measure", "subs"} => pc' \in {"wait", "measure", "subs"}
      /\ pc' = "update" => pc = "update"
      /\ pc' \in {"check", "stamp", "send"} => pc \in {"check", "stamp", "send"}
      /\ phase \in {"flush1", "flush2"} /\ pc = "subs" => pc' = "subs"
      /\ phase = "stopped" /\ pc = "wait" => pc' = "wait"
      /\ pc' = "send" => timestamp' = WallTime \div Minute
  BY DEF Wake, CheckWindow, TakeTimestamp, SendSubsAndWait, registries, history
<1>2. Now' = Now /\ TheMinute' = TheMinute /\ LastIsSent' = LastIsSent
  BY <1>1 DEF Now, TheMinute, LastIsSent, Batches
<1>3. ASSUME phase \in {"loop", "flush1"}
      PROVE  MetersInv' /\ FirstStepInv'
  <2>1. BeforeFlush2
    BY <1>3 DEF ResendInv
  <2>2. MetersInv'
    BY <1>1, <1>2, <2>1 DEF BeforeFlush2, MetersInv
  <2>3. FirstStepInv'
    BY <1>1, <1>2, <2>1 DEF BeforeFlush2, FirstStepInv, Held
  <2> QED BY <2>2, <2>3
<1>4. phase = "loop" /\ pc' \in {"stamp", "send"} => pc \in {"stamp", "send"} \/ Now % Multiple = 0
  <2>1. SUFFICES ASSUME phase = "loop", pc' \in {"stamp", "send"}, CheckWindow
                 PROVE  Now % Multiple = 0
    BY DEF Wake, TakeTimestamp, SendSubsAndWait
  <2>2. offset = 0
    BY <2>1 DEF ResendInv, BeforeFlush2
  <2>3. WallStep = Now
    BY <2>2, ClockBeforeFlush2
  <2>4. WallStep % Multiple = 0
    BY <2>1 DEF CheckWindow
  <2> QED BY <2>3, <2>4
<1>5. offset = 0 => WallTime \div Minute = TheMinute
  BY ClockBeforeFlush2
<1> QED BY <1>1, <1>3, <1>4, <1>5, ResendKept

\* The sender ends: Stop remembers the minute.
LEMMA ResendJoin ==
  ASSUME TypeOK, OffsetInv, ResendInv, FirstLife, Whole, Join
  PROVE  ResendInv'
<1>1. /\ UNCHANGED <<now, offset, stopping, main, registry, stops, batches, pending>>
      /\ phase = "loop" /\ pc = "wait" /\ ~shouldRun
      /\ phase' = "flush1" /\ pc' = "measure" /\ prevStep' = (WallTime \div Minute) * Minute
  BY DEF Join, registries, history
<1>2. Now' = Now /\ TheMinute' = TheMinute /\ LastIsSent' = LastIsSent
  BY <1>1 DEF Now, TheMinute, LastIsSent, Batches
<1>3. Batches' = Batches /\ BatchesType' /\ BatchesAgree'
  BY <1>1 DEF ResendInv, BatchesType, Batches, BatchesAgree
<1>4. BeforeFlush2 /\ stops = 1
  BY <1>1 DEF ResendInv
<1>5. Flush1Inv'
  <2>1. /\ prevStep' = TheMinute * Minute /\ TheMinute \in Nat
        /\ TheMinute' = TheMinute /\ Minute' = Minute
    BY <1>1, <1>2, <1>4, ClockBeforeFlush2 DEF BeforeFlush2, Minute
  <2>2. \A b \in Batches' : b.minute < TheMinute
    BY <1>3, <1>4 DEF BeforeFlush2, SentInv
  <2> QED BY <2>1, <2>2 DEF Flush1Inv
<1>6. SentInv'
  BY <1>1, <1>2, <1>3, <1>4 DEF BeforeFlush2, SentInv, Held
<1>7. MetersInv'
  BY <1>1, <1>2, <1>4 DEF BeforeFlush2, MetersInv
<1>8. FirstStepInv'
  BY <1>1, <1>2, <1>4 DEF BeforeFlush2, FirstStepInv
<1>9. offset' = 0 /\ \A i \in DOMAIN main' : main'[i].pos <= TheMinute'
  BY <1>1, <1>2, <1>4 DEF BeforeFlush2
<1>10. BeforeFlush2'
  BY <1>1, <1>5, <1>6, <1>7, <1>8, <1>9 DEF BeforeFlush2
<1>11. stops' = 1
  BY <1>1, <1>4
<1> QED BY <1>1, <1>3, <1>10, <1>11 DEF ResendInv

\* The meters are rolled to the step and what they measure is pending.
LEMMA ResendMeasure ==
  ASSUME TypeOK, OffsetInv, ResendInv, FirstLife, Whole, Measure
  PROVE  ResendInv'
<1>1. /\ UNCHANGED <<now, offset, stopping, main, phase, stops, batches, prevStep, timestamp>>
      /\ pc = "measure" /\ pc' = "update"
      /\ registry' = [i \in Ids |-> RollTo(registry[i], WallStep)]
      /\ pending' = [i \in {j \in Ids : j \in Gauges => registry'[j].last > 0} |->
                       registry'[i].last]
  BY DEF Measure, history
<1>2. Now' = Now /\ TheMinute' = TheMinute /\ LastIsSent' = LastIsSent
  BY <1>1 DEF Now, TheMinute, LastIsSent, Batches
<1>3. ASSUME phase \in {"loop", "flush1"}
      PROVE  MetersInv' /\ FirstStepInv'
  <2>1. BeforeFlush2 /\ offset = 0
    BY <1>3 DEF ResendInv, BeforeFlush2
  <2>2. WallStep = Now /\ Now \in Nat
    BY <2>1, ClockBeforeFlush2
  <2>3. \A i \in Ids : /\ registry'[i].pos = Now /\ registry'[i].last \in Nat
                       /\ registry[i].pos = Now => registry'[i].last = registry[i].last
    <3> SUFFICES ASSUME NEW i \in Ids
                 PROVE  /\ registry'[i].pos = Now /\ registry'[i].last \in Nat
                        /\ registry[i].pos = Now => registry'[i].last = registry[i].last
      OBVIOUS
    <3>1. registry[i] \in Buckets /\ registry[i].pos \in Nat /\ registry[i].pos <= Now
      BY <2>1 DEF BeforeFlush2, MetersInv, TypeOK, Buckets
    <3>2. registry'[i] = RollTo(registry[i], Now)
      BY <1>1, <2>2
    <3>3. registry'[i] \in Buckets
      BY <2>2, <3>1, <3>2, RolledBucket
    <3>4. registry'[i].last \in Nat
      BY <3>3 DEF Buckets
    <3>5. CASE registry[i].pos < Now
      BY <2>2, <3>1, <3>2, <3>4, <3>5, RolledBucket
    <3>6. CASE registry[i].pos = Now
      BY <2>2, <3>1, <3>2, <3>4, <3>6, RolledBucket
    <3> QED BY <2>2, <3>1, <3>5, <3>6
  <2>4. \A i \in Ids : Given(pending', i) = registry'[i].last
    <3> SUFFICES ASSUME NEW i \in Ids PROVE Given(pending', i) = registry'[i].last
      OBVIOUS
    <3>1. CASE i \in Gauges => registry'[i].last > 0
      BY <1>1, <3>1 DEF Given
    <3>2. CASE ~(i \in Gauges => registry'[i].last > 0)
      <4>1. registry'[i].last = 0
        BY <2>3, <3>2
      <4>2. i \notin DOMAIN pending'
        BY <1>1, <3>2
      <4> QED BY <4>1, <4>2 DEF Given
    <3> QED BY <3>1, <3>2
  <2>5. MetersInv'
    BY <1>1, <1>2, <2>2, <2>3, <2>4 DEF MetersInv, Given
  <2>6. FirstStepInv'
    <3>1. FirstStepInv
      BY <2>1 DEF BeforeFlush2
    <3>2. CASE LastIsSent
      BY <1>1, <1>2, <2>3, <3>1, <3>2 DEF FirstStepInv
    <3>3. CASE ~LastIsSent
      BY <1>1, <1>2, <3>1, <3>3 DEF FirstStepInv
    <3> QED BY <3>2, <3>3
  <2> QED BY <2>5, <2>6
<1> QED BY <1>1, <1>3, ResendKept

\* The application asks for the stop.
LEMMA ResendStop ==
  ASSUME TypeOK, OffsetInv, ResendInv, FirstLife, Whole, Stop
  PROVE  ResendInv'
<1>1. /\ UNCHANGED <<now, offset, registries, sender, batches>>
      /\ shouldRun /\ stops' = stops + 1
  BY DEF Stop
<1>2. Now' = Now /\ TheMinute' = TheMinute /\ LastIsSent' = LastIsSent /\ WallTime' = WallTime
  BY <1>1 DEF Now, TheMinute, LastIsSent, Batches, WallTime
<1>3. Batches' = Batches /\ BatchesType' /\ BatchesAgree'
  BY <1>1 DEF ResendInv, BatchesType, Batches, BatchesAgree
<1>4. stops = 0 /\ phase = "loop"
  BY <1>1 DEF ResendInv, FirstLife, Whole
<1>5. BeforeFlush2
  BY <1>4 DEF ResendInv
<1>6. /\ pc' = pc /\ phase' = phase /\ pending' = pending /\ timestamp' = timestamp
      /\ prevStep' = prevStep /\ main' = main /\ registry' = registry
  BY <1>1 DEF sender, registries
<1>7. SentInv' /\ MetersInv' /\ FirstStepInv'
  BY <1>2, <1>3, <1>5, <1>6 DEF BeforeFlush2, SentInv, MetersInv, FirstStepInv, Held, Given
<1>8. BeforeFlush2'
  BY <1>1, <1>2, <1>4, <1>5, <1>6, <1>7 DEF BeforeFlush2
<1>9. stops' = 1
  BY <1>1, <1>4
<1> QED BY <1>3, <1>4, <1>6, <1>8, <1>9 DEF ResendInv

\* main gets what the meters measured.  In the first step of a minute that is of the
\* minute before: if that was sent already, only meters without an update are put
\* back to it.
LEMMA ResendUpdate ==
  ASSUME TypeOK, OffsetInv, ResendInv, FirstLife, Whole, UpdateRegistries
  PROVE  ResendInv'
<1>1. /\ UNCHANGED <<now, offset, stopping, registry, phase, stops, batches, prevStep, timestamp>>
      /\ pc = "update" /\ pc' = IF phase = "loop" THEN "check" ELSE "stamp"
      /\ main' = UpdateFrom(main, pending, WallStep, Multiple)
  BY DEF UpdateRegistries, history
<1>2. Batches' = Batches /\ BatchesType' /\ BatchesAgree'
  BY <1>1 DEF ResendInv, BatchesType, Batches, BatchesAgree
<1>3. /\ Now' = Now /\ TheMinute' = TheMinute /\ LastIsSent' = LastIsSent
      /\ WallTime' = WallTime
  BY <1>1, <1>2 DEF Now, TheMinute, LastIsSent, WallTime
<1>4. (~shouldRun \/ phase # "loop" => stops = 1)'
  BY <1>1 DEF ResendInv, stopping
<1>5. ASSUME phase \in {"loop", "flush1"} PROVE BeforeFlush2'
  <2>1. BeforeFlush2 /\ offset = 0
    BY <1>5 DEF ResendInv, BeforeFlush2
  <2>2. /\ WallStep = Now /\ Now \in Nat \ {0} /\ TheMinute \in Nat \ {0}
    BY <2>1, ClockBeforeFlush2
  <2>3. /\ IsStore(main) /\ IsGiven(pending)
        /\ \A i \in DOMAIN main : main[i].pos \in Nat /\ main[i].pos <= TheMinute
    BY <2>1 DEF TypeOK, IsGiven, IsStore, Entries, BeforeFlush2
  <2>4. Multiple \in Nat \ {0}
    BY Constants
  <2> DEFINE q == (Now - 1) \div Multiple
             m == TheMinute - 1
  <2>5. /\ q \in Nat /\ q <= TheMinute /\ m \in Nat /\ m < TheMinute
        /\ Now % Multiple = 0 => q = m
    <3>1. q \in Nat /\ q <= TheMinute
      BY <2>2, <2>4, Now - 1 \in Nat, DivisionIsMonotone DEF TheMinute
    <3>2. Now % Multiple = 0 => q = m
      BY <2>2, <2>4, FirstOfInterval DEF TheMinute
    <3> HIDE DEF q
    <3> QED BY <2>2, <3>1, <3>2
  <2>6. Now % Multiple # 0 => q = TheMinute
    <3>1. SUFFICES ASSUME Now % Multiple # 0 PROVE q = TheMinute
      OBVIOUS
    <3>2. PICK r \in Nat : /\ Now \div Multiple = r /\ Multiple * r \in Nat
                           /\ Multiple * r <= Now /\ Now < Multiple * r + Multiple
                           /\ Now % Multiple = Now - Multiple * r
      BY <2>2, <2>4, Division
    <3> DEFINE x == Multiple * r
    <3>3. x \in Nat /\ x <= Now - 1 /\ Now - 1 < x + Multiple
      <4>1. x \in Nat /\ x <= Now /\ Now < x + Multiple /\ Now - x # 0
        BY <3>1, <3>2
      <4> HIDE DEF x
      <4> QED BY <2>2, <2>4, <4>1
    <3>4. Now - 1 \in Nat /\ Multiple * r <= Now - 1 /\ Now - 1 < Multiple * r + Multiple
      BY <2>2, <3>3
    <3>5. q = r
      BY <2>4, <3>4, Quotient
    <3> QED BY <3>2, <3>5 DEF TheMinute
  <2>7. \A i \in DOMAIN main' : main'[i].pos <= TheMinute
    <3> SUFFICES ASSUME NEW i \in DOMAIN main' PROVE main'[i].pos <= TheMinute
      OBVIOUS
    <3>1. main' = UpdateFrom(main, pending, Now, Multiple)
      BY <1>1, <2>2
    <3>2. i \in Ids
      BY <2>3, <3>1 DEF UpdateFrom, IsStore, IsGiven
    <3>3. main'[i].pos = q \/ (i \in DOMAIN main /\ main'[i].pos = main[i].pos)
      BY <2>2, <2>3, <2>4, <3>1, <3>2, EntryUpdated
    <3> QED BY <2>3, <2>5, <3>3
  <2>8. SentInv /\ MetersInv /\ FirstStepInv
    BY <2>1 DEF BeforeFlush2
  <2>9. \A i \in Ids : Given(pending, i) = registry[i].last /\ registry[i].last \in Nat
    BY <1>1, <2>8 DEF MetersInv, TypeOK, Buckets
  <2> HIDE DEF q
  <2>10. ASSUME NEW i \in Ids
         PROVE  /\ LastIsSent => Held(main', i, m) = Held(main, i, m)
                /\ Now % Multiple = 0 /\ LastIsSent =>
                     /\ registry[i].pos = Now
                     /\ registry[i].last > 0 =>
                          i \in DOMAIN main' /\ main'[i].pos = TheMinute /\ main'[i].last > 0
                /\ Now % Multiple = 0 /\ ~LastIsSent =>
                     /\ i \in DOMAIN main' => main'[i].pos < TheMinute
                     /\ registry[i].last > 0 => Held(main', i, m) > 0
    <3>1. main' = UpdateFrom(main, pending, Now, Multiple)
      BY <1>1, <2>2
    <3>2. /\ i \in DOMAIN main /\ q < main[i].pos =>
               i \in DOMAIN main' /\ main'[i].pos = main[i].pos /\ main'[i].last = main[i].last
          /\ Given(pending, i) = 0 /\ ~(i \in DOMAIN main /\ q < main[i].pos) =>
               Held(main', i, q) = Held(main, i, q)
          /\ i \in DOMAIN main' =>
               main'[i].pos = q \/ (i \in DOMAIN main /\ main'[i].pos = main[i].pos)
      BY <2>2, <2>3, <2>4, <3>1, EntryUpdated DEF q
    <3>3. Behind(main, Multiple, Now - 1) =>
            \A p \in Nat :
              LET total == Merge(i, Held(main, i, p), In(Multiple, Now - 1, p, Given(pending, i)))
              IN  q <= p + 1 => Held(main', i, p) = total
      <4>1. SUFFICES ASSUME Behind(main, Multiple, Now - 1), NEW p \in Nat, q <= p + 1
                     PROVE  Held(main', i, p) =
                              Merge(i, Held(main, i, p), In(Multiple, Now - 1, p, Given(pending, i)))
        OBVIOUS
      <4>2. (Now - 1) \div Multiple <= p + 1
        BY <4>1 DEF q
      <4>3. \A j \in Ids, r \in Nat :
              LET total == Merge(j, Held(main, j, r), In(Multiple, Now - 1, r, Given(pending, j)))
              IN  (Now - 1) \div Multiple <= r + 1 =>
                    Held(UpdateFrom(main, pending, Now, Multiple), j, r) = total
        BY <2>2, <2>3, <2>4, <4>1, StoreUpdated
      <4> QED BY <3>1, <4>1, <4>2, <4>3
    <3>4. Held(main, i, m) \in Nat
      BY <2>3, HeldType
    <3>5. CASE Now % Multiple # 0
      <4>1. Behind(main, Multiple, Now - 1)
        BY <2>3, <2>6, <3>5 DEF Behind, q
      <4>2. In(Multiple, Now - 1, m, Given(pending, i)) = 0
        BY <2>5, <2>6, <3>5 DEF In, q
      <4>3. q <= m + 1
        BY <2>5, <2>6, <3>5
      <4>4. Held(main', i, m) = Merge(i, Held(main, i, m), 0)
        BY <2>5, <3>3, <4>1, <4>2, <4>3
      <4>5. Held(main', i, m) = Held(main, i, m)
        BY <3>4, <4>4, MergeType, 0 \in Nat
      <4> QED BY <3>5, <4>5
    <3>6. CASE Now % Multiple = 0 /\ LastIsSent
      <4>1. q = m
        BY <2>5, <3>6
      <4>2. /\ registry[i].pos = Now
            /\ registry[i].last > 0 =>
                 i \in DOMAIN main /\ main[i].pos = TheMinute /\ main[i].last > 0
        BY <2>8, <3>6 DEF FirstStepInv
      <4>3. CASE i \in DOMAIN main /\ q < main[i].pos
        <5>1. i \in DOMAIN main' /\ main'[i].pos = main[i].pos /\ main'[i].last = main[i].last
          BY <3>2, <4>3
        <5>2. main[i].pos = m + 1
          BY <2>2, <2>3, <2>5, <4>1, <4>3
        <5>3. Held(main', i, m) = Held(main, i, m)
          BY <2>5, <4>3, <5>1, <5>2 DEF Held
        <5> QED BY <3>6, <4>2, <5>1, <5>3
      <4>4. CASE ~(i \in DOMAIN main /\ q < main[i].pos)
        <5>1. registry[i].last = 0
          BY <2>5, <2>9, <4>1, <4>2, <4>4
        <5>2. Held(main', i, m) = Held(main, i, m)
          BY <2>9, <3>2, <4>1, <4>4, <5>1
        <5> QED BY <3>6, <4>2, <5>1, <5>2
      <4> QED BY <4>3, <4>4
    <3>7. CASE Now % Multiple = 0 /\ ~LastIsSent
      <4>1. q = m
        BY <2>5, <3>7
      <4>2. \A j \in DOMAIN main : main[j].pos < TheMinute
        BY <2>3, <2>8, <3>7 DEF FirstStepInv, IsStore
      <4>3. \A j \in DOMAIN main : main[j].pos <= q
        BY <2>2, <2>3, <2>5, <4>1, <4>2
      <4>4. Behind(main, Multiple, Now - 1)
        BY <4>3 DEF Behind, q
      <4>5. i \in DOMAIN main' => main'[i].pos < TheMinute
        BY <2>5, <3>2, <4>1, <4>2
      <4>6. In(Multiple, Now - 1, m, Given(pending, i)) = registry[i].last
        BY <2>9, <4>1 DEF In, q
      <4>7. Held(main', i, m) = Merge(i, Held(main, i, m), registry[i].last)
        BY <2>5, <3>3, <4>1, <4>4, <4>6
      <4>8. registry[i].last <= Held(main', i, m) /\ Held(main', i, m) \in Nat
        <5>1. registry[i].last \in Nat
          BY <2>9
        <5> DEFINE h == Held(main, i, m)
                   l == registry[i].last
        <5>2. h \in Nat /\ l \in Nat
          BY <3>4, <5>1
        <5> HIDE DEF h, l
        <5>3. l <= Merge(i, h, l) /\ Merge(i, h, l) \in Nat
          BY <5>2, MergeType
        <5> QED BY <4>7, <5>3 DEF h, l
      <4> QED BY <2>9, <3>7, <4>5, <4>8
    <3> QED BY <3>5, <3>6, <3>7
  <2>11. MetersInv'
    <3>1. pc' # "update" /\ \A i \in Ids : registry[i].pos = Now
      BY <1>1, <2>8 DEF MetersInv
    <3> QED BY <1>1, <1>3, <2>2, <3>1 DEF MetersInv
  <2>12. SentInv'
    <3>1. ASSUME NEW b \in Batches, NEW i \in Ids, b.minute = m
          PROVE  Given(b.values, i) = Held(main', i, m)
      <4>1. LastIsSent
        BY <3>1 DEF LastIsSent
      <4>2. Given(b.values, i) = Held(main, i, m)
        BY <2>8, <3>1 DEF SentInv
      <4> QED BY <2>10, <4>1, <4>2
    <3>2. \A b \in Batches : b.minute \in Nat /\ b.minute < TheMinute
      BY <2>8 DEF SentInv
    <3> QED BY <1>2, <1>3, <3>1, <3>2 DEF SentInv, Held, Given
  <2>13. FirstStepInv'
    <3>1. CASE LastIsSent
      BY <1>1, <1>3, <2>10, <3>1 DEF FirstStepInv
    <3>2. CASE ~LastIsSent
      BY <1>1, <1>3, <2>10, <3>2 DEF FirstStepInv, Held
    <3> QED BY <3>1, <3>2
  <2>14. /\ offset' = 0 /\ pc' \notin {"send"} /\ (phase' = "loop" => pc' = "check")
         /\ \A i \in DOMAIN main' : main'[i].pos <= TheMinute'
    BY <1>1, <1>3, <2>1, <2>7 DEF BeforeFlush2
  <2>15. phase' = "flush1" => Flush1Inv'
    BY <1>1, <1>2, <1>3, <2>1 DEF BeforeFlush2, Flush1Inv, Minute
  <2> QED BY <2>15, <2>11, <2>12, <2>13, <2>14 DEF BeforeFlush2
<1>6. ASSUME phase = "flush2" PROVE InFlush2'
  <2>1. InFlush2
    BY <1>1, <1>6 DEF ResendInv
  <2> QED BY <1>1, <1>2, <1>3, <1>6, <2>1 DEF InFlush2
<1> QED BY <1>1, <1>2, <1>4, <1>5, <1>6 DEF ResendInv

\* A batch is sent: of a new minute, or of the last one, with the same values.
LEMMA ResendSend ==
  ASSUME TypeOK, OffsetInv, ResendInv, FirstLife, Whole, SendToMain
  PROVE  ResendInv'
<1> DEFINE minute == WallTime \div Minute
           values == Measured(main, minute)
           new == [minute |-> timestamp - 1, values |-> values]
           Batch == [minute : Int, values : SentValues]
<1>1. /\ UNCHANGED <<now, offset, stopping, registry, phase, stops, prevStep, timestamp, pending>>
      /\ pc = "send" /\ pc' = "subs"
      /\ batches' = Append(batches, new) /\ main' = AfterMeasured(main, minute)
  BY DEF SendToMain
<1>2. minute \in Nat \ {0}
  <2>1. WallTime \in Nat /\ Minute <= WallTime
    BY Constants DEF TypeOK, OffsetInv, WallTime
  <2>2. Minute \in Nat \ {0} /\ Minute * 1 = Minute /\ Minute < Minute + Minute
    BY Constants
  <2>3. Minute \div Minute = 1
    BY <2>2, Quotient, 1 \in Nat
  <2>4. minute \in Nat /\ 1 <= minute
    BY <2>1, <2>2, <2>3, DivisionIsMonotone
  <2> QED BY <2>4
<1>3. IsStore(main) /\ timestamp \in Nat
  BY DEF TypeOK
<1>4. values \in SentValues
  BY <1>2, <1>3, EntryMeasured
<1> HIDE DEF minute, values
<1>5. new \in Batch /\ new.minute = timestamp - 1 /\ new.values = values
  BY <1>3, <1>4
<1> HIDE DEF new, Batch
<1>6. BatchesType' /\ Batches' = Batches \cup {new}
  <2>1. batches \in Seq(Batch)
    BY DEF ResendInv, BatchesType, Batch
  <2>2. batches' \in Seq(Batch)
    BY <1>1, <1>5, <2>1
  <2>3. /\ DOMAIN batches' = DOMAIN batches \cup {Len(batches) + 1}
        /\ batches'[Len(batches) + 1] = new
        /\ \A j \in DOMAIN batches : batches'[j] = batches[j]
    BY <1>1, <1>5, <2>1
  <2> QED BY <2>2, <2>3 DEF BatchesType, Batch, Batches, Range
<1>7. \A b \in Batches : b.values \in SentValues
  <2>1. batches \in Seq(Batch) /\ \A b \in Batch : b.values \in SentValues
    BY DEF ResendInv, BatchesType, Batch
  <2> QED BY <2>1 DEF Batches, Range
<1>8. /\ Now' = Now /\ TheMinute' = TheMinute /\ WallTime' = WallTime
  BY <1>1 DEF Now, TheMinute, WallTime
<1>9. (~shouldRun \/ phase # "loop" => stops = 1)'
  BY <1>1 DEF ResendInv, stopping
<1>10. ASSUME phase \in {"loop", "flush1"} PROVE BatchesAgree' /\ BeforeFlush2'
  <2>1. BeforeFlush2 /\ offset = 0 /\ SentInv /\ MetersInv /\ FirstStepInv
    BY <1>10 DEF ResendInv, BeforeFlush2
  <2>2. minute = TheMinute /\ TheMinute \in Nat \ {0}
    BY <2>1, ClockBeforeFlush2 DEF minute
  <2> DEFINE m == TheMinute - 1
  <2>3. new.minute = m /\ m \in Nat /\ m < TheMinute
    BY <1>1, <1>5, <2>1, <2>2 DEF BeforeFlush2
  <2>4. \A i \in DOMAIN main : main[i].pos \in Nat /\ main[i].pos <= TheMinute
    BY <1>3, <2>1 DEF BeforeFlush2, IsStore, Entries
  <2>5. /\ \A i \in DOMAIN main' : main'[i].pos <= TheMinute
        /\ \A i \in Ids : Given(values, i) = Held(main, i, m)
        /\ \A i \in Ids : Held(main', i, m) = Held(main, i, m)
    <3>1. main' = AfterMeasured(main, TheMinute) /\ values = Measured(main, TheMinute)
      BY <1>1, <2>2 DEF values
    <3>2. TheMinute \in Nat /\ TheMinute <= TheMinute /\ TheMinute <= m + 1 /\ m # TheMinute
      BY <2>2, <2>3
    <3>3. /\ \A i \in DOMAIN main' : main'[i].pos <= TheMinute
          /\ \A i \in Ids : Given(values, i) = Held(main, i, m)
      BY <1>3, <2>2, <2>4, <3>1, <3>2, StoreMeasured
    <3>4. \A i \in Ids, p \in Nat :
            TheMinute <= p + 1 /\ p # TheMinute => Held(main', i, p) = Held(main, i, p)
      BY <1>3, <2>2, <2>4, <3>1, <3>2, StoreMeasured
    <3> QED BY <2>3, <3>2, <3>3, <3>4
  <2>6. \A b \in Batches : b.minute = m => b.values = values
    <3> SUFFICES ASSUME NEW b \in Batches, b.minute = m PROVE b.values = values
      OBVIOUS
    <3>1. \A i \in Ids : Given(b.values, i) = Given(values, i)
      BY <2>1, <2>5 DEF SentInv
    <3> QED BY <1>4, <1>7, <3>1, SameValues
  <2>7. BatchesAgree'
    <3>1. BatchesAgree
      BY <1>10 DEF ResendInv
    <3>2. \A b \in Batches : b.minute = new.minute => b.values = new.values
      BY <1>5, <2>3, <2>6
    <3> QED BY <1>6, <3>1, <3>2 DEF BatchesAgree
  <2>8. SentInv'
    <3>1. \A b \in Batches' : b.minute \in Nat /\ b.minute < TheMinute
      BY <1>6, <2>1, <2>3 DEF SentInv
    <3>2. ASSUME NEW b \in Batches', NEW i \in Ids, b.minute = m
          PROVE  Given(b.values, i) = Held(main', i, m)
      <4>1. b.values = values
        BY <1>5, <1>6, <2>6, <3>2
      <4> QED BY <2>5, <4>1
    <3> QED BY <1>8, <3>1, <3>2 DEF SentInv, Held, Given
  <2>9. MetersInv'
    BY <1>1, <1>8, <2>1 DEF MetersInv
  <2>10. FirstStepInv'
    <3>1. SUFFICES ASSUME Now % Multiple = 0, NEW i \in Ids
                   PROVE  /\ registry[i].pos = Now
                          /\ registry[i].last > 0 =>
                               /\ i \in DOMAIN main' /\ main'[i].pos = TheMinute
                               /\ main'[i].last > 0
      <4>1. LastIsSent'
        BY <1>6, <1>8, <2>3 DEF LastIsSent
      <4> QED BY <1>1, <1>8, <4>1 DEF FirstStepInv
    <3>2. registry[i].pos = Now
      BY <1>1, <2>1 DEF MetersInv
    <3>3. ASSUME registry[i].last > 0 PROVE Held(main, i, m) > 0
      <4>1. CASE LastIsSent
        <5>1. i \in DOMAIN main /\ main[i].pos = TheMinute /\ main[i].last > 0
          BY <2>1, <3>1, <3>3, <4>1 DEF FirstStepInv
        <5> QED BY <2>2, <2>3, <5>1 DEF Held
      <4>2. CASE ~LastIsSent
        BY <1>1, <2>1, <3>1, <3>3, <4>2 DEF FirstStepInv
      <4> QED BY <4>1, <4>2
    <3>4. ASSUME registry[i].last > 0
          PROVE  i \in DOMAIN main' /\ main'[i].pos = TheMinute /\ main'[i].last > 0
      <4>1. Held(main, i, m) > 0
        BY <3>3, <3>4
      <4>2. i \in DOMAIN main
        BY <4>1 DEF Held
      <4>3. main' = AfterMeasured(main, TheMinute)
        BY <1>1, <2>2
      <4> QED BY <1>3, <2>2, <2>4, <4>1, <4>2, <4>3, EntryMeasured
    <3> QED BY <3>2, <3>4
  <2>11. /\ offset' = 0 /\ pc' = "subs" /\ \A i \in DOMAIN main' : main'[i].pos <= TheMinute'
    BY <1>1, <1>8, <2>1, <2>5 DEF BeforeFlush2
  <2>12. phase' = "flush1" => Flush1Inv'
    <3>1. SUFFICES ASSUME phase' = "flush1" PROVE Flush1Inv'
      OBVIOUS
    <3>2. PICK k \in Nat : /\ prevStep = k * Minute /\ (pc # "subs" => k = TheMinute)
                           /\ \A b \in Batches : b.minute < k
      BY <1>1, <2>1, <3>1 DEF BeforeFlush2, Flush1Inv
    <3>3. k = TheMinute /\ \A b \in Batches' : b.minute < k
      BY <1>1, <1>6, <2>3, <3>2
    <3> QED BY <1>1, <1>8, <3>2, <3>3 DEF Flush1Inv, Minute
  <2> QED BY <2>12, <2>7, <2>8, <2>9, <2>10, <2>11 DEF BeforeFlush2
<1>11. ASSUME phase = "flush2", FirstLife PROVE BatchesAgree'
  <2>1. BatchesAgree /\ InFlush2
    BY <1>1, <1>11 DEF ResendInv
  <2>2. \A b \in Batches : b.minute # new.minute
    <3>1. new.minute = minute - 1
      BY <1>1, <1>5, <2>1 DEF InFlush2, minute
    <3> QED BY <1>2, <2>1, <3>1 DEF InFlush2, minute
  <2> QED BY <1>6, <2>1, <2>2 DEF BatchesAgree
<1>12. phase # "stopped"
  BY <1>1 DEF ResendInv
<1>13. phase \in {"loop", "flush1", "flush2"}
  BY <1>12 DEF TypeOK
<1> QED BY <1>1, <1>6, <1>9, <1>10, <1>11, <1>13 DEF ResendInv

\* The first flush ends, and the clock is moved to the next minute; or the second.
LEMMA ResendEndFlush ==
  ASSUME TypeOK, OffsetInv, ResendInv, FirstLife, Whole, EndFlush
  PROVE  ResendInv'
<1>1. /\ UNCHANGED <<now, stopping, stops, batches>> /\ phase \in {"flush1", "flush2"}
  BY DEF EndFlush
<1>2. Batches' = Batches /\ BatchesType' /\ BatchesAgree'
  BY <1>1 DEF ResendInv, BatchesType, Batches, BatchesAgree
<1>3. (~shouldRun \/ phase # "loop" => stops = 1)'
  BY <1>1 DEF ResendInv, stopping
<1>4. CASE phase = "flush1"
  <2>1. phase' = "flush2" /\ pc' = "measure" /\ offset' = Minute - (WallTime - prevStep)
    BY <1>4 DEF EndFlush
  <2>2. BeforeFlush2 /\ offset = 0
    BY <1>4 DEF ResendInv, BeforeFlush2
  <2>3. WallTime = now /\ now \in Nat /\ TheMinute \in Nat
    BY <2>2, ClockBeforeFlush2
  <2>4. PICK m \in Nat : prevStep = m * Minute /\ \A b \in Batches : b.minute < m
    BY <1>4, <2>2 DEF BeforeFlush2, Flush1Inv
  <2>5. WallTime' = m * Minute + Minute
    <3> DEFINE x == m * Minute
    <3>1. x \in Nat /\ Minute \in Nat /\ offset' = Minute - (now - x) /\ WallTime' = now + offset'
      BY <1>1, <2>1, <2>3, <2>4, Constants DEF WallTime
    <3> HIDE DEF x
    <3>2. WallTime' = x + Minute
      BY <2>3, <3>1
    <3> QED BY <3>2 DEF x
  <2>6. WallTime' \div Minute = m + 1
    BY <2>5, MinuteAfter
  <2>7. \A b \in Batches : b.minute \in Nat /\ b.minute < m
    BY <2>2, <2>4 DEF BeforeFlush2, SentInv
  <2>8. Minute' = Minute
    BY DEF Minute
  <2>9. InFlush2'
    BY <1>2, <2>1, <2>3, <2>6, <2>7, <2>8 DEF InFlush2
  <2> QED BY <1>2, <1>3, <2>1, <2>9 DEF ResendInv
<1>5. CASE phase = "flush2"
  <2>1. phase' = "stopped" /\ pc' = "wait"
    BY <1>5 DEF EndFlush
  <2> QED BY <1>2, <1>3, <2>1 DEF ResendInv
<1> QED BY <1>1, <1>4, <1>5

\* Every step up to the end of the first stop keeps the invariant.
LEMMA ResendStep ==
  ASSUME TypeOK, TypeOK', OffsetInv, OffsetInv', ResendInv, [Next]_vars
  PROVE  ResendInv'
<1>1. CASE ~(FirstLife /\ Whole)'
  BY <1>1 DEF ResendInv
<1>w. Whole' => Whole
  BY TornStep DEF Whole
<1>2. CASE FirstLife' /\ Whole'
  <2>1. CASE UNCHANGED vars
    <3>1. UNCHANGED <<now, offset, stopping, registries, sender, batches, stops, torn>>
      BY <2>1 DEF vars, history
    <3>2. ResendInv' <=> ResendInv
      BY <3>1 DEF stopping, registries, sender, ResendInv, FirstLife, Whole, BatchesType, BatchesAgree, Batches,
                  BeforeFlush2, Flush1Inv, Minute, InFlush2, MetersInv, SentInv, FirstStepInv, LastIsSent, TheMinute,
                  Now, Held, Given, WallTime
    <3> QED BY <3>2
  <2>2. CASE Next
    <3>1. FirstLife /\ Whole /\ ~Start
      <4>1. stops \in Nat /\ shouldRun \in BOOLEAN
        BY DEF TypeOK
      <4>2. CASE Stop
        <5>1. stops' = stops + 1 /\ phase' = phase /\ pc' = pc /\ shouldRun
          BY <4>2 DEF Stop, sender
        <5>2. stops = 0
          BY <1>2, <4>1, <5>1 DEF FirstLife
        <5>3. FirstLife
          BY <5>2 DEF FirstLife
        <5>4. phase = "loop"
          BY <1>2, <1>w, <5>2, <5>3 DEF ResendInv
        <5> QED BY <1>2, <1>w, <5>3, <5>4 DEF Start
      <4>3. CASE Start
        <5>1. shouldRun' = TRUE /\ stops' = stops /\ phase = "stopped"
          BY <4>3 DEF Start, history
        <5>2. stops = 0
          BY <1>2, <5>1 DEF FirstLife
        <5>3. FirstLife
          BY <5>2 DEF FirstLife
        <5> QED BY <1>2, <1>w, <5>1, <5>2, <5>3 DEF ResendInv
      <4>4. CASE UNCHANGED <<shouldRun, stops>> /\ ~Start
        BY <1>2, <1>w, <4>4 DEF FirstLife
      <4>5. ~Stop /\ ~Start => UNCHANGED <<shouldRun, stops>>
        BY <2>2 DEF Next, Run, stopping, history, Tick, Record, Wake, Join, Measure,
                    UpdateRegistries, CheckWindow, TakeTimestamp, SendToMain, SendSubsAndWait,
                    EndFlush
      <4> QED BY <4>2, <4>3, <4>4, <4>5
    <3>2. CASE Tick
      BY <1>2, <3>1, <3>2, ResendTick
    <3>3. CASE \E i \in Ids, a \in Amounts : Record(i, a)
      BY <3>1, <3>3, ResendRecord
    <3>4. CASE Stop
      BY <3>1, <3>4, ResendStop
    <3>5. CASE Wake \/ CheckWindow \/ TakeTimestamp \/ SendSubsAndWait
      BY <3>1, <3>5, ResendControl
    <3>6. CASE Join
      BY <3>1, <3>6, ResendJoin
    <3>7. CASE Measure
      BY <3>1, <3>7, ResendMeasure
    <3>8. CASE UpdateRegistries
      BY <3>1, <3>8, ResendUpdate
    <3>9. CASE SendToMain
      BY <3>1, <3>9, ResendSend
    <3>10. CASE EndFlush
      BY <3>1, <3>10, ResendEndFlush
    <3> QED BY <2>2, <3>1, <3>2, <3>3, <3>4, <3>5, <3>6, <3>7, <3>8, <3>9, <3>10 DEF Next, Run
  <2> QED BY <2>1, <2>2
<1> QED BY <1>1, <1>2

\* The invariant holds when the client is started.
LEMMA InitialResend == Init => ResendInv
<1> SUFFICES ASSUME Init PROVE ResendInv
  OBVIOUS
<1>1. /\ batches = <<>> /\ Batches = {} /\ DOMAIN main = {} /\ offset = 0
      /\ shouldRun = TRUE /\ phase = "loop" /\ pc = "wait"
      /\ \A i \in Ids : registry[i].pos = Now /\ registry[i].last = 0
  BY DEF Init, Batches, Range, Empty, Now
<1>2. Now \in Nat
  <2>1. now \in Nat
    BY Constants DEF Init
  <2> QED BY <2>1, Constants, DivisionIsMonotone DEF Now
<1>3. BeforeFlush2
  BY <1>1, <1>2 DEF BeforeFlush2, MetersInv, SentInv, FirstStepInv, LastIsSent
<1> QED BY <1>1, <1>3 DEF ResendInv, BatchesType, BatchesAgree

\* A minute that is sent again is sent with the same values (ResentBatchesAgree), up
\* to the end of the first stop, if neither a run nor a flush was torn but by its POST
\* to main: Stop's first flush, update_from with its clock one
\* step back, and the clock that Stop moves forward before the second.
THEOREM ResentAgree == Spec => []ResentBatchesAgree
<1> DEFINE Inv == TypeOK /\ OffsetInv /\ ResendInv
<1>1. Init => Inv
  BY InitialTypes, InitialResend
<1>2. Inv /\ [Next]_vars => Inv'
  <2> SUFFICES ASSUME Inv, [Next]_vars PROVE Inv'
    OBVIOUS
  <2>1. TypeOK' /\ OffsetInv'
    BY Typing
  <2> QED BY <2>1, ResendStep
<1>3. Inv => ResentBatchesAgree
  BY DEF ResendInv, BatchesAgree, ResentBatchesAgree
<1> HIDE DEF Inv
<1> QED BY <1>1, <1>2, <1>3, PTL DEF Spec

-----------------------------------------------------------------------------
(* A minute that two runs sent, wherever they are torn *)

\* What main holds, at the beginning of minute m + 1, of the batch of minute m.
StillHolds(V, values, m) ==
  \A i \in DOMAIN values :
    i \in DOMAIN V /\ V[i].pos = m + 1 /\ V[i].last = values[i]

\* Up to the first stop: as long as the minute after it has not ended, main holds
\* what was sent of a minute.
StayInv ==
  stops = 0 /\ "send" \notin torn =>
    /\ phase = "loop" /\ shouldRun /\ offset = 0
    /\ BatchesType
    /\ pc = "send" => timestamp = TheMinute
    /\ \A i \in DOMAIN main : main[i].pos <= TheMinute
    /\ \A b \in Batches :
         /\ b.minute < TheMinute
         /\ b.minute + 1 = TheMinute => StillHolds(main, b.values, b.minute)
    /\ SentValuesStay

\* An update of an earlier or the same minute leaves what was completed.
LEMMA EntryKept ==
  ASSUME NEW V, IsStore(V), NEW ms, IsGiven(ms), NEW s \in Nat \ {0}, NEW f \in Nat \ {0},
         NEW i \in DOMAIN V, (s - 1) \div f <= V[i].pos
  PROVE  LET W == UpdateFrom(V, ms, s, f)
         IN  i \in DOMAIN W /\ W[i].pos = V[i].pos /\ W[i].last = V[i].last
<1> DEFINE W == UpdateFrom(V, ms, s, f)
           q == (s - 1) \div f
           At == IF i \in DOMAIN V THEN RollTo(V[i], q) ELSE NewEntry(q)
<1>1. q \in Nat
  BY s - 1 \in Nat, DivisionIsMonotone
<1>2. /\ DOMAIN W = DOMAIN V \cup DOMAIN ms
      /\ i \in DOMAIN ms => W[i] = [At EXCEPT !.open = Merge(i, At.open, ms[i])]
      /\ i \in DOMAIN V \ DOMAIN ms => W[i] = V[i]
  BY DEF UpdateFrom
<1>3. q <= V[i].pos
  OBVIOUS
<1> HIDE DEF q, W
<1>4. V[i] \in Entries /\ V[i].pos \in Nat
  BY DEF IsStore, Entries
<1>5. At = V[i]
  BY <1>1, <1>3, <1>4, RolledEntry
<1> HIDE DEF At
<1>6. W[i].pos = V[i].pos /\ W[i].last = V[i].last
  BY <1>2, <1>4, <1>5 DEF Entries
<1> QED BY <1>2, <1>6 DEF W

\* Measuring again gives what is completed, and keeps the entries that gave a value.
LEMMA EntrySent ==
  ASSUME NEW V, IsStore(V), NEW q \in Nat \ {0}, \A i \in DOMAIN V : V[i].pos <= q
  PROVE  LET values == Measured(V, q)
             W == AfterMeasured(V, q)
         IN  /\ values \in SentValues
             /\ \A i \in DOMAIN values : i \in DOMAIN W /\ W[i].pos = q /\ W[i].last = values[i]
             /\ \A i \in DOMAIN V : V[i].pos = q /\ V[i].last > 0 =>
                  i \in DOMAIN values /\ values[i] = V[i].last
             /\ \A i \in DOMAIN W : W[i].pos <= q
<1> DEFINE values == Measured(V, q)
           W == AfterMeasured(V, q)
           At(i) == RollTo(V[i], q)
<1>1. ASSUME NEW i \in DOMAIN V
      PROVE  /\ i \in Ids /\ V[i] \in Entries /\ V[i].pos \in Nat
             /\ At(i) \in Entries /\ At(i).last \in Nat
             /\ V[i].pos = q => At(i) = V[i]
             /\ At(i).pos = q
  <2>1. i \in Ids /\ V[i] \in Entries /\ V[i].pos \in Nat
    BY DEF IsStore, Entries
  <2>2. At(i) \in Entries
    BY <2>1, RolledEntry
  <2>3. At(i).last \in Nat
    BY <2>2 DEF Entries
  <2>4. CASE V[i].pos = q
    BY <2>1, <2>2, <2>3, <2>4, RolledEntry
  <2>5. CASE V[i].pos < q
    BY <2>1, <2>2, <2>3, <2>5, RolledEntry
  <2>6. V[i].pos <= q
    OBVIOUS
  <2> QED BY <2>1, <2>4, <2>5, <2>6
<1>2. /\ DOMAIN W = {i \in DOMAIN V : At(i).last > 0 \/ ~V[i].marked}
      /\ \A i \in DOMAIN W : W[i] = [At(i) EXCEPT !.marked = ~(At(i).last > 0)]
  BY DEF AfterMeasured, HasValue
<1>3. /\ DOMAIN values = {i \in DOMAIN V : At(i).last > 0}
      /\ \A i \in DOMAIN values : values[i] = At(i).last
  BY DEF Measured, HasValue
<1>4. values \in SentValues
  BY EntryMeasured
<1> HIDE DEF At, W, values
<1>5. \A i \in DOMAIN W : i \in DOMAIN V /\ W[i].pos = q /\ W[i].last = At(i).last
  BY <1>1, <1>2 DEF Entries
<1>6. \A i \in DOMAIN values : i \in DOMAIN W /\ W[i].pos = q /\ W[i].last = values[i]
  BY <1>2, <1>3, <1>5
<1>7. \A i \in DOMAIN V : V[i].pos = q /\ V[i].last > 0 =>
        i \in DOMAIN values /\ values[i] = V[i].last
  BY <1>1, <1>3
<1>8. \A i \in DOMAIN W : W[i].pos <= q
  BY <1>5
<1> QED BY <1>4, <1>6, <1>7, <1>8 DEF W, values

LEMMA BatchType ==
  ASSUME BatchesType
  PROVE  /\ batches \in Seq([minute : Int, values : SentValues])
         /\ \A j \in DOMAIN batches : batches[j] \in Batches
         /\ \A b \in Batches : /\ b.minute \in Int /\ b.values \in SentValues
                               /\ \A i \in DOMAIN b.values :
                                    i \in Ids /\ b.values[i] \in Nat /\ b.values[i] > 0
<1> DEFINE Batch == [minute : Int, values : SentValues]
<1>1. batches \in Seq(Batch)
  BY DEF BatchesType
<1>2. \A b \in Batch : b.minute \in Int /\ b.values \in SentValues
  OBVIOUS
<1> HIDE DEF Batch
<1>3. \A b \in Batches : b \in Batch
  BY <1>1 DEF Batches, Range
<1>4. \A v \in SentValues : \A i \in DOMAIN v : i \in Ids /\ v[i] \in Nat /\ v[i] > 0
  BY DEF SentValues
<1> QED BY <1>1, <1>2, <1>3, <1>4 DEF Batch, Batches, Range

\* A tick changes none of it, but may end the minute that main still holds.
LEMMA StayTick ==
  ASSUME TypeOK, TypeOK', OffsetInv, StayInv, stops = 0, "send" \notin torn,
         "send" \notin torn', Tick
  PROVE  StayInv'
<1>1. /\ now' = now + 1
      /\ UNCHANGED <<offset, stopping, main, sender, stops, batches>>
  BY DEF Tick, registries
<1>2. /\ UNCHANGED <<shouldRun, phase, pc, timestamp>>
      /\ offset' = 0 /\ offset = 0 /\ BatchesType /\ BatchesType'
  BY <1>1 DEF StayInv, stopping, sender, BatchesType
<1>3. WallTime = now /\ now \in Nat /\ Now \in Nat /\ TheMinute \in Nat /\ WallStep = Now
  BY <1>2, ClockBeforeFlush2
<1>4. WallTime + 1 = now'
  BY <1>1, <1>3
<1>5. Now \in Nat /\ Now' \in Nat /\ Now <= Now'
  BY <1>1, <1>3, Constants, DivisionIsMonotone DEF Now
<1>6. TheMinute' \in Nat /\ TheMinute <= TheMinute'
  BY <1>5, Constants, DivisionIsMonotone DEF TheMinute
<1>7. pc = "send" => TheMinute' = TheMinute
  <2>1. SUFFICES ASSUME pc = "send" PROVE Now' = Now
    BY DEF TheMinute
  <2>2. ~StepEnds
    BY <2>1 DEF Tick
  <2>3. ~(Now' > Now)
    BY <1>3, <1>4, <2>2 DEF StepEnds, Now
  <2> QED BY <1>5, <2>3
<1>8. Batches' = Batches /\ SentValuesStay'
  <2>1. SentValuesStay
    BY DEF StayInv
  <2> QED BY <1>1, <2>1 DEF Batches, SentValuesStay, Sent
<1>9. ASSUME NEW b \in Batches
      PROVE  /\ b.minute < TheMinute'
             /\ b.minute + 1 = TheMinute' => StillHolds(main, b.values, b.minute)
  <2>1. b.minute \in Int /\ b.minute < TheMinute
    BY <1>2, BatchType DEF StayInv
  <2>2. b.minute + 1 = TheMinute' => b.minute + 1 = TheMinute
    BY <1>3, <1>6, <2>1
  <2> QED BY <1>3, <1>6, <2>1, <2>2 DEF StayInv
<1>10. \A i \in DOMAIN main' : main'[i].pos <= TheMinute'
  <2>1. \A i \in DOMAIN main : main[i].pos \in Nat /\ main[i].pos <= TheMinute
    BY DEF StayInv, TypeOK, IsStore, Entries
  <2> QED BY <1>1, <1>3, <1>6, <2>1
<1>11. \A b \in Batches' :
         /\ b.minute < TheMinute'
         /\ b.minute + 1 = TheMinute' => StillHolds(main', b.values, b.minute)
  BY <1>1, <1>8, <1>9
<1>12. phase' = "loop" /\ shouldRun' /\ (pc' = "send" => timestamp' = TheMinute')
  BY <1>2, <1>7 DEF StayInv
<1> QED BY <1>2, <1>8, <1>10, <1>11, <1>12 DEF StayInv

\* main is updated as of the step before: of this minute or of the one before.
LEMMA StayUpdate ==
  ASSUME TypeOK, OffsetInv, StayInv, stops = 0, "send" \notin torn, UpdateRegistries
  PROVE  StayInv'
<1>1. /\ UNCHANGED <<now, offset, shouldRun, phase, stops, batches, torn>>
      /\ main' = UpdateFrom(main, pending, WallStep, Multiple)
      /\ pc' # "send"
  BY DEF UpdateRegistries, stopping, history
<1>2. /\ offset = 0 /\ BatchesType /\ BatchesType' /\ Batches' = Batches /\ SentValuesStay'
      /\ phase = "loop" /\ shouldRun
  BY <1>1 DEF StayInv, BatchesType, Batches, SentValuesStay, Sent
<1>3. /\ WallStep = Now /\ Now \in Nat \ {0} /\ TheMinute \in Nat
      /\ TheMinute' = TheMinute
  BY <1>1, <1>2, ClockBeforeFlush2 DEF TheMinute, Now
<1>4. IsStore(main) /\ IsGiven(pending) /\ Multiple \in Nat \ {0}
  BY Constants DEF TypeOK, IsGiven
<1> DEFINE q == (Now - 1) \div Multiple
<1>5. q \in Nat /\ q <= TheMinute
  <2>1. Now - 1 \in Nat /\ Now \in Nat /\ Now - 1 <= Now
    BY <1>3
  <2> QED BY <1>4, <2>1, DivisionIsMonotone DEF TheMinute
<1> HIDE DEF q
<1>6. \A i \in DOMAIN main : i \in Ids /\ main[i].pos \in Nat /\ main[i].pos <= TheMinute
  BY <1>4 DEF StayInv, IsStore, Entries
<1>7. ASSUME NEW i \in DOMAIN main' PROVE main'[i].pos <= TheMinute'
  <2>1. i \in Ids
    BY <1>1, <1>4, <1>6 DEF UpdateFrom, IsGiven
  <2>2. main'[i].pos = q \/ (i \in DOMAIN main /\ main'[i].pos = main[i].pos)
    BY <1>1, <1>3, <1>4, <1>7, <2>1, EntryUpdated DEF q
  <2> QED BY <1>3, <1>5, <1>6, <2>2
<1>8. ASSUME NEW b \in Batches, b.minute + 1 = TheMinute, NEW i \in DOMAIN b.values
      PROVE  /\ i \in DOMAIN main' /\ main'[i].pos = b.minute + 1
             /\ main'[i].last = b.values[i]
  <2>1. i \in DOMAIN main /\ main[i].pos = b.minute + 1 /\ main[i].last = b.values[i]
    BY <1>8 DEF StayInv, StillHolds
  <2>2. (Now - 1) \div Multiple <= main[i].pos
    BY <1>5, <1>8, <2>1 DEF q
  <2>3. /\ i \in DOMAIN main' /\ main'[i].pos = main[i].pos
        /\ main'[i].last = main[i].last
    BY <1>1, <1>3, <1>4, <2>1, <2>2, EntryKept
  <2> QED BY <2>1, <2>3
<1>9. \A b \in Batches' :
        /\ b.minute < TheMinute'
        /\ b.minute + 1 = TheMinute' => StillHolds(main', b.values, b.minute)
  BY <1>2, <1>3, <1>8 DEF StayInv, StillHolds
<1> QED BY <1>1, <1>2, <1>7, <1>9 DEF StayInv

\* What is sent of the minute before, main holds afterwards; what it held is sent.
LEMMA StaySend ==
  ASSUME TypeOK, OffsetInv, StayInv, stops = 0, "send" \notin torn, SendToMain
  PROVE  StayInv'
<1> DEFINE minute == WallTime \div Minute
           values == Measured(main, minute)
           new == [minute |-> timestamp - 1, values |-> values]
           Batch == [minute : Int, values : SentValues]
<1>1. /\ UNCHANGED <<now, offset, shouldRun, phase, stops, torn>>
      /\ pc = "send" /\ pc' = "subs"
      /\ batches' = Append(batches, new) /\ main' = AfterMeasured(main, minute)
  BY DEF SendToMain, stopping
<1>2. /\ phase = "loop" /\ shouldRun /\ offset = 0 /\ timestamp = TheMinute
      /\ BatchesType /\ SentValuesStay
  BY <1>1 DEF StayInv
<1>3. minute = TheMinute /\ TheMinute \in Nat \ {0} /\ TheMinute' = TheMinute
  BY <1>1, <1>2, ClockBeforeFlush2 DEF TheMinute, Now
<1>4. IsStore(main) /\ \A i \in DOMAIN main : main[i].pos <= TheMinute
  BY DEF StayInv, TypeOK
<1> HIDE DEF minute
<1>5. /\ values \in SentValues
      /\ \A i \in DOMAIN values : /\ i \in DOMAIN main' /\ main'[i].pos = TheMinute
                                  /\ main'[i].last = values[i]
      /\ \A i \in DOMAIN main : main[i].pos = TheMinute /\ main[i].last > 0 =>
           i \in DOMAIN values /\ values[i] = main[i].last
      /\ \A i \in DOMAIN main' : main'[i].pos <= TheMinute
  BY <1>1, <1>3, <1>4, EntrySent
<1> HIDE DEF values
<1>6. new \in Batch /\ new.minute = TheMinute - 1 /\ new.values = values
  BY <1>2, <1>3, <1>5
<1> HIDE DEF new, Batch
<1> DEFINE n == Len(batches) + 1
<1>7. /\ batches \in Seq(Batch) /\ batches' \in Seq(Batch)
      /\ n \in Nat /\ DOMAIN batches = 1 .. n - 1
      /\ DOMAIN batches' = DOMAIN batches \cup {n}
      /\ batches'[n] = new
      /\ \A j \in DOMAIN batches : batches'[j] = batches[j]
  <2>1. batches \in Seq(Batch)
    BY <1>2 DEF BatchesType, Batch
  <2> QED BY <1>1, <1>6, <2>1
<1> HIDE DEF n
<1>8. BatchesType' /\ Batches' = Batches \cup {new}
  BY <1>7 DEF BatchesType, Batch, Batches, Range
<1>9. ASSUME NEW b \in Batches, b.minute = TheMinute - 1, NEW i \in DOMAIN b.values
      PROVE  /\ i \in DOMAIN values /\ values[i] = b.values[i]
             /\ i \in DOMAIN main' /\ main'[i].pos = TheMinute /\ main'[i].last = b.values[i]
  <2>1. b.minute + 1 = TheMinute
    BY <1>3, <1>9
  <2>2. i \in DOMAIN main /\ main[i].pos = TheMinute /\ main[i].last = b.values[i]
    BY <1>9, <2>1 DEF StayInv, StillHolds
  <2>3. b.values[i] \in Nat /\ b.values[i] > 0
    BY <1>2, <1>9, BatchType
  <2>4. i \in DOMAIN values /\ values[i] = main[i].last
    BY <1>5, <2>2, <2>3
  <2> QED BY <1>5, <2>2, <2>4
<1>10. ASSUME NEW b \in Batches'
       PROVE  /\ b.minute < TheMinute
              /\ b.minute + 1 = TheMinute => StillHolds(main', b.values, b.minute)
  <2>1. CASE b = new
    BY <1>3, <1>5, <1>6, <2>1 DEF StillHolds
  <2>2. CASE b \in Batches
    <3>1. b.minute < TheMinute /\ b.minute \in Int
      BY <1>2, <2>2, BatchType DEF StayInv
    <3>2. b.minute + 1 = TheMinute => StillHolds(main', b.values, b.minute)
      BY <1>3, <1>9, <2>2, <3>1 DEF StillHolds
    <3> QED BY <3>1, <3>2
  <2> QED BY <1>8, <2>1, <2>2
<1>11. ASSUME NEW j \in DOMAIN batches', NEW k \in DOMAIN batches', j < k,
              batches'[j].minute = batches'[k].minute, NEW i \in DOMAIN batches'[j].values
       PROVE  Sent(batches'[k], i) = batches'[j].values[i]
  <2>1. j \in DOMAIN batches /\ batches'[j] = batches[j]
    BY <1>7, <1>11
  <2>2. CASE k \in DOMAIN batches
    <3>1. batches'[k] = batches[k]
      BY <1>7, <2>2
    <3> QED BY <1>2, <1>11, <2>1, <2>2, <3>1 DEF SentValuesStay
  <2>3. CASE k = n
    <3>1. batches[j] \in Batches /\ batches[j].minute = TheMinute - 1
      BY <1>2, <1>6, <1>7, <1>11, <2>1, <2>3, BatchType
    <3>2. i \in DOMAIN values /\ values[i] = batches[j].values[i]
      BY <1>9, <1>11, <2>1, <3>1
    <3> QED BY <1>6, <1>7, <2>1, <2>3, <3>2 DEF Sent
  <2> QED BY <1>7, <2>2, <2>3
<1>12. SentValuesStay'
  BY <1>11 DEF SentValuesStay, Sent
<1> QED BY <1>1, <1>2, <1>3, <1>5, <1>8, <1>10, <1>12 DEF StayInv

LEMMA StayStep ==
  ASSUME TypeOK, TypeOK', OffsetInv, StayInv, [Next]_vars
  PROVE  StayInv'
<1>1. CASE ~(stops = 0 /\ "send" \notin torn)'
  BY <1>1 DEF StayInv
<1>2. CASE (stops = 0 /\ "send" \notin torn)'
  <2>1. stops = 0 /\ stops' = 0 /\ "send" \notin torn /\ "send" \notin torn'
    <3>1. stops \in Nat
      BY DEF TypeOK
    <3> QED BY <1>2, <3>1, StopsStep, TornStep
  <2>2. phase = "loop" /\ shouldRun /\ offset = 0
    BY <2>1 DEF StayInv
  <2>3. ASSUME UNCHANGED <<now, offset, shouldRun, phase, stops, main, batches>>,
               pc' = "send" => timestamp' = TheMinute
        PROVE  StayInv'
    BY <2>1, <2>3 DEF StayInv, BatchesType, Batches, TheMinute, Now, SentValuesStay, Sent,
                      StillHolds
  <2>4. CASE UNCHANGED vars
    <3>1. /\ UNCHANGED <<now, offset, shouldRun, phase, stops, main, batches>>
          /\ pc' = pc /\ timestamp' = timestamp
      BY <2>4 DEF vars, stopping, registries, sender, history
    <3> QED BY <2>1, <2>3, <3>1 DEF StayInv
  <2>5. CASE Tick
    BY <2>1, <2>5, StayTick
  <2>6. CASE \E i \in Ids, a \in Amounts : Record(i, a)
    <3>1. /\ UNCHANGED <<now, offset, shouldRun, phase, stops, main, batches>>
          /\ pc' = pc /\ timestamp' = timestamp
      BY <2>6 DEF Record, stopping, sender
    <3> QED BY <2>1, <2>3, <3>1 DEF StayInv
  <2>7. CASE Wake \/ Measure \/ CheckWindow \/ SendSubsAndWait
    <3>1. /\ UNCHANGED <<now, offset, shouldRun, phase, stops, main, batches>>
          /\ pc' # "send"
      BY <2>7 DEF Wake, Measure, CheckWindow, SendSubsAndWait, stopping, registries, history
    <3> QED BY <2>3, <3>1
  <2>8. CASE TakeTimestamp
    <3>1. /\ UNCHANGED <<now, offset, shouldRun, phase, stops, main, batches>>
          /\ timestamp' = WallTime \div Minute
      BY <2>8 DEF TakeTimestamp, stopping, registries, history
    <3>2. WallTime \div Minute = TheMinute
      BY <2>2, ClockBeforeFlush2
    <3> QED BY <2>3, <3>1, <3>2
  <2>9. CASE UpdateRegistries
    BY <2>1, <2>9, StayUpdate
  <2>10. CASE SendToMain
    BY <2>1, <2>10, StaySend
  <2>11. ~Stop /\ ~Start /\ ~Join /\ ~EndFlush
    BY <2>1, <2>2 DEF Stop, Start, Join, EndFlush
  <2> QED BY <2>4, <2>5, <2>6, <2>7, <2>8, <2>9, <2>10, <2>11 DEF Next, Run
<1> QED BY <1>1, <1>2

\* What a batch said of a minute a later batch of that minute repeats
\* (SentValuesStay), wherever the runs are torn but between the timestamp and the
\* measurements: CheckWindow's minute may be over when it is sent, or begin before.
THEOREM SentStay == Spec => []SentValuesStay
<1> DEFINE Inv == TypeOK /\ OffsetInv /\ StayInv
<1>1. Init => Inv
  <2> SUFFICES ASSUME Init PROVE StayInv
    BY InitialTypes
  <2>1. /\ batches = <<>> /\ Batches = {} /\ DOMAIN main = {} /\ offset = 0
        /\ shouldRun = TRUE /\ phase = "loop" /\ pc = "wait" /\ DOMAIN batches = {}
    BY DEF Init, Batches, Range, Empty
  <2>2. SentValuesStay /\ BatchesType
    BY <2>1 DEF SentValuesStay, BatchesType
  <2> QED BY <2>1, <2>2 DEF StayInv
<1>2. Inv /\ [Next]_vars => Inv'
  <2> SUFFICES ASSUME Inv, [Next]_vars PROVE Inv'
    OBVIOUS
  <2>1. TypeOK' /\ OffsetInv'
    BY Typing
  <2> QED BY <2>1, StayStep
<1>3. Inv => SentValuesStay
  BY DEF StayInv, SentValuesStay
<1> HIDE DEF Inv
<1> QED BY <1>1, <1>2, <1>3, PTL DEF Spec
=============================================================================
