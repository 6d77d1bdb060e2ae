-------------------------- MODULE PercentileBuckets --------------------------
(***************************************************************************)
(* meter/percentile_buckets.cc, the table gen_perc_bucket_values.cc writes *)
(* for it, and the counters that percentile_timer.cc and                   *)
(* percentile_dist_summary.cc keep per bucket.  Integers have Width bits   *)
(* (64 in the code), an even number, which leaves the arithmetic the same. *)
(***************************************************************************)
EXTENDS Integers, SequencesExt

CONSTANTS
  Width,        \* bits of an integer
  Percentages,  \* the percentiles asked for
  MaxRecorded   \* bound on the values recorded

\* Powers of four fit and leave room for two groups of values.
ASSUME PercentileAssumption ==
  /\ Width \in Nat /\ Width % 2 = 0 /\ Width >= 6
  /\ Percentages \subseteq 1 .. 100

VARIABLES
  counts,   \* counters_: how often each bucket was counted
  recorded  \* history: the values recorded

percentileVars == <<counts, recorded>>

PowerOf4[k \in Nat] == IF k = 0 THEN 1 ELSE 4 * PowerOf4[k - 1]

Half == Width \div 2

MaxInteger == PowerOf4[Half] \div 2 - 1
Wrap(n) ==
  LET m == n % PowerOf4[Half] IN IF m > MaxInteger THEN m - PowerOf4[Half] ELSE m

\* init(), its inner loop: a third of a power of four apart, up to near the next
ValuesFrom(current) ==
  LET delta == current \div 3
      next  == Wrap(current * 4) - delta
  IN  [j \in 1 .. (next - current + delta - 1) \div delta |-> current + (j - 1) * delta]

\* init(), its outer loop: bucketValues after the group of the k-th power of four
BucketValues[k \in Nat] ==
  IF k = 0 THEN <<1, 2, 3>> ELSE BucketValues[k - 1] \o ValuesFrom(PowerOf4[k])

kBucketValues == Append(BucketValues[Half - 1], MaxInteger)

\* kPowerOf4Index.at(k), counting from zero
PowerOf4Index(k) == IF k = 0 THEN 0 ELSE Len(BucketValues[k - 1])

LastIndex == Len(kBucketValues) - 1

Get(i) == kBucketValues[i + 1]

\* shift / 2, found with __builtin_clzll: the largest power of four not above v
PowerBelow(v) == CHOOSE k \in 1 .. Half : PowerOf4[k] <= v /\ v < 4 * PowerOf4[k]

\* Mutant: the position is taken for the index.
IndexOfPosition(v) ==
  IF v <= 0 THEN 0
  ELSE IF v <= 4 THEN v
  ELSE LET k == PowerBelow(v)
       IN  (v - PowerOf4[k]) \div (PowerOf4[k] \div 3) + PowerOf4Index(k)

\* IndexOf: PowerOf4[k] is prevPowerOf4.
IndexOf(v) ==
  IF v <= 0 THEN 0
  ELSE IF v <= 4 THEN v
  ELSE LET k   == PowerBelow(v)
           pos == (v - PowerOf4[k]) \div (PowerOf4[k] \div 3) + PowerOf4Index(k)
       IN  IF pos >= LastIndex THEN LastIndex ELSE pos + 1

\* Counted in the buckets up to i: prev before an iteration, next after it.
CountUpTo[i \in -1 .. LastIndex] == IF i = -1 THEN 0 ELSE CountUpTo[i - 1] + counts[i]

\* Percentiles, of one percentage p > 0 when anything is counted: the quotient
\* of num and den.
Percentile(p) ==
  LET all   == CountUpTo[LastIndex]
      i     == CHOOSE n \in 0 .. LastIndex :
                 100 * CountUpTo[n - 1] < p * all /\ p * all <= 100 * CountUpTo[n]
      prev  == CountUpTo[i - 1]
      prevB == IF i = 0 THEN 0 ELSE Get(i - 1)
  IN  [num |-> (p * all - 100 * prev) * (Get(i) - prevB) + 100 * counts[i] * prevB,
       den |-> 100 * counts[i]]

PercentileInit ==
  /\ counts = [i \in 0 .. LastIndex |-> 0]
  /\ recorded = <<>>

\* PercentileTimer::Record: negative values too are counted, in bucket zero.
RecordValue(v) ==
  /\ Len(recorded) < MaxRecorded
  /\ counts' = [counts EXCEPT ![IndexOf(v)] = @ + 1]
  /\ recorded' = Append(recorded, v)

PercentileNext == \E v \in -1 .. MaxInteger : RecordValue(v)

PercentileSpec == PercentileInit /\ [][PercentileNext]_percentileVars

----------------------------------------------------------------------------
(* Properties *)

\* A percentile is estimated within the bucket of the value that has that rank
\* and the bucket below: the value itself may be in either, since just under a
\* power of four IndexOf is one too high.  The last bucket is unbounded.
EstimateIsNear ==
  recorded # <<>> =>
    \A p \in Percentages :
      LET n         == Len(recorded)
          rank      == CHOOSE r \in 1 .. n : 100 * r >= p * n /\ 100 * (r - 1) < p * n
          IsThat(x) == /\ Cardinality({j \in 1 .. n : recorded[j] < x}) < rank
                       /\ Cardinality({j \in 1 .. n : recorded[j] <= x}) >= rank
          e         == Percentile(p)
      IN  \E x \in Range(recorded) :
            LET v   == IF x < 0 THEN 0 ELSE x
                i   == IndexOf(v)
                low == IF i < 2 THEN 0 ELSE Get(i - 2)
            IN  /\ IsThat(x)
                /\ low <= v /\ (v < Get(i) \/ i = LastIndex)
                /\ low * e.den <= e.num /\ e.num <= Get(i) * e.den

=============================================================================
