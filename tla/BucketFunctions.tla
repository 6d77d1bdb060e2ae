--------------------------- MODULE BucketFunctions ---------------------------
(***************************************************************************)
(* meter/bucket_functions.cc, and bucket_counter.cc, which counts amounts  *)
(* under the labels such a function gives them.  A label of a bucket is    *)
(* its number, the width it is padded to and its unit.  Formatters beyond  *)
(* what an integer of TLC holds (a second, a gibibyte, a billion) are left *)
(* out: they continue the tables.                                          *)
(***************************************************************************)
EXTENDS Integers, SequencesExt

CONSTANTS
  Maxima,      \* the max a bucket function is made for
  MaxLabelled  \* bound on the amounts recorded

\* Maxima within the tables.
ASSUME BucketFunctionAssumption == \A max \in Maxima : max \in Nat /\ max < 1000000000

VARIABLES
  function,  \* the bucket function: which one, and its max
  labelled   \* the amounts recorded, each with its label

bucketFunctionVars == <<function, labelled>>

\* Formatters of one unit, for one digit, two, ...: up to each multiple of it.
UnitFormatters(unit, factor, multiples) ==
  [w \in DOMAIN multiples |->
     [max |-> multiples[w] * factor, width |-> w, unit |-> unit, factor |-> factor]]

TimeFormatters ==
  UnitFormatters("ns", 1, <<10, 100, 1000, 8000>>) \o
  UnitFormatters("us", 1000, <<10, 100, 1000, 8000>>) \o
  UnitFormatters("ms", 1000000, <<10, 100, 1000>>)

BinaryFormatters ==
  UnitFormatters("B", 1, <<10, 100, 1000, 10000>>) \o
  UnitFormatters("KiB", 1024, <<10, 100, 1000, 10000>>) \o
  UnitFormatters("MiB", 1048576, <<10, 100, 1000>>)

NoUnit == ""

DecimalFormatters ==
  UnitFormatters(NoUnit, 1, <<10, 100, 1000>>) \o
  UnitFormatters("k", 1000, <<10, 100, 1000>>) \o
  UnitFormatters("M", 1000000, <<10, 100, 1000>>)

Formatters ==
  [Age |-> TimeFormatters, AgeBiasOld |-> TimeFormatters,
   Bytes |-> BinaryFormatters, Decimal |-> DecimalFormatters]

\* Mutant: the first formatter whose max is not below the other.
GetFormatterUpTo(f) ==
  LET vfs == Formatters[f.kind] IN vfs[SelectInSeq(vfs, LAMBDA vf : f.max <= vf.max)]

GetFormatter(f) ==
  LET vfs == Formatters[f.kind] IN vfs[SelectInSeq(vfs, LAMBDA vf : f.max < vf.max)]

\* BiasMax for AgeBiasOld, BiasZero for the others
Boundaries(f) ==
  LET m == f.max IN
  IF f.kind = "AgeBiasOld" THEN <<m - m \div 2, m - m \div 4, m - m \div 8, m>>
                           ELSE <<m \div 8, m \div 4, m \div 2, m>>

\* BucketsFunction::operator()
LabelOf(f, amount) ==
  LET i  == SelectInSeq(Boundaries(f), LAMBDA b : amount <= b)
      vf == GetFormatter(f)
  IN  CASE amount <= -1 -> [edge |-> "negative"]
        [] amount >= 0 /\ i # 0 ->
             [number |-> Boundaries(f)[i] \div vf.factor, width |-> vf.width, unit |-> vf.unit]
        [] OTHER -> [edge |-> "large"]

MakeFunction ==
  /\ function \in [kind : DOMAIN Formatters, max : Maxima]
  /\ labelled = {}

\* BucketCounter::Record: the counter of the label is incremented.
RecordAmount ==
  /\ Cardinality(labelled) < MaxLabelled
  /\ \E amount \in {-1, 0, function.max + 1} \cup
                   UNION {{b, b + 1} : b \in Range(Boundaries(function))} :
       labelled' = labelled \cup {<<amount, LabelOf(function, amount)>>}
  /\ UNCHANGED function

BucketFunctionSpec == MakeFunction /\ [][RecordAmount]_bucketFunctionVars

----------------------------------------------------------------------------
(* Properties *)

\* The least number that needs more digits than a width has.
TooWide == <<10, 100, 1000, 10000>>

\* The labels of the numbered buckets sort as their amounts do, and two amounts
\* have the same one only if no boundary is between them: no two buckets are
\* merged.  (Not so for Decimal below eight of its unit, nor below four.)
BucketsAreToldApart ==
  LET numbered == {r \in labelled : "number" \in DOMAIN r[2]}
      Holds    == function.max >= IF function.kind = "Decimal" /\ function.max >= 1000
                                    THEN 8 * GetFormatter(function).factor ELSE 4
      Between(a, b) == \E m \in Range(Boundaries(function)) : a <= m /\ m < b
  IN  Holds => \A x, y \in numbered :
        /\ x[2].number < TooWide[x[2].width]
        /\ x[1] < y[1] => /\ x[2].number <= y[2].number
                          /\ x[2].number < y[2].number <=> Between(x[1], y[1])

=============================================================================
