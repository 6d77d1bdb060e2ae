------------------------------ MODULE MCMeters ------------------------------
(* The meters and the functions they use, each on its own: a behaviour is   *)
(* one of one of them.                                                     *)
EXTENDS LongTaskTimer, MonotonicCounter, MaxGauge, Timer, Validation,
        PercentileBuckets, BucketFunctions

VARIABLE meter

CONSTANTS a, b, neg

MCInit ==
  /\ meter \in {"long task", "monotonic", "max gauge", "timer", "validation",
                "percentile", "bucket function"}
  /\ LongTaskInit /\ MonotonicInit /\ MaxGaugeInit /\ TimerInit
  /\ ValidationInit /\ PercentileInit
  /\ MakeFunction
  /\ meter # "bucket function" => function = [kind |-> "Age", max |-> 10]

\* All but one of the seven are left alone.
Rest(mine) ==
  /\ mine # "long task" => UNCHANGED longTaskVars
  /\ mine # "monotonic" => UNCHANGED monotonicVars
  /\ mine # "max gauge" => UNCHANGED maxGaugeVars
  /\ mine # "timer" => UNCHANGED timerVars
  /\ mine # "validation" => UNCHANGED tags
  /\ mine # "percentile" => UNCHANGED percentileVars
  /\ mine # "bucket function" => UNCHANGED bucketFunctionVars

MCNext ==
  /\ UNCHANGED meter
  /\ \/ meter = "long task" /\ LongTaskNext /\ Rest(meter)
     \/ meter = "monotonic" /\ MonotonicNext /\ Rest(meter)
     \/ meter = "max gauge" /\ MaxGaugeNext /\ Rest(meter)
     \/ meter = "timer" /\ TimerNext /\ Rest(meter)
     \/ meter = "validation" /\ ValidationNext /\ Rest(meter)
     \/ meter = "percentile" /\ PercentileNext /\ Rest(meter)
     \/ meter = "bucket function" /\ RecordAmount /\ Rest(meter)

MCSpec == MCInit /\ [][MCNext]_<<meter, longTaskVars, monotonicVars, maxGaugeVars, timerVars,
                                tags, percentileVars, bucketFunctionVars>>

\* Names and other strings of every length about a limit, with limits of
\* 2 (keys), 3 (values), 4 (the name) and 2 user tags.
TheKeys == {"name", "", "kkk", "nf.app", "nf.x", "u1", "u2"}
TheValues == {"", "v", "vvv", "vvvv", "vvvvv"}
TheLength == [s \in TheKeys \cup TheValues |->
  CASE s \in {"v"} -> 1 [] s \in {"nf.app", "nf.x", "u1", "u2"} -> 2
    [] s \in {"kkk", "vvv"} -> 3 [] s \in {"vvvv", "name"} -> 4 [] s = "vvvvv" -> 5 [] s = "" -> 0]
TheRecodedValues == {<<"u1", "v">>}

TheGaugeValues == {-1, 1, 2, 3}

\* Every max up to past the first formatters, and about each limit of the others
TheMaxima == 1 .. 130 \cup 990 .. 1030 \cup 7990 .. 8030 \cup 9990 .. 10300
  \cup UNION {{m - 1, m, m + 1, m + 7} :
         m \in {10240, 80000, 100000, 102400, 800000, 1000000, 1024000, 7999999, 8000000,
                10000000, 10240000, 10485760, 100000000, 104857600, 800000000}}
=============================================================================
