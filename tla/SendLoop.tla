------------------------------- MODULE SendLoop -------------------------------
(***************************************************************************)
(* meter/subscription_manager.cc: main_sender, Stop and what they call, on *)
(* top of the 5 s registry (each meter a StepBucket), of the main          *)
(* consolidation registry and of those of the subscriptions.               *)
(*                                                                         *)
(* Time is in ticks, StepTicks of them to a step (kFastestFrequencyMillis) *)
(* and Multiple steps to a minute (kMainMultiple, kMainFrequencyMillis).   *)
(* In a run of the loop or a flush time passes between any two looks at    *)
(* the clock (the POST to main is before "subs"), up to MaxBusy ticks in   *)
(* all; a wait may end up to Slack ticks late.  0 and 0 is the schedule    *)
(* the code intends, of which a real one always falls short.  No wait      *)
(* ends early, as wait_for may (it has no predicate): a run would          *)
(* consolidate a step a second time.                                       *)
(***************************************************************************)
EXTENDS Consolidation, SequencesExt

CONSTANTS
  Amounts,       \* the arguments of the recording methods
  StepTicks,     \* ticks per step
  Multiple,      \* kMainMultiple
  SubMultiples,  \* the frequencies that have subscriptions, in steps
  MaxBusy,       \* bound: the ticks that pass during runs and flushes
  Slack,         \* bound: the ticks a wait oversleeps
  MaxTime,       \* bound: the last tick
  MaxRecords,    \* bound: the number of updates
  MaxStops       \* bound: the number of times the client is stopped

ASSUME SendLoopAssumption ==
  /\ StepTicks \in Nat \ {0} /\ Multiple \in Nat \ {0}
  /\ 2 * (StepTicks * Multiple) <= MaxTime
  /\ SubMultiples \subseteq 1..Multiple
  /\ Amounts \subseteq Nat \ {0}
  /\ {MaxBusy, Slack, MaxTime, MaxRecords, MaxStops} \subseteq Nat

VARIABLES
  now,        \* system_clock
  offset,     \* offset_ of clock_
  registry,   \* registry_: the StepNumber of each meter
  main,       \* main_registry_
  subs,       \* sub_registries_, of the frequencies with subscriptions
  shouldRun,  \* should_run_
  notified,   \* cv.notify_all was called while the sender was in wait_for
  phase,      \* "loop" in main_sender; then Stop's "flush1", "flush2"; "stopped"
  pc,         \* the next call of main_sender or of flush_metrics
  start,      \* main_sender's start; when the flush began
  deadline,   \* when wait_for times out
  run,        \* main_sender's run
  pending,    \* the measurements of registry_
  timestamp,  \* send_to_main's timestamp, in minutes
  prevStep,   \* Stop's prev_step
  \* History.
  recorded,   \* per frequency, meter and period of it, what was recorded
  records,    \* the number of updates
  stops,      \* the number of stops
  batches,    \* what was sent to main: the minute it is about, and its values
  subBatches, \* what was sent to subscriptions: frequency, step, and values
  skipped,    \* a step ended in which main_sender had begun no run
  busy,       \* the ticks that passed during runs and flushes
  torn        \* the calls (pc) of a run or a flush during which a step ended

stopping == <<shouldRun, notified>>
registries == <<registry, main, subs>>
sender == <<phase, pc, start, deadline, run, pending, timestamp, prevStep>>
history == <<recorded, records, stops, batches, subBatches, skipped, busy, torn>>
vars == <<now, offset, stopping, registries, sender, history>>

Minute == StepTicks * Multiple
WallTime == now + offset
WallStep == WallTime \div StepTicks
Frequencies == SubMultiples \cup {Multiple}
Periods == 0..(MaxTime \div StepTicks)

\* The client is started at any phase of the second minute of the clock.
Init ==
  /\ now \in Minute .. 2 * Minute - 1
  /\ offset = 0
  /\ registry = [i \in Ids |-> [pos |-> now \div StepTicks, open |-> 0, last |-> 0]]
  /\ main = Empty
  /\ subs = [f \in SubMultiples |-> Empty]
  /\ shouldRun = TRUE /\ notified = FALSE
  /\ phase = "loop" /\ pc = "wait"
  /\ start = now /\ deadline = now /\ run = 0
  /\ pending = [i \in {} |-> 0] /\ timestamp = 0 /\ prevStep = 0
  /\ recorded = [f \in Frequencies |-> [i \in Ids |-> [p \in Periods |-> 0]]]
  /\ records = 0 /\ stops = 0
  /\ batches = <<>> /\ subBatches = <<>>
  /\ skipped = FALSE /\ busy = 0 /\ torn = {}

StepEnds == (WallTime + 1) \div StepTicks > WallStep

RunBegan ==
  /\ start \div StepTicks = now \div StepTicks
  /\ pc = "wait" => run > 0

Tick ==
  /\ now < MaxTime
  /\ IF pc = "wait" THEN /\ phase = "loop" => now < deadline + Slack
                         /\ UNCHANGED <<busy, torn>>
                    ELSE /\ busy < MaxBusy /\ busy' = busy + 1
                         /\ torn' = IF StepEnds THEN torn \cup {pc} ELSE torn
  /\ now' = now + 1
  /\ skipped' = (skipped \/ (phase = "loop" /\ StepEnds /\ ~RunBegan))
  /\ UNCHANGED <<offset, stopping, registries, sender, recorded, records, stops,
                 batches, subBatches>>

-----------------------------------------------------------------------------
(* The application *)

\* An update of a meter: StepNumber's Add or UpdateCurrentMax.  The
\* application makes none after it has asked for the stop.
Record(i, a) ==
  /\ shouldRun /\ records < MaxRecords
  /\ LET b == RollTo(registry[i], WallStep)
     IN  registry' = [registry EXCEPT ![i] = [b EXCEPT !.open = Merge(i, @, a)]]
  /\ recorded' = [f \in Frequencies |->
                    [recorded[f] EXCEPT ![i][(now \div StepTicks) \div f] = Merge(i, @, a)]]
  /\ records' = records + 1
  /\ UNCHANGED <<now, offset, stopping, main, subs, sender, stops,
                 batches, subBatches, skipped, busy, torn>>

\* Stop(), up to the join.  A notification is lost unless the sender waits.
\* Bound: there is time left for the sender's wait to time out.
Stop ==
  /\ shouldRun /\ stops < MaxStops
  /\ now + StepTicks + (MaxBusy - busy) <= MaxTime
  /\ shouldRun' = FALSE
  /\ notified' = (pc = "wait")
  /\ stops' = stops + 1
  /\ UNCHANGED <<now, offset, registries, sender, recorded, records, batches,
                 subBatches, skipped, busy, torn>>

\* Start(), when the client had been stopped: clock_ keeps its offset.
Start ==
  /\ phase = "stopped"
  /\ shouldRun' = TRUE /\ notified' = FALSE
  /\ phase' = "loop"
  /\ deadline' = now /\ run' = 0
  /\ UNCHANGED <<now, offset, registries, pc, start, pending, timestamp, prevStep,
                 history>>

-----------------------------------------------------------------------------
(* main_sender, and flush_metrics in the thread that called Stop *)

\* The loop's condition, after the wait timed out.
Wake ==
  /\ phase = "loop" /\ pc = "wait"
  /\ shouldRun /\ now >= deadline
  /\ pc' = "measure" /\ start' = now
  /\ UNCHANGED <<now, offset, stopping, registries, phase, deadline, run, pending,
                 timestamp, prevStep, history>>

\* Mutant: the sender waits for a notification, without a timeout.
JoinWhenNotified ==
  /\ phase = "loop" /\ pc = "wait"
  /\ ~shouldRun /\ notified
  /\ phase' = "flush1" /\ pc' = "measure" /\ start' = now
  /\ prevStep' = (WallTime \div Minute) * Minute
  /\ UNCHANGED <<now, offset, stopping, registries, deadline, run, pending,
                 timestamp, history>>

\* The sender ends, being notified or when its wait times out; Stop goes on.
Join ==
  /\ phase = "loop" /\ pc = "wait"
  /\ ~shouldRun
  /\ notified \/ now >= deadline
  /\ phase' = "flush1" /\ pc' = "measure" /\ start' = now
  /\ prevStep' = (WallTime \div Minute) * Minute
  /\ UNCHANGED <<now, offset, stopping, registries, deadline, run, pending,
                 timestamp, history>>

\* update_registries: registry_->measurements().  A max gauge without updates
\* measures NaN, which update_from leaves out.
Measure ==
  /\ pc = "measure"
  /\ registry' = [i \in Ids |-> RollTo(registry[i], WallStep)]
  /\ pending' = [i \in {j \in Ids : j \in Gauges => registry'[j].last > 0} |->
                   registry'[i].last]
  /\ pc' = "update"
  /\ UNCHANGED <<now, offset, stopping, main, subs, phase, start, deadline, run,
                 timestamp, prevStep, history>>

\* Mutant: only the frequency whose turn it is to be sent is updated.
UpdateRegistriesInTurn ==
  /\ pc = "update"
  /\ main' = UpdateFrom(main, pending, WallStep, Multiple)
  /\ subs' = [f \in SubMultiples |->
                IF f = (run % Multiple) + 1 THEN UpdateFrom(subs[f], pending, WallStep, f)
                                          ELSE subs[f]]
  /\ pc' = IF phase = "loop" THEN "check" ELSE "stamp"
  /\ UNCHANGED <<now, offset, stopping, registry, phase, start, deadline, run,
                 pending, timestamp, prevStep, history>>

\* update_registries: the consolidation registries.  flush_metrics sends to
\* main without looking at the time.
UpdateRegistries ==
  /\ pc = "update"
  /\ main' = UpdateFrom(main, pending, WallStep, Multiple)
  /\ subs' = [f \in SubMultiples |-> UpdateFrom(subs[f], pending, WallStep, f)]
  /\ pc' = IF phase = "loop" THEN "check" ELSE "stamp"
  /\ UNCHANGED <<now, offset, stopping, registry, phase, start, deadline, run,
                 pending, timestamp, prevStep, history>>

\* Mutant: the minute's data is sent in its last step.
CheckWindowEarly ==
  /\ pc = "check"
  /\ pc' = IF WallStep % Multiple = Multiple - 1 THEN "stamp" ELSE "subs"
  /\ UNCHANGED <<now, offset, stopping, registries, phase, start, deadline, run,
                 pending, timestamp, prevStep, history>>

\* WallTime() % 60000 < kFastestFrequencyMillis
CheckWindow ==
  /\ pc = "check"
  /\ pc' = IF WallStep % Multiple = 0 THEN "stamp" ELSE "subs"
  /\ UNCHANGED <<now, offset, stopping, registries, phase, start, deadline, run,
                 pending, timestamp, prevStep, history>>

\* send_to_main: the timestamp.
TakeTimestamp ==
  /\ pc = "stamp"
  /\ timestamp' = WallTime \div Minute
  /\ pc' = "send"
  /\ UNCHANGED <<now, offset, stopping, registries, phase, start, deadline, run,
                 pending, prevStep, history>>

\* send_to_main: the measurements, pushed with that timestamp.
SendToMain ==
  /\ pc = "send"
  /\ LET minute == WallTime \div Minute
     IN  /\ batches' = Append(batches, [minute |-> timestamp - 1,
                                        values |-> Measured(main, minute)])
         /\ main' = AfterMeasured(main, minute)
  /\ pc' = "subs"
  /\ UNCHANGED <<now, offset, stopping, registry, subs, phase, start, deadline, run,
                 pending, timestamp, prevStep, recorded, records, stops, subBatches, skipped, busy, torn>>

SubBatch(f) ==
  [multiple |-> f, step |-> WallStep, values |-> Measured(subs[f], WallStep \div f)]

\* send_subscriptions for the frequency whose turn it is, and the wait.
SendSubsAndWait ==
  /\ pc = "subs" /\ phase = "loop"
  /\ LET f == (run % Multiple) + 1
     IN  IF f \in SubMultiples
           THEN /\ subBatches' = Append(subBatches, SubBatch(f))
                /\ subs' = [subs EXCEPT ![f] = AfterMeasured(@, WallStep \div f)]
           ELSE UNCHANGED <<subBatches, subs>>
  /\ deadline' = IF start + StepTicks > now THEN start + StepTicks ELSE now + 1
  /\ run' = run + 1
  /\ pc' = "wait"
  /\ UNCHANGED <<now, offset, stopping, registry, main, phase, start, pending,
                 timestamp, prevStep, recorded, records, stops, batches, skipped, busy, torn>>

\* flush_metrics: send_subscriptions for every frequency; then Stop advances
\* the clock and flushes again, or is done.
EndFlush ==
  /\ pc = "subs" /\ phase \in {"flush1", "flush2"}
  /\ subs' = [f \in SubMultiples |-> AfterMeasured(subs[f], WallStep \div f)]
  /\ \/ /\ phase = "flush1"
        /\ offset' = Minute - (WallTime - prevStep)
        /\ phase' = "flush2" /\ pc' = "measure" /\ start' = now
     \/ /\ phase = "flush2"
        /\ phase' = "stopped" /\ pc' = "wait"
        /\ UNCHANGED <<offset, start>>
  /\ subBatches' = subBatches \o SetToSeq({SubBatch(f) : f \in SubMultiples})
  /\ UNCHANGED <<now, stopping, registry, main, deadline, run, pending, timestamp,
                 prevStep, recorded, records, stops, batches, skipped, busy, torn>>

-----------------------------------------------------------------------------
Run ==
  \/ Wake \/ Join
  \/ Measure \/ UpdateRegistries
  \/ CheckWindow \/ TakeTimestamp \/ SendToMain
  \/ SendSubsAndWait \/ EndFlush

Next ==
  \/ Tick
  \/ \E i \in Ids, a \in Amounts : Record(i, a)
  \/ Stop \/ Start
  \/ Run

Spec == Init /\ [][Next]_vars

\* Time passes, and the sender (then the thread in Stop) is scheduled.
FairSpec == Spec /\ WF_vars(Tick) /\ WF_vars(Run)

-----------------------------------------------------------------------------
(* Properties *)

Calls == {"measure", "update", "check", "stamp", "send", "subs"}

Buckets == [pos : Nat, open : Nat, last : Nat]
Entries == [marked : BOOLEAN, pos : Nat, open : Nat, last : Nat]

IsStore(values) ==
  /\ DOMAIN values \subseteq Ids
  /\ \A i \in DOMAIN values : values[i] \in Entries

\* Every variable keeps its type.
TypeOK ==
  /\ now \in Nat /\ offset \in Int
  /\ registry \in [Ids -> Buckets]
  /\ IsStore(main)
  /\ DOMAIN subs = SubMultiples /\ \A f \in SubMultiples : IsStore(subs[f])
  /\ shouldRun \in BOOLEAN /\ notified \in BOOLEAN /\ skipped \in BOOLEAN
  /\ torn \subseteq Calls
  /\ phase \in {"loop", "flush1", "flush2", "stopped"}
  /\ pc \in Calls \cup {"wait"}
  /\ {start, deadline, run, timestamp, prevStep, records, stops, busy} \subseteq Nat
  /\ DOMAIN pending \subseteq Ids /\ \A i \in DOMAIN pending : pending[i] \in Nat
  /\ recorded \in [Frequencies -> [Ids -> [Periods -> Nat]]]

RecordedInMinute(i, m) == recorded[Multiple][i][m]

Sent(b, i) == IF i \in DOMAIN b.values THEN b.values[i] ELSE 0

Batches == Range(batches)

\* What was recorded in the last completed interval of the batch's frequency.
RecordedInInterval(b, i) == recorded[b.multiple][i][b.step \div b.multiple - 1]

SubBatches == Range(subBatches)

\* The first minute the client was there for; it may have missed its beginning.
Minutes == 1 .. (MaxTime \div Minute)

\* subscription_manager.cc:85 "send metrics at the beginning of each new
\* minute": when the first step of a minute is over, what was recorded in the
\* minute before has been sent.
EveryMinuteIsSent ==
  \A m \in Minutes :
    phase = "loop" /\ now >= (m + 1) * Minute + StepTicks =>
      \E b \in Batches : b.minute = m

\* Every run, up to the POST to main, looked at the clock within one step.
Whole == torn \subseteq {"subs"}

\* The same of a sender that began a run in each step, none of them torn.
PromptSenderSendsEveryMinute == ~skipped /\ Whole /\ stops = 0 => EveryMinuteIsSent

\* test/cons_registry_test.cc:155 "make sure we get the increment regardless of
\* where in the minute we saw it": a batch holds, for each meter, what was
\* recorded during the minute it is about (of such a sender).
BatchesAreExact ==
  ~skipped /\ Whole /\ stops = 0 => \A b \in Batches : b.minute \in Minutes =>
    \A i \in Ids : Sent(b, i) = RecordedInMinute(i, b.minute)

\* While the client runs nothing recorded is sent twice, or as of another interval
\* than its own, however late the sender is, how long its POSTs take and whatever
\* that loses, if no run is torn: to a subscription, not by the POST to main either.
NothingIsInflated ==
  Whole /\ stops = 0 => \A i \in Ids :
    /\ \A b \in Batches : b.minute \in Minutes => Sent(b, i) <= RecordedInMinute(i, b.minute)
    /\ torn = {} => \A b \in SubBatches : Sent(b, i) <= RecordedInInterval(b, i)

\* A run that is torn at the end of a minute sends it, and so may the next one:
\* what the first batch said of it the second repeats, whatever was consolidated
\* in between and wherever runs are torn (but between timestamp and measurements).
SentValuesStay ==
  "send" \notin torn /\ stops = 0 =>
    \A j, k \in DOMAIN batches : j < k /\ batches[j].minute = batches[k].minute =>
      \A i \in DOMAIN batches[j].values : Sent(batches[k], i) = batches[j].values[i]

\* The client was not started again, which it is with its clock ahead.
FirstLife == stops = 0 \/ (stops = 1 /\ ~shouldRun)

\* Batches with the same timestamp agree: sending a minute again, as the first
\* flush of a stop does, never replaces its values by others (if no run and no
\* flush is torn but by the POST to main).
ResentBatchesAgree ==
  Whole /\ FirstLife => \A b, c \in Batches : b.minute = c.minute => b.values = c.values

\* subscription_manager.cc:274 "move the clock forward to send partial
\* increments for step counters": once stopped, everything recorded was sent.
StopSendsPartialIncrements ==
  phase = "stopped" =>
    \A m \in Minutes, i \in Ids :
      RecordedInMinute(i, m) > 0 =>
        \E b \in Batches : b.minute = m /\ Sent(b, i) >= RecordedInMinute(i, m)

\* A call of Stop returns, even when its notification comes while the sender is
\* not waiting and is lost.
StopReturns == ~shouldRun ~> phase = "stopped"

SubBatchIsExact(b) == \A i \in Ids : Sent(b, i) = RecordedInInterval(b, i)

\* What the subscriptions of a frequency are sent is what was recorded in the
\* last completed interval of that frequency (of a sender that began
\* a run in each step, none of them torn, nor by the POST to main).
\* The turn of a frequency comes anywhere in its interval; what measurements()
\* then erases with the entry of a meter that was idle for long belongs to an
\* interval that is never sent, if the frequency is short enough.
SubBatchesAreExact ==
  ~skipped /\ torn = {} /\ stops = 0 =>
    \A b \in SubBatches : 2 * b.multiple <= Multiple + 1 => SubBatchIsExact(b)

\* consolidation_registry.cc:84-85 "if it was already marked, it means two
\* periods with no activity, then then we consider the entry safe to be
\* removed": for any frequency nothing is lost with an entry.
EverySubBatchIsExact ==
  ~skipped /\ torn = {} /\ stops = 0 => \A b \in SubBatches : SubBatchIsExact(b)

\* subscription.h:9-10 "needs to be sent to a server at a given interval": no
\* two results of a frequency are further apart than its interval.
SubsAreSentAtTheirInterval ==
  \A j, k \in DOMAIN subBatches :
    /\ j < k
    /\ subBatches[j].multiple = subBatches[k].multiple
    /\ \A l \in j + 1 .. k - 1 : subBatches[l].multiple # subBatches[j].multiple
    => subBatches[k].step - subBatches[j].step <= subBatches[j].multiple
=============================================================================
