# Atlas native client: TLA+ specifications

The Atlas native client is a C++ library that applications link to record
metrics. Application threads update meters; background threads turn what they
recorded into measurements every five seconds, consolidate those into minutes,
and post the results to the Atlas back end (`main`) and to the services that
subscribed to some of them. This directory holds TLA+ models of it, the
configurations that check them with TLC, and theorems about them that TLAPS
checks.

Paths below are relative to the repository's root.

## 1. The system

| Part | Code | State | Operations |
|---|---|---|---|
| Step bucket | `meter/stepnumber.h` | `last_init_pos_`, `current_`, `previous_`, all atomics | `Add`, `UpdateCurrentMax`, `Poll`, each beginning with `RollCount` |
| Meters | `meter/default_*`, `interval_counter`, `monotonic_counter`, `percentile_*`, `bucket_*`, `function_gauge` | step buckets, running totals, `last_updated_`, running tasks, lazily created counters | record, `Measure`, `HasExpired` |
| Registry (5 s) | `meter/atlas_registry.{h,cc}` | the map `meters_` and its mutex | `counter`, `gauge`, `timer`, ... (`insert_if_needed`), `measurements` (`meters`, `Measure`, `expire_meters`) |
| Consolidation registries | `meter/consolidation_registry.{h,cc}` | `my_values`: per id a bucket of the reporting period and a mark; a clock that can be set back | `update_from`, `measurements` |
| Subscription manager | `meter/subscription_manager.{h,cc}` | the registries, `subscriptions_`, `current_etag`, `should_run_`, two threads | `main_sender`, `sub_refresher`, `Start`, `Stop`, `flush_metrics` |
| Publisher | `meter/publisher.cc` | none of its own; counters in the registry | `PushMeasurements`, `SendSubscriptions` in batches |
| Configuration | `util/config*.cc` | `current_config_`, `extra_tags_`, a thread | `GetConfig`, `refresh_configs`, `AddCommonTag`, `Start`, `Stop` |
| Client | `atlas_client.cc` | `started`, the clock | `Start`, `Stop`, `Push` |
| Interpreter | `interpreter/*` | none (a cache of parsed expressions) | stack machine, queries, query index, aggregation, grouping |
| Pure helpers | `meter/validation.cc`, `percentile_buckets.cc`, `bucket_functions.cc` | none | tag validation, bucketing |
| HTTP, logging, strings | `util/*` | connections, loggers, a string pool | I/O |

How they interact. An application thread gets a meter from the registry (a
shared pointer, under the registry's mutex) and updates its buckets without any
lock. The sender thread (`main_sender`) runs every five seconds: it asks the
registry for measurements (which polls every bucket, rolling it to the current
step), feeds them to the consolidation registry of `main` and to one per
subscribed frequency, and, in the first five seconds of a minute, sends what
`main`'s registry reports for the minute before; then it sends the results of
one frequency, whose turn goes round by the number of the run. The refresher
thread replaces the subscriptions. `Stop` ends the threads and flushes twice,
moving the client's clock to the next minute in between.

What is hard about it:

- *Concurrency without locks.* A bucket is three atomics, and the reading of
  the clock before them a fourth step; any thread may stall between two of
  them. The registry's map is walked without its mutex.
- *Time.* Every value belongs to a step and every batch to a minute, decided by
  repeated readings of a clock that other code moves. Loops are late; steps are
  skipped; a boundary may fall between two readings.
- *Stopping.* A notification may be lost; the flushes repeat what the loop has
  just done; a restarted client keeps its moved clock.
- *Partial failure.* Batches, refreshes and documents fail one by one.

What makes each part correct:

- bucket: no update lost, doubled or put in the wrong interval;
- registry: one live meter per id, registered while somebody holds it, dropped
  when nobody does;
- consolidation: a report is exactly the period that ended; erasing an idle
  entry loses nothing;
- sender loop: every minute is sent, with that minute's data, and a second
  batch for it says the same; a stop loses nothing and ends;
- refresh: the subscriptions converge to the server's; publisher: every metric
  is accounted for once; pure parts: equal to their mathematical definitions.

## 2. Modules

| Module | Models |
|---|---|
| `StepBucket` | what the bucket promises: rolling and merging each happen at once (abstract) |
| `StepNumber` | `stepnumber.h`, one action per atomic access |
| `StepNumberProofs` | theorems about it, and that it implements `StepBucket` |
| `AtlasRegistry`, `AtlasRegistryProofs` | `atlas_registry.{h,cc}`, `Meter` |
| `Consolidation` | the data operations of `consolidation_registry.{h,cc}` |
| `ConsolidationRegistry`, `ConsolidationProofs` | the same as a state machine with the callers it is meant for |
| `SendLoop`, `SendLoopProofs` | `main_sender`, `Stop` and `Start` over buckets and consolidation registries |
| `SubscriptionRefresh` | `refresh_subscriptions`, `conditional_get`, the server and the network |
| `Client`, `ClientProofs` | `atlas_client.cc`, `config_manager.cc`, the client's threads; composes `SubscriptionRefresh` |
| `Publisher`, `PublisherProofs` | `publisher.cc` over the posts of `http.cc` |
| `Query` | `query.{h,cc}`, as operators |
| `Evaluation` | the expressions a program yields and what they evaluate to: `aggregation.cc`, `group_by.cc`, `keep_drop_tags.cc`, `all.cc`, `evaluator.cc`, and the rules of `get_main_measurements` |
| `Interpreter` | the stack machine: `interpreter.cc`, `context.cc`, `vocabulary.cc`, one token a step |
| `QueryIndex` | the normal form of `query.cc` and the index of `query_index.h` over the queries of a stack |
| `InterpreterProofs` | theorems about both |
| `LongTaskTimer`, `MonotonicCounter`, `MaxGauge`, `Timer` | `default_long_task_timer.cc`, `monotonic_counter.cc`, `default_max_gauge.h`, `default_timer.cc` with `default_distribution_summary.h` |
| `Validation` | both validations of `validation.cc` |
| `PercentileBuckets` | `percentile_buckets.cc`, the table of `gen_perc_bucket_values.cc`, the counters of `percentile_timer.cc` |
| `BucketFunctions` | `bucket_functions.cc`, `bucket_counter.cc` |
| `MeterProofs` | theorems about the meters, the validations and the bucket functions |
| `MCStepNumber`, `MCAtlasRegistry`, `MCConsolidation`, `MCSendLoop`, `MCClient`, `MCPublisher`, `MCInterpreter`, `MCMeters` | instances for TLC |

Definitions have the names of the source. Those named *Mutant* in a comment are
not used by the specification: each is a plausible mistake in the definition it
precedes, kept to show that a property would notice it.

### StepNumber

`clock` is the current step (`now / step_millis_`). Each thread has a program
counter, and the locals of `RollCount` and of the CAS loops. A call begins by
reading the clock (`BeginPoll`, `BeginUpdate`), loads `last_init_pos_`
(`LoadInitPos`), may win or lose the CAS (`CasInitPos`), takes the old value
(`ExchangeCurrent`), stores `previous_` (`StorePrevious`) and then does what the
call is for (`ReadPrevious`, `AddLong`, `LoadCurrent`, `SwapCurrent`,
`SwapFails`). Between any two the other threads and the clock move freely; a
weak compare-exchange may fail spuriously. Atomic accesses are taken as
sequentially consistent (the read-modify-writes and the load of
`last_init_pos_` are; the relaxed loads that remain are of single variables).
History variables say which updates each place holds, so that "lost" and
"counted twice" can be stated; `skipped` remembers whether a step ever ended
without the bucket having been rolled in it.

`Kind` selects `StepNumber<int64_t>::Add`, `StepNumber<double>::Add` or
`UpdateCurrentMax`. `PromptRolls` and `ClockMayStepBack` restrict or extend the
environment and are named where a property needs them.

### AtlasRegistry

A meter is a number, its index in `objs`, with its id, type and
`last_updated_`. `CreateMeter` is the `make_shared` before the lock,
`InsertIfNeeded` everything under it and the comparison of classes after it,
`Updated` any recording method, `Release` the end of a `shared_ptr`. The sender
copies the map an entry at a time (`BeginMeasurements`, `CopyEntry`, `EndCopy`),
measures (`MeasureMeter`), destroys its copy (`DestroyCopy`) and expires
(`ExpireMeters`). What meters measure is the subject of the other modules.
Inserting while the map is copied is a data race; the model gives it its mildest
outcome, that an entry is seen or not.

### Consolidation, ConsolidationRegistry

An entry is a record: the mark, and a bucket (`pos`, `open`, `last`) whose steps
are reporting periods. It is used with the mutex held, so it is the atomic
bucket. `UpdateFrom` attributes values to the period of the step before the
current one; `Measured` and `AfterMeasured` are the two results of
`measurements`. A counter's value is the number of its increments: dividing by
the number of updates in a period is linear and left out. Gauge values are
ranks, 0 standing for `kMinValue`. An operation is one step: a period that ends
in the middle of one (`has_value` and `value` poll separately) is not modelled.

`ConsolidationRegistry` calls them as `main_sender` means to: at most one update
per step, a measurement only in the first step of a period, after its update.
Steps may be skipped at will, and with them measurements: an entry is then erased by
the second of two measurements that are further apart, with whatever a period between
them held unreported. `ErasedIsIdle` is about the two periods those measurements
report (history: `measured`, `before`), as the code can know of no other.

### SendLoop

Time is in ticks, `StepTicks` to a step and `Multiple` steps to a minute.
The loop's calls are actions in the order of the code (`Wake`, `Measure`,
`UpdateRegistries`, `CheckWindow`, `TakeTimestamp`, `SendToMain`,
`SendSubsAndWait`); a flush is the same sequence without the window test, ending
in `EndFlush`, which advances the clock (`offset`) after the first flush. `Stop`
sets `should_run_` and notifies, `Join` is the end of the thread. Updates
(`Record`) happen at any moment. Time may pass between any two calls of a run or a
flush, each of which reads the clock for itself: `MaxBusy` bounds how much in all, and
`Slack` how late a wait may end. The POST of `send_to_main` blocks; the time it takes
is what passes before the next call, `"subs"`. History: `skipped` remembers whether a
step ended in which the loop had begun no run, `torn` before which calls a step ended
inside a run or a flush, `recorded` what the application recorded, per frequency,
meter and period of the frequency, against which batches are compared.

A run is *torn* if a step ends inside it. The code does nothing about that, and much
goes wrong then: values measured before the boundary are consolidated as those of the
step after it, and again by the next run if that still is in the same step; the window
test that passes after the boundary passes once more in the next run; what
`send_subscriptions` measures after a long POST is another interval. The properties
therefore say which tears they hold for. `Whole` is: none, but during the POST to main.
`PromptSenderSendsEveryMinute`, `BatchesAreExact`, `NothingIsInflated` (its part about
main) and `ResentBatchesAgree` need it; what is said of subscriptions needs `torn = {}`;
`SentValuesStay` needs only that no step ends between `send_to_main`'s timestamp and
its measurements. `StopReturns` needs nothing.

No wait ends early. `cv.wait_for` has no predicate, so that a spurious wake-up is a
run in the step of the last one: with such a step added, `NothingIsInflated` fails. It
is listed under "findings" and excluded here, so that the properties say what the loop
does otherwise.

### SubscriptionRefresh, Client

A document of the server is its place in `Docs`; so is its ETag, and so is what
`subscriptions_` holds of it for each frequency. `Request`, `Receive`,
`Install`, `EndInstall` are `refresh_subscriptions`: the array is moved element
by element, and the tag is stored before the body is parsed. `ParseThrows` is the
exception that ends an installation. `Serve` is an answer of the server, `Fail`
everything else: an error with any tag (`ErrorTag` is one that is no
document's) or none, or an answer that breaks off, perhaps after its headers; `Publish`
changes the document.

`conditional_get` stores the tag of every complete answer before anybody looks at its
status or its body. An error that carries the document's tag, or an exception while the
document is installed, therefore makes the server confirm with 304 subscriptions that
the client does not have. Both are in the model and under "findings"; the history
variable `stale` remembers them until the next installation, and `InstalledIsTagged` and
`SubscriptionsConverge` say what holds when neither has happened: errors without a tag,
errors with another, and broken answers do no harm.

`Client` adds the three threads (`cfgThread`, `refresher`, `sender`: each
a loop of a check, its work and a wait) and the application in `Start` and
`Stop` (`caller`), statement by statement where another thread may see the
difference: `Start`, `ReadGlobalInStart`, `ReadLocalInStart`,
`InstallConfigInStart`, `StartThreads`; `Stop`, `JoinSender`, `JoinRefresher`,
`Flush`, `JoinConfig`.
A wait ends at any moment, since it is a `wait_for` whose notification may come,
be lost or not be needed. A run of the sender and a flush are one state each,
in which they use curl; what they compute is in `SendLoop`. Of the
configuration there are the switch of the subscriptions and the common tags. It is
read from two files, the local one over the global one, in two steps
(`ReadGlobal`, `ReadLocal`) between which either may change; a third file, whose
presence disables the client, is looked up at every use. One application thread starts and stops the client, others add tags. `Push` before
`Start` is not modelled.

### Publisher

`Begin` is a call of `PushMeasurements` (serial or parallel, as the
configuration says at that moment) or `SendSubscriptions` with any of `Lists`. A
serial batch is built (`SendBatch`), which already counts it, and ends
(`EndPost`); the parallel ones are all built (`BuildBatch`), handed to curl
(`PostBatches`), end in any order (`EndTransfer`) and are counted when
`perform_all` returns (`CountBatches`), early if curl fails. NaNs are part of
`total`, of nothing else. Whether the back end received a batch whose
transfer failed is open. Variables under *History* exist for the properties only.

### Query, Evaluation, Interpreter, QueryIndex

A query is a record of its `QueryType` and parts, a set of tags a function, the
stack a sequence of expressions. `Interpreter` reads one token in a step
(`Token`, over the words of `vocabulary.cc`, each with the guards in its order:
too few operands, an operand of another type, a literal that is no number).
Running every program up to a length is running every sequence of steps. A word
that fails leaves its operands off the stack; one that throws ends the program
(the functions above it are `noexcept`). `meant` is history: with each query on
the stack the sets of tags it should match, computed from its operands' with the
connectives alone, so that what `not_q`, `and_q` and `or_q` simplify can be told
from what was written.

Characters are abstracted: the strings are a sequence in the order of `strcmp`
(`Lexicon`), what `std::stod` accepts and what a pattern matches are constants
(`Numbers`, `RegexMatch`), and programs are sequences of tokens, not text.
`SplitLimit` is 5 in the code: an `:in` of fewer values becomes `:eq`s. It is 3
here and lists have up to 3 items, so that both sides of it are reached. An average is a
quotient kept as a pair, other values are integers or NaN. The cache of parsed
expressions has no influence on a result and is left out.

### LongTaskTimer, MonotonicCounter, MaxGauge, Timer

One step is one access to shared state: a critical section of the long task
timer's mutex (`Stop` has two), a load or store of `value_` and `last_updated_`
in `MonotonicCounter::Set` and of the local maximum in `MaxGauge`, an update or
a poll of one of a timer's four step buckets. Buckets are used as
atomic here, which is what `ImplementsStepBucket` shows when no boundary falls
inside a roll. History variables say whether calls overlapped, what the readings
rose, when each record went into each statistic.

### Validation, PercentileBuckets, BucketFunctions

`Validation` tells strings apart by length, namespace and whether encoding
changes them; tags are added one at a time and both verdicts compared on each
set. `PercentileBuckets` builds the table as the generator does, for integers of
`Width` bits: the recurrence from one power of four to the next and the overflow
at the last are those of 64. `BucketFunctions` gives a label as number, padding
and unit; `Latency` and `LatencyBiasSlow` are `Age` and `AgeBiasOld` with other
names at the edges.

## 3. Runs

| Run | Instance | Shows |
|---|---|---|
| `step_long` | 2 threads, amounts {1,2}, 2 updates, steps 0..2, clock may be set back | `RollsAreDisjoint`, `CountedOnce`, `ValuesMatch`, `NothingDroppedWhenPolled` |
| `step_prompt` | 3 threads, `UpdateCurrentMax`, rolls inside a step | `AttributedWithinOneStep`, `ImplementsBucket` (refinement of `StepBucket`) |
| `registry` | 2 threads, 1 id, 2 classes, 3 meters, 3 ticks past the expiry time | `HeldStaysRegistered`, `OneMeterPerId`, `IdleMetersAreDropped` |
| `consolidation` | a counter and a gauge, 2 steps per period, 4 periods | `ReportsEndedPeriod`, `ErasedIsIdle` |
| `send_loop` | a counter and one update, 2 ticks per step, 3 steps per minute, frequencies of 1 and 2 steps, any start phase; waits a tick late, one tick inside any run or flush; a stop and a restart | `PromptSenderSendsEveryMinute`, `BatchesAreExact`, `SubBatchesAreExact`, `NothingIsInflated`, `SentValuesStay`, `ResentBatchesAgree`, `StopReturns` |
| `client` | frequencies {1,2}, two documents, the second unreadable; the global file silent or on, the local silent or off, the one that disables absent or present, 1 edit; 2 starts, 1 tag | `InstalledIsTagged`, `FlushIsAlone`, `CurlIsUp`, `TagsStay`, `ConfigConverges`, `SubscriptionsConverge`, `CallsReturn` |
| `publisher` | 2 threads, 2 calls, batches of 2, lists of up to 4 | `Accounted`, `PostedOnce`, `CountsAreHonest`, `PublishReturns` |
| `interpreter` | five vocabularies, lists of up to three items, programs of up to 13 tokens, two strings, six measurements | `QueriesMeanWhatIsWritten`, `IndexFindsWhatMatches`, `GroupsAreOfTheSelected`, `RulesGetAllTheyWant` |
| `meters` | one of seven components a behaviour: 2 threads each, 2 tasks, 4 sets, 4 updates, 3 records; 7 keys and 5 values about the limits; 8-bit integers, 2 values; maxima about every formatter's limit | `StopsAreFinal`, `CountsOnlyRises`, `LocalMaxIsKept`, `StatisticsAgree`, `VerdictsAgree`, `EstimateIsNear`, `BucketsAreToldApart` |

The following runs end in a violation: what the code does is not what a comment
says.

| Run | Property | Comment |
|---|---|---|
| `minute_missed` | `EveryMinuteIsSent` | `meter/subscription_manager.cc:85` |
| `stop_partial` | `StopSendsPartialIncrements` | `meter/subscription_manager.cc:274` |
| `subs_lost` | `EverySubBatchIsExact` | `meter/consolidation_registry.cc:84-85` |

Other disagreements between code and comments that came up while modelling have
no run of their own: they are listed under "findings" in `PROJECT.json`, each
with its line. Some are local to one line (`util/http.cc:389`,
`util/logger.cc:147`); of others the modules here are the model (the second
answer of two overlapping `Stop`s, the value just below a power of four, the
words that throw), and the properties are stated for what the code does.

No run checks types: where a variable could leave its type, `TypeCorrect` is a
theorem.

Why the bounds are enough. In a bucket the interesting cases are a roller
stalled while another rolls the next step (two threads, three steps), a loser of
the CAS adding in the middle (two updates), and a gap (three steps again); three
threads add a second competitor in the CAS loop. In the registry one id and two
classes already give sharing, rejection, expiry of a held meter and re-creation;
three objects let an expired meter be replaced twice. Four periods let an entry
be created, measured, marked, revived, marked and erased. In the loop, minutes of
three steps have a first, a last and another, and with two ticks to a step a run is in
any phase of each; the bound on time leaves one complete minute after the one the
client started in, its sending, a stop with its flushes and a restart. One tick of
lateness in every wait makes the sender drift from step to step. One tick inside a run
puts a boundary between any two of its calls, or between those of a flush, which is
enough for each violation the premises exclude: an update reported twice, a minute sent
twice, a subscription measured for another interval after a long POST. One update suffices to see it
twice, elsewhere or not at all; sums and maxima of several are in `consolidation` and in
the theorems.
Two documents, the second without the frequencies of the first (it cannot be read), let
the client lose its subscriptions, keep those of the first when an answer breaks off
or an installation ends in an exception, and come late to a change; errors have the
tag of either, another or none. Two starts show what the first leaves behind. Lists of up to four with batches of
two have none, one, a partial and a full last batch, and batches without a valid
measurement; a second call, from the other thread or the same, meets counters and
buffers that are in use or left over.

Of the interpreter's vocabularies the first has every word, to reach all ways to
fail or throw; the second makes queries of every shape over comparisons and
connectives; the third products of sums, which need 13 tokens before the normal
form distributes; the fourth `:in` of one to three values, negated or not; the
fifth groupings. Two strings suffice as
one is `name`, which every measurement has, and one a key that some have; the
values 1, 2, 4, ... tell every sum apart. Two overlapping calls are what each of the
small meters is exposed to; four give one before and one after. Eight bits have
all the table's transitions: three groups, the last cut off by the overflow. Two
values give every pair of buckets, equal ones included.

What the runs of the loop show together. The design is right on its intended
schedule: of a sender with a run in every step, none of them torn, every batch is exact,
for main and for the frequencies below the minute. Skipped steps, which a loop whose
waits always end late has sooner or later, lose whole minutes (`minute_missed`) and what
was recorded in them, but add nothing (`NothingIsInflated`, whatever was skipped). Torn
runs, which the same drift brings about, do add: an increment may be sent twice and a
minute sent again, under the same timestamp (`SentValuesStay` says that the second batch
repeats what the first had, and may have more). For the frequency of a whole minute an
entry may be erased while its open period holds data, because its turn does not come at
the period's first step (`subs_lost`). And a stop loses the step under way
(`stop_partial`).

### Fairness

`registry`: the sender thread keeps running `measurements`
(`WF(Measurements)`); nothing is assumed of application threads. `send_loop`:
time passes and the sender, then the thread in `Stop`, are scheduled
(`WF(Tick)`, `WF(Run)`). Ticks end at the bound, so `Stop` is only modelled while
one step's time is left, the longest a lost notification can delay it. `client`:
weak fairness of each thread and of the application inside a call
(scheduling; every wait and every transfer has a timeout), and strong fairness of
`Serve`: a server that is asked again and again answers some time. Nothing is
assumed of edits, tags, starts and stops; convergence is conditional on the
client staying started. `publisher`: weak fairness of each thread; the transfers
end because curl's connect and read timeouts are set. No run
assumes anything of the order in which threads are scheduled. `meters` and
`interpreter` check safety only and assume nothing.

Runs of `AtlasRegistry`, `ConsolidationRegistry`, `SendLoop`, `Publisher`,
`Interpreter` and the small meters allow deadlock: when the bounds on time,
meters, updates, calls and tokens are reached nothing more can happen.

## 4. Proofs

For every value of the constants, under the named assumptions of each module and the
hypotheses that are part of a theorem:

- `StepNumberProofs`: `TypeCorrect`; `RollsDisjoint` (`RollInv`: a roller owns
  the steps after its `lastInit` up to its `stepTime`, and `last_init_pos` is
  already past them, so the next CAS hands out later ones); `PolledLosesNothing`
  (`PolledInv`: while no step was skipped the clock is at most one step past
  `last_init_pos`, so a winner of the CAS moves it by exactly one);
  `UpdatesCountedOnce` (`PlaceInv`: each update lands under a number of its own
  that was nowhere before, and only a thread between exchange and store holds a
  batch).
  `NumbersAreOfTheUpdates` (`ValuesInv`: each place holds the sum, or the maximum, of
  the updates its history names; a loser of a CAS has changed nothing, and a winner
  writes what it loaded merged with its own amount).
  With `PromptRolls` and a clock that is not set back, both of them hypotheses:
  `ImplementsStepBucket` (`PromptInv` shows that then there is one roller at most;
  the mapping lets the roll take effect at its exchange), and `Attribution` (an update
  landed in a step of its call, and what `previous_` holds landed in the step it is
  published for or the one after).
- `AtlasRegistryProofs`: `TypeCorrect`, `HeldMetersStayRegistered`,
  `MetersAreShared`.
- `ConsolidationProofs`: `TypeCorrect`, `ReportsAreExact`, `ErasesOnlyIdle`, from
  one inductive invariant that relates every entry's bucket to what was fed to it and
  every mark to the last measurement (`Invariance`; `MarkInv`: nothing was fed in the
  period that the measurement which left the mark reported), and lemmas on integer
  division by the multiple.
- `SendLoopProofs`: `TypeCorrect`, `NotInflated`, `PromptSends`, `BatchesExact`,
  `SubBatchesExact`, `ResentAgree` and `SentStay`, for any time that passes in a run or a
  flush (`MaxBusy`), any lateness of the waits (`Slack`), any frequencies, counters and
  gauges together, and any number of steps; which tears each supposes not to have
  happened is part of its property (section 2). All but `TypeCorrect` and `ResentAgree`
  are about a client that has not been stopped. The inductive invariant of
  `NotInflated` and the three after it is `LoopInv`, which holds while runs are `Whole`.
  `ClockInv` says where the loop is in time: in an untorn run every call reads the step of
  its start, and a sender that skips no step wakes up in the step after its last run.
  `MainInv` and `SubsInv` are the
  balance of the pipeline: for each meter and each period of a frequency, what the
  store holds (`Held`) merged with what is still in the meter's bucket or in the
  measurements just taken (`UnderWay`) is at most what was recorded, and equal to it
  if no step was skipped and the period can still be sent. Each call moves a
  value from one of these places to the next, or drops it where only a skipped step
  would have left one (`Flow`, `HandedOver`, `MainMeasured`, `SubsMeasured`). At the
  moment of sending nothing of the ended period is under way (`NothingUnderWay`), and
  what was recorded in it does not change afterwards (`EndedPeriod`). That a
  frequency of half a minute or less never has a period dropped that it will report
  is arithmetic on its turns, which are `Multiple` steps apart (`TurnsApart`,
  `IntervalsApart`). `ResentAgree` goes past the stop: `ResendInv` says, for each place
  in `Stop` and its two flushes, which minute was sent last and that the store still
  holds for it what the batch had, since the clock moves forward only between the
  flushes. `SentStay` (`StayInv`) supposes much less, and so cannot know what the store
  holds otherwise: only that what was sent of a minute stays in the store as the last
  completed period until the next minute is over, since neither updates nor
  measurements change or erase it.
- `ClientProofs`: `TypeCorrect`; `FlushesAlone` and `TransfersWithCurl` (`LifeInv`:
  where the caller is determines which threads may exist, and a started client has
  curl up);
  `TagNamesSubscriptions` (`RefreshInv`: the tag of a document is stored together with
  the decision to install it, or `stale` is set, and the frequencies already moved hold
  it);
  `TagsAreKept` (`extra_tags_` only grows and contains the tags in force).
- `PublisherProofs`: `TypeCorrect`; `MeasurementsPostedOnce` (`Posting`: how often a
  measurement was posted follows from where the loop is; a batch is the interval
  that begins there); `MeasurementsAccounted` (`Partition`: the parallel batches
  are disjoint and cover what the loop has passed, so those that succeeded and
  those that did not add up to the list); `HonestCounts` (`Honest`: the counters
  lag behind what was received by what the transfers that have ended hold, and
  `CountBatches` moves just that). `PublisherAssumption` needs a positive
  `BatchSize` and finitely many threads.
- `MeterProofs`: `StopsFinal` (a task is in `tasks_` exactly if it was started and
  no `Stop` has returned its duration; a call that holds a duration holds one of a
  task that was there); `OnlyRisesCounted` (each call's
  locals are readings, and without overlap the last of them);
  `MaximumIsKept`; `StatisticsOfOneInterval` (where each record is follows from the
  step in which it went in and the step to which the bucket is rolled, so two
  statistics polled in one step differ only by records of a boundary). Readings and
  gauge values are integers, the bounds natural numbers
  (`ReadingsAreIntegers`, `GaugeValuesAreIntegers`, `LongTaskAssumption`,
  `TimerAssumption`).
  `Verdicts`: `AreTagsValid` holds if and only if `AnalyzeTags`
  has no error, for any strings, namespaces and limits (`ValidationAssumption`:
  lengths and limits are natural numbers); tags stay functions with finitely many
  keys, which the count of user tags needs.
  `ToldApart`: the labels of every bucket function and any amounts, for every max from four
  up that its tables are for (`BucketFunctionAssumption`), except `Decimal`'s from a
  thousand to eight of its unit, for which the code merges buckets (a finding). The tables have the property needed of
  them (`Tables`): no formatter is for more digits than its width, and what is too large
  for the last formatter of a unit is at least eight of the next (`UnitsJoin`; not so
  for decimals, which is why the property supposes it of them). So two different
  boundaries, an eighth of the max apart or more (`BoundariesRise`), differ by a unit
  and have different numbers of it (`WholeUnits`).
  `EstimatesAreNear`, for integers of any even width from 6 (`PercentileAssumption`;
  percentages from 1 to 100) and any values recorded: the table is followed group by group
  (`BucketsRise`, `GroupPositions`), the last group being empty because its limit
  overflows (`LastGroupIsEmpty`); a value's index is at most one too high (`IndexNear`)
  and rises with the value (`IndexRises`). So the values of lower index have a lower rank,
  and those up to the ranked value are counted up to its bucket, which makes it the bucket
  `Percentiles` stops at (`BucketOfRank`); the estimate is an interpolation inside it. The
  inductive invariant `PercentileIInv` says that each counter is the number of values
  recorded in its bucket.
- `InterpreterProofs`, for any lexicon, patterns, vocabularies and programs, any
  finite set of measurements and any common tags. `InterpreterInv(B)` is the
  inductive invariant: every query on the stack is nested no deeper than tokens were
  read, hence in `QuerySet`, and matches exactly what `meant` says.
  `TypeCorrect` and `SimplifiedQueriesMean` are its parts; a `:not`, `:and` or `:or`
  that simplifies or swaps its operands is compared with the connective itself
  (lemmas on `Matches` of each constructor).
  `RulesLoseNothing`: an expression evaluates alike over all measurements and over those
  its query picks. `GroupsSelectFirst`: the groups `:by`, `:keep-tags` and `:drop-tags`
  form are a partition of what was selected, by the tags kept.
  `IndexFindsExactly` follows a query through the index: `DnfList` is a disjunction of it,
  `Split` of each of its members, `ConjunctionList` a conjunction of each of those;
  `Annotate` divides that between filters and remainder; and a walk of the tree reaches
  an entry if and only if the tags have all of its filters.

  Queries are nested, and what is computed from them is recursive. The proofs go level
  by level along `QueriesUpTo`: induction over natural numbers is stated for a set
  (`Induction`, from the well-foundedness of `<`), not for a formula, and the recursive
  functions are shown to satisfy their equations first, on each level
  (`LevelsExist` and its like). Normal form and splitting lengthen queries: those of a
  query nested `B` deep are conjunctions of up to `2^B` members. `MaxDepth` bounds the set
  `QuerySet` that the model's recursive functions have as domain and nothing in the
  code, so the theorem supposes `B + 2^B <= MaxDepth` where `B` bounds the vocabularies'
  programs. (The run has programs of up to 13 tokens and `MaxDepth = 13`, which
  suffices for the queries that occur in it but is not what the theorem supposes; a set
  that large is no domain for TLC.)
  `InterpreterAssumption` says that `Lexicon`, which has strings in the order of
  `strcmp`, is a sequence of strings, so that there are finitely many, and that the words
  of the language are strings.

Only model-checked: liveness (`IdleMetersAreDropped`, `StopReturns`,
`ConfigConverges`, `SubscriptionsConverge`, `CallsReturn`, `PublishReturns`), which is out of the
provers' reach.

## 5. Not modelled

See the components in `PROJECT.json`. Most of the repository's lines are vendored
(`3rd-party`: gtest, benchmark, fmt, spdlog, rapidjson, curl, pcre, ska) and no part of the
client's logic; what the client uses of them is modelled where it is used. Of its own code, in `meter`,
`interpreter`, `util` and the top level:

- Transport (`util/http.cc` as far as it sets up libcurl, `gzip.cc`), logging,
  interning, hashing, the environment and formatting have no protocol of their own.
- `default_gauge` (an atomic store and a load) and `function_gauge` (a call of the
  application's function through a weak pointer) have one access to shared state
  each; `interval_counter` is a counter, and a function gauge over the time of its
  last update. That the counters of percentile
  and bucket meters are assigned lazily without a lock is a data race on pointers;
  it is listed as a hazard of the registry's sharing and not modelled.
- The tables of valid characters, the demo program and the benchmarks.

Relaxed memory order beyond interleaving is not modelled. A `batch_size` of 0,
with which the publisher's loops never end, is excluded by assumption and listed
as a hazard. A subscription document with missing or ill-typed members, on which
rapidjson asserts, is not modelled. Of the configuration, the URLs, the
intervals, the timeouts and the switches of main and of validation are constant. Of the
bucket functions, formatters beyond what an integer of TLC holds, and with them
the undefined shifts for tebibytes (listed under "findings").

## 6. What is left

All components with state of their own are modelled. What could be added:

1. A bound on what torn runs add: `NothingIsInflated` says nothing of a sender that had
   one, and `SentValuesStay` only that its batches for one minute do not contradict each
   other.
2. The interpreter over text instead of tokens, to model where a comma or a
   parenthesis inside a string splits a program.
