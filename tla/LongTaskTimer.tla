---------------------------- MODULE LongTaskTimer ----------------------------
(***************************************************************************)
(* meter/default_long_task_timer.{h,cc}: the tasks that were started and   *)
(* not yet stopped.  Stop takes the lock twice, once inside Duration and   *)
(* once to erase, so it is two steps here; the other calls are one each.   *)
(***************************************************************************)
EXTENDS Integers

CONSTANTS
  Stoppers,     \* the threads that stop tasks
  MaxTasks,     \* bound on the tasks started
  LastInstant   \* bound on the monotonic clock

ASSUME LongTaskAssumption == MaxTasks \in Nat /\ LastInstant \in Nat

VARIABLES
  instant,   \* Clock::MonotonicTime
  next_,     \* the id of the next task
  tasks_,    \* the start time of each running task
  stopping,  \* for each thread the call of Stop it is in, or the last one's answer
  stopped    \* history: the tasks for which a Stop has returned a duration

longTaskVars == <<instant, next_, tasks_, stopping, stopped>>

TaskIds == 0 .. MaxTasks   \* one more than are started: an id nobody was given

\* History in a call: late, the task's Stop had returned when this call began.
Calls == [pc : {"idle", "erase"}, task : TaskIds, d : {-1} \cup 0 .. LastInstant,
          late : BOOLEAN]

\* DefaultLongTaskTimer::Duration
Duration(task) == IF task \in DOMAIN tasks_ THEN instant - tasks_[task] ELSE -1

LongTaskInit ==
  /\ instant = 0
  /\ next_ = 0
  /\ tasks_ = [task \in {} |-> 0]
  /\ stopping = [t \in Stoppers |-> [pc |-> "idle", task |-> 0, d |-> -1, late |-> FALSE]]
  /\ stopped = {}

PassTime ==
  /\ instant < LastInstant
  /\ instant' = instant + 1
  /\ UNCHANGED <<next_, tasks_, stopping, stopped>>

Start ==
  /\ next_ < MaxTasks
  /\ next_' = next_ + 1
  /\ tasks_' = [task \in DOMAIN tasks_ \cup {next_} |->
                  IF task = next_ THEN instant ELSE tasks_[task]]
  /\ UNCHANGED <<instant, stopping, stopped>>

\* Stop, as far as the end of Duration's critical section.
BeginStop(t, task) ==
  /\ stopping[t].pc = "idle"
  /\ stopping' = [stopping EXCEPT ![t] =
       [pc |-> "erase", task |-> task, d |-> Duration(task), late |-> task \in stopped]]
  /\ UNCHANGED <<instant, next_, tasks_, stopped>>

\* Mutant: a task that took no time is answered and left running.
EraseTaskPositive(t) ==
  LET call == stopping[t] IN
  /\ call.pc = "erase"
  /\ tasks_' = [task \in DOMAIN tasks_ \ {x \in {call.task} : call.d > 0} |-> tasks_[task]]
  /\ stopped' = stopped \cup {x \in {call.task} : call.d >= 0}
  /\ stopping' = [stopping EXCEPT ![t].pc = "idle"]
  /\ UNCHANGED <<instant, next_>>

\* Stop, from its own lock to its return.
EraseTask(t) ==
  LET call == stopping[t] IN
  /\ call.pc = "erase"
  /\ IF call.d >= 0
       THEN /\ tasks_' = [task \in DOMAIN tasks_ \ {call.task} |-> tasks_[task]]
            /\ stopped' = stopped \cup {call.task}
       ELSE UNCHANGED <<tasks_, stopped>>
  /\ stopping' = [stopping EXCEPT ![t].pc = "idle"]
  /\ UNCHANGED <<instant, next_>>

LongTaskNext ==
  \/ PassTime \/ Start
  \/ \E t \in Stoppers : EraseTask(t) \/ \E task \in TaskIds : BeginStop(t, task)

LongTaskSpec == LongTaskInit /\ [][LongTaskNext]_longTaskVars

----------------------------------------------------------------------------
(* Properties *)

\* However calls of Stop overlap, a task is there from its start until a Stop
\* returns its duration and never after: no Stop erases another task, none
\* leaves the task it answered for running, and a Stop that begins after one
\* has returned is told -1.
StopsAreFinal ==
  /\ DOMAIN tasks_ = (0 .. next_ - 1) \ stopped
  /\ \A t \in Stoppers : stopping[t].late => stopping[t].d = -1

=============================================================================
