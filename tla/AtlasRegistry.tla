---------------------------- MODULE AtlasRegistry ----------------------------
(***************************************************************************)
(* meter/atlas_registry.{h,cc}: the registry of meters.  Application       *)
(* threads obtain handles (shared_ptr) to the meter registered for an id,  *)
(* creating it if needed; the sender thread repeatedly copies the set of   *)
(* meters, measures those that have not expired and erases the expired     *)
(* ones nobody holds.  The map is guarded by meters_mutex in               *)
(* insert_if_needed and expire_meters, but meters() copies it without the  *)
(* lock, one entry at a time.                                              *)
(*                                                                         *)
(* A meter is a number, its index in objs; the values it accumulates are   *)
(* the subject of StepNumber.                                              *)
(***************************************************************************)
EXTENDS Integers, Sequences, FiniteSets

CONSTANTS
  Ids,         \* the ids meters are created with
  MeterTypes,  \* the kinds of meter the application asks for
  Threads,     \* application threads
  MaxIdle,     \* MAX_IDLE_TIME
  MaxTime,     \* bound: the last wall-clock value
  MaxMeters    \* bound: the number of meter objects created

ASSUME RegistryAssumption ==
  /\ MeterTypes \subseteq {"counter", "dcounter", "timer", "gauge", "max_gauge",
                           "distribution_summary", "ddistribution_summary"}
  /\ IsFiniteSet(Ids)
  /\ MaxIdle \in Nat /\ MaxTime \in Nat /\ MaxMeters \in Nat

VARIABLES
  now,        \* clock_->WallTime()
  objs,       \* the meter objects created so far: id, type, last_updated_
  meters,     \* meters_: the meter registered for each id, or NoMeter
  handles,    \* the handles each thread holds: a meter and the type it has it as
  fresh,      \* the meter a thread has created and not yet registered
  isolated,   \* meters handed out without being registered
  sender,     \* what the sender thread is doing in measurements()
  toCopy,     \* ids meters() has still to visit
  copy,       \* all_meters
  toMeasure,  \* the meters of all_meters not yet looked at
  expired     \* the count of expired_meters

senderVars == <<sender, toCopy, copy, toMeasure>>
vars == <<now, objs, meters, handles, fresh, isolated, senderVars, expired>>

NoMeter == 0

\* GetClass(): the name that create_and_register_as_needed compares.
GetClass(type) ==
  CASE type \in {"counter", "dcounter"} -> "DefaultCounter"
    [] type \in {"distribution_summary", "ddistribution_summary"} ->
         "DefaultDistributionSummary"
    [] type = "timer" -> "DefaultTimer"
    [] type = "gauge" -> "DefaultGauge"
    [] type = "max_gauge" -> "DefaultMaxGauge"

HasExpired(o) == now - objs[o].lastUpdated > MaxIdle

Registered == {meters[i] : i \in Ids} \ {NoMeter}

\* The meters some thread has a shared_ptr to.
Held == (UNION {{h.meter : h \in handles[t]} : t \in Threads})
          \cup {fresh[t] : t \in Threads}

\* DefaultGauge does not call Updated() in its constructor.
InitialUpdate(type) == IF type = "gauge" THEN 0 ELSE now

\* The wall clock starts far from the epoch.
Init ==
  /\ now = MaxIdle + 1
  /\ objs = <<>>
  /\ meters = [i \in Ids |-> NoMeter]
  /\ handles = [t \in Threads |-> {}]
  /\ fresh = [t \in Threads |-> NoMeter]
  /\ isolated = {}
  /\ sender = "idle" /\ toCopy = {} /\ copy = {} /\ toMeasure = {}
  /\ expired = 0

Tick ==
  /\ now < MaxTime
  /\ now' = now + 1
  /\ UNCHANGED <<objs, meters, handles, fresh, isolated, senderVars, expired>>

-----------------------------------------------------------------------------
(* Application threads *)

\* make_shared<M>, before the lock is taken.
CreateMeter(t, i, type) ==
  /\ fresh[t] = NoMeter
  /\ Len(objs) < MaxMeters
  /\ objs' = Append(objs, [id |-> i, type |-> type,
                           lastUpdated |-> InitialUpdate(type)])
  /\ fresh' = [fresh EXCEPT ![t] = Len(objs) + 1]
  /\ UNCHANGED <<now, meters, handles, isolated, senderVars, expired>>

Hand(t, o, type) ==
  handles' = [handles EXCEPT ![t] = @ \cup {[meter |-> o, type |-> type]}]

\* Mutant: the new meter replaces the registered one.
InsertAlways(t) ==
  /\ fresh[t] # NoMeter
  /\ meters' = [meters EXCEPT ![objs[fresh[t]].id] = fresh[t]]
  /\ Hand(t, fresh[t], objs[fresh[t]].type)
  /\ fresh' = [fresh EXCEPT ![t] = NoMeter]
  /\ UNCHANGED <<now, objs, isolated, senderVars, expired>>

\* insert_if_needed, and the comparison of the classes.
InsertIfNeeded(t) ==
  /\ fresh[t] # NoMeter
  /\ LET new == objs[fresh[t]]
         old == meters[new.id]
     IN  \/ /\ old = NoMeter
            /\ meters' = [meters EXCEPT ![new.id] = fresh[t]]
            /\ Hand(t, fresh[t], new.type)
            /\ UNCHANGED isolated
         \/ /\ old # NoMeter
            /\ GetClass(objs[old].type) = GetClass(new.type)
            /\ Hand(t, old, new.type)
            /\ UNCHANGED <<meters, isolated>>
         \/ /\ old # NoMeter
            /\ GetClass(objs[old].type) # GetClass(new.type)
            /\ Hand(t, fresh[t], new.type)
            /\ isolated' = isolated \cup {fresh[t]}
            /\ UNCHANGED meters
  /\ fresh' = [fresh EXCEPT ![t] = NoMeter]
  /\ UNCHANGED <<now, objs, senderVars, expired>>

\* Any recording method of a held meter ends in Updated().
Updated(t) ==
  /\ \E h \in handles[t] :
       objs' = [objs EXCEPT ![h.meter].lastUpdated = now]
  /\ UNCHANGED <<now, meters, handles, fresh, isolated, senderVars, expired>>

Release(t) ==
  /\ \E h \in handles[t] : handles' = [handles EXCEPT ![t] = @ \ {h}]
  /\ UNCHANGED <<now, objs, meters, fresh, isolated, senderVars, expired>>

-----------------------------------------------------------------------------
(* measurements(), on the sender thread *)

BeginMeasurements ==
  /\ sender = "idle"
  /\ sender' = "copy"
  /\ toCopy' = Ids
  /\ UNCHANGED <<now, objs, meters, handles, fresh, isolated, copy, toMeasure,
                 expired>>

\* meters(): one entry of the map at a time, without meters_mutex.
CopyEntry ==
  /\ sender = "copy"
  /\ \E i \in toCopy :
       /\ toCopy' = toCopy \ {i}
       /\ copy' = copy \cup ({meters[i]} \ {NoMeter})
  /\ UNCHANGED <<now, objs, meters, handles, fresh, isolated, sender, toMeasure,
                 expired>>

EndCopy ==
  /\ sender = "copy" /\ toCopy = {}
  /\ sender' = "measure"
  /\ toMeasure' = copy
  /\ UNCHANGED <<now, objs, meters, handles, fresh, isolated, toCopy, copy,
                 expired>>

\* One iteration of the loop over all_meters.
MeasureMeter ==
  /\ sender = "measure"
  /\ \E o \in toMeasure : toMeasure' = toMeasure \ {o}
  /\ UNCHANGED <<now, objs, meters, handles, fresh, isolated, sender, toCopy, copy,
                 expired>>

\* Mutant: the comment's advice ignored, all_meters outlives expire_meters.
DestroyCopyLate ==
  /\ sender = "measure" /\ toMeasure = {}
  /\ sender' = "expire"
  /\ UNCHANGED <<now, objs, meters, handles, fresh, isolated, toCopy, copy,
                 toMeasure, expired>>

\* The end of the block: all_meters is destroyed.
DestroyCopy ==
  /\ sender = "measure" /\ toMeasure = {}
  /\ sender' = "expire"
  /\ copy' = {}
  /\ UNCHANGED <<now, objs, meters, handles, fresh, isolated, toCopy, toMeasure,
                 expired>>

\* Mutant: no look at use_count().
UnsharedUnchecked(o) == o \notin copy

\* use_count() == 1: only meters_ has a reference.
Unshared(o) == o \notin Held \cup copy

ExpireMeters ==
  /\ sender = "expire"
  /\ LET gone == {i \in Ids : /\ meters[i] # NoMeter
                              /\ HasExpired(meters[i])
                              /\ Unshared(meters[i])}
     IN  /\ meters' = [i \in Ids |-> IF i \in gone THEN NoMeter ELSE meters[i]]
         /\ expired' = expired + Cardinality(gone)
  /\ sender' = "idle"
  /\ UNCHANGED <<now, objs, handles, fresh, isolated, toCopy, copy, toMeasure>>

Measurements ==
  \/ BeginMeasurements \/ CopyEntry \/ EndCopy
  \/ MeasureMeter \/ DestroyCopy \/ ExpireMeters

-----------------------------------------------------------------------------
Next ==
  \/ Tick
  \/ \E t \in Threads :
       \/ \E i \in Ids, type \in MeterTypes : CreateMeter(t, i, type)
       \/ InsertIfNeeded(t)
       \/ Updated(t)
       \/ Release(t)
  \/ Measurements

Spec == Init /\ [][Next]_vars

\* The sender thread calls measurements() again and again.
FairSpec == Spec /\ WF_vars(Measurements)

-----------------------------------------------------------------------------
(* Properties *)

Meters == 1..Len(objs)

\* Every variable keeps its type.
TypeOK ==
  /\ now \in Nat
  /\ objs \in Seq([id : Ids, type : MeterTypes, lastUpdated : Nat])
  /\ meters \in [Ids -> Meters \cup {NoMeter}]
  /\ handles \in [Threads -> SUBSET [meter : Meters, type : MeterTypes]]
  /\ fresh \in [Threads -> Meters \cup {NoMeter}]
  /\ isolated \subseteq Meters
  /\ sender \in {"idle", "copy", "measure", "expire"}
  /\ toCopy \subseteq Ids /\ copy \subseteq Meters /\ toMeasure \subseteq Meters
  /\ expired \in Nat

\* A meter that a thread obtained from the registry stays registered under its
\* id for as long as the thread holds it, however long it is idle: its updates
\* are never made to an object that is no longer measured.
HeldStaysRegistered ==
  \A t \in Threads : \A h \in handles[t] :
    h.meter \notin isolated => meters[objs[h.meter].id] = h.meter

\* Two threads asking for the same id and class share one meter, so that their
\* updates add up (unless one was turned away with an isolated object).
OneMeterPerId ==
  \A s, t \in Threads : \A g \in handles[s], h \in handles[t] :
    /\ objs[g.meter].id = objs[h.meter].id
    /\ {g.meter, h.meter} \cap isolated = {}
    => g.meter = h.meter

\* An idle meter nobody holds is eventually dropped from the registry, unless
\* a thread takes hold of it again.
IdleMetersAreDropped ==
  \A o \in 1..MaxMeters :
    (o \in Registered /\ o \notin Held /\ HasExpired(o))
      ~> (o \notin Registered \/ o \in Held)

=============================================================================
