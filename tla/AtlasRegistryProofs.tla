------------------------- MODULE AtlasRegistryProofs -------------------------
(***************************************************************************)
(* For every set of ids, threads and meter types, and every bound: a meter *)
(* obtained from the registry stays registered while it is held, whence    *)
(* threads that ask for the same id and class share one meter.             *)
(***************************************************************************)
EXTENDS AtlasRegistry, FiniteSetTheorems, TLAPS

\* The entry under an id is a meter created with that id.
RegisteredById == \A i \in Ids : meters[i] # NoMeter => objs[meters[i]].id = i

Records == [id : Ids, type : MeterTypes, lastUpdated : Nat]

\* The records of meters, and what TypeOK says of them.
LEMMA MeterRecord ==
  ASSUME TypeOK, NEW m \in Meters
  PROVE  objs[m] \in Records /\ objs[m].id \in Ids /\ objs[m].type \in MeterTypes
<1>1. objs \in Seq(Records)
  BY DEF TypeOK, Records
<1>2. objs[m] \in Records
  BY <1>1 DEF Meters
<1> QED BY <1>2 DEF Records

\* A new meter is in range, and leaves the others as they are.
LEMMA AppendedMeter ==
  ASSUME NEW o \in Records, objs \in Seq(Records)
  PROVE  /\ Append(objs, o) \in Seq(Records)
         /\ Len(Append(objs, o)) = Len(objs) + 1
         /\ Len(objs) \in Nat
         /\ \A m \in 1..Len(objs) : Append(objs, o)[m] = objs[m]
  OBVIOUS

\* An update of a meter changes neither its id nor its type.
LEMMA UpdatedMeter ==
  ASSUME objs \in Seq(Records), NEW m \in Meters, NEW n \in Nat
  PROVE  /\ [objs EXCEPT ![m].lastUpdated = n] \in Seq(Records)
         /\ Len([objs EXCEPT ![m].lastUpdated = n]) = Len(objs)
         /\ \A k \in Meters : [objs EXCEPT ![m].lastUpdated = n][k].id = objs[k].id
<1> DEFINE updated == [objs EXCEPT ![m].lastUpdated = n]
<1>1. objs \in [Meters -> Records] /\ Len(objs) \in Nat
  BY DEF Meters
<1>2. [objs[m] EXCEPT !.lastUpdated = n] \in Records
  BY <1>1 DEF Records
<1>3. updated \in [Meters -> Records]
  BY <1>1, <1>2
<1>4. updated \in Seq(Records) /\ Len(updated) = Len(objs)
  BY <1>1, <1>3 DEF Meters
<1>5. \A k \in Meters : updated[k].id = objs[k].id
  BY <1>1 DEF Records
<1> QED BY <1>4, <1>5

\* TypeOK holds in every reachable state.
THEOREM TypeCorrect == Spec => []TypeOK
<1>1. Init => TypeOK
  BY RegistryAssumption DEF Init, TypeOK, NoMeter, Meters
<1>2. TypeOK /\ [Next]_vars => TypeOK'
  <2> SUFFICES ASSUME TypeOK, [Next]_vars PROVE TypeOK'
    OBVIOUS
  <2> USE DEF TypeOK, Meters, NoMeter
  <2>1. CASE Tick
    BY <2>1 DEF Tick, senderVars
  <2>2. ASSUME NEW t \in Threads, NEW i \in Ids, NEW type \in MeterTypes,
               CreateMeter(t, i, type)
        PROVE  TypeOK'
    <3>1. InitialUpdate(type) \in Nat
      BY DEF InitialUpdate
    <3> DEFINE o == [id |-> i, type |-> type, lastUpdated |-> InitialUpdate(type)]
    <3>2. o \in Records
      BY <3>1 DEF Records
    <3>3. objs \in Seq(Records)
      BY DEF Records
    <3>4. objs' \in Seq(Records) /\ Len(objs') = Len(objs) + 1 /\ Len(objs) \in Nat
      BY <2>2, <3>2, <3>3, AppendedMeter DEF CreateMeter
    <3>5. Meters \subseteq Meters' /\ Len(objs) + 1 \in Meters'
      BY <3>4
    <3> QED
      BY <2>2, <3>4, <3>5 DEF CreateMeter, Records, senderVars
  <2>3. ASSUME NEW t \in Threads, InsertIfNeeded(t) PROVE TypeOK'
    <3>1. fresh[t] \in Meters /\ objs[fresh[t]].id \in Ids
            /\ objs[fresh[t]].type \in MeterTypes
      BY <2>3, MeterRecord DEF InsertIfNeeded
    <3>2. UNCHANGED <<objs, now, sender, toCopy, copy, toMeasure, expired>>
      BY <2>3 DEF InsertIfNeeded, senderVars
    <3>3. \E o \in Meters : Hand(t, o, objs[fresh[t]].type)
      BY <2>3, <3>1 DEF InsertIfNeeded
    <3>4. handles' \in [Threads -> SUBSET [meter : Meters, type : MeterTypes]]
      BY <3>1, <3>3 DEF Hand
    <3>5. meters' \in [Ids -> Meters \cup {NoMeter}] /\ isolated' \subseteq Meters
      BY <2>3, <3>1 DEF InsertIfNeeded
    <3>6. fresh' \in [Threads -> Meters \cup {NoMeter}]
      BY <2>3 DEF InsertIfNeeded
    <3> QED BY <3>2, <3>4, <3>5, <3>6
  <2>4. ASSUME NEW t \in Threads, Updated(t) PROVE TypeOK'
    <3>1. PICK h \in handles[t] : objs' = [objs EXCEPT ![h.meter].lastUpdated = now]
      BY <2>4 DEF Updated
    <3>2. h.meter \in Meters /\ now \in Nat /\ objs \in Seq(Records)
      BY DEF Records
    <3>3. objs' \in Seq(Records) /\ Len(objs') = Len(objs)
      BY <3>1, <3>2, UpdatedMeter
    <3> QED
      BY <2>4, <3>3 DEF Updated, Records, senderVars
  <2>5. ASSUME NEW t \in Threads, Release(t) PROVE TypeOK'
    BY <2>5 DEF Release, senderVars
  <2>6. CASE BeginMeasurements
    BY <2>6 DEF BeginMeasurements
  <2>7. CASE CopyEntry
    BY <2>7 DEF CopyEntry
  <2>8. CASE EndCopy
    BY <2>8 DEF EndCopy
  <2>9. CASE MeasureMeter
    BY <2>9 DEF MeasureMeter
  <2>10. CASE DestroyCopy
    BY <2>10 DEF DestroyCopy
  <2>11. CASE ExpireMeters
    <3> DEFINE gone == {i \in Ids : /\ meters[i] # NoMeter
                                    /\ HasExpired(meters[i])
                                    /\ Unshared(meters[i])}
    <3>1. expired' \in Nat
      <4>1. expired' = expired + Cardinality(gone)
        BY <2>11 DEF ExpireMeters
      <4>2. Cardinality(gone) \in Nat
        BY RegistryAssumption, FS_Subset, FS_CardinalityType, gone \subseteq Ids
      <4> QED BY <4>1, <4>2
    <3> QED BY <2>11, <3>1 DEF ExpireMeters
  <2>12. CASE UNCHANGED vars
    BY <2>12 DEF vars, senderVars
  <2> QED
    BY <2>1, <2>2, <2>3, <2>4, <2>5, <2>6, <2>7, <2>8, <2>9, <2>10, <2>11, <2>12
       DEF Next, Measurements
<1> QED BY <1>1, <1>2, PTL DEF Spec

Inv == TypeOK /\ RegisteredById /\ HeldStaysRegistered

\* What the ids of meters, the entries and the handles are decides Inv.
LEMMA InvStep ==
  ASSUME Inv, TypeOK',
         \A m \in Meters : objs'[m].id = objs[m].id,
         UNCHANGED meters,
         isolated \subseteq isolated',
         \A t \in Threads : handles'[t] \subseteq handles[t]
  PROVE  RegisteredById' /\ HeldStaysRegistered'
<1>1. \A i \in Ids : meters[i] # NoMeter => meters[i] \in Meters
  BY DEF Inv, TypeOK
<1>2. RegisteredById'
  BY <1>1 DEF Inv, RegisteredById
<1>3. \A t \in Threads : \A h \in handles[t] : h.meter \in Meters
  BY DEF Inv, TypeOK
<1>4. HeldStaysRegistered'
  BY <1>3 DEF Inv, HeldStaysRegistered
<1> QED BY <1>2, <1>4

\* A held meter is registered under its id, unless it was handed out isolated.
THEOREM HeldMetersStayRegistered == Spec => []HeldStaysRegistered
<1>1. Init => Inv
  <2>1. Init => RegisteredById /\ HeldStaysRegistered
    BY DEF Init, RegisteredById, HeldStaysRegistered, NoMeter
  <2>2. Init => TypeOK
    BY RegistryAssumption DEF Init, TypeOK, NoMeter, Meters
  <2> QED BY <2>1, <2>2 DEF Inv
<1>2. Inv /\ TypeOK' /\ [Next]_vars => Inv'
  <2> SUFFICES ASSUME Inv, TypeOK', [Next]_vars
               PROVE  RegisteredById' /\ HeldStaysRegistered'
    BY DEF Inv
  <2>1. ASSUME NEW t \in Threads, NEW i \in Ids, NEW type \in MeterTypes,
               CreateMeter(t, i, type)
        PROVE  RegisteredById' /\ HeldStaysRegistered'
    <3>1. PICK o : objs' = Append(objs, o)
      BY <2>1 DEF CreateMeter
    <3>2. \A m \in Meters : objs'[m] = objs[m]
      BY <3>1 DEF Inv, TypeOK, Meters
    <3> QED
      BY <2>1, <3>2, InvStep DEF CreateMeter
  <2>2. ASSUME NEW t \in Threads, InsertIfNeeded(t)
        PROVE  RegisteredById' /\ HeldStaysRegistered'
    <3> DEFINE new == fresh[t]
               id == objs[new].id
               old == meters[id]
    <3>1. new \in Meters /\ objs[new] \in Records /\ UNCHANGED objs /\ id \in Ids
      <4>1. new \in Meters /\ UNCHANGED objs
        BY <2>2 DEF InsertIfNeeded, Inv, TypeOK, NoMeter
      <4> QED BY <4>1, MeterRecord DEF Inv
    <3>2. CASE old = NoMeter
      <4>1. /\ meters' = [meters EXCEPT ![id] = new]
            /\ Hand(t, new, objs[new].type)
            /\ UNCHANGED isolated
        BY <2>2, <3>2 DEF InsertIfNeeded
      <4>2. RegisteredById'
        BY <3>1, <4>1 DEF RegisteredById, Inv, TypeOK
      <4>3. ASSUME NEW s \in Threads, NEW h \in handles'[s], h.meter \notin isolated'
            PROVE  meters'[objs'[h.meter].id] = h.meter
        <5>1. CASE h \in handles[s]
          <6>1. h.meter \in Meters /\ objs[h.meter].id \in Ids
            <7>1. h.meter \in Meters
              BY <5>1 DEF Inv, TypeOK
            <7> QED BY <7>1, MeterRecord DEF Inv
          <6>2. meters[objs[h.meter].id] = h.meter
            BY <4>1, <4>3, <5>1 DEF Inv, HeldStaysRegistered
          <6>3. objs[h.meter].id # id
            BY <3>2, <6>1, <6>2 DEF Meters, NoMeter
          <6> QED BY <3>1, <4>1, <6>1, <6>2, <6>3 DEF Inv, TypeOK
        <5>2. CASE h.meter = new
          BY <3>1, <4>1, <5>2 DEF Inv, TypeOK
        <5> QED BY <4>1, <5>1, <5>2 DEF Hand, Inv, TypeOK
      <4> QED BY <4>2, <4>3 DEF HeldStaysRegistered
    <3>3. CASE old # NoMeter /\ GetClass(objs[old].type) = GetClass(objs[new].type)
      <4>1. Hand(t, old, objs[new].type) /\ UNCHANGED <<meters, isolated>>
        BY <2>2, <3>3 DEF InsertIfNeeded
      <4>2. objs[old].id = id
        BY <3>1, <3>3 DEF Inv, RegisteredById
      <4>3. ASSUME NEW s \in Threads, NEW h \in handles'[s]
            PROVE  h \in handles[s] \/ h.meter = old
        BY <4>1 DEF Hand, Inv, TypeOK
      <4> QED BY <3>1, <4>1, <4>2, <4>3
              DEF Inv, RegisteredById, HeldStaysRegistered
    <3>4. CASE old # NoMeter /\ GetClass(objs[old].type) # GetClass(objs[new].type)
      <4>1. /\ Hand(t, new, objs[new].type)
            /\ isolated' = isolated \cup {new}
            /\ UNCHANGED meters
        BY <2>2, <3>4 DEF InsertIfNeeded
      <4>2. ASSUME NEW s \in Threads, NEW h \in handles'[s]
            PROVE  h \in handles[s] \/ h.meter = new
        BY <4>1 DEF Hand, Inv, TypeOK
      <4> QED BY <3>1, <4>1, <4>2 DEF Inv, RegisteredById, HeldStaysRegistered
    <3> QED BY <3>2, <3>3, <3>4
  <2>3. ASSUME NEW t \in Threads, Updated(t)
        PROVE  RegisteredById' /\ HeldStaysRegistered'
    <3>1. PICK h \in handles[t] : objs' = [objs EXCEPT ![h.meter].lastUpdated = now]
      BY <2>3 DEF Updated
    <3>2. h.meter \in Meters /\ now \in Nat /\ objs \in Seq(Records)
      BY DEF Records, Inv, TypeOK
    <3>3. \A m \in Meters : objs'[m].id = objs[m].id
      BY <3>1, <3>2, UpdatedMeter
    <3> QED BY <2>3, <3>3, InvStep DEF Updated
  <2>4. ASSUME NEW t \in Threads, Release(t)
        PROVE  RegisteredById' /\ HeldStaysRegistered'
    <3>1. \A s \in Threads : handles'[s] \subseteq handles[s]
      BY <2>4 DEF Release, Inv, TypeOK
    <3> QED BY <2>4, <3>1, InvStep DEF Release
  <2>5. CASE ExpireMeters
    <3>1. \A i \in Ids : \/ meters'[i] = meters[i]
                         \/ meters'[i] = NoMeter /\ meters[i] \notin Held
      BY <2>5 DEF ExpireMeters, Unshared
    <3>2. \A t \in Threads : \A h \in handles[t] : h.meter \in Held
      BY DEF Held
    <3>3. \A t \in Threads : \A h \in handles[t] : objs[h.meter].id \in Ids
      <4>1. \A t \in Threads : \A h \in handles[t] : h.meter \in Meters
        BY DEF Inv, TypeOK
      <4> QED BY <4>1, MeterRecord DEF Inv
    <3>4. UNCHANGED <<objs, handles, isolated>>
      BY <2>5 DEF ExpireMeters
    <3> QED BY <3>1, <3>2, <3>3, <3>4 DEF Inv, RegisteredById, HeldStaysRegistered
  <2>6. CASE UNCHANGED <<objs, meters, handles, isolated>>
    BY <2>6, InvStep
  <2> QED
    BY <2>1, <2>2, <2>3, <2>4, <2>5, <2>6
       DEF Next, Measurements, Tick, BeginMeasurements, CopyEntry, EndCopy,
           MeasureMeter, DestroyCopy, vars
<1>3. Inv => HeldStaysRegistered
  BY DEF Inv
<1> QED BY <1>1, <1>2, <1>3, TypeCorrect, PTL DEF Spec

\* Two held meters of one id are one and the same, unless one is isolated.
THEOREM MetersAreShared == Spec => []OneMeterPerId
<1>1. HeldStaysRegistered => OneMeterPerId
  BY DEF HeldStaysRegistered, OneMeterPerId
<1> QED BY <1>1, HeldMetersStayRegistered, PTL
=============================================================================
