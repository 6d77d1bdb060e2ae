-------------------------- MODULE StepNumberProofs --------------------------
(***************************************************************************)
(* What StepNumber guarantees for any number of threads, steps and calls.  *)
(***************************************************************************)
EXTENDS StepNumber, FiniteSetTheorems, TLAPS

USE DEF clockVars, shared, locals, history

-----------------------------------------------------------------------------
(* Types *)

\* Every variable keeps its type, for every set of threads.
THEOREM TypeCorrect == Spec => []TypeOK
<1>1. Init => TypeOK
  <2>1. Init => skipped \in BOOLEAN
    BY DEF Init
  <2>2. QED
    BY <2>1, ConstantsAssumption DEF Init, TypeOK, InitValue
<1>2. TypeOK /\ [Next]_vars => TypeOK'
  <2> SUFFICES ASSUME TypeOK, [Next]_vars PROVE TypeOK'
    OBVIOUS
  <2> USE ConstantsAssumption DEF TypeOK, Goto, InitValue
  <2>1. CASE TickForward
    BY <2>1 DEF TickForward
  <2>2. CASE TickBack
    BY <2>2 DEF TickBack
  <2>3. ASSUME NEW t \in Threads, BeginPoll(t) PROVE TypeOK'
    BY <2>3 DEF BeginPoll
  <2>4. ASSUME NEW t \in Threads, NEW a \in Amounts, BeginUpdate(t, a)
        PROVE  TypeOK'
    BY <2>4 DEF BeginUpdate
  <2>5. ASSUME NEW t \in Threads, LoadInitPos(t) PROVE TypeOK'
    BY <2>5 DEF LoadInitPos
  <2>6. ASSUME NEW t \in Threads, CasInitPos(t) PROVE TypeOK'
    BY <2>6 DEF CasInitPos
  <2>7. ASSUME NEW t \in Threads, ExchangeCurrent(t) PROVE TypeOK'
    BY <2>7 DEF ExchangeCurrent
  <2>8. ASSUME NEW t \in Threads, StorePrevious(t) PROVE TypeOK'
    BY <2>8 DEF StorePrevious
  <2>9. ASSUME NEW t \in Threads, Body(t) PROVE TypeOK'
    <3>1. CASE ReadPrevious(t)
      BY <3>1 DEF ReadPrevious, Return
    <3>2. ASSUME arg[t] # NoUpdate PROVE [arg[t] EXCEPT !.landed = clock] \in Updates
      BY <3>2 DEF Updates
    <3>3. CASE AddLong(t)
      BY <3>2, <3>3 DEF AddLong, Return, Land
    <3>4. CASE LoadCurrent(t)
      BY <3>2, <3>4 DEF LoadCurrent, Return, Land
    <3>5. CASE SwapCurrent(t)
      BY <3>2, <3>5 DEF SwapCurrent, Return, Land
    <3>6. CASE SwapFails(t)
      BY <3>6 DEF SwapFails
    <3>7. QED
      BY <2>9, <3>1, <3>3, <3>4, <3>5, <3>6 DEF Body
  <2>10. CASE UNCHANGED vars
    BY <2>10 DEF vars
  <2>11. QED
    BY <2>1, <2>2, <2>3, <2>4, <2>5, <2>6, <2>7, <2>8, <2>9, <2>10
       DEF Next, Roll
<1>3. QED
  BY <1>1, <1>2, PTL DEF Spec

-----------------------------------------------------------------------------
(* Rolls *)

\* Why the rolls are disjoint: a roller owns the steps after its lastInit up to
\* its stepTime, and last_init_pos is already past them, so that the next CAS
\* can only hand out steps beyond.
RollInv ==
  /\ \A t \in Threads : pc[t] = "cas" => lastInit[t] < stepTime[t]
  /\ \A t \in Threads : Rolling(t) => /\ lastInit[t] < stepTime[t]
                                      /\ stepTime[t] <= last_init_pos
  /\ RollsAreDisjoint

\* The CAS on last_init_pos_ never lets two threads roll for the same interval,
\* even when a roller is stalled for several steps or the clock is set back.
THEOREM RollsDisjoint == Spec => []RollsAreDisjoint
<1>1. Init => RollInv
  BY DEF Init, RollInv, RollsAreDisjoint, Rolling
<1>2. TypeOK /\ RollInv /\ [Next]_vars => RollInv'
  <2> SUFFICES ASSUME TypeOK, RollInv, [Next]_vars PROVE RollInv'
    OBVIOUS
  <2> USE DEF TypeOK, RollInv, RollsAreDisjoint, Rolling, Goto
  <2>1. CASE TickForward \/ TickBack \/ UNCHANGED vars
    BY <2>1 DEF TickForward, TickBack, vars
  <2>2. ASSUME NEW t \in Threads, BeginPoll(t) PROVE RollInv'
    BY <2>2 DEF BeginPoll
  <2>3. ASSUME NEW t \in Threads, NEW a \in Amounts, BeginUpdate(t, a)
        PROVE  RollInv'
    BY <2>3 DEF BeginUpdate
  <2>4. ASSUME NEW t \in Threads, LoadInitPos(t) PROVE RollInv'
    BY <2>4 DEF LoadInitPos
  <2>5. ASSUME NEW t \in Threads, CasInitPos(t) PROVE RollInv'
    <3>1. CASE last_init_pos # lastInit[t]
      BY <2>5, <3>1 DEF CasInitPos
    <3>2. CASE last_init_pos = lastInit[t]
      <4>1. /\ last_init_pos' = stepTime[t]
            /\ pc' = [pc EXCEPT ![t] = "exchange"]
            /\ UNCHANGED <<stepTime, lastInit>>
        BY <2>5, <3>2 DEF CasInitPos
      <4>2. \A s \in Threads : s # t /\ Rolling(s) => stepTime[s] <= lastInit[t]
        BY <3>2
      <4>3. lastInit[t] < stepTime[t]
        BY <2>5 DEF CasInitPos
      <4>4. QED
        BY <3>2, <4>1, <4>2, <4>3
    <3>3. QED
      BY <3>1, <3>2
  <2>6. ASSUME NEW t \in Threads, ExchangeCurrent(t) PROVE RollInv'
    BY <2>6 DEF ExchangeCurrent
  <2>7. ASSUME NEW t \in Threads, StorePrevious(t) PROVE RollInv'
    BY <2>7 DEF StorePrevious
  <2>8. ASSUME NEW t \in Threads, Body(t) PROVE RollInv'
    <3>1. pc[t] \notin {"cas", "exchange", "store"}
      BY <2>8 DEF Body, ReadPrevious, AddLong, LoadCurrent, SwapCurrent, SwapFails
    <3>2. /\ pc' \in [Threads -> {"idle", "load", "cas", "exchange", "store",
                                  "body", "swap"}]
          /\ pc'[t] \in {"idle", "swap", "body"}
          /\ \A s \in Threads \ {t} : /\ pc'[s] = pc[s]
                                      /\ lastInit'[s] = lastInit[s]
                                      /\ stepTime'[s] = stepTime[s]
          /\ UNCHANGED last_init_pos
      BY <2>8 DEF Body, ReadPrevious, AddLong, LoadCurrent, SwapCurrent,
                  SwapFails, Return
    <3>3. QED
      BY <3>1, <3>2
  <2>9. QED
    BY <2>1, <2>2, <2>3, <2>4, <2>5, <2>6, <2>7, <2>8 DEF Next, Roll
<1>3. RollInv => RollsAreDisjoint
  BY DEF RollInv
<1>4. QED
  BY <1>1, <1>2, <1>3, TypeCorrect, PTL DEF Spec

-----------------------------------------------------------------------------
(* No update is lost while the bucket is polled *)

\* Why nothing is dropped: the clock is never more than one step past
\* last_init_pos, so a thread that wins the CAS moves it by exactly one step
\* and its roll never crosses a gap.
PolledInv ==
  /\ dropped = {}
  /\ clock <= last_init_pos + 1
  /\ \A t \in Threads : stepTime[t] <= last_init_pos + 1
  /\ \A t \in Threads : pc[t] = "cas" => lastInit[t] < stepTime[t]
  /\ \A t \in Threads : Rolling(t) => lastInit[t] = stepTime[t] - 1

\* A bucket rolled in every step discards no update, for any number of threads
\* and with rolls that stall across steps.
THEOREM PolledLosesNothing == Spec => []NothingDroppedWhenPolled
<1> DEFINE IInv == ~skipped => PolledInv
<1>1. Init => IInv
  BY DEF Init, PolledInv, Rolling
<1>2. TypeOK /\ IInv /\ [Next]_vars => IInv'
  <2> SUFFICES ASSUME TypeOK, PolledInv, ~skipped', [Next]_vars PROVE PolledInv'
    <3>1. [Next]_vars => skipped' = skipped \/ TickForward
      BY DEF Next, TickBack, BeginPoll, BeginUpdate, Roll, LoadInitPos, CasInitPos,
             ExchangeCurrent, StorePrevious, Body, ReadPrevious, AddLong,
             LoadCurrent, SwapCurrent, SwapFails, Return, vars
    <3>2. QED
      BY <3>1 DEF TickForward, TypeOK
  <2> USE DEF TypeOK, PolledInv, Rolling, Goto
  <2>1. CASE TickForward
    <3>1. last_init_pos = clock /\ clock' = clock + 1
      BY <2>1, Zenon DEF TickForward
    <3>2. QED
      BY <2>1, <3>1 DEF TickForward
  <2>2. CASE TickBack \/ UNCHANGED vars
    BY <2>2 DEF TickBack, vars
  <2>3. ASSUME NEW t \in Threads, BeginPoll(t) PROVE PolledInv'
    BY <2>3 DEF BeginPoll
  <2>4. ASSUME NEW t \in Threads, NEW a \in Amounts, BeginUpdate(t, a)
        PROVE  PolledInv'
    BY <2>4 DEF BeginUpdate
  <2>5. ASSUME NEW t \in Threads, LoadInitPos(t) PROVE PolledInv'
    BY <2>5 DEF LoadInitPos
  <2>6. ASSUME NEW t \in Threads, CasInitPos(t) PROVE PolledInv'
    <3>1. stepTime[t] <= last_init_pos + 1 /\ lastInit[t] < stepTime[t]
      BY <2>6 DEF CasInitPos
    <3>2. CASE last_init_pos = lastInit[t]
      BY <2>6, <3>1, <3>2 DEF CasInitPos
    <3>3. CASE last_init_pos # lastInit[t]
      BY <2>6, <3>3 DEF CasInitPos
    <3>4. QED
      BY <3>2, <3>3
  <2>7. ASSUME NEW t \in Threads, ExchangeCurrent(t) PROVE PolledInv'
    BY <2>7 DEF ExchangeCurrent
  <2>8. ASSUME NEW t \in Threads, StorePrevious(t) PROVE PolledInv'
    BY <2>8 DEF StorePrevious
  <2>9. ASSUME NEW t \in Threads, Body(t) PROVE PolledInv'
    BY <2>9 DEF Body, ReadPrevious, AddLong, LoadCurrent, SwapCurrent,
                SwapFails, Return
  <2>10. QED
    BY <2>1, <2>2, <2>3, <2>4, <2>5, <2>6, <2>7, <2>8, <2>9 DEF Next, Roll
<1>3. IInv => NothingDroppedWhenPolled
  BY DEF PolledInv, NothingDroppedWhenPolled
<1> HIDE DEF IInv
<1>4. QED
  BY <1>1, <1>2, <1>3, TypeCorrect, PTL DEF Spec

-----------------------------------------------------------------------------
(* Every update is in one place *)

\* The update number i is merged in, or was taken out of, current_.
HasLanded(i) ==
  \/ \E u \in contents \cup published \cup dropped : u.id = i
  \/ \E t \in Threads : \E u \in batch[t] : u.id = i

\* Why updates are counted once: each is merged under a number of its own that
\* had not landed before, and a thread holds a batch only between its exchange
\* and its store.
PlaceInv ==
  /\ CountedOnce
  /\ \A i \in Nat : HasLanded(i) => i <= calls
  /\ \A t \in Threads : arg[t] # NoUpdate =>
       /\ arg[t].id <= calls
       /\ ~HasLanded(arg[t].id)
  /\ \A s, t \in Threads :
       s # t /\ arg[s] # NoUpdate /\ arg[t] # NoUpdate => arg[s].id # arg[t].id
  /\ \A t \in Threads : batch[t] # {} => pc[t] = "store"

\* Landing an update keeps every update in one place.
LEMMA LandingKeepsPlaces ==
  ASSUME TypeOK, PlaceInv, NEW t \in Threads, arg[t] # NoUpdate,
         Land(t), Return(t), pc[t] # "store"
  PROVE  PlaceInv'
<1> DEFINE u == [arg[t] EXCEPT !.landed = clock]
<1>1. /\ u.id = arg[t].id /\ u.id \in Nat
      /\ contents' = contents \cup {u}
      /\ UNCHANGED <<calls, batch, prev, published, dropped>>
      /\ arg' = [arg EXCEPT ![t] = NoUpdate]
      /\ pc' = [pc EXCEPT ![t] = "idle"]
  BY DEF TypeOK, Land, Return, Goto
<1>2. /\ u \notin published \cup dropped
      /\ \A s \in Threads : u \notin batch[s]
  BY <1>1 DEF PlaceInv, HasLanded
<1> HIDE DEF u
<1>3. CountedOnce'
  BY <1>1, <1>2 DEF PlaceInv, CountedOnce
<1>4. \A i : HasLanded(i)' => HasLanded(i) \/ i = arg[t].id
  BY <1>1 DEF HasLanded
<1>5. (\A i \in Nat : HasLanded(i) => i <= calls)'
  BY <1>1, <1>4 DEF PlaceInv
<1>6. \A s \in Threads : arg'[s] # NoUpdate => s # t /\ arg'[s] = arg[s]
  BY <1>1 DEF TypeOK
<1>7. (\A s \in Threads : arg[s] # NoUpdate =>
         /\ arg[s].id <= calls
         /\ ~HasLanded(arg[s].id))'
  BY <1>1, <1>4, <1>6 DEF PlaceInv
<1>8. (\A r, s \in Threads :
         r # s /\ arg[r] # NoUpdate /\ arg[s] # NoUpdate => arg[r].id # arg[s].id)'
  BY <1>6 DEF PlaceInv
<1>9. (\A s \in Threads : batch[s] # {} => pc[s] = "store")'
  BY <1>1 DEF PlaceInv, TypeOK
<1>10. QED
  BY <1>3, <1>5, <1>7, <1>8, <1>9 DEF PlaceInv

LEMMA PlaceInvariant == Spec => []PlaceInv
<1>1. Init => PlaceInv
  BY DEF Init, PlaceInv, CountedOnce, HasLanded
<1>2. TypeOK /\ PlaceInv /\ [Next]_vars => PlaceInv'
  <2> SUFFICES ASSUME TypeOK, PlaceInv, [Next]_vars PROVE PlaceInv'
    OBVIOUS
  <2>1. CASE TickForward \/ TickBack \/ UNCHANGED vars
    BY <2>1 DEF PlaceInv, CountedOnce, HasLanded, TickForward, TickBack, vars
  <2>2. ASSUME NEW t \in Threads,
               BeginPoll(t) \/ LoadInitPos(t) \/ CasInitPos(t) \/ SwapFails(t)
        PROVE  PlaceInv'
    BY <2>2 DEF TypeOK, PlaceInv, CountedOnce, HasLanded, BeginPoll, LoadInitPos,
                CasInitPos, SwapFails, Goto
  <2>3. ASSUME NEW t \in Threads, NEW a \in Amounts, BeginUpdate(t, a)
        PROVE  PlaceInv'
    <3>1. /\ calls \in Nat /\ calls' = calls + 1
          /\ UNCHANGED <<contents, batch, prev, published, dropped>>
          /\ pc[t] = "idle" /\ pc' = [pc EXCEPT ![t] = "load"]
      BY <2>3 DEF BeginUpdate, TypeOK, Goto
    <3>2. \A s \in Threads : s # t => arg'[s] = arg[s]
      BY <2>3 DEF BeginUpdate, TypeOK
    <3>3. arg'[t].id = calls + 1
      BY <2>3 DEF BeginUpdate, TypeOK
    <3>4. \A i : HasLanded(i)' <=> HasLanded(i)
      BY <3>1 DEF HasLanded
    <3>5. CountedOnce'
      BY <3>1 DEF PlaceInv, CountedOnce
    <3>6. \A s \in Threads : arg[s] # NoUpdate => arg[s].id \in Nat
      BY DEF TypeOK
    <3>7. (\A s \in Threads : batch[s] # {} => pc[s] = "store")'
      BY <3>1 DEF PlaceInv, TypeOK
    <3>8. (\A i \in Nat : HasLanded(i) => i <= calls)'
      BY <3>1, <3>4 DEF PlaceInv
    <3>9. (\A s \in Threads : arg[s] # NoUpdate =>
             /\ arg[s].id <= calls
             /\ ~HasLanded(arg[s].id))'
      BY <3>1, <3>2, <3>3, <3>4, <3>6 DEF PlaceInv
    <3>10. (\A r, s \in Threads :
              r # s /\ arg[r] # NoUpdate /\ arg[s] # NoUpdate
                => arg[r].id # arg[s].id)'
      BY <3>1, <3>2, <3>3, <3>6 DEF PlaceInv
    <3>11. QED
      BY <3>5, <3>7, <3>8, <3>9, <3>10 DEF PlaceInv
  <2>4. ASSUME NEW t \in Threads, ExchangeCurrent(t) PROVE PlaceInv'
    <3>1. /\ batch[t] = {}
          /\ batch' = [batch EXCEPT ![t] = contents]
          /\ contents' = {}
          /\ UNCHANGED <<arg, calls, prev, published, dropped>>
          /\ pc' = [pc EXCEPT ![t] = "store"]
      BY <2>4 DEF ExchangeCurrent, PlaceInv, Goto
    <3>2. \A i : HasLanded(i)' => HasLanded(i)
      BY <3>1 DEF HasLanded, TypeOK
    <3>3. CountedOnce'
      BY <3>1 DEF PlaceInv, CountedOnce, TypeOK
    <3>4. (\A s \in Threads : batch[s] # {} => pc[s] = "store")'
      BY <3>1 DEF PlaceInv, TypeOK
    <3>5. QED
      BY <3>1, <3>2, <3>3, <3>4 DEF PlaceInv
  <2>5. ASSUME NEW t \in Threads, StorePrevious(t) PROVE PlaceInv'
    <3>1. /\ batch' = [batch EXCEPT ![t] = {}]
          /\ UNCHANGED <<arg, calls, contents>>
          /\ pc' = [pc EXCEPT ![t] = "body"]
          /\ \/ /\ published' = published \cup batch[t]
                /\ prev' = batch[t] /\ UNCHANGED dropped
             \/ /\ dropped' = dropped \cup batch[t]
                /\ prev' = {} /\ UNCHANGED published
      BY <2>5 DEF StorePrevious, Goto
    <3>2. \A i : HasLanded(i)' => HasLanded(i)
      BY <3>1 DEF HasLanded, TypeOK
    <3>3. CountedOnce'
      BY <3>1 DEF PlaceInv, CountedOnce, TypeOK
    <3>4. (\A s \in Threads : batch[s] # {} => pc[s] = "store")'
      BY <3>1 DEF PlaceInv, TypeOK
    <3>5. QED
      BY <3>1, <3>2, <3>3, <3>4 DEF PlaceInv
  <2>6. ASSUME NEW t \in Threads, ReadPrevious(t) PROVE PlaceInv'
    BY <2>6 DEF TypeOK, PlaceInv, CountedOnce, HasLanded, ReadPrevious, Return, Goto
  <2>7. ASSUME NEW t \in Threads, AddLong(t) PROVE PlaceInv'
    BY <2>7, LandingKeepsPlaces DEF AddLong
  <2>8. ASSUME NEW t \in Threads, LoadCurrent(t) PROVE PlaceInv'
    <3>1. CASE Land(t) /\ Return(t)
      BY <2>8, <3>1, LandingKeepsPlaces DEF LoadCurrent
    <3>2. CASE Goto(t, "swap") /\ UNCHANGED <<arg, calls, history>>
      BY <2>8, <3>2 DEF TypeOK, PlaceInv, CountedOnce, HasLanded, LoadCurrent, Goto
    <3>3. QED
      BY <2>8, <3>1, <3>2 DEF LoadCurrent
  <2>9. ASSUME NEW t \in Threads, SwapCurrent(t) PROVE PlaceInv'
    BY <2>9, LandingKeepsPlaces DEF SwapCurrent, TypeOK
  <2>10. QED
    BY <2>1, <2>2, <2>3, <2>4, <2>5, <2>6, <2>7, <2>8, <2>9 DEF Next, Roll, Body
<1>3. QED
  BY <1>1, <1>2, TypeCorrect, PTL DEF Spec

\* However the threads interleave, an update is never counted twice and never
\* in two places: current_, one roller's hands, previous_ or discarded.
THEOREM UpdatesCountedOnce == Spec => []CountedOnce
<1>1. PlaceInv => CountedOnce
  BY DEF PlaceInv
<1>2. QED
  BY <1>1, PlaceInvariant, PTL

-----------------------------------------------------------------------------
(* Sums over finite sets of updates *)

LEMMA Least ==
  ASSUME NEW T \in SUBSET Nat, T # {}
  PROVE  \E n \in T : \A k \in T : n <= k
<1>1. PICK n \in T : \A k \in T : ~(<<k, n>> \in OpToRel(<, Nat))
  BY NatLessThanWellFounded, WFMin
<1>2. \A k \in T : ~(k < n)
  BY <1>1 DEF OpToRel
<1>3. QED
  BY <1>2

LEMMA Induction ==
  ASSUME NEW T, 0 \in T, \A n \in Nat : n \in T => n + 1 \in T
  PROVE  \A n \in Nat : n \in T
<1> SUFFICES ASSUME Nat \ T # {} PROVE FALSE
  OBVIOUS
<1>1. PICK n \in Nat \ T : \A k \in Nat \ T : n <= k
  BY Least
<1>2. n # 0 /\ n - 1 \in Nat /\ ~(n <= n - 1)
  BY <1>1
<1>3. QED
  BY <1>1, <1>2

Total(S) == MapThenSumSet(LAMBDA u : u.amount, S)

Elem(s) == CHOOSE x \in s : TRUE

\* g sums the amounts of the sets D, as the fold does.
Sums(g, D) ==
  g = [s \in D |-> IF s = {} THEN 0 ELSE Elem(s).amount + g[s \ {Elem(s)}]]

LEMMA TotalDef ==
  ASSUME NEW S
  PROVE  Total(S) = (CHOOSE g : Sums(g, SUBSET S))[S]
BY DEF Total, MapThenSumSet, MapThenFoldSet, Elem, Sums

LEMMA ElemIn ==
  ASSUME NEW s, s # {}
  PROVE  Elem(s) \in s
BY DEF Elem

LEMMA Smaller ==
  ASSUME NEW s, IsFiniteSet(s), NEW x \in s
  PROVE  /\ IsFiniteSet(s \ {x})
         /\ Cardinality(s) \in Nat /\ Cardinality(s \ {x}) \in Nat
         /\ Cardinality(s) = Cardinality(s \ {x}) + 1
<1>1. IsFiniteSet(s \ {x}) /\ Cardinality(s \ {x}) = Cardinality(s) - 1
  BY FS_RemoveElement
<1>2. Cardinality(s) \in Nat /\ Cardinality(s \ {x}) \in Nat
  BY <1>1, FS_CardinalityType
<1>3. QED
  BY <1>1, <1>2

LEMMA Occupied ==
  ASSUME NEW s, NEW n \in Nat, Cardinality(s) = n + 1
  PROVE  s # {}
<1>1. Cardinality({}) = 0
  BY FS_EmptySet
<1>2. QED
  BY <1>1

LEMMA SumsExist ==
  ASSUME NEW S, IsFiniteSet(S)
  PROVE  \E g : Sums(g, SUBSET S)
<1> DEFINE Upto(n) == {s \in SUBSET S : Cardinality(s) <= n}
           T == {n \in Nat : \E g : Sums(g, Upto(n))}
<1>1. \A s \in SUBSET S : IsFiniteSet(s) /\ Cardinality(s) \in Nat /\ Cardinality(s) <= Cardinality(S)
  BY FS_Subset, FS_CardinalityType
<1>2. 0 \in T
  <2> DEFINE g == [s \in Upto(0) |-> 0]
  <2>1. \A s \in Upto(0) : s = {}
    BY <1>1, FS_EmptySet
  <2>2. Sums(g, Upto(0))
    BY <2>1 DEF Sums
  <2>3. QED
    BY <2>2
<1>3. ASSUME NEW n \in Nat, n \in T
      PROVE  n + 1 \in T
  <2>1. PICK g : Sums(g, Upto(n))
    BY <1>3
  <2> DEFINE h == [s \in Upto(n + 1) |-> IF s = {} THEN 0 ELSE Elem(s).amount + g[s \ {Elem(s)}]]
  <2>2. \A s \in Upto(n) : s \in Upto(n + 1)
    BY <1>1
  <2>3. \A s \in Upto(n) : h[s] = g[s]
    BY <2>1, <2>2 DEF Sums
  <2>4. \A s \in Upto(n + 1) : s # {} => s \ {Elem(s)} \in Upto(n)
    BY <1>1, ElemIn, Smaller
  <2>5. \A s \in Upto(n + 1) : s # {} => h[s \ {Elem(s)}] = g[s \ {Elem(s)}]
    BY <2>3, <2>4
  <2>6. Sums(h, Upto(n + 1))
    BY <2>5 DEF Sums
  <2>7. QED
    BY <2>6
<1>4. Cardinality(S) \in T
  <2> HIDE DEF T
  <2>1. QED
    BY <1>1, <1>2, <1>3, Induction
<1>5. Upto(Cardinality(S)) = SUBSET S
  BY <1>1
<1>6. QED
  BY <1>4, <1>5

LEMMA SumsUnique ==
  ASSUME NEW S, NEW R, NEW g, NEW h, Sums(g, SUBSET S), Sums(h, SUBSET R),
         IsFiniteSet(S), S \subseteq R
  PROVE  g[S] = h[S]
<1> DEFINE T == {n \in Nat : \A s \in SUBSET S : Cardinality(s) = n => g[s] = h[s]}
<1>1. \A s \in SUBSET S : IsFiniteSet(s) /\ Cardinality(s) \in Nat
  BY FS_Subset, FS_CardinalityType
<1>2. 0 \in T
  BY <1>1, FS_EmptySet DEF Sums
<1>3. ASSUME NEW n \in Nat, n \in T
      PROVE  n + 1 \in T
  <2> SUFFICES ASSUME NEW s \in SUBSET S, Cardinality(s) = n + 1
               PROVE  g[s] = h[s]
    OBVIOUS
  <2>1. s # {}
    BY Occupied
  <2>2. Cardinality(s \ {Elem(s)}) = n /\ s \ {Elem(s)} \in SUBSET S
    BY <1>1, <2>1, ElemIn, Smaller
  <2>3. g[s \ {Elem(s)}] = h[s \ {Elem(s)}]
    BY <1>3, <2>2
  <2>4. QED
    BY <2>1, <2>3 DEF Sums
<1>4. Cardinality(S) \in T
  <2> HIDE DEF T
  <2>1. QED
    BY <1>1, <1>2, <1>3, Induction
<1>5. QED
  BY <1>4

LEMMA TotalEmpty == Total({}) = 0
<1>1. PICK g : Sums(g, SUBSET {})
  BY SumsExist, FS_EmptySet
<1>2. Sums(CHOOSE f : Sums(f, SUBSET {}), SUBSET {})
  BY <1>1
<1>3. QED
  BY <1>2, TotalDef DEF Sums

LEMMA TotalElem ==
  ASSUME NEW S, IsFiniteSet(S), S # {}
  PROVE  Total(S) = Elem(S).amount + Total(S \ {Elem(S)})
<1> DEFINE R == S \ {Elem(S)}
           g == CHOOSE f : Sums(f, SUBSET S)
           h == CHOOSE f : Sums(f, SUBSET R)
<1>1. IsFiniteSet(R) /\ R \subseteq S
  BY ElemIn, Smaller
<1>2. Sums(g, SUBSET S) /\ Sums(h, SUBSET R)
  BY <1>1, SumsExist
<1>3. Total(S) = g[S] /\ Total(R) = h[R]
  BY TotalDef
<1> HIDE DEF g, h
<1>4. h[R] = g[R]
  BY <1>1, <1>2, SumsUnique
<1>5. g[S] = Elem(S).amount + g[R]
  BY <1>2 DEF Sums
<1>6. QED
  BY <1>3, <1>4, <1>5

LEMMA TotalType ==
  ASSUME NEW S, IsFiniteSet(S), \A u \in S : u.amount \in Nat
  PROVE  Total(S) \in Nat
<1> DEFINE T == {n \in Nat : \A s \in SUBSET S : Cardinality(s) = n => Total(s) \in Nat}
<1>1. \A s \in SUBSET S : IsFiniteSet(s) /\ Cardinality(s) \in Nat
  BY FS_Subset, FS_CardinalityType
<1>2. 0 \in T
  BY <1>1, FS_EmptySet, TotalEmpty
<1>3. ASSUME NEW n \in Nat, n \in T
      PROVE  n + 1 \in T
  <2> SUFFICES ASSUME NEW s \in SUBSET S, Cardinality(s) = n + 1
               PROVE  Total(s) \in Nat
    OBVIOUS
  <2>1. s # {} /\ Elem(s) \in s
    BY FS_EmptySet, ElemIn
  <2>2. Cardinality(s \ {Elem(s)}) = n /\ s \ {Elem(s)} \in SUBSET S
    BY <1>1, <2>1, Smaller
  <2>3. Total(s \ {Elem(s)}) \in Nat
    BY <1>3, <2>2
  <2>4. Total(s) = Elem(s).amount + Total(s \ {Elem(s)})
    BY <1>1, <2>1, TotalElem
  <2>5. QED
    BY <2>1, <2>3, <2>4
<1>4. Cardinality(S) \in T
  <2> HIDE DEF T
  <2>1. QED
    BY <1>1, <1>2, <1>3, Induction
<1>5. QED
  BY <1>4

LEMMA TotalRemove ==
  ASSUME NEW S, IsFiniteSet(S), \A u \in S : u.amount \in Nat, NEW x \in S
  PROVE  Total(S) = x.amount + Total(S \ {x})
<1> DEFINE T == {n \in Nat : \A s \in SUBSET S : Cardinality(s) = n =>
                   \A y \in s : Total(s) = y.amount + Total(s \ {y})}
<1>1. \A s \in SUBSET S : IsFiniteSet(s) /\ Cardinality(s) \in Nat /\ Total(s) \in Nat
  BY FS_Subset, FS_CardinalityType, TotalType
<1>2. 0 \in T
  BY <1>1, FS_EmptySet
<1>3. ASSUME NEW n \in Nat, n \in T
      PROVE  n + 1 \in T
  <2> SUFFICES ASSUME NEW s \in SUBSET S, Cardinality(s) = n + 1, NEW y \in s
               PROVE  Total(s) = y.amount + Total(s \ {y})
    OBVIOUS
  <2> DEFINE e == Elem(s)
  <2>1. e \in s
    BY ElemIn
  <2> HIDE DEF e
  <2>2. Total(s) = e.amount + Total(s \ {e})
    BY <1>1, TotalElem DEF e
  <2>3. CASE y = e
    BY <2>2, <2>3
  <2>4. CASE y # e
    <3>1. \A z \in s : Cardinality(s \ {z}) = n /\ s \ {z} \in SUBSET S
      BY <1>1, Smaller
    <3>2. /\ Total(s \ {e}) = y.amount + Total((s \ {e}) \ {y})
          /\ Total(s \ {y}) = e.amount + Total((s \ {y}) \ {e})
      BY <1>3, <2>1, <2>4, <3>1
    <3>3. (s \ {e}) \ {y} = (s \ {y}) \ {e} /\ (s \ {e}) \ {y} \in SUBSET S
      OBVIOUS
    <3> DEFINE rest == Total((s \ {e}) \ {y})
    <3>4. rest \in Nat /\ e.amount \in Nat /\ y.amount \in Nat
      BY <1>1, <2>1, <3>3
    <3>5. Total(s \ {e}) = y.amount + rest /\ Total(s \ {y}) = e.amount + rest
      BY <3>2, <3>3
    <3> HIDE DEF rest
    <3>6. QED
      BY <2>2, <3>4, <3>5
  <2>5. QED
    BY <2>3, <2>4
<1>4. Cardinality(S) \in T
  <2> HIDE DEF T
  <2>1. QED
    BY <1>1, <1>2, <1>3, Induction
<1>5. QED
  BY <1>4
-----------------------------------------------------------------------------
(* The numbers are those of the updates *)

\* n is the value of a bucket that holds the set S of updates.
IsValue(n, S) ==
  IF Kind = "max"
    THEN LET amounts == {u.amount : u \in S} \cup {InitValue}
         IN  n \in amounts /\ \A a \in amounts : n >= a
    ELSE n = Total(S)

LEMMA ValueUnique ==
  ASSUME NEW n, NEW S \in SUBSET Updates, IsValue(n, S)
  PROVE  n = ValueOf(S)
<1>1. CASE Kind = "max"
  <2> DEFINE amounts == {u.amount : u \in S} \cup {InitValue}
  <2>1. amounts \subseteq Nat
    <3>1. \A u \in S : u.amount \in Nat
      BY ConstantsAssumption DEF Updates
    <3>2. QED
      BY <3>1 DEF InitValue
  <2>2. n \in amounts /\ \A a \in amounts : n >= a
    BY <1>1 DEF IsValue
  <2>3. ValueOf(S) = CHOOSE x \in amounts : \A y \in amounts : x >= y
    BY <1>1 DEF ValueOf, Max
  <2> HIDE DEF amounts
  <2>4. \A x \in amounts : (\A y \in amounts : x >= y) => x = n
    BY <2>1, <2>2
  <2>5. QED
    BY <2>2, <2>3, <2>4
<1>2. CASE Kind # "max"
  BY <1>2 DEF IsValue, ValueOf, Total
<1>3. QED
  BY <1>1, <1>2

LEMMA ValueOfNone == IsValue(InitValue, {})
  BY TotalEmpty DEF IsValue, InitValue

\* The value with one more update: what each of the three kinds makes of it.
Merged(n, amount) ==
  IF Kind = "max" THEN (IF amount > n THEN amount ELSE n) ELSE n + amount

LEMMA ValueOfOneMore ==
  ASSUME NEW n \in Nat, NEW S \in SUBSET Updates, IsFiniteSet(S), IsValue(n, S),
         NEW u \in Updates, u \notin S
  PROVE  IsValue(Merged(n, u.amount), S \cup {u})
<1>1. u.amount \in Nat /\ \A w \in S : w.amount \in Nat
  BY ConstantsAssumption DEF Updates
<1>2. CASE Kind = "max"
  <2> DEFINE amounts == {w.amount : w \in S} \cup {InitValue}
             more    == {w.amount : w \in S \cup {u}} \cup {InitValue}
  <2>1. n \in amounts /\ \A a \in amounts : n >= a
    BY <1>2 DEF IsValue
  <2>2. amounts \subseteq Nat /\ more = amounts \cup {u.amount}
    BY <1>1 DEF InitValue
  <2> HIDE DEF amounts, more
  <2>3. Merged(n, u.amount) \in more /\ \A a \in more : Merged(n, u.amount) >= a
    <3>1. CASE u.amount > n
      BY <1>1, <1>2, <2>1, <2>2, <3>1 DEF Merged
    <3>2. CASE ~(u.amount > n)
      BY <1>1, <1>2, <2>1, <2>2, <3>2 DEF Merged
    <3>3. QED
      BY <3>1, <3>2
  <2>4. QED
    BY <1>2, <2>3 DEF IsValue, more
<1>3. CASE Kind # "max"
  <2> DEFINE T == S \cup {u}
  <2>1. IsFiniteSet(T) /\ u \in T /\ T \ {u} = S /\ \A w \in T : w.amount \in Nat
    BY <1>1, FS_AddElement
  <2> HIDE DEF T
  <2>2. Total(T) = u.amount + Total(S)
    BY <2>1, TotalRemove
  <2>3. Merged(n, u.amount) = n + u.amount /\ n = Total(S)
    BY <1>3 DEF Merged, IsValue
  <2>4. Merged(n, u.amount) = Total(T)
    BY <1>1, <2>2, <2>3
  <2>5. QED
    BY <1>3, <2>4 DEF IsValue, T
<1>4. QED
  BY <1>2, <1>3

\* Each number with its set of updates; and a thread in a CAS loop has yet to
\* merge its update, which raises a max gauge.
ValuesInv ==
  /\ IsFiniteSet(contents) /\ IsFiniteSet(prev)
  /\ \A t \in Threads : IsFiniteSet(batch[t])
  /\ IsValue(current, contents)
  /\ IsValue(previous, prev)
  /\ \A t \in Threads : IsValue(v[t], batch[t])
  /\ \A t \in Threads :
       pc[t] = "swap" => /\ Kind # "long"
                         /\ Kind = "max" => arg[t].amount > m[t]

\* Landing an update keeps the numbers right if it was merged in current_.
LEMMA LandingKeepsValues ==
  ASSUME TypeOK, PlaceInv, ValuesInv, NEW t \in Threads, arg[t] # NoUpdate,
         Land(t), Return(t), current' = Merged(current, arg[t].amount)
  PROVE  ValuesInv'
<1> DEFINE u == [arg[t] EXCEPT !.landed = clock]
<1>1. /\ u \in Updates /\ u.id = arg[t].id /\ u.amount = arg[t].amount
      /\ contents' = contents \cup {u} /\ contents \in SUBSET Updates
      /\ current \in Nat
      /\ UNCHANGED <<previous, v, batch, prev>>
      /\ pc'[t] = "idle"
      /\ \A s \in Threads : s # t => pc'[s] = pc[s] /\ arg'[s] = arg[s] /\ m'[s] = m[s]
  BY DEF TypeOK, Land, Return, Goto, Updates
<1>2. u \notin contents
  BY <1>1 DEF PlaceInv, HasLanded, TypeOK
<1> HIDE DEF u
<1>3. IsFiniteSet(contents')
  BY <1>1, FS_AddElement DEF ValuesInv
<1>4. IsValue(current, contents)' 
  <2>1. IsValue(Merged(current, u.amount), contents \cup {u})
    BY <1>1, <1>2, ValueOfOneMore DEF ValuesInv
  <2>2. QED
    BY <1>1, <2>1 DEF IsValue
<1>5. (\A s \in Threads :
         pc[s] = "swap" => /\ Kind # "long"
                           /\ Kind = "max" => arg[s].amount > m[s])'
  BY <1>1 DEF ValuesInv
<1>6. QED
  BY <1>1, <1>3, <1>4, <1>5 DEF ValuesInv, IsValue

\* No update is overwritten by another or by a roll, and none is merged twice:
\* current_, previous_ and what a roller holds are at all times the sums (the
\* maxima) of the updates in them, for any threads, amounts and interleaving.
THEOREM NumbersAreOfTheUpdates == Spec => []ValuesMatch
<1>1. Init => ValuesInv
  BY ValueOfNone, FS_EmptySet DEF Init, ValuesInv
<1>2. TypeOK /\ PlaceInv /\ ValuesInv /\ [Next]_vars => ValuesInv'
  <2> SUFFICES ASSUME TypeOK, PlaceInv, ValuesInv, [Next]_vars PROVE ValuesInv'
    OBVIOUS
  <2>1. CASE TickForward \/ TickBack \/ UNCHANGED vars
    BY <2>1 DEF ValuesInv, IsValue, TickForward, TickBack, vars
  <2>2. ASSUME NEW t \in Threads,
               \/ BeginPoll(t) \/ LoadInitPos(t) \/ CasInitPos(t) \/ SwapFails(t)
               \/ \E a \in Amounts : BeginUpdate(t, a)
        PROVE  ValuesInv'
    <3>1. /\ UNCHANGED <<current, previous, v, contents, prev, batch, m>>
          /\ pc'[t] # "swap"
          /\ \A s \in Threads : s # t => pc'[s] = pc[s] /\ arg'[s] = arg[s]
      BY <2>2 DEF TypeOK, BeginPoll, BeginUpdate, LoadInitPos, CasInitPos, SwapFails, Goto
    <3>2. QED
      BY <3>1 DEF ValuesInv, IsValue
  <2>3. ASSUME NEW t \in Threads, ExchangeCurrent(t) PROVE ValuesInv'
    <3>1. /\ v'[t] = current /\ batch'[t] = contents
          /\ current' = InitValue /\ contents' = {}
          /\ \A s \in Threads : s # t => v'[s] = v[s] /\ batch'[s] = batch[s] /\ pc'[s] = pc[s]
          /\ pc'[t] # "swap"
          /\ UNCHANGED <<previous, prev, arg, m>>
      BY <2>3 DEF ExchangeCurrent, Goto, TypeOK
    <3>2. \A s \in Threads : IsValue(v'[s], batch'[s]) /\ IsFiniteSet(batch'[s])
      BY <3>1 DEF ValuesInv
    <3>3. IsValue(current', contents') /\ IsValue(previous', prev')
          /\ IsFiniteSet(contents') /\ IsFiniteSet(prev')
      BY <3>1, ValueOfNone, FS_EmptySet DEF ValuesInv
    <3>4. (\A s \in Threads :
             pc[s] = "swap" => /\ Kind # "long"
                               /\ Kind = "max" => arg[s].amount > m[s])'
      BY <3>1 DEF ValuesInv
    <3>5. QED
      BY <3>2, <3>3, <3>4 DEF ValuesInv, IsValue
  <2>4. ASSUME NEW t \in Threads, StorePrevious(t) PROVE ValuesInv'
    <3>1. /\ \/ previous' = v[t] /\ prev' = batch[t]
             \/ previous' = InitValue /\ prev' = {}
          /\ v'[t] = InitValue /\ batch'[t] = {}
          /\ \A s \in Threads : s # t => v'[s] = v[s] /\ batch'[s] = batch[s] /\ pc'[s] = pc[s]
          /\ pc'[t] # "swap"
          /\ UNCHANGED <<current, contents, arg, m>>
      BY <2>4 DEF StorePrevious, Goto, TypeOK
    <3>2. \A s \in Threads : IsValue(v'[s], batch'[s]) /\ IsFiniteSet(batch'[s])
      BY <3>1, ValueOfNone, FS_EmptySet DEF ValuesInv
    <3>3. IsValue(current', contents') /\ IsValue(previous', prev')
          /\ IsFiniteSet(contents') /\ IsFiniteSet(prev')
      BY <3>1, ValueOfNone, FS_EmptySet DEF ValuesInv
    <3>4. (\A s \in Threads :
             pc[s] = "swap" => /\ Kind # "long"
                               /\ Kind = "max" => arg[s].amount > m[s])'
      BY <3>1 DEF ValuesInv
    <3>5. QED
      BY <3>2, <3>3, <3>4 DEF ValuesInv, IsValue
  <2>5. ASSUME NEW t \in Threads, ReadPrevious(t) PROVE ValuesInv'
    <3>1. /\ UNCHANGED <<current, previous, v, contents, prev, batch>>
          /\ pc'[t] # "swap"
          /\ \A s \in Threads : s # t => pc'[s] = pc[s] /\ arg'[s] = arg[s] /\ m'[s] = m[s]
      BY <2>5 DEF TypeOK, ReadPrevious, Return, Goto
    <3>2. QED
      BY <3>1 DEF ValuesInv, IsValue
  <2>6. ASSUME NEW t \in Threads, AddLong(t) PROVE ValuesInv'
    BY <2>6, LandingKeepsValues DEF AddLong, Merged
  <2>7. ASSUME NEW t \in Threads, LoadCurrent(t) PROVE ValuesInv'
    <3>1. CASE Kind = "max" /\ arg[t].amount <= current /\ Land(t) /\ Return(t) /\ current' = current
      <4>1. arg[t] # NoUpdate /\ arg[t].amount \in Nat /\ current \in Nat
        BY <2>7, ConstantsAssumption DEF LoadCurrent, TypeOK
      <4>2. current' = Merged(current, arg[t].amount)
        BY <3>1, <4>1 DEF Merged
      <4>3. QED
        BY <3>1, <4>1, <4>2, LandingKeepsValues
    <3>2. CASE /\ Kind = "max" => arg[t].amount > current
               /\ m' = [m EXCEPT ![t] = current]
               /\ Goto(t, "swap")
               /\ UNCHANGED <<clockVars, shared, arg, stepTime, lastInit, v, calls, history>>
      <4>1. /\ UNCHANGED <<current, previous, v, contents, prev, batch, arg>>
            /\ m'[t] = current
            /\ \A s \in Threads : s # t => pc'[s] = pc[s] /\ m'[s] = m[s]
            /\ Kind # "long"
        BY <2>7, <3>2 DEF TypeOK, LoadCurrent, Goto
      <4>2. QED
        BY <3>2, <4>1 DEF ValuesInv, IsValue
    <3>3. QED
      BY <2>7, <3>1, <3>2 DEF LoadCurrent
  <2>8. ASSUME NEW t \in Threads, SwapCurrent(t) PROVE ValuesInv'
    <3>1. arg[t] # NoUpdate /\ arg[t].amount \in Nat /\ current \in Nat
      BY <2>8, ConstantsAssumption DEF SwapCurrent, TypeOK
    <3>2. current' = Merged(current, arg[t].amount)
      BY <2>8, <3>1 DEF SwapCurrent, ValuesInv, Merged
    <3>3. QED
      BY <2>8, <3>1, <3>2, LandingKeepsValues DEF SwapCurrent
  <2>9. QED
    BY <2>1, <2>2, <2>3, <2>4, <2>5, <2>6, <2>7, <2>8 DEF Next, Roll, Body
<1>3. TypeOK /\ ValuesInv => ValuesMatch
  BY ValueUnique DEF TypeOK, ValuesInv, ValuesMatch
<1>4. QED
  BY <1>1, <1>2, <1>3, TypeCorrect, PlaceInvariant, PTL DEF Spec

-----------------------------------------------------------------------------
(* StepNumber implements StepBucket when no step boundary falls inside a   *)
(* roll and the clock is not set back: for any number of threads, updates, *)
(* polls and rolls behave as if each happened at once.                     *)

\* Why there is at most one roller: everything inside RollCount works for the
\* clock's step, and a roller has already moved last_init_pos there.  (The last
\* conjunct: the CAS loop of UpdateCurrentMax only ever raises the bucket.)
PromptInv ==
  /\ last_init_pos <= clock
  /\ \A t \in Threads : stepTime[t] <= clock
  /\ \A t \in Threads : InRoll(t) => stepTime[t] = clock
  /\ \A t \in Threads : pc[t] = "cas" => lastInit[t] < stepTime[t]
  /\ \A t \in Threads :
       Rolling(t) => last_init_pos = clock /\ lastInit[t] < stepTime[t]
  /\ \A s, t \in Threads : Rolling(s) /\ Rolling(t) => s = t
  /\ \A t \in Threads :
       pc[t] = "swap" => /\ Kind # "long"
                         /\ Kind = "max" => arg[t].amount > m[t]

LEMMA PromptInvariant ==
  ASSUME PromptRolls, ~ClockMayStepBack PROVE Spec => []PromptInv
<1>1. Init => PromptInv
  BY DEF Init, PromptInv, InRoll, Rolling
<1>2. TypeOK /\ PromptInv /\ [Next]_vars => PromptInv'
  <2> SUFFICES ASSUME TypeOK, PromptInv, [Next]_vars PROVE PromptInv'
    OBVIOUS
  <2> USE DEF TypeOK, PromptInv, InRoll, Rolling, Goto
  <2>1. CASE TickForward
    BY <2>1 DEF TickForward
  <2>2. CASE TickBack \/ UNCHANGED vars
    BY <2>2 DEF TickBack, vars
  <2>3. ASSUME NEW t \in Threads, BeginPoll(t) PROVE PromptInv'
    BY <2>3 DEF BeginPoll
  <2>4. ASSUME NEW t \in Threads, NEW a \in Amounts, BeginUpdate(t, a)
        PROVE  PromptInv'
    BY <2>4 DEF BeginUpdate
  <2>5. ASSUME NEW t \in Threads, LoadInitPos(t) PROVE PromptInv'
    BY <2>5 DEF LoadInitPos
  <2>6. ASSUME NEW t \in Threads, CasInitPos(t) PROVE PromptInv'
    BY <2>6 DEF CasInitPos
  <2>7. ASSUME NEW t \in Threads, ExchangeCurrent(t) PROVE PromptInv'
    BY <2>7 DEF ExchangeCurrent
  <2>8. ASSUME NEW t \in Threads, StorePrevious(t) PROVE PromptInv'
    BY <2>8 DEF StorePrevious
  <2>9. ASSUME NEW t \in Threads, Body(t) PROVE PromptInv'
    BY <2>9 DEF Body, ReadPrevious, AddLong, LoadCurrent, SwapCurrent,
                SwapFails, Return
  <2>10. QED
    BY <2>1, <2>2, <2>3, <2>4, <2>5, <2>6, <2>7, <2>8, <2>9 DEF Next, Roll
<1>3. QED
  BY <1>1, <1>2, TypeCorrect, PTL DEF Spec

-----------------------------------------------------------------------------
(* Updates are published for the step they were made in *)

\* Why the interval is right: what is in current_ landed no earlier than the
\* step the bucket was last rolled in, and what a roller took out of it no
\* earlier than the step it rolls from; and no update is from a later step.
AttributionInv ==
  /\ \A t \in Threads : arg[t] # NoUpdate => arg[t].step <= clock
  /\ \A u \in contents :
       /\ u.step <= clock
       /\ (\A t \in Threads : pc[t] # "exchange") => last_init_pos <= u.landed
       /\ \A t \in Threads : pc[t] = "exchange" => lastInit[t] <= u.landed
  /\ \A t \in Threads : \A u \in batch[t] :
       pc[t] = "store" /\ u.step <= clock /\ lastInit[t] <= u.landed

LEMMA AttributionInvariant ==
  ASSUME PromptRolls, ~ClockMayStepBack PROVE Spec => []AttributionInv
<1>1. Init => AttributionInv
  BY DEF Init, AttributionInv
<1>2. TypeOK /\ PromptInv /\ AttributionInv /\ [Next]_vars => AttributionInv'
  <2> SUFFICES ASSUME TypeOK, PromptInv, AttributionInv, [Next]_vars PROVE AttributionInv'
    OBVIOUS
  <2>1. /\ clock \in Nat /\ last_init_pos \in Nat /\ last_init_pos <= clock
        /\ \A u \in contents : u.step \in Nat /\ u.landed \in Nat
        /\ \A t \in Threads : \A u \in batch[t] : u.step \in Nat /\ u.landed \in Nat
        /\ \A t \in Threads : arg[t].step \in Nat /\ lastInit[t] \in Nat /\ stepTime[t] \in Nat
    BY DEF TypeOK, Updates, NoUpdate, PromptInv
  <2>2. CASE TickForward
    <3>1. /\ clock' \in Nat /\ clock <= clock'
          /\ UNCHANGED <<contents, batch, arg, pc, last_init_pos, lastInit>>
      BY <2>1, <2>2 DEF TickForward, TypeOK
    <3>2. QED
      BY <2>1, <3>1 DEF AttributionInv
  <2>3. CASE TickBack \/ UNCHANGED vars
    BY <2>3 DEF TickBack, vars, AttributionInv
  <2>4. ASSUME NEW t \in Threads, BeginPoll(t) \/ LoadInitPos(t) \/ SwapFails(t)
        PROVE  AttributionInv'
    <3>1. /\ UNCHANGED <<clock, last_init_pos, arg, contents, batch>>
          /\ \A s \in Threads : pc[s] \in {"exchange", "store"} <=> pc'[s] \in {"exchange", "store"}
          /\ \A s \in Threads : pc[s] \in {"exchange", "store"} =>
               pc'[s] = pc[s] /\ lastInit'[s] = lastInit[s]
      BY <2>4 DEF BeginPoll, LoadInitPos, SwapFails, Goto, TypeOK
    <3>2. QED
      BY <3>1 DEF AttributionInv
  <2>5. ASSUME NEW t \in Threads, NEW a \in Amounts, BeginUpdate(t, a)
        PROVE  AttributionInv'
    <3>1. /\ UNCHANGED <<clock, last_init_pos, contents, batch, lastInit>>
          /\ pc[t] = "idle" /\ pc'[t] = "load"
          /\ arg'[t].step = clock
          /\ \A s \in Threads : s # t => pc'[s] = pc[s] /\ arg'[s] = arg[s]
      BY <2>5 DEF BeginUpdate, Goto, TypeOK
    <3>2. QED
      BY <2>1, <3>1 DEF AttributionInv
  <2>6. ASSUME NEW t \in Threads, CasInitPos(t) PROVE AttributionInv'
    <3>1. CASE last_init_pos # lastInit[t]
      <4>1. /\ UNCHANGED <<clock, last_init_pos, arg, contents, batch, lastInit>>
            /\ pc[t] = "cas" /\ pc'[t] = "body"
            /\ \A s \in Threads : s # t => pc'[s] = pc[s]
        BY <2>6, <3>1 DEF CasInitPos, Goto, TypeOK
      <4>2. QED
        BY <4>1 DEF AttributionInv
    <3>2. CASE last_init_pos = lastInit[t]
      <4>1. /\ UNCHANGED <<clock, arg, contents, batch, lastInit>>
            /\ pc[t] = "cas" /\ pc'[t] = "exchange"
            /\ \A s \in Threads : s # t => pc'[s] = pc[s]
        BY <2>6, <3>2 DEF CasInitPos, Goto, TypeOK
      <4>2. lastInit[t] < clock
        BY <4>1 DEF PromptInv, InRoll
      <4>3. \A s \in Threads : pc[s] # "exchange"
        BY <3>2, <4>2, <2>1 DEF PromptInv, Rolling
      <4>4. QED
        BY <3>2, <4>1, <4>3 DEF AttributionInv
    <3>3. QED
      BY <3>1, <3>2
  <2>7. ASSUME NEW t \in Threads, ExchangeCurrent(t) PROVE AttributionInv'
    <3>1. /\ UNCHANGED <<clock, last_init_pos, arg, lastInit>>
          /\ pc[t] = "exchange" /\ pc'[t] = "store"
          /\ contents' = {} /\ batch'[t] = contents
          /\ \A s \in Threads : s # t => pc'[s] = pc[s] /\ batch'[s] = batch[s]
      BY <2>7 DEF ExchangeCurrent, Goto, TypeOK
    <3>2. QED
      BY <3>1 DEF AttributionInv
  <2>8. ASSUME NEW t \in Threads, StorePrevious(t) PROVE AttributionInv'
    <3>1. /\ UNCHANGED <<clock, last_init_pos, arg, lastInit, contents>>
          /\ pc[t] = "store" /\ pc'[t] = "body" /\ batch'[t] = {}
          /\ \A s \in Threads : s # t => pc'[s] = pc[s] /\ batch'[s] = batch[s]
      BY <2>8 DEF StorePrevious, Goto, TypeOK
    <3>2. QED
      BY <3>1 DEF AttributionInv
  <2>9. ASSUME NEW t \in Threads, Body(t), Return(t) PROVE AttributionInv'
    <3>1. /\ UNCHANGED <<clock, last_init_pos, batch>>
          /\ pc[t] \in {"body", "swap"} /\ pc'[t] = "idle" /\ arg'[t] = NoUpdate
          /\ \A s \in Threads : s # t =>
               pc'[s] = pc[s] /\ arg'[s] = arg[s] /\ lastInit'[s] = lastInit[s]
      BY <2>9 DEF Body, ReadPrevious, AddLong, LoadCurrent, SwapCurrent, SwapFails, Return, Goto, TypeOK
    <3>2. \A u \in contents' :
            \/ u \in contents
            \/ arg[t] # NoUpdate /\ u.step = arg[t].step /\ u.landed = clock
      <4>1. \/ contents' = contents
            \/ arg[t] # NoUpdate /\ contents' = contents \cup {[arg[t] EXCEPT !.landed = clock]}
        BY <2>9 DEF Body, ReadPrevious, AddLong, LoadCurrent, SwapCurrent, SwapFails, Land, TypeOK
      <4>2. arg[t] # NoUpdate => /\ [arg[t] EXCEPT !.landed = clock].step = arg[t].step
                                 /\ [arg[t] EXCEPT !.landed = clock].landed = clock
        BY DEF TypeOK
      <4>3. QED
        BY <4>1, <4>2
    <3>3. \A s \in Threads : pc[s] = "exchange" => lastInit[s] <= clock
      BY <2>1 DEF PromptInv, Rolling, InRoll
    <3>4. QED
      BY <2>1, <3>1, <3>2, <3>3 DEF AttributionInv
  <2>10. ASSUME NEW t \in Threads, Body(t)
         PROVE  AttributionInv'
    <3>1. Return(t) \/ (LoadCurrent(t) /\ Goto(t, "swap") /\ UNCHANGED <<clockVars, shared, arg, stepTime, lastInit, v, calls, history>>)
          \/ SwapFails(t)
      BY <2>10 DEF Body, ReadPrevious, AddLong, LoadCurrent, SwapCurrent
    <3>2. CASE LoadCurrent(t) /\ Goto(t, "swap") /\ UNCHANGED <<clockVars, shared, arg, stepTime, lastInit, v, calls, history>>
      <4>1. /\ UNCHANGED <<clock, last_init_pos, arg, contents, batch, lastInit>>
            /\ pc[t] = "body" /\ pc'[t] = "swap"
            /\ \A s \in Threads : s # t => pc'[s] = pc[s]
        BY <3>2 DEF LoadCurrent, Goto, TypeOK
      <4>2. QED
        BY <4>1 DEF AttributionInv
    <3>3. QED
      BY <2>4, <2>9, <2>10, <3>1, <3>2
  <2>11. QED
    BY <2>2, <2>3, <2>4, <2>5, <2>6, <2>7, <2>8, <2>10 DEF Next, Roll
<1>3. QED
  BY <1>1, <1>2, TypeCorrect, PromptInvariant, PTL DEF Spec

\* When no step boundary falls inside a roll, an update is published for the
\* step before the one in which its call read the clock at the earliest and for
\* the one it landed in at the latest, for any number of threads.
THEOREM Attribution ==
  ASSUME PromptRolls, ~ClockMayStepBack PROVE Spec => AttributedWithinOneStep
<1>1. TypeOK /\ PromptInv /\ AttributionInv /\ [Next]_vars =>
        [\A t \in Threads : \A u \in batch[t] \cap (published' \ published) :
           u.step - 1 <= stepTime[t] - 1 /\ stepTime[t] - 1 <= u.landed]_vars
  <2> SUFFICES ASSUME TypeOK, PromptInv, AttributionInv, [Next]_vars,
                      NEW t \in Threads, NEW u \in batch[t] \cap (published' \ published)
               PROVE  u.step - 1 <= stepTime[t] - 1 /\ stepTime[t] - 1 <= u.landed
    OBVIOUS
  <2>1. pc[t] = "store" /\ u.step <= clock /\ lastInit[t] <= u.landed
    BY DEF AttributionInv
  <2>2. stepTime[t] = clock
    BY <2>1 DEF PromptInv, InRoll, Rolling
  <2>3. lastInit[t] = stepTime[t] - 1
    <3>1. PICK s \in Threads : StorePrevious(s) /\ published' = published \cup batch[s]
                               /\ lastInit[s] = stepTime[s] - 1
      BY DEF Next, TickForward, TickBack, BeginPoll, BeginUpdate, Roll, LoadInitPos,
             CasInitPos, ExchangeCurrent, StorePrevious, Body, ReadPrevious, AddLong,
             LoadCurrent, SwapCurrent, SwapFails, Return, vars
    <3>2. s = t
      BY <2>1, <3>1 DEF PromptInv, Rolling, StorePrevious
    <3>3. QED
      BY <3>1, <3>2
  <2>4. u.step \in Nat /\ u.landed \in Nat /\ clock \in Nat
    BY DEF TypeOK, Updates
  <2>5. QED
    BY <2>1, <2>2, <2>3, <2>4
<1>2. QED
  BY <1>1, TypeCorrect, PromptInvariant, AttributionInvariant, PTL
     DEF Spec, AttributedWithinOneStep

-----------------------------------------------------------------------------
(* The refinement mapping, by what the only roller is doing. *)

LEMMA BucketBeforeExchange ==
  ASSUME PromptInv, NEW t \in Threads, pc[t] = "exchange"
  PROVE  BucketPos = lastInit[t] /\ BucketLast = previous
BY DEF PromptInv, Rolling, BucketPos, BucketLast

LEMMA BucketBeforeStore ==
  ASSUME PromptInv, NEW t \in Threads, pc[t] = "store"
  PROVE  /\ BucketPos = last_init_pos
         /\ BucketLast = IF lastInit[t] = stepTime[t] - 1 THEN v[t] ELSE InitValue
BY DEF PromptInv, Rolling, BucketPos, BucketLast

LEMMA BucketAtRest ==
  ASSUME \A t \in Threads : ~Rolling(t)
  PROVE  BucketPos = last_init_pos /\ BucketLast = previous
BY DEF Rolling, BucketPos, BucketLast

\* A step of a thread that is not rolling, before or after, and that leaves the
\* rollers' locals alone does not move the bucket's mapped position and value.
LEMMA BucketUnmoved ==
  ASSUME TypeOK, PromptInv, NEW t \in Threads, ~Rolling(t), ~Rolling(t)',
         \A s \in Threads \ {t} :
           /\ pc'[s] = pc[s] /\ lastInit'[s] = lastInit[s]
           /\ stepTime'[s] = stepTime[s] /\ v'[s] = v[s],
         UNCHANGED <<last_init_pos, previous>>
  PROVE  UNCHANGED <<BucketPos, BucketLast>>
<1>1. \A s \in Threads : pc[s] = "exchange" <=> pc'[s] = "exchange"
  BY DEF Rolling
<1>2. \A s \in Threads : pc[s] = "store" <=> pc'[s] = "store"
  BY DEF Rolling
<1>3. (CHOOSE s \in Threads : pc[s] = "exchange")
        = CHOOSE s \in Threads : pc'[s] = "exchange"
  BY <1>1
<1>4. (CHOOSE s \in Threads : pc[s] = "store")
        = CHOOSE s \in Threads : pc'[s] = "store"
  BY <1>2
<1>5. BucketPos' = BucketPos
  <2>1. CASE \E s \in Threads : pc[s] = "exchange"
    <3> DEFINE r == CHOOSE s \in Threads : pc[s] = "exchange"
    <3>1. r \in Threads /\ r # t
      BY <2>1 DEF Rolling
    <3>2. QED
      BY <2>1, <3>1, <1>1, <1>3 DEF BucketPos
  <2>2. CASE ~\E s \in Threads : pc[s] = "exchange"
    BY <2>2, <1>1 DEF BucketPos
  <2>3. QED
    BY <2>1, <2>2
<1>6. BucketLast' = BucketLast
  <2>1. CASE \E s \in Threads : pc[s] = "store"
    <3> DEFINE r == CHOOSE s \in Threads : pc[s] = "store"
    <3>1. r \in Threads /\ r # t
      BY <2>1 DEF Rolling
    <3>2. lastInit'[r] = lastInit[r] /\ stepTime'[r] = stepTime[r] /\ v'[r] = v[r]
      BY <3>1
    <3>3. QED
      BY <2>1, <3>2, <1>2, <1>4 DEF BucketLast, InitValue
  <2>2. CASE ~\E s \in Threads : pc[s] = "store"
    BY <2>2, <1>2 DEF BucketLast
  <2>3. QED
    BY <2>1, <2>2
<1>7. QED
  BY <1>5, <1>6

-----------------------------------------------------------------------------
\* Concurrent use is linearizable: each behaviour of the lock-free bucket is,
\* under the mapping, one of the bucket whose operations are atomic.
THEOREM ImplementsStepBucket ==
  ASSUME PromptRolls, ~ClockMayStepBack PROVE Spec => ImplementsBucket
<1>1. Init => Bucket!Init
  BY BucketAtRest DEF Init, Bucket!Init, Rolling, InitValue
<1>2. TypeOK /\ PromptInv /\ PromptInv' /\ [Next]_vars
        => [Bucket!Next]_(Bucket!bucketVars)
  <2> SUFFICES ASSUME TypeOK, PromptInv, PromptInv', [Next]_vars
               PROVE  \/ Bucket!Next
                      \/ UNCHANGED <<clock, BucketPos, current, BucketLast>>
    BY DEF Bucket!bucketVars
  <2>1. CASE TickForward
    <3>1. \A t \in Threads : ~Rolling(t) /\ ~Rolling(t)'
      BY <2>1 DEF TickForward, InRoll, Rolling
    <3>2. /\ BucketPos = last_init_pos /\ BucketLast = previous
          /\ BucketPos' = last_init_pos' /\ BucketLast' = previous'
      BY <3>1, BucketAtRest DEF Rolling, BucketPos, BucketLast
    <3>3. Bucket!Tick
      BY <2>1, <3>2, ConstantsAssumption DEF TickForward, Bucket!Tick, TypeOK
    <3>4. QED
      BY <3>3 DEF Bucket!Next
  <2>2. CASE TickBack
    BY <2>2 DEF TickBack
  <2>3. CASE UNCHANGED vars
    BY <2>3 DEF vars, BucketPos, BucketLast
  <2>4. ASSUME NEW t \in Threads,
               \/ BeginPoll(t) \/ LoadInitPos(t)
               \/ \E a \in Amounts : BeginUpdate(t, a)
        PROVE  UNCHANGED <<clock, BucketPos, current, BucketLast>>
    <3>1. /\ ~Rolling(t) /\ ~Rolling(t)'
          /\ \A s \in Threads \ {t} :
               /\ pc'[s] = pc[s] /\ lastInit'[s] = lastInit[s]
               /\ stepTime'[s] = stepTime[s] /\ v'[s] = v[s]
          /\ UNCHANGED <<clock, current, last_init_pos, previous>>
      BY <2>4 DEF BeginPoll, BeginUpdate, LoadInitPos, Goto, Rolling, TypeOK
    <3>2. QED
      BY <3>1, BucketUnmoved
  <2>5. ASSUME NEW t \in Threads, CasInitPos(t)
        PROVE  UNCHANGED <<clock, BucketPos, current, BucketLast>>
    <3>1. CASE last_init_pos # lastInit[t]
      <4>1. /\ ~Rolling(t) /\ ~Rolling(t)'
            /\ \A s \in Threads \ {t} : pc'[s] = pc[s]
            /\ UNCHANGED <<clock, current, last_init_pos, previous,
                           lastInit, stepTime, v>>
        BY <2>5, <3>1 DEF CasInitPos, Goto, Rolling, TypeOK
      <4>2. QED
        BY <4>1, BucketUnmoved
    <3>2. CASE last_init_pos = lastInit[t]
      <4>1. \A s \in Threads : ~Rolling(s)
        BY <2>5, <3>2 DEF CasInitPos, PromptInv, InRoll, TypeOK
      <4>2. BucketPos = lastInit[t] /\ BucketLast = previous
        BY <4>1, <3>2, BucketAtRest
      <4>3. pc'[t] = "exchange" /\ UNCHANGED <<clock, current, lastInit, previous>>
        BY <2>5, <3>2 DEF CasInitPos, Goto, TypeOK
      <4>4. \A s \in Threads : pc'[s] \in {"exchange", "store"} => s = t
        BY <2>5, <4>1 DEF CasInitPos, Goto, Rolling, TypeOK
      <4>5. BucketPos' = lastInit'[t] /\ BucketLast' = previous'
        BY <4>3, <4>4 DEF BucketPos, BucketLast
      <4>6. QED
        BY <4>2, <4>3, <4>5
    <3>3. QED
      BY <3>1, <3>2
  <2>6. ASSUME NEW t \in Threads, ExchangeCurrent(t) PROVE Bucket!Next
    <3>1. pc[t] = "exchange" /\ pc'[t] = "store"
      BY <2>6 DEF ExchangeCurrent, Goto, TypeOK
    <3>2. BucketPos = lastInit[t] /\ BucketLast = previous
      BY <3>1, BucketBeforeExchange
    <3>3. /\ BucketPos' = last_init_pos'
          /\ BucketLast' = IF lastInit'[t] = stepTime'[t] - 1 THEN v'[t] ELSE InitValue
      <4>1. \A s \in Threads : pc'[s] \in {"exchange", "store"} => s = t
        BY <3>1, <2>6 DEF PromptInv, Rolling
      <4>2. QED
        BY <3>1, <4>1 DEF BucketPos, BucketLast, InitValue
    <3>4. last_init_pos' = clock /\ stepTime[t] = clock /\ lastInit[t] < clock
      <4>1. last_init_pos = clock /\ stepTime[t] = clock
        BY <3>1 DEF PromptInv, Rolling, InRoll
      <4>2. lastInit[t] < stepTime[t]
        BY <3>1 DEF PromptInv, Rolling
      <4>3. QED
        BY <2>6, <4>1, <4>2 DEF ExchangeCurrent
    <3>5. /\ v'[t] = current /\ current' = 0
          /\ UNCHANGED <<clock, lastInit, stepTime>>
      BY <2>6 DEF ExchangeCurrent, InitValue, TypeOK
    <3>6. QED
      BY <3>2, <3>3, <3>4, <3>5 DEF Bucket!Next, Bucket!Roll, InitValue
  <2>7. ASSUME NEW t \in Threads, StorePrevious(t)
        PROVE  UNCHANGED <<clock, BucketPos, current, BucketLast>>
    <3>1. pc[t] = "store"
      BY <2>7 DEF StorePrevious
    <3>2. /\ BucketPos = last_init_pos
          /\ BucketLast = IF lastInit[t] = stepTime[t] - 1 THEN v[t] ELSE InitValue
      BY <3>1, BucketBeforeStore
    <3>3. \A s \in Threads : ~Rolling(s)'
      BY <3>1, <2>7 DEF StorePrevious, PromptInv, Rolling, Goto, TypeOK
    <3>4. BucketPos' = last_init_pos' /\ BucketLast' = previous'
      BY <3>3 DEF Rolling, BucketPos, BucketLast
    <3>5. QED
      BY <2>7, <3>2, <3>4 DEF StorePrevious
  <2>8. ASSUME NEW t \in Threads, Body(t)
        PROVE  Bucket!Next \/ UNCHANGED <<clock, BucketPos, current, BucketLast>>
    <3>1. /\ ~Rolling(t) /\ ~Rolling(t)'
          /\ \A s \in Threads \ {t} :
               /\ pc'[s] = pc[s] /\ lastInit'[s] = lastInit[s]
               /\ stepTime'[s] = stepTime[s] /\ v'[s] = v[s]
          /\ UNCHANGED <<clock, last_init_pos, previous>>
      BY <2>8 DEF Body, ReadPrevious, AddLong, LoadCurrent, SwapCurrent,
                  SwapFails, Return, Goto, Rolling, TypeOK
    <3>2. UNCHANGED <<clock, BucketPos, BucketLast>>
      BY <3>1, BucketUnmoved
    <3>3. CASE ReadPrevious(t) \/ LoadCurrent(t) \/ SwapFails(t)
      BY <3>2, <3>3 DEF ReadPrevious, LoadCurrent, SwapFails
    <3>4. CASE AddLong(t)
      <4>1. arg[t].amount \in Amounts /\ current' = Bucket!Merge(current, arg[t].amount)
        BY <3>4 DEF AddLong, Bucket!Merge, TypeOK
      <4>2. QED
        BY <3>2, <4>1 DEF Bucket!Next, Bucket!Update
    <3>5. CASE SwapCurrent(t)
      <4>1. arg[t].amount \in Amounts
        BY <3>5 DEF SwapCurrent, TypeOK
      <4>2. current' = Bucket!Merge(current, arg[t].amount)
        BY <3>5 DEF SwapCurrent, Bucket!Merge, PromptInv
      <4>3. QED
        BY <3>2, <4>1, <4>2 DEF Bucket!Next, Bucket!Update
    <3>6. QED
      BY <2>8, <3>3, <3>4, <3>5 DEF Body
  <2>9. QED
    BY <2>1, <2>2, <2>3, <2>4, <2>5, <2>6, <2>7, <2>8
       DEF Next, Roll
<1>3. QED
  BY <1>1, <1>2, TypeCorrect, PromptInvariant, PTL
     DEF Spec, ImplementsBucket, Bucket!Spec
=============================================================================
