-------------------------- MODULE InterpreterProofs --------------------------
(***************************************************************************)
(* Proofs about module Interpreter: whatever program over whatever         *)
(* vocabulary is run, the stack holds expressions, a query matches what    *)
(* was written whatever was simplified, a rule loses nothing for getting   *)
(* only what its query picks, groups are those of what was selected, and   *)
(* the index of module QueryIndex finds exactly the queries that match.    *)
(*                                                                         *)
(* Queries are nested, so what is computed from them is proved level by    *)
(* level, the levels being those of QueriesUpTo.                           *)
(***************************************************************************)
EXTENDS QueryIndex, FiniteSetTheorems, NaturalsInduction, WellFoundedInduction, TLAPS

-----------------------------------------------------------------------------
(* Queries, level by level *)

LEMMA Least ==
  ASSUME NEW T \in SUBSET Nat, T # {}
  PROVE  \E n \in T : \A k \in T : n <= k
<1>1. PICK n \in T : \A k \in T : ~(<<k, n>> \in OpToRel(<, Nat))
  BY NatLessThanWellFounded, WFMin
<1>2. \A k \in T : ~(k < n)
  BY <1>1 DEF OpToRel
<1>3. QED
  BY <1>2

LEMMA Induction ==
  ASSUME NEW T, 0 \in T, \A n \in Nat : n \in T => n + 1 \in T
  PROVE  \A n \in Nat : n \in T
<1> SUFFICES ASSUME Nat \ T # {} PROVE FALSE
  OBVIOUS
<1>1. PICK n \in Nat \ T : \A k \in Nat \ T : n <= k
  BY Least
<1>2. n # 0 /\ n - 1 \in Nat /\ ~(n <= n - 1)
  BY <1>1
<1>3. QED
  BY <1>1, <1>2

\* The queries whose operands are those given.
Over(Operands) ==
  SimpleQueries \cup [type : {"Not"}, q1 : Operands]
    \cup [type : {"And", "Or"}, q1 : Operands, q2 : Operands]

\* g has the levels up to n.
Levels(g, n) == g = [k \in 0..n |-> IF k = 0 THEN SimpleQueries ELSE Over(g[k - 1])]

LEMMA LevelsExist == \A n \in Nat : \E g : Levels(g, n)
<1> DEFINE T == {n \in Nat : \E g : Levels(g, n)}
<1>1. 0 \in T
  <2> DEFINE g == [k \in 0..0 |-> SimpleQueries]
  <2>1. Levels(g, 0)
    BY DEF Levels
  <2>2. QED
    BY <2>1
<1>2. ASSUME NEW n \in Nat, n \in T
      PROVE  n + 1 \in T
  <2>1. PICK g : Levels(g, n)
    BY <1>2
  <2> DEFINE h == [k \in 0..(n + 1) |-> IF k = 0 THEN SimpleQueries ELSE Over(g[k - 1])]
  <2>2. \A k \in 0..n : h[k] = g[k]
    BY <2>1 DEF Levels
  <2>3. \A k \in 0..(n + 1) : k # 0 => k - 1 \in 0..n
    OBVIOUS
  <2>4. \A k \in 0..(n + 1) : k # 0 => h[k - 1] = g[k - 1]
    BY <2>2, <2>3
  <2>5. Levels(h, n + 1)
    BY <2>4 DEF Levels
  <2>6. QED
    BY <2>5
<1> HIDE DEF T
<1>3. \A n \in Nat : n \in T
  BY <1>1, <1>2, Induction
<1>4. QED
  BY <1>3 DEF T

LEMMA LevelsUnique ==
  ASSUME NEW n \in Nat, NEW m \in Nat, NEW g, NEW h, Levels(g, n), Levels(h, m)
  PROVE  \A k \in Nat : k <= n /\ k <= m => g[k] = h[k]
<1> DEFINE T == {k \in Nat : k <= n /\ k <= m => g[k] = h[k]}
<1>1. 0 \in T
  BY DEF Levels
<1>2. ASSUME NEW k \in Nat, k \in T
      PROVE  k + 1 \in T
  <2> SUFFICES ASSUME k + 1 <= n, k + 1 <= m
               PROVE  g[k + 1] = h[k + 1]
    OBVIOUS
  <2>1. g[k] = h[k]
    BY <1>2
  <2>2. k + 1 \in 0..n /\ k + 1 \in 0..m /\ k + 1 # 0 /\ (k + 1) - 1 = k
    OBVIOUS
  <2>3. g[k + 1] = Over(g[k]) /\ h[k + 1] = Over(h[k])
    BY <2>2 DEF Levels
  <2>4. QED
    BY <2>1, <2>3
<1> HIDE DEF T
<1>3. \A k \in Nat : k \in T
  BY <1>1, <1>2, Induction
<1>4. QED
  BY <1>3 DEF T

IsQueriesUpTo(f) == f = [n \in Nat |-> IF n = 0 THEN SimpleQueries ELSE Over(f[n - 1])]

LEMMA QueriesUpToDef == IsQueriesUpTo(QueriesUpTo)
<1> DEFINE G(n) == CHOOSE g : Levels(g, n)
           F == [n \in Nat |-> G(n)[n]]
<1>1. \A n \in Nat : Levels(G(n), n)
  BY LevelsExist
<1> HIDE DEF G
<1>2. ASSUME NEW n \in Nat
      PROVE  F[n] = IF n = 0 THEN SimpleQueries ELSE Over(F[n - 1])
  <2>1. G(n)[n] = IF n = 0 THEN SimpleQueries ELSE Over(G(n)[n - 1])
    BY <1>1 DEF Levels
  <2>2. CASE n = 0
    BY <2>1, <2>2
  <2>3. CASE n # 0
    <3>1. n - 1 \in Nat /\ n - 1 <= n /\ n - 1 <= n - 1
      BY <2>3
    <3>2. G(n)[n - 1] = G(n - 1)[n - 1]
      BY <1>1, <3>1, LevelsUnique
    <3>3. QED
      BY <2>1, <2>3, <3>1, <3>2
  <2>4. QED
    BY <2>2, <2>3
<1>3. F = [n \in Nat |-> IF n = 0 THEN SimpleQueries ELSE Over(F[n - 1])]
  BY <1>2
<1>4. \E f : IsQueriesUpTo(f)
  <2> HIDE DEF F
  <2>1. IsQueriesUpTo(F)
    BY <1>3 DEF IsQueriesUpTo
  <2>2. QED
    BY <2>1
<1>5. QueriesUpTo = CHOOSE f : IsQueriesUpTo(f)
  BY DEF QueriesUpTo, IsQueriesUpTo, Over
<1>6. QED
  BY <1>4, <1>5

LEMMA Level ==
  /\ QueriesUpTo[0] = SimpleQueries
  /\ \A n \in Nat : QueriesUpTo[n + 1] = Over(QueriesUpTo[n])
<1>1. \A n \in Nat : QueriesUpTo[n] = IF n = 0 THEN SimpleQueries ELSE Over(QueriesUpTo[n - 1])
  BY QueriesUpToDef DEF IsQueriesUpTo
<1>2. \A n \in Nat : n + 1 \in Nat /\ n + 1 # 0 /\ (n + 1) - 1 = n
  OBVIOUS
<1>3. \A n \in Nat : QueriesUpTo[n + 1] = Over(QueriesUpTo[n])
  BY <1>1, <1>2
<1>4. QED
  BY <1>1, <1>3

LEMMA LevelsGrow == \A n \in Nat : QueriesUpTo[n] \subseteq QueriesUpTo[n + 1]
<1> DEFINE T == {n \in Nat : QueriesUpTo[n] \subseteq QueriesUpTo[n + 1]}
<1>1. 0 \in T
  BY Level DEF Over
<1>2. ASSUME NEW n \in Nat, n \in T
      PROVE  n + 1 \in T
  <2>1. QueriesUpTo[n + 1] = Over(QueriesUpTo[n]) /\ QueriesUpTo[n + 1 + 1] = Over(QueriesUpTo[n + 1])
    BY Level
  <2>2. QueriesUpTo[n] \subseteq QueriesUpTo[n + 1]
    BY <1>2
  <2>3. Over(QueriesUpTo[n]) \subseteq Over(QueriesUpTo[n + 1])
    BY <2>2 DEF Over
  <2>4. QED
    BY <2>1, <2>3
<1> HIDE DEF T
<1>3. \A n \in Nat : n \in T
  BY <1>1, <1>2, Induction
<1>4. QED
  BY <1>3 DEF T

LEMMA LevelsMonotone ==
  ASSUME NEW m \in Nat, NEW n \in Nat, m <= n
  PROVE  QueriesUpTo[m] \subseteq QueriesUpTo[n]
<1> DEFINE T == {k \in Nat : QueriesUpTo[m] \subseteq QueriesUpTo[m + k]}
<1>1. 0 \in T
  OBVIOUS
<1>2. ASSUME NEW k \in Nat, k \in T
      PROVE  k + 1 \in T
  <2>1. QueriesUpTo[m + k] \subseteq QueriesUpTo[m + k + 1]
    BY LevelsGrow
  <2>2. m + k + 1 = m + (k + 1)
    OBVIOUS
  <2>3. QED
    BY <1>2, <2>1, <2>2
<1>3. n - m \in T
  <2> HIDE DEF T
  <2>1. QED
    BY <1>1, <1>2, Induction
<1>4. m + (n - m) = n
  OBVIOUS
<1>5. QED
  BY <1>3, <1>4

\* What the queries of a level are made of.
LEMMA Shapes ==
  ASSUME NEW n \in Nat, NEW q \in QueriesUpTo[n + 1]
  PROVE  \/ q \in SimpleQueries
         \/ q \in [type : {"Not"}, q1 : QueriesUpTo[n]]
         \/ q \in [type : {"And", "Or"}, q1 : QueriesUpTo[n], q2 : QueriesUpTo[n]]
BY Level DEF Over

SimpleTypes == {"True", "False", "HasKey", "RelOp", "Regex", "In"}

LEMMA SimpleType ==
  ASSUME NEW q \in SimpleQueries
  PROVE  q.type \in SimpleTypes
BY DEF SimpleQueries, SimpleTypes

\* Every query is simple or has its operands one level down.
LEMMA Operands ==
  ASSUME NEW n \in Nat, NEW q \in QueriesUpTo[n + 1]
  PROVE  /\ q.type \in SimpleTypes \cup {"Not", "And", "Or"}
         /\ q.type \in SimpleTypes => q \in SimpleQueries
         /\ q.type \in {"Not", "And", "Or"} => q.q1 \in QueriesUpTo[n]
         /\ q.type \in {"And", "Or"} => q.q2 \in QueriesUpTo[n]
<1>1. CASE q \in SimpleQueries
  BY <1>1, SimpleType DEF SimpleTypes
<1>2. CASE q \in [type : {"Not"}, q1 : QueriesUpTo[n]]
  BY <1>2 DEF SimpleTypes
<1>3. CASE q \in [type : {"And", "Or"}, q1 : QueriesUpTo[n], q2 : QueriesUpTo[n]]
  BY <1>3 DEF SimpleTypes
<1>4. QED
  BY <1>1, <1>2, <1>3, Shapes

-----------------------------------------------------------------------------
(* The recursive functions over queries *)

MatchStep(f, s, tags) ==
  \/ s.type = "True"
  \/ s.type = "Not" /\ ~f[s.q1]
  \/ s.type = "And" /\ f[s.q1] /\ f[s.q2]
  \/ s.type = "Or"  /\ (f[s.q1] \/ f[s.q2])
  \/ s.type \in KeyQueryTypes /\ s.key \in DOMAIN tags /\ MatchesTag(s, tags[s.key])

IsMatching(f, D, tags) == f = [s \in D |-> MatchStep(f, s, tags)]

LEMMA MatchStepAgrees ==
  ASSUME NEW f, NEW g, NEW s, NEW tags,
         s.type \in {"Not", "And", "Or"} => f[s.q1] = g[s.q1],
         s.type \in {"And", "Or"} => f[s.q2] = g[s.q2]
  PROVE  MatchStep(f, s, tags) = MatchStep(g, s, tags)
BY DEF MatchStep

LEMMA MatchingExists ==
  ASSUME NEW tags
  PROVE  \A n \in Nat : \E f : IsMatching(f, QueriesUpTo[n], tags)
<1> DEFINE T == {n \in Nat : \E f : IsMatching(f, QueriesUpTo[n], tags)}
<1>1. 0 \in T
  <2> DEFINE none == [s \in {} |-> FALSE]
             f == [s \in QueriesUpTo[0] |-> MatchStep(none, s, tags)]
  <2>1. \A s \in QueriesUpTo[0] : s.type \notin {"Not", "And", "Or"}
    BY Level, SimpleType DEF SimpleTypes
  <2>2. \A s \in QueriesUpTo[0] : MatchStep(none, s, tags) = MatchStep(f, s, tags)
    <3> HIDE DEF none, f
    <3>1. QED
      BY <2>1, MatchStepAgrees
  <2>3. IsMatching(f, QueriesUpTo[0], tags)
    <3>1. f = [s \in QueriesUpTo[0] |-> MatchStep(f, s, tags)]
      BY <2>2
    <3>2. QED
      BY <3>1 DEF IsMatching
  <2>4. QED
    BY <2>3
<1>2. ASSUME NEW n \in Nat, n \in T
      PROVE  n + 1 \in T
  <2>1. PICK g : IsMatching(g, QueriesUpTo[n], tags)
    BY <1>2
  <2> DEFINE f == [s \in QueriesUpTo[n + 1] |-> MatchStep(g, s, tags)]
  <2>2. \A s \in QueriesUpTo[n] : f[s] = g[s]
    BY <2>1, LevelsGrow DEF IsMatching
  <2>3. ASSUME NEW s \in QueriesUpTo[n + 1]
        PROVE  MatchStep(g, s, tags) = MatchStep(f, s, tags)
    <3>1. /\ s.type \in {"Not", "And", "Or"} => f[s.q1] = g[s.q1]
          /\ s.type \in {"And", "Or"} => f[s.q2] = g[s.q2]
      <4> HIDE DEF f
      <4>1. QED
        BY <2>2, Operands
    <3> HIDE DEF f
    <3>2. QED
      BY <3>1, MatchStepAgrees
  <2>4. f = [s \in QueriesUpTo[n + 1] |-> MatchStep(f, s, tags)]
    BY <2>3
  <2>5. IsMatching(f, QueriesUpTo[n + 1], tags)
    BY <2>4 DEF IsMatching
  <2>6. QED
    BY <2>5
<1> HIDE DEF T
<1>3. \A n \in Nat : n \in T
  BY <1>1, <1>2, Induction
<1>4. QED
  BY <1>3 DEF T

\* The recursion equation of Matches.
LEMMA MatchesDef ==
  ASSUME MaxDepth \in Nat, NEW tags
  PROVE  \E f : /\ IsMatching(f, QuerySet, tags)
                /\ \A q : Matches(q, tags) = f[q]
<1> DEFINE f == CHOOSE g : IsMatching(g, QuerySet, tags)
<1>1. IsMatching(f, QuerySet, tags)
  BY MatchingExists DEF QuerySet
<1>2. \A q : Matches(q, tags) = f[q]
  BY DEF Matches, IsMatching, MatchStep
<1>3. QED
  BY <1>1, <1>2

LEMMA MatchesIs ==
  ASSUME MaxDepth \in Nat, NEW tags, NEW q \in QuerySet
  PROVE  /\ q.type = "True"  => Matches(q, tags)
         /\ q.type = "False" => ~Matches(q, tags)
         /\ q.type = "Not"   => (Matches(q, tags) <=> ~Matches(q.q1, tags))
         /\ q.type = "And"   => (Matches(q, tags) <=> Matches(q.q1, tags) /\ Matches(q.q2, tags))
         /\ q.type = "Or"    => (Matches(q, tags) <=> Matches(q.q1, tags) \/ Matches(q.q2, tags))
         /\ q.type \in KeyQueryTypes =>
              (Matches(q, tags) <=> q.key \in DOMAIN tags /\ MatchesTag(q, tags[q.key]))
<1>1. PICK f : IsMatching(f, QuerySet, tags) /\ \A s : Matches(s, tags) = f[s]
  BY MatchesDef
<1>2. Matches(q, tags) = MatchStep(f, q, tags)
  BY <1>1 DEF IsMatching
<1>3. QED
  BY <1>1, <1>2 DEF MatchStep, KeyQueryTypes

\* The operands of a query are queries.
LEMMA OperandsAreQueries ==
  ASSUME MaxDepth \in Nat, NEW q \in QuerySet
  PROVE  /\ q.type \in SimpleTypes \cup {"Not", "And", "Or"}
         /\ q.type \in SimpleTypes => q \in SimpleQueries
         /\ q.type \in {"Not", "And", "Or"} => q.q1 \in QuerySet
         /\ q.type \in {"And", "Or"} => q.q2 \in QuerySet
<1>1. CASE MaxDepth = 0
  BY <1>1, Level, SimpleType DEF QuerySet, SimpleTypes
<1>2. CASE MaxDepth # 0
  <2>1. MaxDepth - 1 \in Nat /\ (MaxDepth - 1) + 1 = MaxDepth
    BY <1>2
  <2>2. QueriesUpTo[MaxDepth - 1] \subseteq QuerySet /\ q \in QueriesUpTo[(MaxDepth - 1) + 1]
    BY <2>1, LevelsMonotone DEF QuerySet
  <2>3. QED
    BY <2>1, <2>2, Operands
<1>3. QED
  BY <1>1, <1>2

EqualStep(f, s, t) ==
  /\ s.type = t.type
  /\ CASE s.type = "Not" -> f[s.q1][t.q1]
       [] s.type \in {"And", "Or"} ->
            \/ f[s.q1][t.q1] /\ f[s.q2][t.q2]
            \/ f[s.q1][t.q2] /\ f[s.q2][t.q1]
       [] OTHER -> s = t

IsEquality(f, D) == f = [s \in D |-> [t \in D |-> EqualStep(f, s, t)]]

LEMMA EqualityExists == \A n \in Nat : \E f : IsEquality(f, QueriesUpTo[n])
<1> DEFINE T == {n \in Nat : \E f : IsEquality(f, QueriesUpTo[n])}
<1>1. 0 \in T
  <2> DEFINE D == QueriesUpTo[0]
             f == [s \in D |-> [t \in D |-> s.type = t.type /\ s = t]]
  <2>1. \A s \in D : s.type \notin {"Not", "And", "Or"}
    BY Level, SimpleType DEF SimpleTypes
  <2>2. \A s \in D, t \in D : (s.type = t.type /\ s = t) = EqualStep(f, s, t)
    <3> HIDE DEF f
    <3>1. QED
      BY <2>1 DEF EqualStep
  <2>3. f = [s \in D |-> [t \in D |-> EqualStep(f, s, t)]]
    BY <2>2
  <2>4. IsEquality(f, D)
    BY <2>3 DEF IsEquality
  <2>5. QED
    BY <2>4
<1>2. ASSUME NEW n \in Nat, n \in T
      PROVE  n + 1 \in T
  <2>1. PICK g : IsEquality(g, QueriesUpTo[n])
    BY <1>2
  <2> DEFINE D == QueriesUpTo[n + 1]
             f == [s \in D |-> [t \in D |-> EqualStep(g, s, t)]]
  <2>2. \A s \in QueriesUpTo[n], t \in QueriesUpTo[n] : f[s][t] = g[s][t]
    <3>1. \A s \in QueriesUpTo[n], t \in QueriesUpTo[n] : g[s][t] = EqualStep(g, s, t)
      BY <2>1 DEF IsEquality
    <3>2. \A s \in QueriesUpTo[n], t \in QueriesUpTo[n] : f[s][t] = EqualStep(g, s, t)
      BY LevelsGrow
    <3>3. QED
      BY <3>1, <3>2
  <2>3. ASSUME NEW s \in D, NEW t \in D
        PROVE  EqualStep(g, s, t) = EqualStep(f, s, t)
    <3> HIDE DEF f
    <3>1. CASE s.type = t.type /\ s.type = "Not"
      <4>1. f[s.q1][t.q1] = g[s.q1][t.q1]
        BY <3>1, <2>2, Operands
      <4>2. QED
        BY <3>1, <4>1 DEF EqualStep
    <3>2. CASE s.type = t.type /\ s.type \in {"And", "Or"}
      <4>1. /\ f[s.q1][t.q1] = g[s.q1][t.q1] /\ f[s.q2][t.q2] = g[s.q2][t.q2]
            /\ f[s.q1][t.q2] = g[s.q1][t.q2] /\ f[s.q2][t.q1] = g[s.q2][t.q1]
        BY <3>2, <2>2, Operands
      <4>2. QED
        BY <3>2, <4>1 DEF EqualStep
    <3>3. CASE ~(s.type = t.type /\ s.type \in {"Not", "And", "Or"})
      BY <3>3 DEF EqualStep
    <3>4. QED
      BY <3>1, <3>2, <3>3
  <2>4. f = [s \in D |-> [t \in D |-> EqualStep(f, s, t)]]
    BY <2>3
  <2>5. IsEquality(f, D)
    BY <2>4 DEF IsEquality
  <2>6. QED
    BY <2>5
<1> HIDE DEF T
<1>3. \A n \in Nat : n \in T
  BY <1>1, <1>2, Induction
<1>4. QED
  BY <1>3 DEF T

LEMMA EqualsDef ==
  ASSUME MaxDepth \in Nat
  PROVE  \E f : /\ IsEquality(f, QuerySet)
                /\ \A a, b : Equals(a, b) = f[a][b]
<1> DEFINE f == CHOOSE g : IsEquality(g, QuerySet)
<1>1. IsEquality(f, QuerySet)
  BY EqualityExists DEF QuerySet
<1>2. \A a, b : Equals(a, b) = f[a][b]
  BY DEF Equals, IsEquality, EqualStep
<1>3. QED
  BY <1>1, <1>2

LEMMA EqualsIs ==
  ASSUME MaxDepth \in Nat, NEW a \in QuerySet, NEW b \in QuerySet, Equals(a, b)
  PROVE  /\ a.type = b.type
         /\ a.type = "Not" => Equals(a.q1, b.q1)
         /\ a.type \in {"And", "Or"} =>
              \/ Equals(a.q1, b.q1) /\ Equals(a.q2, b.q2)
              \/ Equals(a.q1, b.q2) /\ Equals(a.q2, b.q1)
         /\ a.type \notin {"Not", "And", "Or"} => a = b
<1>1. PICK f : IsEquality(f, QuerySet) /\ \A s, t : Equals(s, t) = f[s][t]
  BY EqualsDef
<1>2. f[a][b] = EqualStep(f, a, b)
  BY <1>1 DEF IsEquality
<1>3. EqualStep(f, a, b)
  BY <1>1, <1>2
<1>4. QED
  BY <1>1, <1>3 DEF EqualStep

\* Equal queries match the same tags.
LEMMA EqualsMean ==
  ASSUME MaxDepth \in Nat, NEW tags
  PROVE  \A a \in QuerySet, b \in QuerySet : Equals(a, b) => (Matches(a, tags) <=> Matches(b, tags))
<1> DEFINE T == {n \in Nat : \A a \in QueriesUpTo[n] \cap QuerySet, b \in QuerySet :
                    Equals(a, b) => (Matches(a, tags) <=> Matches(b, tags))}
<1>1. 0 \in T
  <2> SUFFICES ASSUME NEW a \in QueriesUpTo[0], a \in QuerySet, NEW b \in QuerySet, Equals(a, b)
               PROVE  Matches(a, tags) <=> Matches(b, tags)
    OBVIOUS
  <2>1. a.type \notin {"Not", "And", "Or"}
    BY Level, SimpleType DEF SimpleTypes
  <2>2. QED
    BY <2>1, EqualsIs
<1>2. ASSUME NEW n \in Nat, n \in T
      PROVE  n + 1 \in T
  <2> SUFFICES ASSUME NEW a \in QueriesUpTo[n + 1], a \in QuerySet, NEW b \in QuerySet, Equals(a, b)
               PROVE  Matches(a, tags) <=> Matches(b, tags)
    OBVIOUS
  <2>1. a.type = b.type
    BY EqualsIs
  <2>2. \A c \in QueriesUpTo[n] \cap QuerySet, d \in QuerySet :
          Equals(c, d) => (Matches(c, tags) <=> Matches(d, tags))
    BY <1>2
  <2> HIDE DEF T
  <2>3. CASE a.type = "Not"
    <3>1. a.q1 \in QueriesUpTo[n] \cap QuerySet /\ b.q1 \in QuerySet
      BY <2>1, <2>3, Operands, OperandsAreQueries
    <3>2. Equals(a.q1, b.q1)
      BY <2>3, EqualsIs
    <3>3. Matches(a.q1, tags) <=> Matches(b.q1, tags)
      BY <2>2, <3>1, <3>2
    <3>4. QED
      BY <2>1, <2>3, <3>3, MatchesIs
  <2>4. CASE a.type \in {"And", "Or"}
    <3>1. /\ a.q1 \in QueriesUpTo[n] \cap QuerySet /\ b.q1 \in QuerySet
          /\ a.q2 \in QueriesUpTo[n] \cap QuerySet /\ b.q2 \in QuerySet
      BY <2>1, <2>4, Operands, OperandsAreQueries
    <3>2. \/ Equals(a.q1, b.q1) /\ Equals(a.q2, b.q2)
          \/ Equals(a.q1, b.q2) /\ Equals(a.q2, b.q1)
      BY <2>4, EqualsIs
    <3>3. \/ (Matches(a.q1, tags) <=> Matches(b.q1, tags)) /\ (Matches(a.q2, tags) <=> Matches(b.q2, tags))
          \/ (Matches(a.q1, tags) <=> Matches(b.q2, tags)) /\ (Matches(a.q2, tags) <=> Matches(b.q1, tags))
      BY <2>2, <3>1, <3>2
    <3>4. QED
      BY <2>1, <2>4, <3>3, MatchesIs
  <2>5. CASE a.type \notin {"Not", "And", "Or"}
    BY <2>5, EqualsIs
  <2>6. QED
    BY <2>3, <2>4, <2>5
<1>3. MaxDepth \in T
  <2> HIDE DEF T
  <2>1. QED
    BY <1>1, <1>2, Induction
<1>4. QED
  BY <1>3 DEF QuerySet

-----------------------------------------------------------------------------
(* What the constructors mean *)

LEMMA SimpleIn ==
  ASSUME NEW n \in Nat
  PROVE  SimpleQueries \subseteq QueriesUpTo[n]
BY Level, LevelsMonotone

LEMMA TruthIn ==
  /\ TrueQuery \in SimpleQueries /\ TrueQuery.type = "True"
  /\ FalseQuery \in SimpleQueries /\ FalseQuery.type = "False"
BY DEF SimpleQueries, TrueQuery, FalseQuery

\* A query that NotQ, AndQ or OrQ makes of operands is one level above them.
LEMMA Composed ==
  ASSUME NEW n \in Nat, NEW a \in QueriesUpTo[n], NEW b \in QueriesUpTo[n]
  PROVE  /\ [type |-> "Not", q1 |-> a] \in QueriesUpTo[n + 1]
         /\ \A type \in {"And", "Or"} : [type |-> type, q1 |-> a, q2 |-> b] \in QueriesUpTo[n + 1]
BY Level DEF Over

LEMMA PairMeans ==
  ASSUME NEW n \in Nat, MaxDepth \in Nat, n + 1 <= MaxDepth, NEW tags,
         NEW a \in QueriesUpTo[n], NEW b \in QueriesUpTo[n]
  PROVE  /\ \A type \in {"And", "Or"} : Pair(type, a, b) \in QueriesUpTo[n + 1]
         /\ Matches(Pair("And", a, b), tags) <=> Matches(a, tags) /\ Matches(b, tags)
         /\ Matches(Pair("Or", a, b), tags) <=> Matches(a, tags) \/ Matches(b, tags)
<1>1. \A type \in {"And", "Or"} : Pair(type, a, b) \in QueriesUpTo[n + 1]
  BY Composed DEF Pair
<1>2. QueriesUpTo[n + 1] \subseteq QuerySet
  BY LevelsMonotone DEF QuerySet
<1>3. Matches(Pair("And", a, b), tags) <=> Matches(a, tags) /\ Matches(b, tags)
  <2> DEFINE p == Pair("And", a, b)
  <2>1. p \in QuerySet /\ p.type = "And" /\ ((p.q1 = a /\ p.q2 = b) \/ (p.q1 = b /\ p.q2 = a))
    <3>1. \/ p = [type |-> "And", q1 |-> a, q2 |-> b]
          \/ p = [type |-> "And", q1 |-> b, q2 |-> a]
      BY Zenon DEF Pair
    <3>2. p \in QuerySet
      BY <1>1, <1>2
    <3> HIDE DEF p
    <3>3. QED
      BY <3>1, <3>2
  <2> HIDE DEF p
  <2>2. Matches(p, tags) <=> Matches(p.q1, tags) /\ Matches(p.q2, tags)
    BY <2>1, MatchesIs
  <2>3. Matches(p, tags) <=> Matches(a, tags) /\ Matches(b, tags)
    BY <2>1, <2>2
  <2>4. QED
    BY <2>3 DEF p
<1>4. Matches(Pair("Or", a, b), tags) <=> Matches(a, tags) \/ Matches(b, tags)
  <2> DEFINE p == Pair("Or", a, b)
  <2>1. p \in QuerySet /\ p.type = "Or" /\ ((p.q1 = a /\ p.q2 = b) \/ (p.q1 = b /\ p.q2 = a))
    <3>1. \/ p = [type |-> "Or", q1 |-> a, q2 |-> b]
          \/ p = [type |-> "Or", q1 |-> b, q2 |-> a]
      BY Zenon DEF Pair
    <3>2. p \in QuerySet
      BY <1>1, <1>2
    <3> HIDE DEF p
    <3>3. QED
      BY <3>1, <3>2
  <2> HIDE DEF p
  <2>2. Matches(p, tags) <=> Matches(p.q1, tags) \/ Matches(p.q2, tags)
    BY <2>1, MatchesIs
  <2>3. Matches(p, tags) <=> Matches(a, tags) \/ Matches(b, tags)
    BY <2>1, <2>2
  <2>4. QED
    BY <2>3 DEF p
<1>5. QED
  BY <1>1, <1>3, <1>4

LEMMA NotQMeans ==
  ASSUME NEW n \in Nat, MaxDepth \in Nat, n + 1 <= MaxDepth, NEW q \in QueriesUpTo[n]
  PROVE  /\ NotQ(q) \in QueriesUpTo[n + 1]
         /\ \A tags : Matches(NotQ(q), tags) <=> ~Matches(q, tags)
<1>1. QueriesUpTo[n] \subseteq QuerySet /\ QueriesUpTo[n + 1] \subseteq QuerySet /\ n + 1 \in Nat
  BY LevelsMonotone DEF QuerySet
<1>2. TrueQuery \in QueriesUpTo[n + 1] /\ FalseQuery \in QueriesUpTo[n + 1]
  BY <1>1, SimpleIn, TruthIn
<1>3. CASE q.type \in {"True", "False"}
  <2>1. \A tags : Matches(TrueQuery, tags) /\ ~Matches(FalseQuery, tags)
    BY <1>1, <1>2, TruthIn, MatchesIs
  <2>2. \A tags : Matches(q, tags) <=> q.type = "True"
    BY <1>1, <1>3, MatchesIs
  <2>3. NotQ(q) = IF q.type = "True" THEN FalseQuery ELSE TrueQuery
    BY <1>3 DEF NotQ
  <2>4. QED
    BY <1>2, <1>3, <2>1, <2>2, <2>3
<1>4. CASE q.type \notin {"True", "False"}
  <2> DEFINE p == [type |-> "Not", q1 |-> q]
  <2>1. NotQ(q) = p
    BY <1>4 DEF NotQ
  <2>2. p \in QueriesUpTo[n + 1] /\ p.type = "Not" /\ p.q1 = q
    BY Composed
  <2> HIDE DEF p
  <2>3. \A tags : Matches(p, tags) <=> ~Matches(q, tags)
    BY <1>1, <2>2, MatchesIs
  <2>4. QED
    BY <2>1, <2>2, <2>3
<1>5. QED
  BY <1>3, <1>4

LEMMA AndQMeans ==
  ASSUME NEW n \in Nat, MaxDepth \in Nat, n + 1 <= MaxDepth,
         NEW a \in QueriesUpTo[n], NEW b \in QueriesUpTo[n]
  PROVE  /\ AndQ(a, b) \in QueriesUpTo[n + 1]
         /\ \A tags : Matches(AndQ(a, b), tags) <=> Matches(a, tags) /\ Matches(b, tags)
<1>1. /\ QueriesUpTo[n] \subseteq QuerySet /\ QueriesUpTo[n] \subseteq QueriesUpTo[n + 1]
      /\ a \in QuerySet /\ b \in QuerySet
  BY LevelsMonotone DEF QuerySet
<1>2. \A tags : \A q \in {a, b} :
        /\ q.type = "True"  => Matches(q, tags)
        /\ q.type = "False" => ~Matches(q, tags)
  BY <1>1, MatchesIs
<1>3. CASE a.type = "False" \/ b.type = "True"
  BY <1>1, <1>2, <1>3 DEF AndQ
<1>4. CASE ~(a.type = "False" \/ b.type = "True") /\ (b.type = "False" \/ a.type = "True")
  <2>1. ~Equals(a, b)
    BY <1>1, <1>4, EqualsIs
  <2>2. AndQ(a, b) = b
    BY <1>4, <2>1 DEF AndQ
  <2>3. QED
    BY <1>1, <1>2, <1>4, <2>2
<1>5. CASE ~(a.type \in {"True", "False"} \/ b.type \in {"True", "False"}) /\ Equals(a, b)
  <2>1. \A tags : Matches(a, tags) <=> Matches(b, tags)
    BY <1>1, <1>5, EqualsMean
  <2>2. AndQ(a, b) = a
    BY <1>5 DEF AndQ
  <2>3. QED
    BY <1>1, <2>1, <2>2
<1>6. CASE ~(a.type \in {"True", "False"} \/ b.type \in {"True", "False"}) /\ ~Equals(a, b)
  <2>1. AndQ(a, b) = Pair("And", a, b)
    BY <1>6 DEF AndQ
  <2>2. QED
    BY <2>1, PairMeans
<1>7. QED
  BY <1>3, <1>4, <1>5, <1>6

LEMMA OrQMeans ==
  ASSUME NEW n \in Nat, MaxDepth \in Nat, n + 1 <= MaxDepth,
         NEW a \in QueriesUpTo[n], NEW b \in QueriesUpTo[n]
  PROVE  /\ OrQ(a, b) \in QueriesUpTo[n + 1]
         /\ \A tags : Matches(OrQ(a, b), tags) <=> Matches(a, tags) \/ Matches(b, tags)
<1>1. /\ QueriesUpTo[n] \subseteq QuerySet /\ QueriesUpTo[n] \subseteq QueriesUpTo[n + 1]
      /\ a \in QuerySet /\ b \in QuerySet
  BY LevelsMonotone DEF QuerySet
<1>2. \A tags : \A q \in {a, b} :
        /\ q.type = "True"  => Matches(q, tags)
        /\ q.type = "False" => ~Matches(q, tags)
  BY <1>1, MatchesIs
<1>3. CASE a.type = "True" \/ b.type = "False"
  BY <1>1, <1>2, <1>3 DEF OrQ
<1>4. CASE ~(a.type = "True" \/ b.type = "False") /\ (b.type = "True" \/ a.type = "False")
  <2>1. ~Equals(a, b)
    BY <1>1, <1>4, EqualsIs
  <2>2. OrQ(a, b) = b
    BY <1>4, <2>1 DEF OrQ
  <2>3. QED
    BY <1>1, <1>2, <1>4, <2>2
<1>5. CASE ~(a.type \in {"True", "False"} \/ b.type \in {"True", "False"}) /\ Equals(a, b)
  <2>1. \A tags : Matches(a, tags) <=> Matches(b, tags)
    BY <1>1, <1>5, EqualsMean
  <2>2. OrQ(a, b) = a
    BY <1>5 DEF OrQ
  <2>3. QED
    BY <1>1, <2>1, <2>2
<1>6. CASE ~(a.type \in {"True", "False"} \/ b.type \in {"True", "False"}) /\ ~Equals(a, b)
  <2>1. OrQ(a, b) = Pair("Or", a, b)
    BY <1>6 DEF OrQ
  <2>2. QED
    BY <2>1, PairMeans
<1>7. QED
  BY <1>3, <1>4, <1>5, <1>6

-----------------------------------------------------------------------------
(* What is on the stack *)

Literals == [type : {"Literal"}, string : STRING]
Lists    == [type : {"List"}, items : Seq(STRING)]
Aggregated(Q) == [type : {"ValueExpression"}, aggregate : Aggregates, query : Q]
ConstantExpressions == {ConstantExpression(Numbers[s]) : s \in DOMAIN Numbers}
Alls(Q) == [type : {"MultipleResults"}, class : {"All"}, query : Q]
GroupClasses == {"GroupBy", "KeepTags", "DropTags"}
Groups(E) == [type : {"MultipleResults"}, class : GroupClasses, keys : SUBSET STRING, expr : E]
Inner(n) == Aggregated(QueriesUpTo[n]) \cup ConstantExpressions

\* The expressions whose queries are nested no deeper than n.
Expressions(n) ==
  Literals \cup Lists \cup QueriesUpTo[n] \cup Aggregated(QueriesUpTo[n]) \cup
  Alls(QueriesUpTo[n]) \cup Groups(Inner(n))

\* The query that says what a query, value expression or multiple result is of.
Selecting(e) ==
  CASE IsQuery(e) -> e
    [] ~IsQuery(e) /\ (e.type = "ValueExpression" \/ e.class = "All") -> e.query
    [] OTHER -> e.expr.query

Matched(q) == {t \in AllTags : Matches(q, t)}

\* m are the sets of tags that e should match.
Means(e, m) ==
  IsQuery(e) \/ (e.type \in {"ValueExpression", "MultipleResults"} /\ ~IsConstant(e)) =>
    m = Matched(Selecting(e))

LEMMA Kinds ==
  ASSUME NEW n \in Nat, NEW e \in Expressions(n)
  PROVE  /\ IsQuery(e) => e \in QueriesUpTo[n]
         /\ e.type = "Literal" => e \in Literals
         /\ e.type = "List" => e \in Lists
         /\ e.type = "ValueExpression" => e \in Aggregated(QueriesUpTo[n])
         /\ e.type = "MultipleResults" => e \in Alls(QueriesUpTo[n]) \cup Groups(Inner(n))
         /\ IsQuery(e) \/ e.type \in {"Literal", "List", "ValueExpression", "MultipleResults"}
<1>1. ASSUME NEW q \in QueriesUpTo[n]
      PROVE  q.type \in QueryTypes
  <2>1. CASE n = 0
    BY <2>1, Level, SimpleType DEF SimpleTypes, QueryTypes
  <2>2. CASE n # 0
    <3>1. n - 1 \in Nat /\ (n - 1) + 1 = n
      BY <2>2
    <3>2. QED
      BY <3>1, Operands DEF SimpleTypes, QueryTypes
  <2>3. QED
    BY <2>1, <2>2
<1>2. CASE e \in QueriesUpTo[n]
  <2>1. e.type \in QueryTypes
    BY <1>1, <1>2
  <2>2. QED
    BY <1>2, <2>1 DEF QueryTypes, IsQuery
<1>3. CASE e \in Literals
  BY <1>3 DEF Literals, IsQuery, QueryTypes
<1>4. CASE e \in Lists
  BY <1>4 DEF Lists, IsQuery, QueryTypes
<1>5. CASE e \in Aggregated(QueriesUpTo[n])
  BY <1>5 DEF Aggregated, IsQuery, QueryTypes
<1>6. CASE e \in Alls(QueriesUpTo[n])
  BY <1>6 DEF Alls, IsQuery, QueryTypes
<1>7. CASE e \in Groups(Inner(n))
  BY <1>7 DEF Groups, IsQuery, QueryTypes
<1>8. QED
  BY <1>2, <1>3, <1>4, <1>5, <1>6, <1>7 DEF Expressions

LEMMA QueriesAre ==
  ASSUME NEW n \in Nat, NEW q \in QueriesUpTo[n]
  PROVE  q \in Expressions(n) /\ IsQuery(q)
<1>1. q \in Expressions(n)
  BY DEF Expressions
<1>2. CASE n = 0
  BY <1>1, <1>2, Level, SimpleType DEF SimpleTypes, QueryTypes, IsQuery
<1>3. CASE n # 0
  <2>1. n - 1 \in Nat /\ (n - 1) + 1 = n
    BY <1>3
  <2>2. QED
    BY <1>1, <2>1, Operands DEF SimpleTypes, QueryTypes, IsQuery
<1>4. QED
  BY <1>2, <1>3

LEMMA ExpressionsGrow ==
  ASSUME NEW n \in Nat
  PROVE  Expressions(n) \subseteq Expressions(n + 1)
<1>1. QueriesUpTo[n] \subseteq QueriesUpTo[n + 1]
  BY LevelsGrow
<1>2. Aggregated(QueriesUpTo[n]) \subseteq Aggregated(QueriesUpTo[n + 1])
  BY <1>1 DEF Aggregated
<1>3. Alls(QueriesUpTo[n]) \subseteq Alls(QueriesUpTo[n + 1])
  BY <1>1 DEF Alls
<1>4. Groups(Inner(n)) \subseteq Groups(Inner(n + 1))
  <2>1. Inner(n) \subseteq Inner(n + 1)
    BY <1>2 DEF Inner
  <2> HIDE DEF Inner
  <2>2. QED
    BY <2>1 DEF Groups
<1>5. QED
  BY <1>1, <1>2, <1>3, <1>4 DEF Expressions

-----------------------------------------------------------------------------
(* What a word does to the stack *)

\* Both stacks, of expressions of level n and of what they mean.
Stacks(s, m, n) ==
  /\ s \in Seq(Expressions(n)) /\ m \in Seq(SUBSET AllTags)
  /\ Len(m) = Len(s)
  /\ \A i \in DOMAIN s : Means(s[i], m[i])

\* What is done to a stack of length k leaves an expression that means it.
Done(done, k, meaning, n) ==
  /\ done.pops \in 0..k
  /\ \/ done.push = <<>>
     \/ \E e \in Expressions(n) : done.push = <<e>> /\ Means(e, meaning) /\ meaning \subseteq AllTags

LEMMA Failing ==
  ASSUME NEW k \in Nat, NEW j \in 0..k, NEW meaning, NEW n
  PROVE  Done(Fail(j), k, meaning, n) /\ Done(Throw, k, meaning, n)
BY DEF Done, Fail, Throw

LEMMA Pushing ==
  ASSUME NEW k \in Nat, NEW j \in 0..k, NEW meaning, NEW n, NEW e \in Expressions(n),
         Means(e, meaning), meaning \subseteq AllTags
  PROVE  Done(Push(j, e), k, meaning, n)
BY DEF Done, Push

\* A query means what it matches.
LEMMA PushingQuery ==
  ASSUME NEW k \in Nat, NEW j \in 0..k, NEW meaning, NEW n \in Nat, NEW q \in QueriesUpTo[n],
         meaning = Matched(q)
  PROVE  Done(Push(j, q), k, meaning, n)
<1>1. q \in Expressions(n) /\ IsQuery(q)
  BY QueriesAre
<1>2. Means(q, meaning)
  BY <1>1 DEF Means, Selecting
<1>3. meaning \subseteq AllTags
  BY DEF Matched
<1>4. QED
  BY <1>1, <1>2, <1>3, Pushing

LEMMA TopIs ==
  ASSUME NEW S, NEW s \in Seq(S), NEW j \in 1..2, Len(s) >= j
  PROVE  Top(s, j) \in S /\ Len(s) + 1 - j \in DOMAIN s
<1>1. Len(s) + 1 - j \in 1..Len(s)
  OBVIOUS
<1>2. DOMAIN s = 1..Len(s)
  OBVIOUS
<1>3. QED
  BY <1>1, <1>2 DEF Top

KeyQueries == {q \in SimpleQueries : q.type \in KeyQueryTypes}

LEMMA KeyQueryMeans ==
  ASSUME MaxDepth \in Nat, NEW q \in KeyQueries
  PROVE  Matched(q) = {t \in AllTags : q.key \in DOMAIN t /\ MatchesTag(q, t[q.key])}
<1>1. q \in QuerySet
  BY SimpleIn DEF KeyQueries, QuerySet
<1>2. \A t : Matches(q, t) <=> q.key \in DOMAIN t /\ MatchesTag(q, t[q.key])
  BY <1>1, MatchesIs DEF KeyQueries
<1>3. QED
  BY <1>2 DEF Matched

LEMMA RelopMeans ==
  ASSUME MaxDepth \in Nat, NEW k \in STRING, NEW v \in STRING, NEW op \in RelOps
  PROVE  /\ RelopQuery(k, v, op) \in SimpleQueries
         /\ Matched(RelopQuery(k, v, op)) = {t \in AllTags : k \in DOMAIN t /\ DoQuery(t[k], v, op)}
<1> DEFINE q == RelopQuery(k, v, op)
<1>1. q \in KeyQueries
  BY DEF RelopQuery, KeyQueries, SimpleQueries, KeyQueryTypes
<1>2. q.type = "RelOp" /\ q.key = k /\ q.value = v /\ q.op = op
  BY DEF RelopQuery
<1> HIDE DEF q
<1>3. \A x : MatchesTag(q, x) <=> DoQuery(x, v, op)
  BY <1>2 DEF MatchesTag
<1>4. Matched(q) = {t \in AllTags : k \in DOMAIN t /\ MatchesTag(q, t[k])}
  BY <1>1, <1>2, KeyQueryMeans
<1>5. QED
  BY <1>1, <1>3, <1>4 DEF q, KeyQueries

LEMMA HasKeyMeans ==
  ASSUME MaxDepth \in Nat, NEW k \in STRING
  PROVE  /\ HasKeyQuery(k) \in SimpleQueries
         /\ Matched(HasKeyQuery(k)) = {t \in AllTags : k \in DOMAIN t}
<1> DEFINE q == HasKeyQuery(k)
<1>1. q \in KeyQueries
  BY DEF HasKeyQuery, KeyQueries, SimpleQueries, KeyQueryTypes
<1>2. q.type = "HasKey" /\ q.key = k
  BY DEF HasKeyQuery
<1> HIDE DEF q
<1>3. \A x : MatchesTag(q, x)
  BY <1>2 DEF MatchesTag
<1>4. Matched(q) = {t \in AllTags : k \in DOMAIN t /\ MatchesTag(q, t[k])}
  BY <1>1, <1>2, KeyQueryMeans
<1>5. QED
  BY <1>1, <1>3, <1>4 DEF q, KeyQueries

LEMMA RegexMeans ==
  ASSUME MaxDepth \in Nat, NEW k \in STRING, NEW p \in STRING, NEW i \in BOOLEAN
  PROVE  /\ RegexQuery(k, p, i) \in SimpleQueries
         /\ Matched(RegexQuery(k, p, i)) = {t \in AllTags : k \in DOMAIN t /\ t[k] \in RegexMatch[p][i]}
<1> DEFINE q == RegexQuery(k, p, i)
<1>1. q \in KeyQueries
  BY DEF RegexQuery, KeyQueries, SimpleQueries, KeyQueryTypes
<1>2. q.type = "Regex" /\ q.key = k /\ q.pattern = p /\ q.ignoreCase = i
  BY DEF RegexQuery
<1> HIDE DEF q
<1>3. \A x : MatchesTag(q, x) <=> x \in RegexMatch[p][i]
  BY <1>2 DEF MatchesTag, MatchesRegex
<1>4. Matched(q) = {t \in AllTags : k \in DOMAIN t /\ MatchesTag(q, t[k])}
  BY <1>1, <1>2, KeyQueryMeans
<1>5. QED
  BY <1>1, <1>3, <1>4 DEF q, KeyQueries

LEMMA InMeans ==
  ASSUME MaxDepth \in Nat, NEW k \in STRING, NEW vs \in Seq(STRING)
  PROVE  /\ InQuery(k, vs) \in SimpleQueries
         /\ Matched(InQuery(k, vs)) = {t \in AllTags : k \in DOMAIN t /\ Contains(vs, t[k])}
<1> DEFINE q == InQuery(k, vs)
<1>1. q \in KeyQueries
  BY DEF InQuery, KeyQueries, SimpleQueries, KeyQueryTypes
<1>2. q.type = "In" /\ q.key = k /\ q.values = vs
  BY DEF InQuery
<1> HIDE DEF q
<1>3. \A x : MatchesTag(q, x) <=> Contains(vs, x)
  BY <1>2 DEF MatchesTag, MatchesValue
<1>4. Matched(q) = {t \in AllTags : k \in DOMAIN t /\ MatchesTag(q, t[k])}
  BY <1>1, <1>2, KeyQueryMeans
<1>5. QED
  BY <1>1, <1>3, <1>4 DEF q, KeyQueries

LEMMA TruthMeans ==
  ASSUME MaxDepth \in Nat
  PROVE  Matched(TrueQuery) = AllTags /\ Matched(FalseQuery) = {}
<1>1. TrueQuery \in QuerySet /\ FalseQuery \in QuerySet
  BY TruthIn, SimpleIn DEF QuerySet
<1>2. \A t : Matches(TrueQuery, t) /\ ~Matches(FalseQuery, t)
  BY <1>1, TruthIn, MatchesIs
<1>3. QED
  BY <1>2 DEF Matched

-----------------------------------------------------------------------------
(* Each group of words leaves what it should *)

\* The strings on the top of a stack.
LEMMA StringsOnTop ==
  ASSUME NEW n \in Nat, NEW s \in Seq(Expressions(n)), NEW j \in 1..2, Len(s) >= j,
         IsLiteral(Top(s, j))
  PROVE  Top(s, j).string \in STRING
<1>1. Top(s, j) \in Literals
  BY TopIs, Kinds DEF IsLiteral
<1>2. QED
  BY <1>1 DEF Literals

\* What each word means.
LEMMA MeaningOfRelop ==
  ASSUME NEW w \in RelOps, NEW s, NEW m
  PROVE  Meaning(w, s, m) =
           {t \in {t \in AllTags : Top(s, 2).string \in DOMAIN t} :
              DoQuery(t[Top(s, 2).string], Top(s, 1).string, w)}
<1>1. /\ w # "true" /\ w # "false" /\ w # "has" /\ w # "re" /\ w # "reic" /\ w # "in"
      /\ w # "not" /\ w # "and" /\ w # "or" /\ w \notin Groupings
  BY DEF RelOps, Groupings
<1>2. QED
  BY <1>1, Zenon DEF Meaning

LEMMA MeaningOfGrouping ==
  ASSUME NEW w \in Groupings, NEW s, NEW m
  PROVE  Meaning(w, s, m) = Top(m, 2)
<1>1. /\ w # "true" /\ w # "false" /\ w # "has" /\ w # "re" /\ w # "reic" /\ w # "in"
      /\ w # "not" /\ w # "and" /\ w # "or" /\ w \notin RelOps
  BY DEF RelOps, Groupings
<1>2. QED
  BY <1>1, Zenon DEF Meaning

LEMMA MeaningOfOther ==
  ASSUME NEW w \in Aggregates \cup {"all"}, NEW s, NEW m
  PROVE  Meaning(w, s, m) = Top(m, 1)
<1>1. /\ w # "true" /\ w # "false" /\ w # "has" /\ w # "re" /\ w # "reic" /\ w # "in"
      /\ w # "not" /\ w # "and" /\ w # "or" /\ w \notin RelOps /\ w \notin Groupings
  BY DEF RelOps, Groupings, Aggregates
<1>2. QED
  BY <1>1, Zenon DEF Meaning

LEMMA MeaningOfWord ==
  ASSUME NEW w, NEW s, NEW m
  PROVE  /\ w = "true" => Meaning(w, s, m) = AllTags
         /\ w = "false" => Meaning(w, s, m) = {}
         /\ w = "has" => Meaning(w, s, m) = {t \in AllTags : Top(s, 1).string \in DOMAIN t}
         /\ w = "re" => Meaning(w, s, m) = {t \in {t \in AllTags : Top(s, 2).string \in DOMAIN t} : t[Top(s, 2).string] \in RegexMatch[Top(s, 1).string][FALSE]}
         /\ w = "reic" => Meaning(w, s, m) = {t \in {t \in AllTags : Top(s, 2).string \in DOMAIN t} : t[Top(s, 2).string] \in RegexMatch[Top(s, 1).string][TRUE]}
         /\ w = "in" => Meaning(w, s, m) = {t \in {t \in AllTags : Top(s, 2).string \in DOMAIN t} : Contains(Top(s, 1).items, t[Top(s, 2).string])}
         /\ w = "not" => Meaning(w, s, m) = AllTags \ Top(m, 1)
         /\ w = "and" => Meaning(w, s, m) = Top(m, 2) \cap Top(m, 1)
         /\ w = "or" => Meaning(w, s, m) = Top(m, 2) \cup Top(m, 1)
<1>1. ASSUME w = "true"
      PROVE  Meaning(w, s, m) = AllTags
  <2>1. /\ w # "false" /\ w # "has" /\ w # "re" /\ w # "reic" /\ w # "in" /\ w # "not" /\ w # "and" /\ w # "or"
        /\ w \notin RelOps /\ w \notin Groupings
    BY <1>1 DEF RelOps, Groupings
  <2>2. QED
    BY <1>1, <2>1, Zenon DEF Meaning
<1>2. ASSUME w = "false"
      PROVE  Meaning(w, s, m) = {}
  <2>1. /\ w # "true" /\ w # "has" /\ w # "re" /\ w # "reic" /\ w # "in" /\ w # "not" /\ w # "and" /\ w # "or"
        /\ w \notin RelOps /\ w \notin Groupings
    BY <1>2 DEF RelOps, Groupings
  <2>2. QED
    BY <1>2, <2>1, Zenon DEF Meaning
<1>3. ASSUME w = "has"
      PROVE  Meaning(w, s, m) = {t \in AllTags : Top(s, 1).string \in DOMAIN t}
  <2>1. /\ w # "true" /\ w # "false" /\ w # "re" /\ w # "reic" /\ w # "in" /\ w # "not" /\ w # "and" /\ w # "or"
        /\ w \notin RelOps /\ w \notin Groupings
    BY <1>3 DEF RelOps, Groupings
  <2>2. QED
    BY <1>3, <2>1, Zenon DEF Meaning
<1>4. ASSUME w = "re"
      PROVE  Meaning(w, s, m) = {t \in {t \in AllTags : Top(s, 2).string \in DOMAIN t} : t[Top(s, 2).string] \in RegexMatch[Top(s, 1).string][FALSE]}
  <2>1. /\ w # "true" /\ w # "false" /\ w # "has" /\ w # "reic" /\ w # "in" /\ w # "not" /\ w # "and" /\ w # "or"
        /\ w \notin RelOps /\ w \notin Groupings
    BY <1>4 DEF RelOps, Groupings
  <2>2. QED
    BY <1>4, <2>1, Zenon DEF Meaning
<1>5. ASSUME w = "reic"
      PROVE  Meaning(w, s, m) = {t \in {t \in AllTags : Top(s, 2).string \in DOMAIN t} : t[Top(s, 2).string] \in RegexMatch[Top(s, 1).string][TRUE]}
  <2>1. /\ w # "true" /\ w # "false" /\ w # "has" /\ w # "re" /\ w # "in" /\ w # "not" /\ w # "and" /\ w # "or"
        /\ w \notin RelOps /\ w \notin Groupings
    BY <1>5 DEF RelOps, Groupings
  <2>2. QED
    BY <1>5, <2>1, Zenon DEF Meaning
<1>6. ASSUME w = "in"
      PROVE  Meaning(w, s, m) = {t \in {t \in AllTags : Top(s, 2).string \in DOMAIN t} : Contains(Top(s, 1).items, t[Top(s, 2).string])}
  <2>1. /\ w # "true" /\ w # "false" /\ w # "has" /\ w # "re" /\ w # "reic" /\ w # "not" /\ w # "and" /\ w # "or"
        /\ w \notin RelOps /\ w \notin Groupings
    BY <1>6 DEF RelOps, Groupings
  <2>2. QED
    BY <1>6, <2>1, Zenon DEF Meaning
<1>7. ASSUME w = "not"
      PROVE  Meaning(w, s, m) = AllTags \ Top(m, 1)
  <2>1. /\ w # "true" /\ w # "false" /\ w # "has" /\ w # "re" /\ w # "reic" /\ w # "in" /\ w # "and" /\ w # "or"
        /\ w \notin RelOps /\ w \notin Groupings
    BY <1>7 DEF RelOps, Groupings
  <2>2. QED
    BY <1>7, <2>1, Zenon DEF Meaning
<1>8. ASSUME w = "and"
      PROVE  Meaning(w, s, m) = Top(m, 2) \cap Top(m, 1)
  <2>1. /\ w # "true" /\ w # "false" /\ w # "has" /\ w # "re" /\ w # "reic" /\ w # "in" /\ w # "not" /\ w # "or"
        /\ w \notin RelOps /\ w \notin Groupings
    BY <1>8 DEF RelOps, Groupings
  <2>2. QED
    BY <1>8, <2>1, Zenon DEF Meaning
<1>9. ASSUME w = "or"
      PROVE  Meaning(w, s, m) = Top(m, 2) \cup Top(m, 1)
  <2>1. /\ w # "true" /\ w # "false" /\ w # "has" /\ w # "re" /\ w # "reic" /\ w # "in" /\ w # "not" /\ w # "and"
        /\ w \notin RelOps /\ w \notin Groupings
    BY <1>9 DEF RelOps, Groupings
  <2>2. QED
    BY <1>9, <2>1, Zenon DEF Meaning
<1>10. QED
  BY <1>1, <1>2, <1>3, <1>4, <1>5, <1>6, <1>7, <1>8, <1>9

LEMMA RelopDone ==
  ASSUME MaxDepth \in Nat, NEW n \in Nat, NEW s \in Seq(Expressions(n)), NEW op \in RelOps, NEW m
  PROVE  Done(ExecuteRelop(op, s), Len(s), Meaning(op, s, m), n)
<1>1. CASE TwoStrings(s)
  <2> DEFINE k == Top(s, 2).string
             v == Top(s, 1).string
  <2>1. Len(s) \in Nat /\ Len(s) >= 2 /\ 2 \in 0..Len(s)
    BY <1>1 DEF TwoStrings
  <2>2. k \in STRING /\ v \in STRING
    BY <1>1, <2>1, StringsOnTop DEF TwoStrings
  <2>3. ExecuteRelop(op, s) = Push(2, RelopQuery(k, v, op))
    BY <1>1 DEF ExecuteRelop
  <2>4. Meaning(op, s, m) = {t \in AllTags : k \in DOMAIN t /\ DoQuery(t[k], v, op)}
    BY MeaningOfRelop
  <2> HIDE DEF k, v
  <2>5. RelopQuery(k, v, op) \in QueriesUpTo[n]
    BY <2>2, RelopMeans, SimpleIn
  <2>6. Matched(RelopQuery(k, v, op)) = Meaning(op, s, m)
    BY <2>2, <2>4, RelopMeans
  <2>7. QED
    BY <2>1, <2>3, <2>5, <2>6, PushingQuery
<1>2. CASE ~TwoStrings(s)
  <2>1. Len(s) \in Nat /\ \E j \in 0..Len(s) : ExecuteRelop(op, s) = Fail(j)
    BY <1>2 DEF ExecuteRelop
  <2>2. QED
    BY <2>1, Failing
<1>3. QED
  BY <1>1, <1>2

\* What each word does.
LEMMA ExecutionOfRelop ==
  ASSUME NEW w \in RelOps, NEW s
  PROVE  Execute(w, s) =
           ExecuteRelop(w, s)
<1>1. /\ w # "unknown" /\ w # "true" /\ w # "false" /\ w # "has" /\ w # "in"
      /\ w \notin Groupings
      /\ w \notin {"and", "or"}
      /\ w \notin Aggregates \cup {"not", "all"}
      /\ w \notin {"re", "reic"}
  BY DEF RelOps, Groupings, Aggregates
<1>2. QED
  BY <1>1, Zenon DEF Execute

LEMMA ExecutionOfGrouping ==
  ASSUME NEW w \in Groupings, NEW s
  PROVE  Execute(w, s) =
           ExecuteGrouping(w, s)
<1>1. /\ w # "unknown" /\ w # "true" /\ w # "false" /\ w # "has" /\ w # "in"
      /\ w \notin RelOps
      /\ w \notin {"and", "or"}
      /\ w \notin Aggregates \cup {"not", "all"}
      /\ w \notin {"re", "reic"}
  BY DEF RelOps, Groupings, Aggregates
<1>2. QED
  BY <1>1, Zenon DEF Execute

LEMMA ExecutionOfOnQueries ==
  ASSUME NEW w \in {"and", "or"}, NEW s
  PROVE  Execute(w, s) =
           IF Len(s) < 2 THEN Throw ELSE ExecuteOnQueries(w, s)
<1>1. /\ w # "unknown" /\ w # "true" /\ w # "false" /\ w # "has" /\ w # "in"
      /\ w \notin RelOps
      /\ w \notin Groupings
      /\ w \notin Aggregates \cup {"not", "all"}
      /\ w \notin {"re", "reic"}
  BY DEF RelOps, Groupings, Aggregates
<1>2. QED
  BY <1>1, Zenon DEF Execute

LEMMA ExecutionOfOnQuery ==
  ASSUME NEW w \in Aggregates \cup {"not", "all"}, NEW s
  PROVE  Execute(w, s) =
           IF s = <<>> THEN Throw ELSE ExecuteOnQuery(w, s)
<1>1. /\ w # "unknown" /\ w # "true" /\ w # "false" /\ w # "has" /\ w # "in"
      /\ w \notin RelOps
      /\ w \notin Groupings
      /\ w \notin {"and", "or"}
      /\ w \notin {"re", "reic"}
  BY DEF RelOps, Groupings, Aggregates
<1>2. QED
  BY <1>1, Zenon DEF Execute

LEMMA ExecutionOfRegex ==
  ASSUME NEW w \in {"re", "reic"}, NEW s
  PROVE  Execute(w, s) =
           IF TwoStrings(s)
             THEN Push(2, RegexQuery(Top(s, 2).string, Top(s, 1).string, w = "reic"))
             ELSE Throw
<1>1. /\ w # "unknown" /\ w # "true" /\ w # "false" /\ w # "has" /\ w # "in"
      /\ w \notin RelOps
      /\ w \notin Groupings
      /\ w \notin {"and", "or"}
      /\ w \notin Aggregates \cup {"not", "all"}
  BY DEF RelOps, Groupings, Aggregates
<1>2. QED
  BY <1>1, Zenon DEF Execute

LEMMA ExecutionOfUnknown ==
  ASSUME NEW w, w = "unknown", NEW s
  PROVE  Execute(w, s) =
           Fail(0)
<1>1. /\ w # "true" /\ w # "false" /\ w # "has" /\ w # "in"
      /\ w \notin RelOps
      /\ w \notin Groupings
      /\ w \notin {"and", "or"}
      /\ w \notin Aggregates \cup {"not", "all"}
      /\ w \notin {"re", "reic"}
  BY DEF RelOps, Groupings, Aggregates
<1>2. QED
  BY <1>1, Zenon DEF Execute

LEMMA ExecutionOfTrue ==
  ASSUME NEW w, w = "true", NEW s
  PROVE  Execute(w, s) =
           Push(0, TrueQuery)
<1>1. /\ w # "unknown" /\ w # "false" /\ w # "has" /\ w # "in"
      /\ w \notin RelOps
      /\ w \notin Groupings
      /\ w \notin {"and", "or"}
      /\ w \notin Aggregates \cup {"not", "all"}
      /\ w \notin {"re", "reic"}
  BY DEF RelOps, Groupings, Aggregates
<1>2. QED
  BY <1>1, Zenon DEF Execute

LEMMA ExecutionOfFalse ==
  ASSUME NEW w, w = "false", NEW s
  PROVE  Execute(w, s) =
           Push(0, FalseQuery)
<1>1. /\ w # "unknown" /\ w # "true" /\ w # "has" /\ w # "in"
      /\ w \notin RelOps
      /\ w \notin Groupings
      /\ w \notin {"and", "or"}
      /\ w \notin Aggregates \cup {"not", "all"}
      /\ w \notin {"re", "reic"}
  BY DEF RelOps, Groupings, Aggregates
<1>2. QED
  BY <1>1, Zenon DEF Execute

LEMMA ExecutionOfHas ==
  ASSUME NEW w, w = "has", NEW s
  PROVE  Execute(w, s) =
           IF s # <<>> /\ IsLiteral(Top(s, 1))
                           THEN Push(1, HasKeyQuery(Top(s, 1).string)) ELSE Throw
<1>1. /\ w # "unknown" /\ w # "true" /\ w # "false" /\ w # "in"
      /\ w \notin RelOps
      /\ w \notin Groupings
      /\ w \notin {"and", "or"}
      /\ w \notin Aggregates \cup {"not", "all"}
      /\ w \notin {"re", "reic"}
  BY DEF RelOps, Groupings, Aggregates
<1>2. QED
  BY <1>1, Zenon DEF Execute

LEMMA ExecutionOfIn ==
  ASSUME NEW w, w = "in", NEW s
  PROVE  Execute(w, s) =
           CASE s = <<>> -> Throw
             [] s # <<>> /\ Top(s, 1).type # "List" -> Fail(1)
             [] OTHER -> IF Len(s) >= 2 /\ IsLiteral(Top(s, 2))
                           THEN Push(2, InQuery(Top(s, 2).string, Top(s, 1).items)) ELSE Throw
<1>1. /\ w # "unknown" /\ w # "true" /\ w # "false" /\ w # "has"
      /\ w \notin RelOps
      /\ w \notin Groupings
      /\ w \notin {"and", "or"}
      /\ w \notin Aggregates \cup {"not", "all"}
      /\ w \notin {"re", "reic"}
  BY DEF RelOps, Groupings, Aggregates
<1>2. QED
  BY <1>1, Zenon DEF Execute

LEMMA Wider ==
  ASSUME NEW n \in Nat, NEW s, NEW m, Stacks(s, m, n)
  PROVE  Stacks(s, m, n + 1)
<1>1. Expressions(n) \subseteq Expressions(n + 1)
  BY ExpressionsGrow
<1>2. s \in Seq(Expressions(n + 1))
  BY <1>1 DEF Stacks
<1>3. QED
  BY <1>2 DEF Stacks

LEMMA TopMeans ==
  ASSUME NEW n, NEW s, NEW m, Stacks(s, m, n), NEW j \in 1..2, Len(s) >= j
  PROVE  /\ Top(s, j) \in Expressions(n)
         /\ Top(m, j) \in SUBSET AllTags
         /\ Means(Top(s, j), Top(m, j))
<1>1. s \in Seq(Expressions(n)) /\ m \in Seq(SUBSET AllTags) /\ Len(m) = Len(s)
  BY DEF Stacks
<1>2. Top(s, j) \in Expressions(n) /\ Len(s) + 1 - j \in DOMAIN s
  BY <1>1, TopIs
<1>3. Top(m, j) \in SUBSET AllTags
  BY <1>1, TopIs
<1>4. Top(s, j) = s[Len(s) + 1 - j] /\ Top(m, j) = m[Len(s) + 1 - j]
  BY <1>1 DEF Top
<1>5. QED
  BY <1>2, <1>3, <1>4 DEF Stacks

LEMMA HasDone ==
  ASSUME MaxDepth \in Nat, NEW n \in Nat, NEW s \in Seq(Expressions(n)), NEW m
  PROVE  Done(Execute("has", s), Len(s), Meaning("has", s, m), n)
<1>0. Len(s) \in Nat /\ 0 \in 0..Len(s)
  OBVIOUS
<1>1. CASE s # <<>> /\ IsLiteral(Top(s, 1))
  <2> DEFINE k == Top(s, 1).string
  <2>1. Len(s) \in Nat /\ Len(s) >= 1 /\ 1 \in 0..Len(s)
    BY <1>1
  <2>2. k \in STRING
    BY <1>1, <2>1, StringsOnTop
  <2>3. Execute("has", s) = Push(1, HasKeyQuery(k))
    BY <1>1, ExecutionOfHas
  <2>4. Meaning("has", s, m) = {t \in AllTags : k \in DOMAIN t}
    BY MeaningOfWord
  <2> HIDE DEF k
  <2>5. HasKeyQuery(k) \in QueriesUpTo[n] /\ Matched(HasKeyQuery(k)) = Meaning("has", s, m)
    BY <2>2, <2>4, HasKeyMeans, SimpleIn
  <2>6. QED
    BY <2>1, <2>3, <2>5, PushingQuery
<1>2. CASE ~(s # <<>> /\ IsLiteral(Top(s, 1)))
  <2>1. Execute("has", s) = Throw
    BY <1>2, ExecutionOfHas
  <2>2. QED
    BY <1>0, <2>1, Failing
<1>3. QED
  BY <1>1, <1>2

LEMMA RegexDone ==
  ASSUME MaxDepth \in Nat, NEW n \in Nat, NEW s \in Seq(Expressions(n)), NEW m, NEW w \in {"re", "reic"}
  PROVE  Done(Execute(w, s), Len(s), Meaning(w, s, m), n)
<1>0. Len(s) \in Nat /\ 0 \in 0..Len(s)
  OBVIOUS
<1>1. CASE TwoStrings(s)
  <2> DEFINE k == Top(s, 2).string
             p == Top(s, 1).string
             i == w = "reic"
  <2>1. Len(s) \in Nat /\ Len(s) >= 2 /\ 2 \in 0..Len(s)
    BY <1>1 DEF TwoStrings
  <2>2. k \in STRING /\ p \in STRING
    BY <1>1, <2>1, StringsOnTop DEF TwoStrings
  <2>3. Execute(w, s) = Push(2, RegexQuery(k, p, w = "reic"))
    BY <1>1, ExecutionOfRegex
  <2>4. /\ w = "re" => Meaning(w, s, m) = {t \in {t \in AllTags : k \in DOMAIN t} : t[k] \in RegexMatch[p][FALSE]}
        /\ w = "reic" => Meaning(w, s, m) = {t \in {t \in AllTags : k \in DOMAIN t} : t[k] \in RegexMatch[p][TRUE]}
    BY MeaningOfWord
  <2> HIDE DEF k, p
  <2>5. CASE w = "re"
    <3>1. Execute(w, s) = Push(2, RegexQuery(k, p, FALSE))
      BY <2>3, <2>5
    <3>2. RegexQuery(k, p, FALSE) \in QueriesUpTo[n] /\ Matched(RegexQuery(k, p, FALSE)) = Meaning(w, s, m)
      BY <2>2, <2>4, <2>5, RegexMeans, SimpleIn
    <3>3. QED
      BY <2>1, <3>1, <3>2, PushingQuery
  <2>6. CASE w = "reic"
    <3>1. Execute(w, s) = Push(2, RegexQuery(k, p, TRUE))
      BY <2>3, <2>6
    <3>2. RegexQuery(k, p, TRUE) \in QueriesUpTo[n] /\ Matched(RegexQuery(k, p, TRUE)) = Meaning(w, s, m)
      BY <2>2, <2>4, <2>6, RegexMeans, SimpleIn
    <3>3. QED
      BY <2>1, <3>1, <3>2, PushingQuery
  <2>7. QED
    BY <2>5, <2>6
<1>2. CASE ~TwoStrings(s)
  <2>1. Execute(w, s) = Throw
    BY <1>2, ExecutionOfRegex
  <2>2. QED
    BY <1>0, <2>1, Failing
<1>3. QED
  BY <1>1, <1>2

LEMMA InDone ==
  ASSUME MaxDepth \in Nat, NEW n \in Nat, NEW s \in Seq(Expressions(n)), NEW m
  PROVE  Done(Execute("in", s), Len(s), Meaning("in", s, m), n)
<1>0. Len(s) \in Nat /\ 0 \in 0..Len(s)
  OBVIOUS
<1>1. CASE Len(s) >= 2 /\ Top(s, 1).type = "List" /\ IsLiteral(Top(s, 2))
  <2> DEFINE k == Top(s, 2).string
             vs == Top(s, 1).items
  <2>1. Len(s) \in Nat /\ Len(s) >= 2 /\ 2 \in 0..Len(s) /\ s # <<>>
    BY <1>1
  <2>2. k \in STRING
    BY <1>1, StringsOnTop
  <2>3. vs \in Seq(STRING)
    <3>1. Top(s, 1) \in Lists
      BY <1>1, TopIs, Kinds
    <3>2. QED
      BY <3>1 DEF Lists
  <2>4. Execute("in", s) = Push(2, InQuery(k, vs))
    BY <1>1, <2>1, ExecutionOfIn
  <2>5. Meaning("in", s, m) = {t \in {t \in AllTags : k \in DOMAIN t} : Contains(vs, t[k])}
    BY MeaningOfWord
  <2> HIDE DEF k, vs
  <2>6. InQuery(k, vs) \in QueriesUpTo[n] /\ Matched(InQuery(k, vs)) = Meaning("in", s, m)
    BY <2>2, <2>3, <2>5, InMeans, SimpleIn
  <2>7. QED
    BY <2>1, <2>4, <2>6, PushingQuery
<1>2. CASE ~(Len(s) >= 2 /\ Top(s, 1).type = "List" /\ IsLiteral(Top(s, 2)))
  <2>1. Execute("in", s) = Throw \/ (s # <<>> /\ Execute("in", s) = Fail(1))
    BY <1>2, ExecutionOfIn
  <2>2. s # <<>> => 1 \in 0..Len(s)
    OBVIOUS
  <2>3. QED
    BY <1>0, <2>1, <2>2, Failing
<1>3. QED
  BY <1>1, <1>2

LEMMA TruthDone ==
  ASSUME MaxDepth \in Nat, NEW n \in Nat, NEW s \in Seq(Expressions(n)), NEW m, NEW w \in {"true", "false", "unknown"}
  PROVE  Done(Execute(w, s), Len(s), Meaning(w, s, m), n)
<1>0. Len(s) \in Nat /\ 0 \in 0..Len(s)
  OBVIOUS
<1>1. CASE w = "true"
  <2>1. Execute(w, s) = Push(0, TrueQuery) /\ Meaning(w, s, m) = Matched(TrueQuery)
    BY <1>1, ExecutionOfTrue, MeaningOfWord, TruthMeans
  <2>2. QED
    BY <1>0, <2>1, TruthIn, SimpleIn, PushingQuery
<1>2. CASE w = "false"
  <2>1. Execute(w, s) = Push(0, FalseQuery) /\ Meaning(w, s, m) = Matched(FalseQuery)
    BY <1>2, ExecutionOfFalse, MeaningOfWord, TruthMeans
  <2>2. QED
    BY <1>0, <2>1, TruthIn, SimpleIn, PushingQuery
<1>3. CASE w = "unknown"
  BY <1>0, <1>3, ExecutionOfUnknown, Failing
<1>4. QED
  BY <1>1, <1>2, <1>3

\* A query on the stack is one and means what it matches.
LEMMA QueryOnTop ==
  ASSUME NEW n \in Nat, NEW s, NEW m, Stacks(s, m, n), NEW j \in 1..2, Len(s) >= j,
         IsQuery(Top(s, j))
  PROVE  Top(s, j) \in QueriesUpTo[n] /\ Top(m, j) = Matched(Top(s, j))
<1>1. Top(s, j) \in Expressions(n) /\ Means(Top(s, j), Top(m, j))
  BY TopMeans
<1>2. Top(s, j) \in QueriesUpTo[n]
  BY <1>1, Kinds
<1>3. Top(m, j) = Matched(Top(s, j))
  BY <1>1 DEF Means, Selecting
<1>4. QED
  BY <1>2, <1>3

LEMMA OnQueriesDone ==
  ASSUME NEW n \in Nat, MaxDepth \in Nat, n + 1 <= MaxDepth, NEW s, NEW m, Stacks(s, m, n),
         NEW w \in {"and", "or"}
  PROVE  Done(Execute(w, s), Len(s), Meaning(w, s, m), n + 1)
<1>0. Len(s) \in Nat /\ 0 \in 0..Len(s) /\ n + 1 \in Nat
  BY DEF Stacks
<1>1. CASE Len(s) < 2
  BY <1>0, <1>1, ExecutionOfOnQueries, Failing
<1>2. CASE Len(s) >= 2 /\ ~(IsQuery(Top(s, 1)) /\ IsQuery(Top(s, 2)))
  <2>1. 2 \in 0..Len(s) /\ ~(Len(s) < 2)
    BY <1>0, <1>2
  <2>2. Execute(w, s) = Fail(2)
    BY <1>2, <2>1, ExecutionOfOnQueries DEF ExecuteOnQueries
  <2>3. QED
    BY <1>0, <2>1, <2>2, Failing
<1>3. CASE Len(s) >= 2 /\ IsQuery(Top(s, 1)) /\ IsQuery(Top(s, 2))
  <2> DEFINE b == Top(s, 1)
             a == Top(s, 2)
  <2>1. 2 \in 0..Len(s) /\ ~(Len(s) < 2)
    BY <1>0, <1>3
  <2>2. /\ a \in QueriesUpTo[n] /\ Top(m, 2) = Matched(a)
        /\ b \in QueriesUpTo[n] /\ Top(m, 1) = Matched(b)
    BY <1>0, <1>3, QueryOnTop
  <2>3. Execute(w, s) = Push(2, IF w = "and" THEN AndQ(a, b) ELSE OrQ(a, b))
    BY <1>3, <2>1, ExecutionOfOnQueries DEF ExecuteOnQueries
  <2> HIDE DEF a, b
  <2>4. CASE w = "and"
    <3>1. AndQ(a, b) \in QueriesUpTo[n + 1]
      BY <2>2, AndQMeans
    <3>2. \A tags : Matches(AndQ(a, b), tags) <=> Matches(a, tags) /\ Matches(b, tags)
      BY <2>2, AndQMeans
    <3>3. Meaning(w, s, m) = Matched(a) \cap Matched(b)
      BY <2>2, <2>4, MeaningOfWord
    <3>4. Meaning(w, s, m) = Matched(AndQ(a, b))
      BY <3>2, <3>3 DEF Matched
    <3>5. Execute(w, s) = Push(2, AndQ(a, b))
      BY <2>3, <2>4
    <3>6. QED
      BY <1>0, <2>1, <3>1, <3>4, <3>5, PushingQuery
  <2>5. CASE w = "or"
    <3>1. OrQ(a, b) \in QueriesUpTo[n + 1]
      BY <2>2, OrQMeans
    <3>2. \A tags : Matches(OrQ(a, b), tags) <=> Matches(a, tags) \/ Matches(b, tags)
      BY <2>2, OrQMeans
    <3>3. Meaning(w, s, m) = Matched(a) \cup Matched(b)
      BY <2>2, <2>5, MeaningOfWord
    <3>4. Meaning(w, s, m) = Matched(OrQ(a, b))
      BY <3>2, <3>3 DEF Matched
    <3>5. Execute(w, s) = Push(2, OrQ(a, b))
      BY <2>3, <2>5
    <3>6. QED
      BY <1>0, <2>1, <3>1, <3>4, <3>5, PushingQuery
  <2>6. QED
    BY <2>4, <2>5
<1>4. QED
  BY <1>0, <1>1, <1>2, <1>3

LEMMA AggregateMeans ==
  ASSUME NEW Q, NEW q \in Q, NEW fn \in Aggregates
  PROVE  /\ AggregateExpression(fn, q) \in Aggregated(Q)
         /\ Means(AggregateExpression(fn, q), Matched(q))
<1> DEFINE e == AggregateExpression(fn, q)
<1>1. e \in Aggregated(Q) /\ e.type = "ValueExpression" /\ e.query = q
  BY DEF AggregateExpression, Aggregated
<1> HIDE DEF e
<1>2. ~IsQuery(e)
  BY <1>1 DEF IsQuery, QueryTypes
<1>3. Selecting(e) = q
  BY <1>1, <1>2 DEF Selecting
<1>4. QED
  BY <1>1, <1>3 DEF Means, e

LEMMA AllMeans ==
  ASSUME NEW Q, NEW q \in Q
  PROVE  All(q) \in Alls(Q) /\ Means(All(q), Matched(q))
<1> DEFINE e == All(q)
<1>1. e \in Alls(Q) /\ e.type = "MultipleResults" /\ e.class = "All" /\ e.query = q
  BY DEF All, Alls
<1> HIDE DEF e
<1>2. ~IsQuery(e)
  BY <1>1 DEF IsQuery, QueryTypes
<1>3. Selecting(e) = q
  BY <1>1, <1>2 DEF Selecting
<1>4. QED
  BY <1>1, <1>3 DEF Means, e

LEMMA OnQueryDone ==
  ASSUME NEW n \in Nat, MaxDepth \in Nat, n + 1 <= MaxDepth, NEW s, NEW m, Stacks(s, m, n),
         NEW w \in Aggregates \cup {"not", "all"}
  PROVE  Done(Execute(w, s), Len(s), Meaning(w, s, m), n + 1)
<1>0. Len(s) \in Nat /\ 0 \in 0..Len(s) /\ n + 1 \in Nat /\ s \in Seq(Expressions(n))
  BY DEF Stacks
<1>1. CASE s = <<>>
  BY <1>0, <1>1, ExecutionOfOnQuery, Failing
<1>2. CASE s # <<>> /\ ~IsQuery(Top(s, 1))
  <2>1. 1 \in 0..Len(s)
    BY <1>0, <1>2
  <2>2. Execute(w, s) = Fail(1)
    BY <1>2, <2>1, ExecutionOfOnQuery DEF ExecuteOnQuery
  <2>3. QED
    BY <1>0, <2>1, <2>2, Failing
<1>3. CASE s # <<>> /\ IsQuery(Top(s, 1))
  <2> DEFINE q == Top(s, 1)
  <2>1. 1 \in 0..Len(s) /\ Len(s) >= 1
    BY <1>0, <1>3
  <2>2. q \in QueriesUpTo[n] /\ Top(m, 1) = Matched(q)
    BY <1>0, <1>3, <2>1, QueryOnTop
  <2>3. Execute(w, s) = Push(1, CASE w = "not" -> NotQ(q)
                                  [] w = "all" -> All(q)
                                  [] OTHER     -> AggregateExpression(w, q))
    BY <1>3, ExecutionOfOnQuery, Zenon DEF ExecuteOnQuery
  <2> HIDE DEF q
  <2>4. q \in QueriesUpTo[n + 1] /\ Matched(q) \subseteq AllTags
    BY <2>2, LevelsGrow DEF Matched
  <2>5. CASE w = "not"
    <3>1. NotQ(q) \in QueriesUpTo[n + 1] /\ \A tags : Matches(NotQ(q), tags) <=> ~Matches(q, tags)
      BY <2>2, NotQMeans
    <3>2. Meaning(w, s, m) = AllTags \ Matched(q)
      <4>1. Meaning(w, s, m) = AllTags \ Top(m, 1)
        BY <2>5, MeaningOfWord, Zenon
      <4>2. QED
        BY <2>2, <4>1, Zenon
    <3>3. Meaning(w, s, m) = Matched(NotQ(q))
      BY <3>1, <3>2 DEF Matched
    <3>4. w # "all"
      BY <2>5
    <3>5. Execute(w, s) = Push(1, NotQ(q))
      BY <2>3, <2>5, <3>4, Zenon
    <3>6. QED
      BY <1>0, <2>1, <3>1, <3>3, <3>5, PushingQuery
  <2>6. CASE w = "all"
    <3>1. w # "not"
      BY <2>6
    <3>2. Execute(w, s) = Push(1, All(q))
      BY <2>3, <2>6, <3>1, Zenon
    <3>3. Meaning(w, s, m) = Matched(q)
      BY <2>2, <2>6, MeaningOfOther
    <3>4. All(q) \in Expressions(n + 1) /\ Means(All(q), Matched(q))
      BY <2>4, AllMeans DEF Expressions
    <3>5. QED
      BY <1>0, <2>1, <2>4, <3>2, <3>3, <3>4, Pushing
  <2>7. CASE w \in Aggregates
    <3>1. w # "not" /\ w # "all"
      BY <2>7 DEF Aggregates
    <3>2. Execute(w, s) = Push(1, AggregateExpression(w, q))
      BY <2>3, <3>1, Zenon
    <3>3. Meaning(w, s, m) = Matched(q)
      BY <2>2, <2>7, MeaningOfOther
    <3>4. AggregateExpression(w, q) \in Expressions(n + 1) /\ Means(AggregateExpression(w, q), Matched(q))
      BY <2>4, <2>7, AggregateMeans DEF Expressions
    <3>5. QED
      BY <1>0, <2>1, <2>4, <3>2, <3>3, <3>4, Pushing
  <2>8. QED
    BY <2>5, <2>6, <2>7
<1>4. QED
  BY <1>1, <1>2, <1>3

-----------------------------------------------------------------------------
(* :by, :keep-tags and :drop-tags *)

\* The query of a group is its value expression's.
LEMMA GroupMeans ==
  ASSUME NEW n \in Nat, NEW class \in GroupClasses, NEW keys \in SUBSET STRING, NEW expr \in Inner(n),
         NEW m, expr.aggregate # "CONSTANT" => m = Matched(expr.query)
  PROVE  LET e == [type |-> "MultipleResults", class |-> class, keys |-> keys, expr |-> expr]
         IN  e \in Expressions(n) /\ Means(e, m)
<1> DEFINE e == [type |-> "MultipleResults", class |-> class, keys |-> keys, expr |-> expr]
<1>1. /\ e \in Groups(Inner(n)) /\ e.type = "MultipleResults" /\ e.class = class /\ e.expr = expr
  BY DEF Groups
<1>2. class # "All"
  BY DEF GroupClasses
<1> HIDE DEF e
<1>3. ~IsQuery(e)
  BY <1>1 DEF IsQuery, QueryTypes
<1>4. Selecting(e) = expr.query
  BY <1>1, <1>2, <1>3 DEF Selecting
<1>5. ~IsConstant(e) => expr.aggregate # "CONSTANT"
  BY <1>1, <1>2 DEF IsConstant
<1>6. Means(e, m)
  BY <1>3, <1>4, <1>5 DEF Means
<1>7. QED
  BY <1>1, <1>6 DEF Expressions, e

\* The expression that is grouped, and what it means.
LEMMA ValueExprFromIs ==
  ASSUME NEW n \in Nat, NEW e \in Expressions(n), NEW m, Means(e, m), IsValue(e),
         IsLiteral(e) => e.string \in DOMAIN Numbers
  PROVE  /\ ValueExprFrom(e) \in Inner(n)
         /\ ValueExprFrom(e).aggregate # "CONSTANT" => m = Matched(ValueExprFrom(e).query)
<1>1. CASE IsLiteral(e)
  <2>1. ValueExprFrom(e) = ConstantExpression(Numbers[e.string])
    BY <1>1, Zenon DEF ValueExprFrom, IsLiteral, IsQuery, QueryTypes
  <2>2. ConstantExpression(Numbers[e.string]) \in ConstantExpressions
    BY <1>1 DEF ConstantExpressions
  <2>3. ConstantExpression(Numbers[e.string]).aggregate = "CONSTANT"
    BY DEF ConstantExpression
  <2>4. QED
    BY <2>1, <2>2, <2>3 DEF Inner
<1>2. CASE IsQuery(e)
  <2>1. ~IsLiteral(e)
    BY <1>2 DEF IsLiteral, IsQuery, QueryTypes
  <2>2. ValueExprFrom(e) = AggregateExpression("SUM", e)
    BY <1>2, <2>1, Zenon DEF ValueExprFrom
  <2>3. e \in QueriesUpTo[n] /\ "SUM" \in Aggregates
    BY <1>2, Kinds DEF Aggregates
  <2>4. AggregateExpression("SUM", e) \in Aggregated(QueriesUpTo[n]) /\ AggregateExpression("SUM", e).query = e
    BY <2>3 DEF Aggregated, AggregateExpression
  <2>5. m = Matched(e)
    BY <1>2 DEF Means, Selecting
  <2>6. QED
    BY <2>2, <2>4, <2>5 DEF Inner
<1>3. CASE e.type = "ValueExpression"
  <2>1. ~IsLiteral(e) /\ ~IsQuery(e)
    BY <1>3 DEF IsLiteral, IsQuery, QueryTypes
  <2>2. ValueExprFrom(e) = e
    BY <2>1, Zenon DEF ValueExprFrom
  <2>3. e \in Aggregated(QueriesUpTo[n])
    BY <1>3, Kinds
  <2>4. e.aggregate # "CONSTANT"
    BY <2>3 DEF Aggregated, Aggregates
  <2>5. m = Matched(e.query)
    BY <1>3, <2>1, <2>4 DEF Means, Selecting, IsConstant
  <2>6. QED
    BY <2>2, <2>3, <2>5 DEF Inner
<1>4. QED
  BY <1>1, <1>2, <1>3 DEF IsValue

LEMMA GroupingPushes ==
  ASSUME NEW w \in Groupings, NEW s, Len(s) \in Nat, Len(s) >= 2,
         ~(IsLiteral(Top(s, 2)) /\ Top(s, 2).string \notin DOMAIN Numbers),
         Top(s, 1).type = "List", IsValue(Top(s, 2))
  PROVE  LET keys == Top(s, 1).items
             expr == ValueExprFrom(Top(s, 2))
         IN  \/ w = "by" /\ Execute(w, s) = Push(2, GroupBy(keys, expr))
             \/ w = "keep-tags" /\ Execute(w, s) = Push(2, KeepTags(keys, expr))
             \/ w = "drop-tags" /\ Execute(w, s) = Push(2, DropTags(keys, expr))
<1> DEFINE keys == Top(s, 1).items
           expr == ValueExprFrom(Top(s, 2))
<1>1. ~(Len(s) < 2)
  OBVIOUS
<1>2. ExecuteGrouping(w, s) = Push(2, CASE w = "by"        -> GroupBy(keys, expr)
                                       [] w = "keep-tags" -> KeepTags(keys, expr)
                                       [] w = "drop-tags" -> DropTags(keys, expr))
  BY <1>1, Zenon DEF ExecuteGrouping
<1>3. Execute(w, s) = ExecuteGrouping(w, s)
  BY ExecutionOfGrouping
<1> HIDE DEF keys, expr
<1>4. CASE w = "by"
  <2>1. w # "keep-tags" /\ w # "drop-tags"
    BY <1>4
  <2>2. Execute(w, s) = Push(2, GroupBy(keys, expr))
    BY <1>2, <1>3, <1>4, <2>1, Zenon
  <2>3. QED
    BY <1>4, <2>2 DEF keys, expr
<1>5. CASE w = "keep-tags"
  <2>1. w # "by" /\ w # "drop-tags"
    BY <1>5
  <2>2. Execute(w, s) = Push(2, KeepTags(keys, expr))
    BY <1>2, <1>3, <1>5, <2>1, Zenon
  <2>3. QED
    BY <1>5, <2>2 DEF keys, expr
<1>6. CASE w = "drop-tags"
  <2>1. w # "by" /\ w # "keep-tags"
    BY <1>6
  <2>2. Execute(w, s) = Push(2, DropTags(keys, expr))
    BY <1>2, <1>3, <1>6, <2>1, Zenon
  <2>3. QED
    BY <1>6, <2>2 DEF keys, expr
<1>7. QED
  BY <1>4, <1>5, <1>6 DEF Groupings

LEMMA GroupingDone ==
  ASSUME NEW n \in Nat, NEW s, NEW m, Stacks(s, m, n), NEW w \in Groupings, Name \in STRING
  PROVE  Done(Execute(w, s), Len(s), Meaning(w, s, m), n)
<1>0. Len(s) \in Nat /\ 0 \in 0..Len(s) /\ s \in Seq(Expressions(n))
  BY DEF Stacks
<1>1. CASE Len(s) < 2
  <2>1. Execute(w, s) = Throw
    BY <1>0, <1>1, ExecutionOfGrouping DEF ExecuteGrouping
  <2>2. QED
    BY <1>0, <2>1, Failing
<1>2. CASE Len(s) >= 2 /\ IsLiteral(Top(s, 2)) /\ Top(s, 2).string \notin DOMAIN Numbers
  <2>1. Execute(w, s) = Throw
    <3>1. ~(Len(s) < 2)
      BY <1>0, <1>2
    <3>2. QED
      BY <1>2, <3>1, ExecutionOfGrouping, Zenon DEF ExecuteGrouping
  <2>2. QED
    BY <1>0, <2>1, Failing
<1>3. CASE /\ Len(s) >= 2
           /\ ~(IsLiteral(Top(s, 2)) /\ Top(s, 2).string \notin DOMAIN Numbers)
           /\ Top(s, 1).type # "List" \/ ~IsValue(Top(s, 2))
  <2>1. Execute(w, s) = Fail(2)
    <3>1. ~(Len(s) < 2)
      BY <1>0, <1>3
    <3>2. QED
      BY <1>3, <3>1, ExecutionOfGrouping, Zenon DEF ExecuteGrouping
  <2>2. 2 \in 0..Len(s)
    BY <1>0, <1>3
  <2>3. QED
    BY <1>0, <2>1, <2>2, Failing
<1>4. CASE /\ Len(s) >= 2
           /\ ~(IsLiteral(Top(s, 2)) /\ Top(s, 2).string \notin DOMAIN Numbers)
           /\ Top(s, 1).type = "List" /\ IsValue(Top(s, 2))
  <2> DEFINE keys == Top(s, 1).items
             expr == ValueExprFrom(Top(s, 2))
             mean == Top(m, 2)
  <2>1. 2 \in 0..Len(s)
    BY <1>0, <1>4
  <2>2. ToSet(keys) \in SUBSET STRING
    <3>1. Top(s, 1) \in Lists
      BY <1>0, <1>4, TopIs, Kinds
    <3>2. keys \in Seq(STRING)
      BY <3>1 DEF Lists
    <3> HIDE DEF keys
    <3>3. QED
      BY <3>2 DEF ToSet
  <2>3. /\ Top(s, 2) \in Expressions(n) /\ mean \in SUBSET AllTags /\ Means(Top(s, 2), mean)
    BY <1>0, <1>4, TopMeans
  <2>4. expr \in Inner(n) /\ (expr.aggregate # "CONSTANT" => mean = Matched(expr.query))
    BY <1>4, <2>3, ValueExprFromIs
  <2>5. \/ Execute(w, s) = Push(2, GroupBy(keys, expr))
        \/ Execute(w, s) = Push(2, KeepTags(keys, expr))
        \/ Execute(w, s) = Push(2, DropTags(keys, expr))
    BY <1>0, <1>4, GroupingPushes
  <2>6. Meaning(w, s, m) = mean
    BY MeaningOfGrouping
  <2> HIDE DEF keys, expr, mean
  <2>7. /\ GroupBy(keys, expr) \in Expressions(n) /\ Means(GroupBy(keys, expr), mean)
        /\ KeepTags(keys, expr) \in Expressions(n) /\ Means(KeepTags(keys, expr), mean)
        /\ DropTags(keys, expr) \in Expressions(n) /\ Means(DropTags(keys, expr), mean)
    <3>1. ToSet(keys) \cup {Name} \in SUBSET STRING /\ GroupClasses = {"GroupBy", "KeepTags", "DropTags"}
      BY <2>2 DEF GroupClasses
    <3>2. \A class \in GroupClasses : \A ks \in SUBSET STRING :
            LET e == [type |-> "MultipleResults", class |-> class, keys |-> ks, expr |-> expr]
            IN  e \in Expressions(n) /\ Means(e, mean)
      BY <2>4, GroupMeans
    <3>3. QED
      BY <2>2, <3>1, <3>2 DEF GroupBy, KeepTags, DropTags
  <2>8. QED
    BY <1>0, <2>1, <2>3, <2>5, <2>6, <2>7, Pushing DEF mean
<1>5. QED
  BY <1>0, <1>1, <1>2, <1>3, <1>4

\* Every word leaves what it should.
LEMMA ExecuteDone ==
  ASSUME NEW n \in Nat, MaxDepth \in Nat, n + 1 <= MaxDepth, Name \in STRING,
         NEW s, NEW m, Stacks(s, m, n), NEW w \in Words
  PROVE  Done(Execute(w, s), Len(s), Meaning(w, s, m), n + 1)
<1>1. Stacks(s, m, n + 1) /\ s \in Seq(Expressions(n + 1)) /\ n + 1 \in Nat
  <2>1. Stacks(s, m, n + 1)
    BY Wider
  <2>2. QED
    BY <2>1 DEF Stacks
<1>2. CASE w \in RelOps
  BY <1>1, <1>2, RelopDone, ExecutionOfRelop
<1>3. CASE w \in Groupings
  BY <1>1, <1>3, GroupingDone
<1>4. CASE w \in {"and", "or"}
  BY <1>4, OnQueriesDone
<1>5. CASE w \in Aggregates \cup {"not", "all"}
  BY <1>5, OnQueryDone
<1>6. CASE w = "has"
  BY <1>1, <1>6, HasDone
<1>7. CASE w \in {"re", "reic"}
  BY <1>1, <1>7, RegexDone
<1>8. CASE w = "in"
  BY <1>1, <1>8, InDone
<1>9. CASE w \in {"true", "false", "unknown"}
  BY <1>1, <1>9, TruthDone
<1>10. QED
  BY <1>2, <1>3, <1>4, <1>5, <1>6, <1>7, <1>8, <1>9 DEF Words

\* What is done leaves both stacks in order.
LEMMA DoneStacks ==
  ASSUME NEW n \in Nat, NEW s, NEW m, Stacks(s, m, n), NEW done, NEW meaning,
         Done(done, Len(s), meaning, n)
  PROVE  Stacks(Below(s, done.pops) \o done.push,
                Below(m, done.pops) \o IF done.push = <<>> THEN <<>> ELSE <<meaning>>, n)
<1> DEFINE S == Expressions(n)
           M == SUBSET AllTags
           k == Len(s) - done.pops
<1>1. s \in Seq(S) /\ m \in Seq(M) /\ Len(m) = Len(s) /\ Len(s) \in Nat /\ \A i \in DOMAIN s : Means(s[i], m[i])
  BY DEF Stacks
<1>2. done.pops \in 0..Len(s)
  BY DEF Done
<1>3. k \in Nat /\ k <= Len(s)
  BY <1>1, <1>2
<1>4. Below(s, done.pops) = SubSeq(s, 1, k) /\ Below(m, done.pops) = SubSeq(m, 1, k)
  BY <1>1 DEF Below
<1> HIDE DEF S, M, k
<1>5. /\ SubSeq(s, 1, k) \in Seq(S) /\ Len(SubSeq(s, 1, k)) = k
      /\ \A i \in 1..k : SubSeq(s, 1, k)[i] = s[i]
  BY <1>1, <1>3
<1>6. /\ SubSeq(m, 1, k) \in Seq(M) /\ Len(SubSeq(m, 1, k)) = k
      /\ \A i \in 1..k : SubSeq(m, 1, k)[i] = m[i]
  BY <1>1, <1>3
<1> DEFINE a == SubSeq(s, 1, k)
           b == SubSeq(m, 1, k)
<1>7. \A i \in 1..k : Means(a[i], b[i])
  BY <1>1, <1>3, <1>5, <1>6
<1> HIDE DEF a, b
<1>8. a \in Seq(S) /\ Len(a) = k /\ b \in Seq(M) /\ Len(b) = k
  BY <1>5, <1>6 DEF a, b
<1>9. CASE done.push = <<>>
  <2>1. a \o <<>> = a /\ b \o <<>> = b
    BY <1>8
  <2>2. DOMAIN a = 1..k
    BY <1>8
  <2>3. Stacks(a, b, n)
    BY <1>7, <1>8, <2>2 DEF Stacks, S, M
  <2>4. QED
    BY <1>4, <1>9, <2>1, <2>3 DEF a, b
<1>10. CASE done.push # <<>>
  <2>1. PICK e \in S : done.push = <<e>> /\ Means(e, meaning) /\ meaning \in M
    BY <1>10 DEF Done, S, M
  <2> DEFINE c == a \o <<e>>
             d == b \o <<meaning>>
  <2>2. /\ c \in Seq(S) /\ Len(c) = k + 1 /\ c[k + 1] = e /\ \A i \in 1..k : c[i] = a[i]
    BY <1>3, <1>8, <2>1
  <2>3. /\ d \in Seq(M) /\ Len(d) = k + 1 /\ d[k + 1] = meaning /\ \A i \in 1..k : d[i] = b[i]
    BY <1>3, <1>8, <2>1
  <2> HIDE DEF c, d
  <2>4. DOMAIN c = 1..(k + 1)
    BY <2>2
  <2>5. \A i \in DOMAIN c : Means(c[i], d[i])
    <3>1. \A i \in 1..(k + 1) : i \in 1..k \/ i = k + 1
      BY <1>3
    <3>2. QED
      BY <1>7, <2>1, <2>2, <2>3, <2>4, <3>1
  <2>6. Stacks(c, d, n)
    BY <2>2, <2>3, <2>5 DEF Stacks, S, M
  <2>7. QED
    BY <1>4, <1>10, <2>1, <2>6 DEF a, b, c, d
<1>11. QED
  BY <1>9, <1>10

-----------------------------------------------------------------------------
(* The interpreter *)

\* A sequence has no more elements than places.
LEMMA ElementsFinite ==
  ASSUME NEW S, NEW l \in Seq(S)
  PROVE  IsFiniteSet(ToSet(l)) /\ Cardinality(ToSet(l)) <= Len(l) /\ ToSet(l) \subseteq S
<1>1. IsFiniteSet(1..Len(l)) /\ Cardinality(1..Len(l)) = Len(l)
  <2> DEFINE n == Len(l)
  <2>1. n \in Nat
    OBVIOUS
  <2> HIDE DEF n
  <2>2. IsFiniteSet(1..n) /\ Cardinality(1..n) = IF 1 > n THEN 0 ELSE n - 1 + 1
    BY <2>1, FS_Interval
  <2>3. Cardinality(1..n) = n
    BY <2>1, <2>2
  <2>4. QED
    BY <2>2, <2>3 DEF n
<1>2. DOMAIN l = 1..Len(l) /\ ToSet(l) = {l[i] : i \in 1..Len(l)}
  BY DEF ToSet
<1>3. l \in Surjection(1..Len(l), ToSet(l))
  BY <1>2 DEF Surjection
<1>4. IsFiniteSet(ToSet(l)) /\ Cardinality(ToSet(l)) <= Cardinality(1..Len(l))
  BY <1>1, <1>3, FS_Surjection
<1>5. QED
  BY <1>1, <1>2, <1>4

LEMMA StringsAre == Strings \subseteq STRING /\ IsFiniteSet(Strings)
<1>1. Lexicon \in Seq(STRING)
  BY InterpreterAssumption
<1>2. Strings = ToSet(Lexicon)
  BY DEF Strings, Range, ToSet
<1>3. IsFiniteSet(ToSet(Lexicon)) /\ ToSet(Lexicon) \subseteq STRING
  <2>1. \A S : \A l \in Seq(S) : IsFiniteSet(ToSet(l)) /\ ToSet(l) \subseteq S
    BY ElementsFinite
  <2>2. QED
    BY <1>1, <2>1
<1>4. QED
  BY <1>2, <1>3

\* Every variable keeps its type, and in a list the list is the top.
InterpreterTypeOK(B) ==
  /\ left \in 0..B
  /\ stack \in Seq(Expressions(B - left))
  /\ meant \in Seq(SUBSET AllTags) /\ Len(meant) = Len(stack)
  /\ listDepth \in Int /\ status \in {"reading", "stopped", "threw"}
  /\ status = "reading" => listDepth >= 0
  /\ listDepth > 0 => stack # <<>> /\ stack[Len(stack)] \in Lists

InterpreterInv(B) ==
  /\ InterpreterTypeOK(B)
  /\ \A i \in DOMAIN stack : Means(stack[i], meant[i])

LEMMA InvStacks ==
  ASSUME NEW B, InterpreterInv(B)
  PROVE  Stacks(stack, meant, B - left)
BY DEF InterpreterInv, InterpreterTypeOK, Stacks

LEMMA StacksInv ==
  ASSUME NEW B, left' \in 0..B, Stacks(stack', meant', B - left'),
         listDepth' \in Int, status' \in {"reading", "stopped", "threw"},
         status' = "reading" => listDepth' >= 0,
         listDepth' > 0 => stack' # <<>> /\ stack'[Len(stack')] \in Lists
  PROVE  InterpreterInv(B)'
BY DEF InterpreterInv, InterpreterTypeOK, Stacks

\* Reading a token leaves room for one level more.
LEMMA Reading ==
  ASSUME NEW B \in Nat, InterpreterInv(B), NEW t, Read(t)
  PROVE  /\ left' \in 0..B
         /\ B - left \in Nat /\ (B - left) + 1 <= B
         /\ B - left' = (B - left) + 1
         /\ status = "reading" /\ listDepth >= 0 /\ listDepth \in Int
BY DEF InterpreterInv, InterpreterTypeOK, Read

\* A list means nothing.
LEMMA ListsMean ==
  ASSUME NEW n, NEW e \in Lists \cup Literals, NEW m
  PROVE  e \in Expressions(n) /\ Means(e, m)
BY DEF Lists, Literals, Expressions, Means, IsQuery, QueryTypes

LEMMA Appended ==
  ASSUME NEW n \in Nat, NEW s, NEW m, Stacks(s, m, n), NEW e \in Lists \cup Literals
  PROVE  Stacks(Append(s, e), Append(m, {}), n)
<1> DEFINE S == Expressions(n)
           M == SUBSET AllTags
<1>1. s \in Seq(S) /\ m \in Seq(M) /\ Len(m) = Len(s) /\ \A i \in DOMAIN s : Means(s[i], m[i])
  BY DEF Stacks
<1>2. e \in S /\ Means(e, {}) /\ {} \in M
  BY ListsMean
<1> DEFINE c == Append(s, e)
           d == Append(m, {})
<1> HIDE DEF S, M
<1>3. c \in Seq(S) /\ Len(c) = Len(s) + 1 /\ c[Len(s) + 1] = e /\ \A i \in 1..Len(s) : c[i] = s[i]
  BY <1>1, <1>2
<1>4. d \in Seq(M) /\ Len(d) = Len(s) + 1 /\ d[Len(s) + 1] = {} /\ \A i \in 1..Len(s) : d[i] = m[i]
  BY <1>1, <1>2
<1> HIDE DEF c, d
<1>5. \A i \in DOMAIN c : Means(c[i], d[i])
  <2>1. Len(s) \in Nat /\ DOMAIN s = 1..Len(s) /\ DOMAIN c = 1..(Len(s) + 1)
    BY <1>1, <1>3
  <2>2. \A i \in 1..(Len(s) + 1) : i \in 1..Len(s) \/ i = Len(s) + 1
    BY <2>1
  <2>3. QED
    BY <1>1, <1>2, <1>3, <1>4, <2>1, <2>2
<1>6. QED
  BY <1>3, <1>4, <1>5 DEF Stacks, S, M, c, d

\* A list that grows is still one, and the rest stays.
LEMMA ListGrows ==
  ASSUME NEW n \in Nat, NEW s, NEW m, Stacks(s, m, n), s # <<>>, s[Len(s)] \in Lists,
         NEW item \in STRING
  PROVE  LET new == [s EXCEPT ![Len(s)] = List(Append(@.items, item))]
         IN  /\ Stacks(new, m, n)
             /\ new # <<>> /\ new[Len(new)] \in Lists
<1> DEFINE S == Expressions(n)
           l == List(Append(s[Len(s)].items, item))
           new == [s EXCEPT ![Len(s)] = l]
<1>1. s \in Seq(S) /\ m \in Seq(SUBSET AllTags) /\ Len(m) = Len(s) /\ \A i \in DOMAIN s : Means(s[i], m[i])
  BY DEF Stacks
<1>2. l \in Lists
  <2>1. s[Len(s)].items \in Seq(STRING)
    BY DEF Lists
  <2>2. Append(s[Len(s)].items, item) \in Seq(STRING)
    BY <2>1
  <2>3. QED
    BY <2>2 DEF List, Lists
<1>3. l \in S /\ \A x : Means(l, x)
  BY <1>2, ListsMean
<1> HIDE DEF S, l
<1>4. Len(s) \in Nat /\ Len(s) \in 1..Len(s) /\ DOMAIN s = 1..Len(s)
  BY <1>1
<1>5. /\ new \in Seq(S) /\ Len(new) = Len(s) /\ DOMAIN new = 1..Len(s)
      /\ new[Len(s)] = l /\ \A i \in 1..Len(s) : i # Len(s) => new[i] = s[i]
  BY <1>1, <1>3, <1>4
<1> HIDE DEF new
<1>6. \A i \in DOMAIN new : Means(new[i], m[i])
  BY <1>1, <1>3, <1>4, <1>5
<1>7. Stacks(new, m, n)
  BY <1>1, <1>5, <1>6 DEF Stacks, S
<1>8. new # <<>> /\ new[Len(new)] \in Lists
  <2>1. Len(new) # 0
    <3>1. Len(s) # 0
      BY <1>4
    <3>2. QED
      BY <1>5, <3>1, Zenon
  <2>2. new[Len(new)] = l
    BY <1>5, Zenon
  <2>3. Len(<<>>) = 0
    OBVIOUS
  <2>4. QED
    BY <1>2, <2>1, <2>2, <2>3
<1>9. QED
  BY <1>7, <1>8 DEF new, l

\* B bounds the lengths of programs.
Bounds(B) == B \in 0..MaxDepth /\ \A v \in Vocabularies : v.length <= B

LEMMA InitialInterpreter ==
  ASSUME NEW B, Bounds(B), InterpreterInit
  PROVE  InterpreterInv(B)
<1>1. left \in 0..B
  BY InterpreterAssumption DEF InterpreterInit, Bounds
<1>2. stack = <<>> /\ meant = <<>> /\ listDepth = 0 /\ status = "reading"
  BY DEF InterpreterInit
<1>3. stack \in Seq(Expressions(B - left)) /\ meant \in Seq(SUBSET AllTags) /\ Len(meant) = Len(stack)
      /\ DOMAIN stack = {}
  BY <1>2
<1>4. QED
  BY <1>1, <1>2, <1>3 DEF InterpreterInv, InterpreterTypeOK

LEMMA PushToListStep ==
  ASSUME NEW B \in Nat, InterpreterInv(B), NEW t, Read(t), listDepth > 0, NEW item \in STRING, PushToList(item)
  PROVE  Stacks(stack', meant', B - left') /\ stack' # <<>> /\ stack'[Len(stack')] \in Lists
<1> DEFINE n == B - left
<1>1. n \in Nat /\ B - left' = n + 1
  BY Reading
<1>2. Stacks(stack, meant, n)
  BY InvStacks
<1> HIDE DEF n
<1>3. Stacks(stack, meant, n + 1) /\ n + 1 \in Nat
  BY <1>1, <1>2, Wider
<1>4. stack # <<>> /\ stack[Len(stack)] \in Lists
  BY DEF InterpreterInv, InterpreterTypeOK
<1>5. stack' = [stack EXCEPT ![Len(stack)] = List(Append(@.items, item))] /\ meant' = meant
  BY DEF PushToList
<1>6. QED
  BY <1>1, <1>3, <1>4, <1>5, ListGrows

LEMMA AppendStep ==
  ASSUME NEW B \in Nat, InterpreterInv(B), NEW t, Read(t), NEW e \in Lists \cup Literals,
         stack' = Append(stack, e), meant' = Append(meant, {})
  PROVE  Stacks(stack', meant', B - left') /\ stack' # <<>> /\ stack'[Len(stack')] = e
<1> DEFINE n == B - left
<1>1. n \in Nat /\ B - left' = n + 1
  BY Reading
<1>2. Stacks(stack, meant, n)
  BY InvStacks
<1> HIDE DEF n
<1>3. Stacks(stack, meant, n + 1) /\ n + 1 \in Nat
  BY <1>1, <1>2, Wider
<1>4. Stacks(Append(stack, e), Append(meant, {}), n + 1)
  BY <1>3, Appended
<1>5. Append(stack, e) # <<>> /\ Append(stack, e)[Len(Append(stack, e))] = e
  <2>1. stack \in Seq(Expressions(n))
    BY <1>2 DEF Stacks
  <2>2. PICK S : stack \in Seq(S) /\ e \in S
    <3>1. stack \in Seq(Expressions(n) \cup {e}) /\ e \in Expressions(n) \cup {e}
      BY <2>1
    <3>2. QED
      BY <3>1
  <2>3. QED
    BY <2>2
<1>6. QED
  BY <1>1, <1>4, <1>5

LEMMA InterpreterStep ==
  ASSUME NEW B, Bounds(B), InterpreterInv(B), [InterpreterNext]_interpreterVars
  PROVE  InterpreterInv(B)'
<1>0. /\ MaxDepth \in Nat /\ B \in Nat /\ B <= MaxDepth /\ Strings \subseteq STRING /\ Words \subseteq STRING
      /\ "(" \in STRING /\ ")" \in STRING /\ Name \in STRING
  BY InterpreterAssumption, StringsAre DEF Parentheses, Bounds
<1>1. CASE OpenParenthesis
  <2>1. Read("(") /\ listDepth' = listDepth + 1 /\ status' = status
    BY <1>1 DEF OpenParenthesis
  <2>2. left' \in 0..B /\ status = "reading" /\ listDepth >= 0 /\ listDepth \in Int
    BY <1>0, <2>1, Reading
  <2>3. Stacks(stack', meant', B - left') /\ stack' # <<>> /\ stack'[Len(stack')] \in Lists
    <3>1. CASE listDepth > 0
      <4>1. PushToList("(")
        BY <1>1, <3>1 DEF OpenParenthesis
      <4>2. QED
        BY <1>0, <2>1, <3>1, <4>1, PushToListStep
    <3>2. CASE ~(listDepth > 0)
      <4>1. stack' = Append(stack, List(<<>>)) /\ meant' = Append(meant, {})
        BY <1>1, <3>2 DEF OpenParenthesis
      <4>2. List(<<>>) \in Lists
        BY DEF List, Lists
      <4>3. QED
        BY <1>0, <2>1, <4>1, <4>2, AppendStep
    <3>3. QED
      BY <3>1, <3>2
  <2>4. QED
    BY <2>1, <2>2, <2>3, StacksInv
<1>2. CASE CloseParenthesis
  <2>1. /\ Read(")") /\ listDepth' = listDepth - 1
        /\ status' = IF listDepth = 0 THEN "stopped" ELSE status
    BY <1>2 DEF CloseParenthesis
  <2>2. left' \in 0..B /\ status = "reading" /\ listDepth >= 0 /\ listDepth \in Int
    BY <1>0, <2>1, Reading
  <2>3. CASE listDepth > 1
    <3>1. PushToList(")") /\ listDepth > 0
      BY <1>2, <2>2, <2>3 DEF CloseParenthesis
    <3>2. Stacks(stack', meant', B - left') /\ stack' # <<>> /\ stack'[Len(stack')] \in Lists
      BY <1>0, <2>1, <3>1, PushToListStep
    <3>3. QED
      BY <2>1, <2>2, <2>3, <3>2, StacksInv
  <2>4. CASE ~(listDepth > 1)
    <3>1. stack' = stack /\ meant' = meant
      BY <1>2, <2>4 DEF CloseParenthesis
    <3>2. Stacks(stack, meant, B - left')
      BY <1>0, <2>1, Reading, InvStacks, Wider
    <3>3. ~(listDepth' > 0) /\ listDepth' \in Int
      BY <2>1, <2>2, <2>4
    <3>4. status' \in {"reading", "stopped"} /\ (status' = "reading" => listDepth' >= 0)
      BY <2>1, <2>2
    <3>5. QED
      BY <2>2, <3>1, <3>2, <3>3, <3>4, StacksInv
  <2>5. QED
    BY <2>3, <2>4
<1>3. CASE InList
  <2>1. PICK t \in Strings \cup Words : Read(t) /\ PushToList(t)
    BY <1>3 DEF InList
  <2>2. listDepth > 0 /\ listDepth' = listDepth /\ status' = status
    BY <1>3 DEF InList
  <2>3. t \in STRING
    BY <1>0
  <2>4. left' \in 0..B /\ status = "reading" /\ listDepth >= 0 /\ listDepth \in Int
    BY <1>0, <2>1, Reading
  <2>5. Stacks(stack', meant', B - left') /\ stack' # <<>> /\ stack'[Len(stack')] \in Lists
    BY <1>0, <2>1, <2>2, <2>3, PushToListStep
  <2>6. QED
    BY <2>2, <2>4, <2>5, StacksInv
<1>4. CASE PushLiteral
  <2>1. PICK t \in Strings : Read(t) /\ stack' = Append(stack, Literal(t))
    BY <1>4 DEF PushLiteral
  <2>2. listDepth = 0 /\ listDepth' = listDepth /\ status' = status /\ meant' = Append(meant, {})
    BY <1>4 DEF PushLiteral
  <2>3. Literal(t) \in Literals
    BY <1>0 DEF Literal, Literals
  <2>4. left' \in 0..B /\ status = "reading" /\ listDepth >= 0 /\ listDepth \in Int
    BY <1>0, <2>1, Reading
  <2>5. Stacks(stack', meant', B - left')
    BY <1>0, <2>1, <2>2, <2>3, AppendStep
  <2>6. QED
    BY <2>2, <2>4, <2>5, StacksInv
<1>5. CASE ExecuteWord
  <2> DEFINE done(w) == Execute(w, stack)
  <2>1. PICK w \in Words :
          /\ Read(w)
          /\ stack' = Below(stack, done(w).pops) \o done(w).push
          /\ meant' = Below(meant, done(w).pops) \o
                      IF done(w).push = <<>> THEN <<>> ELSE <<Meaning(w, stack, meant)>>
          /\ status' = IF done(w).throws THEN "threw" ELSE status
    BY <1>5 DEF ExecuteWord
  <2> DEFINE n == B - left
  <2>2. left' \in 0..B /\ n \in Nat /\ n + 1 <= B /\ n + 1 <= MaxDepth /\ B - left' = n + 1
        /\ status = "reading"
    BY <1>0, <2>1, Reading
  <2>3. Stacks(stack, meant, n)
    BY InvStacks
  <2>4. listDepth = 0 /\ listDepth' = 0
    BY <1>5 DEF ExecuteWord
  <2> HIDE DEF n
  <2>5. Done(done(w), Len(stack), Meaning(w, stack, meant), n + 1)
    BY <1>0, <2>2, <2>3, ExecuteDone
  <2>6. Stacks(stack, meant, n + 1) /\ n + 1 \in Nat
    BY <2>2, <2>3, Wider
  <2> HIDE DEF done
  <2>7. Stacks(stack', meant', n + 1)
    BY <2>1, <2>5, <2>6, DoneStacks
  <2>8. QED
    BY <2>1, <2>2, <2>4, <2>7, StacksInv
<1>6. CASE UNCHANGED interpreterVars
  BY <1>6 DEF interpreterVars, InterpreterInv, InterpreterTypeOK
<1>7. QED
  BY <1>1, <1>2, <1>3, <1>4, <1>5, <1>6 DEF InterpreterNext

LEMMA DepthBounds == Bounds(MaxDepth)
BY InterpreterAssumption DEF Bounds

\* What every step keeps: expressions nested no deeper than tokens were read,
\* and each of them meaning what was written.
THEOREM InterpreterInvariant == InterpreterSpec => []InterpreterInv(MaxDepth)
<1>1. InterpreterInit => InterpreterInv(MaxDepth)
  BY DepthBounds, InitialInterpreter
<1>2. InterpreterInv(MaxDepth) /\ [InterpreterNext]_interpreterVars => InterpreterInv(MaxDepth)'
  BY DepthBounds, InterpreterStep
<1>3. QED
  BY <1>1, <1>2, PTL DEF InterpreterSpec

\* Whatever bounds the lengths of programs, after as many tokens queries are
\* nested no deeper, the stack holds expressions only, and a list that is being
\* read is its top.
THEOREM TypeCorrect ==
  ASSUME NEW B, Bounds(B)
  PROVE  InterpreterSpec => []InterpreterTypeOK(B)
<1>1. InterpreterInit => InterpreterInv(B)
  BY InitialInterpreter
<1>2. InterpreterInv(B) /\ [InterpreterNext]_interpreterVars => InterpreterInv(B)'
  BY InterpreterStep
<1>3. InterpreterInv(B) => InterpreterTypeOK(B)
  BY DEF InterpreterInv
<1>4. QED
  BY <1>1, <1>2, <1>3, PTL DEF InterpreterSpec

\* Through any program over any vocabulary, whatever :not, :and and :or
\* simplify or swap, a query matches what was written.
THEOREM SimplifiedQueriesMean == InterpreterSpec => []QueriesMeanWhatIsWritten
<1>1. InterpreterInv(MaxDepth) => QueriesMeanWhatIsWritten
  BY DEF InterpreterInv, QueriesMeanWhatIsWritten, Queries, Means, Matched, Selecting
<1>2. QED
  BY <1>1, InterpreterInvariant, PTL

-----------------------------------------------------------------------------
(* Rules *)

\* The measurements q matches.
Picked(q, ms) == {m \in ms : Matches(q, TagsOfPair(m))}

LEMMA SelectedOfPicked ==
  ASSUME NEW q, NEW ms
  PROVE  Selected(q, Picked(q, ms)) = Selected(q, ms)
BY DEF Selected, Picked

LEMMA NothingSelected ==
  ASSUME NEW q
  PROVE  Selected(q, {}) = {}
BY DEF Selected

\* An aggregate gives of the picked what it gives of all, and NaN of none.
LEMMA ApplyPicked ==
  ASSUME NEW e, e.aggregate # "CONSTANT", NEW ms
  PROVE  /\ Apply(e, Picked(e.query, ms)) = Apply(e, ms)
         /\ Selected(e.query, ms) = {} => Apply(e, ms).value = NaN
<1>1. \A x : Apply(e, x) = [tags |-> TagsOf(e.query), value |-> Aggregate(e.aggregate, Selected(e.query, x))]
  BY DEF Apply
<1>2. Apply(e, Picked(e.query, ms)) = Apply(e, ms)
  BY <1>1, SelectedOfPicked
<1>3. Apply(e, ms).value = Aggregate(e.aggregate, Selected(e.query, ms))
  BY <1>1
<1>4. Aggregate(e.aggregate, {}) \in {NaN}
  BY DEF Aggregate
<1>5. QED
  BY <1>2, <1>3, <1>4

LEMMA ResultsOfValue ==
  ASSUME NEW e, e.type = "ValueExpression", NEW ms
  PROVE  Results(e, ms) = {r \in {Apply(e, ms)} : r.value # NaN}
<1>1. e.type # "MultipleResults"
  OBVIOUS
<1>2. QED
  BY <1>1, Zenon DEF Results

LEMMA ResultsOfAll ==
  ASSUME NEW e, e.type = "MultipleResults", e.class = "All", NEW ms
  PROVE  Results(e, ms) = {[tags |-> TagsOfPair(m), value |-> m.value] :
                             m \in IF e.query.type = "True" THEN ms ELSE Selected(e.query, ms)}
<1>1. e.type # "ValueExpression"
  OBVIOUS
<1>2. QED
  BY <1>1, Zenon DEF Results

LEMMA ResultsOfGroups ==
  ASSUME NEW e, e.type = "MultipleResults", e.class # "All", NEW ms
  PROVE  Results(e, ms) = ApplyToGroups(e, ms)
<1>1. e.type # "ValueExpression"
  OBVIOUS
<1>2. QED
  BY <1>1, Zenon DEF Results

LEMMA ResultsOfOthers ==
  ASSUME NEW e, e.type # "ValueExpression", e.type # "MultipleResults", NEW ms
  PROVE  Results(e, ms) = {}
BY Zenon DEF Results

\* Of ms, those of a group.
InGroup(e, g, ms) ==
  {m \in ms : GroupKeys(e, m) \subseteq DOMAIN TagsOfPair(m) /\ Restrict(TagsOfPair(m), GroupKeys(e, m)) = g}

NewTagsOf(e, g, tags) == IF e.class = "GroupBy" THEN AddAll(g, tags) ELSE g

\* The groups that have a result.
ResultGroups(e, ms) ==
  {g \in {Restrict(TagsOfPair(m), GroupKeys(e, m)) :
            m \in {x \in ms : GroupKeys(e, x) \subseteq DOMAIN TagsOfPair(x)}} :
     Apply(e.expr, InGroup(e, g, ms)).value # NaN}

LEMMA ApplyToGroupsIs ==
  ASSUME NEW e, NEW ms
  PROVE  ApplyToGroups(e, ms) =
           {[tags  |-> NewTagsOf(e, g, Apply(e.expr, InGroup(e, g, ms)).tags),
             value |-> Apply(e.expr, InGroup(e, g, ms)).value] : g \in ResultGroups(e, ms)}
<1> DEFINE kept == {m \in ms : GroupKeys(e, m) \subseteq DOMAIN TagsOfPair(m)}
           Group(m) == Restrict(TagsOfPair(m), GroupKeys(e, m))
<1>1. \A g : {m \in kept : Group(m) = g} = InGroup(e, g, ms)
  BY DEF InGroup
<1>2. ApplyToGroups(e, ms) =
        {[tags  |-> IF e.class = "GroupBy" THEN AddAll(g, Apply(e.expr, {m \in kept : Group(m) = g}).tags) ELSE g,
          value |-> Apply(e.expr, {m \in kept : Group(m) = g}).value] :
           g \in {h \in {Group(m) : m \in kept} : Apply(e.expr, {m \in kept : Group(m) = h}).value # NaN}}
  BY Zenon DEF ApplyToGroups
<1>3. ResultGroups(e, ms) = {h \in {Group(m) : m \in kept} : Apply(e.expr, InGroup(e, h, ms)).value # NaN}
  BY DEF ResultGroups
<1>4. {h \in {Group(m) : m \in kept} : Apply(e.expr, {m \in kept : Group(m) = h}).value # NaN} = ResultGroups(e, ms)
  BY <1>1, <1>3, Zenon
<1>5. QED
  BY <1>1, <1>2, <1>4, Zenon DEF NewTagsOf

LEMMA GroupsOfPicked ==
  ASSUME NEW e, e.expr.aggregate # "CONSTANT", NEW ms
  PROVE  ApplyToGroups(e, Picked(e.expr.query, ms)) = ApplyToGroups(e, ms)
<1> DEFINE q == e.expr.query
           mq == Picked(q, ms)
<1>1. \A g : InGroup(e, g, mq) = Picked(q, InGroup(e, g, ms))
  BY DEF InGroup, Picked
<1>2. \A g : Apply(e.expr, InGroup(e, g, mq)) = Apply(e.expr, InGroup(e, g, ms))
  BY <1>1, ApplyPicked
<1>3. \A g : Apply(e.expr, InGroup(e, g, ms)).value # NaN => Selected(q, InGroup(e, g, ms)) # {}
  BY ApplyPicked
<1> HIDE DEF mq, q
<1>4. ASSUME NEW g
      PROVE  g \in ResultGroups(e, mq) <=> g \in ResultGroups(e, ms)
  <2>1. ASSUME g \in ResultGroups(e, mq)
        PROVE  g \in ResultGroups(e, ms)
    <3>1. Apply(e.expr, InGroup(e, g, mq)).value # NaN
      BY <2>1 DEF ResultGroups
    <3>2. PICK m \in mq : GroupKeys(e, m) \subseteq DOMAIN TagsOfPair(m) /\ g = Restrict(TagsOfPair(m), GroupKeys(e, m))
      BY <2>1 DEF ResultGroups
    <3>3. m \in ms
      BY DEF mq, Picked
    <3>4. QED
      BY <1>2, <3>1, <3>2, <3>3, Zenon DEF ResultGroups
  <2>2. ASSUME g \in ResultGroups(e, ms)
        PROVE  g \in ResultGroups(e, mq)
    <3>1. Apply(e.expr, InGroup(e, g, ms)).value # NaN
      BY <2>2 DEF ResultGroups
    <3>2. PICK m : m \in Selected(q, InGroup(e, g, ms))
      BY <1>3, <3>1
    <3>3. /\ m \in ms /\ GroupKeys(e, m) \subseteq DOMAIN TagsOfPair(m)
          /\ g = Restrict(TagsOfPair(m), GroupKeys(e, m)) /\ Matches(q, TagsOfPair(m))
      BY <3>2 DEF Selected, InGroup
    <3>4. m \in mq
      BY <3>3 DEF mq, Picked
    <3>5. QED
      BY <1>2, <3>1, <3>3, <3>4, Zenon DEF ResultGroups
  <2>3. QED
    BY <2>1, <2>2
<1>5. ResultGroups(e, mq) = ResultGroups(e, ms)
  BY <1>4, Zenon
<1>6. ApplyToGroups(e, mq) = ApplyToGroups(e, ms)
  BY <1>2, <1>5, ApplyToGroupsIs, Zenon
<1>7. QED
  BY <1>6 DEF mq, q

LEMMA GroupsOfNone ==
  ASSUME NEW e
  PROVE  ApplyToGroups(e, {}) = {}
<1>1. ResultGroups(e, {}) = {}
  BY DEF ResultGroups
<1>2. QED
  BY <1>1, ApplyToGroupsIs, Zenon

\* The query of a stack that holds one expression.
LEMMA QueryOfOne ==
  ASSUME NEW s, Len(s) = 1
  PROVE  /\ IsQuery(s[1]) => GetQuery(s) = s[1]
         /\ s[1].type = "ValueExpression" => GetQuery(s) = s[1].query
         /\ s[1].type = "MultipleResults" /\ s[1].class = "All" => GetQuery(s) = s[1].query
         /\ s[1].type = "MultipleResults" /\ s[1].class # "All" => GetQuery(s) = s[1].expr.query
<1> DEFINE e == s[1]
<1>1. GetQuery(s) = CASE IsQuery(e) -> e
         [] e.type = "ValueExpression" -> e.query
         [] e.type = "MultipleResults" ->
              IF e.class = "All" THEN e.query ELSE e.expr.query
         [] OTHER -> FalseQuery
  BY Zenon DEF GetQuery
<1> HIDE DEF e
<1>2. ASSUME IsQuery(e)
      PROVE  GetQuery(s) = e
  <2>1. e.type # "ValueExpression" /\ e.type # "MultipleResults"
    BY <1>2 DEF IsQuery, QueryTypes
  <2>2. QED
    BY <1>1, <1>2, <2>1, Zenon
<1>3. ASSUME e.type = "ValueExpression"
      PROVE  GetQuery(s) = e.query
  <2>1. ~IsQuery(e) /\ e.type # "MultipleResults"
    BY <1>3 DEF IsQuery, QueryTypes
  <2>2. QED
    BY <1>1, <1>3, <2>1, Zenon
<1>4. ASSUME e.type = "MultipleResults"
      PROVE  GetQuery(s) = IF e.class = "All" THEN e.query ELSE e.expr.query
  <2>1. ~IsQuery(e) /\ e.type # "ValueExpression"
    BY <1>4 DEF IsQuery, QueryTypes
  <2>2. QED
    BY <1>1, <1>4, <2>1, Zenon
<1>5. QED
  BY <1>2, <1>3, <1>4 DEF e

\* What one expression gives of the measurements its query picks is what it
\* gives of all, and of none it gives nothing.
LEMMA PickedIsAll ==
  ASSUME MaxDepth \in Nat, NEW n \in 0..MaxDepth, NEW e \in Expressions(n), ~IsConstant(e), NEW ms,
         NEW s, Len(s) = 1, s[1] = e
  PROVE  /\ Results(e, Picked(GetQuery(s), ms)) = Results(e, ms)
         /\ Results(e, {}) = {}
<1>0. n \in Nat /\ QueriesUpTo[n] \subseteq QuerySet
  BY LevelsMonotone DEF QuerySet
<1>1. CASE e.type = "ValueExpression"
  <2>1. e.aggregate # "CONSTANT"
    BY <1>1 DEF IsConstant
  <2>2. GetQuery(s) = e.query
    BY <1>1, QueryOfOne
  <2>3. Apply(e, Picked(e.query, ms)) = Apply(e, ms)
    BY <2>1, ApplyPicked
  <2>4. Apply(e, {}).value = NaN
    BY <2>1, ApplyPicked, NothingSelected
  <2>5. QED
    BY <1>1, <2>2, <2>3, <2>4, ResultsOfValue
<1>2. CASE e.type = "MultipleResults" /\ e.class = "All"
  <2>1. GetQuery(s) = e.query
    BY <1>2, QueryOfOne
  <2>2. e.query \in QuerySet
    <3>1. e \in Alls(QueriesUpTo[n])
      BY <1>0, <1>2, Kinds DEF Groups, GroupClasses
    <3>2. QED
      BY <1>0, <3>1 DEF Alls
  <2>3. (IF e.query.type = "True" THEN Picked(e.query, ms) ELSE Selected(e.query, Picked(e.query, ms)))
          = IF e.query.type = "True" THEN ms ELSE Selected(e.query, ms)
    <3>1. CASE e.query.type = "True"
      <4>1. Picked(e.query, ms) = ms
        BY <2>2, <3>1, MatchesIs DEF Picked
      <4>2. QED
        BY <3>1, <4>1
    <3>2. CASE e.query.type # "True"
      BY <3>2, SelectedOfPicked
    <3>3. QED
      BY <3>1, <3>2
  <2>4. Results(e, Picked(e.query, ms)) = Results(e, ms)
    <3> DEFINE some == Picked(e.query, ms)
               From(S) == IF e.query.type = "True" THEN S ELSE Selected(e.query, S)
               Of(S) == {[tags |-> TagsOfPair(m), value |-> m.value] : m \in S}
    <3>1. Results(e, some) = Of(From(some))
      BY <1>2, ResultsOfAll
    <3>2. Results(e, ms) = Of(From(ms))
      BY <1>2, ResultsOfAll
    <3>3. From(some) = From(ms)
      BY <2>3, Zenon
    <3> HIDE DEF some, From, Of
    <3>4. Results(e, some) = Results(e, ms)
      BY <3>1, <3>2, <3>3
    <3>5. QED
      BY <3>4 DEF some
  <2>5. Results(e, {}) = {}
    BY <1>2, ResultsOfAll, NothingSelected
  <2>6. QED
    BY <2>1, <2>4, <2>5
<1>3. CASE e.type = "MultipleResults" /\ e.class # "All"
  <2>1. GetQuery(s) = e.expr.query
    BY <1>3, QueryOfOne
  <2>2. e.expr.aggregate # "CONSTANT"
    BY <1>3 DEF IsConstant
  <2>3. ApplyToGroups(e, Picked(e.expr.query, ms)) = ApplyToGroups(e, ms) /\ ApplyToGroups(e, {}) = {}
    BY <2>2, GroupsOfPicked, GroupsOfNone
  <2>4. QED
    BY <1>3, <2>1, <2>3, ResultsOfGroups
<1>4. CASE e.type # "ValueExpression" /\ e.type # "MultipleResults"
  BY <1>4, ResultsOfOthers
<1>5. QED
  BY <1>1, <1>2, <1>3, <1>4

LEMMA EvalOfOne ==
  ASSUME NEW S, NEW s \in Seq(S), Len(s) = 1, NEW ms
  PROVE  Eval(s, ms) = IF ms = {} THEN <<>> ELSE <<Results(s[1], ms)>>
<1>1. DOMAIN s = 1..1 /\ s[1] \in S
  OBVIOUS
<1>2. Reverse(s)[1] = s[1]
  BY <1>1 DEF Reverse
<1>3. [i \in DOMAIN s |-> Results(Reverse(s)[i], ms)] = <<Results(s[1], ms)>>
  BY <1>1, <1>2
<1>4. QED
  BY <1>3 DEF Eval

\* The first rule gets the measurements its query picks.
LEMMA FirstRule ==
  ASSUME NEW a, NEW b, NEW ms
  PROVE  MeasurementsForRule(<<a, b>>, ms)[1] = Picked(GetQuery(a), ms)
<1>1. 1 \in DOMAIN <<a, b>> /\ <<a, b>>[1] = a /\ \A j : j \notin 1..(1 - 1)
  OBVIOUS
<1>2. MeasurementsForRule(<<a, b>>, ms)[1] =
        {m \in ms : /\ Matches(GetQuery(<<a, b>>[1]), TagsOfPair(m))
                    /\ \A j \in 1..(1 - 1) : ~Matches(GetQuery(<<a, b>>[j]), TagsOfPair(m))}
  BY <1>1 DEF MeasurementsForRule
<1>3. QED
  BY <1>1, <1>2 DEF Picked

\* A rule of one expression that is not constant, in the place of any program
\* over any vocabulary, loses nothing for getting only what its query picks.
THEOREM RulesLoseNothing == InterpreterSpec => []RulesGetAllTheyWant
<1>1. ASSUME InterpreterInv(MaxDepth)
      PROVE  RulesGetAllTheyWant
  <2> SUFFICES ASSUME Len(stack) = 1, ~IsConstant(stack[1])
               PROVE  LET catchAll == <<All(TrueQuery)>>
                          main     == MainMeasurements(<<stack, catchAll>>, Measurements)
                      IN  /\ main[1] \in {Eval(stack, Measurements), <<>>}
                          /\ main[1] = <<>> => \A rs \in Range(Eval(stack, Measurements)) : rs = {}
    BY DEF RulesGetAllTheyWant
  <2> DEFINE n == MaxDepth - left
             e == stack[1]
             mq == Picked(GetQuery(stack), Measurements)
             rules == <<stack, <<All(TrueQuery)>>>>
  <2>1. MaxDepth \in Nat /\ n \in 0..MaxDepth /\ stack \in Seq(Expressions(n))
    BY <1>1, InterpreterAssumption DEF InterpreterInv, InterpreterTypeOK
  <2>2. e \in Expressions(n)
    BY <2>1
  <2>3. MainMeasurements(rules, Measurements)[1] = Eval(stack, mq)
    <3>1. MeasurementsForRule(rules, Measurements)[1] = mq
      BY FirstRule
    <3>2. DOMAIN rules = 1..2 /\ rules[1] = stack
      OBVIOUS
    <3> HIDE DEF rules, mq
    <3>3. MainMeasurements(rules, Measurements)[1] = Eval(rules[1], MeasurementsForRule(rules, Measurements)[1])
      BY <3>2 DEF MainMeasurements
    <3>4. QED
      BY <3>1, <3>2, <3>3
  <2> HIDE DEF n
  <2>4. Results(e, mq) = Results(e, Measurements) /\ Results(e, {}) = {}
    BY <2>1, <2>2, PickedIsAll
  <2>5. /\ Eval(stack, mq) = IF mq = {} THEN <<>> ELSE <<Results(e, mq)>>
        /\ Eval(stack, Measurements) = IF Measurements = {} THEN <<>> ELSE <<Results(e, Measurements)>>
    BY <2>1, EvalOfOne
  <2>6. mq # {} => Measurements # {}
    BY DEF Picked
  <2> HIDE DEF mq, e
  <2>7. Eval(stack, mq) \in {Eval(stack, Measurements), <<>>}
    BY <2>4, <2>5, <2>6
  <2>8. ASSUME Eval(stack, mq) = <<>>, NEW rs \in Range(Eval(stack, Measurements))
        PROVE  rs = {}
    <3>1. mq = {}
      <4>1. <<Results(e, mq)>> # <<>>
        OBVIOUS
      <4>2. QED
        BY <2>5, <2>8, <4>1
    <3>2. Results(e, Measurements) = {}
      BY <2>4, <3>1
    <3>3. CASE Measurements = {}
      BY <2>5, <2>8, <3>3 DEF Range
    <3>4. CASE Measurements # {}
      BY <2>5, <2>8, <3>2, <3>4 DEF Range
    <3>5. QED
      BY <3>3, <3>4
  <2>9. QED
    BY <2>3, <2>7, <2>8 DEF rules
<1>2. QED
  BY <1>1, InterpreterInvariant, PTL

-----------------------------------------------------------------------------
(* The tags of a query *)

TagsStep(f, s) ==
  CASE s.type = "And"   -> AddAll(f[s.q1], f[s.q2])
    [] s.type = "RelOp" -> RelopTags(s)
    [] OTHER -> NoTags

IsTagging(f, D) == f = [s \in D |-> TagsStep(f, s)]

LEMMA TagsStepIs ==
  ASSUME NEW f, NEW s
  PROVE  /\ s.type = "And"   => TagsStep(f, s) = AddAll(f[s.q1], f[s.q2])
         /\ s.type = "RelOp" => TagsStep(f, s) = RelopTags(s)
         /\ s.type \notin {"And", "RelOp"} => TagsStep(f, s) = NoTags
<1>1. "And" # "RelOp"
  OBVIOUS
<1>2. ASSUME s.type = "And"
      PROVE  TagsStep(f, s) = AddAll(f[s.q1], f[s.q2])
  <2>1. s.type # "RelOp"
    BY <1>2
  <2>2. QED
    BY <1>2, <2>1, Zenon DEF TagsStep
<1>3. ASSUME s.type = "RelOp"
      PROVE  TagsStep(f, s) = RelopTags(s)
  <2>1. s.type # "And"
    BY <1>3
  <2>2. QED
    BY <1>3, <2>1, Zenon DEF TagsStep
<1>4. ASSUME s.type \notin {"And", "RelOp"}
      PROVE  TagsStep(f, s) = NoTags
  <2>1. s.type # "And" /\ s.type # "RelOp"
    BY <1>4
  <2>2. QED
    BY <2>1, Zenon DEF TagsStep
<1>5. QED
  BY <1>2, <1>3, <1>4

LEMMA TagsStepAgrees ==
  ASSUME NEW f, NEW g, NEW s, s.type = "And" => f[s.q1] = g[s.q1] /\ f[s.q2] = g[s.q2]
  PROVE  TagsStep(f, s) = TagsStep(g, s)
<1>1. CASE s.type = "And"
  BY <1>1, TagsStepIs
<1>2. CASE s.type # "And"
  <2>1. s.type = "RelOp" \/ s.type \notin {"And", "RelOp"}
    BY <1>2
  <2>2. QED
    BY <2>1, TagsStepIs
<1>3. QED
  BY <1>1, <1>2

LEMMA TaggingExists == \A n \in Nat : \E f : IsTagging(f, QueriesUpTo[n])
<1> DEFINE T == {n \in Nat : \E f : IsTagging(f, QueriesUpTo[n])}
<1>1. 0 \in T
  <2> DEFINE none == [s \in {} |-> NoTags]
             f == [s \in QueriesUpTo[0] |-> TagsStep(none, s)]
  <2>1. \A s \in QueriesUpTo[0] : s.type # "And"
    BY Level, SimpleType DEF SimpleTypes
  <2>2. \A s \in QueriesUpTo[0] : TagsStep(none, s) = TagsStep(f, s)
    <3> HIDE DEF none, f
    <3>1. QED
      BY <2>1, TagsStepAgrees
  <2>3. f = [s \in QueriesUpTo[0] |-> TagsStep(f, s)]
    BY <2>2
  <2>4. QED
    BY <2>3 DEF IsTagging
<1>2. ASSUME NEW n \in Nat, n \in T
      PROVE  n + 1 \in T
  <2>1. PICK g : IsTagging(g, QueriesUpTo[n])
    BY <1>2
  <2> DEFINE f == [s \in QueriesUpTo[n + 1] |-> TagsStep(g, s)]
  <2>2. \A s \in QueriesUpTo[n] : f[s] = g[s]
    BY <2>1, LevelsGrow DEF IsTagging
  <2>3. ASSUME NEW s \in QueriesUpTo[n + 1]
        PROVE  TagsStep(g, s) = TagsStep(f, s)
    <3> HIDE DEF f
    <3>1. s.type = "And" => f[s.q1] = g[s.q1] /\ f[s.q2] = g[s.q2]
      BY <2>2, Operands
    <3>2. QED
      BY <3>1, TagsStepAgrees
  <2>4. f = [s \in QueriesUpTo[n + 1] |-> TagsStep(f, s)]
    BY <2>3
  <2>5. IsTagging(f, QueriesUpTo[n + 1])
    BY <2>4 DEF IsTagging
  <2>6. QED
    BY <2>5
<1> HIDE DEF T
<1>3. \A n \in Nat : n \in T
  BY <1>1, <1>2, Induction
<1>4. QED
  BY <1>3 DEF T

LEMMA TagsOfIs ==
  ASSUME MaxDepth \in Nat, NEW q \in QuerySet
  PROVE  /\ q.type = "And"   => TagsOf(q) = AddAll(TagsOf(q.q1), TagsOf(q.q2))
         /\ q.type = "RelOp" => TagsOf(q) = RelopTags(q)
         /\ q.type \notin {"And", "RelOp"} => TagsOf(q) = NoTags
<1> DEFINE f == CHOOSE g : IsTagging(g, QuerySet)
<1>1. IsTagging(f, QuerySet)
  BY TaggingExists DEF QuerySet
<1>2. \A s : TagsOf(s) = f[s]
  BY DEF TagsOf, IsTagging, TagsStep
<1> HIDE DEF f
<1>3. TagsOf(q) = TagsStep(f, q)
  BY <1>1, <1>2 DEF IsTagging
<1>4. QED
  BY <1>2, <1>3, TagsStepIs

\* Whatever a has, b has too.
Within(a, b) == DOMAIN a \subseteq DOMAIN b /\ \A k \in DOMAIN a : a[k] = b[k]

LEMMA RelopTagsWithin ==
  ASSUME MaxDepth \in Nat, NEW q \in QuerySet, q.type = "RelOp", NEW t, Matches(q, t)
  PROVE  Within(RelopTags(q), t)
<1>1. CASE q.op = "EQ"
  <2>1. q.key \in DOMAIN t /\ MatchesTag(q, t[q.key])
    BY MatchesIs DEF KeyQueryTypes
  <2>2. MatchesTag(q, t[q.key]) = DoQuery(t[q.key], q.value, q.op)
    <3>1. q.type # "HasKey" /\ q.type # "Regex" /\ q.type # "In"
      OBVIOUS
    <3>2. QED
      BY <3>1, Zenon DEF MatchesTag
  <2>3. DoQuery(t[q.key], q.value, q.op) = (t[q.key] = q.value)
    <3>1. q.op # "LE" /\ q.op # "LT" /\ q.op # "GE" /\ q.op # "GT"
      BY <1>1
    <3>2. QED
      BY <1>1, <3>1, Zenon DEF DoQuery
  <2>4. RelopTags(q) = [k \in {q.key} |-> q.value]
    BY <1>1 DEF RelopTags
  <2>5. t[q.key] = q.value
    BY <2>1, <2>2, <2>3, Zenon
  <2>6. QED
    BY <2>1, <2>4, <2>5 DEF Within
<1>2. CASE q.op # "EQ"
  BY <1>2 DEF RelopTags, NoTags, Within
<1>3. QED
  BY <1>1, <1>2

\* What a query's tags say holds of whatever it matches.
LEMMA TagsOfMatched ==
  ASSUME MaxDepth \in Nat, NEW t
  PROVE  \A q \in QuerySet : Matches(q, t) => Within(TagsOf(q), t)
<1> DEFINE P(q) == Matches(q, t) => Within(TagsOf(q), t)
           T == {n \in Nat : \A q \in QueriesUpTo[n] : q \in QuerySet => P(q)}
<1>1. ASSUME NEW q \in QuerySet, q.type # "And"
      PROVE  P(q)
  <2>1. CASE q.type = "RelOp"
    BY <2>1, RelopTagsWithin, TagsOfIs
  <2>2. CASE q.type # "RelOp"
    <3>1. TagsOf(q) = NoTags
      BY <1>1, <2>2, TagsOfIs
    <3>2. QED
      BY <3>1 DEF NoTags, Within
  <2>3. QED
    BY <2>1, <2>2
<1>2. 0 \in T
  <2>1. \A q \in QueriesUpTo[0] : q.type # "And"
    BY Level, SimpleType DEF SimpleTypes
  <2>2. QED
    BY <1>1, <2>1
<1>3. ASSUME NEW n \in Nat, n \in T
      PROVE  n + 1 \in T
  <2> SUFFICES ASSUME NEW q \in QueriesUpTo[n + 1], q \in QuerySet, q.type = "And", Matches(q, t)
               PROVE  Within(TagsOf(q), t)
    BY <1>1
  <2>1. q.q1 \in QueriesUpTo[n] /\ q.q2 \in QueriesUpTo[n]
    BY Operands
  <2>2. q.q1 \in QuerySet /\ q.q2 \in QuerySet
    BY OperandsAreQueries
  <2>3. Matches(q.q1, t) /\ Matches(q.q2, t)
    BY MatchesIs
  <2>4. Within(TagsOf(q.q1), t) /\ Within(TagsOf(q.q2), t)
    BY <1>3, <2>1, <2>2, <2>3
  <2>5. TagsOf(q) = AddAll(TagsOf(q.q1), TagsOf(q.q2))
    BY TagsOfIs
  <2>6. QED
    BY <2>4, <2>5 DEF AddAll, Within
<1>4. \A n \in Nat : n \in T
  <2> HIDE DEF T
  <2>1. QED
    BY <1>2, <1>3, Induction
<1>5. QED
  BY <1>4 DEF QuerySet

-----------------------------------------------------------------------------
(* What an aggregate of some measurements is *)

Elem(s) == CHOOSE x \in s : TRUE

\* g sums the values of the sets D, as the fold does.
Sums(g, D) ==
  g = [s \in D |-> IF s = {} THEN 0 ELSE Elem(s).value + g[s \ {Elem(s)}]]

LEMMA TotalDef ==
  ASSUME NEW S
  PROVE  Total(S) = (CHOOSE g : Sums(g, SUBSET S))[S]
BY DEF Total, MapThenSumSet, MapThenFoldSet, Elem, Sums

LEMMA ElemIn ==
  ASSUME NEW s, s # {}
  PROVE  Elem(s) \in s
BY DEF Elem

LEMMA Smaller ==
  ASSUME NEW s, IsFiniteSet(s), NEW x \in s
  PROVE  /\ IsFiniteSet(s \ {x})
         /\ Cardinality(s) \in Nat /\ Cardinality(s \ {x}) \in Nat
         /\ Cardinality(s) = Cardinality(s \ {x}) + 1
<1>1. IsFiniteSet(s \ {x}) /\ Cardinality(s \ {x}) = Cardinality(s) - 1
  BY FS_RemoveElement
<1>2. Cardinality(s) \in Nat /\ Cardinality(s \ {x}) \in Nat
  BY <1>1, FS_CardinalityType
<1>3. QED
  BY <1>1, <1>2

LEMMA SumsExist ==
  ASSUME NEW S, IsFiniteSet(S)
  PROVE  \E g : Sums(g, SUBSET S)
<1> DEFINE Upto(n) == {s \in SUBSET S : Cardinality(s) <= n}
           T == {n \in Nat : \E g : Sums(g, Upto(n))}
<1>1. \A s \in SUBSET S : IsFiniteSet(s) /\ Cardinality(s) \in Nat /\ Cardinality(s) <= Cardinality(S)
  BY FS_Subset, FS_CardinalityType
<1>2. 0 \in T
  <2> DEFINE g == [s \in Upto(0) |-> 0]
  <2>1. \A s \in Upto(0) : s = {}
    BY <1>1, FS_EmptySet
  <2>2. Sums(g, Upto(0))
    BY <2>1 DEF Sums
  <2>3. QED
    BY <2>2
<1>3. ASSUME NEW n \in Nat, n \in T
      PROVE  n + 1 \in T
  <2>1. PICK g : Sums(g, Upto(n))
    BY <1>3
  <2> DEFINE h == [s \in Upto(n + 1) |-> IF s = {} THEN 0 ELSE Elem(s).value + g[s \ {Elem(s)}]]
  <2>2. \A s \in Upto(n) : s \in Upto(n + 1)
    BY <1>1
  <2>3. \A s \in Upto(n) : h[s] = g[s]
    BY <2>1, <2>2 DEF Sums
  <2>4. \A s \in Upto(n + 1) : s # {} => s \ {Elem(s)} \in Upto(n)
    BY <1>1, ElemIn, Smaller
  <2>5. \A s \in Upto(n + 1) : s # {} => h[s \ {Elem(s)}] = g[s \ {Elem(s)}]
    BY <2>3, <2>4
  <2>6. Sums(h, Upto(n + 1))
    BY <2>5 DEF Sums
  <2>7. \E f : Sums(f, Upto(n + 1))
    <3> HIDE DEF h, Upto
    <3>1. QED
      BY <2>6
  <2> HIDE DEF Upto
  <2>8. QED
    BY <2>7
<1>4. Cardinality(S) \in T
  <2> HIDE DEF T
  <2>1. QED
    BY <1>1, <1>2, <1>3, Induction
<1>5. Upto(Cardinality(S)) = SUBSET S
  BY <1>1
<1>6. QED
  BY <1>4, <1>5

LEMMA TotalType ==
  ASSUME NEW S, IsFiniteSet(S), \A m \in S : m.value \in Int
  PROVE  Total(S) \in Int
<1> DEFINE g == CHOOSE f : Sums(f, SUBSET S)
           T == {n \in Nat : \A s \in SUBSET S : Cardinality(s) = n => g[s] \in Int}
<1>1. Sums(g, SUBSET S) /\ Total(S) = g[S]
  BY SumsExist, TotalDef
<1>2. \A s \in SUBSET S : IsFiniteSet(s) /\ Cardinality(s) \in Nat
  BY FS_Subset, FS_CardinalityType
<1> HIDE DEF g
<1>3. 0 \in T
  <2>1. \A s \in SUBSET S : Cardinality(s) = 0 => s = {}
    BY <1>2, FS_EmptySet
  <2>2. QED
    BY <1>1, <2>1 DEF Sums
<1>4. ASSUME NEW n \in Nat, n \in T
      PROVE  n + 1 \in T
  <2> SUFFICES ASSUME NEW s \in SUBSET S, Cardinality(s) = n + 1
               PROVE  g[s] \in Int
    OBVIOUS
  <2>1. s # {} /\ Elem(s) \in s
    BY FS_EmptySet, ElemIn
  <2>2. Cardinality(s \ {Elem(s)}) = n /\ s \ {Elem(s)} \in SUBSET S
    <3>1. IsFiniteSet(s)
      BY <1>2
    <3>2. Cardinality(s \ {Elem(s)}) \in Nat /\ Cardinality(s) = Cardinality(s \ {Elem(s)}) + 1
      BY <2>1, <3>1, Smaller
    <3>3. QED
      BY <3>2
  <2>3. g[s \ {Elem(s)}] \in Int
    BY <1>4, <2>2
  <2>4. g[s] = Elem(s).value + g[s \ {Elem(s)}]
    BY <1>1, <2>1 DEF Sums
  <2>5. QED
    BY <2>1, <2>3, <2>4
<1>5. Cardinality(S) \in T
  <2> HIDE DEF T
  <2>1. QED
    BY <1>2, <1>3, <1>4, Induction
<1>6. QED
  BY <1>1, <1>5

\* Finite sets of integers have a least and a greatest.
LEMMA Extremes ==
  ASSUME NEW S, IsFiniteSet(S), NEW f, \A x \in S : f[x] \in Int, S # {}
  PROVE  /\ \E x \in S : \A y \in S : f[x] <= f[y]
         /\ \E x \in S : \A y \in S : f[x] >= f[y]
<1> DEFINE Bounded(s) == /\ \E x \in s : \A y \in s : f[x] <= f[y]
                         /\ \E x \in s : \A y \in s : f[x] >= f[y]
           T == {n \in Nat : \A s \in SUBSET S : Cardinality(s) = n /\ s # {} => Bounded(s)}
<1>1. \A s \in SUBSET S : IsFiniteSet(s) /\ Cardinality(s) \in Nat
  BY FS_Subset, FS_CardinalityType
<1>2. 0 \in T
  BY <1>1, FS_EmptySet
<1>3. ASSUME NEW n \in Nat, n \in T
      PROVE  n + 1 \in T
  <2> SUFFICES ASSUME NEW s \in SUBSET S, Cardinality(s) = n + 1, s # {}
               PROVE  Bounded(s)
    OBVIOUS
  <2>1. PICK e : e \in s
    OBVIOUS
  <2> DEFINE r == s \ {e}
  <2>2. Cardinality(r) = n /\ r \in SUBSET S /\ e \in S
    BY <1>1, <2>1, Smaller
  <2>3. CASE r = {}
    <3>1. \A y \in s : y = e
      BY <2>3
    <3>2. QED
      BY <2>1, <2>2, <3>1
  <2>4. CASE r # {}
    <3>1. Bounded(r)
      BY <1>3, <2>2, <2>4
    <3>2. PICK a \in r : \A y \in r : f[a] <= f[y]
      BY <3>1
    <3>3. PICK b \in r : \A y \in r : f[b] >= f[y]
      BY <3>1
    <3>4. \A y \in s : y \in r \/ y = e
      OBVIOUS
    <3>5. \A y \in s : f[y] \in Int
      OBVIOUS
    <3>6. a \in s /\ b \in s
      OBVIOUS
    <3> HIDE DEF r
    <3>7. \E x \in s : \A y \in s : f[x] <= f[y]
      <4>1. CASE f[a] <= f[e]
        BY <3>2, <3>4, <3>6, <4>1
      <4>2. CASE ~(f[a] <= f[e])
        <5>1. \A y \in s : f[e] <= f[y]
          BY <2>1, <3>2, <3>4, <3>5, <3>6, <4>2
        <5>2. QED
          BY <2>1, <5>1
      <4>3. QED
        BY <4>1, <4>2
    <3>8. \E x \in s : \A y \in s : f[x] >= f[y]
      <4>1. CASE f[b] >= f[e]
        BY <3>3, <3>4, <3>6, <4>1
      <4>2. CASE ~(f[b] >= f[e])
        <5>1. \A y \in s : f[e] >= f[y]
          BY <2>1, <3>3, <3>4, <3>5, <3>6, <4>2
        <5>2. QED
          BY <2>1, <5>1
      <4>3. QED
        BY <4>1, <4>2
    <3>9. QED
      BY <3>7, <3>8
  <2>5. QED
    BY <2>3, <2>4
<1>4. Cardinality(S) \in T
  <2> HIDE DEF T
  <2>1. QED
    BY <1>1, <1>2, <1>3, Induction
<1>5. QED
  BY <1>4

LEMMA ExtremesAreThere ==
  ASSUME NEW S, IsFiniteSet(S), \A m \in S : m.value \in Int, S # {}
  PROVE  Min({m.value : m \in S}) \in Int /\ Max({m.value : m \in S}) \in Int
<1> DEFINE f == [m \in S |-> m.value]
           V == {m.value : m \in S}
<1>1. \A x \in S : f[x] \in Int /\ f[x] \in V
  OBVIOUS
<1>2. \A v \in V : v \in Int /\ \E x \in S : v = f[x]
  OBVIOUS
<1> HIDE DEF f, V
<1>3. PICK a \in S : \A y \in S : f[a] <= f[y]
  BY <1>1, Extremes
<1>4. PICK b \in S : \A y \in S : f[b] >= f[y]
  BY <1>1, Extremes
<1>5. \A v \in V : f[a] <= v /\ f[b] >= v
  BY <1>2, <1>3, <1>4
<1>6. Min(V) \in V /\ Max(V) \in V
  BY <1>1, <1>5 DEF Min, Max
<1>7. QED
  BY <1>2, <1>6 DEF V

\* Whatever is aggregated, of some measurements there is a value.
LEMMA AggregateIsThere ==
  ASSUME NaN \notin Int \cup (Int \X Nat), NEW S, IsFiniteSet(S), \A m \in S : m.value \in Int, S # {},
         NEW fn \in Aggregates
  PROVE  Aggregate(fn, S) # NaN
<1>1. Aggregate(fn, S) =
        CASE fn = "SUM"   -> Total(S)
          [] fn = "AVG"   -> <<Total(S), Cardinality(S)>>
          [] fn = "COUNT" -> Cardinality(S)
          [] fn = "MIN"   -> Min({m.value : m \in S})
          [] fn = "MAX"   -> Max({m.value : m \in S})
  BY Zenon DEF Aggregate
<1>2. Total(S) \in Int /\ Cardinality(S) \in Nat
  BY TotalType, FS_CardinalityType
<1>3. CASE fn = "SUM"
  <2>1. fn # "AVG" /\ fn # "COUNT" /\ fn # "MIN" /\ fn # "MAX"
    BY <1>3
  <2>2. Aggregate(fn, S) = Total(S)
    BY <1>1, <1>3, <2>1, Zenon
  <2>3. QED
    BY <1>2, <2>2
<1>4. CASE fn = "AVG"
  <2>1. fn # "SUM" /\ fn # "COUNT" /\ fn # "MIN" /\ fn # "MAX"
    BY <1>4
  <2>2. Aggregate(fn, S) = <<Total(S), Cardinality(S)>>
    BY <1>1, <1>4, <2>1, Zenon
  <2>3. QED
    BY <1>2, <2>2
<1>5. CASE fn = "COUNT"
  <2>1. fn # "AVG" /\ fn # "SUM" /\ fn # "MIN" /\ fn # "MAX"
    BY <1>5
  <2>2. Aggregate(fn, S) = Cardinality(S)
    BY <1>1, <1>5, <2>1, Zenon
  <2>3. QED
    BY <1>2, <2>2
<1>6. CASE fn = "MIN"
  <2>1. fn # "AVG" /\ fn # "SUM" /\ fn # "COUNT" /\ fn # "MAX"
    BY <1>6
  <2>2. Aggregate(fn, S) = Min({m.value : m \in S})
    BY <1>1, <1>6, <2>1, Zenon
  <2>3. QED
    BY <2>2, ExtremesAreThere
<1>7. CASE fn = "MAX"
  <2>1. fn # "AVG" /\ fn # "SUM" /\ fn # "COUNT" /\ fn # "MIN"
    BY <1>7
  <2>2. Aggregate(fn, S) = Max({m.value : m \in S})
    BY <1>1, <1>7, <2>1, Zenon
  <2>3. QED
    BY <2>2, ExtremesAreThere
<1>8. QED
  BY <1>3, <1>4, <1>5, <1>6, <1>7 DEF Aggregates

-----------------------------------------------------------------------------
(* Groups *)

\* As the property has them: the key of a measurement's group, and those
\* that are chosen of ms for their tags in T.
KeyOf(e, m) ==
  Restrict(TagsOfPair(m), {k \in DOMAIN TagsOfPair(m) :
             IF e.class = "DropTags" THEN k = Name \/ k \notin e.keys ELSE k \in e.keys})

Chosen(e, ms, T) ==
  {m \in ms : /\ m.value # NaN
              /\ TagsOfPair(m) \in T
              /\ e.class # "DropTags" => e.keys \subseteq DOMAIN TagsOfPair(m)}

IsKept(e, m) == GroupKeys(e, m) \subseteq DOMAIN TagsOfPair(m)

LEMMA AddAllTags ==
  ASSUME NEW a \in AllTags, NEW b \in AllTags
  PROVE  AddAll(a, b) \in AllTags /\ DOMAIN AddAll(a, b) = DOMAIN a \cup DOMAIN b
<1>1. PICK A \in SUBSET Strings : a \in [A -> Strings]
  BY DEF AllTags
<1>2. PICK B \in SUBSET Strings : b \in [B -> Strings]
  BY DEF AllTags
<1>3. AddAll(a, b) \in [A \cup B -> Strings]
  BY <1>1, <1>2 DEF AddAll
<1>4. A \cup B \in SUBSET Strings
  BY <1>1, <1>2
<1>5. QED
  BY <1>3, <1>4 DEF AllTags, AddAll

\* A measurement's tags, its name among them.
LEMMA PairTags ==
  ASSUME Name \in Strings, CommonTags \in AllTags, NEW m, m.name \in Strings, m.tags \in AllTags
  PROVE  TagsOfPair(m) \in AllTags /\ Name \in DOMAIN TagsOfPair(m)
<1> DEFINE name == [k \in {Name} |-> m.name]
<1>1. name \in [{Name} -> Strings] /\ {Name} \in SUBSET Strings
  OBVIOUS
<1>2. name \in AllTags /\ DOMAIN name = {Name}
  BY <1>1 DEF AllTags
<1> HIDE DEF name
<1>3. AddAll(CommonTags, m.tags) \in AllTags
  BY AddAllTags
<1>4. TagsOfPair(m) = AddAll(AddAll(CommonTags, m.tags), name)
  BY DEF TagsOfPair, name
<1>5. QED
  BY <1>2, <1>3, <1>4, AddAllTags

LEMMA KeysOfKept ==
  ASSUME NEW e, NEW m, Name \in DOMAIN TagsOfPair(m)
  PROVE  /\ IsKept(e, m) <=> (e.class # "DropTags" => e.keys \subseteq DOMAIN TagsOfPair(m))
         /\ IsKept(e, m) => KeyOf(e, m) = Restrict(TagsOfPair(m), GroupKeys(e, m))
<1> DEFINE t == TagsOfPair(m)
           keys == {k \in DOMAIN t : IF e.class = "DropTags" THEN k = Name \/ k \notin e.keys ELSE k \in e.keys}
<1>1. CASE e.class = "DropTags"
  <2>1. GroupKeys(e, m) = (DOMAIN t \ e.keys) \cup {Name}
    BY <1>1 DEF GroupKeys
  <2>2. IsKept(e, m) /\ keys = GroupKeys(e, m)
    BY <1>1, <2>1 DEF IsKept
  <2>3. QED
    BY <1>1, <2>2 DEF KeyOf
<1>2. CASE e.class # "DropTags"
  <2>1. GroupKeys(e, m) = e.keys
    BY <1>2 DEF GroupKeys
  <2>2. IsKept(e, m) <=> e.keys \subseteq DOMAIN t
    BY <2>1 DEF IsKept
  <2>3. IsKept(e, m) => keys = GroupKeys(e, m)
    BY <1>2, <2>1 DEF IsKept
  <2>4. QED
    BY <1>2, <2>2, <2>3 DEF KeyOf
<1>3. QED
  BY <1>1, <1>2

LEMMA SelectedInGroup ==
  ASSUME NEW e, NEW ms, NEW T, NEW g,
         \A m \in ms : Name \in DOMAIN TagsOfPair(m)
                       /\ (TagsOfPair(m) \in T <=> Matches(e.expr.query, TagsOfPair(m)))
  PROVE  Selected(e.expr.query, InGroup(e, g, ms)) = {m \in Chosen(e, ms, T) : KeyOf(e, m) = g}
<1> DEFINE q == e.expr.query
<1>1. ASSUME NEW m \in ms
      PROVE  m \in InGroup(e, g, ms) <=> IsKept(e, m) /\ KeyOf(e, m) = g
  BY KeysOfKept DEF InGroup, IsKept
<1>2. ASSUME NEW m \in ms
      PROVE  m \in Chosen(e, ms, T) <=> m.value # NaN /\ Matches(q, TagsOfPair(m)) /\ IsKept(e, m)
  BY KeysOfKept DEF Chosen
<1>3. \A m : m \in Selected(q, InGroup(e, g, ms)) <=>
               m \in InGroup(e, g, ms) /\ m.value # NaN /\ Matches(q, TagsOfPair(m))
  BY DEF Selected
<1>4. \A m : (m \in InGroup(e, g, ms) => m \in ms) /\ (m \in Chosen(e, ms, T) => m \in ms)
  BY DEF InGroup, Chosen
<1> HIDE DEF q
<1>5. \A m : m \in Selected(q, InGroup(e, g, ms)) <=> m \in Chosen(e, ms, T) /\ KeyOf(e, m) = g
  BY <1>1, <1>2, <1>3, <1>4, Zenon
<1>6. QED
  BY <1>5 DEF q

\* What a group by e has when something of it was chosen, T being what its
\* query matches.
LEMMA GroupIs ==
  ASSUME NEW e, NEW ms, NEW T, e.expr.aggregate \in Aggregates, NaN \notin Int \cup (Int \X Nat),
         IsFiniteSet(ms),
         \A m \in ms : /\ Name \in DOMAIN TagsOfPair(m) /\ m.value \in Int \cup {NaN}
                       /\ TagsOfPair(m) \in T <=> Matches(e.expr.query, TagsOfPair(m)),
         NEW g
  PROVE  /\ Apply(e.expr, InGroup(e, g, ms)).tags = TagsOf(e.expr.query)
         /\ Apply(e.expr, InGroup(e, g, ms)).value =
              Aggregate(e.expr.aggregate, {m \in Chosen(e, ms, T) : KeyOf(e, m) = g})
         /\ g \in ResultGroups(e, ms) <=> g \in {KeyOf(e, m) : m \in Chosen(e, ms, T)}
<1> DEFINE C == {m \in Chosen(e, ms, T) : KeyOf(e, m) = g}
           a == Apply(e.expr, InGroup(e, g, ms))
           fn == e.expr.aggregate
<1>1. fn # "CONSTANT"
  BY DEF Aggregates
<1>2. Selected(e.expr.query, InGroup(e, g, ms)) = C
  BY SelectedInGroup
<1> HIDE DEF C
<1>3. a = [tags |-> TagsOf(e.expr.query), value |-> Aggregate(fn, C)]
  BY <1>1, <1>2 DEF Apply
<1>4. C = {} => a.value = NaN
  BY <1>3 DEF Aggregate
<1>5. C # {} => a.value # NaN
  <2>1. C \subseteq ms /\ \A m \in C : m.value # NaN
    BY DEF C, Chosen
  <2>2. IsFiniteSet(C) /\ \A m \in C : m.value \in Int
    BY <2>1, FS_Subset
  <2>3. C # {} => Aggregate(fn, C) # NaN
    BY <2>2, AggregateIsThere
  <2>4. QED
    BY <1>3, <2>3
<1> HIDE DEF a
<1>6. ASSUME g \in ResultGroups(e, ms)
      PROVE  g \in {KeyOf(e, m) : m \in Chosen(e, ms, T)}
  <2>1. a.value # NaN
    BY <1>6 DEF ResultGroups, a
  <2>2. PICK m : m \in C
    BY <1>4, <2>1
  <2>3. QED
    BY <2>2 DEF C
<1>7. ASSUME g \in {KeyOf(e, m) : m \in Chosen(e, ms, T)}
      PROVE  g \in ResultGroups(e, ms)
  <2>1. PICK m \in Chosen(e, ms, T) : g = KeyOf(e, m)
    BY <1>7
  <2>2. a.value # NaN
    BY <1>5, <2>1 DEF C
  <2>3. m \in ms /\ (e.class # "DropTags" => e.keys \subseteq DOMAIN TagsOfPair(m))
    BY DEF Chosen
  <2>4. IsKept(e, m) /\ g = Restrict(TagsOfPair(m), GroupKeys(e, m))
    BY <2>1, <2>3, KeysOfKept
  <2>5. QED
    BY <2>2, <2>3, <2>4 DEF ResultGroups, IsKept, a
<1>8. QED
  BY <1>3, <1>6, <1>7 DEF a, C

\* The tags of a group's result are its key's, and tell it from other groups.
LEMMA NewTagsAre ==
  ASSUME MaxDepth \in Nat, NEW e, e.expr.query \in QuerySet, NEW ms, NEW T,
         \A m \in ms : /\ Name \in DOMAIN TagsOfPair(m)
                       /\ TagsOfPair(m) \in T <=> Matches(e.expr.query, TagsOfPair(m)),
         NEW k \in {KeyOf(e, m) : m \in Chosen(e, ms, T)}
  PROVE  LET new == NewTagsOf(e, k, TagsOf(e.expr.query))
         IN  /\ k = Restrict(new, DOMAIN k \cap DOMAIN new)
             /\ k = IF e.class = "GroupBy" THEN Restrict(new, e.keys) ELSE new
<1> DEFINE q == e.expr.query
           new == NewTagsOf(e, k, TagsOf(q))
<1>1. PICK m \in Chosen(e, ms, T) : k = KeyOf(e, m)
  OBVIOUS
<1> DEFINE t == TagsOfPair(m)
<1>2. /\ m \in ms /\ t \in T /\ Name \in DOMAIN t
      /\ e.class # "DropTags" => e.keys \subseteq DOMAIN t
  BY DEF Chosen
<1>3. IsKept(e, m) /\ k = Restrict(t, GroupKeys(e, m))
  BY <1>1, <1>2, KeysOfKept
<1> HIDE DEF t
<1>4. k = [x \in GroupKeys(e, m) |-> t[x]]
  BY <1>3 DEF Restrict
<1>5. CASE e.class = "GroupBy"
  <2>1. GroupKeys(e, m) = e.keys
    BY <1>5 DEF GroupKeys
  <2>2. Within(TagsOf(q), t)
    BY <1>2, TagsOfMatched DEF t
  <2>3. DOMAIN k = e.keys /\ \A x \in DOMAIN k : k[x] = t[x]
    BY <1>4, <2>1
  <2>4. new = AddAll(k, TagsOf(q))
    BY <1>5 DEF NewTagsOf
  <2> HIDE DEF new
  <2>5. DOMAIN k \subseteq DOMAIN new /\ \A x \in DOMAIN k : new[x] = k[x]
    BY <2>2, <2>3, <2>4 DEF AddAll, Within
  <2>6. DOMAIN k \cap DOMAIN new = e.keys
    BY <2>3, <2>5
  <2>7. k = [x \in e.keys |-> new[x]]
    BY <1>4, <2>1, <2>3, <2>5
  <2>8. QED
    BY <1>5, <2>6, <2>7 DEF Restrict, new, q
<1>6. CASE e.class # "GroupBy"
  <2>1. new = k
    BY <1>6 DEF NewTagsOf
  <2>2. k = [x \in DOMAIN k |-> k[x]]
    BY <1>4
  <2>3. Restrict(k, DOMAIN k \cap DOMAIN k) = k
    BY <2>2 DEF Restrict
  <2>4. QED
    BY <1>6, <2>1, <2>3 DEF q
<1>7. QED
  BY <1>5, <1>6

\* What a multiple result that aggregates has.
LEMMA GroupsHave ==
  ASSUME MaxDepth \in Nat, NEW n \in 0..MaxDepth, NEW e \in Expressions(n),
         e.type = "MultipleResults", e.class # "All", ~IsConstant(e)
  PROVE  /\ e.expr.aggregate \in Aggregates /\ e.expr.query \in QuerySet
         /\ Selecting(e) = e.expr.query
<1>1. n \in Nat /\ QueriesUpTo[n] \subseteq QuerySet
  BY LevelsMonotone DEF QuerySet
<1>2. e \in Groups(Inner(n))
  BY <1>1, Kinds DEF Alls
<1>3. e.expr \in Inner(n) /\ e.expr.aggregate # "CONSTANT"
  BY <1>2 DEF Groups, IsConstant
<1>4. e.expr \in Aggregated(QueriesUpTo[n])
  BY <1>3 DEF Inner, ConstantExpressions, ConstantExpression
<1>5. e.expr.aggregate \in Aggregates /\ e.expr.query \in QuerySet
  BY <1>1, <1>4 DEF Aggregated
<1>6. ~IsQuery(e) /\ e.type # "ValueExpression"
  BY DEF IsQuery, QueryTypes
<1>7. Selecting(e) = e.expr.query
  BY <1>6, Zenon DEF Selecting
<1>8. QED
  BY <1>5, <1>7

\* One expression, T being what its query matches.
LEMMA GroupsOfSelected ==
  ASSUME MaxDepth \in Nat, NaN \notin Int \cup (Int \X Nat), NEW ms, IsFiniteSet(ms), NEW T,
         NEW e, e.type = "MultipleResults", e.class # "All",
         e.expr.aggregate \in Aggregates, e.expr.query \in QuerySet,
         \A m \in ms : /\ Name \in DOMAIN TagsOfPair(m) /\ m.value \in Int \cup {NaN}
                       /\ TagsOfPair(m) \in T <=> Matches(e.expr.query, TagsOfPair(m))
  PROVE  LET results == Results(e, ms)
             keys    == {KeyOf(e, m) : m \in Chosen(e, ms, T)}
             Of(k)   == {m \in Chosen(e, ms, T) : KeyOf(e, m) = k}
         IN  /\ {r.value : r \in results} = {Aggregate(e.expr.aggregate, Of(k)) : k \in keys}
             /\ \A k \in keys : \E r \in results :
                  /\ k = Restrict(r.tags, DOMAIN k \cap DOMAIN r.tags)
                  /\ r.value = Aggregate(e.expr.aggregate, Of(k))
             /\ \A r1, r2 \in results : r1.tags = r2.tags => r1 = r2
<1> DEFINE results == Results(e, ms)
           keys    == {KeyOf(e, m) : m \in Chosen(e, ms, T)}
           V(k)    == Aggregate(e.expr.aggregate, {m \in Chosen(e, ms, T) : KeyOf(e, m) = k})
           N(k)    == NewTagsOf(e, k, TagsOf(e.expr.query))
<1>1. results = {[tags |-> N(k), value |-> V(k)] : k \in keys}
  <2>1. \A g : /\ Apply(e.expr, InGroup(e, g, ms)).tags = TagsOf(e.expr.query)
               /\ Apply(e.expr, InGroup(e, g, ms)).value = V(g)
               /\ g \in ResultGroups(e, ms) <=> g \in keys
    BY GroupIs
  <2>2. results = {[tags  |-> NewTagsOf(e, g, Apply(e.expr, InGroup(e, g, ms)).tags),
                    value |-> Apply(e.expr, InGroup(e, g, ms)).value] : g \in ResultGroups(e, ms)}
    BY ResultsOfGroups, ApplyToGroupsIs
  <2> HIDE DEF results, keys, V
  <2>3. ResultGroups(e, ms) = keys
    BY <2>1
  <2>4. QED
    BY <2>1, <2>2, <2>3, Zenon
<1>2. ASSUME NEW k \in keys
      PROVE  /\ k = Restrict(N(k), DOMAIN k \cap DOMAIN N(k))
             /\ k = IF e.class = "GroupBy" THEN Restrict(N(k), e.keys) ELSE N(k)
  BY NewTagsAre
<1> HIDE DEF results, keys, V, N
<1>3. {r.value : r \in results} = {V(k) : k \in keys}
  <2>1. \A k \in keys : [tags |-> N(k), value |-> V(k)] \in results /\ [tags |-> N(k), value |-> V(k)].value = V(k)
    BY <1>1
  <2>2. \A r \in results : \E k \in keys : r.value = V(k)
    BY <1>1
  <2>3. \A x : x \in {r.value : r \in results} => x \in {V(k) : k \in keys}
    BY <2>2, Zenon
  <2>4. \A x : x \in {V(k) : k \in keys} => x \in {r.value : r \in results}
    <3> SUFFICES ASSUME NEW k \in keys
                 PROVE  V(k) \in {r.value : r \in results}
      BY Zenon
    <3>1. QED
      BY <2>1
  <2>5. QED
    BY <2>3, <2>4, Zenon
<1>4. ASSUME NEW k \in keys
      PROVE  \E r \in results : k = Restrict(r.tags, DOMAIN k \cap DOMAIN r.tags) /\ r.value = V(k)
  <2> DEFINE r == [tags |-> N(k), value |-> V(k)]
  <2>1. r \in results /\ r.tags = N(k) /\ r.value = V(k)
    BY <1>1
  <2> HIDE DEF r
  <2>2. QED
    BY <1>2, <2>1
<1>5. ASSUME NEW r1 \in results, NEW r2 \in results, r1.tags = r2.tags
      PROVE  r1 = r2
  <2>1. PICK a \in keys : r1 = [tags |-> N(a), value |-> V(a)]
    BY <1>1
  <2>2. PICK b \in keys : r2 = [tags |-> N(b), value |-> V(b)]
    BY <1>1
  <2>3. N(a) = N(b)
    BY <1>5, <2>1, <2>2
  <2>4. /\ a = IF e.class = "GroupBy" THEN Restrict(N(a), e.keys) ELSE N(a)
        /\ b = IF e.class = "GroupBy" THEN Restrict(N(b), e.keys) ELSE N(b)
    BY <1>2, Zenon
  <2>5. a = b
    BY <2>3, <2>4, Zenon
  <2>6. QED
    BY <2>1, <2>2, <2>5, Zenon
<1>6. QED
  BY <1>3, <1>4, <1>5 DEF results, keys, V

\* Any :by, :keep-tags or :drop-tags a program makes gives what selecting
\* first and grouping after would, each group once: a group without a result
\* is one nothing was selected of, and the tags of an :eq are the group's own.
THEOREM GroupsSelectFirst == InterpreterSpec => []GroupsAreOfTheSelected
<1>1. ASSUME InterpreterInv(MaxDepth)
      PROVE  GroupsAreOfTheSelected
  <2> SUFFICES ASSUME NEW i \in DOMAIN stack, stack[i].type = "MultipleResults",
                      stack[i].class # "All", ~IsConstant(stack[i])
               PROVE  LET e        == stack[i]
                          results  == Results(e, Measurements)
                          chosen   == Chosen(e, Measurements, meant[i])
                      IN  /\ {r.value : r \in results} =
                               {Aggregate(e.expr.aggregate, {m \in chosen : KeyOf(e, m) = k}) :
                                  k \in {KeyOf(e, m) : m \in chosen}}
                          /\ \A k \in {KeyOf(e, m) : m \in chosen} : \E r \in results :
                               /\ k = Restrict(r.tags, DOMAIN k \cap DOMAIN r.tags)
                               /\ r.value = Aggregate(e.expr.aggregate, {m \in chosen : KeyOf(e, m) = k})
                          /\ \A r1, r2 \in results : r1.tags = r2.tags => r1 = r2
    BY Zenon DEF GroupsAreOfTheSelected, Chosen, KeyOf
  <2> DEFINE e == stack[i]
             n == MaxDepth - left
  <2>1. MaxDepth \in Nat /\ n \in 0..MaxDepth /\ e \in Expressions(n) /\ Means(e, meant[i])
    BY <1>1, InterpreterAssumption DEF InterpreterInv, InterpreterTypeOK
  <2> HIDE DEF n
  <2>2. e.expr.aggregate \in Aggregates /\ e.expr.query \in QuerySet /\ Selecting(e) = e.expr.query
    BY <2>1, GroupsHave
  <2>3. meant[i] = Matched(e.expr.query)
    BY <2>1, <2>2 DEF Means
  <2>4. ASSUME NEW m \in Measurements
        PROVE  /\ Name \in DOMAIN TagsOfPair(m) /\ m.value \in Int \cup {NaN}
               /\ TagsOfPair(m) \in meant[i] <=> Matches(e.expr.query, TagsOfPair(m))
    <3>1. m.name \in Strings /\ m.tags \in AllTags /\ m.value \in Int \cup {NaN}
      BY MeasurementsAssumption
    <3>2. TagsOfPair(m) \in AllTags /\ Name \in DOMAIN TagsOfPair(m)
      BY <3>1, InterpreterAssumption, PairTags
    <3>3. QED
      BY <2>3, <3>1, <3>2 DEF Matched
  <2>5. IsFiniteSet(Measurements) /\ NaN \notin Int \cup (Int \X Nat)
    BY MeasurementsAssumption
  <2>6. QED
    BY <2>1, <2>2, <2>4, <2>5, GroupsOfSelected
<1>2. QED
  BY <1>1, InterpreterInvariant, PTL

-----------------------------------------------------------------------------
(* The normal form of a query *)

LEMMA AndQShape ==
  ASSUME NEW n \in Nat, MaxDepth \in Nat, n + 1 <= MaxDepth,
         NEW a \in QueriesUpTo[n], NEW b \in QueriesUpTo[n]
  PROVE  AndQ(a, b) \in QueriesUpTo[n] \/ AndQ(a, b).type = "And"
<1>1. a \in QuerySet /\ b \in QuerySet
  BY LevelsMonotone DEF QuerySet
<1>2. CASE a.type = "False" \/ b.type = "True"
  BY <1>2 DEF AndQ
<1>3. CASE ~(a.type = "False" \/ b.type = "True") /\ (b.type = "False" \/ a.type = "True")
  <2>1. ~Equals(a, b)
    BY <1>1, <1>3, EqualsIs
  <2>2. AndQ(a, b) = b
    BY <1>3, <2>1 DEF AndQ
  <2>3. QED
    BY <2>2
<1>4. CASE ~(a.type \in {"True", "False"} \/ b.type \in {"True", "False"}) /\ Equals(a, b)
  BY <1>4 DEF AndQ
<1>5. CASE ~(a.type \in {"True", "False"} \/ b.type \in {"True", "False"}) /\ ~Equals(a, b)
  <2>1. AndQ(a, b) = Pair("And", a, b)
    BY <1>5 DEF AndQ
  <2>2. QED
    BY <2>1 DEF Pair
<1>6. QED
  BY <1>2, <1>3, <1>4, <1>5

\* What is beneath a negation of a composed query is two levels down.
LEMMA Negated ==
  ASSUME NEW n \in Nat, NEW s \in QueriesUpTo[n + 1], s.type = "Not", s.q1.type \in {"And", "Or", "Not"}
  PROVE  \E m \in Nat : /\ n = m + 1 /\ s.q1 \in QueriesUpTo[m + 1] /\ s.q1.q1 \in QueriesUpTo[m]
                        /\ s.q1.type \in {"And", "Or"} => s.q1.q2 \in QueriesUpTo[m]
<1>1. s.q1 \in QueriesUpTo[n]
  BY Operands
<1>2. n # 0
  <2>1. \A q \in QueriesUpTo[0] : q.type \notin {"And", "Or", "Not"}
    BY Level, SimpleType DEF SimpleTypes
  <2>2. QED
    BY <1>1, <2>1
<1>3. n - 1 \in Nat /\ n = (n - 1) + 1
  BY <1>2
<1>4. s.q1 \in QueriesUpTo[(n - 1) + 1]
  BY <1>1, <1>3
<1>5. s.q1.q1 \in QueriesUpTo[n - 1] /\ (s.q1.type \in {"And", "Or"} => s.q1.q2 \in QueriesUpTo[n - 1])
  BY <1>3, <1>4, Operands
<1>6. QED
  BY <1>3, <1>4, <1>5

IsNotOr(s) == s.type = "Not" /\ s.q1.type = "Or"
Inverted(s) == AndQ(NotQ(s.q1.q1), NotQ(s.q1.q2))

DnfStep(f, s) ==
  CASE s.type = "And" -> CrossProduct(f[s.q1], f[s.q2])
    [] s.type = "Or"  -> f[s.q1] \o f[s.q2]
    [] s.type = "Not" /\ s.q1.type = "And" ->
         f[NotQ(s.q1.q1)] \o f[NotQ(s.q1.q2)]
    [] s.type = "Not" /\ s.q1.type = "Or" ->
         f[AndQ(NotQ(s.q1.q1), NotQ(s.q1.q2))]
    [] s.type = "Not" /\ s.q1.type = "Not" -> <<s.q1.q1>>
    [] OTHER -> <<s>>

IsDnf(f, D) == f = [s \in D |-> DnfStep(f, s)]

LEMMA DnfStepIs ==
  ASSUME NEW f, NEW s
  PROVE  /\ s.type = "And" => DnfStep(f, s) = CrossProduct(f[s.q1], f[s.q2])
         /\ s.type = "Or"  => DnfStep(f, s) = f[s.q1] \o f[s.q2]
         /\ s.type = "Not" /\ s.q1.type = "And" =>
              DnfStep(f, s) = f[NotQ(s.q1.q1)] \o f[NotQ(s.q1.q2)]
         /\ IsNotOr(s) => DnfStep(f, s) = f[Inverted(s)]
         /\ s.type = "Not" /\ s.q1.type = "Not" => DnfStep(f, s) = <<s.q1.q1>>
         /\ s.type \notin {"And", "Or"} /\ (s.type = "Not" => s.q1.type \notin {"And", "Or", "Not"}) =>
              DnfStep(f, s) = <<s>>
<1>1. /\ "And" # "Or" /\ "And" # "Not" /\ "Or" # "Not"
      /\ "Or" # "And" /\ "Not" # "And" /\ "Not" # "Or"
  OBVIOUS
<1>2. ASSUME s.type = "And"
      PROVE  DnfStep(f, s) = CrossProduct(f[s.q1], f[s.q2])
  <2>1. s.type # "Or" /\ s.type # "Not"
    BY <1>2
  <2>2. QED
    BY <1>2, <2>1, Zenon DEF DnfStep
<1>3. ASSUME s.type = "Or"
      PROVE  DnfStep(f, s) = f[s.q1] \o f[s.q2]
  <2>1. s.type # "And" /\ s.type # "Not"
    BY <1>3
  <2>2. QED
    BY <1>3, <2>1, Zenon DEF DnfStep
<1>4. ASSUME s.type = "Not", s.q1.type = "And"
      PROVE  DnfStep(f, s) = f[NotQ(s.q1.q1)] \o f[NotQ(s.q1.q2)]
  <2>1. s.type # "And" /\ s.type # "Or" /\ s.q1.type # "Or" /\ s.q1.type # "Not"
    BY <1>4
  <2>2. QED
    BY <1>4, <2>1, Zenon DEF DnfStep
<1>5. ASSUME IsNotOr(s)
      PROVE  DnfStep(f, s) = f[Inverted(s)]
  <2>1. s.type # "And" /\ s.type # "Or" /\ s.q1.type # "And" /\ s.q1.type # "Not"
        /\ s.type = "Not" /\ s.q1.type = "Or"
    BY <1>5 DEF IsNotOr
  <2>2. QED
    BY <2>1, Zenon DEF DnfStep, Inverted
<1>6. ASSUME s.type = "Not", s.q1.type = "Not"
      PROVE  DnfStep(f, s) = <<s.q1.q1>>
  <2>1. s.type # "And" /\ s.type # "Or" /\ s.q1.type # "And" /\ s.q1.type # "Or"
    BY <1>6
  <2>2. QED
    BY <1>6, <2>1, Zenon DEF DnfStep
<1>7. ASSUME s.type \notin {"And", "Or"}, s.type = "Not" => s.q1.type \notin {"And", "Or", "Not"}
      PROVE  DnfStep(f, s) = <<s>>
  <2>1. /\ s.type # "And" /\ s.type # "Or"
        /\ s.type = "Not" => s.q1.type # "And" /\ s.q1.type # "Or" /\ s.q1.type # "Not"
    BY <1>7
  <2>2. QED
    BY <2>1, Zenon DEF DnfStep
<1>8. QED
  BY <1>2, <1>3, <1>4, <1>5, <1>6, <1>7

\* Unless s is a negated :or, its step looks at queries of the level below.
LEMMA DnfStepAgrees ==
  ASSUME NEW n \in Nat, MaxDepth \in Nat, n <= MaxDepth, NEW s \in QueriesUpTo[n + 1], ~IsNotOr(s),
         NEW f, NEW g, \A q \in QueriesUpTo[n] : f[q] = g[q]
  PROVE  DnfStep(f, s) = DnfStep(g, s)
<1>1. CASE s.type \in {"And", "Or"}
  <2>1. f[s.q1] = g[s.q1] /\ f[s.q2] = g[s.q2]
    BY <1>1, Operands
  <2>2. CASE s.type = "And"
    <3>1. DnfStep(f, s) = CrossProduct(f[s.q1], f[s.q2]) /\ DnfStep(g, s) = CrossProduct(g[s.q1], g[s.q2])
      BY <2>2, DnfStepIs, Zenon
    <3>2. QED
      BY <2>1, <3>1, Zenon
  <2>3. CASE s.type = "Or"
    <3>1. DnfStep(f, s) = f[s.q1] \o f[s.q2] /\ DnfStep(g, s) = g[s.q1] \o g[s.q2]
      BY <2>3, DnfStepIs, Zenon
    <3>2. QED
      BY <2>1, <3>1, Zenon
  <2>4. QED
    BY <1>1, <2>2, <2>3
<1>2. CASE s.type = "Not" /\ s.q1.type = "And"
  <2>1. PICK m \in Nat : n = m + 1 /\ s.q1.q1 \in QueriesUpTo[m] /\ s.q1.q2 \in QueriesUpTo[m]
    BY <1>2, Negated
  <2>2. NotQ(s.q1.q1) \in QueriesUpTo[n] /\ NotQ(s.q1.q2) \in QueriesUpTo[n]
    BY <2>1, NotQMeans
  <2>3. f[NotQ(s.q1.q1)] = g[NotQ(s.q1.q1)] /\ f[NotQ(s.q1.q2)] = g[NotQ(s.q1.q2)]
    BY <2>2
  <2>4. /\ DnfStep(f, s) = f[NotQ(s.q1.q1)] \o f[NotQ(s.q1.q2)]
        /\ DnfStep(g, s) = g[NotQ(s.q1.q1)] \o g[NotQ(s.q1.q2)]
    BY <1>2, DnfStepIs, Zenon
  <2>5. QED
    BY <2>3, <2>4, Zenon
<1>3. CASE s.type = "Not" /\ s.q1.type = "Not"
  BY <1>3, DnfStepIs
<1>4. CASE s.type \notin {"And", "Or"} /\ (s.type = "Not" => s.q1.type \notin {"And", "Or", "Not"})
  BY <1>4, DnfStepIs
<1>5. QED
  BY <1>1, <1>2, <1>3, <1>4 DEF IsNotOr

\* Inverting a negated :or leaves a query of the level below or an :and.
LEMMA InvertedIs ==
  ASSUME NEW n \in Nat, MaxDepth \in Nat, n + 1 <= MaxDepth, NEW s \in QueriesUpTo[n + 1], IsNotOr(s)
  PROVE  /\ Inverted(s) \in QueriesUpTo[n + 1]
         /\ Inverted(s) \in QueriesUpTo[n] \/ Inverted(s).type = "And"
         /\ \A t : Matches(Inverted(s), t) <=> Matches(s, t)
<1>1. s.type = "Not" /\ s.q1.type = "Or"
  BY DEF IsNotOr
<1>2. PICK m \in Nat : /\ n = m + 1 /\ s.q1 \in QueriesUpTo[m + 1]
                       /\ s.q1.q1 \in QueriesUpTo[m] /\ s.q1.q2 \in QueriesUpTo[m]
  BY <1>1, Negated
<1> DEFINE a == NotQ(s.q1.q1)
           b == NotQ(s.q1.q2)
<1>3. m + 1 <= MaxDepth
  BY <1>2
<1>4. /\ a \in QueriesUpTo[n] /\ b \in QueriesUpTo[n]
      /\ \A t : (Matches(a, t) <=> ~Matches(s.q1.q1, t)) /\ (Matches(b, t) <=> ~Matches(s.q1.q2, t))
  BY <1>2, <1>3, NotQMeans
<1> HIDE DEF a, b
<1>5. /\ AndQ(a, b) \in QueriesUpTo[n + 1]
      /\ AndQ(a, b) \in QueriesUpTo[n] \/ AndQ(a, b).type = "And"
      /\ \A t : Matches(AndQ(a, b), t) <=> Matches(a, t) /\ Matches(b, t)
  BY <1>4, AndQMeans, AndQShape
<1>6. s \in QuerySet /\ s.q1 \in QuerySet
  BY <1>2, LevelsMonotone DEF QuerySet
<1>7. \A t : Matches(s, t) <=> ~(Matches(s.q1.q1, t) \/ Matches(s.q1.q2, t))
  BY <1>1, <1>6, MatchesIs
<1>8. Inverted(s) = AndQ(a, b)
  BY DEF Inverted, a, b
<1>9. QED
  BY <1>4, <1>5, <1>7, <1>8

LEMMA DnfExists ==
  ASSUME MaxDepth \in Nat
  PROVE  \A n \in Nat : n <= MaxDepth => \E f : IsDnf(f, QueriesUpTo[n])
<1> DEFINE T == {n \in Nat : n <= MaxDepth => \E f : IsDnf(f, QueriesUpTo[n])}
<1>1. 0 \in T
  <2> DEFINE f == [s \in QueriesUpTo[0] |-> <<s>>]
  <2>1. \A s \in QueriesUpTo[0] : s.type \notin {"And", "Or", "Not"}
    BY Level, SimpleType DEF SimpleTypes
  <2>2. \A s \in QueriesUpTo[0] : <<s>> = DnfStep(f, s)
    <3> HIDE DEF f
    <3>1. QED
      BY <2>1, DnfStepIs
  <2>3. f = [s \in QueriesUpTo[0] |-> DnfStep(f, s)]
    BY <2>2
  <2>4. IsDnf(f, QueriesUpTo[0])
    BY <2>3 DEF IsDnf
  <2>5. QED
    BY <2>4
<1>2. ASSUME NEW n \in Nat, n \in T
      PROVE  n + 1 \in T
  <2> SUFFICES ASSUME n + 1 <= MaxDepth
               PROVE  \E f : IsDnf(f, QueriesUpTo[n + 1])
    OBVIOUS
  <2> DEFINE Q == QueriesUpTo[n]
             R == QueriesUpTo[n + 1]
  <2>1. PICK g : IsDnf(g, Q)
    BY <1>2
  <2> DEFINE h == [s \in R |-> IF IsNotOr(s) THEN DnfStep(g, Inverted(s)) ELSE DnfStep(g, s)]
  <2>2. Q \subseteq R /\ \A s \in Q : g[s] = DnfStep(g, s)
    BY <2>1, LevelsGrow DEF IsDnf
  <2>3. \A s \in R : h[s] = IF IsNotOr(s) THEN DnfStep(g, Inverted(s)) ELSE DnfStep(g, s)
    OBVIOUS
  <2> HIDE DEF h
  <2>4. ASSUME NEW s \in Q
        PROVE  h[s] = g[s]
    <3>1. CASE IsNotOr(s)
      <4>1. n # 0
        BY <3>1, Level, SimpleType DEF SimpleTypes, IsNotOr
      <4>2. n - 1 \in Nat /\ (n - 1) + 1 = n /\ (n - 1) + 1 <= MaxDepth
        BY <4>1
      <4>3. Inverted(s) \in Q
        BY <3>1, <4>2, InvertedIs
      <4>4. h[s] = g[Inverted(s)]
        BY <2>2, <2>3, <3>1, <4>3
      <4>5. g[s] = g[Inverted(s)]
        BY <2>2, <3>1, DnfStepIs
      <4>6. QED
        BY <4>4, <4>5
    <3>2. CASE ~IsNotOr(s)
      BY <2>2, <2>3, <3>2
    <3>3. QED
      BY <3>1, <3>2
  <2>5. ASSUME NEW s \in R
        PROVE  h[s] = DnfStep(h, s)
    <3>1. CASE ~IsNotOr(s)
      <4>1. DnfStep(h, s) = DnfStep(g, s)
        BY <2>4, <3>1, DnfStepAgrees
      <4>2. QED
        BY <2>3, <3>1, <4>1
    <3>2. CASE IsNotOr(s)
      <4> DEFINE a == Inverted(s)
      <4>1. a \in R /\ (a \in Q \/ a.type = "And")
        BY <3>2, InvertedIs
      <4>2. DnfStep(h, s) = h[a] /\ h[s] = DnfStep(g, a)
        BY <2>3, <3>2, DnfStepIs
      <4> HIDE DEF a
      <4>3. CASE a \in Q
        BY <2>2, <2>4, <4>2, <4>3
      <4>4. CASE a.type = "And"
        BY <2>3, <4>1, <4>2, <4>4 DEF IsNotOr
      <4>5. QED
        BY <4>1, <4>3, <4>4
    <3>3. QED
      BY <3>1, <3>2
  <2>6. h = [s \in R |-> DnfStep(h, s)]
    <3>1. h = [s \in R |-> h[s]]
      BY DEF h
    <3>2. QED
      BY <2>5, <3>1
  <2>7. IsDnf(h, R)
    BY <2>6 DEF IsDnf
  <2>8. QED
    BY <2>7
<1> HIDE DEF T
<1>3. \A n \in Nat : n \in T
  BY <1>1, <1>2, Induction
<1>4. QED
  BY <1>3 DEF T

\* The recursion equation of DnfList.
LEMMA DnfListDef ==
  ASSUME MaxDepth \in Nat
  PROVE  \E f : IsDnf(f, QuerySet) /\ \A q : DnfList(q) = f[q]
<1> DEFINE f == CHOOSE g : IsDnf(g, QuerySet)
<1>1. IsDnf(f, QuerySet)
  BY DnfExists DEF QuerySet
<1>2. \A q : DnfList(q) = f[q]
  BY DEF DnfList, IsDnf, DnfStep
<1>3. QED
  BY <1>1, <1>2

LEMMA ConcatIs ==
  ASSUME NEW S, NEW s \in Seq(S), NEW t \in Seq(S)
  PROVE  /\ s \o t \in Seq(S)
         /\ ToSet(s \o t) = ToSet(s) \cup ToSet(t)
<1> DEFINE u == s \o t
<1>1. /\ u \in Seq(S) /\ Len(u) = Len(s) + Len(t) /\ Len(s) \in Nat /\ Len(t) \in Nat
      /\ DOMAIN s = 1..Len(s) /\ DOMAIN t = 1..Len(t) /\ DOMAIN u = 1..(Len(s) + Len(t))
      /\ \A i \in 1..Len(s) : u[i] = s[i]
      /\ \A i \in 1..(Len(s) + Len(t)) : i > Len(s) => u[i] = t[i - Len(s)]
  OBVIOUS
<1> HIDE DEF u
<1>2. ASSUME NEW i \in 1..Len(t)
      PROVE  i + Len(s) \in DOMAIN u /\ u[i + Len(s)] = t[i]
  <2>1. i + Len(s) \in 1..(Len(s) + Len(t)) /\ i + Len(s) > Len(s) /\ (i + Len(s)) - Len(s) = i
    BY <1>1
  <2>2. u[i + Len(s)] = t[(i + Len(s)) - Len(s)]
    BY <1>1, <2>1
  <2>3. QED
    BY <1>1, <2>1, <2>2
<1>3. ASSUME NEW i \in DOMAIN u
      PROVE  u[i] \in ToSet(s) \cup ToSet(t)
  <2>1. CASE i \in 1..Len(s)
    BY <1>1, <2>1 DEF ToSet
  <2>2. CASE i \notin 1..Len(s)
    <3>1. i \in 1..(Len(s) + Len(t)) /\ i > Len(s) /\ i - Len(s) \in 1..Len(t)
      BY <1>1, <2>2
    <3>2. u[i] = t[i - Len(s)]
      BY <1>1, <3>1
    <3>3. QED
      BY <1>1, <3>1, <3>2 DEF ToSet
  <2>3. QED
    BY <2>1, <2>2
<1>4. \A x \in ToSet(s) \cup ToSet(t) : x \in ToSet(u)
  <2>1. \A i \in DOMAIN s : s[i] \in ToSet(u)
    BY <1>1 DEF ToSet
  <2>2. \A i \in DOMAIN t : t[i] \in ToSet(u)
    BY <1>1, <1>2 DEF ToSet
  <2>3. QED
    BY <2>1, <2>2 DEF ToSet
<1>5. ToSet(u) = ToSet(s) \cup ToSet(t)
  BY <1>3, <1>4 DEF ToSet
<1>6. QED
  BY <1>1, <1>5 DEF u

LEMMA DivideBack ==
  ASSUME NEW a \in Nat, NEW b \in Nat, NEW L \in Nat, b < L
  PROVE  (a * L + b) \div L = a /\ (a * L + b) % L = b
<1> DEFINE x == a * L + b
           d == x \div L
           r == x % L
<1>1. a * L \in Nat /\ x \in Nat /\ L > 0
  OBVIOUS
<1> HIDE DEF x
<1>2. d \in Int /\ r \in 0..(L - 1) /\ x = L * d + r
  BY <1>1
<1> HIDE DEF d, r
<1>3. a * L + b = L * d + r
  BY <1>2 DEF x
<1>4. d = a
  <2>1. CASE d < a
    <3>1. d + 1 <= a
      BY <1>2, <2>1
    <3>2. (d + 1) * L <= a * L
      BY <1>1, <1>2, <3>1
    <3>3. (d + 1) * L = L * d + L
      BY <1>2
    <3> DEFINE p == L * d
               q == a * L
    <3>4. p \in Int /\ q \in Int
      BY <1>2
    <3>5. q + b = p + r /\ p + L <= q
      BY <1>3, <3>2, <3>3
    <3> HIDE DEF p, q
    <3>6. QED
      BY <1>2, <3>4, <3>5
  <2>2. CASE d > a
    <3>1. a + 1 <= d
      BY <1>2, <2>2
    <3>2. (a + 1) * L <= d * L
      BY <1>1, <1>2, <3>1
    <3>3. (a + 1) * L = a * L + L /\ d * L = L * d
      BY <1>2
    <3> DEFINE p == L * d
               q == a * L
    <3>4. p \in Int /\ q \in Int
      BY <1>2
    <3>5. q + b = p + r /\ q + L <= p
      BY <1>3, <3>2, <3>3
    <3> HIDE DEF p, q
    <3>6. QED
      BY <1>2, <3>4, <3>5
  <2>3. QED
    BY <1>2, <2>1, <2>2
<1>5. r = b
  BY <1>2, <1>3, <1>4
<1>6. QED
  BY <1>4, <1>5 DEF d, r, x

LEMMA MultiplyIn ==
  ASSUME NEW K \in Nat, NEW L \in Nat, NEW i \in 1..K, NEW j \in 1..L
  PROVE  /\ (i - 1) * L + (j - 1) \in Nat
         /\ (i - 1) * L + j \in 1..(K * L)
<1> DEFINE p == (i - 1) * L
<1>1. p \in Nat /\ i - 1 \in Nat
  OBVIOUS
<1>2. p + L <= K * L
  <2>1. i * L <= K * L /\ i * L = p + L
    OBVIOUS
  <2>2. QED
    BY <2>1
<1>3. K * L \in Nat
  OBVIOUS
<1> HIDE DEF p
<1>4. p + (j - 1) \in Nat /\ p + j \in 1..(K * L)
  BY <1>1, <1>2, <1>3
<1>5. QED
  BY <1>4 DEF p

LEMMA DivideIn ==
  ASSUME NEW K \in Nat, NEW L \in Nat, NEW n \in 1..(K * L)
  PROVE  ((n - 1) \div L) + 1 \in 1..K /\ ((n - 1) % L) + 1 \in 1..L
<1>1. L > 0
  <2>1. L # 0
    <3>1. K * 0 = 0
      OBVIOUS
    <3>2. QED
      BY <3>1
  <2>2. QED
    BY <2>1
<1> DEFINE d == (n - 1) \div L
           r == (n - 1) % L
<1>2. d \in Int /\ r \in 0..(L - 1) /\ n - 1 = L * d + r
  BY <1>1
<1> HIDE DEF d, r
<1>3. d >= 0
  <2> SUFFICES ASSUME d <= -1 PROVE FALSE
    BY <1>2
  <2>1. L * d <= L * (-1)
    BY <1>1, <1>2
  <2>2. L * (-1) = -L /\ L * d \in Int
    BY <1>2
  <2> DEFINE p == L * d
  <2>3. p <= -L /\ p \in Int /\ n - 1 = p + r
    BY <1>2, <2>1, <2>2
  <2> HIDE DEF p
  <2>4. QED
    BY <1>2, <2>3
<1>4. d < K
  <2> SUFFICES ASSUME K <= d PROVE FALSE
    BY <1>2
  <2>1. L * K <= L * d /\ L * K = K * L
    BY <1>1, <1>2
  <2> DEFINE p == L * d
             q == K * L
  <2>2. p \in Int /\ q \in Int /\ q <= p /\ n - 1 = p + r /\ n <= q
    BY <1>2, <2>1
  <2> HIDE DEF p, q
  <2>3. QED
    BY <1>2, <2>2
<1>5. QED
  BY <1>2, <1>3, <1>4 DEF d, r

\* Every pair meets in the product.
LEMMA CrossProductIs ==
  ASSUME NEW S, NEW s \in Seq(S), NEW t \in Seq(S), NEW R, \A a \in S, b \in S : AndQ(a, b) \in R
  PROVE  /\ CrossProduct(s, t) \in Seq(R)
         /\ ToSet(CrossProduct(s, t)) = {AndQ(a, b) : a \in ToSet(s), b \in ToSet(t)}
<1> DEFINE K == Len(s)
           L == Len(t)
           c == CrossProduct(s, t)
           P(n) == AndQ(s[((n - 1) \div L) + 1], t[((n - 1) % L) + 1])
<1>1. K \in Nat /\ L \in Nat /\ DOMAIN s = 1..K /\ DOMAIN t = 1..L /\ K * L \in Nat
  OBVIOUS
<1>2. c = [n \in 1..(K * L) |-> P(n)]
  BY DEF CrossProduct
<1>3. \A i \in 1..K : s[i] \in S
  OBVIOUS
<1>4. \A i \in 1..L : t[i] \in S
  OBVIOUS
<1> HIDE DEF K, L
<1>5. ASSUME NEW n \in 1..(K * L)
      PROVE  P(n) \in R /\ P(n) \in {AndQ(a, b) : a \in ToSet(s), b \in ToSet(t)}
  <2> DEFINE i == ((n - 1) \div L) + 1
             j == ((n - 1) % L) + 1
  <2>1. i \in 1..K /\ j \in 1..L
    BY <1>1, DivideIn
  <2> HIDE DEF i, j
  <2>2. s[i] \in S /\ t[j] \in S /\ s[i] \in ToSet(s) /\ t[j] \in ToSet(t)
    BY <1>1, <1>3, <1>4, <2>1 DEF ToSet
  <2>3. P(n) = AndQ(s[i], t[j])
    BY DEF i, j
  <2>4. QED
    BY <2>2, <2>3
<1>6. ASSUME NEW i \in 1..K, NEW j \in 1..L
      PROVE  \E n \in 1..(K * L) : P(n) = AndQ(s[i], t[j])
  <2> DEFINE n == (i - 1) * L + j
  <2>1. n \in 1..(K * L) /\ (i - 1) * L + (j - 1) \in Nat
    BY <1>1, MultiplyIn
  <2>2. (i - 1) \in Nat /\ (j - 1) \in Nat /\ (j - 1) < L
    BY <1>1
  <2>3. ((i - 1) * L + (j - 1)) \div L = i - 1 /\ ((i - 1) * L + (j - 1)) % L = j - 1
    BY <1>1, <2>2, DivideBack
  <2>4. n - 1 = (i - 1) * L + (j - 1)
    <3> DEFINE p == (i - 1) * L
    <3>1. p \in Int
      BY <1>1
    <3> HIDE DEF p
    <3>2. (p + j) - 1 = p + (j - 1)
      BY <3>1
    <3>3. QED
      BY <3>2 DEF p
  <2> HIDE DEF n
  <2>5. ((n - 1) \div L) + 1 = i /\ ((n - 1) % L) + 1 = j
    BY <2>3, <2>4
  <2>6. QED
    BY <2>1, <2>5
<1> HIDE DEF P, c
<1>7. c \in Seq(R)
  BY <1>1, <1>2, <1>5
<1>8. ToSet(c) = {P(n) : n \in 1..(K * L)}
  BY <1>2 DEF ToSet
<1>9. \A x \in ToSet(c) : x \in {AndQ(a, b) : a \in ToSet(s), b \in ToSet(t)}
  BY <1>5, <1>8
<1>10. \A x \in {AndQ(a, b) : a \in ToSet(s), b \in ToSet(t)} : x \in ToSet(c)
  <2> SUFFICES ASSUME NEW i \in 1..K, NEW j \in 1..L
               PROVE  AndQ(s[i], t[j]) \in ToSet(c)
    BY <1>1 DEF ToSet
  <2>1. QED
    BY <1>6, <1>8
<1>11. QED
  BY <1>7, <1>9, <1>10 DEF c

\* One of the list matches if q does, and only then.
AnyOf(list, q, n) ==
  /\ list \in Seq(QueriesUpTo[n])
  /\ \A t : Matches(q, t) <=> \E d \in ToSet(list) : Matches(d, t)

LEMMA AnyWider ==
  ASSUME NEW n \in Nat, NEW l, NEW q, AnyOf(l, q, n)
  PROVE  AnyOf(l, q, n + 1)
BY LevelsGrow DEF AnyOf

LEMMA OneIs ==
  ASSUME NEW S, NEW d \in S
  PROVE  <<d>> \in Seq(S) /\ ToSet(<<d>>) = {d}
BY DEF ToSet

LEMMA AnyAlone ==
  ASSUME NEW n \in Nat, NEW q, NEW d \in QueriesUpTo[n], \A t : Matches(q, t) <=> Matches(d, t)
  PROVE  AnyOf(<<d>>, q, n)
<1> DEFINE S == QueriesUpTo[n]
<1>1. d \in S
  OBVIOUS
<1> HIDE DEF S
<1>2. <<d>> \in Seq(S) /\ ToSet(<<d>>) = {d}
  BY <1>1, OneIs
<1>3. QED
  BY <1>2 DEF AnyOf, S

LEMMA AnyOfBoth ==
  ASSUME NEW n \in Nat, MaxDepth \in Nat, n + 1 <= MaxDepth, NEW q, NEW a, NEW b,
         NEW l, NEW m, AnyOf(l, a, n), AnyOf(m, b, n),
         \A t : Matches(q, t) <=> Matches(a, t) /\ Matches(b, t)
  PROVE  AnyOf(CrossProduct(l, m), q, n + 1)
<1>1. l \in Seq(QueriesUpTo[n]) /\ m \in Seq(QueriesUpTo[n])
  BY DEF AnyOf
<1>2. \A x \in QueriesUpTo[n], y \in QueriesUpTo[n] : AndQ(x, y) \in QueriesUpTo[n + 1]
  BY AndQMeans
<1> DEFINE c == CrossProduct(l, m)
<1>3. c \in Seq(QueriesUpTo[n + 1]) /\ ToSet(c) = {AndQ(x, y) : x \in ToSet(l), y \in ToSet(m)}
  BY <1>1, <1>2, CrossProductIs
<1>4. ToSet(l) \subseteq QueriesUpTo[n] /\ ToSet(m) \subseteq QueriesUpTo[n]
  BY <1>1 DEF ToSet
<1> HIDE DEF c
<1>5. ASSUME NEW t
      PROVE  Matches(q, t) <=> \E d \in ToSet(c) : Matches(d, t)
  <2>1. \A x \in ToSet(l), y \in ToSet(m) : Matches(AndQ(x, y), t) <=> Matches(x, t) /\ Matches(y, t)
    BY <1>4, AndQMeans
  <2>2. (Matches(a, t) <=> \E x \in ToSet(l) : Matches(x, t)) /\ (Matches(b, t) <=> \E y \in ToSet(m) : Matches(y, t))
    BY DEF AnyOf
  <2>3. (\E d \in ToSet(c) : Matches(d, t)) <=> \E x \in ToSet(l), y \in ToSet(m) : Matches(AndQ(x, y), t)
    <3>1. ASSUME NEW d \in ToSet(c), Matches(d, t)
          PROVE  \E x \in ToSet(l), y \in ToSet(m) : Matches(AndQ(x, y), t)
      <4>1. PICK x \in ToSet(l), y \in ToSet(m) : d = AndQ(x, y)
        BY <1>3
      <4>2. QED
        BY <3>1, <4>1
    <3>2. ASSUME NEW x \in ToSet(l), NEW y \in ToSet(m), Matches(AndQ(x, y), t)
          PROVE  \E d \in ToSet(c) : Matches(d, t)
      <4>1. AndQ(x, y) \in ToSet(c)
        BY <1>3
      <4>2. QED
        BY <3>2, <4>1
    <3>3. QED
      BY <3>1, <3>2
  <2>4. (\E d \in ToSet(c) : Matches(d, t)) <=> Matches(a, t) /\ Matches(b, t)
    BY <2>1, <2>2, <2>3, Zenon
  <2>5. QED
    BY <2>4, Zenon
<1>6. QED
  BY <1>3, <1>5 DEF AnyOf, c

LEMMA AnyOfEither ==
  ASSUME NEW n \in Nat, NEW q, NEW a, NEW b, NEW l, NEW m, AnyOf(l, a, n), AnyOf(m, b, n),
         \A t : Matches(q, t) <=> Matches(a, t) \/ Matches(b, t)
  PROVE  AnyOf(l \o m, q, n)
<1>1. l \o m \in Seq(QueriesUpTo[n]) /\ ToSet(l \o m) = ToSet(l) \cup ToSet(m)
  BY ConcatIs DEF AnyOf
<1>2. \A t : Matches(q, t) <=> \E d \in ToSet(l) \cup ToSet(m) : Matches(d, t)
  <2> SUFFICES ASSUME NEW t
               PROVE  Matches(q, t) <=> \E d \in ToSet(l) \cup ToSet(m) : Matches(d, t)
    OBVIOUS
  <2>1. (Matches(a, t) <=> \E x \in ToSet(l) : Matches(x, t)) /\ (Matches(b, t) <=> \E y \in ToSet(m) : Matches(y, t))
    BY DEF AnyOf
  <2>2. Matches(q, t) <=> Matches(a, t) \/ Matches(b, t)
    OBVIOUS
  <2>3. QED
    BY <2>1, <2>2, Zenon
<1>3. QED
  BY <1>1, <1>2 DEF AnyOf

\* The normal form of a query is nested no deeper, and one of it matches what
\* the query matches.
LEMMA DnfMeans ==
  ASSUME MaxDepth \in Nat
  PROVE  \A n \in Nat : n <= MaxDepth => \A q \in QueriesUpTo[n] : AnyOf(DnfList(q), q, n)
<1> DEFINE T == {n \in Nat : n <= MaxDepth => \A q \in QueriesUpTo[n] : AnyOf(DnfList(q), q, n)}
<1>1. PICK f : IsDnf(f, QuerySet) /\ \A q : DnfList(q) = f[q]
  BY DnfListDef
<1>2. \A q \in QuerySet : DnfList(q) = DnfStep(f, q)
  BY <1>1 DEF IsDnf
<1>3. 0 \in T
  <2> SUFFICES ASSUME NEW q \in QueriesUpTo[0]
               PROVE  AnyOf(DnfList(q), q, 0)
    OBVIOUS
  <2>1. q.type \notin {"And", "Or", "Not"} /\ q \in QuerySet
    BY Level, LevelsMonotone, SimpleType DEF SimpleTypes, QuerySet
  <2>2. DnfList(q) = <<q>>
    BY <1>2, <2>1, DnfStepIs
  <2>3. QED
    BY <2>2, AnyAlone
<1>4. ASSUME NEW n \in Nat, n \in T
      PROVE  n + 1 \in T
  <2> SUFFICES ASSUME n + 1 <= MaxDepth
               PROVE  \A q \in QueriesUpTo[n + 1] : AnyOf(DnfList(q), q, n + 1)
    OBVIOUS
  <2>1. QueriesUpTo[n + 1] \subseteq QuerySet /\ n <= MaxDepth
    BY LevelsMonotone DEF QuerySet
  <2>2. \A q \in QueriesUpTo[n] : AnyOf(DnfList(q), q, n)
    BY <1>4, <2>1
  <2>3. ASSUME NEW q \in QueriesUpTo[n + 1], ~IsNotOr(q)
        PROVE  AnyOf(DnfList(q), q, n + 1)
    <3>0. q \in QuerySet
      BY <2>1
    <3>1. CASE q.type = "And"
      <4>1. DnfList(q) = CrossProduct(DnfList(q.q1), DnfList(q.q2))
        BY <1>1, <1>2, <3>0, <3>1, DnfStepIs
      <4>2. AnyOf(DnfList(q.q1), q.q1, n) /\ AnyOf(DnfList(q.q2), q.q2, n)
        BY <2>2, <3>1, Operands
      <4>3. \A t : Matches(q, t) <=> Matches(q.q1, t) /\ Matches(q.q2, t)
        BY <3>0, <3>1, MatchesIs
      <4>4. QED
        BY <4>1, <4>2, <4>3, AnyOfBoth
    <3>2. CASE q.type = "Or"
      <4>1. DnfList(q) = DnfList(q.q1) \o DnfList(q.q2)
        BY <1>1, <1>2, <3>0, <3>2, DnfStepIs
      <4>2. AnyOf(DnfList(q.q1), q.q1, n) /\ AnyOf(DnfList(q.q2), q.q2, n)
        BY <2>2, <3>2, Operands
      <4>3. \A t : Matches(q, t) <=> Matches(q.q1, t) \/ Matches(q.q2, t)
        BY <3>0, <3>2, MatchesIs
      <4>4. AnyOf(DnfList(q), q, n)
        BY <4>1, <4>2, <4>3, AnyOfEither
      <4>5. QED
        BY <4>4, AnyWider
    <3>3. CASE q.type = "Not" /\ q.q1.type \in {"And", "Not"}
      <4>1. PICK m \in Nat : /\ n = m + 1 /\ q.q1 \in QueriesUpTo[m + 1] /\ q.q1.q1 \in QueriesUpTo[m]
                             /\ q.q1.type = "And" => q.q1.q2 \in QueriesUpTo[m]
        BY <3>3, Negated
      <4>2. q.q1 \in QuerySet /\ m + 1 <= MaxDepth
        BY <2>1, <4>1, LevelsMonotone DEF QuerySet
      <4>3. \A t : Matches(q, t) <=> ~Matches(q.q1, t)
        BY <3>0, <3>3, MatchesIs
      <4>4. CASE q.q1.type = "And"
        <5> DEFINE a == NotQ(q.q1.q1)
                   b == NotQ(q.q1.q2)
        <5>1. /\ a \in QueriesUpTo[n] /\ b \in QueriesUpTo[n]
              /\ \A t : (Matches(a, t) <=> ~Matches(q.q1.q1, t)) /\ (Matches(b, t) <=> ~Matches(q.q1.q2, t))
          BY <4>1, <4>2, <4>4, NotQMeans
        <5>2. DnfList(q) = DnfList(a) \o DnfList(b)
          BY <1>1, <1>2, <3>0, <3>3, <4>4, DnfStepIs
        <5> HIDE DEF a, b
        <5>3. \A t : Matches(q.q1, t) <=> Matches(q.q1.q1, t) /\ Matches(q.q1.q2, t)
          BY <4>2, <4>4, MatchesIs
        <5>4. \A t : Matches(q, t) <=> Matches(a, t) \/ Matches(b, t)
          BY <4>3, <5>1, <5>3
        <5>5. AnyOf(DnfList(q), q, n)
          BY <2>2, <5>1, <5>2, <5>4, AnyOfEither
        <5>6. QED
          BY <5>5, AnyWider
      <4>5. CASE q.q1.type = "Not"
        <5>1. \A t : Matches(q, t) <=> Matches(q.q1.q1, t)
          BY <4>2, <4>3, <4>5, MatchesIs
        <5>2. DnfList(q) = <<q.q1.q1>>
          BY <1>2, <3>0, <3>3, <4>5, DnfStepIs
        <5>3. q.q1.q1 \in QueriesUpTo[n + 1]
          BY <4>1, LevelsGrow
        <5>4. QED
          BY <5>1, <5>2, <5>3, AnyAlone
      <4>6. QED
        BY <3>3, <4>4, <4>5
    <3>4. CASE q.type \notin {"And", "Or"} /\ (q.type = "Not" => q.q1.type \notin {"And", "Or", "Not"})
      <4>1. DnfList(q) = <<q>>
        BY <1>2, <3>0, <3>4, DnfStepIs
      <4>2. QED
        BY <4>1, AnyAlone
    <3>5. QED
      BY <2>3, <3>1, <3>2, <3>3, <3>4 DEF IsNotOr
  <2>4. ASSUME NEW q \in QueriesUpTo[n + 1], IsNotOr(q)
        PROVE  AnyOf(DnfList(q), q, n + 1)
    <3> DEFINE a == Inverted(q)
    <3>1. /\ a \in QueriesUpTo[n + 1] /\ (a \in QueriesUpTo[n] \/ a.type = "And")
          /\ \A t : Matches(a, t) <=> Matches(q, t)
      BY <2>4, InvertedIs
    <3>2. DnfList(q) = DnfList(a)
      BY <1>1, <1>2, <2>1, <2>4, DnfStepIs
    <3> HIDE DEF a
    <3>3. AnyOf(DnfList(a), a, n + 1)
      <4>1. CASE a \in QueriesUpTo[n]
        BY <2>2, <4>1, AnyWider
      <4>2. CASE a.type = "And"
        BY <2>3, <3>1, <4>2 DEF IsNotOr
      <4>3. QED
        BY <3>1, <4>1, <4>2
    <3>4. QED
      BY <3>1, <3>2, <3>3 DEF AnyOf
  <2>5. QED
    BY <2>3, <2>4
<1> HIDE DEF T
<1>5. \A n \in Nat : n \in T
  BY <1>3, <1>4, Induction
<1>6. QED
  BY <1>5 DEF T

SplitStep(f, s) ==
  CASE s.type = "And" -> CrossProduct(f[s.q1], f[s.q2])
    [] s.type = "In" /\ Len(s.values) < SplitLimit ->
         [i \in DOMAIN s.values |-> RelopQuery(s.key, s.values[i], "EQ")]
    [] OTHER -> <<s>>

IsSplit(f, D) == f = [s \in D |-> SplitStep(f, s)]

LEMMA SplitStepIs ==
  ASSUME NEW f, NEW s
  PROVE  /\ s.type = "And" => SplitStep(f, s) = CrossProduct(f[s.q1], f[s.q2])
         /\ s.type = "In" /\ Len(s.values) < SplitLimit =>
              SplitStep(f, s) = [i \in DOMAIN s.values |-> RelopQuery(s.key, s.values[i], "EQ")]
         /\ s.type # "And" /\ ~(s.type = "In" /\ Len(s.values) < SplitLimit) => SplitStep(f, s) = <<s>>
<1>1. ASSUME s.type = "And"
      PROVE  SplitStep(f, s) = CrossProduct(f[s.q1], f[s.q2])
  <2>1. s.type # "In"
    BY <1>1
  <2>2. QED
    BY <1>1, <2>1, Zenon DEF SplitStep
<1>2. ASSUME s.type = "In", Len(s.values) < SplitLimit
      PROVE  SplitStep(f, s) = [i \in DOMAIN s.values |-> RelopQuery(s.key, s.values[i], "EQ")]
  <2>1. s.type # "And"
    BY <1>2
  <2>2. QED
    BY <1>2, <2>1, Zenon DEF SplitStep
<1>3. ASSUME s.type # "And", ~(s.type = "In" /\ Len(s.values) < SplitLimit)
      PROVE  SplitStep(f, s) = <<s>>
  BY <1>3, Zenon DEF SplitStep
<1>4. QED
  BY <1>1, <1>2, <1>3

LEMMA SplitStepAgrees ==
  ASSUME NEW f, NEW g, NEW s, s.type = "And" => f[s.q1] = g[s.q1] /\ f[s.q2] = g[s.q2]
  PROVE  SplitStep(f, s) = SplitStep(g, s)
<1>1. CASE s.type = "And"
  <2>1. SplitStep(f, s) = CrossProduct(f[s.q1], f[s.q2]) /\ SplitStep(g, s) = CrossProduct(g[s.q1], g[s.q2])
    BY <1>1, SplitStepIs, Zenon
  <2>2. QED
    BY <1>1, <2>1, Zenon
<1>2. CASE s.type = "In" /\ Len(s.values) < SplitLimit
  <2>1. \A h : SplitStep(h, s) = [i \in DOMAIN s.values |-> RelopQuery(s.key, s.values[i], "EQ")]
    BY <1>2, SplitStepIs, Zenon
  <2>2. QED
    BY <2>1, Zenon
<1>3. CASE s.type # "And" /\ ~(s.type = "In" /\ Len(s.values) < SplitLimit)
  BY <1>3, SplitStepIs
<1>4. QED
  BY <1>1, <1>2, <1>3

ConjunctionStep(f, s) == IF s.type = "And" THEN f[s.q1] \o f[s.q2] ELSE <<s>>

IsConjunction(f, D) == f = [s \in D |-> ConjunctionStep(f, s)]

LEMMA ConjunctionStepAgrees ==
  ASSUME NEW f, NEW g, NEW s, s.type = "And" => f[s.q1] = g[s.q1] /\ f[s.q2] = g[s.q2]
  PROVE  ConjunctionStep(f, s) = ConjunctionStep(g, s)
<1>1. CASE s.type = "And"
  <2>1. f[s.q1] = g[s.q1] /\ f[s.q2] = g[s.q2]
    BY <1>1
  <2>2. ConjunctionStep(f, s) = f[s.q1] \o f[s.q2] /\ ConjunctionStep(g, s) = g[s.q1] \o g[s.q2]
    BY <1>1, Zenon DEF ConjunctionStep
  <2>3. QED
    BY <2>1, <2>2, Zenon
<1>2. CASE s.type # "And"
  BY <1>2 DEF ConjunctionStep
<1>3. QED
  BY <1>1, <1>2

LEMMA SplitExists == \A n \in Nat : \E f : IsSplit(f, QueriesUpTo[n])
<1> DEFINE T == {n \in Nat : \E f : IsSplit(f, QueriesUpTo[n])}
<1>1. 0 \in T
  <2> DEFINE none == [s \in {} |-> <<>>]
             f == [s \in QueriesUpTo[0] |-> SplitStep(none, s)]
  <2>1. \A s \in QueriesUpTo[0] : s.type # "And"
    BY Level, SimpleType DEF SimpleTypes
  <2>2. \A s \in QueriesUpTo[0] : SplitStep(none, s) = SplitStep(f, s)
    <3> HIDE DEF none, f
    <3>1. QED
      BY <2>1, SplitStepAgrees
  <2>3. f = [s \in QueriesUpTo[0] |-> SplitStep(f, s)]
    BY <2>2
  <2>4. IsSplit(f, QueriesUpTo[0])
    BY <2>3 DEF IsSplit
  <2>5. QED
    BY <2>4
<1>2. ASSUME NEW n \in Nat, n \in T
      PROVE  n + 1 \in T
  <2>1. PICK g : IsSplit(g, QueriesUpTo[n])
    BY <1>2
  <2> DEFINE f == [s \in QueriesUpTo[n + 1] |-> SplitStep(g, s)]
  <2>2. \A s \in QueriesUpTo[n] : f[s] = g[s]
    BY <2>1, LevelsGrow DEF IsSplit
  <2>3. ASSUME NEW s \in QueriesUpTo[n + 1]
        PROVE  SplitStep(g, s) = SplitStep(f, s)
    <3> HIDE DEF f
    <3>1. s.type = "And" => f[s.q1] = g[s.q1] /\ f[s.q2] = g[s.q2]
      BY <2>2, Operands
    <3>2. QED
      BY <3>1, SplitStepAgrees
  <2>4. f = [s \in QueriesUpTo[n + 1] |-> SplitStep(f, s)]
    BY <2>3
  <2>5. IsSplit(f, QueriesUpTo[n + 1])
    BY <2>4 DEF IsSplit
  <2>6. QED
    BY <2>5
<1> HIDE DEF T
<1>3. \A n \in Nat : n \in T
  BY <1>1, <1>2, Induction
<1>4. QED
  BY <1>3 DEF T

LEMMA ConjunctionExists == \A n \in Nat : \E f : IsConjunction(f, QueriesUpTo[n])
<1> DEFINE T == {n \in Nat : \E f : IsConjunction(f, QueriesUpTo[n])}
<1>1. 0 \in T
  <2> DEFINE none == [s \in {} |-> <<>>]
             f == [s \in QueriesUpTo[0] |-> ConjunctionStep(none, s)]
  <2>1. \A s \in QueriesUpTo[0] : s.type # "And"
    BY Level, SimpleType DEF SimpleTypes
  <2>2. \A s \in QueriesUpTo[0] : ConjunctionStep(none, s) = ConjunctionStep(f, s)
    <3> HIDE DEF none, f
    <3>1. QED
      BY <2>1, ConjunctionStepAgrees
  <2>3. f = [s \in QueriesUpTo[0] |-> ConjunctionStep(f, s)]
    BY <2>2
  <2>4. IsConjunction(f, QueriesUpTo[0])
    BY <2>3 DEF IsConjunction
  <2>5. QED
    BY <2>4
<1>2. ASSUME NEW n \in Nat, n \in T
      PROVE  n + 1 \in T
  <2>1. PICK g : IsConjunction(g, QueriesUpTo[n])
    BY <1>2
  <2> DEFINE f == [s \in QueriesUpTo[n + 1] |-> ConjunctionStep(g, s)]
  <2>2. \A s \in QueriesUpTo[n] : f[s] = g[s]
    BY <2>1, LevelsGrow DEF IsConjunction
  <2>3. ASSUME NEW s \in QueriesUpTo[n + 1]
        PROVE  ConjunctionStep(g, s) = ConjunctionStep(f, s)
    <3> HIDE DEF f
    <3>1. s.type = "And" => f[s.q1] = g[s.q1] /\ f[s.q2] = g[s.q2]
      BY <2>2, Operands
    <3>2. QED
      BY <3>1, ConjunctionStepAgrees
  <2>4. f = [s \in QueriesUpTo[n + 1] |-> ConjunctionStep(f, s)]
    BY <2>3
  <2>5. IsConjunction(f, QueriesUpTo[n + 1])
    BY <2>4 DEF IsConjunction
  <2>6. QED
    BY <2>5
<1> HIDE DEF T
<1>3. \A n \in Nat : n \in T
  BY <1>1, <1>2, Induction
<1>4. QED
  BY <1>3 DEF T

LEMMA SplitDef ==
  ASSUME MaxDepth \in Nat
  PROVE  \E f : IsSplit(f, QuerySet) /\ \A q : Split(q) = f[q]
<1> DEFINE f == CHOOSE g : IsSplit(g, QuerySet)
<1>1. IsSplit(f, QuerySet)
  BY SplitExists DEF QuerySet
<1>2. \A q : Split(q) = f[q]
  BY DEF Split, IsSplit, SplitStep
<1>3. QED
  BY <1>1, <1>2

LEMMA ConjunctionListIs ==
  ASSUME MaxDepth \in Nat, NEW q \in QuerySet
  PROVE  /\ q.type = "And" => ConjunctionList(q) = ConjunctionList(q.q1) \o ConjunctionList(q.q2)
         /\ q.type # "And" => ConjunctionList(q) = <<q>>
<1> DEFINE f == CHOOSE g : IsConjunction(g, QuerySet)
<1>1. IsConjunction(f, QuerySet)
  BY ConjunctionExists DEF QuerySet
<1>2. \A s : ConjunctionList(s) = f[s]
  BY DEF ConjunctionList, IsConjunction, ConjunctionStep
<1> HIDE DEF f
<1>3. ConjunctionList(q) = ConjunctionStep(f, q)
  BY <1>1, <1>2 DEF IsConjunction
<1>4. CASE q.type = "And"
  <2>1. ConjunctionList(q) = f[q.q1] \o f[q.q2]
    BY <1>3, <1>4, Zenon DEF ConjunctionStep
  <2>2. QED
    BY <1>2, <1>4, <2>1, Zenon
<1>5. CASE q.type # "And"
  BY <1>3, <1>5 DEF ConjunctionStep
<1>6. QED
  BY <1>4, <1>5

\* An :eq matches tags that have its value.
LEMMA EqMatches ==
  ASSUME MaxDepth \in Nat, NEW q \in QuerySet, IsEq(q), NEW t
  PROVE  Matches(q, t) <=> q.key \in DOMAIN t /\ t[q.key] = q.value
<1>0. q.type = "RelOp" /\ q.op = "EQ"
  BY DEF IsEq
<1>1. Matches(q, t) <=> q.key \in DOMAIN t /\ MatchesTag(q, t[q.key])
  BY <1>0, MatchesIs DEF KeyQueryTypes
<1>2. MatchesTag(q, t[q.key]) = DoQuery(t[q.key], q.value, q.op)
  <2>1. q.type # "HasKey" /\ q.type # "Regex" /\ q.type # "In"
    BY <1>0
  <2>2. QED
    BY <1>0, <2>1, Zenon DEF MatchesTag
<1>3. DoQuery(t[q.key], q.value, q.op) = (t[q.key] = q.value)
  <2>1. q.op # "LE" /\ q.op # "LT" /\ q.op # "GE" /\ q.op # "GT"
    BY <1>0
  <2>2. QED
    BY <1>0, <2>1, Zenon DEF DoQuery
<1>4. QED
  BY <1>1, <1>2, <1>3, Zenon

LEMMA RelopIn ==
  ASSUME NEW k \in STRING, NEW v \in STRING, NEW n \in Nat
  PROVE  RelopQuery(k, v, "EQ") \in QueriesUpTo[n] /\ IsEq(RelopQuery(k, v, "EQ"))
<1>1. RelopQuery(k, v, "EQ") \in SimpleQueries
  BY DEF RelopQuery, SimpleQueries, RelOps
<1>2. QED
  BY <1>1, SimpleIn DEF RelopQuery, IsEq

\* An :in is the :eq of one of its values.
LEMMA InSplit ==
  ASSUME MaxDepth \in Nat, NEW n \in 0..MaxDepth, NEW q \in SimpleQueries, q.type = "In"
  PROVE  AnyOf([i \in DOMAIN q.values |-> RelopQuery(q.key, q.values[i], "EQ")], q, n)
<1> DEFINE l == [i \in DOMAIN q.values |-> RelopQuery(q.key, q.values[i], "EQ")]
<1>1. q.key \in STRING /\ q.values \in Seq(STRING)
  BY DEF SimpleQueries
<1>2. DOMAIN q.values = 1..Len(q.values) /\ Len(q.values) \in Nat /\ \A i \in DOMAIN q.values : q.values[i] \in STRING
  BY <1>1
<1>3. n \in Nat /\ QueriesUpTo[n] \subseteq QuerySet /\ q \in QuerySet
  BY SimpleIn, LevelsMonotone DEF QuerySet
<1>4. \A i \in DOMAIN q.values : l[i] = RelopQuery(q.key, q.values[i], "EQ")
                                /\ l[i] \in QueriesUpTo[n] /\ IsEq(l[i])
  BY <1>1, <1>2, <1>3, RelopIn
<1>5. DOMAIN l = DOMAIN q.values
  OBVIOUS
<1> HIDE DEF l
<1>6. l \in Seq(QueriesUpTo[n])
  <2> DEFINE S == QueriesUpTo[n]
  <2>1. \A i \in DOMAIN q.values : l[i] \in S
    BY <1>4
  <2>2. l = [i \in 1..Len(q.values) |-> l[i]]
    BY <1>2 DEF l
  <2> HIDE DEF S
  <2>3. l \in Seq(S)
    BY <1>2, <2>1, <2>2
  <2>4. QED
    BY <2>3 DEF S
<1>7. ASSUME NEW t
      PROVE  Matches(q, t) <=> \E d \in ToSet(l) : Matches(d, t)
  <2>1. Matches(q, t) <=> q.key \in DOMAIN t /\ Contains(q.values, t[q.key])
    <3>1. Matches(q, t) <=> q.key \in DOMAIN t /\ MatchesTag(q, t[q.key])
      BY <1>3, MatchesIs DEF KeyQueryTypes
    <3>2. MatchesTag(q, t[q.key]) = Contains(q.values, t[q.key])
      <4>1. q.type # "HasKey" /\ q.type # "Regex" /\ q.type # "RelOp"
        OBVIOUS
      <4>2. QED
        BY <4>1, Zenon DEF MatchesTag, MatchesValue
    <3>3. QED
      BY <3>1, <3>2, Zenon
  <2>2. \A i \in DOMAIN q.values : Matches(l[i], t) <=> q.key \in DOMAIN t /\ t[q.key] = q.values[i]
    <3> SUFFICES ASSUME NEW i \in DOMAIN q.values
                 PROVE  Matches(l[i], t) <=> q.key \in DOMAIN t /\ t[q.key] = q.values[i]
      OBVIOUS
    <3>1. l[i] \in QuerySet /\ IsEq(l[i]) /\ l[i].key = q.key /\ l[i].value = q.values[i]
      <4>1. l[i] \in QueriesUpTo[n] /\ IsEq(l[i])
        BY <1>4
      <4>2. l[i] = RelopQuery(q.key, q.values[i], "EQ")
        BY <1>4
      <4>3. l[i].key = q.key /\ l[i].value = q.values[i]
        BY <4>2 DEF RelopQuery
      <4>4. QED
        BY <1>3, <4>1, <4>3
    <3>2. QED
      BY <3>1, EqMatches
  <2>3. Contains(q.values, t[q.key]) <=> \E i \in DOMAIN q.values : q.values[i] = t[q.key]
    BY <1>2 DEF Contains
  <2>4. (\E d \in ToSet(l) : Matches(d, t)) <=> \E i \in DOMAIN q.values : Matches(l[i], t)
    BY <1>5 DEF ToSet
  <2>5. QED
    BY <2>1, <2>2, <2>3, <2>4
<1>8. QED
  BY <1>6, <1>7 DEF AnyOf, l

LEMMA SplitMeans ==
  ASSUME MaxDepth \in Nat
  PROVE  \A n \in Nat : n <= MaxDepth => \A q \in QueriesUpTo[n] : AnyOf(Split(q), q, n)
<1> DEFINE T == {n \in Nat : n <= MaxDepth => \A q \in QueriesUpTo[n] : AnyOf(Split(q), q, n)}
<1>1. PICK f : IsSplit(f, QuerySet) /\ \A q : Split(q) = f[q]
  BY SplitDef
<1>2. \A q \in QuerySet : Split(q) = SplitStep(f, q)
  BY <1>1 DEF IsSplit
<1>3. ASSUME NEW n \in 0..MaxDepth, NEW q \in QueriesUpTo[n], q.type # "And", q.type \in SimpleTypes => q \in SimpleQueries
      PROVE  AnyOf(Split(q), q, n)
  <2>1. n \in Nat /\ q \in QuerySet
    BY LevelsMonotone DEF QuerySet
  <2>2. CASE q.type = "In" /\ Len(q.values) < SplitLimit
    <3>1. Split(q) = [i \in DOMAIN q.values |-> RelopQuery(q.key, q.values[i], "EQ")]
      <4>1. SplitStep(f, q) = [i \in DOMAIN q.values |-> RelopQuery(q.key, q.values[i], "EQ")]
        BY <2>2, SplitStepIs, Zenon
      <4>2. QED
        BY <1>2, <2>1, <4>1, Zenon
    <3>2. q \in SimpleQueries
      BY <1>3, <2>2 DEF SimpleTypes
    <3>3. QED
      BY <2>2, <3>1, <3>2, InSplit
  <2>3. CASE ~(q.type = "In" /\ Len(q.values) < SplitLimit)
    <3>1. Split(q) = <<q>>
      BY <1>2, <1>3, <2>1, <2>3, SplitStepIs
    <3>2. QED
      BY <2>1, <3>1, AnyAlone
  <2>4. QED
    BY <2>2, <2>3
<1>4. 0 \in T
  <2>1. \A q \in QueriesUpTo[0] : q.type # "And" /\ q \in SimpleQueries
    BY Level, SimpleType DEF SimpleTypes
  <2>2. QED
    BY <1>3, <2>1
<1>5. ASSUME NEW n \in Nat, n \in T
      PROVE  n + 1 \in T
  <2> SUFFICES ASSUME n + 1 <= MaxDepth, NEW q \in QueriesUpTo[n + 1]
               PROVE  AnyOf(Split(q), q, n + 1)
    OBVIOUS
  <2>1. q \in QuerySet /\ n + 1 \in 0..MaxDepth
    BY LevelsMonotone DEF QuerySet
  <2>2. CASE q.type = "And"
    <3>1. AnyOf(Split(q.q1), q.q1, n) /\ AnyOf(Split(q.q2), q.q2, n)
      BY <1>5, <2>2, Operands
    <3>2. Split(q) = CrossProduct(Split(q.q1), Split(q.q2))
      BY <1>1, <1>2, <2>1, <2>2, SplitStepIs
    <3>3. \A t : Matches(q, t) <=> Matches(q.q1, t) /\ Matches(q.q2, t)
      BY <2>1, <2>2, MatchesIs
    <3>4. QED
      BY <3>1, <3>2, <3>3, AnyOfBoth
  <2>3. CASE q.type # "And"
    BY <1>3, <2>1, <2>3, Operands
  <2>4. QED
    BY <2>2, <2>3
<1> HIDE DEF T
<1>6. \A n \in Nat : n \in T
  BY <1>4, <1>5, Induction
<1>7. QED
  BY <1>6 DEF T

-----------------------------------------------------------------------------
(* Conjuncts *)

\* How many conjuncts a query of the level n may have.
Power[n \in Nat] == IF n = 0 THEN 1 ELSE 2 * Power[n - 1]

Powers(g, n) == g = [k \in 0..n |-> IF k = 0 THEN 1 ELSE 2 * g[k - 1]]

LEMMA PowersExist == \A n \in Nat : \E g : Powers(g, n)
<1> DEFINE T == {n \in Nat : \E g : Powers(g, n)}
<1>1. 0 \in T
  <2> DEFINE g == [k \in 0..0 |-> 1]
  <2>1. Powers(g, 0)
    BY DEF Powers
  <2>2. QED
    BY <2>1
<1>2. ASSUME NEW n \in Nat, n \in T
      PROVE  n + 1 \in T
  <2>1. PICK g : Powers(g, n)
    BY <1>2
  <2> DEFINE h == [k \in 0..(n + 1) |-> IF k = 0 THEN 1 ELSE 2 * g[k - 1]]
  <2>2. \A k \in 0..n : h[k] = g[k]
    BY <2>1 DEF Powers
  <2>3. \A k \in 0..(n + 1) : k # 0 => k - 1 \in 0..n
    OBVIOUS
  <2>4. \A k \in 0..(n + 1) : k # 0 => h[k - 1] = g[k - 1]
    BY <2>2, <2>3
  <2>5. Powers(h, n + 1)
    BY <2>4 DEF Powers
  <2>6. QED
    BY <2>5
<1> HIDE DEF T
<1>3. \A n \in Nat : n \in T
  BY <1>1, <1>2, Induction
<1>4. QED
  BY <1>3 DEF T

LEMMA PowersUnique ==
  ASSUME NEW n \in Nat, NEW m \in Nat, NEW g, NEW h, Powers(g, n), Powers(h, m)
  PROVE  \A k \in Nat : k <= n /\ k <= m => g[k] = h[k]
<1> DEFINE T == {k \in Nat : k <= n /\ k <= m => g[k] = h[k]}
<1>1. 0 \in T
  BY DEF Powers
<1>2. ASSUME NEW k \in Nat, k \in T
      PROVE  k + 1 \in T
  <2> SUFFICES ASSUME k + 1 <= n, k + 1 <= m
               PROVE  g[k + 1] = h[k + 1]
    OBVIOUS
  <2>1. g[k] = h[k]
    BY <1>2
  <2>2. k + 1 \in 0..n /\ k + 1 \in 0..m /\ k + 1 # 0 /\ (k + 1) - 1 = k
    OBVIOUS
  <2>3. g[k + 1] = 2 * g[k] /\ h[k + 1] = 2 * h[k]
    BY <2>2 DEF Powers
  <2>4. QED
    BY <2>1, <2>3
<1> HIDE DEF T
<1>3. \A k \in Nat : k \in T
  BY <1>1, <1>2, Induction
<1>4. QED
  BY <1>3 DEF T

IsPower(f) == f = [n \in Nat |-> IF n = 0 THEN 1 ELSE 2 * f[n - 1]]

LEMMA PowerDef == IsPower(Power)
<1> DEFINE G(n) == CHOOSE g : Powers(g, n)
           F == [n \in Nat |-> G(n)[n]]
<1>1. \A n \in Nat : Powers(G(n), n)
  BY PowersExist
<1> HIDE DEF G
<1>2. ASSUME NEW n \in Nat
      PROVE  F[n] = IF n = 0 THEN 1 ELSE 2 * F[n - 1]
  <2>1. G(n)[n] = IF n = 0 THEN 1 ELSE 2 * G(n)[n - 1]
    BY <1>1 DEF Powers
  <2>2. CASE n = 0
    BY <2>1, <2>2
  <2>3. CASE n # 0
    <3>1. n - 1 \in Nat /\ n - 1 <= n /\ n - 1 <= n - 1
      BY <2>3
    <3>2. G(n)[n - 1] = G(n - 1)[n - 1]
      BY <1>1, <3>1, PowersUnique
    <3>3. QED
      BY <2>1, <2>3, <3>1, <3>2
  <2>4. QED
    BY <2>2, <2>3
<1>3. F = [n \in Nat |-> IF n = 0 THEN 1 ELSE 2 * F[n - 1]]
  BY <1>2
<1>4. \E f : IsPower(f)
  <2> HIDE DEF F
  <2>1. IsPower(F)
    BY <1>3 DEF IsPower
  <2>2. QED
    BY <2>1
<1>5. Power = CHOOSE f : IsPower(f)
  BY DEF Power, IsPower
<1>6. QED
  BY <1>4, <1>5

LEMMA PowerGrows ==
  \A n \in Nat : Power[n] \in Nat /\ Power[n] >= n + 1 /\ Power[n + 1] = Power[n] + Power[n]
<1> DEFINE T == {n \in Nat : Power[n] \in Nat /\ Power[n] >= n + 1}
<1>1. Power[0] = 1
  BY PowerDef DEF IsPower
<1>2. \A n \in Nat : Power[n + 1] = 2 * Power[n]
  <2>1. \A n \in Nat : Power[n] = IF n = 0 THEN 1 ELSE 2 * Power[n - 1]
    BY PowerDef DEF IsPower
  <2>2. \A n \in Nat : n + 1 \in Nat /\ n + 1 # 0 /\ (n + 1) - 1 = n
    OBVIOUS
  <2>3. QED
    BY <2>1, <2>2
<1>3. 0 \in T
  BY <1>1
<1>4. \A n \in Nat : n \in T => n + 1 \in T
  BY <1>2
<1>5. \A n \in Nat : n \in T
  <2> HIDE DEF T
  <2>1. QED
    BY <1>3, <1>4, Induction
<1>6. \A n \in Nat : Power[n] \in Nat /\ Power[n] >= n + 1
  BY <1>5
<1>7. QED
  BY <1>2, <1>6

\* All of the list match if q does, and only then.
AllOf(list, q, n) ==
  /\ list \in Seq(QueriesUpTo[n]) /\ Len(list) <= Power[n]
  /\ \A t : Matches(q, t) <=> \A d \in ToSet(list) : Matches(d, t)

LEMMA ConjunctsMean ==
  ASSUME MaxDepth \in Nat
  PROVE  \A n \in Nat : n <= MaxDepth => \A q \in QueriesUpTo[n] : AllOf(ConjunctionList(q), q, n)
<1> DEFINE T == {n \in Nat : n <= MaxDepth => \A q \in QueriesUpTo[n] : AllOf(ConjunctionList(q), q, n)}
<1>1. ASSUME NEW n \in 0..MaxDepth, NEW q \in QueriesUpTo[n], q.type # "And"
      PROVE  AllOf(ConjunctionList(q), q, n)
  <2>1. n \in Nat /\ q \in QuerySet
    BY LevelsMonotone DEF QuerySet
  <2>2. ConjunctionList(q) = <<q>>
    BY <1>1, <2>1, ConjunctionListIs
  <2> DEFINE S == QueriesUpTo[n]
  <2>3. q \in S
    OBVIOUS
  <2> HIDE DEF S
  <2>4. <<q>> \in Seq(S) /\ ToSet(<<q>>) = {q} /\ Len(<<q>>) = 1
    BY <2>3, OneIs
  <2>5. 1 <= Power[n]
    BY <2>1, PowerGrows
  <2>6. QED
    BY <2>2, <2>4, <2>5 DEF AllOf, S
<1>2. 0 \in T
  <2>1. \A q \in QueriesUpTo[0] : q.type # "And"
    BY Level, SimpleType DEF SimpleTypes
  <2>2. QED
    BY <1>1, <2>1
<1>3. ASSUME NEW n \in Nat, n \in T
      PROVE  n + 1 \in T
  <2> SUFFICES ASSUME n + 1 <= MaxDepth, NEW q \in QueriesUpTo[n + 1]
               PROVE  AllOf(ConjunctionList(q), q, n + 1)
    OBVIOUS
  <2>1. q \in QuerySet /\ n + 1 \in 0..MaxDepth
    BY LevelsMonotone DEF QuerySet
  <2>2. CASE q.type = "And"
    <3> DEFINE l == ConjunctionList(q.q1)
               m == ConjunctionList(q.q2)
    <3>1. AllOf(l, q.q1, n) /\ AllOf(m, q.q2, n)
      BY <1>3, <2>2, Operands
    <3>2. ConjunctionList(q) = l \o m
      BY <2>1, <2>2, ConjunctionListIs
    <3> HIDE DEF l, m
    <3>3. l \in Seq(QueriesUpTo[n + 1]) /\ m \in Seq(QueriesUpTo[n + 1])
      <4>1. l \in Seq(QueriesUpTo[n]) /\ m \in Seq(QueriesUpTo[n]) /\ QueriesUpTo[n] \subseteq QueriesUpTo[n + 1]
        BY <3>1, LevelsGrow DEF AllOf
      <4> DEFINE S == QueriesUpTo[n]
                 R == QueriesUpTo[n + 1]
      <4> HIDE DEF S, R
      <4>2. l \in Seq(S) /\ m \in Seq(S) /\ S \subseteq R
        BY <4>1 DEF S, R
      <4>3. l \in Seq(R) /\ m \in Seq(R)
        BY <4>2
      <4>4. QED
        BY <4>3 DEF R
    <3>4. l \o m \in Seq(QueriesUpTo[n + 1]) /\ ToSet(l \o m) = ToSet(l) \cup ToSet(m)
      BY <3>3, ConcatIs
    <3>5. Len(l \o m) <= Power[n + 1]
      <4>1. Len(l \o m) = Len(l) + Len(m) /\ Len(l) \in Nat /\ Len(m) \in Nat
        BY <3>3
      <4>2. Len(l) <= Power[n] /\ Len(m) <= Power[n]
        BY <3>1 DEF AllOf
      <4>3. Power[n] \in Nat /\ Power[n + 1] = Power[n] + Power[n]
        BY PowerGrows
      <4> DEFINE p == Power[n]
                 r == Power[n + 1]
                 a == Len(l)
                 b == Len(m)
      <4>4. a \in Nat /\ b \in Nat /\ p \in Nat /\ a <= p /\ b <= p /\ r = p + p
        BY <4>1, <4>2, <4>3
      <4> HIDE DEF p, r, a, b
      <4>5. a + b <= r
        BY <4>4
      <4>6. QED
        BY <4>1, <4>5 DEF a, b, r
    <3>6. \A t : Matches(q, t) <=> \A d \in ToSet(l) \cup ToSet(m) : Matches(d, t)
      <4> SUFFICES ASSUME NEW t
                   PROVE  Matches(q, t) <=> \A d \in ToSet(l) \cup ToSet(m) : Matches(d, t)
        OBVIOUS
      <4>1. (Matches(q.q1, t) <=> \A d \in ToSet(l) : Matches(d, t)) /\ (Matches(q.q2, t) <=> \A d \in ToSet(m) : Matches(d, t))
        BY <3>1 DEF AllOf
      <4>2. Matches(q, t) <=> Matches(q.q1, t) /\ Matches(q.q2, t)
        BY <2>1, <2>2, MatchesIs
      <4>3. QED
        BY <4>1, <4>2, Zenon
    <3>7. QED
      BY <3>2, <3>4, <3>5, <3>6 DEF AllOf
  <2>3. CASE q.type # "And"
    BY <1>1, <2>1, <2>3
  <2>4. QED
    BY <2>2, <2>3
<1> HIDE DEF T
<1>4. \A n \in Nat : n \in T
  BY <1>2, <1>3, Induction
<1>5. QED
  BY <1>4 DEF T

-----------------------------------------------------------------------------
(* Folds over the elements of a sequence, the last of them outermost *)

LEMMA MaxIn ==
  ASSUME NEW s, s \subseteq Int, IsFiniteSet(s), s # {}
  PROVE  Max(s) \in s /\ \A y \in s : Max(s) >= y
<1> DEFINE f == [x \in s |-> x]
<1>1. \A x \in s : f[x] \in Int
  OBVIOUS
<1>2. \E x \in s : \A y \in s : f[x] >= f[y]
  <2> HIDE DEF f
  <2>1. QED
    BY <1>1, Extremes
<1>3. \E x \in s : \A y \in s : x >= y
  BY <1>2
<1>4. QED
  BY <1>3 DEF Max

LEMMA LastOfPrefix ==
  ASSUME NEW k \in Nat
  PROVE  Max(1..(k + 1)) = k + 1 /\ (1..(k + 1)) \ {k + 1} = 1..k /\ 1..(k + 1) # {}
<1>1. 1..(k + 1) # {} /\ (1..(k + 1)) \ {k + 1} = 1..k /\ k + 1 \in 1..(k + 1)
  OBVIOUS
<1>2. IsFiniteSet(1..(k + 1))
  BY FS_Interval
<1>3. Max(1..(k + 1)) \in 1..(k + 1) /\ Max(1..(k + 1)) >= k + 1
  BY <1>1, <1>2, MaxIn
<1>4. QED
  BY <1>1, <1>3

FoldStep(f, s, l) ==
  IF s = {} THEN TrueQuery
  ELSE IF IsEq(l[Max(s)]) THEN f[s \ {Max(s)}] ELSE AndQ(f[s \ {Max(s)}], l[Max(s)])

Folded(f, l, D) == f = [s \in D |-> FoldStep(f, s, l)]

LEMMA FoldsExist ==
  ASSUME NEW S, IsFiniteSet(S), S \subseteq Int, NEW l
  PROVE  \E g : Folded(g, l, SUBSET S)
<1> DEFINE Upto(n) == {s \in SUBSET S : Cardinality(s) <= n}
           T == {n \in Nat : \E g : Folded(g, l, Upto(n))}
<1>1. \A s \in SUBSET S : IsFiniteSet(s) /\ Cardinality(s) \in Nat /\ Cardinality(s) <= Cardinality(S)
  BY FS_Subset, FS_CardinalityType
<1>2. 0 \in T
  <2> DEFINE g == [s \in Upto(0) |-> TrueQuery]
  <2>1. \A s \in Upto(0) : s = {}
    BY <1>1, FS_EmptySet
  <2>2. Folded(g, l, Upto(0))
    BY <2>1 DEF Folded, FoldStep
  <2>3. QED
    BY <2>2
<1>3. ASSUME NEW n \in Nat, n \in T
      PROVE  n + 1 \in T
  <2>1. PICK g : Folded(g, l, Upto(n))
    BY <1>3
  <2> DEFINE h == [s \in Upto(n + 1) |-> FoldStep(g, s, l)]
  <2>2. \A s \in Upto(n) : s \in Upto(n + 1)
    BY <1>1
  <2>3. \A s \in Upto(n) : h[s] = g[s]
    BY <2>1, <2>2 DEF Folded
  <2>4. \A s \in Upto(n + 1) : s # {} => s \ {Max(s)} \in Upto(n)
    <3> SUFFICES ASSUME NEW s \in Upto(n + 1), s # {}
                 PROVE  s \ {Max(s)} \in Upto(n)
      OBVIOUS
    <3>1. IsFiniteSet(s) /\ s \subseteq Int /\ s \in SUBSET S /\ Cardinality(s) <= n + 1
      BY <1>1
    <3>2. Max(s) \in s
      BY <3>1, MaxIn
    <3> DEFINE m == Max(s)
    <3> HIDE DEF m
    <3>3. Cardinality(s) = Cardinality(s \ {m}) + 1 /\ Cardinality(s \ {m}) \in Nat /\ Cardinality(s) \in Nat
      BY <3>1, <3>2, Smaller DEF m
    <3>4. Cardinality(s \ {m}) <= n
      BY <3>1, <3>3
    <3>5. s \ {m} \in Upto(n)
      BY <3>1, <3>4
    <3>6. QED
      BY <3>5 DEF m
  <2>5. \A s \in Upto(n + 1) : s # {} => h[s \ {Max(s)}] = g[s \ {Max(s)}]
    BY <2>3, <2>4
  <2>6. \A s \in Upto(n + 1) : FoldStep(h, s, l) = FoldStep(g, s, l)
    <3> HIDE DEF h, Upto
    <3>1. QED
      BY <2>5 DEF FoldStep
  <2>7. Folded(h, l, Upto(n + 1))
    BY <2>6 DEF Folded
  <2>8. \E f : Folded(f, l, Upto(n + 1))
    <3> HIDE DEF h, Upto
    <3>1. QED
      BY <2>7
  <2> HIDE DEF Upto
  <2>9. QED
    BY <2>8
<1>4. Cardinality(S) \in T
  <2> HIDE DEF T
  <2>1. QED
    BY <1>1, <1>2, <1>3, Induction
<1>5. Upto(Cardinality(S)) = SUBSET S
  BY <1>1
<1>6. QED
  BY <1>4, <1>5

LEMMA RemainderIs ==
  ASSUME NEW q, NEW n \in Nat, ConjunctionList(q) \in Seq(QueriesUpTo[n])
  PROVE  \E f : /\ Remainder(q) = f[Len(ConjunctionList(q))]
                /\ f[0] = TrueQuery
                /\ \A k \in Nat : k + 1 <= Len(ConjunctionList(q)) =>
                     f[k + 1] = IF IsEq(ConjunctionList(q)[k + 1]) THEN f[k] ELSE AndQ(f[k], ConjunctionList(q)[k + 1])
<1> DEFINE l == ConjunctionList(q)
<1>1. Remainder(q) = (CHOOSE f : Folded(f, l, SUBSET DOMAIN l))[DOMAIN l]
  BY DEF Remainder, FoldLeft, MapThenFoldSet, Folded, FoldStep
<1> HIDE DEF l
<1>2. Len(l) \in Nat /\ DOMAIN l = 1..Len(l)
  BY DEF l
<1>3. IsFiniteSet(1..Len(l)) /\ 1..Len(l) \subseteq Int
  BY <1>2, FS_Interval
<1>4. PICK g : Folded(g, l, SUBSET (1..Len(l))) /\ Remainder(q) = g[1..Len(l)]
  BY <1>1, <1>2, <1>3, FoldsExist
<1> DEFINE f == [k \in 0..Len(l) |-> g[1..k]]
<1>5. \A s \in SUBSET (1..Len(l)) : g[s] = FoldStep(g, s, l)
  BY <1>4 DEF Folded
<1>6. f[Len(l)] = g[1..Len(l)]
  BY <1>2
<1>7. f[0] = TrueQuery
  <2>1. 1..0 = {} /\ {} \in SUBSET (1..Len(l))
    OBVIOUS
  <2>2. g[{}] = TrueQuery
    BY <1>5, <2>1 DEF FoldStep
  <2>3. QED
    BY <1>2, <2>1, <2>2
<1>8. ASSUME NEW k \in Nat, k + 1 <= Len(l)
      PROVE  f[k + 1] = IF IsEq(l[k + 1]) THEN f[k] ELSE AndQ(f[k], l[k + 1])
  <2>1. 1..(k + 1) \in SUBSET (1..Len(l)) /\ k \in 0..Len(l) /\ k + 1 \in 0..Len(l)
    BY <1>2, <1>8
  <2>2. g[1..(k + 1)] = IF IsEq(l[k + 1]) THEN g[1..k] ELSE AndQ(g[1..k], l[k + 1])
    BY <1>5, <2>1, LastOfPrefix DEF FoldStep
  <2>3. QED
    BY <2>1, <2>2
<1> HIDE DEF f
<1>9. QED
  BY <1>4, <1>6, <1>7, <1>8 DEF l

-----------------------------------------------------------------------------
(* An annotated query *)

\* The fold over the first k conjuncts matches if they do, the filters aside.
RestOf(r, l, k, n) ==
  /\ r \in QueriesUpTo[n + k]
  /\ \A t : Matches(r, t) <=> \A i \in 1..k : ~IsEq(l[i]) => Matches(l[i], t)

LEMMA RestGrows ==
  ASSUME MaxDepth \in Nat, NEW n \in Nat, NEW k \in Nat, NEW l, n + k + 1 <= MaxDepth,
         l[k + 1] \in QueriesUpTo[n], NEW r, RestOf(r, l, k, n)
  PROVE  RestOf(IF IsEq(l[k + 1]) THEN r ELSE AndQ(r, l[k + 1]), l, k + 1, n)
<1>1. n + k \in Nat /\ n <= n + k /\ (n + k) + 1 <= MaxDepth /\ n + (k + 1) = (n + k) + 1
  OBVIOUS
<1>2. l[k + 1] \in QueriesUpTo[n + k] /\ QueriesUpTo[n + k] \subseteq QueriesUpTo[n + (k + 1)]
  BY <1>1, LevelsMonotone, LevelsGrow
<1>3. \A i : i \in 1..(k + 1) <=> i \in 1..k \/ i = k + 1
  OBVIOUS
<1>4. CASE IsEq(l[k + 1])
  BY <1>2, <1>3, <1>4 DEF RestOf
<1>5. CASE ~IsEq(l[k + 1])
  <2> DEFINE a == AndQ(r, l[k + 1])
  <2>1. a \in QueriesUpTo[n + (k + 1)] /\ \A t : Matches(a, t) <=> Matches(r, t) /\ Matches(l[k + 1], t)
    BY <1>1, <1>2, AndQMeans DEF RestOf
  <2> HIDE DEF a
  <2>2. RestOf(a, l, k + 1, n)
    BY <1>3, <1>5, <2>1 DEF RestOf
  <2>3. QED
    BY <1>5, <2>2 DEF a
<1>6. QED
  BY <1>4, <1>5

LEMMA RemainderMeans ==
  ASSUME MaxDepth \in Nat, NEW n \in Nat, NEW q, ConjunctionList(q) \in Seq(QueriesUpTo[n]),
         n + Len(ConjunctionList(q)) <= MaxDepth
  PROVE  /\ Remainder(q) \in QuerySet
         /\ \A t : Matches(Remainder(q), t) <=>
                     \A d \in ToSet(ConjunctionList(q)) : ~IsEq(d) => Matches(d, t)
<1> DEFINE l == ConjunctionList(q)
<1>1. PICK f : /\ Remainder(q) = f[Len(l)]
               /\ f[0] = TrueQuery
               /\ \A k \in Nat : k + 1 <= Len(l) =>
                    f[k + 1] = IF IsEq(l[k + 1]) THEN f[k] ELSE AndQ(f[k], l[k + 1])
  BY RemainderIs
<1>2. l \in Seq(QueriesUpTo[n]) /\ Len(l) \in Nat /\ n + Len(l) <= MaxDepth /\ ToSet(l) = {l[i] : i \in 1..Len(l)}
  BY DEF ToSet
<1>3. \A i \in 1..Len(l) : l[i] \in QueriesUpTo[n]
  BY <1>2
<1> HIDE DEF l
<1> DEFINE T == {k \in Nat : k <= Len(l) => RestOf(f[k], l, k, n)}
<1>4. 0 \in T
  <2>1. TrueQuery \in QueriesUpTo[n + 0] /\ TrueQuery \in QuerySet /\ TrueQuery.type = "True"
    BY TruthIn, SimpleIn DEF QuerySet
  <2>2. \A t : Matches(TrueQuery, t)
    BY <2>1, MatchesIs
  <2>3. QED
    BY <1>1, <2>1, <2>2 DEF RestOf
<1>5. ASSUME NEW k \in Nat, k \in T
      PROVE  k + 1 \in T
  <2> SUFFICES ASSUME k + 1 <= Len(l)
               PROVE  RestOf(f[k + 1], l, k + 1, n)
    OBVIOUS
  <2>1. RestOf(f[k], l, k, n) /\ l[k + 1] \in QueriesUpTo[n] /\ n + k + 1 <= MaxDepth
    BY <1>2, <1>3, <1>5
  <2>2. RestOf(IF IsEq(l[k + 1]) THEN f[k] ELSE AndQ(f[k], l[k + 1]), l, k + 1, n)
    BY <2>1, RestGrows
  <2>3. f[k + 1] = IF IsEq(l[k + 1]) THEN f[k] ELSE AndQ(f[k], l[k + 1])
    BY <1>1
  <2>4. QED
    BY <2>2, <2>3
<1> HIDE DEF T
<1>6. Len(l) \in T
  BY <1>2, <1>4, <1>5, Induction
<1>7. RestOf(Remainder(q), l, Len(l), n)
  BY <1>1, <1>2, <1>6 DEF T
<1>8. n + Len(l) \in Nat /\ QueriesUpTo[n + Len(l)] \subseteq QuerySet
  BY <1>2, LevelsMonotone DEF QuerySet
<1>9. QED
  BY <1>2, <1>7, <1>8 DEF RestOf, l

\* What is known of an entry of q: its filters, and what is left of q.
Annotates(a, q, n) ==
  /\ IsFiniteSet(a.filters) /\ Cardinality(a.filters) <= Power[n]
  /\ \A f \in a.filters : f \in QuerySet /\ IsEq(f)
  /\ \A t : Matches(q, t) <=> Matches(a.rest, t) /\ \A f \in a.filters : Matches(f, t)

LEMMA AnnotateMeans ==
  ASSUME MaxDepth \in Nat, NEW n \in Nat, n + Power[n] <= MaxDepth, NEW q \in QueriesUpTo[n], NEW v
  PROVE  Annotates(Annotate(q, v), q, n)
<1> DEFINE l == ConjunctionList(q)
           a == Annotate(q, v)
<1>1. Power[n] \in Nat /\ n <= MaxDepth
  BY PowerGrows
<1>2. AllOf(l, q, n)
  BY <1>1, ConjunctsMean
<1>3. l \in Seq(QueriesUpTo[n]) /\ Len(l) \in Nat /\ Len(l) <= Power[n]
  BY <1>2 DEF AllOf
<1>4. \A t : Matches(Remainder(q), t) <=> \A d \in ToSet(l) : ~IsEq(d) => Matches(d, t)
  BY <1>1, <1>3, RemainderMeans
<1>5. a.filters = {c \in ToSet(l) : IsEq(c)} /\ a.rest = Remainder(q)
  BY DEF Annotate
<1> HIDE DEF a, l
<1>6. IsFiniteSet(ToSet(l)) /\ Cardinality(ToSet(l)) <= Power[n] /\ ToSet(l) \subseteq QuerySet
  <2>1. IsFiniteSet(ToSet(l)) /\ Cardinality(ToSet(l)) <= Len(l) /\ ToSet(l) \subseteq QueriesUpTo[n]
    BY <1>3, ElementsFinite
  <2>2. Cardinality(ToSet(l)) \in Nat
    BY <2>1, FS_CardinalityType
  <2>3. QueriesUpTo[n] \subseteq QuerySet
    BY <1>1, LevelsMonotone DEF QuerySet
  <2> DEFINE c == Cardinality(ToSet(l))
             k == Len(l)
             p == Power[n]
  <2>4. c \in Nat /\ k \in Nat /\ p \in Nat /\ c <= k /\ k <= p
    BY <1>1, <1>3, <2>1, <2>2
  <2> HIDE DEF c, k, p
  <2>5. c <= p
    BY <2>4
  <2>6. QED
    BY <2>1, <2>3, <2>5 DEF c, p
<1>7. IsFiniteSet(a.filters) /\ Cardinality(a.filters) <= Power[n]
  <2>1. a.filters \subseteq ToSet(l)
    BY <1>5
  <2>2. IsFiniteSet(a.filters) /\ Cardinality(a.filters) <= Cardinality(ToSet(l))
    BY <1>6, <2>1, FS_Subset
  <2>3. Cardinality(a.filters) \in Nat /\ Cardinality(ToSet(l)) \in Nat
    BY <1>6, <2>2, FS_CardinalityType
  <2> DEFINE c == Cardinality(a.filters)
             k == Cardinality(ToSet(l))
             p == Power[n]
  <2>4. c \in Nat /\ k \in Nat /\ p \in Nat /\ c <= k /\ k <= p
    BY <1>1, <1>6, <2>2, <2>3
  <2> HIDE DEF c, k, p
  <2>5. c <= p
    BY <2>4
  <2>6. QED
    BY <2>2, <2>5 DEF c, p
<1>8. ASSUME NEW t
      PROVE  Matches(q, t) <=> Matches(a.rest, t) /\ \A f \in a.filters : Matches(f, t)
  <2>1. Matches(q, t) <=> \A d \in ToSet(l) : Matches(d, t)
    BY <1>2 DEF AllOf
  <2>2. Matches(a.rest, t) <=> \A d \in ToSet(l) : ~IsEq(d) => Matches(d, t)
    BY <1>4, <1>5
  <2>3. (\A f \in a.filters : Matches(f, t)) <=> \A d \in ToSet(l) : IsEq(d) => Matches(d, t)
    BY <1>5
  <2>4. QED
    BY <2>1, <2>2, <2>3, Zenon
<1>9. QED
  BY <1>5, <1>6, <1>7, <1>8 DEF Annotates, a

-----------------------------------------------------------------------------
(* The entries of an index *)

EntriesOf(q) == {Annotate(c, q) : c \in UNION {ToSet(Split(d)) : d \in ToSet(DnfList(q))}}
Entries(qs) == UNION {EntriesOf(q) : q \in qs}

Accepts(a, t) == Matches(a.rest, t) /\ \A f \in a.filters : Matches(f, t)

\* The values of the entries that accept.
Accepted(A, t) == {a.value : a \in {b \in A : Accepts(b, t)}}

LEMMA BuildIs ==
  ASSUME NEW qs
  PROVE  Build(qs) = CreateImpl(Entries(qs))
BY DEF Build, Entries, EntriesOf

IsEntry(a, n) ==
  /\ a = [filters |-> a.filters, rest |-> a.rest, value |-> a.value]
  /\ IsFiniteSet(a.filters) /\ Cardinality(a.filters) <= Power[n]
  /\ \A f \in a.filters : f \in QuerySet /\ IsEq(f)

LEMMA EntriesOfOne ==
  ASSUME MaxDepth \in Nat, NEW n \in Nat, n + Power[n] <= MaxDepth, NEW q \in QueriesUpTo[n]
  PROVE  /\ \A a \in EntriesOf(q) : IsEntry(a, n) /\ a.value = q
         /\ \A t : Matches(q, t) <=> \E a \in EntriesOf(q) : Accepts(a, t)
<1>1. Power[n] \in Nat /\ n <= MaxDepth
  BY PowerGrows
<1>2. AnyOf(DnfList(q), q, n)
  BY <1>1, DnfMeans
<1> DEFINE D == ToSet(DnfList(q))
           C == UNION {ToSet(Split(d)) : d \in D}
<1>3. \A d \in D : d \in QueriesUpTo[n]
  <2>1. DnfList(q) \in Seq(QueriesUpTo[n])
    BY <1>2 DEF AnyOf
  <2>2. QED
    BY <2>1, ElementsFinite
<1>4. \A d \in D : AnyOf(Split(d), d, n)
  BY <1>1, <1>3, SplitMeans
<1>5. \A c \in C : c \in QueriesUpTo[n]
  <2> SUFFICES ASSUME NEW c \in C
               PROVE  c \in QueriesUpTo[n]
    OBVIOUS
  <2>1. PICK d \in D : c \in ToSet(Split(d))
    OBVIOUS
  <2>2. Split(d) \in Seq(QueriesUpTo[n])
    BY <1>4 DEF AnyOf
  <2>3. QED
    BY <2>1, <2>2, ElementsFinite
<1>6. \A t : Matches(q, t) <=> \E c \in C : Matches(c, t)
  <2> SUFFICES ASSUME NEW t
               PROVE  Matches(q, t) <=> \E c \in C : Matches(c, t)
    OBVIOUS
  <2>1. Matches(q, t) <=> \E d \in D : Matches(d, t)
    BY <1>2 DEF AnyOf
  <2>2. \A d \in D : Matches(d, t) <=> \E c \in ToSet(Split(d)) : Matches(c, t)
    BY <1>4 DEF AnyOf
  <2> HIDE DEF D
  <2>3. (\E c \in C : Matches(c, t)) <=> \E d \in D : \E c \in ToSet(Split(d)) : Matches(c, t)
    OBVIOUS
  <2>4. QED
    BY <2>1, <2>2, <2>3
<1>7. \A c \in C : Annotates(Annotate(c, q), c, n)
  BY <1>5, AnnotateMeans
<1>8. EntriesOf(q) = {Annotate(c, q) : c \in C}
  BY DEF EntriesOf
<1> HIDE DEF C
<1>9. ASSUME NEW a \in EntriesOf(q)
      PROVE  IsEntry(a, n) /\ a.value = q
  <2>1. PICK c \in C : a = Annotate(c, q)
    BY <1>8
  <2>2. Annotates(a, c, n)
    BY <1>7, <2>1
  <2>3. a = [filters |-> a.filters, rest |-> a.rest, value |-> a.value] /\ a.value = q
    BY <2>1 DEF Annotate
  <2>4. QED
    BY <2>2, <2>3 DEF IsEntry, Annotates
<1>10. ASSUME NEW t
       PROVE  Matches(q, t) <=> \E a \in EntriesOf(q) : Accepts(a, t)
  <2>1. \A c \in C : Matches(c, t) <=> Accepts(Annotate(c, q), t)
    BY <1>7 DEF Annotates, Accepts
  <2>2. (\E a \in EntriesOf(q) : Accepts(a, t)) <=> \E c \in C : Accepts(Annotate(c, q), t)
    BY <1>8, Zenon
  <2>3. QED
    BY <1>6, <2>1, <2>2
<1>11. QED
  BY <1>9, <1>10

LEMMA EntriesMean ==
  ASSUME MaxDepth \in Nat, NEW n \in Nat, n + Power[n] <= MaxDepth, NEW qs \in SUBSET QueriesUpTo[n]
  PROVE  /\ \A a \in Entries(qs) : IsEntry(a, n)
         /\ \A t : Accepted(Entries(qs), t) = {q \in qs : Matches(q, t)}
<1>1. \A q \in qs : /\ \A a \in EntriesOf(q) : IsEntry(a, n) /\ a.value = q
                    /\ \A t : Matches(q, t) <=> \E a \in EntriesOf(q) : Accepts(a, t)
  BY EntriesOfOne
<1>2. \A a : a \in Entries(qs) <=> \E q \in qs : a \in EntriesOf(q)
  BY DEF Entries
<1>3. \A a \in Entries(qs) : IsEntry(a, n)
  BY <1>1, <1>2
<1>4. ASSUME NEW t
      PROVE  Accepted(Entries(qs), t) = {q \in qs : Matches(q, t)}
  <2>1. ASSUME NEW a \in Entries(qs), Accepts(a, t)
        PROVE  a.value \in qs /\ Matches(a.value, t)
    BY <1>1, <1>2, <2>1
  <2>2. ASSUME NEW q \in qs, Matches(q, t)
        PROVE  \E a \in Entries(qs) : Accepts(a, t) /\ a.value = q
    BY <1>1, <1>2, <2>2
  <2>3. QED
    BY <2>1, <2>2 DEF Accepted
<1>5. QED
  BY <1>3, <1>4

-----------------------------------------------------------------------------
(* The tree of the entries A *)

With(a, F) == [filters |-> F, rest |-> a.rest, value |-> a.value]
Fewer(A) == UNION {{With(a, F) : F \in SUBSET a.filters} : a \in A}
Without(A, f) == {With(a, a.filters \ {f}) : a \in {b \in A : f \in b.filters}}

TreeStep(g, A) ==
  [indexes |-> [f \in UNION {a.filters : a \in A} |-> g[Without(A, f)]],
   entries |-> {a \in A : a.filters = {}}]

IsTree(g, D) == g = [A \in D |-> TreeStep(g, A)]

LEMMA TreeStepAgrees ==
  ASSUME NEW g, NEW h, NEW A, \A f \in UNION {a.filters : a \in A} : g[Without(A, f)] = h[Without(A, f)]
  PROVE  TreeStep(g, A) = TreeStep(h, A)
<1>1. [f \in UNION {a.filters : a \in A} |-> g[Without(A, f)]] = [f \in UNION {a.filters : a \in A} |-> h[Without(A, f)]]
  OBVIOUS
<1>2. QED
  BY <1>1, Zenon DEF TreeStep

LEMMA FewerWithout ==
  ASSUME NEW A, NEW B \in SUBSET Fewer(A), NEW f
  PROVE  Without(B, f) \in SUBSET Fewer(A)
<1> SUFFICES ASSUME NEW e \in Without(B, f)
             PROVE  e \in Fewer(A)
  OBVIOUS
<1>1. PICK b \in B : f \in b.filters /\ e = With(b, b.filters \ {f})
  BY DEF Without
<1>2. PICK a \in A : \E F \in SUBSET a.filters : b = With(a, F)
  BY DEF Fewer
<1>3. PICK F \in SUBSET a.filters : b = With(a, F)
  BY <1>2
<1>4. b.filters = F /\ b.rest = a.rest /\ b.value = a.value
  BY <1>3 DEF With
<1>5. e = With(a, F \ {f}) /\ F \ {f} \in SUBSET a.filters
  BY <1>1, <1>4 DEF With
<1>6. QED
  BY <1>5 DEF Fewer

LEMMA TreesExist ==
  ASSUME NEW A, NEW p \in Nat, \A a \in A : IsFiniteSet(a.filters) /\ Cardinality(a.filters) <= p
  PROVE  \E g : IsTree(g, SUBSET Fewer(A))
<1> DEFINE Upto(n) == {B \in SUBSET Fewer(A) : \A b \in B : IsFiniteSet(b.filters) /\ Cardinality(b.filters) <= n}
           T == {n \in Nat : \E g : IsTree(g, Upto(n))}
<1>1. 0 \in T
  <2> DEFINE none == [B \in {} |-> {}]
             g == [B \in Upto(0) |-> TreeStep(none, B)]
  <2>1. ASSUME NEW B \in Upto(0)
        PROVE  TreeStep(none, B) = TreeStep(g, B)
    <3>1. \A b \in B : b.filters = {}
      <4>1. \A b \in B : IsFiniteSet(b.filters) /\ Cardinality(b.filters) <= 0 /\ Cardinality(b.filters) \in Nat
        BY FS_CardinalityType
      <4>2. \A b \in B : IsFiniteSet(b.filters) /\ Cardinality(b.filters) = 0
        BY <4>1
      <4>3. QED
        BY <4>2, FS_EmptySet
    <3>2. UNION {b.filters : b \in B} = {}
      BY <3>1
    <3> HIDE DEF none, g
    <3>3. QED
      BY <3>2, TreeStepAgrees
  <2>2. IsTree(g, Upto(0))
    <3> HIDE DEF none, Upto
    <3>1. QED
      BY <2>1 DEF IsTree
  <2> HIDE DEF g, Upto
  <2>3. QED
    BY <2>2
<1>2. ASSUME NEW n \in Nat, n \in T
      PROVE  n + 1 \in T
  <2>1. PICK g : IsTree(g, Upto(n))
    BY <1>2
  <2> DEFINE h == [B \in Upto(n + 1) |-> TreeStep(g, B)]
  <2>2. ASSUME NEW B \in Upto(n)
        PROVE  B \in Upto(n + 1)
    <3>1. \A b \in B : IsFiniteSet(b.filters) /\ Cardinality(b.filters) <= n /\ Cardinality(b.filters) \in Nat
      BY FS_CardinalityType
    <3>2. \A b \in B : IsFiniteSet(b.filters) /\ Cardinality(b.filters) <= n + 1
      BY <3>1
    <3>3. QED
      BY <3>2
  <2>3. ASSUME NEW B \in Upto(n)
        PROVE  h[B] = g[B]
    <3> HIDE DEF Upto
    <3>1. g[B] = TreeStep(g, B)
      BY <2>1 DEF IsTree
    <3>2. QED
      BY <2>2, <3>1
  <2>4. ASSUME NEW B \in Upto(n + 1), NEW f
        PROVE  Without(B, f) \in Upto(n)
    <3>1. Without(B, f) \in SUBSET Fewer(A)
      BY FewerWithout
    <3>2. ASSUME NEW e \in Without(B, f)
          PROVE  IsFiniteSet(e.filters) /\ Cardinality(e.filters) <= n
      <4>1. PICK b \in B : f \in b.filters /\ e = With(b, b.filters \ {f})
        BY <3>2 DEF Without
      <4>2. e.filters = b.filters \ {f}
        BY <4>1 DEF With
      <4>3. IsFiniteSet(b.filters) /\ Cardinality(b.filters) <= n + 1
        OBVIOUS
      <4> DEFINE s == b.filters
      <4>4. IsFiniteSet(s) /\ f \in s /\ Cardinality(s) <= n + 1
        BY <4>1, <4>3
      <4> HIDE DEF s
      <4>5. /\ IsFiniteSet(s \ {f}) /\ Cardinality(s) = Cardinality(s \ {f}) + 1
            /\ Cardinality(s) \in Nat /\ Cardinality(s \ {f}) \in Nat
        BY <4>4, Smaller
      <4>6. Cardinality(s \ {f}) <= n
        BY <4>4, <4>5
      <4>7. QED
        BY <4>2, <4>5, <4>6 DEF s
    <3>3. QED
      BY <3>1, <3>2
  <2>5. ASSUME NEW B \in Upto(n + 1)
        PROVE  TreeStep(g, B) = TreeStep(h, B)
    <3> HIDE DEF h, Upto
    <3>1. \A f : g[Without(B, f)] = h[Without(B, f)]
      BY <2>3, <2>4
    <3>2. QED
      BY <3>1, TreeStepAgrees
  <2>6. IsTree(h, Upto(n + 1))
    <3> HIDE DEF Upto
    <3>1. QED
      BY <2>5 DEF IsTree
  <2> HIDE DEF h, Upto
  <2>7. QED
    BY <2>6
<1>3. p \in T
  <2> HIDE DEF T
  <2>1. QED
    BY <1>1, <1>2, Induction
<1>4. Upto(p) = SUBSET Fewer(A)
  <2> SUFFICES ASSUME NEW e \in Fewer(A)
               PROVE  IsFiniteSet(e.filters) /\ Cardinality(e.filters) <= p
    OBVIOUS
  <2>1. PICK a \in A : \E F \in SUBSET a.filters : e = With(a, F)
    BY DEF Fewer
  <2>2. e.filters \in SUBSET a.filters
    BY <2>1 DEF With
  <2>3. IsFiniteSet(e.filters) /\ Cardinality(e.filters) <= Cardinality(a.filters)
    BY <2>2, FS_Subset
  <2>4. Cardinality(e.filters) \in Nat /\ Cardinality(a.filters) \in Nat /\ Cardinality(a.filters) <= p
    BY <2>3, FS_CardinalityType
  <2>5. QED
    BY <2>3, <2>4
<1> HIDE DEF Upto
<1>5. QED
  BY <1>3, <1>4

LEMMA CreateImplIs ==
  ASSUME NEW A, NEW p \in Nat,
         \A a \in A : a = With(a, a.filters) /\ IsFiniteSet(a.filters) /\ Cardinality(a.filters) <= p
  PROVE  \E g : IsTree(g, SUBSET Fewer(A)) /\ CreateImpl(A) = g[A] /\ A \in SUBSET Fewer(A)
<1>1. CreateImpl(A) = (CHOOSE g : IsTree(g, SUBSET Fewer(A)))[A]
  BY DEF CreateImpl, IsTree, TreeStep, Without, Fewer, With
<1>2. \E g : IsTree(g, SUBSET Fewer(A))
  BY TreesExist
<1>3. A \in SUBSET Fewer(A)
  <2> SUFFICES ASSUME NEW a \in A
               PROVE  a \in Fewer(A)
    OBVIOUS
  <2>1. a.filters \in SUBSET a.filters /\ a = With(a, a.filters)
    OBVIOUS
  <2>2. QED
    BY <2>1 DEF Fewer
<1>4. QED
  BY <1>1, <1>2, <1>3

-----------------------------------------------------------------------------
(* The nodes that are reached *)

Follow(nodes, q) == nodes \cup {n.indexes[q] : n \in {m \in nodes : q \in DOMAIN m.indexes}}

FollowStep(f, s, i, l) == IF s = {} THEN {i} ELSE Follow(f[s \ {Max(s)}], l[Max(s)])

Followed(f, i, l, D) == f = [s \in D |-> FollowStep(f, s, i, l)]

LEMMA FollowsExist ==
  ASSUME NEW S, IsFiniteSet(S), S \subseteq Int, NEW i, NEW l
  PROVE  \E g : Followed(g, i, l, SUBSET S)
<1> DEFINE Upto(n) == {s \in SUBSET S : Cardinality(s) <= n}
           T == {n \in Nat : \E g : Followed(g, i, l, Upto(n))}
<1>1. \A s \in SUBSET S : IsFiniteSet(s) /\ Cardinality(s) \in Nat /\ Cardinality(s) <= Cardinality(S)
  BY FS_Subset, FS_CardinalityType
<1>2. 0 \in T
  <2> DEFINE g == [s \in Upto(0) |-> {i}]
  <2>1. \A s \in Upto(0) : s = {}
    BY <1>1, FS_EmptySet
  <2>2. Followed(g, i, l, Upto(0))
    BY <2>1 DEF Followed, FollowStep
  <2>3. QED
    BY <2>2
<1>3. ASSUME NEW n \in Nat, n \in T
      PROVE  n + 1 \in T
  <2>1. PICK g : Followed(g, i, l, Upto(n))
    BY <1>3
  <2> DEFINE h == [s \in Upto(n + 1) |-> FollowStep(g, s, i, l)]
  <2>2. \A s \in Upto(n) : s \in Upto(n + 1)
    BY <1>1
  <2>3. \A s \in Upto(n) : h[s] = g[s]
    BY <2>1, <2>2 DEF Followed
  <2>4. \A s \in Upto(n + 1) : s # {} => s \ {Max(s)} \in Upto(n)
    <3> SUFFICES ASSUME NEW s \in Upto(n + 1), s # {}
                 PROVE  s \ {Max(s)} \in Upto(n)
      OBVIOUS
    <3>1. IsFiniteSet(s) /\ s \subseteq Int /\ s \in SUBSET S /\ Cardinality(s) <= n + 1
      BY <1>1
    <3>2. Max(s) \in s
      BY <3>1, MaxIn
    <3> DEFINE m == Max(s)
    <3> HIDE DEF m
    <3>3. Cardinality(s) = Cardinality(s \ {m}) + 1 /\ Cardinality(s \ {m}) \in Nat /\ Cardinality(s) \in Nat
      BY <3>1, <3>2, Smaller DEF m
    <3>4. Cardinality(s \ {m}) <= n
      BY <3>1, <3>3
    <3>5. s \ {m} \in Upto(n)
      BY <3>1, <3>4
    <3>6. QED
      BY <3>5 DEF m
  <2>5. \A s \in Upto(n + 1) : s # {} => h[s \ {Max(s)}] = g[s \ {Max(s)}]
    BY <2>3, <2>4
  <2>6. \A s \in Upto(n + 1) : FollowStep(h, s, i, l) = FollowStep(g, s, i, l)
    <3> HIDE DEF h, Upto
    <3>1. QED
      BY <2>5 DEF FollowStep
  <2>7. Followed(h, i, l, Upto(n + 1))
    BY <2>6 DEF Followed
  <2>8. \E f : Followed(f, i, l, Upto(n + 1))
    <3> HIDE DEF h, Upto
    <3>1. QED
      BY <2>7
  <2> HIDE DEF Upto
  <2>9. QED
    BY <2>8
<1>4. Cardinality(S) \in T
  <2> HIDE DEF T
  <2>1. QED
    BY <1>1, <1>2, <1>3, Induction
<1>5. Upto(Cardinality(S)) = SUBSET S
  BY <1>1
<1>6. QED
  BY <1>4, <1>5

\* What the nodes N find.
FoundAt(N, t) == UNION {SlowMatches(n, t) : n \in N}

\* What is reached from the node i, from one of l to the next.
Path(f, i, l) ==
  /\ f[0] = {i}
  /\ \A k \in Nat : k + 1 <= Len(l) => f[k + 1] = Follow(f[k], l[k + 1])

LEMMA ReachedIs ==
  ASSUME NEW i, NEW t, NEW S, NEW l \in Seq(S)
  PROVE  \E f : MatchingEntries(i, t, l) = FoundAt(f[Len(l)], t) /\ Path(f, i, l)
<1>1. MatchingEntries(i, t, l) = FoundAt((CHOOSE f : Followed(f, i, l, SUBSET DOMAIN l))[DOMAIN l], t)
  BY DEF MatchingEntries, FoldLeft, MapThenFoldSet, Followed, FollowStep, Follow, FoundAt
<1>2. Len(l) \in Nat /\ DOMAIN l = 1..Len(l)
  OBVIOUS
<1>3. IsFiniteSet(1..Len(l)) /\ 1..Len(l) \subseteq Int
  BY <1>2, FS_Interval
<1>4. \E g : Followed(g, i, l, SUBSET (1..Len(l)))
  BY <1>3, FollowsExist
<1>5. PICK g : /\ Followed(g, i, l, SUBSET (1..Len(l)))
               /\ MatchingEntries(i, t, l) = FoundAt(g[1..Len(l)], t)
  BY <1>1, <1>2, <1>4
<1> DEFINE f == [k \in 0..Len(l) |-> g[1..k]]
<1>6. \A s \in SUBSET (1..Len(l)) : g[s] = FollowStep(g, s, i, l)
  BY <1>5 DEF Followed
<1>7. f[Len(l)] = g[1..Len(l)]
  BY <1>2
<1>8. f[0] = {i}
  <2>1. 1..0 = {} /\ {} \in SUBSET (1..Len(l))
    OBVIOUS
  <2>2. g[{}] = {i}
    BY <1>6, <2>1 DEF FollowStep
  <2>3. QED
    BY <1>2, <2>1, <2>2
<1>9. ASSUME NEW k \in Nat, k + 1 <= Len(l)
      PROVE  f[k + 1] = Follow(f[k], l[k + 1])
  <2>1. 1..(k + 1) \in SUBSET (1..Len(l)) /\ k \in 0..Len(l) /\ k + 1 \in 0..Len(l)
    BY <1>2, <1>9
  <2>2. g[1..(k + 1)] = Follow(g[1..k], l[k + 1])
    BY <1>6, <2>1, LastOfPrefix DEF FollowStep
  <2>3. QED
    BY <2>1, <2>2
<1> HIDE DEF f
<1>10. Path(f, i, l)
  BY <1>8, <1>9 DEF Path
<1>11. QED
  BY <1>5, <1>7, <1>10

\* What is left of the entries that have the filters F, once those are met.
Minus(A, F) == {With(a, a.filters \ F) : a \in {b \in A : F \subseteq b.filters}}

LEMMA MinusNothing ==
  ASSUME NEW A, \A a \in A : a = With(a, a.filters)
  PROVE  Minus(A, {}) = A
<1>1. \A a \in A : With(a, a.filters \ {}) = a /\ {} \subseteq a.filters
  <2>1. \A a \in A : a.filters \ {} = a.filters
    OBVIOUS
  <2>2. QED
    BY <2>1
<1>2. QED
  BY <1>1 DEF Minus

LEMMA MinusIn ==
  ASSUME NEW A, NEW F
  PROVE  Minus(A, F) \in SUBSET Fewer(A)
<1> SUFFICES ASSUME NEW e \in Minus(A, F)
             PROVE  e \in Fewer(A)
  OBVIOUS
<1>1. PICK a \in A : F \subseteq a.filters /\ e = With(a, a.filters \ F)
  BY DEF Minus
<1>2. a.filters \ F \in SUBSET a.filters
  OBVIOUS
<1>3. QED
  BY <1>1, <1>2 DEF Fewer

LEMMA MinusOneMore ==
  ASSUME NEW A, NEW F, NEW f, f \notin F
  PROVE  Without(Minus(A, F), f) = Minus(A, F \cup {f})
<1>1. ASSUME NEW e \in Without(Minus(A, F), f)
      PROVE  e \in Minus(A, F \cup {f})
  <2>1. PICK b \in Minus(A, F) : f \in b.filters /\ e = With(b, b.filters \ {f})
    BY <1>1 DEF Without
  <2>2. PICK a \in A : F \subseteq a.filters /\ b = With(a, a.filters \ F)
    BY <2>1 DEF Minus
  <2>3. b.filters = a.filters \ F /\ b.rest = a.rest /\ b.value = a.value
    BY <2>2 DEF With
  <2>4. b.filters \ {f} = a.filters \ (F \cup {f}) /\ F \cup {f} \subseteq a.filters
    BY <2>1, <2>2, <2>3
  <2>5. e = With(a, a.filters \ (F \cup {f}))
    BY <2>1, <2>3, <2>4 DEF With
  <2>6. QED
    BY <2>4, <2>5 DEF Minus
<1>2. ASSUME NEW e \in Minus(A, F \cup {f})
      PROVE  e \in Without(Minus(A, F), f)
  <2>1. PICK a \in A : F \cup {f} \subseteq a.filters /\ e = With(a, a.filters \ (F \cup {f}))
    BY <1>2 DEF Minus
  <2> DEFINE b == With(a, a.filters \ F)
  <2>2. b \in Minus(A, F)
    BY <2>1 DEF Minus
  <2>3. b.filters = a.filters \ F /\ b.rest = a.rest /\ b.value = a.value
    BY DEF With
  <2>4. b.filters \ {f} = a.filters \ (F \cup {f}) /\ f \in b.filters
    BY <2>1, <2>3
  <2>5. e = With(b, b.filters \ {f})
    BY <2>1, <2>3, <2>4 DEF With
  <2> HIDE DEF b
  <2>6. QED
    BY <2>2, <2>4, <2>5 DEF Without
<1>3. QED
  BY <1>1, <1>2

FiltersOf(B) == UNION {b.filters : b \in B}
NoneLeft(B) == {b \in B : b.filters = {}}

LEMMA NodeIs ==
  ASSUME NEW A, NEW g, IsTree(g, SUBSET Fewer(A)), NEW B \in SUBSET Fewer(A)
  PROVE  /\ DOMAIN g[B].indexes = FiltersOf(B)
         /\ \A f \in FiltersOf(B) : g[B].indexes[f] = g[Without(B, f)]
         /\ g[B].entries = NoneLeft(B)
<1>1. g[B] = TreeStep(g, B)
  BY DEF IsTree
<1>2. /\ TreeStep(g, B).indexes = [f \in UNION {b.filters : b \in B} |-> g[Without(B, f)]]
      /\ TreeStep(g, B).entries = {b \in B : b.filters = {}}
  BY DEF TreeStep
<1>3. QED
  BY <1>1, <1>2 DEF FiltersOf, NoneLeft

LEMMA NodeAt ==
  ASSUME NEW A, NEW g, IsTree(g, SUBSET Fewer(A)), NEW F
  PROVE  /\ DOMAIN g[Minus(A, F)].indexes = FiltersOf(Minus(A, F))
         /\ \A f \in FiltersOf(Minus(A, F)) : g[Minus(A, F)].indexes[f] = g[Without(Minus(A, F), f)]
         /\ g[Minus(A, F)].entries = NoneLeft(Minus(A, F))
<1> DEFINE B == Minus(A, F)
<1>1. B \in SUBSET Fewer(A)
  BY MinusIn
<1> HIDE DEF B
<1>2. /\ DOMAIN g[B].indexes = FiltersOf(B)
      /\ \A f \in FiltersOf(B) : g[B].indexes[f] = g[Without(B, f)]
      /\ g[B].entries = NoneLeft(B)
  <2>1. IsTree(g, SUBSET Fewer(A))
    OBVIOUS
  <2>2. QED
    BY <1>1, <2>1, NodeIs
<1>3. QED
  BY <1>2 DEF B

First(l, k) == {l[i] : i \in 1..k}

\* N are the nodes reached by the first k of l: what is left of the entries
\* when some of these k are met, if there are such entries.
Reached(N, g, A, l, k) ==
  /\ \A n \in N : \E F \in SUBSET First(l, k) : n = g[Minus(A, F)]
  /\ \A a \in A : \A F \in SUBSET First(l, k) : F \subseteq a.filters => g[Minus(A, F)] \in N

LEMMA ReachedFirst ==
  ASSUME NEW g, NEW A, \A a \in A : a = With(a, a.filters), NEW l
  PROVE  Reached({g[A]}, g, A, l, 0)
<1>1. First(l, 0) = {}
  BY DEF First
<1>2. Minus(A, {}) = A
  BY MinusNothing
<1>3. \A F \in SUBSET First(l, 0) : F = {}
  BY <1>1
<1>4. {} \in SUBSET First(l, 0)
  OBVIOUS
<1>5. \A n \in {g[A]} : n = g[Minus(A, {})]
  BY <1>2
<1>6. \A F \in SUBSET First(l, 0) : g[Minus(A, F)] \in {g[A]}
  BY <1>2, <1>3
<1>7. QED
  BY <1>4, <1>5, <1>6 DEF Reached

LEMMA ReachedNext ==
  ASSUME NEW A, NEW g, IsTree(g, SUBSET Fewer(A)), NEW l, NEW k \in Nat, NEW N, Reached(N, g, A, l, k)
  PROVE  Reached(Follow(N, l[k + 1]), g, A, l, k + 1)
<1> DEFINE f == l[k + 1]
           M == Follow(N, f)
<1>1. First(l, k + 1) = First(l, k) \cup {f}
  <2>1. \A i : i \in 1..(k + 1) <=> i \in 1..k \/ i = k + 1
    OBVIOUS
  <2>2. QED
    BY <2>1 DEF First
<1> HIDE DEF f
<1>2. M = N \cup {n.indexes[f] : n \in {m \in N : f \in DOMAIN m.indexes}}
  BY DEF Follow
<1> HIDE DEF M
<1>3. ASSUME NEW n \in M
      PROVE  \E F \in SUBSET First(l, k + 1) : n = g[Minus(A, F)]
  <2>1. CASE n \in N
    <3>1. PICK F \in SUBSET First(l, k) : n = g[Minus(A, F)]
      BY <2>1 DEF Reached
    <3>2. F \in SUBSET First(l, k + 1)
      BY <1>1
    <3>3. QED
      BY <3>1, <3>2
  <2>2. CASE n \notin N
    <3>1. PICK m \in N : f \in DOMAIN m.indexes /\ n = m.indexes[f]
      BY <1>2, <2>2
    <3>2. PICK F \in SUBSET First(l, k) : m = g[Minus(A, F)]
      BY <3>1 DEF Reached
    <3>4. f \in FiltersOf(Minus(A, F)) /\ n = g[Without(Minus(A, F), f)]
      BY <3>1, <3>2, NodeAt
    <3>5. PICK b \in Minus(A, F) : f \in b.filters
      BY <3>4 DEF FiltersOf
    <3>6. PICK a \in A : b = With(a, a.filters \ F)
      BY DEF Minus
    <3>7. f \notin F
      BY <3>5, <3>6 DEF With
    <3>8. n = g[Minus(A, F \cup {f})]
      BY <3>4, <3>7, MinusOneMore
    <3>9. F \cup {f} \in SUBSET First(l, k + 1)
      BY <1>1
    <3>10. QED
      BY <3>8, <3>9
  <2>3. QED
    BY <2>1, <2>2
<1>4. ASSUME NEW a \in A, NEW F \in SUBSET First(l, k + 1), F \subseteq a.filters
      PROVE  g[Minus(A, F)] \in M
  <2>1. CASE F \subseteq First(l, k)
    <3>1. g[Minus(A, F)] \in N
      BY <1>4, <2>1 DEF Reached
    <3>2. QED
      BY <1>2, <3>1
  <2>2. CASE ~(F \subseteq First(l, k))
    <3> DEFINE G == F \ {f}
    <3>1. f \in F /\ G \subseteq First(l, k) /\ G \subseteq a.filters /\ f \notin G /\ F = G \cup {f}
      BY <1>1, <1>4, <2>2
    <3> HIDE DEF G
    <3>2. g[Minus(A, G)] \in N
      BY <3>1 DEF Reached
    <3>3. With(a, a.filters \ G) \in Minus(A, G)
      BY <3>1 DEF Minus
    <3>4. f \in With(a, a.filters \ G).filters
      BY <1>4, <3>1 DEF With
    <3>5. f \in FiltersOf(Minus(A, G))
      BY <3>3, <3>4 DEF FiltersOf
    <3>7. f \in DOMAIN g[Minus(A, G)].indexes /\ g[Minus(A, G)].indexes[f] = g[Without(Minus(A, G), f)]
      BY <3>5, NodeAt
    <3>8. g[Without(Minus(A, G), f)] = g[Minus(A, F)]
      BY <3>1, MinusOneMore
    <3>9. QED
      BY <1>2, <3>2, <3>7, <3>8
  <2>3. QED
    BY <2>1, <2>2
<1>5. QED
  BY <1>3, <1>4 DEF Reached, M, f

LEMMA FoundIs ==
  ASSUME NEW A, NEW g, IsTree(g, SUBSET Fewer(A)), \A a \in A : a = With(a, a.filters),
         NEW S, NEW l \in Seq(S), NEW t, \A q \in ToSet(l) : Matches(q, t),
         \A a \in A : Accepts(a, t) => a.filters \subseteq ToSet(l)
  PROVE  MatchingEntries(g[A], t, l) = Accepted(A, t)
<1>0. PICK f : MatchingEntries(g[A], t, l) = FoundAt(f[Len(l)], t) /\ Path(f, g[A], l)
  <2> DEFINE i == g[A]
  <2> HIDE DEF i
  <2>1. \E f : MatchingEntries(i, t, l) = FoundAt(f[Len(l)], t) /\ Path(f, i, l)
    BY ReachedIs
  <2>2. QED
    BY <2>1 DEF i
<1>1. /\ MatchingEntries(g[A], t, l) = FoundAt(f[Len(l)], t)
      /\ f[0] = {g[A]}
      /\ \A k \in Nat : k + 1 <= Len(l) => f[k + 1] = Follow(f[k], l[k + 1])
  BY <1>0 DEF Path
<1> DEFINE T == {k \in Nat : k <= Len(l) => Reached(f[k], g, A, l, k)}
<1>2. 0 \in T
  BY <1>1, ReachedFirst
<1>3. ASSUME NEW k \in Nat, k \in T
      PROVE  k + 1 \in T
  <2> SUFFICES ASSUME k + 1 <= Len(l)
               PROVE  Reached(f[k + 1], g, A, l, k + 1)
    OBVIOUS
  <2>1. k <= Len(l)
    OBVIOUS
  <2>2. Reached(f[k], g, A, l, k)
    BY <1>3, <2>1
  <2>3. f[k + 1] = Follow(f[k], l[k + 1])
    BY <1>1
  <2>4. QED
    BY <2>2, <2>3, ReachedNext
<1> HIDE DEF T
<1>4. Reached(f[Len(l)], g, A, l, Len(l))
  <2>1. Len(l) \in Nat
    OBVIOUS
  <2>2. Len(l) \in T
    BY <1>2, <1>3, <2>1, Induction
  <2>3. QED
    BY <2>1, <2>2 DEF T
<1>5. First(l, Len(l)) = ToSet(l)
  BY DEF First, ToSet
<1> DEFINE N == f[Len(l)]
<1> HIDE DEF N
<1>6. /\ \A n \in N : \E F \in SUBSET ToSet(l) : n = g[Minus(A, F)]
      /\ \A a \in A : \A F \in SUBSET ToSet(l) : F \subseteq a.filters => g[Minus(A, F)] \in N
  BY <1>4, <1>5 DEF Reached, N
<1>7. ASSUME NEW v \in MatchingEntries(g[A], t, l)
      PROVE  \E a \in A : Accepts(a, t) /\ a.value = v
  <2>1. PICK n \in N : v \in SlowMatches(n, t)
    BY <1>1 DEF N, FoundAt
  <2>2. PICK F \in SUBSET ToSet(l) : n = g[Minus(A, F)]
    BY <1>6
  <2>3. n.entries = NoneLeft(Minus(A, F))
    BY <2>2, NodeAt
  <2>4. PICK e \in Minus(A, F) : e.filters = {} /\ Matches(e.rest, t) /\ e.value = v
    BY <2>1, <2>3 DEF SlowMatches, NoneLeft
  <2>5. PICK a \in A : F \subseteq a.filters /\ e = With(a, a.filters \ F)
    BY DEF Minus
  <2>6. a.filters = F /\ a.rest = e.rest /\ a.value = v
    BY <2>4, <2>5 DEF With
  <2>7. Accepts(a, t)
    BY <2>4, <2>6 DEF Accepts
  <2>8. QED
    BY <2>6, <2>7
<1>8. ASSUME NEW a \in A, Accepts(a, t)
      PROVE  a.value \in MatchingEntries(g[A], t, l)
  <2> DEFINE F == a.filters
             e == With(a, a.filters \ F)
             n == g[Minus(A, F)]
  <2>1. F \in SUBSET ToSet(l)
    BY <1>8
  <2>2. n \in N
    BY <1>6, <2>1
  <2>3. n.entries = NoneLeft(Minus(A, F))
    <3> HIDE DEF F
    <3>1. g[Minus(A, F)].entries = NoneLeft(Minus(A, F))
      BY NodeAt
    <3>2. QED
      BY <3>1
  <2>4. e \in Minus(A, F)
    BY DEF Minus
  <2>5. e.filters = {} /\ e.rest = a.rest /\ e.value = a.value
    BY DEF With
  <2> HIDE DEF e, n, F
  <2>6. e \in n.entries /\ Matches(e.rest, t)
    BY <1>8, <2>3, <2>4, <2>5 DEF Accepts, NoneLeft
  <2>7. a.value \in SlowMatches(n, t)
    BY <2>5, <2>6 DEF SlowMatches
  <2>8. QED
    BY <1>1, <2>2, <2>7 DEF N, FoundAt
<1>9. QED
  BY <1>7, <1>8 DEF Accepted

-----------------------------------------------------------------------------
(* The queries of the tags, and what the index finds for them *)

TagQueries(t) == {RelopQuery(k, t[k], "EQ") : k \in DOMAIN t}

LEMMA TagsFinite ==
  ASSUME NEW t \in AllTags
  PROVE  /\ IsFiniteSet(TagQueries(t))
         /\ \A k \in DOMAIN t : k \in STRING /\ t[k] \in STRING
<1>1. PICK K \in SUBSET Strings : t \in [K -> Strings]
  BY DEF AllTags
<1>2. IsFiniteSet(K)
  BY <1>1, StringsAre, FS_Subset
<1> DEFINE f == [k \in K |-> RelopQuery(k, t[k], "EQ")]
<1>3. f \in Surjection(K, TagQueries(t))
  BY <1>1 DEF Surjection, TagQueries
<1>4. IsFiniteSet(TagQueries(t))
  <2> HIDE DEF f
  <2>1. QED
    BY <1>2, <1>3, FS_Surjection
<1>5. \A k \in DOMAIN t : k \in STRING /\ t[k] \in STRING
  BY <1>1, StringsAre
<1>6. QED
  BY <1>4, <1>5

\* A sequence of all of a set has all of it.
LEMMA InOrder ==
  ASSUME NEW S, IsFiniteSet(S), NEW l \in SetToSeqs(S)
  PROVE  l \in Seq(S) /\ ToSet(l) = S
<1> DEFINE n == Cardinality(S)
<1>1. n \in Nat
  BY FS_CardinalityType
<1>2. l \in [1..n -> S] /\ \A i, j \in 1..n : i # j => l[i] # l[j]
  BY DEF SetToSeqs
<1>3. IsFiniteSet(1..n) /\ Cardinality(1..n) = n
  <2> HIDE DEF n
  <2>1. IsFiniteSet(1..n) /\ Cardinality(1..n) = IF 1 > n THEN 0 ELSE n - 1 + 1
    BY <1>1, FS_Interval
  <2>2. QED
    BY <1>1, <2>1
<1>4. l \in Injection(1..n, S)
  BY <1>2 DEF Injection, IsInjective
<1>5. l \in Surjection(1..n, S)
  <2>1. Cardinality(1..n) = Cardinality(S)
    BY <1>3
  <2>2. QED
    BY <1>4, <2>1, FS_Injection
<1> HIDE DEF n
<1>6. l \in Seq(S) /\ DOMAIN l = 1..n
  BY <1>1, <1>2
<1>7. QED
  BY <1>5, <1>6 DEF Surjection, ToSet

\* The :eq filters of an entry that accepts the tags are queries of the tags.
LEMMA FilterOfTags ==
  ASSUME MaxDepth \in Nat, NEW t, NEW f \in QuerySet, IsEq(f), Matches(f, t)
  PROVE  f \in TagQueries(t)
<1>1. f.key \in DOMAIN t /\ t[f.key] = f.value
  BY EqMatches
<1>2. f.type = "RelOp" /\ f.op = "EQ"
  BY DEF IsEq
<1>3. f \in SimpleQueries
  BY <1>2, OperandsAreQueries DEF SimpleTypes
<1>4. f \in [type : {"RelOp"}, key : STRING, value : STRING, op : RelOps]
  BY <1>2, <1>3 DEF SimpleQueries
<1>5. f = RelopQuery(f.key, f.value, "EQ")
  BY <1>2, <1>4 DEF RelopQuery
<1>6. QED
  BY <1>1, <1>5 DEF TagQueries

LEMMA TagQueriesMatch ==
  ASSUME MaxDepth \in Nat, NEW t \in AllTags, NEW q \in TagQueries(t)
  PROVE  Matches(q, t)
<1>1. PICK k \in DOMAIN t : q = RelopQuery(k, t[k], "EQ")
  BY DEF TagQueries
<1>2. q \in QuerySet /\ IsEq(q)
  BY <1>1, TagsFinite, RelopIn DEF QuerySet
<1>3. q.key = k /\ q.value = t[k]
  BY <1>1 DEF RelopQuery
<1>4. QED
  BY <1>2, <1>3, EqMatches

LEMMA IndexFinds ==
  ASSUME MaxDepth \in Nat, NEW n \in Nat, n + Power[n] <= MaxDepth, NEW qs \in SUBSET QueriesUpTo[n],
         NEW t \in AllTags, NEW l \in SetToSeqs(TagQueries(t))
  PROVE  MatchingEntries(Build(qs), t, l) = {q \in qs : Matches(q, t)}
<1> DEFINE A == Entries(qs)
<1>1. /\ \A a \in A : IsEntry(a, n)
      /\ Accepted(A, t) = {q \in qs : Matches(q, t)}
  BY EntriesMean
<1>2. Build(qs) = CreateImpl(A)
  BY BuildIs
<1> HIDE DEF A
<1>3. Power[n] \in Nat
  BY PowerGrows
<1>4. \A a \in A : a = With(a, a.filters) /\ IsFiniteSet(a.filters) /\ Cardinality(a.filters) <= Power[n]
  BY <1>1 DEF IsEntry, With
<1>5. PICK g : IsTree(g, SUBSET Fewer(A)) /\ CreateImpl(A) = g[A]
  <2> DEFINE p == Power[n]
  <2>1. p \in Nat /\ \A a \in A : a = With(a, a.filters) /\ IsFiniteSet(a.filters) /\ Cardinality(a.filters) <= p
    BY <1>3, <1>4
  <2> HIDE DEF p
  <2>2. QED
    BY <2>1, CreateImplIs
<1>6. IsFiniteSet(TagQueries(t))
  BY TagsFinite
<1>7. l \in Seq(TagQueries(t)) /\ ToSet(l) = TagQueries(t)
  BY <1>6, InOrder
<1>8. \A q \in ToSet(l) : Matches(q, t)
  BY <1>7, TagQueriesMatch
<1>9. \A a \in A : Accepts(a, t) => a.filters \subseteq ToSet(l)
  BY <1>1, <1>7, FilterOfTags DEF Accepts, IsEntry
<1>10. MatchingEntries(g[A], t, l) = Accepted(A, t)
  BY <1>4, <1>5, <1>7, <1>8, <1>9, FoundIs
<1>11. QED
  BY <1>1, <1>2, <1>5, <1>10

\* An index of the queries that a program leaves finds exactly those that match,
\* whatever the tags and in whatever order their table has them: no comparison
\* in the normal form, the splitting of :in, the choice of filters or the walk
\* of the tree loses a query or finds one too many.  MaxDepth, which only bounds
\* the queries that exist, is to leave room for the conjuncts of one query.
THEOREM IndexFindsExactly ==
  ASSUME NEW B \in Nat, Bounds(B), B + Power[B] <= MaxDepth
  PROVE  InterpreterSpec => []IndexFindsWhatMatches
<1>1. InterpreterInit => InterpreterInv(B)
  BY InitialInterpreter
<1>2. InterpreterInv(B) /\ [InterpreterNext]_interpreterVars => InterpreterInv(B)'
  BY InterpreterStep
<1>3. InterpreterInv(B) => IndexFindsWhatMatches
  <2> SUFFICES ASSUME InterpreterInv(B)
               PROVE  IndexFindsWhatMatches
    OBVIOUS
  <2> DEFINE qs == {stack[i] : i \in Queries}
  <2>1. MaxDepth \in Nat
    BY InterpreterAssumption
  <2>2. ASSUME NEW i \in Queries
        PROVE  stack[i] \in QueriesUpTo[B] /\ meant[i] = {t \in AllTags : Matches(stack[i], t)}
    <3>1. i \in DOMAIN stack /\ IsQuery(stack[i])
      BY DEF Queries
    <3>2. B - left \in Nat /\ B - left <= B
      BY DEF InterpreterInv, InterpreterTypeOK
    <3> DEFINE n == B - left
    <3>3. n \in Nat /\ n <= B
      BY <3>2
    <3>4. stack \in Seq(Expressions(n))
      BY DEF InterpreterInv, InterpreterTypeOK
    <3> HIDE DEF n
    <3>5. stack[i] \in Expressions(n)
      <4> DEFINE S == Expressions(n)
      <4> HIDE DEF S
      <4>1. stack \in Seq(S)
        BY <3>4 DEF S
      <4>2. stack[i] \in S
        BY <3>1, <4>1
      <4>3. QED
        BY <4>2 DEF S
    <3>6. stack[i] \in QueriesUpTo[n]
      BY <3>1, <3>3, <3>5, Kinds
    <3>7. stack[i] \in QueriesUpTo[B]
      BY <3>3, <3>6, LevelsMonotone
    <3>8. Means(stack[i], meant[i])
      BY <3>1 DEF InterpreterInv
    <3>9. meant[i] = {t \in AllTags : Matches(stack[i], t)}
      BY <3>1, <3>8 DEF Means, Matched, Selecting
    <3>10. QED
      BY <3>7, <3>9
  <2>3. qs \in SUBSET QueriesUpTo[B]
    BY <2>2
  <2> HIDE DEF qs
  <2>4. ASSUME NEW t \in AllTags, NEW l \in SetToSeqs(TagQueries(t))
        PROVE  MatchingEntries(Build(qs), t, l) = {stack[i] : i \in {j \in Queries : t \in meant[j]}}
    <3>1. MatchingEntries(Build(qs), t, l) = {q \in qs : Matches(q, t)}
      BY <2>1, <2>3, IndexFinds
    <3>2. \A j \in Queries : t \in meant[j] <=> Matches(stack[j], t)
      BY <2>2
    <3>3. {q \in qs : Matches(q, t)} = {stack[i] : i \in {j \in Queries : t \in meant[j]}}
      BY <3>2 DEF qs
    <3>4. QED
      BY <3>1, <3>3
  <2>5. QED
    BY <2>4 DEF IndexFindsWhatMatches, TagQueries, qs
<1>4. QED
  BY <1>1, <1>2, <1>3, PTL DEF InterpreterSpec
=============================================================================
