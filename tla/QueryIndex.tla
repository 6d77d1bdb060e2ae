----------------------------- MODULE QueryIndex -----------------------------
(***************************************************************************)
(* interpreter/query_index.h and the normal form of interpreter/query.cc:  *)
(* the index of the queries that a program leaves on its stack.            *)
(*                                                                         *)
(* The index is a tree whose branches are :eq queries; at a node are the   *)
(* entries all of whose :eq queries have been met on the way.              *)
(***************************************************************************)
EXTENDS Interpreter

CONSTANTS SplitLimit  \* QueryIndex::split leaves an :in of as many values alone

\* util/collections.h: vector_cross_product, here always with and_q.
CrossProduct(s, t) ==
  [n \in 1..Len(s) * Len(t) |->
     AndQ(s[((n - 1) \div Len(t)) + 1], t[((n - 1) % Len(t)) + 1])]

\* query::dnf_list.  Beneath two negations it does not look.
DnfList(q) ==
  LET list[s \in QuerySet] ==
        CASE s.type = "And" -> CrossProduct(list[s.q1], list[s.q2])
          [] s.type = "Or"  -> list[s.q1] \o list[s.q2]
          [] s.type = "Not" /\ s.q1.type = "And" ->
               list[NotQ(s.q1.q1)] \o list[NotQ(s.q1.q2)]
          [] s.type = "Not" /\ s.q1.type = "Or" ->
               list[AndQ(NotQ(s.q1.q1), NotQ(s.q1.q2))]
          [] s.type = "Not" /\ s.q1.type = "Not" -> <<s.q1.q1>>
          [] OTHER -> <<s>>
  IN  list[q]

\* QueryIndex::split
Split(q) ==
  LET split[s \in QuerySet] ==
        CASE s.type = "And" -> CrossProduct(split[s.q1], split[s.q2])
          [] s.type = "In" /\ Len(s.values) < SplitLimit ->
               [i \in DOMAIN s.values |-> RelopQuery(s.key, s.values[i], "EQ")]
          [] OTHER -> <<s>>
  IN  split[q]

\* QueryIndex::conjunction_list
ConjunctionList(q) ==
  LET list[s \in QuerySet] ==
        IF s.type = "And" THEN list[s.q1] \o list[s.q2] ELSE <<s>>
  IN  list[q]

IsEq(q) == q.type = "RelOp" /\ q.op = "EQ"

\* Mutant: every comparison is taken for a filter.
AnnotateAnyRelop(q, value) ==
  LET And(r, c) == IF c.type = "RelOp" THEN r ELSE AndQ(r, c)
  IN  [filters |-> {c \in ToSet(ConjunctionList(q)) : c.type = "RelOp"},
       rest    |-> FoldLeft(And, TrueQuery, ConjunctionList(q)),
       value   |-> value]

\* query::and_queries of the conjuncts that are no filters, whose order and
\* repetitions do not matter.
Remainder(q) ==
  FoldLeft(LAMBDA r, c : IF IsEq(c) THEN r ELSE AndQ(r, c), TrueQuery, ConjunctionList(q))

\* QueryIndex::annotate: the :eq conjuncts apart from the rest of the query.
Annotate(q, value) ==
  [filters |-> {c \in ToSet(ConjunctionList(q)) : IsEq(c)},
   rest    |-> Remainder(q),
   value   |-> value]

\* QueryIndex::create_impl.  Trees of equal entries are shared, which cannot
\* be told from trees of their own.
CreateImpl(annotated) ==
  LET With(a, filters) == [filters |-> filters, rest |-> a.rest, value |-> a.value]
      Fewer == UNION {{With(a, F) : F \in SUBSET a.filters} : a \in annotated}
      tree[A \in SUBSET Fewer] ==
        [indexes |-> [f \in UNION {a.filters : a \in A} |->
                        tree[{With(a, a.filters \ {f}) : a \in {b \in A : f \in b.filters}}]],
         entries |-> {a \in A : a.filters = {}}]
  IN  tree[annotated]

\* QueryIndex::Create, for Build's entries: each query is its own value.
Build(queries) ==
  CreateImpl(UNION {{Annotate(c, q) : c \in UNION {ToSet(Split(d)) : d \in ToSet(DnfList(q))}} :
                    q \in queries})

\* QueryIndex::slow_matches
SlowMatches(index, tags) ==
  {e.value : e \in {d \in index.entries : Matches(d.rest, tags)}}

\* QueryIndex::matching_entries; tagQueries are the tags in the order of their
\* table.  Each is followed from every node reached, and not followed too.
MatchingEntries(index, tags, tagQueries) ==
  LET Follow(nodes, q) ==
        nodes \cup {n.indexes[q] : n \in {m \in nodes : q \in DOMAIN m.indexes}}
  IN  UNION {SlowMatches(n, tags) : n \in FoldLeft(Follow, {index}, tagQueries)}

\* An index of all the queries a program leaves finds, for every set of tags
\* in whatever order its table has them, exactly the queries that match.
IndexFindsWhatMatches ==
  LET index == Build({stack[i] : i \in Queries})
      TagQueries(t) == {RelopQuery(k, t[k], "EQ") : k \in DOMAIN t}
  IN  \A t \in AllTags : \A order \in SetToSeqs(TagQueries(t)) :
        MatchingEntries(index, t, order) = {stack[i] : i \in {j \in Queries : t \in meant[j]}}
=============================================================================
