-------------------------------- MODULE Query --------------------------------
(***************************************************************************)
(* interpreter/query.{h,cc} as operators.  A query is a record whose field *)
(* "type" is its QueryType; a set of tags is a function from its keys to   *)
(* its values, all strings.                                                *)
(***************************************************************************)
EXTENDS Integers, SequencesExt

CONSTANTS
  Lexicon,     \* the strings in use, in the order of strcmp
  RegexMatch,  \* what pcre matches: for each pattern and case flag a set of strings
  MaxDepth     \* bound: how deep queries are nested

Strings == Range(Lexicon)

Position(s) == CHOOSE i \in DOMAIN Lexicon : Lexicon[i] = s

\* The constructors; those of And and Or are called through and_q and or_q.
TrueQuery  == [type |-> "True"]
FalseQuery == [type |-> "False"]
HasKeyQuery(k) == [type |-> "HasKey", key |-> k]
RelopQuery(k, v, op) == [type |-> "RelOp", key |-> k, value |-> v, op |-> op]
RegexQuery(k, pattern, ignoreCase) ==
  [type |-> "Regex", key |-> k, pattern |-> pattern, ignoreCase |-> ignoreCase]
InQuery(k, vs) == [type |-> "In", key |-> k, values |-> vs]

\* Those of AbstractKeyQuery
KeyQueryTypes == {"HasKey", "RelOp", "Regex", "In"}

RelOps == {"EQ", "LE", "LT", "GE", "GT"}

\* The queries, nested no deeper than n.
SimpleQueries ==
  [type : {"True", "False"}] \cup
  [type : {"HasKey"}, key : STRING] \cup
  [type : {"RelOp"}, key : STRING, value : STRING, op : RelOps] \cup
  [type : {"Regex"}, key : STRING, pattern : STRING, ignoreCase : BOOLEAN] \cup
  [type : {"In"}, key : STRING, values : Seq(STRING)]

QueriesUpTo[n \in Nat] ==
  IF n = 0 THEN SimpleQueries
  ELSE LET Operands == QueriesUpTo[n - 1]
       IN  SimpleQueries \cup [type : {"Not"}, q1 : Operands]
             \cup [type : {"And", "Or"}, q1 : Operands, q2 : Operands]

QuerySet == QueriesUpTo[MaxDepth]

\* RelopQuery::do_query on a value that is there.
DoQuery(cur, v, op) ==
  CASE op = "EQ" -> cur = v
    [] op = "LE" -> Position(cur) <= Position(v)
    [] op = "LT" -> Position(cur) <  Position(v)
    [] op = "GE" -> Position(cur) >= Position(v)
    [] op = "GT" -> Position(cur) >  Position(v)

\* MatchesRegex, where a pattern that does not compile has an empty set.
MatchesRegex(q, value) == value \in RegexMatch[q.pattern][q.ignoreCase]

\* InQuery::matches_value
MatchesValue(q, value) == Contains(q.values, value)

\* KeyQuery::Matches, of the value the key has.
MatchesTag(q, value) ==
  CASE q.type = "HasKey" -> TRUE
    [] q.type = "RelOp"  -> DoQuery(value, q.value, q.op)
    [] q.type = "Regex"  -> MatchesRegex(q, value)
    [] q.type = "In"     -> MatchesValue(q, value)

\* Query::Matches; a query about a key that is not there does not match.
Matches(q, tags) ==
  LET matches[s \in QuerySet] ==
        \/ s.type = "True"
        \/ s.type = "Not" /\ ~matches[s.q1]
        \/ s.type = "And" /\ matches[s.q1] /\ matches[s.q2]
        \/ s.type = "Or"  /\ (matches[s.q1] \/ matches[s.q2])
        \/ s.type \in KeyQueryTypes /\ s.key \in DOMAIN tags /\ MatchesTag(s, tags[s.key])
  IN  matches[q]

\* Tags::add_all: those of the source replace the others.
AddAll(tags, source) ==
  [k \in DOMAIN tags \cup DOMAIN source |->
     IF k \in DOMAIN source THEN source[k] ELSE tags[k]]

NoTags == [k \in {} |-> ""]

\* RelopQuery::Tags
RelopTags(q) == IF q.op = "EQ" THEN [k \in {q.key} |-> q.value] ELSE NoTags

\* Query::Tags: the tags that every match has because of :eq.
TagsOf(q) ==
  LET tagsOf[s \in QuerySet] ==
        CASE s.type = "And"   -> AddAll(tagsOf[s.q1], tagsOf[s.q2])
          [] s.type = "RelOp" -> RelopTags(s)
          [] OTHER -> NoTags
  IN  tagsOf[q]

\* Query::Equals: And and Or commute.
Equals(a, b) ==
  LET equals[s \in QuerySet] == [t \in QuerySet |->
        /\ s.type = t.type
        /\ CASE s.type = "Not" -> equals[s.q1][t.q1]
             [] s.type \in {"And", "Or"} ->
                  \/ equals[s.q1][t.q1] /\ equals[s.q2][t.q2]
                  \/ equals[s.q1][t.q2] /\ equals[s.q2][t.q1]
             [] OTHER -> s = t]
  IN  equals[a][b]

IsExpensive(q) == q.type \in {"Regex", "And", "Or"}

Pair(type, q1, q2) ==
  [type |-> type, q1 |-> IF IsExpensive(q1) THEN q2 ELSE q1,
                  q2 |-> IF IsExpensive(q1) THEN q1 ELSE q2]

\* Mutant: not_q forgets that :false negated is :true.
NotQKeepsFalse(q) ==
  IF q.type \in {"True", "False"} THEN FalseQuery
  ELSE [type |-> "Not", q1 |-> q]

\* query::not_q
NotQ(q) ==
  CASE q.type = "False" -> TrueQuery
    [] q.type = "True"  -> FalseQuery
    [] OTHER -> [type |-> "Not", q1 |-> q]

\* query::or_q
OrQ(q1, q2) ==
  CASE q1.type = "True" \/ q2.type = "False" -> q1
    [] q2.type = "True" \/ q1.type = "False" -> q2
    [] Equals(q1, q2) -> q1
    [] OTHER -> Pair("Or", q1, q2)

\* query::and_q
AndQ(q1, q2) ==
  CASE q1.type = "False" \/ q2.type = "True" -> q1
    [] q2.type = "False" \/ q1.type = "True" -> q2
    [] Equals(q1, q2) -> q1
    [] OTHER -> Pair("And", q1, q2)
=============================================================================
