----------------------------- MODULE Evaluation -----------------------------
(***************************************************************************)
(* What the interpreter's expressions are and what they yield:             *)
(* interpreter/aggregation.cc, group_by.cc, keep_drop_tags.cc, all.cc,     *)
(* singleton_value_expr.cc, evaluator.cc, and get_main_measurements of     *)
(* meter/subscription_manager.cc, which rolls measurements up by rules.    *)
(*                                                                         *)
(* A measurement is a record of its id's name and tags, and its value, an  *)
(* integer or NaN; the measurements evaluated together have distinct ids.  *)
(***************************************************************************)
EXTENDS Query

CONSTANTS
  Name,        \* the key "name"
  CommonTags,  \* the tags common to all measurements
  NaN          \* the double that is not a number

\* IdTagsValuePair: all_tags, in which get_value is a look-up.
TagsOfPair(m) ==
  AddAll(AddAll(CommonTags, m.tags), [k \in {Name} |-> m.name])

QueryTypes == {"HasKey", "RelOp", "Regex", "In", "True", "False", "Not", "Or", "And"}

Literal(s) == [type |-> "Literal", string |-> s]
List(items) == [type |-> "List", items |-> items]
AggregateExpression(fn, q) == [type |-> "ValueExpression", aggregate |-> fn, query |-> q]
ConstantExpression(n) ==
  [type |-> "ValueExpression", aggregate |-> "CONSTANT", query |-> FalseQuery, value |-> n]
All(q) == [type |-> "MultipleResults", class |-> "All", query |-> q]
GroupBy(keys, expr) ==
  [type |-> "MultipleResults", class |-> "GroupBy", keys |-> ToSet(keys), expr |-> expr]
KeepTags(keys, expr) ==
  [type |-> "MultipleResults", class |-> "KeepTags", keys |-> ToSet(keys) \cup {Name},
   expr |-> expr]
DropTags(keys, expr) ==
  [type |-> "MultipleResults", class |-> "DropTags", keys |-> ToSet(keys), expr |-> expr]

IsQuery(e) == e.type \in QueryTypes

Total(ms) == MapThenSumSet(LAMBDA m : m.value, ms)

\* sum_af, avg_af (a quotient, as a pair), count_af, min_af, max_af
Aggregate(fn, ms) ==
  IF ms = {} THEN NaN
  ELSE CASE fn = "SUM"   -> Total(ms)
         [] fn = "AVG"   -> <<Total(ms), Cardinality(ms)>>
         [] fn = "COUNT" -> Cardinality(ms)
         [] fn = "MIN"   -> Min({m.value : m \in ms})
         [] fn = "MAX"   -> Max({m.value : m \in ms})

Selected(q, ms) == {m \in ms : m.value # NaN /\ Matches(q, TagsOfPair(m))}

\* ValueExpression::Apply
Apply(e, ms) ==
  IF e.aggregate = "CONSTANT" THEN [tags |-> NoTags, value |-> e.value]
  ELSE [tags |-> TagsOf(e.query), value |-> Aggregate(e.aggregate, Selected(e.query, ms))]

\* Mutant: drop_keys does not put the name first.
GroupKeysNameless(e, m) ==
  IF e.class = "DropTags" THEN DOMAIN TagsOfPair(m) \ e.keys ELSE e.keys

\* The keys a measurement is grouped by: keys_ or drop_keys.
GroupKeys(e, m) ==
  IF e.class = "DropTags" THEN (DOMAIN TagsOfPair(m) \ e.keys) \cup {Name} ELSE e.keys

\* GroupBy::Apply, KeepOrDropTags::Apply
ApplyToGroups(e, ms) ==
  LET Group(m)   == Restrict(TagsOfPair(m), GroupKeys(e, m))
      kept       == {m \in ms : GroupKeys(e, m) \subseteq DOMAIN TagsOfPair(m)}
      Result(g)  == Apply(e.expr, {m \in kept : Group(m) = g})
      NewTags(g) == IF e.class = "GroupBy" THEN AddAll(g, Result(g).tags) ELSE g
  IN  {[tags |-> NewTags(g), value |-> Result(g).value] :
         g \in {h \in {Group(m) : m \in kept} : Result(h).value # NaN}}

\* MultipleResults::Apply, and SingletonValueExpr's for a value expression;
\* whatever else is on the stack yields nothing.
Results(e, ms) ==
  CASE e.type = "ValueExpression" -> {r \in {Apply(e, ms)} : r.value # NaN}
    [] e.type = "MultipleResults" /\ e.class = "All" ->
         {[tags |-> TagsOfPair(m), value |-> m.value] :
            m \in IF e.query.type = "True" THEN ms ELSE Selected(e.query, ms)}
    [] e.type = "MultipleResults" /\ e.class # "All" -> ApplyToGroups(e, ms)
    [] OTHER -> {}

\* Evaluator::eval once the program has left its stack: popped from the top.
Eval(stack, ms) ==
  IF ms = {} THEN <<>> ELSE [i \in DOMAIN stack |-> Results(Reverse(stack)[i], ms)]

\* Mutant: a :by has no query of its own.
GetQueryOfGroups(stack) ==
  IF Len(stack) # 1 THEN FalseQuery
  ELSE CASE IsQuery(stack[1]) -> stack[1]
         [] stack[1].type = "ValueExpression" -> stack[1].query
         [] OTHER -> FalseQuery

\* Interpreter::GetQuery once the program has left its stack.
GetQuery(stack) ==
  IF Len(stack) # 1 THEN FalseQuery
  ELSE LET e == stack[1] IN
       CASE IsQuery(e) -> e
         [] e.type = "ValueExpression" -> e.query
         [] e.type = "MultipleResults" ->
              IF e.class = "All" THEN e.query ELSE e.expr.query
         [] OTHER -> FalseQuery

\* The first loop of get_main_measurements: each measurement goes to the first
\* rule whose query it matches, to none if it matches none.
MeasurementsForRule(rules, ms) ==
  LET Match(m, i) == Matches(GetQuery(rules[i]), TagsOfPair(m))
  IN  [i \in DOMAIN rules |->
         {m \in ms : Match(m, i) /\ \A j \in 1..(i - 1) : ~Match(m, j)}]

\* The second loop: each rule is evaluated over its measurements.
MainMeasurements(rules, ms) ==
  [i \in DOMAIN rules |-> Eval(rules[i], MeasurementsForRule(rules, ms)[i])]
=============================================================================
