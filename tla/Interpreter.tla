----------------------------- MODULE Interpreter -----------------------------
(***************************************************************************)
(* interpreter/interpreter.cc, context.cc and vocabulary.cc: the stack     *)
(* machine that reads a subscription's or a rule's expression.  One step   *)
(* reads one token; every program over each vocabulary is run, up to the   *)
(* vocabulary's bound on its length.                                       *)
(*                                                                         *)
(* A word that fails returns a message nobody reads and leaves its         *)
(* operands off the stack; one that finds no operand, or not a string or   *)
(* number where it needs one, throws out of functions declared noexcept.   *)
(***************************************************************************)
EXTENDS Evaluation

CONSTANTS
  Numbers,       \* the strings std::stod accepts, with their values
  Measurements,  \* what is evaluated
  Vocabularies,  \* records of a set of tokens and a bound on a program's length
  MaxStack,      \* bound on the height of the stack
  MaxItems       \* bound on the length of a list

VARIABLES
  stack,      \* Context::stack_, its top last
  listDepth,  \* do_program's list_depth
  status,     \* "reading", "stopped" by an unbalanced ")", "threw"
  vocabulary, \* the tokens the program may have
  left,       \* how many more it may have
  meant       \* history: for each place of the stack the sets of tags that
              \* the query there should match

interpreterVars == <<stack, listDepth, status, vocabulary, left, meant>>

Parentheses == {"(", ")"}
Aggregates  == {"COUNT", "SUM", "MIN", "MAX", "AVG"}
Groupings   == {"by", "keep-tags", "drop-tags"}
Words       == RelOps \cup Aggregates \cup Groupings \cup
               {"has", "in", "re", "reic", "not", "and", "or", "false", "true", "all", "unknown"}

AllTags == UNION {[ks -> Strings] : ks \in SUBSET Strings}

ASSUME InterpreterAssumption ==
  /\ MaxDepth \in Nat
  /\ \A v \in Vocabularies : v.length \in 0..MaxDepth
  /\ Lexicon \in Seq(STRING) /\ Words \cup Parentheses \subseteq STRING
  /\ Name \in Strings /\ CommonTags \in AllTags

ASSUME MeasurementsAssumption ==
  /\ IsFiniteSet(Measurements)
  /\ \A m \in Measurements : m.name \in Strings /\ m.tags \in AllTags /\ m.value \in Int \cup {NaN}
  /\ NaN \notin Int \cup (Int \X Nat)

Top(s, n) == s[Len(s) + 1 - n]
Below(s, n) == SubSeq(s, 1, Len(s) - n)

\* What a word does: it pops, and pushes a result or, failing, nothing.
Push(pops, e) == [pops |-> pops, push |-> <<e>>, throws |-> FALSE]
Fail(pops)    == [pops |-> pops, push |-> <<>>,  throws |-> FALSE]
Throw         == [pops |-> 0,    push |-> <<>>,  throws |-> TRUE]

IsLiteral(e) == e.type = "Literal"

\* Can Context::PopString be called twice?
TwoStrings(s) == Len(s) >= 2 /\ IsLiteral(Top(s, 1)) /\ IsLiteral(Top(s, 2))

\* do_query, which catches what PopString throws
ExecuteRelop(op, s) ==
  CASE TwoStrings(s) -> Push(2, RelopQuery(Top(s, 2).string, Top(s, 1).string, op))
    [] ~TwoStrings(s) /\ Len(s) >= 2 -> Fail(IF IsLiteral(Top(s, 1)) THEN 2 ELSE 1)
    [] OTHER -> Fail(Len(s))

\* Is what is below the list a value_expr_from?
IsValue(e) == IsLiteral(e) \/ IsQuery(e) \/ e.type = "ValueExpression"

ValueExprFrom(e) ==
  CASE IsLiteral(e) -> ConstantExpression(Numbers[e.string])
    [] IsQuery(e)   -> AggregateExpression("SUM", e)
    [] OTHER        -> e

\* GroupByWord, DropKeepTagsWord
ExecuteGrouping(w, s) ==
  CASE Len(s) < 2 -> Throw
    [] Len(s) >= 2 /\ IsLiteral(Top(s, 2)) /\ Top(s, 2).string \notin DOMAIN Numbers -> Throw
    [] OTHER ->
         IF Top(s, 1).type # "List" \/ ~IsValue(Top(s, 2)) THEN Fail(2)
         ELSE LET keys == Top(s, 1).items
                  expr == ValueExprFrom(Top(s, 2))
              IN  Push(2, CASE w = "by"        -> GroupBy(keys, expr)
                            [] w = "keep-tags" -> KeepTags(keys, expr)
                            [] w = "drop-tags" -> DropTags(keys, expr))

\* Words of one query: :not, the aggregates, :all
ExecuteOnQuery(w, s) ==
  IF ~IsQuery(Top(s, 1)) THEN Fail(1)
  ELSE Push(1, CASE w = "not" -> NotQ(Top(s, 1))
                 [] w = "all" -> All(Top(s, 1))
                 [] OTHER     -> AggregateExpression(w, Top(s, 1)))

\* Words of two queries: :and, :or
ExecuteOnQueries(w, s) ==
  IF ~(IsQuery(Top(s, 1)) /\ IsQuery(Top(s, 2))) THEN Fail(2)
  ELSE Push(2, IF w = "and" THEN AndQ(Top(s, 2), Top(s, 1)) ELSE OrQ(Top(s, 2), Top(s, 1)))

\* ClientVocabulary::Execute
Execute(w, s) ==
  CASE w = "unknown" -> Fail(0)
    [] w = "true"    -> Push(0, TrueQuery)
    [] w = "false"   -> Push(0, FalseQuery)
    [] w \in RelOps  -> ExecuteRelop(w, s)
    [] w = "has"     -> IF s # <<>> /\ IsLiteral(Top(s, 1))
                          THEN Push(1, HasKeyQuery(Top(s, 1).string)) ELSE Throw
    [] w \in {"re", "reic"} ->
         IF TwoStrings(s)
           THEN Push(2, RegexQuery(Top(s, 2).string, Top(s, 1).string, w = "reic"))
           ELSE Throw
    [] w = "in" ->
         CASE s = <<>> -> Throw
           [] s # <<>> /\ Top(s, 1).type # "List" -> Fail(1)
           [] OTHER -> IF Len(s) >= 2 /\ IsLiteral(Top(s, 2))
                         THEN Push(2, InQuery(Top(s, 2).string, Top(s, 1).items)) ELSE Throw
    [] w \in Groupings -> ExecuteGrouping(w, s)
    [] w \in {"and", "or"} -> IF Len(s) < 2 THEN Throw ELSE ExecuteOnQueries(w, s)
    [] w \in Aggregates \cup {"not", "all"} -> IF s = <<>> THEN Throw ELSE ExecuteOnQuery(w, s)

\* History: the sets of tags that the result of a word stands for.
Meaning(w, s, m) ==
  LET Having(key) == {t \in AllTags : key \in DOMAIN t}
      v == Top(s, 1).string
      k == Top(s, 2).string
  IN  CASE w = "true"  -> AllTags
        [] w = "false" -> {}
        [] w = "has"    -> Having(v)
        [] w \in RelOps -> {t \in Having(k) : DoQuery(t[k], v, w)}
        [] w = "re"     -> {t \in Having(k) : t[k] \in RegexMatch[v][FALSE]}
        [] w = "reic"   -> {t \in Having(k) : t[k] \in RegexMatch[v][TRUE]}
        [] w = "in"     -> {t \in Having(k) : Contains(Top(s, 1).items, t[k])}
        [] w = "not" -> AllTags \ Top(m, 1)
        [] w = "and" -> Top(m, 2) \cap Top(m, 1)
        [] w = "or"  -> Top(m, 2) \cup Top(m, 1)
        [] w \in Groupings -> Top(m, 2)
        [] OTHER -> Top(m, 1)

----------------------------------------------------------------------------
InterpreterInit ==
  /\ stack = <<>> /\ meant = <<>>
  /\ listDepth = 0
  /\ status = "reading"
  /\ \E v \in Vocabularies : vocabulary = v.tokens /\ left = v.length

Read(token) ==
  /\ token \in vocabulary
  /\ status = "reading" /\ left > 0
  /\ left' = left - 1
  /\ UNCHANGED vocabulary

\* Context::PushToList: the list is the top of the stack.
PushToList(item) ==
  /\ Len(stack[Len(stack)].items) < MaxItems
  /\ stack' = [stack EXCEPT ![Len(stack)] = List(Append(@.items, item))]
  /\ UNCHANGED meant

OpenParenthesis ==
  /\ Read("(")
  /\ listDepth' = listDepth + 1
  /\ IF listDepth > 0 THEN PushToList("(")
     ELSE /\ stack' = Append(stack, List(<<>>)) /\ Len(stack) < MaxStack
          /\ meant' = Append(meant, {})
  /\ UNCHANGED status

CloseParenthesis ==
  /\ Read(")")
  /\ listDepth' = listDepth - 1
  /\ IF listDepth > 1 THEN PushToList(")") ELSE UNCHANGED <<stack, meant>>
  /\ status' = IF listDepth = 0 THEN "stopped" ELSE status

\* Inside a list words are strings like the others.
InList ==
  /\ listDepth > 0
  /\ \E t \in Strings \cup Words : Read(t) /\ PushToList(t)
  /\ UNCHANGED <<listDepth, status>>

PushLiteral ==
  /\ listDepth = 0
  /\ Len(stack) < MaxStack
  /\ \E s \in Strings : Read(s) /\ stack' = Append(stack, Literal(s))
  /\ meant' = Append(meant, {})
  /\ UNCHANGED <<listDepth, status>>

ExecuteWord ==
  /\ listDepth = 0
  /\ \E w \in Words :
       LET done == Execute(w, stack)
       IN  /\ Read(w)
           /\ stack' = Below(stack, done.pops) \o done.push
           /\ Len(stack') <= MaxStack
           /\ meant' = Below(meant, done.pops) \o
                       IF done.push = <<>> THEN <<>> ELSE <<Meaning(w, stack, meant)>>
           /\ status' = IF done.throws THEN "threw" ELSE status
  /\ UNCHANGED listDepth

\* do_program
InterpreterNext ==
  OpenParenthesis \/ CloseParenthesis \/ InList \/ PushLiteral \/ ExecuteWord

InterpreterSpec == InterpreterInit /\ [][InterpreterNext]_interpreterVars

----------------------------------------------------------------------------
(* Properties *)

Queries == {i \in DOMAIN stack : IsQuery(stack[i])}

\* The simplifications of :not, :and and :or and the swapping of expensive
\* operands change no query's meaning, through any program.
QueriesMeanWhatIsWritten ==
  \A i \in Queries : {t \in AllTags : Matches(stack[i], t)} = meant[i]

IsConstant(e) ==
  \/ e.type = "ValueExpression" /\ e.aggregate = "CONSTANT"
  \/ e.type = "MultipleResults" /\ e.class # "All" /\ e.expr.aggregate = "CONSTANT"

\* :by, :keep-tags and :drop-tags give what one gets by selecting first and
\* grouping what was selected, and no two of their results have the same tags.
GroupsAreOfTheSelected ==
  \A i \in DOMAIN stack :
    LET e == stack[i] IN
    e.type = "MultipleResults" /\ e.class # "All" /\ ~IsConstant(e) =>
      LET q        == e.expr.query
          results  == Results(e, Measurements)
          KeyOf(m) == Restrict(TagsOfPair(m), {k \in DOMAIN TagsOfPair(m) :
                        IF e.class = "DropTags" THEN k = Name \/ k \notin e.keys ELSE k \in e.keys})
          chosen   == {m \in Measurements :
                         /\ m.value # NaN
                         /\ TagsOfPair(m) \in meant[i]
                         /\ e.class # "DropTags" => e.keys \subseteq DOMAIN TagsOfPair(m)}
      IN  /\ {r.value : r \in results} =
               {Aggregate(e.expr.aggregate, {m \in chosen : KeyOf(m) = k}) : k \in {KeyOf(m) : m \in chosen}}
          /\ \A k \in {KeyOf(m) : m \in chosen} : \E r \in results :
               /\ k = Restrict(r.tags, DOMAIN k \cap DOMAIN r.tags)
               /\ r.value = Aggregate(e.expr.aggregate, {m \in chosen : KeyOf(m) = k})
          /\ \A r1, r2 \in results : r1.tags = r2.tags => r1 = r2

\* A rule gives of the measurements picked for it by its query what it gives
\* of all of them: picking them loses nothing the rule wants.  A rule that is
\* several expressions, or a constant, gets none.
RulesGetAllTheyWant ==
  Len(stack) = 1 /\ ~IsConstant(stack[1]) =>
    LET catchAll == <<All(TrueQuery)>>
        main     == MainMeasurements(<<stack, catchAll>>, Measurements)
    IN  main[1] \in {Eval(stack, Measurements), <<>>} /\
        (main[1] = <<>> => \A rs \in Range(Eval(stack, Measurements)) : rs = {})
=============================================================================
