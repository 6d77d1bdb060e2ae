---------------------------- MODULE MCInterpreter ----------------------------
EXTENDS QueryIndex
TheLexicon == <<"1", "name">>
TheRegexes == [pattern \in {"1", "name"} |-> [ignoreCase \in BOOLEAN |-> {pattern}]]
TheNumbers == "1" :> 1
\* Every id over the strings, values that tell any sum apart, one NaN
TheMeasurements ==
  {[name |-> "1", tags |-> NoTags, value |-> 1], [name |-> "name", tags |-> NoTags, value |-> 2],
   [name |-> "1", tags |-> "1" :> "1", value |-> 4], [name |-> "1", tags |-> "1" :> "name", value |-> 8],
   [name |-> "name", tags |-> "1" :> "1", value |-> 16], [name |-> "name", tags |-> "1" :> "name", value |-> NaN]}
\* All words, briefly; what queries are made of; products of sums; lists; groups.
TheVocabularies ==
  {[tokens |-> Strings \cup Words \cup Parentheses, length |-> 6],
   [tokens |-> {"1", "name", "EQ", "LT", "has", "not", "and", "or"}, length |-> 9],
   [tokens |-> {"1", "name", "has", "not", "and", "or"}, length |-> 13],
   [tokens |-> {"1", "name", "(", ")", "in", "not"}, length |-> 8],
   [tokens |-> {"1", "name", "(", ")", "EQ", "AVG", "by", "keep-tags", "drop-tags"}, length |-> 9]}
=============================================================================
