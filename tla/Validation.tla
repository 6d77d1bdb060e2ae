----------------------------- MODULE Validation -----------------------------
(***************************************************************************)
(* meter/validation.{h,cc}: which tags the publisher may send.             *)
(* AreTagsValid decides, stopping at the first fault; AnalyzeTags lists    *)
(* every fault for whoever asks.  Strings are told apart by their length,  *)
(* their namespace and whether encoding changes them.                      *)
(***************************************************************************)
EXTENDS Integers, FiniteSets

CONSTANTS
  TagKeys, TagValues,  \* the strings in use
  NameKey,             \* "name"
  Length,              \* the length of each string
  Restricted,          \* the keys that start with "nf." or "atlas."
  Allowed,             \* those of valid_nf_tags, atlas.dstype, atlas.legacy
  RecodedKeys,         \* the keys that ToValidCharset changes
  RecodedValues,       \* what EncodeValueForKey changes: pairs of a key and a value
  MaxKeyLength, MaxValLength, MaxUserTags, MaxNameLength

ASSUME ValidationAssumption ==
  /\ Length \in [TagKeys \cup TagValues -> Nat]
  /\ {MaxKeyLength, MaxValLength, MaxUserTags, MaxNameLength} \subseteq Nat

VARIABLE tags   \* the tags of a meter's id, a function from keys to values

ValidationInit == tags = [k \in {} |-> 0]

\* Tags::add
AddTag(k, v) ==
  tags' = [x \in DOMAIN tags \cup {k} |-> IF x = k THEN v ELSE tags[x]]

ValidationNext == \E k \in TagKeys, v \in TagValues : AddTag(k, v)

ValidationSpec == ValidationInit /\ [][ValidationNext]_tags

EmptyOrNull(s) == Length[s] = 0

IsUserKeyInvalid(k) == k \in Restricted \ Allowed

UserTags(ts) == Cardinality(DOMAIN ts \ (Restricted \ {NameKey}))

\* The body of AreTagsValid's loop
IsTagValid(k, v) ==
  /\ ~EmptyOrNull(k) /\ ~EmptyOrNull(v)
  /\ IF k = NameKey THEN Length[v] <= MaxNameLength
     ELSE /\ Length[k] <= MaxKeyLength
          /\ Length[v] <= MaxValLength
          /\ ~IsUserKeyInvalid(k)

AreTagsValid(ts) ==
  /\ \A k \in DOMAIN ts : IsTagValid(k, ts[k])
  /\ UserTags(ts) <= MaxUserTags
  /\ NameKey \in DOMAIN ts

Issue(level, what, about) == [level |-> level, what |-> what, about |-> about]
When(condition, issue) == IF condition THEN {issue} ELSE {}

\* Mutant: the name is held to the limit of the other tags' values.
AnalyzeTagShortName(k, v) ==
  When(EmptyOrNull(k) \/ EmptyOrNull(v), Issue("ERROR", "empty", k)) \cup
  When(Length[v] > MaxValLength, Issue("ERROR", "value too long", k)) \cup
  When(k # NameKey /\ Length[k] > MaxKeyLength, Issue("ERROR", "key too long", k)) \cup
  When(k # NameKey /\ IsUserKeyInvalid(k), Issue("ERROR", "reserved", k))

\* The body of AnalyzeTags's loop
AnalyzeTag(k, v) ==
  When(k \in RecodedKeys, Issue("WARN", "key encoded", k)) \cup
  When(<<k, v>> \in RecodedValues, Issue("WARN", "value encoded", k)) \cup
  When(EmptyOrNull(k) \/ EmptyOrNull(v), Issue("ERROR", "empty", k)) \cup
  IF k = NameKey
    THEN When(Length[v] > MaxNameLength, Issue("ERROR", "name too long", k))
    ELSE When(Length[k] > MaxKeyLength, Issue("ERROR", "key too long", k)) \cup
         When(Length[v] > MaxValLength, Issue("ERROR", "value too long", k)) \cup
         When(IsUserKeyInvalid(k), Issue("ERROR", "reserved", k))

AnalyzeTags(ts) ==
  (UNION {AnalyzeTag(k, ts[k]) : k \in DOMAIN ts}) \cup
  When(UserTags(ts) > MaxUserTags, Issue("ERROR", "too many", NameKey)) \cup
  When(NameKey \notin DOMAIN ts, Issue("ERROR", "no name", NameKey))

----------------------------------------------------------------------------
(* Properties *)

\* The two agree: tags are published if and only if their analysis shows no
\* error, whatever it warns of.
VerdictsAgree ==
  AreTagsValid(tags) <=> \A issue \in AnalyzeTags(tags) : issue.level # "ERROR"

=============================================================================
