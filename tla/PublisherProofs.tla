--------------------------- MODULE PublisherProofs ---------------------------
(***************************************************************************)
(* Publisher's accounting, for every batch size, set of threads and lists. *)
(***************************************************************************)
EXTENDS Publisher, FiniteSetTheorems, SequenceTheorems, TLAPS

-----------------------------------------------------------------------------
(* Lists and batches *)

LEMMA ListType ==
  ASSUME TypeOK, NEW p \in Pushers
  PROVE  /\ list[p] \in Seq(Kinds)
         /\ Len(list[p]) \in Nat
         /\ DOMAIN list[p] = 1..Len(list[p])
         /\ IsFiniteSet(DOMAIN list[p])
         /\ Cardinality(DOMAIN list[p]) = Len(list[p])
<1>1. list[p] \in Seq(Kinds)
  BY DEF TypeOK
<1>2. Len(list[p]) \in Nat /\ DOMAIN list[p] = 1..Len(list[p])
  BY <1>1
<1> QED BY <1>1, <1>2, FS_Interval

\* Some measurements are as many as those of each kind together.
LEMMA ByKind ==
  ASSUME TypeOK, NEW p \in Pushers, NEW S \in SUBSET DOMAIN list[p]
  PROVE  /\ IsFiniteSet(S) /\ IsFiniteSet(Added(p, S))
         /\ Cardinality(S) \in Nat /\ Cardinality(Added(p, S)) \in Nat
         /\ Errors(p, S) \in Nat /\ Cardinality(Of(p, S, "nan")) \in Nat
         /\ Cardinality(S) = Cardinality(Added(p, S)) + Errors(p, S)
                               + Cardinality(Of(p, S, "nan"))
<1> DEFINE K(kind) == Of(p, S, kind)
<1>1. IsFiniteSet(S)
  BY ListType, FS_Subset
<1>2. \A kind : IsFiniteSet(K(kind)) /\ Cardinality(K(kind)) \in Nat
  <2> SUFFICES ASSUME NEW kind PROVE IsFiniteSet(K(kind)) /\ Cardinality(K(kind)) \in Nat
    OBVIOUS
  <2>1. K(kind) \in SUBSET S
    BY DEF Of
  <2> QED BY <1>1, <2>1, FS_Subset, FS_CardinalityType
<1>3. S = (K("ok") \cup K("invalid")) \cup K("nan")
  <2>1. \A i \in S : list[p][i] \in Kinds
    BY ListType
  <2> QED BY <2>1 DEF Of, Kinds
<1>4. /\ K("ok") \cap K("invalid") = {}
      /\ (K("ok") \cup K("invalid")) \cap K("nan") = {}
  BY DEF Of
<1>5. /\ IsFiniteSet(K("ok") \cup K("invalid"))
      /\ Cardinality(K("ok") \cup K("invalid"))
           = Cardinality(K("ok")) + Cardinality(K("invalid")) - Cardinality({})
  BY <1>2, <1>4, FS_Union
<1>6. Cardinality(S) = Cardinality(K("ok") \cup K("invalid")) + Cardinality(K("nan"))
                         - Cardinality({})
  BY <1>2, <1>3, <1>4, <1>5, FS_Union
<1>7. Cardinality({}) = 0
  BY FS_EmptySet
<1>8. Cardinality(S) = Cardinality(K("ok")) + Cardinality(K("invalid")) + Cardinality(K("nan"))
  BY <1>2, <1>5, <1>6, <1>7
<1>9. Cardinality(S) \in Nat
  BY <1>1, FS_CardinalityType
<1> QED BY <1>1, <1>2, <1>8, <1>9 DEF Added, Errors

\* A batch is the interval of the list that starts at from.
LEMMA BatchIsInterval ==
  ASSUME TypeOK, NEW p \in Pushers
  PROVE  /\ NextBatch(p) \in SUBSET DOMAIN list[p]
         /\ Cardinality(NextBatch(p)) \in Nat
         /\ from[p] + Cardinality(NextBatch(p)) <= Len(list[p]) + 1
         /\ NextBatch(p) = from[p] .. from[p] + Cardinality(NextBatch(p)) - 1
<1> DEFINE f == from[p]
           len == Len(list[p])
           last == IF f + BatchSize - 1 <= len THEN f + BatchSize - 1 ELSE len
<1>1. f \in Nat \ {0} /\ f <= len + 1 /\ len \in Nat /\ BatchSize \in Nat \ {0}
  BY ListType, PublisherAssumption DEF TypeOK
<1>2. last \in Int /\ last >= f - 1 /\ last <= len
  BY <1>1
<1>3. NextBatch(p) = f .. last
  BY <1>1, ListType DEF NextBatch
<1>4. f \in Int
  BY <1>1
<1>5. DOMAIN list[p] = 1..len
  BY ListType
<1> HIDE DEF f, last, len
<1>6. Cardinality(f .. last) = IF f > last THEN 0 ELSE last - f + 1
  BY <1>2, <1>4, FS_Interval
<1>7. Cardinality(NextBatch(p)) = last - f + 1
  BY <1>1, <1>2, <1>3, <1>6
<1>8. /\ NextBatch(p) \in SUBSET (1..len)
      /\ Cardinality(NextBatch(p)) \in Nat
      /\ f + Cardinality(NextBatch(p)) <= len + 1
      /\ NextBatch(p) = f .. f + Cardinality(NextBatch(p)) - 1
  BY <1>1, <1>2, <1>3, <1>7
<1> QED BY <1>5, <1>8 DEF f, len

-----------------------------------------------------------------------------
(* Types *)

\* Batches are of the list that is being published, and of no other.
WithinList ==
  \A p \in Pushers :
    /\ batch[p] \in SUBSET DOMAIN list[p]
    /\ \A b \in DOMAIN batches[p] : batches[p][b] \in SUBSET DOMAIN list[p]
    /\ pc[p] # "post" => batch[p] = {}
    /\ pc[p] \notin {"build", "multi"} => batches[p] = <<>>

Typing == TypeOK /\ WithinList

\* The valid measurements of some batches are some of the list.
LEMMA InBatchesFinite ==
  ASSUME Typing, NEW p \in Pushers, NEW B \in SUBSET DOMAIN batches[p]
  PROVE  /\ InBatches(p, B) \in SUBSET DOMAIN list[p]
         /\ IsFiniteSet(InBatches(p, B))
         /\ Cardinality(InBatches(p, B)) \in Nat
<1>1. InBatches(p, B) \in SUBSET DOMAIN list[p]
  BY DEF InBatches, Added, Of, Typing, WithinList
<1> QED BY <1>1, ListType, FS_Subset, FS_CardinalityType DEF Typing

LEMMA TypingInit == Init => Typing
<1> SUFFICES ASSUME Init PROVE Typing
  OBVIOUS
<1>1. MaxCalls \in Nat
  BY PublisherAssumption
<1>2. TypeOK
  BY <1>1 DEF Init, TypeOK
<1>3. WithinList
  BY DEF Init, WithinList
<1> QED BY <1>2, <1>3 DEF Typing

LEMMA TypingBegin ==
  ASSUME Typing, NEW p \in Pushers, NEW l \in Lists, NEW label \in {"serial", "build", "lwc"},
         Begin(p, l, label)
  PROVE  Typing'
<1>1. l \in Seq(Kinds) /\ Len(l) \in Nat
  BY PublisherAssumption
<1>2. TypeOK'
  BY <1>1, PublisherAssumption DEF Typing, TypeOK, Begin, Goto, counters
<1>3. WithinList'
  BY SMTT(30), <1>1 DEF Typing, TypeOK, WithinList, Begin, Goto
<1> QED BY <1>2, <1>3 DEF Typing

\* Posting keeps a number for each measurement of the list.
LEMMA PostTyping ==
  ASSUME TypeOK, NEW p \in Pushers, NEW S, Post(p, S), list' = list
  PROVE  /\ DOMAIN posted' = Pushers
         /\ \A q \in Pushers : posted'[q] \in [DOMAIN list'[q] -> Nat]
<1>1. /\ posted' = [posted EXCEPT ![p] =
                      [i \in DOMAIN posted[p] |->
                         IF i \in S THEN posted[p][i] + 1 ELSE posted[p][i]]]
      /\ DOMAIN posted = Pushers
      /\ \A q \in Pushers : posted[q] \in [DOMAIN list[q] -> Nat]
  BY DEF Post, TypeOK
<1>2. [i \in DOMAIN posted[p] |-> IF i \in S THEN posted[p][i] + 1 ELSE posted[p][i]]
        \in [DOMAIN list[p] -> Nat]
  BY <1>1
<1> QED BY <1>1, <1>2

LEMMA TypingSendBatch ==
  ASSUME Typing, NEW p \in Pushers, SendBatch(p)
  PROVE  Typing'
<1> DEFINE S == NextBatch(p)
           A == Added(p, S)
<1>1. /\ S \in SUBSET DOMAIN list[p] /\ Cardinality(S) \in Nat
      /\ from[p] + Cardinality(S) \in Nat \ {0}
      /\ from[p] + Cardinality(S) <= Len(list[p]) + 1
  BY BatchIsInterval DEF Typing, TypeOK
<1>2. /\ Errors(p, S) \in Nat /\ Cardinality(Of(p, S, "nan")) \in Nat
      /\ A \in SUBSET DOMAIN list[p] /\ A \in SUBSET Nat
  <2>1. A \in SUBSET S
    BY DEF Added, Of
  <2>2. DOMAIN list[p] \in SUBSET Nat
    BY ListType DEF Typing
  <2> QED BY <1>1, <2>1, <2>2, ByKind DEF Typing
<1>3. \/ A = {} /\ UNCHANGED <<pc, posted>>
      \/ Goto(p, "post") /\ Post(p, A)
  BY DEF SendBatch
<1>4. /\ pc[p] = "serial"
      /\ validationErrors' = validationErrors + Errors(p, S)
      /\ total' = total + Cardinality(S)
      /\ nans' = nans + Cardinality(Of(p, S, "nan"))
      /\ batch' = [batch EXCEPT ![p] = A]
      /\ from' = [from EXCEPT ![p] = from[p] + Cardinality(S)]
      /\ UNCHANGED <<calls, list, batches, codes, sent, httpErrors, lwcErrors, received>>
  BY DEF SendBatch, Advance
<1> HIDE DEF S, A
<1>5. /\ DOMAIN posted' = Pushers
      /\ \A q \in Pushers : posted'[q] \in [DOMAIN list'[q] -> Nat]
  BY <1>3, <1>4, PostTyping DEF Typing, TypeOK
<1>6. pc' \in [Pushers -> {"idle", "serial", "post", "build", "multi", "lwc"}]
  BY <1>3 DEF Typing, TypeOK, Goto
<1>7. TypeOK'
  <2>1. validationErrors' \in Nat /\ total' \in Nat /\ nans' \in Nat
    <3> DEFINE e == Errors(p, S)
               n == Cardinality(Of(p, S, "nan"))
               m == Cardinality(S)
    <3>1. /\ validationErrors' = validationErrors + e /\ total' = total + m /\ nans' = nans + n
          /\ e \in Nat /\ n \in Nat /\ m \in Nat
      BY <1>1, <1>2, <1>4
    <3> HIDE DEF e, n, m
    <3> QED BY <3>1 DEF Typing, TypeOK
  <2>2. batch' \in [Pushers -> SUBSET Nat]
    <3>1. A \in SUBSET Nat /\ batch' = [batch EXCEPT ![p] = A]
      BY <1>2, <1>4
    <3> QED BY <3>1 DEF Typing, TypeOK
  <2>3. /\ from' \in [Pushers -> Nat \ {0}]
        /\ \A q \in Pushers : from'[q] <= Len(list'[q]) + 1
    BY <1>1, <1>4 DEF Typing, TypeOK
  <2> QED BY <1>4, <1>5, <1>6, <2>1, <2>2, <2>3 DEF Typing, TypeOK
<1>8. WithinList'
  BY <1>2, <1>3, <1>4 DEF Typing, TypeOK, WithinList, Goto
<1> QED BY <1>7, <1>8 DEF Typing

LEMMA TypingEndPost ==
  ASSUME Typing, NEW p \in Pushers, EndPost(p)
  PROVE  Typing'
<1>1. Cardinality(batch[p]) \in Nat
  BY ListType, FS_Subset, FS_CardinalityType DEF Typing, WithinList
<1>2. sent' \in Nat /\ httpErrors' \in Nat /\ received' \in Nat
  <2>1. PICK code \in {200, 400} :
          /\ Count(p, code, batch[p])
          /\ received' \in {received + Cardinality(batch[p])}
                             \cup (IF code = 200 THEN {} ELSE {received})
    BY DEF EndPost
  <2> DEFINE n == Cardinality(batch[p])
  <2>2. /\ sent' \in {sent, sent + n} /\ httpErrors' \in {httpErrors, httpErrors + n}
        /\ received' \in {received, received + n}
    BY <2>1 DEF Count
  <2>3. n \in Nat /\ sent \in Nat /\ httpErrors \in Nat /\ received \in Nat
    BY <1>1 DEF Typing, TypeOK
  <2> HIDE DEF n
  <2> QED BY <2>2, <2>3
<1>3. TypeOK'
  BY <1>2 DEF Typing, TypeOK, EndPost, Goto
<1>4. WithinList'
  BY DEF Typing, TypeOK, WithinList, EndPost, Goto
<1> QED BY <1>3, <1>4 DEF Typing

LEMMA TypingBuildBatch ==
  ASSUME Typing, NEW p \in Pushers, BuildBatch(p)
  PROVE  Typing'
<1> DEFINE S == NextBatch(p)
           bs == batches[p]
           cs == codes[p]
<1>1. /\ S \in SUBSET DOMAIN list[p] /\ Cardinality(S) \in Nat
      /\ from[p] + Cardinality(S) \in Nat \ {0}
      /\ from[p] + Cardinality(S) <= Len(list[p]) + 1
      /\ S \in SUBSET Nat
  <2>1. DOMAIN list[p] \in SUBSET Nat
    BY ListType DEF Typing
  <2> QED BY <2>1, BatchIsInterval DEF Typing, TypeOK
<1>2. /\ bs \in Seq(SUBSET Nat) /\ cs \in Seq({0, 200, 400}) /\ Len(cs) = Len(bs)
      /\ \A b \in DOMAIN bs : bs[b] \in SUBSET DOMAIN list[p]
  BY DEF Typing, TypeOK, WithinList
<1>3. /\ pc[p] = "build"
      /\ batches' = [batches EXCEPT ![p] = Append(bs, S)]
      /\ codes' = [codes EXCEPT ![p] = Append(cs, 0)]
      /\ from' = [from EXCEPT ![p] = from[p] + Cardinality(S)]
      /\ UNCHANGED <<calls, pc, list, batch, counters, history>>
  BY DEF BuildBatch, Advance
<1> HIDE DEF S, bs, cs
<1>4. /\ Append(bs, S) \in Seq(SUBSET Nat) /\ Append(cs, 0) \in Seq({0, 200, 400})
      /\ Len(Append(cs, 0)) = Len(Append(bs, S))
      /\ \A b \in DOMAIN Append(bs, S) : Append(bs, S)[b] \in SUBSET DOMAIN list[p]
  <2>1. /\ Append(bs, S) \in Seq(SUBSET Nat) /\ Len(Append(bs, S)) = Len(bs) + 1
        /\ \A b \in 1..Len(bs) : Append(bs, S)[b] = bs[b]
        /\ Append(bs, S)[Len(bs) + 1] = S
    BY <1>1, <1>2, AppendProperties
  <2>2. Append(cs, 0) \in Seq({0, 200, 400}) /\ Len(Append(cs, 0)) = Len(cs) + 1
    BY <1>2, 0 \in {0, 200, 400}, AppendProperties
  <2>3. DOMAIN bs = 1..Len(bs) /\ DOMAIN Append(bs, S) = 1 .. Len(bs) + 1 /\ Len(bs) \in Nat
    BY <1>2, <2>1, LenProperties
  <2>4. \A b \in 1 .. Len(bs) + 1 : b \in 1..Len(bs) \/ b = Len(bs) + 1
    BY <2>3
  <2>5. \A b \in DOMAIN Append(bs, S) : Append(bs, S)[b] \in SUBSET DOMAIN list[p]
    BY <1>1, <1>2, <2>1, <2>3, <2>4
  <2> QED BY <1>2, <2>1, <2>2, <2>5
<1>5. TypeOK'
  BY SMTT(30), <1>1, <1>3, <1>4 DEF Typing, TypeOK, counters, history
<1>6. WithinList'
  BY <1>3, <1>4 DEF Typing, TypeOK, WithinList
<1> QED BY <1>5, <1>6 DEF Typing

LEMMA TypingPostBatches ==
  ASSUME Typing, NEW p \in Pushers, PostBatches(p)
  PROVE  Typing'
<1>1. /\ DOMAIN posted' = Pushers
      /\ \A q \in Pushers : posted'[q] \in [DOMAIN list'[q] -> Nat]
  BY PostTyping DEF Typing, PostBatches, loopVars
<1>2. TypeOK'
  BY <1>1 DEF Typing, TypeOK, PostBatches, Goto, loopVars, counters
<1>3. WithinList'
  BY DEF Typing, TypeOK, WithinList, PostBatches, Goto, loopVars
<1> QED BY <1>2, <1>3 DEF Typing

LEMMA TypingEndTransfer ==
  ASSUME Typing, NEW p \in Pushers, EndTransfer(p)
  PROVE  Typing'
<1>1. PICK b \in DOMAIN batches[p], code \in {200, 400} :
        /\ codes[p][b] = 0
        /\ codes' = [codes EXCEPT ![p][b] = code]
        /\ received' \in {received + Cardinality(Added(p, batches[p][b]))}
                           \cup (IF code = 200 THEN {} ELSE {received})
  BY Zenon DEF EndTransfer
<1>2. Cardinality(Added(p, batches[p][b])) \in Nat
  <2>1. batches[p][b] \in SUBSET DOMAIN list[p]
    <3>1. \A c \in DOMAIN batches[p] : batches[p][c] \in SUBSET DOMAIN list[p]
      BY DEF Typing, WithinList
    <3> DEFINE bs == batches[p]
               S  == SUBSET DOMAIN list[p]
    <3>2. \A c \in DOMAIN bs : bs[c] \in S
      BY <3>1
    <3>3. b \in DOMAIN bs
      OBVIOUS
    <3> HIDE DEF bs, S
    <3>4. bs[b] \in S
      BY <3>2, <3>3
    <3> QED BY <3>4 DEF bs, S
  <2> QED BY <2>1, ByKind DEF Typing
<1>3. [codes[p] EXCEPT ![b] = code] \in Seq({0, 200, 400})
      /\ Len([codes[p] EXCEPT ![b] = code]) = Len(batches[p])
  <2>1. codes[p] \in Seq({0, 200, 400}) /\ b \in 1 .. Len(codes[p])
        /\ Len(codes[p]) = Len(batches[p]) /\ code \in {0, 200, 400}
    BY DEF Typing, TypeOK
  <2> QED BY <2>1, ExceptSeq
<1>4. codes' = [codes EXCEPT ![p] = [codes[p] EXCEPT ![b] = code]]
  BY <1>1 DEF Typing, TypeOK
<1>5. received' \in Nat
  BY <1>1, <1>2 DEF Typing, TypeOK
<1>6. TypeOK'
  <2>1. UNCHANGED <<calls, pc, list, from, batch, batches, counters, nans, posted>>
    BY DEF EndTransfer
  <2>2. codes' \in [Pushers -> Seq({0, 200, 400})]
    BY <1>3, <1>4 DEF Typing, TypeOK
  <2>3. \A q \in Pushers : Len(codes'[q]) = Len(batches'[q])
    BY <1>3, <1>4, <2>1 DEF Typing, TypeOK
  <2> QED BY SMTT(30), <1>5, <2>1, <2>2, <2>3 DEF Typing, TypeOK, counters
<1>7. WithinList'
  BY DEF Typing, TypeOK, WithinList, EndTransfer
<1> QED BY <1>6, <1>7 DEF Typing

LEMMA TypingCountBatches ==
  ASSUME Typing, NEW p \in Pushers, CountBatches(p)
  PROVE  Typing'
<1>1. /\ Errors(p, DOMAIN list[p]) \in Nat /\ Len(list[p]) \in Nat
      /\ Cardinality(Of(p, DOMAIN list[p], "nan")) \in Nat
  BY ByKind, ListType DEF Typing
<1>2. \A B \in SUBSET DOMAIN batches[p] : Cardinality(InBatches(p, B)) \in Nat
  BY InBatchesFinite
<1>3. /\ Cardinality(InBatches(p, Success(p))) \in Nat
      /\ Cardinality(InBatches(p, DOMAIN batches[p] \ Success(p))) \in Nat
      /\ \A B \in SUBSET Pending(p) : Cardinality(InBatches(p, B)) \in Nat
  BY <1>2 DEF Success, Pending
<1>4. PICK B \in SUBSET Pending(p) : received' = received + Cardinality(InBatches(p, B))
  BY DEF CountBatches
<1> DEFINE ok  == Cardinality(InBatches(p, Success(p)))
           bad == Cardinality(InBatches(p, DOMAIN batches[p] \ Success(p)))
           had == Cardinality(InBatches(p, B))
           e   == Errors(p, DOMAIN list[p])
           n   == Cardinality(Of(p, DOMAIN list[p], "nan"))
           m   == Len(list[p])
<1>5. /\ validationErrors' \in Nat /\ total' \in Nat /\ nans' \in Nat
      /\ sent' \in Nat /\ httpErrors' \in Nat /\ received' \in Nat
  <2>1. /\ validationErrors' = validationErrors + e /\ total' = total + m /\ nans' = nans + n
        /\ sent' = sent + ok /\ httpErrors' = httpErrors + bad /\ received' = received + had
    BY <1>4 DEF CountBatches
  <2>2. ok \in Nat /\ bad \in Nat /\ had \in Nat
    BY <1>3, B \in SUBSET Pending(p)
  <2>3. e \in Nat /\ n \in Nat /\ m \in Nat
    BY <1>1
  <2>4. /\ validationErrors \in Nat /\ total \in Nat /\ nans \in Nat
        /\ sent \in Nat /\ httpErrors \in Nat /\ received \in Nat
    BY DEF Typing, TypeOK
  <2> HIDE DEF ok, bad, had, e, n, m
  <2> QED BY <2>1, <2>2, <2>3, <2>4
<1>6. /\ Goto(p, "idle") /\ batches' = [batches EXCEPT ![p] = <<>>]
      /\ codes' = [codes EXCEPT ![p] = <<>>]
      /\ UNCHANGED <<calls, list, from, batch, lwcErrors, posted>>
      /\ pc[p] = "multi"
  BY DEF CountBatches
<1>7. TypeOK'
  <2>1. pc' \in [Pushers -> {"idle", "serial", "post", "build", "multi", "lwc"}]
    BY <1>6 DEF Typing, TypeOK, Goto
  <2>2. <<>> \in Seq(SUBSET Nat) /\ <<>> \in Seq({0, 200, 400})
    OBVIOUS
  <2>3. /\ batches' \in [Pushers -> Seq(SUBSET Nat)]
        /\ codes' \in [Pushers -> Seq({0, 200, 400})]
    BY <1>6, <2>2 DEF Typing, TypeOK
  <2>4. \A q \in Pushers : Len(codes'[q]) = Len(batches'[q])
    BY <1>6 DEF Typing, TypeOK
  <2> QED BY <1>5, <1>6, <2>1, <2>3, <2>4 DEF Typing, TypeOK
<1>8. WithinList'
  BY <1>6 DEF Typing, TypeOK, WithinList, Goto
<1> QED BY <1>7, <1>8 DEF Typing

LEMMA TypingBatchToLwc ==
  ASSUME Typing, NEW p \in Pushers, BatchToLwc(p)
  PROVE  Typing'
<1>1. /\ from[p] + Cardinality(NextBatch(p)) \in Nat \ {0}
      /\ from[p] + Cardinality(NextBatch(p)) <= Len(list[p]) + 1
  BY SMTT(30), BatchIsInterval DEF Typing, TypeOK
<1>2. /\ DOMAIN posted' = Pushers
      /\ \A q \in Pushers : posted'[q] \in [DOMAIN list'[q] -> Nat]
  BY PostTyping DEF Typing, BatchToLwc
<1>3. lwcErrors' \in Nat
  BY DEF Typing, TypeOK, BatchToLwc
<1>4. TypeOK'
  BY <1>1, <1>2, <1>3 DEF Typing, TypeOK, BatchToLwc, Advance
<1>5. WithinList'
  BY DEF Typing, TypeOK, WithinList, BatchToLwc
<1> QED BY <1>4, <1>5 DEF Typing

LEMMA TypingReturn ==
  ASSUME Typing, NEW p \in Pushers, Return(p)
  PROVE  Typing'
<1>1. TypeOK'
  BY DEF Typing, TypeOK, Return, Goto, loopVars, counters, history
<1>2. WithinList'
  BY DEF Typing, TypeOK, WithinList, Return, Goto, loopVars
<1> QED BY <1>1, <1>2 DEF Typing

LEMMA TypingNext == Typing /\ [Next]_vars => Typing'
<1> SUFFICES ASSUME Typing, [Next]_vars PROVE Typing'
  OBVIOUS
<1>1. CASE UNCHANGED vars
  <2>1. TypeOK'
    BY <1>1 DEF Typing, TypeOK, vars, loopVars, counters, history
  <2>2. WithinList'
    BY <1>1 DEF Typing, WithinList, vars, loopVars
  <2> QED BY <2>1, <2>2 DEF Typing
<1>2. ASSUME NEW p \in Pushers, NEW l \in Lists, PushMeasurements(p, l) PROVE Typing'
  BY <1>2, TypingBegin DEF PushMeasurements
<1>3. ASSUME NEW p \in Pushers, NEW l \in Results, SendSubscriptions(p, l) PROVE Typing'
  BY <1>3, TypingBegin DEF SendSubscriptions, Results
<1>4. ASSUME NEW p \in Pushers, Publish(p) PROVE Typing'
  BY <1>4, TypingSendBatch, TypingEndPost, TypingBuildBatch, TypingPostBatches,
     TypingEndTransfer, TypingCountBatches, TypingBatchToLwc, TypingReturn DEF Publish
<1> QED BY <1>1, <1>2, <1>3, <1>4 DEF Next

\* Type correctness, for every batch size and every list: no loop passes the end
\* of its list, and the counters stay natural numbers.
THEOREM TypeCorrect == Spec => []TypeOK
<1>1. Typing => TypeOK
  BY DEF Typing
<1> QED BY <1>1, TypingInit, TypingNext, PTL DEF Spec

LEMMA TypingInvariant == Spec => []Typing
BY TypingInit, TypingNext, PTL DEF Spec

-----------------------------------------------------------------------------
(* The batches of a call *)

\* What comes before the loop's place after a batch came before it already, or is in
\* the batch.
LEMMA BatchExtends ==
  ASSUME TypeOK, NEW p \in Pushers, Advance(p)
  PROVE  \A i \in DOMAIN list[p] :
           /\ i < from'[p] <=> i < from[p] \/ i \in NextBatch(p)
           /\ i < from[p] => i \notin NextBatch(p)
<1>1. from'[p] = from[p] + Cardinality(NextBatch(p)) /\ from[p] \in Nat
  BY DEF Advance, TypeOK
<1>2. DOMAIN list[p] \in SUBSET Nat
  BY ListType
<1> DEFINE c == Cardinality(NextBatch(p))
           f == from[p]
<1>3. c \in Nat /\ NextBatch(p) = f .. f + c - 1
  BY BatchIsInterval
<1>4. from'[p] = f + c /\ f \in Nat
  BY <1>1
<1> HIDE DEF c, f
<1>5. \A i \in Nat : /\ i < f + c <=> i < f \/ i \in f .. f + c - 1
                     /\ i < f => i \notin f .. f + c - 1
  BY <1>3, <1>4
<1> QED BY <1>2, <1>3, <1>4, <1>5 DEF f

\* The batches built so far are disjoint, and are what the loop has passed.
Partition ==
  \A p \in Pushers :
    /\ pc[p] \in {"build", "multi"} =>
         /\ \A i \in DOMAIN list[p] :
              i < from[p] <=> \E b \in DOMAIN batches[p] : i \in batches[p][b]
         /\ \A b, c \in DOMAIN batches[p] : b # c => batches[p][b] \cap batches[p][c] = {}
    /\ pc[p] = "multi" => AtEnd(p)

LEMMA PartitionBuildBatch ==
  ASSUME Typing, Partition, NEW p \in Pushers, BuildBatch(p)
  PROVE  Partition'
<1> DEFINE S  == NextBatch(p)
           bs == batches[p]
           bt == Append(bs, S)
           D  == DOMAIN list[p]
<1>1. /\ pc[p] = "build" /\ Advance(p)
      /\ batches' = [batches EXCEPT ![p] = bt]
      /\ UNCHANGED <<pc, list>>
  BY DEF BuildBatch
<1>2. bs \in Seq(SUBSET Nat) /\ S \in SUBSET D /\ D \in SUBSET Nat /\ S \in SUBSET Nat
  BY SMTT(30), BatchIsInterval, ListType DEF Typing, TypeOK
<1>3. /\ DOMAIN bs = 1..Len(bs) /\ Len(bs) \in Nat
      /\ DOMAIN bt = 1 .. Len(bs) + 1
      /\ \A b \in DOMAIN bs : bt[b] = bs[b]
      /\ bt[Len(bs) + 1] = S
  <2>1. /\ bt \in Seq(SUBSET Nat) /\ Len(bt) = Len(bs) + 1
        /\ \A b \in 1..Len(bs) : bt[b] = bs[b]
        /\ bt[Len(bs) + 1] = S
    BY <1>2, AppendProperties
  <2> QED BY <1>2, <2>1, LenProperties
<1>4. \A i \in D : /\ i < from'[p] <=> i < from[p] \/ i \in S
                   /\ i < from[p] => i \notin S
  BY <1>1, BatchExtends DEF Typing
<1>5. /\ \A i \in D : i < from[p] <=> \E b \in DOMAIN bs : i \in bs[b]
      /\ \A b, c \in DOMAIN bs : b # c => bs[b] \cap bs[c] = {}
      /\ \A b \in DOMAIN bs : bs[b] \in SUBSET D
  BY <1>1 DEF Partition, Typing, WithinList
<1>6. from' = [from EXCEPT ![p] = from'[p]]
  BY <1>1 DEF Advance, Typing, TypeOK
<1>7. D' = D /\ batches'[p] = bt
  BY <1>1 DEF Typing, TypeOK
<1> HIDE DEF S, bs, bt, D
<1>8. \A i \in D : i < from'[p] <=> \E b \in DOMAIN bt : i \in bt[b]
  <2>1. \A b \in DOMAIN bt : b \in DOMAIN bs \/ b = Len(bs) + 1
    BY <1>3
  <2>2. Len(bs) + 1 \in DOMAIN bt /\ \A b \in DOMAIN bs : b \in DOMAIN bt
    BY <1>3
  <2> QED BY <1>3, <1>4, <1>5, <2>1, <2>2
<1>9. \A b, c \in DOMAIN bt : b # c => bt[b] \cap bt[c] = {}
  <2>1. \A b \in DOMAIN bs : bs[b] \cap S = {}
    BY <1>4, <1>5
  <2>2. \A b \in DOMAIN bt : b \in DOMAIN bs \/ b = Len(bs) + 1
    BY <1>3
  <2> QED BY <1>3, <1>5, <2>1, <2>2
<1>10. ASSUME NEW q \in Pushers, q # p
       PROVE  /\ pc'[q] = pc[q] /\ list'[q] = list[q] /\ batches'[q] = batches[q]
              /\ from'[q] = from[q]
  BY <1>1, <1>6, <1>10 DEF Typing, TypeOK
<1>11. pc'[p] = "build"
  BY <1>1
<1> QED BY <1>7, <1>8, <1>9, <1>10, <1>11 DEF Partition, AtEnd, D

LEMMA PartitionNext == Typing /\ Partition /\ [Next]_vars => Partition'
<1> SUFFICES ASSUME Typing, Partition, [Next]_vars PROVE Partition'
  OBVIOUS
<1>1. CASE UNCHANGED vars
  BY <1>1 DEF Partition, AtEnd, vars, loopVars
<1>2. ASSUME NEW p \in Pushers, NEW l, NEW label \in {"serial", "build", "lwc"},
             l \in Seq(Kinds), Begin(p, l, label)
      PROVE  Partition'
  <2>1. /\ batches[p] = <<>> /\ DOMAIN l \in SUBSET Nat /\ \A i \in DOMAIN l : i >= 1
    <3>1. pc[p] = "idle"
      BY <1>2 DEF Begin
    <3>2. Len(l) \in Nat /\ DOMAIN l = 1..Len(l)
      BY <1>2, LenProperties
    <3>3. batches[p] = <<>>
      BY <3>1 DEF Typing, WithinList
    <3> QED BY <3>2, <3>3
  <2>2. /\ pc' = [pc EXCEPT ![p] = label] /\ list' = [list EXCEPT ![p] = l]
        /\ from' = [from EXCEPT ![p] = 1] /\ batches' = batches
    BY <1>2 DEF Begin, Goto
  <2> QED BY SMTT(30), <2>1, <2>2 DEF Partition, AtEnd, Typing, TypeOK
<1>3. ASSUME NEW p \in Pushers, SendBatch(p) PROVE Partition'
  <2>1. /\ pc[p] = "serial" /\ UNCHANGED <<list, batches>> /\ Advance(p)
        /\ pc' = pc \/ pc' = [pc EXCEPT ![p] = "post"]
    BY <1>3 DEF SendBatch, Goto
  <2> QED BY <2>1 DEF Partition, AtEnd, Advance, Typing, TypeOK
<1>4. ASSUME NEW p \in Pushers, EndPost(p) PROVE Partition'
  BY SMTT(30), <1>4 DEF EndPost, Goto, Partition, AtEnd, Typing, TypeOK
<1>5. ASSUME NEW p \in Pushers, PostBatches(p) PROVE Partition'
  BY <1>5 DEF PostBatches, loopVars, Goto, Partition, AtEnd, Typing, TypeOK
<1>6. ASSUME NEW p \in Pushers, EndTransfer(p) PROVE Partition'
  BY <1>6 DEF EndTransfer, Partition, AtEnd
<1>7. ASSUME NEW p \in Pushers, CountBatches(p) PROVE Partition'
  <2>1. /\ pc' = [pc EXCEPT ![p] = "idle"] /\ UNCHANGED <<list, from>>
        /\ batches' = [batches EXCEPT ![p] = <<>>]
    BY <1>7 DEF CountBatches, Goto
  <2> QED BY <2>1 DEF Partition, AtEnd, Typing, TypeOK
<1>8. ASSUME NEW p \in Pushers, BatchToLwc(p) PROVE Partition'
  <2>1. pc[p] = "lwc" /\ UNCHANGED <<pc, list, batches>> /\ Advance(p)
    BY <1>8 DEF BatchToLwc
  <2> QED BY <2>1 DEF Partition, AtEnd, Advance, Typing, TypeOK
<1>9. ASSUME NEW p \in Pushers, Return(p) PROVE Partition'
  BY <1>9 DEF Return, Goto, loopVars, Partition, AtEnd, Typing, TypeOK
<1>10. \A l \in Lists : l \in Seq(Kinds)
  BY PublisherAssumption
<1> QED BY <1>1, <1>2, <1>3, <1>4, <1>5, <1>6, <1>7, <1>8, <1>9, <1>10, PartitionBuildBatch
        DEF Next, Publish, PushMeasurements, SendSubscriptions, Results

LEMMA PartitionInvariant == Spec => []Partition
<1>1. Init => Partition
  BY DEF Init, Partition
<1> QED BY <1>1, TypingInvariant, PartitionNext, PTL DEF Spec

-----------------------------------------------------------------------------
(* Posting *)

\* How often each measurement was posted, by how far the call has come.
Posting ==
  \A p \in Pushers :
    /\ pc[p] = "lwc" => \A i \in DOMAIN list[p] : list[p][i] = "ok"
    /\ \A i \in DOMAIN list[p] :
         posted[p][i] = IF \/ pc[p] = "build"
                           \/ pc[p] \in {"serial", "post", "lwc"} /\ from[p] <= i
                           \/ list[p][i] # "ok"
                        THEN 0 ELSE 1

\* What posting does to the numbers of one thread.
LEMMA PostStep ==
  ASSUME Typing, NEW p \in Pushers, NEW S, Post(p, S), list' = list
  PROVE  /\ \A i \in DOMAIN list[p] :
              posted'[p][i] = IF i \in S THEN posted[p][i] + 1 ELSE posted[p][i]
         /\ \A q \in Pushers : q # p => posted'[q] = posted[q]
<1>1. /\ posted' = [posted EXCEPT ![p] =
                      [i \in DOMAIN posted[p] |->
                         IF i \in S THEN posted[p][i] + 1 ELSE posted[p][i]]]
      /\ DOMAIN posted = Pushers
      /\ posted[p] \in [DOMAIN list[p] -> Nat]
  BY DEF Post, Typing, TypeOK
<1> QED BY <1>1

\* A loop that posts batch after batch.
LEMMA PostingLoop ==
  ASSUME Typing, Posting, NEW p \in Pushers, Advance(p), list' = list,
         pc[p] \in {"serial", "lwc"}, pc' = [pc EXCEPT ![p] = pc'[p]],
         pc'[p] \in {"serial", "post", "lwc"}, pc'[p] = "lwc" => pc[p] = "lwc",
         \/ posted' = posted /\ Added(p, NextBatch(p)) = {}
         \/ Post(p, Added(p, NextBatch(p)))
  PROVE  Posting'
<1> DEFINE S == NextBatch(p)
<1>1. \A i \in DOMAIN list[p] : i < from'[p] <=> i < from[p] \/ i \in S
  BY BatchExtends DEF Typing
<1>2. \A i \in DOMAIN list[p] : i \in S => ~(i < from[p])
  BY BatchExtends DEF Typing
<1>3. \A i \in DOMAIN list[p] : i \in Added(p, S) <=> i \in S /\ list[p][i] = "ok"
  BY DEF Added, Of
<1>4. /\ \A i \in DOMAIN list[p] :
           posted'[p][i] = IF i \in Added(p, S) THEN posted[p][i] + 1 ELSE posted[p][i]
      /\ \A q \in Pushers : q # p => posted'[q] = posted[q]
  BY PostStep
<1>5. \A i \in DOMAIN list[p] : from[p] <= i <=> ~(i < from[p])
  BY ListType DEF Typing, TypeOK
<1>6. \A i \in DOMAIN list[p] : from'[p] <= i <=> ~(i < from'[p])
  <2>1. from'[p] = from[p] + Cardinality(S) /\ Cardinality(S) \in Nat /\ from[p] \in Nat
    BY BatchIsInterval DEF Advance, Typing, TypeOK
  <2> HIDE DEF S
  <2> QED BY <2>1, ListType DEF Typing
<1>7. \A i \in DOMAIN list[p] :
        posted[p][i] = IF from[p] <= i \/ list[p][i] # "ok" THEN 0 ELSE 1
  BY DEF Posting
<1> HIDE DEF S
<1>8. \A i \in DOMAIN list[p] :
        posted'[p][i] = IF from'[p] <= i \/ list[p][i] # "ok" THEN 0 ELSE 1
  BY <1>1, <1>2, <1>3, <1>4, <1>5, <1>6, <1>7
<1>9. ASSUME NEW q \in Pushers, q # p
      PROVE  /\ pc'[q] = pc[q] /\ from'[q] = from[q] /\ posted'[q] = posted[q]
  BY <1>4, <1>9 DEF Advance, Typing, TypeOK
<1> QED BY <1>8, <1>9 DEF Posting

LEMMA PostingBatchToLwc ==
  ASSUME Typing, Posting, NEW p \in Pushers, BatchToLwc(p)
  PROVE  Posting'
<1>1. Added(p, NextBatch(p)) = NextBatch(p)
  <2>1. pc[p] = "lwc"
    BY DEF BatchToLwc
  <2>2. NextBatch(p) \in SUBSET DOMAIN list[p]
    BY BatchIsInterval DEF Typing
  <2> QED BY <2>1, <2>2 DEF Posting, Added, Of
<1>2. pc[p] = "lwc" /\ pc' = pc /\ list' = list /\ Advance(p) /\ Post(p, NextBatch(p))
  BY DEF BatchToLwc
<1>3. pc' = [pc EXCEPT ![p] = pc'[p]]
  BY <1>2 DEF Typing, TypeOK
<1> QED BY <1>1, <1>2, <1>3, PostingLoop

LEMMA PostingSendBatch ==
  ASSUME Typing, Posting, NEW p \in Pushers, SendBatch(p)
  PROVE  Posting'
<1>1. /\ pc[p] = "serial" /\ list' = list /\ Advance(p)
      /\ \/ UNCHANGED <<pc, posted>> /\ Added(p, NextBatch(p)) = {}
         \/ pc' = [pc EXCEPT ![p] = "post"] /\ Post(p, Added(p, NextBatch(p)))
  BY DEF SendBatch, Goto
<1>2. /\ pc' = [pc EXCEPT ![p] = pc'[p]] /\ pc'[p] \in {"serial", "post"}
  BY <1>1 DEF Typing, TypeOK
<1> QED BY <1>1, <1>2, PostingLoop

LEMMA PostingPostBatches ==
  ASSUME Typing, Partition, Posting, NEW p \in Pushers, PostBatches(p)
  PROVE  Posting'
<1> DEFINE S == UNION {Added(p, batches[p][b]) : b \in DOMAIN batches[p]}
<1>1. /\ pc[p] = "build" /\ AtEnd(p) /\ pc' = [pc EXCEPT ![p] = "multi"] /\ Post(p, S)
      /\ UNCHANGED <<list, from>>
  BY DEF PostBatches, Goto, loopVars
<1>2. \A i \in DOMAIN list[p] : i < from[p]
  BY <1>1, ListType DEF AtEnd, Typing, TypeOK
<1>3. \A i \in DOMAIN list[p] : \E b \in DOMAIN batches[p] : i \in batches[p][b]
  BY <1>1, <1>2 DEF Partition
<1>4. \A i \in DOMAIN list[p] : i \in S <=> list[p][i] = "ok"
  BY <1>3 DEF Added, Of
<1> HIDE DEF S
<1>5. /\ \A i \in DOMAIN list[p] :
           posted'[p][i] = IF i \in S THEN posted[p][i] + 1 ELSE posted[p][i]
      /\ \A q \in Pushers : q # p => posted'[q] = posted[q]
  BY <1>1, PostStep
<1>6. \A i \in DOMAIN list[p] : posted[p][i] = 0
  BY <1>1 DEF Posting
<1>7. \A i \in DOMAIN list[p] : posted'[p][i] = IF list[p][i] = "ok" THEN 1 ELSE 0
  BY <1>4, <1>5, <1>6
<1>8. pc'[p] = "multi" /\ \A q \in Pushers : q # p => pc'[q] = pc[q]
  BY <1>1 DEF Typing, TypeOK
<1> QED BY <1>1, <1>5, <1>7, <1>8 DEF Posting

LEMMA PostingNext == Typing /\ Partition /\ Posting /\ [Next]_vars => Posting'
<1> SUFFICES ASSUME Typing, Partition, Posting, [Next]_vars PROVE Posting'
  OBVIOUS
<1>1. CASE UNCHANGED vars
  BY <1>1 DEF Posting, vars, loopVars, history
<1>2. ASSUME NEW p \in Pushers, NEW l, NEW label \in {"serial", "build", "lwc"},
             l \in Seq(Kinds), Begin(p, l, label),
             label = "lwc" => \A i \in DOMAIN l : l[i] = "ok"
      PROVE  Posting'
  <2>1. \A i \in DOMAIN l : 1 <= i
    <3>1. Len(l) \in Nat /\ DOMAIN l = 1..Len(l)
      BY <1>2, LenProperties
    <3> QED BY <3>1
  <2>2. /\ pc' = [pc EXCEPT ![p] = label] /\ list' = [list EXCEPT ![p] = l]
        /\ from' = [from EXCEPT ![p] = 1]
        /\ posted' = [posted EXCEPT ![p] = [i \in DOMAIN l |-> 0]]
    BY <1>2 DEF Begin, Goto
  <2>3. /\ pc'[p] = label /\ list'[p] = l /\ from'[p] = 1
        /\ posted'[p] = [i \in DOMAIN l |-> 0]
    BY <2>2 DEF Typing, TypeOK
  <2>4. ASSUME NEW q \in Pushers, q # p
        PROVE  /\ pc'[q] = pc[q] /\ list'[q] = list[q] /\ from'[q] = from[q]
               /\ posted'[q] = posted[q]
    BY <2>2, <2>4 DEF Typing, TypeOK
  <2>5. \A i \in DOMAIN list'[p] : posted'[p][i] = 0 /\ from'[p] <= i
    BY <2>1, <2>3
  <2> QED BY <1>2, <2>3, <2>4, <2>5 DEF Posting
<1>3. ASSUME NEW p \in Pushers, EndPost(p) PROVE Posting'
  <2>1. /\ pc[p] = "post" /\ pc' = [pc EXCEPT ![p] = "serial"]
        /\ UNCHANGED <<list, from, posted>>
    BY <1>3 DEF EndPost, Goto
  <2> QED BY <2>1 DEF Posting, Typing, TypeOK
<1>4. ASSUME NEW p \in Pushers, BuildBatch(p) PROVE Posting'
  <2>1. /\ pc[p] = "build" /\ UNCHANGED <<pc, list, posted>> /\ Advance(p)
    BY <1>4 DEF BuildBatch, history
  <2> QED BY <2>1 DEF Posting, Advance, Typing, TypeOK
<1>5. ASSUME NEW p \in Pushers, EndTransfer(p) PROVE Posting'
  BY <1>5 DEF EndTransfer, Posting
<1>6. ASSUME NEW p \in Pushers, CountBatches(p) PROVE Posting'
  <2>1. /\ pc[p] = "multi" /\ pc' = [pc EXCEPT ![p] = "idle"]
        /\ UNCHANGED <<list, from, posted>>
    BY <1>6 DEF CountBatches, Goto
  <2> QED BY <2>1 DEF Posting, Typing, TypeOK
<1>7. ASSUME NEW p \in Pushers, Return(p) PROVE Posting'
  <2>1. /\ pc[p] \in {"serial", "lwc"} /\ AtEnd(p) /\ pc' = [pc EXCEPT ![p] = "idle"]
        /\ UNCHANGED <<list, from, posted>>
    BY <1>7 DEF Return, Goto, loopVars, history
  <2>2. \A i \in DOMAIN list[p] : ~(from[p] <= i)
    BY <2>1, ListType DEF AtEnd, Typing, TypeOK
  <2> QED BY <2>1, <2>2 DEF Posting, Typing, TypeOK
<1>8. \A l \in Lists : l \in Seq(Kinds)
  BY PublisherAssumption
<1> QED BY <1>1, <1>2, <1>3, <1>4, <1>5, <1>6, <1>7, <1>8, PostingSendBatch,
           PostingPostBatches, PostingBatchToLwc
        DEF Next, Publish, PushMeasurements, SendSubscriptions, Results

\* When a call has returned, each of its valid measurements was posted once, and
\* none of the others, whatever the size of a batch and the length of the list.
THEOREM MeasurementsPostedOnce == Spec => []PostedOnce
<1>1. Init => Posting
  BY DEF Init, Posting
<1>2. Posting => PostedOnce
  BY DEF Posting, PostedOnce
<1> QED BY <1>1, <1>2, TypingInvariant, PartitionInvariant, PostingNext, PTL DEF Spec

-----------------------------------------------------------------------------
(* Accounting *)

\* InPost, of any choice of a set for each thread.
Together(sets) == UNION {{q} \X sets[q] : q \in Pushers}

LEMMA TogetherFinite ==
  ASSUME NEW sets, \A q \in Pushers : IsFiniteSet(sets[q])
  PROVE  IsFiniteSet(Together(sets)) /\ Cardinality(Together(sets)) \in Nat
<1> DEFINE T == {{q} \X sets[q] : q \in Pushers}
           f == [q \in Pushers |-> {q} \X sets[q]]
<1>1. \A t \in T : IsFiniteSet(t)
  <2>1. \A q \in Pushers : IsFiniteSet({q} \X sets[q])
    <3> TAKE q \in Pushers
    <3>1. IsFiniteSet({q}) /\ IsFiniteSet(sets[q])
      BY FS_Singleton
    <3> QED BY <3>1, FS_Product
  <2> QED BY <2>1
<1>2. f \in Surjection(Pushers, T)
  BY DEF Surjection
<1>3. IsFiniteSet(Pushers)
  BY PublisherAssumption
<1>4. Together(sets) = UNION T
  BY DEF Together
<1> HIDE DEF f, T
<1>5. IsFiniteSet(T)
  BY <1>2, <1>3, FS_Surjection
<1> QED BY <1>1, <1>4, <1>5, FS_UNION, FS_CardinalityType

\* A thread that had nothing and has something adds just that.
LEMMA TogetherAdds ==
  ASSUME NEW less, NEW more, NEW p \in Pushers, less[p] = {},
         \A q \in Pushers : IsFiniteSet(more[q]),
         \A q \in Pushers : q # p => less[q] = more[q]
  PROVE  /\ Cardinality(Together(less)) \in Nat /\ Cardinality(Together(more)) \in Nat
         /\ Cardinality(more[p]) \in Nat
         /\ Cardinality(Together(more)) = Cardinality(Together(less)) + Cardinality(more[p])
<1> DEFINE L == Together(less)
           M == Together(more)
           P == {p} \X more[p]
<1>1. \A q \in Pushers : IsFiniteSet(less[q])
  BY FS_EmptySet
<1>2. /\ IsFiniteSet(L) /\ Cardinality(L) \in Nat
      /\ IsFiniteSet(M) /\ Cardinality(M) \in Nat
  BY <1>1, TogetherFinite
<1>3. M = L \cup P /\ L \cap P = {}
  BY DEF Together
<1>4. IsFiniteSet({p}) /\ Cardinality({p}) = 1
  BY FS_Singleton
<1>5. IsFiniteSet(P) /\ Cardinality(P) = 1 * Cardinality(more[p])
  BY <1>4, FS_Product
<1>6. Cardinality(more[p]) \in Nat
  BY FS_CardinalityType
<1> HIDE DEF L, M, P
<1>7. Cardinality(M) = Cardinality(L) + Cardinality(P) - Cardinality({})
  BY <1>2, <1>3, <1>5, FS_Union
<1>8. Cardinality({}) = 0
  BY FS_EmptySet
<1>9. Cardinality(M) = Cardinality(L) + Cardinality(more[p])
  BY <1>2, <1>5, <1>6, <1>7, <1>8
<1> QED BY <1>2, <1>6, <1>9 DEF L, M

LEMMA BatchFinite ==
  ASSUME Typing
  PROVE  \A q \in Pushers : IsFiniteSet(batch[q])
<1> TAKE q \in Pushers
<1>1. batch[q] \in SUBSET DOMAIN list[q]
  BY DEF Typing, WithinList
<1> QED BY <1>1, ListType, FS_Subset DEF Typing

\* The batches that succeeded and those that did not hold the valid measurements.
LEMMA BatchesAreCounted ==
  ASSUME Typing, Partition, NEW p \in Pushers, pc[p] = "multi"
  PROVE  Cardinality(Added(p, DOMAIN list[p]))
           = Cardinality(InBatches(p, Success(p)))
               + Cardinality(InBatches(p, DOMAIN batches[p] \ Success(p)))
<1> DEFINE D == DOMAIN batches[p]
           T == Success(p)
           S == InBatches(p, T)
           F == InBatches(p, D \ T)
<1>1. T \in SUBSET D
  BY DEF Success
<1>2. /\ IsFiniteSet(S) /\ IsFiniteSet(F)
      /\ Cardinality(S) \in Nat /\ Cardinality(F) \in Nat
  BY <1>1, InBatchesFinite
<1>3. \A i \in DOMAIN list[p] : \E b \in D : i \in batches[p][b]
  <2>1. AtEnd(p)
    BY DEF Partition
  <2>2. \A i \in DOMAIN list[p] : i < from[p]
    BY <2>1, ListType DEF AtEnd, Typing, TypeOK
  <2> QED BY <2>2 DEF Partition
<1>4. \A b \in D : batches[p][b] \in SUBSET DOMAIN list[p]
  BY DEF Typing, WithinList
<1>5. \A b, c \in D : b # c => batches[p][b] \cap batches[p][c] = {}
  BY DEF Partition
<1>6. S \cup F = Added(p, DOMAIN list[p])
  BY <1>1, <1>3, <1>4 DEF InBatches, Added, Of
<1>7. S \cap F = {}
  BY <1>1, <1>5 DEF InBatches, Added, Of
<1> HIDE DEF S, F
<1>8. Cardinality(S \cup F) = Cardinality(S) + Cardinality(F) - Cardinality({})
  BY <1>2, <1>7, FS_Union
<1>9. Cardinality({}) = 0
  BY FS_EmptySet
<1> DEFINE s == Cardinality(S)
           f == Cardinality(F)
           u == Cardinality(S \cup F)
<1>10. u = s + f - 0 /\ s \in Nat /\ f \in Nat
  BY <1>2, <1>8, <1>9
<1> HIDE DEF s, f, u
<1>11. u = s + f
  BY <1>10
<1> QED BY <1>6, <1>11 DEF S, F, s, f, u

LEMMA AccountedSendBatch ==
  ASSUME Typing, Accounted, NEW p \in Pushers, SendBatch(p)
  PROVE  Accounted'
<1> DEFINE S == NextBatch(p)
           A == Added(p, S)
           a == Cardinality(A)
           e == Errors(p, S)
           n == Cardinality(Of(p, S, "nan"))
           m == Cardinality(S)
           c == Cardinality(InPost)
           d == Cardinality(InPost)'
<1>1. S \in SUBSET DOMAIN list[p]
  BY BatchIsInterval DEF Typing
<1>2. /\ IsFiniteSet(A) /\ m = a + e + n
      /\ a \in Nat /\ e \in Nat /\ n \in Nat /\ m \in Nat
  BY <1>1, ByKind DEF Typing
<1>3. /\ validationErrors' = validationErrors + e /\ total' = total + m
      /\ nans' = nans + n /\ sent' = sent /\ httpErrors' = httpErrors
      /\ batch' = [batch EXCEPT ![p] = A]
      /\ pc[p] = "serial"
  BY DEF SendBatch
<1>4. batch[p] = {}
  BY <1>3 DEF Typing, WithinList
<1>5. /\ batch'[p] = A
      /\ \A q \in Pushers : q # p => batch'[q] = batch[q]
  BY <1>3 DEF Typing, TypeOK
<1>6. \A q \in Pushers : IsFiniteSet(batch'[q])
  BY <1>2, <1>5, BatchFinite
<1>7. InPost = Together(batch) /\ InPost' = Together(batch')
  BY DEF InPost, Together
<1>8. c \in Nat /\ d = c + a
  BY <1>4, <1>5, <1>6, <1>7, TogetherAdds
<1>9. total = sent + httpErrors + validationErrors + nans + c
  BY DEF Accounted
<1> HIDE DEF a, e, n, m, c, d
<1>10. total' = sent' + httpErrors' + validationErrors' + nans' + d
  BY <1>2, <1>3, <1>8, <1>9 DEF Typing, TypeOK
<1> QED BY <1>10 DEF Accounted, d

LEMMA AccountedEndPost ==
  ASSUME Typing, Accounted, NEW p \in Pushers, EndPost(p)
  PROVE  Accounted'
<1> DEFINE a == Cardinality(batch[p])
           c == Cardinality(InPost)
           d == Cardinality(InPost)'
<1>1. /\ \/ sent' = sent + a /\ httpErrors' = httpErrors
         \/ sent' = sent /\ httpErrors' = httpErrors + a
      /\ batch' = [batch EXCEPT ![p] = {}]
      /\ UNCHANGED <<total, validationErrors, nans>>
  BY DEF EndPost, Count
<1>2. /\ batch'[p] = {}
      /\ \A q \in Pushers : q # p => batch'[q] = batch[q]
  BY <1>1 DEF Typing, TypeOK
<1>3. InPost = Together(batch) /\ InPost' = Together(batch')
  BY DEF InPost, Together
<1>4. d \in Nat /\ a \in Nat /\ c = d + a
  BY <1>2, <1>3, BatchFinite, TogetherAdds
<1>5. total = sent + httpErrors + validationErrors + nans + c
  BY DEF Accounted
<1> HIDE DEF a, c, d
<1>6. total' = sent' + httpErrors' + validationErrors' + nans' + d
  BY SMTT(30), <1>1, <1>4, <1>5 DEF Typing, TypeOK
<1> QED BY <1>6 DEF Accounted, d

LEMMA AccountedCountBatches ==
  ASSUME Typing, Partition, Accounted, NEW p \in Pushers, CountBatches(p)
  PROVE  Accounted'
<1> DEFINE D == DOMAIN list[p]
           e == Errors(p, D)
           n == Cardinality(Of(p, D, "nan"))
           a == Cardinality(Added(p, D))
           s == Cardinality(InBatches(p, Success(p)))
           f == Cardinality(InBatches(p, DOMAIN batches[p] \ Success(p)))
           m == Len(list[p])
           c == Cardinality(InPost)
<1>1. /\ validationErrors' = validationErrors + e /\ total' = total + m
      /\ nans' = nans + n /\ sent' = sent + s /\ httpErrors' = httpErrors + f
      /\ batch' = batch /\ pc[p] = "multi"
  BY DEF CountBatches
<1>2. m = Cardinality(D)
  BY ListType DEF Typing
<1>3. Cardinality(D) = a + e + n /\ a \in Nat /\ e \in Nat /\ n \in Nat
  BY ByKind DEF Typing
<1>4. a = s + f
  BY <1>1, BatchesAreCounted
<1>5. s \in Nat /\ f \in Nat
  BY InBatchesFinite DEF Success
<1>6. Cardinality(InPost)' = c
  BY <1>1 DEF InPost
<1>7. InPost = Together(batch)
  BY DEF InPost, Together
<1>8. c \in Nat
  BY <1>7, BatchFinite, TogetherFinite
<1>9. total = sent + httpErrors + validationErrors + nans + c
  BY DEF Accounted
<1>10. m = s + f + e + n
  <2> HIDE DEF a, e, n, m, s, f
  <2> QED BY <1>2, <1>3, <1>4, <1>5
<1> HIDE DEF a, e, n, m, c, s, f
<1>11. total' = sent' + httpErrors' + validationErrors' + nans' + c
  BY <1>1, <1>3, <1>5, <1>8, <1>9, <1>10 DEF Typing, TypeOK
<1> QED BY <1>6, <1>11 DEF Accounted

LEMMA AccountedNext == Typing /\ Partition /\ Accounted /\ [Next]_vars => Accounted'
<1> SUFFICES ASSUME Typing, Partition, Accounted, [Next]_vars PROVE Accounted'
  OBVIOUS
<1> DEFINE Others == UNCHANGED <<total, sent, httpErrors, validationErrors, nans, batch>>
<1>1. CASE Others
  BY <1>1 DEF Accounted, InPost
<1>2. ASSUME UNCHANGED vars PROVE Others
  BY <1>2 DEF vars, loopVars, counters, history
<1>3. ASSUME NEW p \in Pushers, NEW l, NEW label, Begin(p, l, label) PROVE Others
  BY <1>3 DEF Begin, counters
<1>4. ASSUME NEW p \in Pushers,
             BuildBatch(p) \/ PostBatches(p) \/ EndTransfer(p) \/ BatchToLwc(p) \/ Return(p)
      PROVE  Others
  BY <1>4 DEF BuildBatch, PostBatches, EndTransfer, BatchToLwc, Return, loopVars, counters, history
<1> HIDE DEF Others
<1> QED BY <1>1, <1>2, <1>3, <1>4, AccountedSendBatch, AccountedEndPost, AccountedCountBatches
        DEF Next, Publish, PushMeasurements, SendSubscriptions

\* However the measurements are split into batches, and whatever becomes of each
\* batch, the counters add up.
THEOREM MeasurementsAccounted == Spec => []Accounted
<1>1. Init => Accounted
  <2> SUFFICES ASSUME Init PROVE Accounted
    OBVIOUS
  <2>1. InPost = {}
    BY DEF Init, InPost
  <2> QED BY <2>1, FS_EmptySet DEF Init, Accounted
<1> QED BY <1>1, TypingInvariant, PartitionInvariant, AccountedNext, PTL DEF Spec

-----------------------------------------------------------------------------
(* Honesty *)

\* By thread, the measurements of the transfers that have succeeded, and of
\* those that have ended, in a call that has yet to count them.
Succeeded == [q \in Pushers |-> InBatches(q, Success(q))]
Ended     == [q \in Pushers |-> InBatches(q, DOMAIN batches[q] \ Pending(q))]

\* Counters lag behind what was received by what waits to be counted; no
\* transfer has ended before the first begins.
Honest ==
  /\ \A q \in Pushers : pc[q] = "build" => \A b \in DOMAIN batches[q] : codes[q][b] = 0
  /\ sent + Cardinality(Together(Succeeded)) <= received
  /\ received <= sent + httpErrors + Cardinality(Together(Ended))

\* What two choices that differ for one thread only have in common.
LEMMA TogetherDiffers ==
  ASSUME NEW one, NEW other, NEW p \in Pushers,
         \A q \in Pushers : IsFiniteSet(one[q]) /\ IsFiniteSet(other[q]),
         \A q \in Pushers : q # p => one[q] = other[q]
  PROVE  /\ Cardinality(one[p]) \in Nat /\ Cardinality(other[p]) \in Nat
         /\ Cardinality(Together(one)) \in Nat /\ Cardinality(Together(other)) \in Nat
         /\ Cardinality(Together(other)) + Cardinality(one[p])
              = Cardinality(Together(one)) + Cardinality(other[p])
<1> DEFINE less == [q \in Pushers |-> IF q = p THEN {} ELSE one[q]]
<1>1. less[p] = {} /\ \A q \in Pushers : q # p => less[q] = one[q] /\ less[q] = other[q]
  OBVIOUS
<1> HIDE DEF less
<1>2. /\ Cardinality(Together(less)) \in Nat /\ Cardinality(one[p]) \in Nat
      /\ Cardinality(Together(one)) = Cardinality(Together(less)) + Cardinality(one[p])
  BY <1>1, TogetherAdds
<1>3. /\ Cardinality(other[p]) \in Nat
      /\ Cardinality(Together(other)) = Cardinality(Together(less)) + Cardinality(other[p])
  BY <1>1, TogetherAdds
<1> DEFINE l == Cardinality(Together(less))
           n == Cardinality(one[p])
           m == Cardinality(other[p])
           x == Cardinality(Together(one))
           y == Cardinality(Together(other))
<1>4. l \in Nat /\ n \in Nat /\ m \in Nat /\ x = l + n /\ y = l + m
  BY <1>2, <1>3
<1> HIDE DEF l, n, m, x, y
<1>5. x \in Nat /\ y \in Nat /\ y + n = x + m
  BY <1>4
<1> QED BY <1>4, <1>5 DEF l, n, m, x, y

LEMMA WaitingFinite ==
  ASSUME Typing
  PROVE  \A q \in Pushers : IsFiniteSet(Succeeded[q]) /\ IsFiniteSet(Ended[q])
<1> TAKE q \in Pushers
<1>1. Success(q) \in SUBSET DOMAIN batches[q]
  BY DEF Success
<1>2. IsFiniteSet(InBatches(q, Success(q)))
  BY <1>1, InBatchesFinite
<1>3. IsFiniteSet(InBatches(q, DOMAIN batches[q] \ Pending(q)))
  BY InBatchesFinite
<1> QED BY <1>2, <1>3 DEF Succeeded, Ended

\* Batches do not overlap, so what two groups of them hold adds up.
LEMMA BatchesAddUp ==
  ASSUME Typing, Partition, NEW p \in Pushers, pc[p] = "multi",
         NEW B \in SUBSET DOMAIN batches[p], NEW C \in SUBSET DOMAIN batches[p],
         B \cap C = {}
  PROVE  /\ Cardinality(InBatches(p, B)) \in Nat /\ Cardinality(InBatches(p, C)) \in Nat
         /\ Cardinality(InBatches(p, B \cup C))
              = Cardinality(InBatches(p, B)) + Cardinality(InBatches(p, C))
<1> DEFINE X == InBatches(p, B)
           Y == InBatches(p, C)
<1>1. /\ IsFiniteSet(X) /\ IsFiniteSet(Y)
      /\ Cardinality(X) \in Nat /\ Cardinality(Y) \in Nat
  BY InBatchesFinite
<1>2. \A b, c \in DOMAIN batches[p] : b # c => batches[p][b] \cap batches[p][c] = {}
  BY DEF Partition
<1>3. X \cap Y = {}
  BY <1>2 DEF InBatches, Added, Of
<1>4. InBatches(p, B \cup C) = X \cup Y
  BY DEF InBatches
<1> HIDE DEF X, Y
<1>5. Cardinality(X \cup Y) = Cardinality(X) + Cardinality(Y) - Cardinality({})
  BY <1>1, <1>3, FS_Union
<1>6. Cardinality({}) = 0
  BY FS_EmptySet
<1>7. Cardinality(X \cup Y) = Cardinality(X) + Cardinality(Y)
  BY <1>1, <1>5, <1>6
<1> QED BY <1>1, <1>4, <1>7 DEF X, Y

\* Nothing waits where there are no batches, or none has been posted.
LEMMA NothingWaits ==
  ASSUME Typing, Honest, NEW p \in Pushers, pc[p] # "multi"
  PROVE  Succeeded[p] = {} /\ Ended[p] = {}
<1>1. \A b \in DOMAIN batches[p] : codes[p][b] = 0
  <2>1. CASE pc[p] = "build"
    BY <2>1 DEF Honest
  <2>2. CASE pc[p] \notin {"build", "multi"}
    <3>1. batches[p] = <<>>
      BY <2>2 DEF Typing, WithinList
    <3> QED BY <3>1
  <2> QED BY <2>1, <2>2
<1> QED BY <1>1 DEF Succeeded, Ended, InBatches, Success, Pending

\* Another thread's batches are left alone by what p does.
LEMMA OthersWait ==
  ASSUME NEW p \in Pushers, NEW q \in Pushers,
         list'[q] = list[q], batches'[q] = batches[q], codes'[q] = codes[q]
  PROVE  Succeeded'[q] = Succeeded[q] /\ Ended'[q] = Ended[q]
BY DEF Succeeded, Ended, InBatches, Success, Pending, Added, Of

\* When p's batches change, what waits changes by what they hold.
LEMMA WaitingChanges ==
  ASSUME Typing, NEW p \in Pushers,
         \A q \in Pushers : q # p => Succeeded'[q] = Succeeded[q] /\ Ended'[q] = Ended[q],
         IsFiniteSet(Succeeded'[p]), IsFiniteSet(Ended'[p])
  PROVE  /\ Cardinality(Succeeded[p]) \in Nat /\ Cardinality(Succeeded'[p]) \in Nat
         /\ Cardinality(Together(Succeeded)) \in Nat
         /\ Cardinality(Together(Succeeded))' \in Nat
         /\ Cardinality(Together(Succeeded))' + Cardinality(Succeeded[p])
              = Cardinality(Together(Succeeded)) + Cardinality(Succeeded'[p])
         /\ Cardinality(Ended[p]) \in Nat /\ Cardinality(Ended'[p]) \in Nat
         /\ Cardinality(Together(Ended)) \in Nat
         /\ Cardinality(Together(Ended))' \in Nat
         /\ Cardinality(Together(Ended))' + Cardinality(Ended[p])
              = Cardinality(Together(Ended)) + Cardinality(Ended'[p])
<1> DEFINE old == Succeeded
           new == Succeeded'
           one == Ended
           two == Ended'
<1>1. /\ \A q \in Pushers : IsFiniteSet(old[q]) /\ IsFiniteSet(new[q])
      /\ \A q \in Pushers : q # p => old[q] = new[q]
  BY WaitingFinite
<1>2. /\ \A q \in Pushers : IsFiniteSet(one[q]) /\ IsFiniteSet(two[q])
      /\ \A q \in Pushers : q # p => one[q] = two[q]
  BY WaitingFinite
<1>3. /\ Together(Succeeded)' = Together(new) /\ Together(Succeeded) = Together(old)
      /\ Together(Ended)' = Together(two) /\ Together(Ended) = Together(one)
  BY DEF Together
<1>4. /\ Cardinality(Together(Succeeded))' = Cardinality(Together(new))
      /\ Cardinality(Together(Ended))' = Cardinality(Together(two))
  BY <1>3
<1> HIDE DEF old, new, one, two
<1>5. /\ Cardinality(old[p]) \in Nat /\ Cardinality(new[p]) \in Nat
      /\ Cardinality(Together(old)) \in Nat /\ Cardinality(Together(new)) \in Nat
      /\ Cardinality(Together(new)) + Cardinality(old[p])
           = Cardinality(Together(old)) + Cardinality(new[p])
  BY <1>1, TogetherDiffers
<1>6. /\ Cardinality(one[p]) \in Nat /\ Cardinality(two[p]) \in Nat
      /\ Cardinality(Together(one)) \in Nat /\ Cardinality(Together(two)) \in Nat
      /\ Cardinality(Together(two)) + Cardinality(one[p])
           = Cardinality(Together(one)) + Cardinality(two[p])
  BY <1>2, TogetherDiffers
<1> QED BY <1>3, <1>4, <1>5, <1>6 DEF old, new, one, two

LEMMA HonestEndPost ==
  ASSUME Typing, Honest, NEW p \in Pushers, EndPost(p)
  PROVE  Honest'
<1> DEFINE n == Cardinality(batch[p])
           s == Cardinality(Together(Succeeded))
           e == Cardinality(Together(Ended))
<1>1. PICK code \in {200, 400} :
        /\ Count(p, code, batch[p])
        /\ received' \in {received + n} \cup (IF code = 200 THEN {} ELSE {received})
  BY DEF EndPost
<1>2. n \in Nat /\ s \in Nat /\ e \in Nat
  BY BatchFinite, WaitingFinite, TogetherFinite, FS_CardinalityType
<1>3. /\ UNCHANGED <<list, batches, codes>>
      /\ \A q \in Pushers : pc'[q] = "build" => pc[q] = "build"
  BY DEF EndPost, Goto, Typing, TypeOK
<1>4. Succeeded' = Succeeded /\ Ended' = Ended
  BY <1>3, OthersWait DEF Succeeded, Ended
<1>5. \/ sent' = sent + n /\ httpErrors' = httpErrors /\ received' = received + n
      \/ /\ sent' = sent /\ httpErrors' = httpErrors + n
         /\ received' = received \/ received' = received + n
  BY <1>1 DEF Count
<1>6. Cardinality(Together(Succeeded))' = s /\ Cardinality(Together(Ended))' = e
  BY <1>4 DEF Together
<1>7. sent + s <= received /\ received <= sent + httpErrors + e
  BY DEF Honest
<1> HIDE DEF n, s, e
<1>8. sent' + s <= received' /\ received' <= sent' + httpErrors' + e
  BY <1>2, <1>5, <1>7 DEF Typing, TypeOK
<1> QED BY <1>3, <1>6, <1>8 DEF Honest

LEMMA HonestEndTransfer ==
  ASSUME Typing, Partition, Honest, NEW p \in Pushers, EndTransfer(p)
  PROVE  Honest'
<1> DEFINE D == DOMAIN batches[p]
<1>1. PICK b \in D, code \in {200, 400} :
        /\ codes[p][b] = 0
        /\ codes' = [codes EXCEPT ![p][b] = code]
        /\ received' \in {received + Cardinality(Added(p, batches[p][b]))}
                           \cup (IF code = 200 THEN {} ELSE {received})
  BY Zenon DEF EndTransfer
<1>2. /\ pc[p] = "multi"
      /\ UNCHANGED <<pc, list, batches, sent, httpErrors>>
  BY DEF EndTransfer, counters
<1> DEFINE N == {c \in {b} : code = 200}
           S == Success(p)
           E == D \ Pending(p)
           a == Cardinality(InBatches(p, {b}))
<1>3. /\ codes'[p][b] = code /\ \A c \in D : c # b => codes'[p][c] = codes[p][c]
      /\ \A q \in Pushers : q # p => codes'[q] = codes[q]
  BY <1>1 DEF Typing, TypeOK
<1>4. Success(p)' = S \cup N /\ (D \ Pending(p))' = E \cup {b}
  BY <1>1, <1>2, <1>3 DEF Success, Pending
<1>5. /\ Succeeded'[p] = InBatches(p, S \cup N)
      /\ Ended'[p] = InBatches(p, E \cup {b})
  BY <1>2, <1>4 DEF Succeeded, Ended, InBatches, Added, Of
<1>6. /\ S \in SUBSET D /\ N \in SUBSET D /\ E \in SUBSET D /\ {b} \in SUBSET D
      /\ S \cap N = {} /\ E \cap {b} = {}
  BY <1>1 DEF Success, Pending
<1>7. /\ Cardinality(Succeeded'[p]) = Cardinality(Succeeded[p]) + Cardinality(InBatches(p, N))
      /\ Cardinality(Ended'[p]) = Cardinality(Ended[p]) + a
      /\ a \in Nat /\ Cardinality(InBatches(p, N)) \in Nat
  BY <1>2, <1>5, <1>6, BatchesAddUp DEF Succeeded, Ended
<1>8. Cardinality(InBatches(p, N)) = IF code = 200 THEN a ELSE 0
  <2>1. CASE code = 200
    BY <2>1
  <2>2. CASE code # 200
    BY <2>2, FS_EmptySet DEF InBatches
  <2> QED BY <2>1, <2>2
<1>9. \/ code = 200 /\ received' = received + a
      \/ code # 200 /\ (received' = received \/ received' = received + a)
  <2>1. InBatches(p, {b}) = Added(p, batches[p][b])
    BY DEF InBatches
  <2> QED BY <1>1, <2>1
<1>10. \A q \in Pushers : q # p => Succeeded'[q] = Succeeded[q] /\ Ended'[q] = Ended[q]
  BY <1>2, <1>3, OthersWait
<1>11. IsFiniteSet(Succeeded'[p]) /\ IsFiniteSet(Ended'[p])
  <2>1. S \cup N \in SUBSET D /\ E \cup {b} \in SUBSET D
    BY <1>6
  <2> QED BY <1>5, <2>1, InBatchesFinite
<1> DEFINE s  == Cardinality(Together(Succeeded))
           e  == Cardinality(Together(Ended))
           s1 == Cardinality(Together(Succeeded))'
           e1 == Cardinality(Together(Ended))'
           n  == Cardinality(InBatches(p, N))
<1>12. s \in Nat /\ e \in Nat /\ e1 = e + a /\ s1 = s + n /\ a \in Nat
  <2> DEFINE os == Cardinality(Succeeded[p])
             ns == Cardinality(Succeeded'[p])
             oe == Cardinality(Ended[p])
             ne == Cardinality(Ended'[p])
  <2>1. ns = os + n /\ ne = oe + a /\ a \in Nat /\ n \in Nat
    BY <1>7
  <2>2. /\ os \in Nat /\ s \in Nat /\ ns \in Nat /\ s1 \in Nat /\ s1 + os = s + ns
        /\ oe \in Nat /\ e \in Nat /\ ne \in Nat /\ e1 \in Nat /\ e1 + oe = e + ne
    BY <1>10, <1>11, WaitingChanges
  <2> HIDE DEF os, ns, oe, ne, s, e, s1, e1, n, a
  <2> QED BY <2>1, <2>2
<1>13. sent' + s1 <= received' /\ received' <= sent' + httpErrors' + e1
  <2>1. sent + s <= received /\ received <= sent + httpErrors + e
    BY DEF Honest
  <2>2. \/ n = a /\ received' = received + a
        \/ n = 0 /\ (received' = received \/ received' = received + a)
    BY <1>8, <1>9
  <2>3. /\ sent \in Nat /\ httpErrors \in Nat /\ received \in Nat
        /\ sent' = sent /\ httpErrors' = httpErrors
    BY <1>2 DEF Typing, TypeOK
  <2> HIDE DEF s, e, s1, e1, n, a
  <2> QED BY <1>12, <2>1, <2>2, <2>3
<1>14. \A q \in Pushers : pc'[q] = "build" => \A c \in DOMAIN batches'[q] : codes'[q][c] = 0
  BY <1>2, <1>3 DEF Honest
<1> QED BY <1>13, <1>14 DEF Honest

LEMMA HonestCountBatches ==
  ASSUME Typing, Partition, Honest, NEW p \in Pushers, CountBatches(p)
  PROVE  Honest'
<1> DEFINE D == DOMAIN batches[p]
           S == Success(p)
           P == Pending(p)
<1>1. PICK B \in SUBSET P : received' = received + Cardinality(InBatches(p, B))
  BY DEF CountBatches
<1> DEFINE In(X) == Cardinality(InBatches(p, X))
<1>2. /\ S \in SUBSET D /\ P \in SUBSET D /\ B \in SUBSET D /\ P \ B \in SUBSET D
      /\ S \cup (D \ S) = D /\ (D \ P) \cup P = D /\ B \cup (P \ B) = P
  BY <1>1 DEF Success, Pending
<1>3. pc[p] = "multi"
  BY DEF CountBatches
<1>4. In(D) = In(S) + In(D \ S) /\ In(S) \in Nat /\ In(D \ S) \in Nat
  <2>1. S \cap (D \ S) = {} /\ D \ S \in SUBSET D
    OBVIOUS
  <2> QED BY <1>2, <1>3, <2>1, BatchesAddUp
<1>5. In(D) = In(D \ P) + In(P) /\ In(D \ P) \in Nat /\ In(P) \in Nat
  <2>1. (D \ P) \cap P = {} /\ D \ P \in SUBSET D
    OBVIOUS
  <2> QED BY <1>2, <1>3, <2>1, BatchesAddUp
<1>6. In(P) = In(B) + In(P \ B) /\ In(B) \in Nat /\ In(P \ B) \in Nat
  <2>1. B \cap (P \ B) = {}
    OBVIOUS
  <2> QED BY <1>2, <1>3, <2>1, BatchesAddUp
<1>7. /\ batches' = [batches EXCEPT ![p] = <<>>] /\ codes' = [codes EXCEPT ![p] = <<>>]
      /\ pc' = [pc EXCEPT ![p] = "idle"] /\ list' = list
      /\ sent' = sent + In(S) /\ httpErrors' = httpErrors + In(D \ S)
  BY DEF CountBatches, Goto
<1>8. /\ batches'[p] = <<>> /\ pc'[p] = "idle"
      /\ \A q \in Pushers : q # p => /\ pc'[q] = pc[q]
                                    /\ batches'[q] = batches[q] /\ codes'[q] = codes[q]
  BY <1>7 DEF Typing, TypeOK
<1>9. Succeeded'[p] = {} /\ Ended'[p] = {}
  BY <1>8 DEF Succeeded, Ended, InBatches, Success, Pending
<1>10. \A q \in Pushers : q # p => Succeeded'[q] = Succeeded[q] /\ Ended'[q] = Ended[q]
  BY <1>7, <1>8, OthersWait
<1> DEFINE s  == Cardinality(Together(Succeeded))
           e  == Cardinality(Together(Ended))
           s1 == Cardinality(Together(Succeeded))'
           e1 == Cardinality(Together(Ended))'
<1>11. /\ s \in Nat /\ s1 \in Nat /\ s = s1 + In(S)
       /\ e \in Nat /\ e1 \in Nat /\ e = e1 + In(D \ P)
  <2> DEFINE os == Cardinality(Succeeded[p])
             ns == Cardinality(Succeeded'[p])
             oe == Cardinality(Ended[p])
             ne == Cardinality(Ended'[p])
  <2>1. ns = 0 /\ ne = 0 /\ IsFiniteSet(Succeeded'[p]) /\ IsFiniteSet(Ended'[p])
    BY <1>9, FS_EmptySet
  <2>2. /\ os \in Nat /\ s \in Nat /\ s1 \in Nat /\ s1 + os = s + ns
        /\ oe \in Nat /\ e \in Nat /\ e1 \in Nat /\ e1 + oe = e + ne
    BY <1>10, <2>1, WaitingChanges
  <2>3. os = In(S) /\ oe = In(D \ P)
    BY DEF Succeeded, Ended
  <2> HIDE DEF os, ns, oe, ne, s, e, s1, e1, In
  <2> QED BY <2>1, <2>2, <2>3
<1>12. sent' + s1 <= received' /\ received' <= sent' + httpErrors' + e1
  <2> DEFINE all == In(D)
             ok  == In(S)
             bad == In(D \ S)
             had == In(B)
             was == In(D \ P)
             now == In(P)
             not == In(P \ B)
  <2>1. sent + s <= received /\ received <= sent + httpErrors + e
    BY DEF Honest
  <2>2. /\ sent \in Nat /\ httpErrors \in Nat /\ received \in Nat
        /\ sent' = sent + ok /\ httpErrors' = httpErrors + bad /\ received' = received + had
    BY <1>1, <1>7 DEF Typing, TypeOK
  <2>3. /\ all = ok + bad /\ ok \in Nat /\ bad \in Nat
        /\ all = was + now /\ was \in Nat /\ now \in Nat
        /\ now = had + not /\ had \in Nat /\ not \in Nat
    BY <1>4, <1>5, <1>6
  <2>4. s \in Nat /\ s1 \in Nat /\ s = s1 + ok /\ e \in Nat /\ e1 \in Nat /\ e = e1 + was
    BY <1>11
  <2> HIDE DEF all, ok, bad, had, was, now, not, s, e, s1, e1
  <2> QED BY <2>1, <2>2, <2>3, <2>4
<1>13. \A q \in Pushers : pc'[q] = "build" => \A c \in DOMAIN batches'[q] : codes'[q][c] = 0
  BY <1>8 DEF Honest
<1> QED BY <1>12, <1>13 DEF Honest

\* A step that counts nothing and ends no transfer leaves what waits alone.
LEMMA HonestOtherwise ==
  ASSUME Typing, Honest, UNCHANGED <<sent, httpErrors, received>>,
         \A q \in Pushers : Succeeded'[q] = Succeeded[q] /\ Ended'[q] = Ended[q],
         \A q \in Pushers : pc'[q] = "build" => \A b \in DOMAIN batches'[q] : codes'[q][b] = 0
  PROVE  Honest'
<1>1. Succeeded' = Succeeded /\ Ended' = Ended
  BY DEF Succeeded, Ended
<1>2. /\ Cardinality(Together(Succeeded))' = Cardinality(Together(Succeeded))
      /\ Cardinality(Together(Ended))' = Cardinality(Together(Ended))
  BY <1>1 DEF Together
<1> QED BY <1>2 DEF Honest

LEMMA HonestBegin ==
  ASSUME Typing, Honest, NEW p \in Pushers, NEW l, NEW label, Begin(p, l, label)
  PROVE  Honest'
<1>1. /\ pc[p] = "idle" /\ pc' = [pc EXCEPT ![p] = label] /\ list' = [list EXCEPT ![p] = l]
      /\ UNCHANGED <<batches, codes, sent, httpErrors, received>>
  BY DEF Begin, Goto, counters
<1>2. batches[p] = <<>> /\ batches'[p] = <<>>
  BY <1>1 DEF Typing, WithinList
<1>3. /\ Succeeded[p] = {} /\ Ended[p] = {}
      /\ Succeeded'[p] = {} /\ Ended'[p] = {}
  BY <1>2 DEF Succeeded, Ended, InBatches, Success, Pending
<1>4. \A q \in Pushers : q # p => list'[q] = list[q] /\ pc'[q] = pc[q]
  BY <1>1 DEF Typing, TypeOK
<1>5. \A q \in Pushers : Succeeded'[q] = Succeeded[q] /\ Ended'[q] = Ended[q]
  BY <1>1, <1>3, <1>4, OthersWait
<1>6. \A q \in Pushers : pc'[q] = "build" => \A b \in DOMAIN batches'[q] : codes'[q][b] = 0
  BY <1>1, <1>2, <1>4 DEF Honest
<1> QED BY <1>1, <1>5, <1>6, HonestOtherwise

LEMMA HonestBuildBatch ==
  ASSUME Typing, Honest, NEW p \in Pushers, BuildBatch(p)
  PROVE  Honest'
<1> DEFINE bs == batches[p]
           cs == codes[p]
           S  == NextBatch(p)
<1>1. /\ pc[p] = "build"
      /\ batches' = [batches EXCEPT ![p] = Append(bs, S)]
      /\ codes' = [codes EXCEPT ![p] = Append(cs, 0)]
      /\ UNCHANGED <<pc, list, sent, httpErrors, received>>
  BY DEF BuildBatch, counters, history
<1>2. /\ batches'[p] = Append(bs, S) /\ codes'[p] = Append(cs, 0)
      /\ \A q \in Pushers : q # p => batches'[q] = batches[q] /\ codes'[q] = codes[q]
  BY <1>1 DEF Typing, TypeOK
<1>3. \A b \in DOMAIN batches'[p] : codes'[p][b] = 0
  <2>1. /\ bs \in Seq(SUBSET Nat) /\ S \in SUBSET Nat
        /\ cs \in Seq({0, 200, 400}) /\ Len(cs) = Len(bs)
    <3>1. S \in SUBSET DOMAIN list[p] /\ DOMAIN list[p] \in SUBSET Nat
      BY BatchIsInterval, ListType DEF Typing
    <3> QED BY <3>1 DEF Typing, TypeOK
  <2>2. \A b \in DOMAIN bs : cs[b] = 0
    BY <1>1 DEF Honest
  <2> HIDE DEF bs, cs, S
  <2>3. /\ DOMAIN bs = 1..Len(bs) /\ Len(bs) \in Nat
        /\ DOMAIN Append(bs, S) = 1 .. Len(bs) + 1
    <3>1. Append(bs, S) \in Seq(SUBSET Nat) /\ Len(Append(bs, S)) = Len(bs) + 1
      BY <2>1, AppendProperties
    <3> QED BY <2>1, <3>1, LenProperties
  <2>4. /\ \A b \in 1..Len(cs) : Append(cs, 0)[b] = cs[b]
        /\ Append(cs, 0)[Len(cs) + 1] = 0
    BY <2>1, 0 \in {0, 200, 400}, AppendProperties
  <2>5. \A b \in 1 .. Len(bs) + 1 : b \in 1..Len(bs) \/ b = Len(bs) + 1
    BY <2>3
  <2> QED BY <1>2, <2>1, <2>2, <2>3, <2>4, <2>5
<1>4. /\ Succeeded[p] = {} /\ Ended[p] = {}
      /\ Succeeded'[p] = {} /\ Ended'[p] = {}
  <2>1. Succeeded'[p] = {} /\ Ended'[p] = {}
    BY <1>3 DEF Succeeded, Ended, InBatches, Success, Pending
  <2> QED BY <1>1, <2>1, NothingWaits
<1>5. \A q \in Pushers : Succeeded'[q] = Succeeded[q] /\ Ended'[q] = Ended[q]
  BY <1>1, <1>2, <1>4, OthersWait
<1>6. \A q \in Pushers : pc'[q] = "build" => \A b \in DOMAIN batches'[q] : codes'[q][b] = 0
  <2> TAKE q \in Pushers
  <2>1. CASE q = p
    BY <1>3, <2>1
  <2>2. CASE q # p
    BY <1>1, <1>2, <2>2 DEF Honest
  <2> QED BY <2>1, <2>2
<1> QED BY <1>1, <1>5, <1>6, HonestOtherwise

LEMMA HonestNext == Typing /\ Partition /\ Honest /\ [Next]_vars => Honest'
<1> SUFFICES ASSUME Typing, Partition, Honest, [Next]_vars PROVE Honest'
  OBVIOUS
<1> DEFINE Others == /\ UNCHANGED <<list, batches, codes, sent, httpErrors, received>>
                     /\ \A q \in Pushers : pc'[q] = "build" => pc[q] = "build"
<1>1. ASSUME Others PROVE Honest'
  <2>1. \A q \in Pushers : Succeeded'[q] = Succeeded[q] /\ Ended'[q] = Ended[q]
    BY <1>1, OthersWait
  <2>2. \A q \in Pushers : pc'[q] = "build" => \A b \in DOMAIN batches'[q] : codes'[q][b] = 0
    BY <1>1 DEF Honest
  <2> QED BY <1>1, <2>1, <2>2, HonestOtherwise
<1>2. ASSUME UNCHANGED vars PROVE Others
  BY <1>2 DEF vars, loopVars, counters, history
<1>3. ASSUME NEW p \in Pushers,
             SendBatch(p) \/ PostBatches(p) \/ BatchToLwc(p) \/ Return(p)
      PROVE  Others
  BY <1>3 DEF SendBatch, PostBatches, BatchToLwc, Return, Goto, loopVars, counters, history,
              Typing, TypeOK
<1> HIDE DEF Others
<1> QED BY <1>1, <1>2, <1>3, HonestBegin, HonestBuildBatch, HonestEndPost, HonestEndTransfer,
           HonestCountBatches DEF Next, Publish, PushMeasurements, SendSubscriptions

\* While no parallel post is under way, what is counted as sent was received, and
\* what was received is counted as sent or as dropped, for any number of threads
\* and batches of any size.
THEOREM HonestCounts == Spec => []CountsAreHonest
<1>1. Init => Honest
  <2> SUFFICES ASSUME Init PROVE Honest
    OBVIOUS
  <2>1. \A q \in Pushers : batches[q] = <<>>
    BY DEF Init
  <2>2. \A q \in Pushers : Succeeded[q] = {} /\ Ended[q] = {}
    BY <2>1 DEF Succeeded, Ended, InBatches, Success, Pending
  <2>3. Together(Succeeded) = {} /\ Together(Ended) = {}
    BY <2>2 DEF Together
  <2>4. sent = 0 /\ httpErrors = 0 /\ received = 0
    BY DEF Init
  <2> QED BY <2>1, <2>3, <2>4, FS_EmptySet DEF Honest
<1>2. Typing /\ Honest => CountsAreHonest
  <2> SUFFICES ASSUME Typing, Honest, \A p \in Pushers : pc[p] # "multi"
               PROVE  sent <= received /\ received <= sent + httpErrors
    BY DEF CountsAreHonest
  <2>1. \A q \in Pushers : Succeeded[q] = {} /\ Ended[q] = {}
    BY NothingWaits
  <2>2. Together(Succeeded) = {} /\ Together(Ended) = {}
    BY <2>1 DEF Together
  <2>3. Cardinality(Together(Succeeded)) = 0 /\ Cardinality(Together(Ended)) = 0
    BY <2>2, FS_EmptySet
  <2> QED BY <2>3 DEF Honest, Typing, TypeOK
<1> QED BY <1>1, <1>2, TypingInvariant, PartitionInvariant, HonestNext, PTL DEF Spec
=============================================================================
