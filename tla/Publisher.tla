------------------------------- MODULE Publisher -------------------------------
(***************************************************************************)
(* meter/publisher.cc over http.cc: measurements are posted in batches, one*)
(* after the other or all at once, subscription results always one batch   *)
(* after the other; each batch fails by itself, nothing is retried, and    *)
(* counters account for every measurement.  The sender thread and the      *)
(* application (Client::Push) may be publishing at the same time.          *)
(*                                                                         *)
(* Of a measurement only its kind matters: "ok", "nan" or "invalid" (it    *)
(* fails validation, with validateMetrics set).  A result of a             *)
(* subscription is always "ok".                                            *)
(***************************************************************************)
EXTENDS Naturals, Sequences, FiniteSets

CONSTANTS
  Pushers,    \* the threads that publish
  BatchSize,  \* http.batch_size
  Lists,      \* what the calls publish
  MaxCalls    \* bound: the number of calls

Kinds == {"ok", "nan", "invalid"}

\* Of a batch_size of 0 the code's loops never end.
ASSUME PublisherAssumption ==
  /\ IsFiniteSet(Pushers)
  /\ BatchSize \in Nat \ {0} /\ MaxCalls \in Nat
  /\ Lists \subseteq Seq(Kinds)

VARIABLES
  calls,      \* the calls made
  pc,         \* where each thread is
  list,       \* what it publishes
  from,       \* the place in list its loop has come to
  batch,      \* the measurements of the batch it is posting
  batches,    \* in parallel: the measurements of each batch
  codes,      \* in parallel: what became of each batch
  \* The counters in the registry.
  total, sent, httpErrors, validationErrors, lwcErrors,
  \* History.
  received,   \* the measurements the back end received
  nans,       \* the NaNs that were skipped
  posted      \* by call: how often each measurement was in a posted batch

counters == <<total, sent, httpErrors, validationErrors, lwcErrors>>
loopVars == <<list, from, batch, batches, codes>>
history  == <<received, nans, posted>>
vars     == <<calls, pc, loopVars, counters, history>>

\* The results of subscriptions.
Results == {l \in Lists : \A i \in DOMAIN l : l[i] = "ok"}

Init ==
  /\ calls = 0
  /\ pc = [p \in Pushers |-> "idle"]
  /\ list = [p \in Pushers |-> <<>>]
  /\ from = [p \in Pushers |-> 1]
  /\ batch = [p \in Pushers |-> {}]
  /\ batches = [p \in Pushers |-> <<>>]
  /\ codes = [p \in Pushers |-> <<>>]
  /\ total = 0 /\ sent = 0 /\ httpErrors = 0 /\ validationErrors = 0 /\ lwcErrors = 0
  /\ received = 0 /\ nans = 0
  /\ posted = [p \in Pushers |-> <<>>]

AtEnd(p) == from[p] > Len(list[p])

\* Mutant: the batches overlap by one.
NextBatchOverlaps(p) == {i \in DOMAIN list[p] : from[p] - 1 <= i /\ i < from[p] + BatchSize}

\* [from, to): std::min(batch_size, std::distance(from, end)) measurements.
NextBatch(p) == {i \in DOMAIN list[p] : from[p] <= i /\ i < from[p] + BatchSize}

Of(p, S, kind) == {i \in S : list[p][i] = kind}

\* MeasurementsToJson: the payload, and the number of validation errors.
Added(p, S)  == Of(p, S, "ok")
Errors(p, S) == Cardinality(Of(p, S, "invalid"))

Goto(p, label) == pc' = [pc EXCEPT ![p] = label]

Advance(p) == from' = [from EXCEPT ![p] = from[p] + Cardinality(NextBatch(p))]

\* A batch reaches the network.
Post(p, S) ==
  posted' = [posted EXCEPT ![p] = [i \in DOMAIN @ |-> IF i \in S THEN @[i] + 1 ELSE @[i]]]

-----------------------------------------------------------------------------
(* The calls *)

Begin(p, l, label) ==
  /\ pc[p] = "idle" /\ calls < MaxCalls
  /\ calls' = calls + 1
  /\ Goto(p, label)
  /\ list' = [list EXCEPT ![p] = l]
  /\ from' = [from EXCEPT ![p] = 1]
  /\ posted' = [posted EXCEPT ![p] = [i \in DOMAIN l |-> 0]]
  /\ UNCHANGED <<batch, batches, codes, counters, received, nans>>

\* PushMeasurements, by send_in_parallel of the configuration at the moment.
PushMeasurements(p, l) == \E label \in {"serial", "build"} : Begin(p, l, label)

SendSubscriptions(p, l) == Begin(p, l, "lwc")

\* The last batch is dealt with.
Return(p) ==
  /\ pc[p] \in {"serial", "lwc"} /\ AtEnd(p)
  /\ Goto(p, "idle")
  /\ UNCHANGED <<calls, loopVars, counters, history>>

-----------------------------------------------------------------------------
(* PushSerially *)

\* SendBatch up to the post; a batch without valid measurements ends here.
SendBatch(p) ==
  /\ pc[p] = "serial" /\ ~AtEnd(p)
  /\ LET S == NextBatch(p)
     IN  /\ validationErrors' = validationErrors + Errors(p, S)
         /\ total' = total + Cardinality(S)
         /\ nans' = nans + Cardinality(Of(p, S, "nan"))
         /\ batch' = [batch EXCEPT ![p] = Added(p, S)]
         /\ IF Added(p, S) = {} THEN UNCHANGED <<pc, posted>>
                                ELSE Goto(p, "post") /\ Post(p, Added(p, S))
  /\ Advance(p)
  /\ UNCHANGED <<calls, list, batches, codes, sent, httpErrors, lwcErrors, received>>

\* Mutant: a failure is counted by batches, not by measurements.
CountPerBatch(p, code, S) ==
  /\ sent' = IF code = 200 THEN sent + Cardinality(S) ELSE sent
  /\ httpErrors' = IF code = 200 THEN httpErrors ELSE httpErrors + 1

\* UpdateSentStat or UpdateHttpErrorsStat, by the status code.
Count(p, code, S) ==
  /\ sent' = IF code = 200 THEN sent + Cardinality(S) ELSE sent
  /\ httpErrors' = IF code = 200 THEN httpErrors ELSE httpErrors + Cardinality(S)

\* The post ends.  The back end has the batch if it says so, and may have it
\* when the answer is lost.
EndPost(p) ==
  /\ pc[p] = "post"
  /\ \E code \in {200, 400} :
       /\ Count(p, code, batch[p])
       /\ received' \in {received + Cardinality(batch[p])}
                          \cup (IF code = 200 THEN {} ELSE {received})
  /\ Goto(p, "serial")
  /\ batch' = [batch EXCEPT ![p] = {}]
  /\ UNCHANGED <<calls, list, from, batches, codes, total, validationErrors, lwcErrors,
                 nans, posted>>

-----------------------------------------------------------------------------
(* PushInParallel *)

\* A batch is built, with valid measurements or not; the counters wait.
BuildBatch(p) ==
  /\ pc[p] = "build" /\ ~AtEnd(p)
  /\ batches' = [batches EXCEPT ![p] = Append(@, NextBatch(p))]
  /\ codes' = [codes EXCEPT ![p] = Append(@, 0)]
  /\ Advance(p)
  /\ UNCHANGED <<calls, pc, list, batch, counters, history>>

PostBatches(p) ==
  /\ pc[p] = "build" /\ AtEnd(p)
  /\ Goto(p, "multi")
  /\ Post(p, UNION {Added(p, batches[p][b]) : b \in DOMAIN batches[p]})
  /\ UNCHANGED <<calls, loopVars, counters, received, nans>>

\* One transfer of perform_all ends, in any order.
EndTransfer(p) ==
  /\ pc[p] = "multi"
  /\ \E b \in DOMAIN batches[p], code \in {200, 400} :
       /\ codes[p][b] = 0
       /\ codes' = [codes EXCEPT ![p][b] = code]
       /\ received' \in {received + Cardinality(Added(p, batches[p][b]))}
                          \cup (IF code = 200 THEN {} ELSE {received})
  /\ UNCHANGED <<calls, pc, list, from, batch, batches, counters, nans, posted>>

\* Mutant: a batch that was not finished counts as sent.
SuccessUnlessFailed(p) == {b \in DOMAIN batches[p] : codes[p][b] # 400}

Success(p) == {b \in DOMAIN batches[p] : codes[p][b] = 200}
Pending(p) == {b \in DOMAIN batches[p] : codes[p][b] = 0}
InBatches(p, B) == UNION {Added(p, batches[p][b]) : b \in B}

\* Mutant: the call goes on until every batch was accepted.
CountBatchesWhenSent(p) ==
  /\ pc[p] = "multi" /\ Success(p) = DOMAIN batches[p]
  /\ total' = total + Len(list[p])
  /\ Goto(p, "idle")
  /\ batches' = [batches EXCEPT ![p] = <<>>]
  /\ codes' = [codes EXCEPT ![p] = <<>>]
  /\ UNCHANGED <<calls, list, from, batch, sent, httpErrors, validationErrors,
                 lwcErrors, history>>

\* post_batches returns: every transfer has ended, or curl_multi failed and those
\* under way, which the back end may have or not, count as 400.  Then the
\* counters, each an atomic addition.
CountBatches(p) ==
  /\ pc[p] = "multi"
  /\ validationErrors' = validationErrors + Errors(p, DOMAIN list[p])
  /\ total' = total + Len(list[p])
  /\ sent' = sent + Cardinality(InBatches(p, Success(p)))
  /\ httpErrors' = httpErrors
                     + Cardinality(InBatches(p, DOMAIN batches[p] \ Success(p)))
  /\ nans' = nans + Cardinality(Of(p, DOMAIN list[p], "nan"))
  /\ Goto(p, "idle")
  /\ batches' = [batches EXCEPT ![p] = <<>>]
  /\ codes' = [codes EXCEPT ![p] = <<>>]
  /\ \E B \in SUBSET Pending(p) : received' = received + Cardinality(InBatches(p, B))
  /\ UNCHANGED <<calls, list, from, batch, lwcErrors, posted>>

-----------------------------------------------------------------------------
(* SendSubscriptions: batch_to_lwc *)

BatchToLwc(p) ==
  /\ pc[p] = "lwc" /\ ~AtEnd(p)
  /\ Post(p, NextBatch(p))
  /\ \E failed \in {0, 1} : lwcErrors' = lwcErrors + failed
  /\ Advance(p)
  /\ UNCHANGED <<calls, pc, list, batch, batches, codes, total, sent, httpErrors,
                 validationErrors, received, nans>>

-----------------------------------------------------------------------------
Publish(p) ==
  \/ SendBatch(p) \/ EndPost(p)
  \/ BuildBatch(p) \/ PostBatches(p) \/ EndTransfer(p) \/ CountBatches(p)
  \/ BatchToLwc(p)
  \/ Return(p)

Next ==
  \E p \in Pushers :
    \/ \E l \in Lists : PushMeasurements(p, l)
    \/ \E l \in Results : SendSubscriptions(p, l)
    \/ Publish(p)

Spec == Init /\ [][Next]_vars

\* The threads are scheduled, and curl's timeouts end every transfer.
FairSpec == Spec /\ \A p \in Pushers : WF_vars(Publish(p))

-----------------------------------------------------------------------------
(* Properties *)

\* Every variable keeps its type; a loop never passes the end of its list.
TypeOK ==
  /\ calls \in 0..MaxCalls
  /\ pc \in [Pushers -> {"idle", "serial", "post", "build", "multi", "lwc"}]
  /\ list \in [Pushers -> Seq(Kinds)]
  /\ from \in [Pushers -> Nat \ {0}]
  /\ batch \in [Pushers -> SUBSET Nat]
  /\ batches \in [Pushers -> Seq(SUBSET Nat)]
  /\ codes \in [Pushers -> Seq({0, 200, 400})]
  /\ DOMAIN posted = Pushers
  /\ \A p \in Pushers :
       /\ from[p] <= Len(list[p]) + 1
       /\ Len(codes[p]) = Len(batches[p])
       /\ posted[p] \in [DOMAIN list[p] -> Nat]
  /\ total \in Nat /\ sent \in Nat /\ httpErrors \in Nat /\ validationErrors \in Nat
  /\ lwcErrors \in Nat /\ received \in Nat /\ nans \in Nat

\* The measurements that are being posted serially.
InPost == UNION {{p} \X batch[p] : p \in Pushers}

\* Every measurement is counted once, whichever of its ways it goes: sent,
\* dropped with its batch, dropped as invalid, or skipped as a NaN.
Accounted ==
  total = sent + httpErrors + validationErrors + nans
            + Cardinality(InPost)

\* The batches of a call cover its list without overlap: at its end every
\* valid measurement was posted once, in a list of any length.
PostedOnce ==
  \A p \in Pushers : pc[p] = "idle" =>
    \A i \in DOMAIN list[p] : posted[p][i] = IF list[p][i] = "ok" THEN 1 ELSE 0

\* What is counted as sent was received; what was received is counted as sent,
\* or as dropped when the answer was lost.
CountsAreHonest ==
  (\A p \in Pushers : pc[p] # "multi") =>
    sent <= received /\ received <= sent + httpErrors

\* Publishing returns.
PublishReturns == \A p \in Pushers : pc[p] # "idle" ~> pc[p] = "idle"
=============================================================================
