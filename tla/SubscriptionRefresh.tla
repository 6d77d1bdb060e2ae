------------------------- MODULE SubscriptionRefresh -------------------------
(***************************************************************************)
(* meter/subscription_manager.cc: refresh_subscriptions, with              *)
(* http::conditional_get below it and the server that holds the            *)
(* subscriptions across the network.  The refresher thread (Client) makes  *)
(* one refresh after the other.                                            *)
(*                                                                         *)
(* A document is known by its place in Docs, and so is its ETag; what it   *)
(* holds is the set of frequencies that have subscriptions in it.          *)
(***************************************************************************)
EXTENDS Naturals, Sequences, FiniteSets

CONSTANTS
  Frequencies,  \* 1..kMainMultiple
  Docs,         \* the documents the server serves in turn
  Unparsable    \* a document that is not JSON

ASSUME RefreshAssumption ==
  /\ Frequencies \subseteq Nat \ {0}
  /\ Docs \in Seq(SUBSET Frequencies \cup {Unparsable}) /\ Docs # <<>>

VARIABLES
  served,        \* the document the server holds
  current_etag,  \* current_etag, NoTag when empty
  subscriptions, \* per frequency, the document its subscriptions_ are from
  refresher,     \* where the refresher thread is
  reply,         \* what became of its request
  moved,         \* the frequencies already moved into subscriptions_
  stale          \* history: since the last installation a document that was received
                 \* was not installed, or an error left the tag of one

refreshVars == <<served, current_etag, subscriptions, refresher, reply, moved, stale>>

Versions == 1..Len(Docs)
NoTag    == 0
NoDoc    == 0
ErrorTag == Len(Docs) + 1  \* names no document
NoReply  == [result |-> "none", tag |-> NoTag, body |-> NoDoc]

\* ParseSubscriptions.  What is no object yields no subscriptions.
Parsed(d) ==
  [f \in Frequencies |->
     IF d = NoDoc \/ Docs[d] = Unparsable THEN NoDoc
     ELSE IF f \in Docs[d] THEN d ELSE NoDoc]

RefreshInit ==
  /\ served = 1
  /\ current_etag = NoTag
  /\ subscriptions = Parsed(NoDoc)
  /\ refresher = "off"
  /\ reply = NoReply /\ moved = {} /\ stale = FALSE

-----------------------------------------------------------------------------
(* The server and the network *)

Publish ==
  /\ served < Len(Docs)
  /\ served' = served + 1
  /\ UNCHANGED <<current_etag, subscriptions, refresher, reply, moved, stale>>

\* The request, with If-None-Match when current_etag is not empty, is answered:
\* with the document, or 304 when the server has no other.  A tag may be left
\* out of either.
Serve ==
  /\ refresher = "get" /\ reply = NoReply
  /\ \E tag \in {served, NoTag} :
       \/ reply' = [result |-> "200", tag |-> tag, body |-> served]
       \/ /\ current_etag = served
          /\ reply' = [result |-> "304", tag |-> tag, body |-> NoDoc]
  /\ UNCHANGED <<served, current_etag, subscriptions, refresher, moved, stale>>

\* An error status, with any tag; or no complete answer: the connection or the
\* transfer fails or times out, perhaps after the headers of an answer.
Fail ==
  /\ refresher = "get" /\ reply = NoReply
  /\ \/ \E tag \in {served, ErrorTag, NoTag} :
          reply' = [result |-> "error", tag |-> tag, body |-> NoDoc]
     \/ \E tag \in {served, NoTag} :
          reply' = [result |-> "broken", tag |-> tag, body |-> NoDoc]
  /\ UNCHANGED <<served, current_etag, subscriptions, refresher, moved, stale>>

-----------------------------------------------------------------------------
(* refresh_subscriptions *)

Request ==
  /\ refresher = "begin"
  /\ refresher' = "get"
  /\ UNCHANGED <<served, current_etag, subscriptions, reply, moved, stale>>

\* Mutant: header_callback writes to the caller's etag.
ReceiveTagEarly ==
  /\ refresher = "get" /\ reply # NoReply
  /\ current_etag' = reply.tag
  /\ refresher' = IF reply.result = "200" THEN "install" ELSE "wait"
  /\ reply' = IF reply.result = "200" THEN reply ELSE NoReply
  /\ stale' = (stale \/ (reply.result = "error" /\ reply.tag \in Versions))
  /\ UNCHANGED <<served, subscriptions, moved>>

\* conditional_get returns.  The tag of every complete answer is kept, an error's
\* too.
Receive ==
  /\ refresher = "get" /\ reply # NoReply
  /\ current_etag' = IF reply.result = "broken" THEN current_etag ELSE reply.tag
  /\ \/ /\ reply.result = "200"
        /\ refresher' = "install"
        /\ UNCHANGED reply
     \/ /\ reply.result # "200"
        /\ refresher' = "wait"
        /\ reply' = NoReply
  /\ stale' = (stale \/ (reply.result = "error" /\ reply.tag \in Versions))
  /\ UNCHANGED <<served, subscriptions, moved>>

\* The catch (...): no memory for the parsed document, say.
ParseThrows ==
  /\ refresher = "install" /\ moved = {}
  /\ refresher' = "wait"
  /\ reply' = NoReply /\ stale' = TRUE
  /\ UNCHANGED <<served, current_etag, subscriptions, moved>>

\* Mutant: the new lists are merged into the old ones.
InstallNonEmpty(f) ==
  /\ refresher = "install" /\ f \in Frequencies \ moved
  /\ subscriptions' = IF Parsed(reply.body)[f] = NoDoc THEN subscriptions
                      ELSE [subscriptions EXCEPT ![f] = Parsed(reply.body)[f]]
  /\ moved' = moved \cup {f}
  /\ UNCHANGED <<served, current_etag, refresher, reply, stale>>

\* subscriptions_ = std::move(subscriptions), an array moved element by element
\* under subscriptions_mutex.
Install(f) ==
  /\ refresher = "install" /\ f \in Frequencies \ moved
  /\ subscriptions' = [subscriptions EXCEPT ![f] = Parsed(reply.body)[f]]
  /\ moved' = moved \cup {f}
  /\ UNCHANGED <<served, current_etag, refresher, reply, stale>>

EndInstall ==
  /\ refresher = "install" /\ moved = Frequencies
  /\ refresher' = "wait"
  /\ reply' = NoReply /\ moved' = {} /\ stale' = FALSE
  /\ UNCHANGED <<served, current_etag, subscriptions>>

Refresh ==
  \/ Request \/ Receive \/ ParseThrows
  \/ \E f \in Frequencies : Install(f)
  \/ EndInstall

Network == Publish \/ Serve \/ Fail

-----------------------------------------------------------------------------
(* Properties *)

RefreshTypeOK ==
  /\ served \in Versions
  /\ current_etag \in Versions \cup {ErrorTag, NoTag}
  /\ subscriptions \in [Frequencies -> Versions \cup {NoDoc}]
  /\ refresher \in {"off", "check", "begin", "get", "install", "wait", "ended"}
  /\ reply \in [result : {"none", "200", "304", "error", "broken"},
                tag : Versions \cup {ErrorTag, NoTag}, body : Versions \cup {NoDoc}]
  /\ moved \subseteq Frequencies
  /\ stale \in BOOLEAN

\* While no refresh is under way, the subscriptions are those of the document
\* whose ETag the next request will send, if it is one's.  Otherwise a 304 would
\* confirm subscriptions the client does not have, for ever: as it does when an error
\* came with that ETag or a document could not be parsed (stale).
InstalledIsTagged ==
  refresher # "install" /\ current_etag \in Versions /\ ~stale =>
    subscriptions = Parsed(current_etag)
=============================================================================
