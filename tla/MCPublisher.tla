----------------------------- MODULE MCPublisher -----------------------------
(* A small instance of Publisher for TLC. *)
EXTENDS Publisher

CONSTANTS sender, application

ok  == "ok"
nan == "nan"
bad == "invalid"

\* Every list of two, and some that need a second batch, full or not.
SomeLists ==
  UNION {[1..n -> Kinds] : n \in 0..2}
    \cup {<<ok, ok, ok>>, <<ok, bad, ok>>, <<nan, bad, ok>>, <<ok, ok, nan>>,
          <<ok, ok, bad, ok>>}

BothThreads == {sender, application}
=============================================================================
