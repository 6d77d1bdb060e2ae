------------------------------- MODULE MCClient -------------------------------
(* A small instance of Client for TLC. *)
EXTENDS Client

CONSTANTS unparsable, tag

\* The last document cannot be read, and so drops both frequencies.
TwoDocuments == <<{1, 2}, unparsable>>

\* Each file overrides what comes before it, or does not.
TheContents == [global |-> {"silent", "on"}, local |-> {"silent", "off"},
                disabled |-> {"absent", "present"}]
=============================================================================
