--------------------------- MODULE MCConsolidation ---------------------------
(* Small instances of ConsolidationRegistry for TLC. *)
EXTENDS ConsolidationRegistry

CONSTANTS counter, gauge

CounterAndGauge == {counter, gauge}
TheGauge        == {gauge}
=============================================================================
