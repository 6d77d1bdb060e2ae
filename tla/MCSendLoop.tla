------------------------------ MODULE MCSendLoop ------------------------------
(* Small instances of SendLoop for TLC. *)
EXTENDS SendLoop

CONSTANTS counter, gauge

CounterAndGauge == {counter, gauge}
TheCounter      == {counter}
TheGauge        == {gauge}
NoGauge         == {}
=============================================================================
