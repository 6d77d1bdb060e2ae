---------------------------- MODULE MCStepNumber ----------------------------
(* Small instances of StepNumber for TLC. *)
EXTENDS StepNumber, TLC

CONSTANTS t1, t2, t3

OneThread    == {t1}
TwoThreads   == {t1, t2}
ThreeThreads == {t1, t2, t3}

ThreadSymmetry == Permutations(Threads)
=============================================================================
