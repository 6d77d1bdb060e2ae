--------------------------- MODULE MCAtlasRegistry ---------------------------
(* Small instances of AtlasRegistry for TLC. *)
EXTENDS AtlasRegistry, TLC

CONSTANTS t1, t2, i1, i2

TwoThreads == {t1, t2}
OneThread  == {t1}
OneId      == {i1}
TwoIds     == {i1, i2}

Symmetric == Permutations(Threads) \cup Permutations(Ids)
=============================================================================
