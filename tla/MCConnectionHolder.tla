------------------------- MODULE MCConnectionHolder -------------------------
(* Instances of ConnectionHolder for TLC. *)
EXTENDS ConnectionHolder

CONSTANTS r1, r2, r3, t1, t2

ThreeRefs == {r1, r2, r3}
TwoThreads == {t1, t2}
=============================================================================
