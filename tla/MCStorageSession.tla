-------------------------- MODULE MCStorageSession --------------------------
(* StorageSession for small sets of objects. *)
EXTENDS StorageSession

CONSTANTS s1, v1, g1, g2, i1, i2

OneStatement == {s1}
OneView == {v1}
TwoGuards == {g1, g2}
TwoIterators == {i1, i2}

(* Everything at once, and as much as each of the conditional properties      *)
(* permits; a program that meets less behaves like one of these.             *)
EveryChance == {Mishaps,
                Mishaps \ {"undone", "others"},
                Mishaps \ {"begin", "commit", "undone"},
                Mishaps \ {"commit"},
                {"begin"}}

OnlyOutlived == {{"outlived"}}
=============================================================================
