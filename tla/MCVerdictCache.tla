---- MODULE MCVerdictCache ----
(* Small instances of VerdictCache for TLC: three calls about one key, one     *)
(* about each of two others, so that a cache of two entries has to drop one.   *)
EXTENDS VerdictCache
CONSTANTS c1, c2, c3, c4, c5, k1, k2, k3
TheCalls == {c1, c2, c3, c4, c5}
TheKeys == {k1, k2, k3}
TheKeyOf == [c \in TheCalls |-> IF c = c4 THEN k2 ELSE IF c = c5 THEN k3 ELSE k1]
====
