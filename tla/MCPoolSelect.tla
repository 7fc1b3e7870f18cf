---- MODULE MCPoolSelect ----
(* Small instances of PoolSelect for TLC: two archive seeds, of which a       *)
(* survivor slot may carry the first.                                         *)
EXTENDS PoolSelect
CONSTANTS p1, p2, c1, g1, g2, g3
TheIds == {p1, p2, c1}
TheArchive == <<p1, p2>>
TheSignatures == {g1, g2, g3}
TheSignatureOf == [s \in {p1, p2} |-> IF s = p1 THEN g1 ELSE g2]
====
