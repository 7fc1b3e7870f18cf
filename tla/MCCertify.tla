----------------------------- MODULE MCCertify -----------------------------
EXTENDS Certify

CONSTANTS left, right, hand, twin, sound, empty, broken

MCSlots == {left, right}
\* Both slots may mutate one parent the same way; right may also be replanned.
MCCards == [s \in MCSlots |-> IF s = left THEN {hand} ELSE {hand, twin}]
MCTheorems == {sound, empty, broken}
S(t, spare) == [theorem |-> t, spare |-> spare]
C(statement, of, kind) == [statement |-> statement, proof |-> [of |-> of, kind |-> kind]]
MCCandidates ==
    {C(S(sound, FALSE), S(sound, FALSE), "closes"), C(S(sound, TRUE), S(sound, TRUE), "closes"),
     C(S(broken, FALSE), S(sound, FALSE), "closes"), C(S(empty, FALSE), S(empty, FALSE), "open")}
\* An earlier campaign has certified what hand makes of the sound theorem.
MCCorpus == {S(sound, TRUE)}
MCCorpusId == [x \in MCCorpus |-> <<hand, x>>]
=============================================================================
