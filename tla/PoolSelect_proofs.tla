-------------------------- MODULE PoolSelect_proofs --------------------------
(***************************************************************************)
(* Proofs about PoolSelect, for every archive, every number of results and *)
(* whatever the selector answers.                                          *)
(***************************************************************************)
EXTENDS PoolSelect, SequenceTheorems, WellFoundedInduction, TLAPS

\* Every step leaves the pool alone, appends a candidate no invariant rejects,
\* or appends a seed no invariant rejects, and only to a pool that is not full.
Extends(p) ==
    /\ approved' = Append(approved, p) /\ ~Full
    /\ p \in Chosen /\ p.ok
    /\ p.signature \notin SelectedSignatures

SeedProblem(seed) ==
    [id |-> seed, signature |-> SignatureOf[seed], from |-> "seed", ok |-> seed \in Eligible]

CandidateProblem(i) ==
    [id |-> results[i].id, from |-> "candidate",
     signature |-> results[i].signature, ok |-> results[i].ok]

LEMMA SeedType ==
    ASSUME TypeOK, NEW seed \in SeedIds
    PROVE  SeedProblem(seed) \in Chosen /\ seed \in Ids
<1>1. seed \in Ids /\ SignatureOf[seed] \in Signatures
  BY SelectAssumption DEF SeedIds
<1> QED
  BY <1>1 DEF SeedProblem, Chosen

LEMMA SeedStep ==
    ASSUME TypeOK, NEW seed \in SeedIds, ~BackfillViolation(seed), AppendSeed(seed), ~Full
    PROVE  Extends(SeedProblem(seed))
<1>1. SeedProblem(seed).ok /\ SeedProblem(seed).signature \notin SelectedSignatures
  BY DEF SeedProblem, BackfillViolation
<1>2. approved' = Append(approved, SeedProblem(seed))
  BY DEF AppendSeed, SeedProblem
<1> QED
  BY <1>1, <1>2, SeedType DEF Extends

LEMMA CandidateStep ==
    ASSUME TypeOK, NEW i \in Slots, ~CandidateViolation(i), ~Full,
           approved' = Append(approved, CandidateProblem(i))
    PROVE  Extends(CandidateProblem(i))
<1>1. CandidateProblem(i) \in Chosen
  BY DEF TypeOK, Result, Chosen, CandidateProblem
<1>2. CandidateProblem(i).ok /\ CandidateProblem(i).signature \notin SelectedSignatures
  BY DEF CandidateProblem, CandidateViolation
<1> QED
  BY <1>1, <1>2 DEF Extends

\* The four ways the pool changes, as one fact about a step.
LEMMA PoolStep ==
    ASSUME TypeOK, [Next]_vars
    PROVE  \/ approved' = approved
           \/ \E seed \in SeedIds :
                 Extends(SeedProblem(seed)) /\ seed \notin UsedIds /\ UNCHANGED verdicts
           \/ \E i \in Slots : /\ Extends(CandidateProblem(i))
                               /\ results[i].id \notin DOMAIN verdicts
                               /\ Decided(i, TRUE)
<1>1. ASSUME NEW name \in Ids \cup Slots, Select(name)
      PROVE  \/ approved' = approved
             \/ \E i \in Slots : /\ Extends(CandidateProblem(i))
                                 /\ results[i].id \notin DOMAIN verdicts
                                 /\ Decided(i, TRUE)
  <2>1. PICK i \in Undecided(name) :
           /\ Decided(i, ~CandidateViolation(i))
           /\ approved' = IF CandidateViolation(i) THEN approved
                          ELSE Append(approved, CandidateProblem(i))
    BY <1>1 DEF Select, CandidateProblem
  <2>2. i \in Slots /\ results[i].id \notin DOMAIN verdicts
    BY DEF Undecided, ResultNamed
  <2>3. ~Full
    BY <1>1 DEF Select
  <2>4. CASE CandidateViolation(i)
    BY <2>1, <2>4
  <2>5. CASE ~CandidateViolation(i)
    <3>1. approved' = Append(approved, CandidateProblem(i)) /\ Decided(i, TRUE)
      BY <2>1, <2>5 DEF Decided
    <3>2. Extends(CandidateProblem(i))
      BY <3>1, <2>2, <2>3, <2>5, CandidateStep
    <3> QED
      BY <3>1, <3>2, <2>2
  <2> QED
    BY <2>4, <2>5
<1>2. ASSUME NEW seed \in SeedIds, NEW kind, Backfill(seed, kind)
      PROVE  \/ approved' = approved
             \/ Extends(SeedProblem(seed)) /\ seed \notin UsedIds /\ UNCHANGED verdicts
  BY <1>2, SeedStep DEF Backfill, BackfillViolation
<1>3. CASE Continue
  <2>1. Archive[next] \in SeedIds
    BY <1>3, SelectAssumption DEF Continue, TypeOK, SeedIds
  <2>2. CASE Archive[next] \in seedIds \/ BackfillViolation(Archive[next])
    BY <1>3, <2>2 DEF Continue
  <2>3. CASE ~(Archive[next] \in seedIds \/ BackfillViolation(Archive[next]))
    <3>1. AppendSeed(Archive[next]) /\ ~Full /\ UNCHANGED verdicts
      BY <1>3, <2>3 DEF Continue
    <3>2. Extends(SeedProblem(Archive[next])) /\ Archive[next] \notin UsedIds
      BY <2>1, <2>3, <3>1, SeedStep DEF BackfillViolation
    <3> QED
      BY <2>1, <3>1, <3>2
  <2> QED
    BY <2>2, <2>3
<1>4. ASSUME NEW name \in Ids \cup Slots, Reject(name) PROVE approved' = approved
  BY <1>4 DEF Reject
<1>5. ASSUME NEW seed \in SeedIds, RejectSeed(seed) PROVE approved' = approved
  BY <1>5 DEF RejectSeed
<1>6. ASSUME NEW name, NEW kind, Skip(name, kind) PROVE approved' = approved
  BY <1>6 DEF Skip
<1>7. CASE EndOfDecisions \/ Finish \/ UNCHANGED vars
  BY <1>7 DEF EndOfDecisions, Finish, vars
<1> QED
  BY <1>1, <1>2, <1>3, <1>4, <1>5, <1>6, <1>7 DEF Next
-----------------------------------------------------------------------------
\* A nonempty set of naturals has a least element.
LEMMA LeastElement ==
    ASSUME NEW S \in SUBSET Nat, S # {}
    PROVE  \E m \in S : \A j \in S : m <= j
<1>1. PICK m \in S : \A y \in S : ~ (<<y, m>> \in OpToRel(<, Nat))
  BY NatLessThanWellFounded, WFMin
<1>2. \A y \in S : ~ (y < m)
  BY <1>1 DEF OpToRel
<1> QED
  BY <1>2

\* What a verdict can be, and that every step keeps the verdicts' type.
VerdictType == [row : Slots, eligible : BOOLEAN]

LEMMA VerdictsStep ==
    ASSUME TypeOK, [Next]_vars
    PROVE  /\ results' = results
           /\ \A id \in DOMAIN verdicts' : id \in Ids /\ verdicts'[id] \in VerdictType
<1> USE DEF VerdictType
<1>1. ASSUME NEW i \in Slots, NEW eligible \in BOOLEAN, Decided(i, eligible)
      PROVE  \A id \in DOMAIN verdicts' : id \in Ids /\ verdicts'[id] \in VerdictType
  BY <1>1 DEF Decided, TypeOK, Result
<1>2. ASSUME NEW name \in Ids \cup Slots, Select(name)
      PROVE  /\ results' = results
             /\ \A id \in DOMAIN verdicts' : id \in Ids /\ verdicts'[id] \in VerdictType
  <2>1. PICK i \in Undecided(name) : Decided(i, ~CandidateViolation(i))
    BY <1>2 DEF Select
  <2>2. i \in Slots /\ (~CandidateViolation(i)) \in BOOLEAN
    BY DEF Undecided, ResultNamed, CandidateViolation, TypeOK, Result
  <2> QED
    BY <1>1, <1>2, <2>1, <2>2 DEF Select
<1>3. ASSUME NEW name \in Ids \cup Slots, Reject(name)
      PROVE  /\ results' = results
             /\ \A id \in DOMAIN verdicts' : id \in Ids /\ verdicts'[id] \in VerdictType
  <2>1. PICK i \in Undecided(name) : Decided(i, FALSE)
    BY <1>3 DEF Reject
  <2>2. i \in Slots
    BY DEF Undecided, ResultNamed
  <2> QED
    BY <1>1, <1>3, <2>1, <2>2 DEF Reject
<1>4. CASE Finish
  <2> DEFINE First(id, i) == results[i].id = id /\ \A j \in 1..i - 1 : results[j].id # id
             F(id) == CHOOSE i \in Slots : First(id, i)
  <2>1. ASSUME NEW n \in Slots PROVE \E i \in Slots : First(results[n].id, i)
    <3> DEFINE P(i) == i \in Slots /\ results[i].id = results[n].id
               S == {i \in Nat : P(i)}
    <3>1. \E m \in S : \A j \in S : m <= j
      <4> HIDE DEF P
      <4>1. S \subseteq Nat /\ n \in S
        BY SelectAssumption DEF P, Slots
      <4> HIDE DEF S
      <4> QED
        BY <4>1, LeastElement
    <3>2. PICK m \in S : \A j \in S : m <= j
      BY <3>1
    <3>3. \A j \in 1..m - 1 : results[j].id # results[n].id
      BY <3>2, SelectAssumption DEF Slots
    <3> QED
      BY <3>2, <3>3
  <2>2. ASSUME NEW n \in Slots PROVE F(results[n].id) \in Slots
    BY <2>1
  <2>3. \A id \in DOMAIN verdicts' : \E n \in Slots : id = results[n].id
    BY <1>4 DEF Finish
  <2>4. ASSUME NEW n \in Slots PROVE results[n].id \in Ids
    BY DEF TypeOK, Result
  <2>5. ASSUME NEW n \in Slots PROVE verdicts'[results[n].id] \in VerdictType
    <3>1. verdicts'[results[n].id] =
             IF results[n].id \in DOMAIN verdicts THEN verdicts[results[n].id]
             ELSE [row |-> F(results[n].id), eligible |-> FALSE]
      BY <1>4 DEF Finish
    <3> HIDE DEF F
    <3> QED
      BY <3>1, <2>2 DEF TypeOK
  <2>6. results' = results
    BY <1>4 DEF Finish
  <2> HIDE DEF VerdictType
  <2> QED
    BY <2>3, <2>4, <2>5, <2>6
<1>5. ASSUME UNCHANGED verdicts
      PROVE  \A id \in DOMAIN verdicts' : id \in Ids /\ verdicts'[id] \in VerdictType
  BY <1>5 DEF TypeOK
<1> QED
  BY <1>2, <1>3, <1>4, <1>5 DEF Next, Backfill, RejectSeed, Skip, EndOfDecisions, Continue, vars

\* The variables keep their types; in particular every verdict is about a
\* result of this generation.
THEOREM TypeInvariant == Spec => []TypeOK
<1>1. Init => TypeOK
  BY SelectAssumption DEF Init, TypeOK
<1>2. TypeOK /\ [Next]_vars => TypeOK'
  <2> SUFFICES ASSUME TypeOK, [Next]_vars PROVE TypeOK'
    OBVIOUS
  <2>1. approved' \in Seq(Chosen)
    <3>1. ASSUME NEW p, Extends(p) PROVE approved' \in Seq(Chosen)
      BY <3>1, AppendProperties DEF Extends, TypeOK
    <3> QED
      BY <3>1, PoolStep DEF TypeOK
  <2>2. results' \in [Slots -> Result]
    BY VerdictsStep DEF TypeOK
  <2>3. \A id \in DOMAIN verdicts' :
           id \in Ids /\ verdicts'[id] \in [row : Slots, eligible : BOOLEAN]
    BY VerdictsStep DEF VerdictType
  <2>4. SeedIds \subseteq Ids
    BY SelectAssumption DEF SeedIds
  <2>5. /\ phase' \in {"decisions", "continuity", "done"}
        /\ decisions' \in 0..MaxDecisions
        /\ next' \in 1..Len(Archive) + 1
    <3>1. \/ phase' = phase \/ phase' \in {"continuity", "done"}
      BY DEF Next, Select, Reject, Backfill, RejectSeed, Skip, EndOfDecisions, Continue,
             Finish, vars
    <3>2. decisions' = decisions \/ Read
      BY DEF Next, Select, Reject, Backfill, RejectSeed, Skip, EndOfDecisions, Continue,
             Finish, vars
    <3>3. next' = next \/ (next <= Len(Archive) /\ next' = next + 1)
      BY DEF Next, Select, Reject, Backfill, RejectSeed, Skip, EndOfDecisions, Continue,
             Finish, vars
    <3>4. Len(Archive) \in Nat
      BY SelectAssumption
    <3> QED
      BY <3>1, <3>2, <3>3, <3>4, SelectAssumption DEF TypeOK, Read
  <2>6. seedIds' \subseteq Ids \cup {Unknown} /\ refused' \subseteq seedIds'
    BY <2>4 DEF TypeOK, Next, Select, Reject, Backfill, RejectSeed, Skip,
                EndOfDecisions, Continue, Finish, vars
  <2> QED
    BY <2>1, <2>2, <2>3, <2>5, <2>6 DEF TypeOK
<1> QED
  BY <1>1, <1>2, PTL DEF Spec
-----------------------------------------------------------------------------
\* The five invariants the code enforces, as far as they speak of the pool.
PoolInv == WithinSize /\ NoDuplicateSignature /\ OnlyProved

LEMMA PoolInvStep ==
    ASSUME TypeOK, PoolInv, [Next]_vars
    PROVE  PoolInv'
<1> USE DEF PoolInv, WithinSize, NoDuplicateSignature, OnlyProved
<1>1. CASE approved' = approved
  BY <1>1
<1>2. ASSUME NEW p, Extends(p) PROVE PoolInv'
  <2>1. /\ Len(approved') = Len(approved) + 1 /\ Len(approved) < PoolSize
        /\ DOMAIN approved' = 1..Len(approved) + 1
        /\ \A k \in 1..Len(approved) : approved'[k] = approved[k]
        /\ approved'[Len(approved) + 1] = p
        /\ DOMAIN approved = 1..Len(approved) /\ Len(approved) \in Nat
    BY <1>2, AppendProperties, SelectAssumption DEF Extends, TypeOK, Full
  <2>2. \A k \in 1..Len(approved) : approved[k].signature # p.signature
    BY <1>2, <2>1 DEF Extends, SelectedSignatures
  <2>3. p.ok
    BY <1>2 DEF Extends
  <2> QED
    BY <2>1, <2>2, <2>3, SelectAssumption
<1> QED
  BY <1>1, <1>2, PoolStep

\* Whatever the selector answers, the next pool holds at most PoolSize
\* problems, no two with one signature, and only proved ones
\* ("nonnegotiable_invariants").
THEOREM PoolIsSound == Spec => [](WithinSize /\ NoDuplicateSignature /\ OnlyProved)
<1>1. Init => PoolInv
  BY SelectAssumption DEF Init, PoolInv, WithinSize, NoDuplicateSignature, OnlyProved
<1>2. TypeOK /\ PoolInv /\ [Next]_vars => PoolInv'
  BY PoolInvStep
<1>3. PoolInv => WithinSize /\ NoDuplicateSignature /\ OnlyProved
  BY DEF PoolInv
<1> QED
  BY <1>1, <1>2, <1>3, TypeInvariant, PTL DEF Spec
-----------------------------------------------------------------------------
\* A verdict is always about one of the results.
VerdictsKnown == \A id \in DOMAIN verdicts : \E i \in Slots : results[i].id = id

\* Where one id has one surface, ids do not repeat either: a candidate in the
\* pool has its verdict, and a seed in the pool has the signature that a
\* candidate of the same id would have.
IdInv ==
    /\ \A i \in Slots : results[i].id \in SeedIds
                           => results[i].signature = SignatureOf[results[i].id]
    /\ VerdictsKnown
    /\ \A k \in DOMAIN approved :
          IF approved[k].from = "candidate" THEN approved[k].id \in DOMAIN verdicts
          ELSE approved[k].id \in SeedIds /\ approved[k].signature = SignatureOf[approved[k].id]
    /\ NoDuplicateId

\* Verdicts are never withdrawn.
LEMMA VerdictsStay ==
    ASSUME TypeOK, VerdictsKnown, [Next]_vars
    PROVE  /\ DOMAIN verdicts \subseteq DOMAIN verdicts'
           /\ \A id \in DOMAIN verdicts' : \E i \in Slots : results[i].id = id
<1>1. ASSUME NEW i \in Slots, NEW eligible, Decided(i, eligible)
      PROVE  /\ DOMAIN verdicts \subseteq DOMAIN verdicts'
             /\ \A id \in DOMAIN verdicts' : \E j \in Slots : results[j].id = id
  BY <1>1 DEF Decided, VerdictsKnown
<1>2. ASSUME NEW name \in Ids \cup Slots, Select(name) \/ Reject(name)
      PROVE  \E i \in Slots : \E eligible : Decided(i, eligible)
  BY <1>2 DEF Select, Reject, Undecided, ResultNamed
<1>3. CASE Finish
  BY <1>3 DEF Finish, VerdictsKnown
<1>4. CASE UNCHANGED verdicts
  BY <1>4 DEF VerdictsKnown
<1> QED
  BY <1>1, <1>2, <1>3, <1>4
     DEF Next, Backfill, RejectSeed, Skip, EndOfDecisions, Continue, vars

LEMMA IdInvStep ==
    ASSUME TypeOK, IdInv, [Next]_vars
    PROVE  IdInv'
<1>1. results' = results
  BY VerdictsStep
<1>2. DOMAIN verdicts \subseteq DOMAIN verdicts'
      /\ \A id \in DOMAIN verdicts' : \E i \in Slots : results[i].id = id
  BY VerdictsStay DEF IdInv
<1>3. CASE approved' = approved
  BY <1>1, <1>2, <1>3 DEF IdInv, VerdictsKnown, NoDuplicateId
<1>4. ASSUME NEW p, Extends(p), \A k \in DOMAIN approved : approved[k].id # p.id,
             IF p.from = "candidate" THEN p.id \in DOMAIN verdicts'
             ELSE p.id \in SeedIds /\ p.signature = SignatureOf[p.id]
      PROVE  IdInv'
  <2>1. /\ DOMAIN approved' = 1..Len(approved) + 1
        /\ \A k \in 1..Len(approved) : approved'[k] = approved[k]
        /\ approved'[Len(approved) + 1] = p
        /\ DOMAIN approved = 1..Len(approved) /\ Len(approved) \in Nat
    BY <1>4, AppendProperties DEF Extends, TypeOK
  <2>2. NoDuplicateId'
    BY <1>4, <2>1 DEF IdInv, NoDuplicateId
  <2>3. \A k \in DOMAIN approved' :
           IF approved'[k].from = "candidate" THEN approved'[k].id \in DOMAIN verdicts'
           ELSE /\ approved'[k].id \in SeedIds
                /\ approved'[k].signature = SignatureOf[approved'[k].id]
    BY <1>2, <1>4, <2>1 DEF IdInv
  <2> QED
    BY <1>1, <1>2, <2>2, <2>3 DEF IdInv, VerdictsKnown
<1>5. ASSUME NEW seed \in SeedIds, Extends(SeedProblem(seed)), seed \notin UsedIds
      PROVE  IdInv'
  <2>1. /\ SeedProblem(seed).id = seed /\ SeedProblem(seed).from = "seed"
        /\ SeedProblem(seed).signature = SignatureOf[seed]
    BY DEF SeedProblem
  <2> QED
    BY <1>4, <1>5, <2>1 DEF UsedIds
<1>6. ASSUME NEW i \in Slots, Extends(CandidateProblem(i)),
             results[i].id \notin DOMAIN verdicts, Decided(i, TRUE)
      PROVE  IdInv'
  <2>1. /\ CandidateProblem(i).id = results[i].id /\ CandidateProblem(i).from = "candidate"
        /\ CandidateProblem(i).signature = results[i].signature
    BY DEF CandidateProblem
  <2>2. results[i].id \in DOMAIN verdicts'
    BY <1>6 DEF Decided
  <2>3. ASSUME NEW k \in DOMAIN approved, approved[k].id = results[i].id PROVE FALSE
    <3>1. approved[k].id \in SeedIds /\ approved[k].signature = SignatureOf[approved[k].id]
      BY <1>6, <2>3 DEF IdInv
    <3>2. approved[k].signature = results[i].signature
      BY <3>1, <2>3 DEF IdInv
    <3> QED
      BY <3>2, <1>6, <2>1 DEF Extends, SelectedSignatures
  <2> QED
    BY <1>4, <1>6, <2>1, <2>2, <2>3
<1> QED
  BY <1>3, <1>5, <1>6, PoolStep

\* On the theorem route no problem is in the next pool twice.
THEOREM NoProblemTwice == OneSurface /\ Spec => []NoDuplicateId
<1>1. OneSurface /\ Init => IdInv
  BY DEF Init, IdInv, VerdictsKnown, NoDuplicateId
<1>2. TypeOK /\ IdInv /\ [Next]_vars => IdInv'
  BY IdInvStep
<1>3. IdInv => NoDuplicateId
  BY DEF IdInv
<1> QED
  BY <1>1, <1>2, <1>3, TypeInvariant, PTL DEF Spec
-----------------------------------------------------------------------------
\* What an append does to the set of values a field of the pool has.
LEMMA PoolGrows ==
    ASSUME TypeOK, NEW p, Extends(p)
    PROVE  /\ DOMAIN approved' = 1..Len(approved) + 1
           /\ DOMAIN approved = 1..Len(approved) /\ Len(approved) \in Nat
           /\ \A k \in DOMAIN approved : approved'[k] = approved[k]
           /\ approved'[Len(approved) + 1] = p
BY AppendProperties DEF Extends, TypeOK

\* A violation that keeps a seed out of the pool is final: the pool only grows.
LEMMA ViolationsStay ==
    ASSUME TypeOK, [Next]_vars, NEW seed, BackfillViolation(seed)
    PROVE  BackfillViolation(seed)'
<1>1. ASSUME NEW p, Extends(p)
      PROVE  UsedIds \subseteq UsedIds' /\ SelectedSignatures \subseteq SelectedSignatures'
  BY <1>1, PoolGrows DEF UsedIds, SelectedSignatures
<1>2. UsedIds \subseteq UsedIds' /\ SelectedSignatures \subseteq SelectedSignatures'
  BY <1>1, PoolStep DEF UsedIds, SelectedSignatures
<1> QED
  BY <1>2 DEF BackfillViolation

\* Once a seed is in the pool, appending it again is a violation.
LEMMA UsedSeedIsOut ==
    ASSUME TypeOK, NEW seed \in SeedIds, ~BackfillViolation(seed), AppendSeed(seed), ~Full
    PROVE  BackfillViolation(seed)'
<1>1. Extends(SeedProblem(seed))
  BY SeedStep
<1>2. approved'[Len(approved) + 1].id = seed /\ Len(approved) + 1 \in DOMAIN approved'
  BY <1>1, PoolGrows DEF SeedProblem
<1> QED
  BY <1>2 DEF BackfillViolation, UsedIds

\* Every seed the continuity loop has passed, or will skip because the selector
\* decided about it, is refused or kept out by a violation.
ForcedInv ==
    /\ \A seed \in seedIds \cap SeedIds : seed \in refused \/ BackfillViolation(seed)
    /\ \A i \in DOMAIN Archive :
          i < next => Archive[i] \in refused \/ BackfillViolation(Archive[i])
    /\ phase = "done" => Full \/ next > Len(Archive)

LEMMA ForcedInvStep ==
    ASSUME TypeOK, ForcedInv, [Next]_vars
    PROVE  ForcedInv'
<1>1. \A seed : BackfillViolation(seed) => BackfillViolation(seed)'
  BY ViolationsStay
<1>2. refused \subseteq refused'
  BY DEF Next, Select, Reject, Backfill, RejectSeed, Skip, EndOfDecisions, Continue, Finish, vars
<1>3. Full => Full'
  <2>1. Full => approved' = approved
    BY PoolStep DEF Extends
  <2> QED
    BY <2>1 DEF Full
<1>4. CASE UNCHANGED <<seedIds, next, phase>>
  BY <1>1, <1>2, <1>3, <1>4 DEF ForcedInv
<1>5. ASSUME NEW seed \in SeedIds, NEW kind, Backfill(seed, kind)
      PROVE  ForcedInv'
  <2>1. BackfillViolation(seed)'
    BY <1>1, <1>5, UsedSeedIsOut DEF Backfill
  <2>2. seedIds' \subseteq seedIds \cup {seed} /\ UNCHANGED <<next, phase>> /\ phase # "done"
    BY <1>5 DEF Backfill, Read
  <2> QED
    BY <1>1, <1>2, <1>3, <2>1, <2>2 DEF ForcedInv
<1>6. ASSUME NEW seed \in SeedIds, RejectSeed(seed)
      PROVE  ForcedInv'
  BY <1>1, <1>2, <1>3, <1>6 DEF ForcedInv, RejectSeed, Read
<1>7. ASSUME NEW name, NEW kind, Skip(name, kind)
      PROVE  ForcedInv'
  <2>1. seedIds' \cap SeedIds \subseteq seedIds
    BY <1>7 DEF Skip
  <2> QED
    BY <1>1, <1>2, <1>3, <1>7, <2>1 DEF ForcedInv, Skip, Read
<1>8. CASE EndOfDecisions \/ Finish
  BY <1>1, <1>2, <1>3, <1>8 DEF ForcedInv, EndOfDecisions, Finish
<1>9. CASE Continue
  <2>1. Archive[next] \in SeedIds /\ next \in Nat
    BY <1>9, SelectAssumption DEF Continue, TypeOK, SeedIds
  <2>2. PICK seed \in SeedIds : seed = Archive[next]
    BY <2>1
  <2>3. UNCHANGED <<seedIds, refused, phase>> /\ next' = next + 1 /\ phase # "done"
    BY <1>9 DEF Continue
  <2>4. seed \in refused \/ BackfillViolation(seed)'
    <3>1. CASE seed \in seedIds \/ BackfillViolation(seed)
      BY <1>1, <3>1 DEF ForcedInv
    <3>2. CASE ~(seed \in seedIds \/ BackfillViolation(seed))
      BY <1>9, <2>2, <3>2, UsedSeedIsOut DEF Continue
    <3> QED
      BY <3>1, <3>2
  <2>5. ASSUME NEW i \in DOMAIN Archive, i < next'
        PROVE  Archive[i] \in refused' \/ BackfillViolation(Archive[i])'
    <3>1. i = next \/ i < next
      BY <2>1, <2>3, <2>5, SelectAssumption
    <3>2. PICK other : other = Archive[i]
      OBVIOUS
    <3>3. other \in refused' \/ BackfillViolation(other)'
      BY <1>1, <2>2, <2>3, <2>4, <3>1, <3>2 DEF ForcedInv
    <3> QED
      BY <3>2, <3>3
  <2>6. \A s \in seedIds' \cap SeedIds : s \in refused' \/ BackfillViolation(s)'
    BY <1>1, <2>3 DEF ForcedInv
  <2> QED
    BY <2>3, <2>5, <2>6 DEF ForcedInv
<1> QED
  BY <1>4, <1>5, <1>6, <1>7, <1>8, <1>9 DEF Next, Select, Reject, vars

\* A generation's pool is partial only if no archive seed could complete it: each
\* is ineligible, already there, or was refused by the selector.
THEOREM PartialMeansNoSeedLeft == Spec => []PartialIsForced
<1>1. Init => ForcedInv
  BY DEF Init, ForcedInv
<1>2. TypeOK /\ ForcedInv /\ [Next]_vars => ForcedInv'
  BY ForcedInvStep
<1>3. TypeOK /\ ForcedInv => PartialIsForced
  <2> SUFFICES ASSUME TypeOK, ForcedInv, phase = "done", Survival = "partial",
                      NEW i \in DOMAIN Archive
               PROVE  BackfillViolation(Archive[i]) \/ Archive[i] \in refused
    BY DEF PartialIsForced
  <2>1. ~Full
    BY SelectAssumption DEF Survival, Full, TypeOK
  <2> QED
    BY <2>1, SelectAssumption DEF ForcedInv, TypeOK
<1> QED
  BY <1>1, <1>2, <1>3, TypeInvariant, PTL DEF Spec
-----------------------------------------------------------------------------
\* At every moment, not only at the end, the rows marked eligible are the
\* candidates in the pool.
EligibleIds == {id \in DOMAIN verdicts : verdicts[id].eligible}
CandidateIds == {approved[k].id : k \in {j \in DOMAIN approved : approved[j].from = "candidate"}}
RowsInv == EligibleIds = CandidateIds

LEMMA CandidateIdsAfter ==
    ASSUME TypeOK, NEW p, Extends(p)
    PROVE  CandidateIds' = IF p.from = "candidate" THEN CandidateIds \cup {p.id}
                           ELSE CandidateIds
<1>1. /\ DOMAIN approved' = DOMAIN approved \cup {Len(approved) + 1}
      /\ \A k \in DOMAIN approved : approved'[k] = approved[k]
      /\ approved'[Len(approved) + 1] = p
  BY PoolGrows
<1> QED
  BY <1>1 DEF CandidateIds

LEMMA EligibleIdsAfter ==
    ASSUME TypeOK, NEW i \in Slots, NEW eligible \in BOOLEAN, Decided(i, eligible),
           results[i].id \notin DOMAIN verdicts
    PROVE  EligibleIds' = IF eligible THEN EligibleIds \cup {results[i].id} ELSE EligibleIds
BY DEF Decided, EligibleIds

LEMMA RowsInvStep ==
    ASSUME TypeOK, VerdictsKnown, RowsInv, [Next]_vars
    PROVE  RowsInv'
<1>1. ASSUME NEW name \in Ids \cup Slots, Select(name) PROVE RowsInv'
  <2>1. PICK i \in Undecided(name) :
           /\ Decided(i, ~CandidateViolation(i))
           /\ approved' = IF CandidateViolation(i) THEN approved
                          ELSE Append(approved, CandidateProblem(i))
    BY <1>1 DEF Select, CandidateProblem
  <2>2. i \in Slots /\ results[i].id \notin DOMAIN verdicts /\ ~Full
    BY <1>1 DEF Undecided, ResultNamed, Select
  <2>3. CASE CandidateViolation(i)
    <3>1. Decided(i, FALSE) /\ approved' = approved
      BY <2>1, <2>3 DEF Decided
    <3> QED
      BY <2>2, <3>1, EligibleIdsAfter DEF RowsInv, CandidateIds
  <2>4. CASE ~CandidateViolation(i)
    <3>1. Decided(i, TRUE) /\ Extends(CandidateProblem(i))
      BY <2>1, <2>2, <2>4, CandidateStep DEF Decided
    <3>2. CandidateIds' = CandidateIds \cup {results[i].id}
      BY <3>1, CandidateIdsAfter DEF CandidateProblem
    <3>3. EligibleIds' = EligibleIds \cup {results[i].id}
      BY <2>2, <3>1, EligibleIdsAfter
    <3> QED
      BY <3>2, <3>3 DEF RowsInv
  <2> QED
    BY <2>3, <2>4
<1>2. ASSUME NEW name \in Ids \cup Slots, Reject(name) PROVE RowsInv'
  <2>1. PICK i \in Undecided(name) : Decided(i, FALSE)
    BY <1>2 DEF Reject
  <2>2. i \in Slots /\ results[i].id \notin DOMAIN verdicts /\ approved' = approved
    BY <1>2 DEF Undecided, ResultNamed, Reject
  <2> QED
    BY <2>1, <2>2, EligibleIdsAfter DEF RowsInv, CandidateIds
<1>3. ASSUME NEW seed \in SeedIds, Extends(SeedProblem(seed)), UNCHANGED verdicts
      PROVE  RowsInv'
  BY <1>3, CandidateIdsAfter DEF RowsInv, EligibleIds, SeedProblem
<1>4. ASSUME UNCHANGED <<approved, verdicts>> PROVE RowsInv'
  BY <1>4 DEF RowsInv, EligibleIds, CandidateIds
<1>5. ASSUME NEW seed \in SeedIds, NEW kind, Backfill(seed, kind) PROVE RowsInv'
  BY <1>3, <1>4, <1>5, SeedStep DEF Backfill
<1>6. CASE Continue
  <2>1. PICK seed \in SeedIds : seed = Archive[next]
    BY <1>6, SelectAssumption DEF Continue, TypeOK, SeedIds
  <2> QED
    BY <1>3, <1>4, <1>6, <2>1, SeedStep DEF Continue
<1>7. CASE Finish
  <2>1. /\ \A id \in DOMAIN verdicts : id \in DOMAIN verdicts' => verdicts'[id] = verdicts[id]
        /\ \A id \in DOMAIN verdicts' : id \notin DOMAIN verdicts => ~verdicts'[id].eligible
        /\ DOMAIN verdicts' = {results[i].id : i \in Slots}
    BY <1>7 DEF Finish, VerdictsKnown
  <2>2. approved' = approved
    BY <1>7 DEF Finish
  <2>3. EligibleIds \subseteq EligibleIds'
    <3>1. DOMAIN verdicts \subseteq DOMAIN verdicts'
      BY <2>1 DEF VerdictsKnown
    <3> QED
      BY <2>1, <3>1 DEF EligibleIds
  <2>4. EligibleIds' \subseteq EligibleIds
    BY <2>1 DEF EligibleIds
  <2> QED
    BY <2>2, <2>3, <2>4 DEF RowsInv, CandidateIds
<1> QED
  BY <1>1, <1>2, <1>4, <1>5, <1>6, <1>7
     DEF Next, RejectSeed, Skip, EndOfDecisions, vars

\* The rows written as parent_eligible are those of the pool's candidates.
THEOREM RowsAgreeWithPool == Spec => []EligibleRowsArePool
<1>1. Init => VerdictsKnown /\ RowsInv
  BY DEF Init, VerdictsKnown, RowsInv, EligibleIds, CandidateIds
<1>2. TypeOK /\ VerdictsKnown /\ [Next]_vars => VerdictsKnown'
  BY VerdictsStay, VerdictsStep DEF VerdictsKnown
<1>3. TypeOK /\ VerdictsKnown /\ RowsInv /\ [Next]_vars => RowsInv'
  BY RowsInvStep
<1>4. RowsInv => EligibleRowsArePool
  BY DEF RowsInv, EligibleIds, CandidateIds, EligibleRowsArePool
<1> QED
  BY <1>1, <1>2, <1>3, <1>4, TypeInvariant, PTL DEF Spec
=============================================================================
