----------------------------- MODULE PoolSelect -----------------------------
(***************************************************************************)
(* select_next_pool_with_orchestrator of                                   *)
(* src/src/orchestration/pool_generation.py: the selector's decisions (an  *)
(* LLM's, or the deterministic fallback's, which is one of the possible    *)
(* sequences) are replayed against the code's five invariants; the pool is *)
(* then filled up from the seed archive; every result of the generation    *)
(* gets its final row.                                                     *)
(*                                                                         *)
(* A problem is its id, its canonical signature, and whether its status    *)
(* (for an archive seed: _parent_is_backfill_eligible) lets it in.         *)
(***************************************************************************)
EXTENDS Integers, Sequences, FiniteSets

CONSTANTS
    PoolSize,        \* pool_size
    NumResults,      \* results of the generation, in slot order
    Archive,         \* the seed archive's ids, in the order it is searched
    Ids,             \* ids of results; a survivor has its parent's
    Unknown,         \* an id the selector made up
    Signatures,      \* canonical signatures
    SignatureOf,     \* the signature of an archive seed, from its statement
    Eligible,        \* the eligible archive seeds
    OneSurface,      \* TRUE: a result has the signature its id's seed has, as
                     \* on the theorem route, where both read the formal surface
    MaxDecisions     \* bound: length of the selector's answer

SeedIds == {Archive[i] : i \in DOMAIN Archive}

ASSUME SelectAssumption ==
    /\ PoolSize \in Nat \ {0} /\ NumResults \in Nat /\ MaxDecisions \in Nat
    /\ Archive \in Seq(Ids)
    /\ \A i, j \in DOMAIN Archive : Archive[i] = Archive[j] => i = j
    /\ Eligible \subseteq Ids
    /\ SignatureOf \in [SeedIds -> Signatures]
    /\ OneSurface \in BOOLEAN
ASSUME UnknownAssumption == Unknown \notin Ids

VARIABLES
    results,     \* results[i]: id, source_problem_id, signature, certified or survivor
    phase,
    decisions,   \* decisions read so far
    seedIds,     \* ids of the decisions about previous seeds
    refused,     \* history: seeds the selector told the code to reject
    next,        \* the archive seed the continuity loop is at
    approved,    \* the next pool
    verdicts     \* updated_by_problem_id: which result, and parent_eligible

vars == <<results, phase, decisions, seedIds, refused, next, approved, verdicts>>

Slots == 1..NumResults
Result == [id : Ids, source : Ids, signature : Signatures, ok : BOOLEAN]
Chosen == [id : Ids, signature : Signatures, from : {"candidate", "seed"}, ok : BOOLEAN]

TypeOK ==
    /\ results \in [Slots -> Result]
    /\ phase \in {"decisions", "continuity", "done"}
    /\ decisions \in 0..MaxDecisions
    /\ seedIds \subseteq Ids \cup {Unknown}
    /\ refused \subseteq seedIds
    /\ next \in 1..Len(Archive) + 1
    /\ approved \in Seq(Chosen)
    /\ \A id \in DOMAIN verdicts :
          id \in Ids /\ verdicts[id] \in [row : Slots, eligible : BOOLEAN]

Init ==
    /\ results \in [Slots -> Result]
    /\ OneSurface => \A i \in Slots : results[i].id \in SeedIds
                                         => results[i].signature = SignatureOf[results[i].id]
    /\ phase = "decisions" /\ decisions = 0
    /\ seedIds = {} /\ refused = {} /\ next = 1
    /\ approved = <<>>
    /\ verdicts = [id \in {} |-> <<>>]

-----------------------------------------------------------------------------
\* _record_selected_context keeps these two sets beside the pool.
UsedIds == {approved[k].id : k \in DOMAIN approved}
SelectedSignatures == {approved[k].signature : k \in DOMAIN approved}

\* result_by_id: under a name, the first result that has it as its id, as its
\* source_problem_id, or as its slot alias.
Named(i, name) == name \in {results[i].id, results[i].source, i}
ResultNamed(name) ==
    {i \in Slots : Named(i, name) /\ \A j \in 1..i - 1 : ~Named(j, name)}

\* Mutant of CandidateViolation: the signature is not looked at.
CandidateViolation_AnySignature(i) == ~results[i].ok

\* _candidate_invariant_violation; it does not look at used_ids.
CandidateViolation(i) == ~results[i].ok \/ results[i].signature \in SelectedSignatures

\* _backfill_invariant_violation
BackfillViolation(seed) ==
    seed \notin Eligible \/ seed \in UsedIds \/ SignatureOf[seed] \in SelectedSignatures

\* One more decision of the selector's list is read.
Read == phase = "decisions" /\ decisions < MaxDecisions /\ decisions' = decisions + 1
Full == Len(approved) >= PoolSize

AppendSeed(seed) ==
    approved' = Append(approved, [id |-> seed, signature |-> SignatureOf[seed],
                                  from |-> "seed", ok |-> seed \in Eligible])

Decided(i, eligible) ==
    verdicts' = [id \in DOMAIN verdicts \cup {results[i].id} |->
                    IF id = results[i].id THEN [row |-> i, eligible |-> eligible]
                    ELSE verdicts[id]]

\* A result that already has its verdict keeps it ("exact_canonical_duplicate").
Undecided(name) == {i \in ResultNamed(name) : results[i].id \notin DOMAIN verdicts}

\* Mutant of Select: the row of an invalidated candidate keeps parent_eligible.
Select_KeepsEligible(name) ==
    /\ Read /\ ~Full
    /\ \E i \in Undecided(name) :
          /\ Decided(i, results[i].ok)
          /\ approved' = IF CandidateViolation(i) THEN approved
                         ELSE Append(approved, [id |-> results[i].id, from |-> "candidate",
                                                signature |-> results[i].signature,
                                                ok |-> results[i].ok])
    /\ UNCHANGED <<results, phase, seedIds, refused, next>>

\* "select" of a current candidate.
Select(name) ==
    /\ Read /\ ~Full
    /\ \E i \in Undecided(name) :
          /\ Decided(i, ~CandidateViolation(i))
          /\ approved' = IF CandidateViolation(i) THEN approved
                         ELSE Append(approved, [id |-> results[i].id, from |-> "candidate",
                                                signature |-> results[i].signature,
                                                ok |-> results[i].ok])
    /\ UNCHANGED <<results, phase, seedIds, refused, next>>

\* "reject" of a current candidate, also when the pool is full.
Reject(name) ==
    /\ Read
    /\ \E i \in Undecided(name) : Decided(i, FALSE)
    /\ UNCHANGED <<results, phase, seedIds, refused, next, approved>>

\* A decision about a seed: "backfill", or "select" with the kind
\* "previous_seed" ("backfill" of a "current_candidate" is read the same way
\* but does not count among the decided seeds).
Backfill(seed, kind) ==
    /\ Read /\ ~Full
    /\ seed \in SeedIds
    /\ IF BackfillViolation(seed) THEN UNCHANGED approved ELSE AppendSeed(seed)
    /\ seedIds' = IF kind = "previous_seed" THEN seedIds \cup {seed} ELSE seedIds
    /\ UNCHANGED <<results, phase, refused, next, verdicts>>

RejectSeed(seed) ==
    /\ Read /\ seed \in SeedIds
    /\ seedIds' = seedIds \cup {seed}
    /\ refused' = refused \cup {seed}
    /\ UNCHANGED <<results, phase, next, approved, verdicts>>

\* An unknown id, or a result that has its verdict, leaves only an event.
Skip(name, kind) ==
    /\ Read
    /\ IF kind = "previous_seed" THEN name \notin SeedIds ELSE Undecided(name) = {}
    /\ seedIds' = IF kind = "previous_seed" THEN seedIds \cup {name} ELSE seedIds
    /\ UNCHANGED <<results, phase, refused, next, approved, verdicts>>

\* The list ends, or asks for one more than the pool holds ("pool_size_exceeded").
EndOfDecisions ==
    /\ phase = "decisions"
    /\ phase' = "continuity"
    /\ UNCHANGED <<results, decisions, seedIds, refused, next, approved, verdicts>>

-----------------------------------------------------------------------------
\* Mutant of Continue: the loop ends at the first violation.
Continue_GivesUp ==
    /\ phase = "continuity" /\ next <= Len(Archive) /\ ~Full
    /\ IF Archive[next] \in seedIds \/ BackfillViolation(Archive[next])
       THEN UNCHANGED approved /\ next' = Len(Archive) + 1
       ELSE AppendSeed(Archive[next]) /\ next' = next + 1
    /\ UNCHANGED <<results, phase, decisions, seedIds, refused, verdicts>>

\* The continuity loop, one seed of the archive a step.
Continue ==
    /\ phase = "continuity" /\ next <= Len(Archive) /\ ~Full
    /\ next' = next + 1
    /\ IF Archive[next] \in seedIds \/ BackfillViolation(Archive[next])
       THEN UNCHANGED approved
       ELSE AppendSeed(Archive[next])
    /\ UNCHANGED <<results, phase, decisions, seedIds, refused, verdicts>>

\* Results without a verdict get "not_selected_by_orchestrator"; of several
\* with one id, the first.
Finish ==
    /\ phase = "continuity" /\ (Full \/ next > Len(Archive))
    /\ phase' = "done"
    /\ verdicts' =
          [id \in {results[i].id : i \in Slots} |->
              IF id \in DOMAIN verdicts THEN verdicts[id]
              ELSE [row |-> CHOOSE i \in Slots : results[i].id = id
                                /\ \A j \in 1..i - 1 : results[j].id # id,
                    eligible |-> FALSE]]
    /\ UNCHANGED <<results, decisions, seedIds, refused, next, approved>>

\* generation_survival_status
Survival ==
    IF Len(approved) < PoolSize THEN "partial"
    ELSE IF \E k \in DOMAIN approved : approved[k].from = "seed"
    THEN "complete_with_backfill" ELSE "complete"

Next ==
    \/ \E name \in Ids \cup Slots : Select(name) \/ Reject(name)
    \/ \E seed \in SeedIds : RejectSeed(seed)
          \/ \E kind \in {"previous_seed", "current_candidate"} : Backfill(seed, kind)
    \/ \E name \in Ids \cup {Unknown}, kind \in {"previous_seed", "current_candidate"} :
          Skip(name, kind)
    \/ EndOfDecisions \/ Continue \/ Finish

Spec == Init /\ [][Next]_vars
-----------------------------------------------------------------------------
(* Properties                                                               *)

\* nonnegotiable_invariants "pool_size_exceeded" and "exact_canonical_duplicate":
\* whatever the selector answers, the pool holds at most PoolSize problems and
\* no two with one signature, the continuity backfill included.
WithinSize == Len(approved) <= PoolSize
NoDuplicateSignature ==
    \A j, k \in DOMAIN approved : j # k => approved[j].signature # approved[k].signature

\* "not_certified_or_survivor" and "backfill_ineligible": only candidates with
\* the status certified or survivor, and eligible seeds, become parents.
OnlyProved == \A k \in DOMAIN approved : approved[k].ok

\* No problem is in the next pool twice under its own id, once as a backfilled
\* seed and once as the survivor slot that carried it (used_ids).
NoDuplicateId ==
    \A j, k \in DOMAIN approved : j # k => approved[j].id # approved[k].id

\* The rows written for the generation agree with its pool: a row is marked
\* parent_eligible exactly if its problem was approved from the candidates, so
\* a later archive search finds the pool's parents and no rejected row.
EligibleRowsArePool ==
    phase = "done" =>
        {id \in DOMAIN verdicts : verdicts[id].eligible}
            = {approved[k].id : k \in {j \in DOMAIN approved : approved[j].from = "candidate"}}

\* A pool stays partial, which ends the run, only if every archive seed is
\* ineligible, already in the pool by id or signature, or was refused by the
\* selector: a decision the code invalidated never costs the pool a seed.
PartialIsForced ==
    phase = "done" /\ Survival = "partial" =>
        \A i \in DOMAIN Archive :
            BackfillViolation(Archive[i]) \/ Archive[i] \in refused
=============================================================================
