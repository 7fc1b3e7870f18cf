------------------------------ MODULE Certify ------------------------------
(***************************************************************************)
(* _certify_theorem_child of src/src/orchestration/pool_generation.py: the *)
(* gates a generated theorem passes, run by the slots of a generation as   *)
(* concurrent tasks over the process-wide corpus index and the list of     *)
(* kept siblings.  A step ends where the code awaits; between two awaits   *)
(* nothing else runs.                                                      *)
(*                                                                         *)
(* What Lean and the models answer is an oracle: Lean accepts nothing that *)
(* is false and may time out; the models may answer anything.              *)
(***************************************************************************)
EXTENDS Integers, Sequences, FiniteSets

CONSTANTS
    Slots,
    Cards,        \* Cards[s]: the operator cards slot s may run with, its replan included
    Candidates,   \* what a generation call may return
    Theorems,     \* the theorems, up to a spare hypothesis
    IllTyped,     \* theorems whose statement Lean does not elaborate
    Vacuous,      \* theorems whose hypotheses entail False
    Corpus,       \* statements already certified under data/certified
    CorpusId,     \* CorpusId[x]: the id of the row that states x there
    RepairTurns,  \* POOL_PROOF_REPAIR_TURNS
    MaxAttempts,  \* attempts of a slot
    Released,     \* an id in the corpus that need not be one of this campaign
    None

\* A statement is a theorem, with or without a hypothesis its proof never uses.
Statements == [theorem : Theorems, spare : BOOLEAN]
\* A proof text: the statement it proves, and how Lean finds it.
Proofs == [of : Statements, kind : {"closes", "axiom", "open"}]
AllCards == UNION {Cards[s] : s \in Slots}
\* child_id: parent, operator and the fingerprint of the generated statement.
Ids == AllCards \X Statements

ASSUME CertifyAssumption ==
    /\ IsFiniteSet(Slots) /\ \A s \in Slots : Cards[s] # {}
    /\ Candidates \subseteq [statement : Statements, proof : Proofs]
    /\ IllTyped \subseteq Theorems /\ Vacuous \subseteq Theorems /\ Corpus \subseteq Statements
    /\ RepairTurns \in Nat /\ MaxAttempts \in Nat \ {0}
    /\ None \notin Ids \cup {Released}
    /\ CorpusId \in [Corpus -> Ids \cup {Released}]

VARIABLES
    statementFirst, \* POOL_STATEMENT_FIRST
    task,           \* task[s]: the locals of the slot's current attempt
    rows,           \* results of attempts that reached the gates behind the proof
    index,          \* _CORPUS_INDEX: the id that holds a statement
    siblings        \* _RUN_SIBLINGS

vars == <<statementFirst, task, rows, index, siblings>>

Idle(n) == [stage |-> "generate", attempt |-> n, id |-> None, honest |-> FALSE,
            statement |-> None, proof |-> None, turn |-> 0,
            vacuous |-> FALSE, missed |-> FALSE, pruned |-> FALSE, holder |-> None,
            shown |-> {}]

Stages == {"generate", "probe", "align", "prove", "repair", "audit", "vacuity",
           "prune", "dedup", "redundancy", "judge", "verdict", "ended"}
Verdicts == {"certified", "vacuous", "judge_rejected", "duplicate_statement"}

Holders == Ids \cup {Released, None}
Tasks == [stage : Stages, attempt : 1..MaxAttempts, id : Ids \cup {None}, honest : BOOLEAN,
          statement : Statements \cup {None}, proof : Proofs \cup {None}, turn : 0..RepairTurns,
          vacuous : BOOLEAN, missed : BOOLEAN, pruned : BOOLEAN, holder : Holders,
          shown : SUBSET (Ids \X Statements)]
Results == [slot : Slots, attempt : 1..MaxAttempts, status : Verdicts, id : Ids,
            statement : Statements, proof : Proofs, honest : BOOLEAN, missed : BOOLEAN,
            pruned : BOOLEAN, holder : Holders, shown : SUBSET (Ids \X Statements)]

\* What is true of a task, whatever the other slots do.
TaskOK(t) ==
    /\ t \in Tasks
    /\ t.stage \notin {"generate", "ended"} =>
          t.id \in Ids /\ t.statement \in Statements /\ t.proof \in Proofs
    /\ t.stage \in {"probe", "repair"} => statementFirst
    /\ t.stage = "repair" => t.turn > 0

TypeOK ==
    /\ statementFirst \in BOOLEAN
    /\ task \in [Slots -> Tasks] /\ \A s \in Slots : TaskOK(task[s])
    /\ rows \subseteq Results
    /\ index \in [Statements -> Holders]
    /\ siblings \subseteq Ids \X Statements

Init ==
    /\ statementFirst \in BOOLEAN
    /\ task = [s \in Slots |-> Idle(1)]
    /\ rows = {} /\ siblings = {}
    /\ index = [x \in Statements |-> IF x \in Corpus THEN CorpusId[x] ELSE None]

-----------------------------------------------------------------------------
\* The attempt returns; the slot worker stops or starts the next attempt.
Return(s) ==
    \/ task' = [task EXCEPT ![s] = [Idle(task[s].attempt) EXCEPT !.stage = "ended"]]
    \/ /\ task[s].attempt < MaxAttempts
       /\ task' = [task EXCEPT ![s] = Idle(task[s].attempt + 1)]

\* An attempt that fails before the gates behind the proof leaves nothing.
Fail(s) == Return(s) /\ UNCHANGED <<rows, index, siblings>>

Goto(s, t) == task' = [task EXCEPT ![s] = t] /\ UNCHANGED <<rows, index, siblings>>
Advance(s, stage) == Goto(s, [task[s] EXCEPT !.stage = stage])

\* The call raises, the contract is not met or the preflight finds a sorry.
Generate(s) ==
    /\ task[s].stage = "generate"
    /\ \/ Fail(s)
       \/ \E card \in Cards[s], c \in Candidates :
             Goto(s, [task[s] EXCEPT !.stage = IF statementFirst THEN "probe" ELSE "prove",
                                     !.id = <<card, c.statement>>,
                                     !.honest = c.proof.of = c.statement,
                                     !.statement = c.statement, !.proof = c.proof])

\* Stage 1: the statement with a sorry body must elaborate.
ProbeStatement(s) ==
    /\ task[s].stage = "probe"
    /\ \/ Fail(s)
       \/ task[s].statement.theorem \notin IllTyped /\ Advance(s, "align")

\* Stage 2, or after the proof in the legacy order.
Align(s) ==
    /\ task[s].stage = "align"
    /\ Fail(s) \/ Advance(s, IF statementFirst THEN "prove" ELSE "vacuity")

Repairable == statementFirst /\ RepairTurns > 0

Elaborates(proof) == proof.kind # "open" /\ proof.of.theorem \notin IllTyped

\* Stage 3: the text the generator wrote is verified as it is.
Prove(s) ==
    /\ task[s].stage = "prove"
    /\ \/ Fail(s)
       \/ Elaborates(task[s].proof) /\ Advance(s, "audit")
       \/ Repairable /\ Goto(s, [task[s] EXCEPT !.stage = "repair", !.turn = 1])

\* _repair_theorem_proof_candidate refuses a rewritten statement.
RepairCandidates(statement) == {p \in Proofs : p.of = statement}

\* One repair turn: an error or no candidate, a proof Lean rejects, or a proof.
Repair(s) ==
    /\ task[s].stage = "repair"
    /\ \/ IF task[s].turn < RepairTurns
          THEN Goto(s, [task[s] EXCEPT !.turn = @ + 1])
          ELSE Fail(s)
       \/ \E p \in RepairCandidates(task[s].statement) :
             /\ Elaborates(p)
             /\ Goto(s, [task[s] EXCEPT !.stage = "audit", !.turn = 0,
                                        !.proof = p, !.honest = TRUE])

\* The closure reported by #print axioms lies in PERMITTED_AXIOMS.
PermittedClosure(proof) == proof.kind = "closes"

AuditAxioms(s) ==
    /\ task[s].stage = "audit"
    /\ \/ Fail(s)
       \/ /\ PermittedClosure(task[s].proof)
          /\ Advance(s, IF statementFirst THEN "vacuity" ELSE "align")

\* is_vacuous: convicts only when Lean proves False; a timeout is no verdict.
ProbeVacuity(s) ==
    /\ task[s].stage = "vacuity"
    /\ \E measured \in BOOLEAN :
          LET refuted == task[s].statement.theorem \in Vacuous
          IN Goto(s, [task[s] EXCEPT !.stage = "prune", !.vacuous = refuted /\ measured,
                                     !.missed = refuted /\ ~measured])

Without(statement) == [statement EXCEPT !.spare = FALSE]

\* Mutant of Pruned: the text of the proof keeps the hypothesis.
Pruned_StatementOnly(t, kind) ==
    [t EXCEPT !.statement = Without(@), !.proof.kind = kind, !.pruned = TRUE]

Pruned(t, kind) ==
    [t EXCEPT !.statement = Without(@), !.proof.of = Without(@), !.proof.kind = kind,
              !.pruned = TRUE]

\* prune_dead: the hypothesis goes from both texts if what is left elaborates;
\* no axiom audit follows, so a tactic may close it in another way than before.
PruneHypothesis(s) ==
    /\ task[s].stage = "prune"
    /\ \/ Advance(s, "dedup")
       \/ \E kind \in {"closes", "axiom"} :
             /\ task[s].statement.spare /\ task[s].proof.of.spare
             /\ Goto(s, [Pruned(task[s], kind) EXCEPT !.stage = "dedup"])

-----------------------------------------------------------------------------
\* Mutant of HolderOf: a row of its own generator's operator is no duplicate.
HolderOf_SameCard(t) ==
    IF index[t.statement] = None THEN None
    ELSE IF index[t.statement] # Released /\ index[t.statement][1] = t.id[1] THEN None
    ELSE index[t.statement]

\* Mutant of HolderOf: a row is a duplicate of itself, as it once was.
HolderOf_Itself(t) == index[t.statement]

\* The id that holds the statement; a row is not a duplicate of itself.
HolderOf(t) == IF index[t.statement] = t.id THEN None ELSE index[t.statement]

\* CorpusIndex.add
Register(t) == IF HolderOf(t) = None THEN [index EXCEPT ![t.statement] = t.id] ELSE index

\* The lookup and the claim, with no await between them; the block stands
\* twice in the code, with the redundancy probe (awaited) between.
Deduplicate(s) ==
    /\ task[s].stage \in {"dedup", "redundancy"}
    /\ task' = [task EXCEPT ![s].stage = IF @ = "dedup" THEN "redundancy" ELSE "judge",
                            ![s].holder = HolderOf(task[s])]
    /\ index' = Register(task[s])
    /\ UNCHANGED <<rows, siblings>>

Status(t, reject) ==
    IF t.vacuous THEN "vacuous"
    ELSE IF reject THEN "judge_rejected"
    ELSE IF t.holder # None THEN "duplicate_statement" ELSE "certified"

\* Mutant of Noted: every row that was judged is remembered.
Noted_Judged(t, reject) == TRUE

\* note_kept_row runs before the duplicate is taken into account.
Noted(t, reject) == ~t.vacuous /\ ~reject

Row(s, reject) ==
    LET t == task[s] IN
    [slot |-> s, attempt |-> t.attempt, status |-> Status(t, reject), id |-> t.id,
     statement |-> t.statement, proof |-> t.proof, honest |-> t.honest, missed |-> t.missed,
     pruned |-> t.pruned, holder |-> t.holder, shown |-> t.shown]

\* The prompt of the judge is written: siblings_for picks from the rows kept so
\* far.  (Without PROBLEM_JUDGE nothing is read, and every verdict is to keep.)
ReadSiblings(s) ==
    /\ task[s].stage = "judge"
    /\ Goto(s, [task[s] EXCEPT !.stage = "verdict", !.shown = siblings])

\* The judge answers (an error keeps the row); build_result.
Judge(s) ==
    /\ task[s].stage = "verdict"
    /\ \E reject \in BOOLEAN :
          /\ rows' = rows \cup {Row(s, reject)}
          /\ siblings' = IF Noted(task[s], reject)
                         THEN siblings \cup {<<task[s].id, task[s].statement>>} ELSE siblings
    /\ Return(s)
    /\ UNCHANGED index

AllEnded == (\A s \in Slots : task[s].stage = "ended") /\ UNCHANGED vars

Stage(s) ==
    \/ Generate(s) \/ ProbeStatement(s) \/ Align(s) \/ Prove(s) \/ Repair(s) \/ AuditAxioms(s)
    \/ ProbeVacuity(s) \/ PruneHypothesis(s) \/ Deduplicate(s)
    \/ ReadSiblings(s) \/ Judge(s)

Next == (\E s \in Slots : Stage(s) /\ UNCHANGED statementFirst) \/ AllEnded

Spec == Init /\ [][Next]_vars

-----------------------------------------------------------------------------
Certified == {r \in rows : r.status = "certified"}

\* Whatever the slots interleave, prune and retry, two certified rows that state
\* one theorem carry one id, and a statement of the corpus is certified again only
\* under the very id the corpus has for it: every other pair is dropped by the index.
SameTheoremSameId ==
    \A a \in Certified :
        /\ a.statement \in Corpus => a.id = CorpusId[a.statement]
        /\ \A b \in Certified : a.statement = b.statement => a.id = b.id

\* What a certified row ships elaborates and is not known to be vacuous; its
\* closure was audited unless the row says that a hypothesis was pruned since;
\* it proves the row's own statement whenever the generator's text did or a
\* repair replaced it, pruned or not.
CertifiedIsProved ==
    \A r \in Certified :
        /\ Elaborates(r.proof)
        /\ PermittedClosure(r.proof) \/ r.pruned
        /\ r.statement.theorem \in Vacuous => r.missed
        /\ r.honest => r.proof.of = r.statement

\* A row loses to a duplicate only when another id holds the very statement the
\* row ships, and the loser's id never holds it afterwards.
DuplicateHasAHolder ==
    \A r \in rows : r.status = "duplicate_statement" =>
        r.holder = index[r.statement] /\ r.holder \notin {None, r.id}

Passed == {<<r.id, r.statement>> :
              r \in {x \in rows : x.status \in {"certified", "duplicate_statement"}}}

\* Although the judge answers long after its prompt was written, and other slots
\* judge meanwhile: no row is ever judged beside one that the judge refused or that
\* is vacuous, and a retry has every row of its own slot's earlier attempts that
\* was let through among those its siblings are taken from (note_kept_row, "so
\* later judgements in this run can see it").
JudgedBesidePassed ==
    \A b \in rows :
        /\ b.shown \subseteq Passed
        /\ \A a \in rows :
              /\ a.slot = b.slot /\ a.attempt < b.attempt
              /\ a.status \in {"certified", "duplicate_statement"}
              => <<a.id, a.statement>> \in b.shown

\* CorpusIndex promises that a statement repeated inside the run is caught like
\* one repeated from three campaigns ago: two slots never both certify it.
OneSlotPerStatement ==
    \A a, b \in Certified : a.statement = b.statement => a.slot = b.slot
=============================================================================
