--------------------------- MODULE Certify_proofs ---------------------------
(***************************************************************************)
(* Proofs about Certify: for any slots, any candidates and any number of   *)
(* attempts and repair turns, in both orders of the gates.                 *)
(***************************************************************************)
EXTENDS Certify, TLAPS

Proved == {"audit", "vacuity", "prune", "dedup", "redundancy", "judge", "verdict"}
Audited == {"vacuity", "prune", "dedup", "redundancy", "judge", "verdict"}
Probed == {"prune", "dedup", "redundancy", "judge", "verdict"}
Claimed == {"redundancy", "judge", "verdict"}

\* The legacy order aligns what has been proved and audited.
Past(stage, gates) == stage \in gates \/ (stage = "align" /\ ~statementFirst)

\* What the gates a task has been through have established.
Gated(t) ==
    /\ Past(t.stage, Proved) => Elaborates(t.proof)
    /\ Past(t.stage, Audited) => t.proof.kind = "closes" \/ t.pruned
    /\ t.stage \in Probed => (t.statement.theorem \in Vacuous => t.vacuous \/ t.missed)
    /\ t.stage \notin {"generate", "ended"} /\ t.honest => t.proof.of = t.statement

\* Once looked up, a statement is held, and the task knows by whom.
Settled(t, held) ==
    t.stage \in Claimed =>
        /\ held[t.statement] # None
        /\ t.holder = IF held[t.statement] = t.id THEN None ELSE held[t.statement]

\* The corpus keeps its statements, and so does every row that certified one.
Held ==
    /\ \A x \in Corpus : index[x] = CorpusId[x]
    /\ \A r \in Certified : index[r.statement] = r.id

Kept(r) == r.status \in {"certified", "duplicate_statement"}

\* The list of kept siblings is what the judge let through; the rows of a slot
\* are of attempts behind its current one; and a judge that has been asked was
\* shown kept rows only, those of its own slot among them.
Siblinghood ==
    /\ siblings = Passed
    /\ \A r \in rows : /\ r.attempt <= task[r.slot].attempt
                       /\ task[r.slot].stage # "ended" => r.attempt < task[r.slot].attempt
    /\ \A s \in Slots : task[s].stage = "verdict" =>
          /\ task[s].shown \subseteq siblings
          /\ \A r \in rows : r.slot = s /\ Kept(r) => <<r.id, r.statement>> \in task[s].shown

IInv ==
    /\ TypeOK
    /\ \A s \in Slots : Gated(task[s]) /\ Settled(task[s], index)
    /\ Held /\ CertifiedIsProved /\ DuplicateHasAHolder
    /\ Siblinghood /\ JudgedBesidePassed

USE CertifyAssumption

LEMMA AttemptIsInt ==
    ASSUME NEW t \in Tasks
    PROVE  t.attempt \in Int
BY DEF Tasks

LEMMA IdleOK ==
    ASSUME statementFirst \in BOOLEAN, NEW n \in 1..MaxAttempts
    PROVE  /\ TaskOK(Idle(n)) /\ Gated(Idle(n)) /\ Settled(Idle(n), index)
           /\ LET e == [Idle(n) EXCEPT !.stage = "ended"]
              IN  TaskOK(e) /\ Gated(e) /\ Settled(e, index)
<1> DEFINE e == [Idle(n) EXCEPT !.stage = "ended"]
<1>1. Idle(n) \in Tasks /\ Idle(n).stage = "generate"
  BY DEF Idle, Tasks, Stages, Holders
<1>2. e \in Tasks /\ e.stage = "ended"
  BY <1>1 DEF Tasks, Stages
<1> QED
  BY <1>1, <1>2 DEF TaskOK, Gated, Past, Settled, Proved, Audited, Probed, Claimed

LEMMA InitInv == Init => IInv
<1> SUFFICES ASSUME Init PROVE IInv
  OBVIOUS
<1>1. statementFirst \in BOOLEAN /\ 1 \in 1..MaxAttempts
  BY DEF Init
<1>2. task \in [Slots -> Tasks] /\ \A s \in Slots : TaskOK(task[s]) /\ Gated(task[s]) /\ Settled(task[s], index)
  BY <1>1, IdleOK DEF Init, TaskOK
<1>3. index \in [Statements -> Holders] /\ Held
  BY DEF Init, Holders, Held, Certified
<1>4. rows = {} /\ siblings = {}
  BY DEF Init
<1> QED
  BY <1>1, <1>2, <1>3, <1>4
  DEF IInv, TypeOK, CertifiedIsProved, DuplicateHasAHolder, Siblinghood, Passed, JudgedBesidePassed,
      Certified, Init, Idle

\* A task that moves while rows, index and siblings stay.
LEMMA Moves ==
    ASSUME IInv, NEW s \in Slots, NEW t, Goto(s, t), UNCHANGED statementFirst,
           TaskOK(t), Gated(t), Settled(t, index),
           t.attempt >= task[s].attempt,
           task[s].stage # "ended" \/ t.attempt > task[s].attempt,
           t.stage = "verdict" => t.shown = siblings
    PROVE  IInv'
<1>1. /\ task' = [task EXCEPT ![s] = t] /\ t \in Tasks
      /\ UNCHANGED <<statementFirst, rows, index, siblings>>
  BY DEF Goto, TaskOK
<1>2. /\ task' \in [Slots -> Tasks] /\ task'[s] = t
      /\ \A x \in Slots \ {s} : task'[x] = task[x]
  BY <1>1 DEF IInv, TypeOK
<1>3. (\A x \in Slots : TaskOK(task[x]) /\ Gated(task[x]) /\ Settled(task[x], index))'
  BY <1>1, <1>2 DEF IInv, TypeOK, TaskOK, Gated, Past, Settled
<1>4. TypeOK'
  BY <1>1, <1>2, <1>3 DEF IInv, TypeOK
<1>5. Held' /\ CertifiedIsProved' /\ DuplicateHasAHolder' /\ JudgedBesidePassed'
  BY <1>1 DEF IInv, Held, CertifiedIsProved, DuplicateHasAHolder, JudgedBesidePassed, Passed, Certified
<1>6. Siblinghood'
  <2>1. siblings' = Passed'
    BY <1>1 DEF IInv, Siblinghood, Passed
  <2>2. ASSUME NEW r \in rows'
        PROVE  /\ r.attempt <= task'[r.slot].attempt
               /\ task'[r.slot].stage # "ended" => r.attempt < task'[r.slot].attempt
    <3>1. /\ r \in rows /\ r.slot \in Slots /\ r.attempt \in Int /\ task[s].attempt \in Int
          /\ t.attempt \in Int
      BY <1>1 DEF IInv, TypeOK, Results, Tasks
    <3>2. /\ r.attempt <= task[r.slot].attempt
          /\ task[r.slot].stage # "ended" => r.attempt < task[r.slot].attempt
      BY <3>1 DEF IInv, Siblinghood
    <3>3. CASE r.slot = s
      BY <1>2, <3>1, <3>2, <3>3
    <3>4. CASE r.slot # s
      BY <1>2, <3>1, <3>2, <3>4
    <3> QED
      BY <3>3, <3>4
  <2>3. ASSUME NEW x \in Slots, task'[x].stage = "verdict"
        PROVE  /\ task'[x].shown \subseteq siblings'
               /\ \A r \in rows' : r.slot = x /\ Kept(r) => <<r.id, r.statement>> \in task'[x].shown
    <3>1. CASE x = s
      BY <1>1, <1>2, <2>3, <3>1 DEF IInv, Siblinghood, Passed, Kept
    <3>2. CASE x # s
      BY <1>1, <1>2, <2>3, <3>2 DEF IInv, Siblinghood
    <3> QED
      BY <3>1, <3>2
  <2> QED
    BY <2>1, <2>2, <2>3 DEF Siblinghood, Kept
<1> QED
  BY <1>3, <1>4, <1>5, <1>6 DEF IInv

\* A task that moves within its attempt, the judge not being asked yet.
LEMMA MovesWithin ==
    ASSUME IInv, NEW s \in Slots, NEW t, Goto(s, t), UNCHANGED statementFirst,
           TaskOK(t), Gated(t), Settled(t, index),
           t.attempt = task[s].attempt, task[s].stage # "ended", t.stage # "verdict"
    PROVE  IInv'
<1>1. t.attempt \in Int
  BY AttemptIsInt DEF TaskOK
<1> QED
  BY <1>1, Moves

\* What Return makes of a task.
LEMMA Returned ==
    ASSUME IInv, NEW s \in Slots, Return(s)
    PROVE  \E t \in Tasks : /\ task' = [task EXCEPT ![s] = t] /\ t.stage \in {"generate", "ended"}
                            /\ TaskOK(t) /\ Gated(t) /\ Settled(t, index)
                            /\ t.attempt >= task[s].attempt
                            /\ t.stage # "ended" => t.attempt > task[s].attempt
<1>1. statementFirst \in BOOLEAN /\ task[s].attempt \in 1..MaxAttempts /\ task[s].attempt \in Int
  <2>1. task[s] \in Tasks /\ statementFirst \in BOOLEAN
    BY DEF IInv, TypeOK
  <2> QED
    BY <2>1 DEF Tasks
<1>2. CASE task' = [task EXCEPT ![s] = [Idle(task[s].attempt) EXCEPT !.stage = "ended"]]
  <2> DEFINE e == [Idle(task[s].attempt) EXCEPT !.stage = "ended"]
  <2>1. e.stage = "ended" /\ e.attempt = task[s].attempt
    BY DEF Idle
  <2>2. TaskOK(e) /\ Gated(e) /\ Settled(e, index)
    BY <1>1, IdleOK
  <2>3. e \in Tasks /\ task' = [task EXCEPT ![s] = e]
    BY <1>2, <2>2 DEF TaskOK
  <2> HIDE DEF e
  <2>4. /\ e.stage \in {"generate", "ended"} /\ e.attempt >= task[s].attempt
        /\ e.stage # "ended" => e.attempt > task[s].attempt
    BY <1>1, <2>1
  <2> QED
    BY <2>2, <2>3, <2>4, Zenon
<1>3. CASE task[s].attempt < MaxAttempts /\ task' = [task EXCEPT ![s] = Idle(task[s].attempt + 1)]
  <2>1. task[s].attempt + 1 \in 1..MaxAttempts
    BY <1>1, <1>3
  <2> DEFINE n == Idle(task[s].attempt + 1)
  <2>2. n.stage = "generate" /\ n.attempt = task[s].attempt + 1
    BY DEF Idle
  <2>3. TaskOK(n) /\ Gated(n) /\ Settled(n, index)
    BY <1>1, <2>1, IdleOK
  <2>4. n \in Tasks /\ task' = [task EXCEPT ![s] = n]
    BY <1>3, <2>3 DEF TaskOK
  <2> HIDE DEF n
  <2>5. /\ n.stage \in {"generate", "ended"} /\ n.attempt >= task[s].attempt
        /\ n.stage # "ended" => n.attempt > task[s].attempt
    BY <1>1, <2>2
  <2> QED
    BY <2>3, <2>4, <2>5, Zenon
<1> QED
  BY <1>2, <1>3 DEF Return

LEMMA FailInv ==
    ASSUME IInv, NEW s \in Slots, Fail(s), UNCHANGED statementFirst, task[s].stage # "ended"
    PROVE  IInv'
<1>1. PICK t \in Tasks : /\ task' = [task EXCEPT ![s] = t] /\ t.stage \in {"generate", "ended"}
                         /\ TaskOK(t) /\ Gated(t) /\ Settled(t, index)
                         /\ t.attempt >= task[s].attempt
  BY Returned DEF Fail
<1>2. Goto(s, t)
  BY <1>1 DEF Fail, Goto
<1> QED
  BY <1>1, <1>2, Moves

\* The facts about a task that every gate starts from.
LEMMA Running ==
    ASSUME IInv, NEW s \in Slots
    PROVE  /\ TaskOK(task[s]) /\ Gated(task[s]) /\ Settled(task[s], index) /\ task[s] \in Tasks
           /\ statementFirst \in BOOLEAN
BY DEF IInv, TypeOK

\* A gate that only moves the task on.
LEMMA Advances ==
    ASSUME IInv, NEW s \in Slots, NEW stage \in Stages, Advance(s, stage), UNCHANGED statementFirst,
           task[s].stage \notin {"generate", "ended"}, stage \notin {"probe", "repair", "redundancy", "verdict"},
           stage \in Claimed => task[s].stage \in Claimed,
           Past(stage, Proved) => Elaborates(task[s].proof),
           Past(stage, Audited) => task[s].proof.kind = "closes" \/ task[s].pruned,
           stage \in Probed => task[s].stage \in Probed
    PROVE  IInv'
<1> DEFINE old == task[s]
           t == [old EXCEPT !.stage = stage]
<1>1. TaskOK(old) /\ Gated(old) /\ Settled(old, index) /\ old \in Tasks
  BY Running
<1>2. /\ t \in Tasks /\ t.stage = stage /\ t.id = old.id /\ t.statement = old.statement
      /\ t.proof = old.proof /\ t.honest = old.honest /\ t.vacuous = old.vacuous
      /\ t.missed = old.missed /\ t.holder = old.holder /\ t.pruned = old.pruned
      /\ t.attempt = old.attempt
  BY <1>1 DEF Tasks
<1>3. TaskOK(t) /\ Gated(t) /\ Settled(t, index)
  <2> HIDE DEF t
  <2> QED
    BY <1>1, <1>2 DEF TaskOK, Gated, Past, Settled
<1> QED
  BY <1>2, <1>3, MovesWithin DEF Advance

LEMMA GenerateInv ==
    ASSUME IInv, NEW s \in Slots, Generate(s), UNCHANGED statementFirst
    PROVE  IInv'
<1>1. ASSUME NEW card \in Cards[s], NEW c \in Candidates,
             Goto(s, [task[s] EXCEPT !.stage = IF statementFirst THEN "probe" ELSE "prove",
                                     !.id = <<card, c.statement>>,
                                     !.honest = c.proof.of = c.statement,
                                     !.statement = c.statement, !.proof = c.proof])
      PROVE  IInv'
  <2> DEFINE stage == IF statementFirst THEN "probe" ELSE "prove"
             honest == c.proof.of = c.statement
             t == [task[s] EXCEPT !.stage = stage, !.id = <<card, c.statement>>, !.honest = honest,
                                  !.statement = c.statement, !.proof = c.proof]
  <2>1. c.statement \in Statements /\ c.proof \in Proofs /\ <<card, c.statement>> \in Ids
    BY DEF Ids, AllCards
  <2>2. honest \in BOOLEAN /\ stage \in {"probe", "prove"} /\ (stage = "probe" => statementFirst)
    BY Zenon
  <2>3. /\ t \in Tasks /\ t.stage = stage /\ t.id = <<card, c.statement>>
        /\ t.honest = honest /\ t.statement = c.statement /\ t.proof = c.proof
        /\ t.attempt = task[s].attempt
    <3>1. task[s] \in Tasks
      BY Running
    <3> HIDE DEF honest, stage
    <3>2. t \in Tasks
      BY <2>1, <2>2, <3>1 DEF Tasks, Stages
    <3> QED
      BY <2>1, <2>2, <3>1 DEF Tasks, Stages
  <2>4. TaskOK(t) /\ Gated(t) /\ Settled(t, index)
    <3> HIDE DEF t, stage
    <3> QED
      BY <2>1, <2>2, <2>3 DEF TaskOK, Gated, Past, Settled, Proved, Audited, Probed, Claimed
  <2> QED
    <3>1. task[s].stage # "ended" /\ Goto(s, t)
      BY <1>1 DEF Generate
    <3> HIDE DEF t, stage
    <3> QED
      BY <2>2, <2>3, <2>4, <3>1, MovesWithin
<1> QED
  BY <1>1, FailInv DEF Generate

LEMMA ProbeStatementInv ==
    ASSUME IInv, NEW s \in Slots, ProbeStatement(s), UNCHANGED statementFirst
    PROVE  IInv'
<1>1. ASSUME task[s].statement.theorem \notin IllTyped, Advance(s, "align")
      PROVE  IInv'
  BY <1>1, Running, Advances
  DEF ProbeStatement, TaskOK, Past, Stages, Proved, Audited, Probed, Claimed
<1> QED
  BY <1>1, FailInv DEF ProbeStatement

LEMMA AlignInv ==
    ASSUME IInv, NEW s \in Slots, Align(s), UNCHANGED statementFirst
    PROVE  IInv'
<1>1. CASE statementFirst /\ Advance(s, "prove")
  BY <1>1, Running, Advances DEF Align, Past, Stages, Proved, Audited, Probed, Claimed
<1>2. CASE ~statementFirst /\ Advance(s, "vacuity")
  <2>1. Elaborates(task[s].proof) /\ (task[s].proof.kind = "closes" \/ task[s].pruned)
    BY <1>2, Running DEF Align, Gated, Past, Audited, Proved
  <2> QED
    BY <1>2, <2>1, Advances DEF Align, Past, Stages, Proved, Audited, Probed, Claimed
<1> QED
  BY <1>1, <1>2, FailInv DEF Align

LEMMA ProveInv ==
    ASSUME IInv, NEW s \in Slots, Prove(s), UNCHANGED statementFirst
    PROVE  IInv'
<1>1. CASE Elaborates(task[s].proof) /\ Advance(s, "audit")
  BY <1>1, Advances DEF Prove, Stages, Past, Proved, Audited, Probed, Claimed
<1>2. CASE Repairable /\ Goto(s, [task[s] EXCEPT !.stage = "repair", !.turn = 1])
  <2> DEFINE old == task[s]
             t == [old EXCEPT !.stage = "repair", !.turn = 1]
  <2>1. /\ TaskOK(old) /\ Gated(old) /\ old \in Tasks /\ old.stage = "prove" /\ statementFirst
        /\ 1 \in 0..RepairTurns
    BY <1>2, Running DEF Prove, Repairable
  <2>2. /\ t \in Tasks /\ t.stage = "repair" /\ t.turn = 1 /\ t.id = old.id
        /\ t.statement = old.statement /\ t.proof = old.proof /\ t.honest = old.honest
        /\ t.attempt = old.attempt
    BY <2>1 DEF Tasks, Stages
  <2>3. TaskOK(t) /\ Gated(t) /\ Settled(t, index)
    <3> HIDE DEF t
    <3> QED
      BY <2>1, <2>2 DEF TaskOK, Gated, Past, Settled, Proved, Audited, Probed, Claimed
  <2> QED
    BY <1>2, <2>1, <2>2, <2>3, MovesWithin
<1> QED
  BY <1>1, <1>2, FailInv DEF Prove

LEMMA RepairInv ==
    ASSUME IInv, NEW s \in Slots, Repair(s), UNCHANGED statementFirst
    PROVE  IInv'
<1> DEFINE old == task[s]
<1>1. /\ TaskOK(old) /\ Gated(old) /\ old \in Tasks /\ old.stage = "repair"
      /\ old.turn \in 0..RepairTurns /\ old.id \in Ids /\ old.statement \in Statements
      /\ statementFirst
  BY Running DEF Repair, TaskOK, Tasks
<1>2. CASE old.turn < RepairTurns /\ Goto(s, [old EXCEPT !.turn = @ + 1])
  <2> DEFINE t == [old EXCEPT !.turn = @ + 1]
  <2>1. old.turn + 1 \in 0..RepairTurns /\ old.turn + 1 > 0
    BY <1>1, <1>2
  <2>2. /\ t \in Tasks /\ t.stage = "repair" /\ t.turn = old.turn + 1 /\ t.id = old.id
        /\ t.statement = old.statement /\ t.proof = old.proof /\ t.honest = old.honest
        /\ t.attempt = old.attempt
    <3> HIDE DEF old
    <3>1. t \in Tasks
      BY <1>1, <2>1 DEF Tasks
    <3> QED
      BY <1>1, <3>1 DEF Tasks
  <2>3. TaskOK(t) /\ Gated(t) /\ Settled(t, index)
    <3> HIDE DEF t
    <3> QED
      BY <1>1, <2>1, <2>2 DEF TaskOK, Gated, Past, Settled, Proved, Audited, Probed, Claimed
  <2> QED
    BY <1>1, <1>2, <2>2, <2>3, MovesWithin
<1>3. ASSUME NEW p \in RepairCandidates(old.statement), Elaborates(p),
             Goto(s, [old EXCEPT !.stage = "audit", !.turn = 0, !.proof = p, !.honest = TRUE])
      PROVE  IInv'
  <2> DEFINE t == [old EXCEPT !.stage = "audit", !.turn = 0, !.proof = p, !.honest = TRUE]
  <2>1. p \in Proofs /\ p.of = old.statement /\ 0 \in 0..RepairTurns
    BY DEF RepairCandidates
  <2>2. /\ t \in Tasks /\ t.stage = "audit" /\ t.id = old.id
        /\ t.statement = old.statement /\ t.proof = p
        /\ t.attempt = old.attempt
    BY <1>1, <2>1 DEF Tasks, Stages
  <2>3. TaskOK(t) /\ Gated(t) /\ Settled(t, index)
    <3> HIDE DEF t
    <3> QED
      BY <1>1, <1>3, <2>1, <2>2 DEF TaskOK, Gated, Past, Settled, Proved, Audited, Probed, Claimed
  <2> QED
    BY <1>1, <1>3, <2>2, <2>3, MovesWithin
<1> QED
  BY <1>1, <1>2, <1>3, FailInv DEF Repair

LEMMA AuditInv ==
    ASSUME IInv, NEW s \in Slots, AuditAxioms(s), UNCHANGED statementFirst
    PROVE  IInv'
<1>1. CASE PermittedClosure(task[s].proof) /\ Advance(s, IF statementFirst THEN "vacuity" ELSE "align")
  <2>0. task[s].stage = "audit"
    BY DEF AuditAxioms
  <2>1. task[s].stage = "audit" /\ Elaborates(task[s].proof) /\ task[s].proof.kind = "closes"
    BY <1>1, <2>0, Running DEF Gated, Past, Proved, PermittedClosure
  <2>2. CASE statementFirst
    BY <1>1, <2>1, <2>2, Advances DEF Stages, Past, Proved, Audited, Probed, Claimed
  <2>3. CASE ~statementFirst
    BY <1>1, <2>1, <2>3, Advances DEF Stages, Past, Proved, Audited, Probed, Claimed
  <2> QED
    BY <2>2, <2>3
<1> QED
  BY <1>1, FailInv DEF AuditAxioms

LEMMA VacuityInv ==
    ASSUME IInv, NEW s \in Slots, ProbeVacuity(s), UNCHANGED statementFirst
    PROVE  IInv'
<1> DEFINE old == task[s]
           refuted == old.statement.theorem \in Vacuous
<1>1. /\ TaskOK(old) /\ Gated(old) /\ old \in Tasks /\ old.stage = "vacuity"
  BY Running DEF ProbeVacuity
<1>2. PICK measured \in BOOLEAN :
         Goto(s, [old EXCEPT !.stage = "prune", !.vacuous = refuted /\ measured,
                             !.missed = refuted /\ ~measured])
  BY DEF ProbeVacuity
<1> DEFINE vacuous == refuted /\ measured
           missed == refuted /\ ~measured
           t == [old EXCEPT !.stage = "prune", !.vacuous = vacuous, !.missed = missed]
<1>3. vacuous \in BOOLEAN /\ missed \in BOOLEAN /\ (refuted => vacuous \/ missed)
  BY Zenon
<1>4. /\ t \in Tasks /\ t.stage = "prune" /\ t.id = old.id /\ t.statement = old.statement
      /\ t.proof = old.proof /\ t.honest = old.honest /\ t.vacuous = vacuous /\ t.missed = missed
      /\ t.pruned = old.pruned /\ t.attempt = old.attempt
  <2> HIDE DEF vacuous, missed
  <2> QED
    BY <1>1, <1>3, ZenonT(60) DEF Tasks, Stages
<1>5. TaskOK(t) /\ Gated(t) /\ Settled(t, index)
  <2> HIDE DEF t, vacuous, missed
  <2>1. t.statement.theorem \in Vacuous => t.vacuous \/ t.missed
    BY <1>3, <1>4
  <2> QED
    BY <1>1, <1>4, <2>1 DEF TaskOK, Gated, Past, Settled, Proved, Audited, Probed, Claimed
<1> QED
  BY <1>1, <1>2, <1>4, <1>5, MovesWithin

\* Dropping the spare hypothesis keeps a statement's theorem.
LEMMA WithoutType ==
    ASSUME NEW x \in Statements
    PROVE  Without(x) \in Statements /\ Without(x).theorem = x.theorem
BY DEF Without, Statements

LEMMA PruneInv ==
    ASSUME IInv, NEW s \in Slots, PruneHypothesis(s), UNCHANGED statementFirst
    PROVE  IInv'
<1> DEFINE old == task[s]
<1>0. /\ TaskOK(old) /\ Gated(old) /\ old \in Tasks /\ old.stage = "prune"
      /\ old.statement \in Statements /\ old.proof \in Proofs
  BY Running DEF PruneHypothesis, TaskOK
<1>1. CASE Advance(s, "dedup")
  BY <1>0, <1>1, Advances DEF Gated, Past, Stages, Proved, Audited, Probed, Claimed
<1>2. ASSUME NEW kind \in {"closes", "axiom"}, Goto(s, [Pruned(old, kind) EXCEPT !.stage = "dedup"])
      PROVE  IInv'
  <2> DEFINE proof == [old.proof EXCEPT !.of = Without(old.proof.of), !.kind = kind]
             pruned == [old EXCEPT !.statement = Without(old.statement), !.proof = proof,
                                   !.pruned = TRUE]
             t == [pruned EXCEPT !.stage = "dedup"]
  <2>1. old.proof.of \in Statements
    BY <1>0 DEF Proofs
  <2>2. proof \in Proofs /\ proof.of = Without(old.proof.of) /\ proof.kind = kind
    BY <1>0, <2>1, WithoutType DEF Proofs
  <2>3. Pruned(old, kind) = pruned
    BY <1>0 DEF Tasks, Proofs, Pruned
  <2>4. /\ pruned \in Tasks /\ pruned.id = old.id /\ pruned.statement = Without(old.statement)
        /\ pruned.proof = proof /\ pruned.pruned = TRUE /\ pruned.attempt = old.attempt
        /\ pruned.honest = old.honest /\ pruned.vacuous = old.vacuous /\ pruned.missed = old.missed
    <3> HIDE DEF proof
    <3> QED
      BY <1>0, <2>2, WithoutType DEF Tasks
  <2>5. /\ t \in Tasks /\ t.stage = "dedup" /\ t.id = old.id /\ t.statement = Without(old.statement)
        /\ t.proof \in Proofs /\ t.proof.of = Without(old.proof.of) /\ t.proof.kind = kind
        /\ t.pruned = TRUE /\ t.attempt = old.attempt
        /\ t.honest = old.honest /\ t.vacuous = old.vacuous /\ t.missed = old.missed
    <3> HIDE DEF pruned, proof
    <3> QED
      BY <2>2, <2>4 DEF Tasks, Stages
  <2>6. Elaborates(t.proof)
    <3> HIDE DEF t
    <3> QED
      BY <1>0, <2>1, <2>5, WithoutType DEF Gated, Past, Elaborates, Proved
  <2>7. TaskOK(t) /\ Gated(t) /\ Settled(t, index)
    <3> HIDE DEF t
    <3>1. t.statement.theorem = old.statement.theorem
      BY <1>0, <2>5, WithoutType
    <3> QED
      BY <1>0, <2>1, <2>5, <2>6, <3>1, WithoutType
      DEF TaskOK, Gated, Past, Settled, Proved, Audited, Probed, Claimed
  <2>8. Goto(s, t)
    BY <1>2, <2>3
  <2> QED
    BY <1>0, <2>5, <2>7, <2>8, MovesWithin
<1> QED
  BY <1>1, <1>2 DEF PruneHypothesis

LEMMA DeduplicateInv ==
    ASSUME IInv, NEW s \in Slots, Deduplicate(s), UNCHANGED statementFirst
    PROVE  IInv'
<1> DEFINE old == task[s]
           next == IF old.stage = "dedup" THEN "redundancy" ELSE "judge"
           t == [old EXCEPT !.stage = next, !.holder = HolderOf(old)]
<1>1. /\ TaskOK(old) /\ Gated(old) /\ old \in Tasks /\ old.stage \in {"dedup", "redundancy"}
      /\ old.statement \in Statements /\ old.proof \in Proofs /\ old.id \in Ids
      /\ index \in [Statements -> Holders] /\ index' = Register(old)
      /\ UNCHANGED <<statementFirst, rows, siblings>>
  BY Running DEF Deduplicate, TaskOK, IInv, TypeOK
<1>2. HolderOf(old) \in Holders
  BY <1>1 DEF HolderOf, Holders
<1>3. task' = [task EXCEPT ![s] = t]
  BY DEF Deduplicate, IInv, TypeOK
<1>4. /\ t \in Tasks /\ t.stage = next /\ t.id = old.id /\ t.statement = old.statement
      /\ t.proof = old.proof /\ t.honest = old.honest /\ t.vacuous = old.vacuous
      /\ t.missed = old.missed /\ t.holder = HolderOf(old) /\ t.pruned = old.pruned
      /\ t.attempt = old.attempt
  BY <1>1, <1>2 DEF Tasks, Stages
<1>5. /\ index' \in [Statements -> Holders]
      /\ \A x \in Statements : index[x] # None => index'[x] = index[x]
      /\ index'[old.statement] # None
      /\ HolderOf(old) = IF index'[old.statement] = old.id THEN None ELSE index'[old.statement]
  <2>1. None # old.id
    BY <1>1
  <2>2. CASE HolderOf(old) = None
    BY <1>1, <2>1, <2>2 DEF HolderOf, Register, Holders
  <2>3. CASE HolderOf(old) # None
    BY <1>1, <2>1, <2>3 DEF HolderOf, Register
  <2> QED
    BY <2>2, <2>3
<1>6. TaskOK(t) /\ Gated(t) /\ Settled(t, index')
  <2> HIDE DEF t
  <2>1. next \in {"redundancy", "judge"}
    OBVIOUS
  <2>2. TaskOK(t) /\ Gated(t)
    <3> HIDE DEF next
    <3> QED
      BY <1>1, <1>4, <2>1 DEF TaskOK, Gated, Past, Proved, Audited, Probed
  <2> QED
    BY <1>4, <1>5, <2>2 DEF Settled, t
<1>7. (\A x \in Slots : TaskOK(task[x]) /\ Gated(task[x]) /\ Settled(task[x], index))'
  <2>1. ASSUME NEW x \in Slots PROVE TaskOK(task'[x]) /\ Gated(task'[x])
    BY <1>3, <1>6, Running DEF IInv, TypeOK
  <2>2. ASSUME NEW x \in Slots PROVE Settled(task'[x], index')
    <3>1. CASE x = s
      BY <1>3, <1>6, <3>1 DEF IInv, TypeOK, Settled
    <3>2. CASE x # s
      <4>1. /\ task'[x] = task[x] /\ Settled(task[x], index)
            /\ task[x].stage \in Claimed => task[x].statement \in Statements
        BY <1>3, <3>2, Running DEF IInv, TypeOK, TaskOK, Claimed
      <4> QED
        BY <1>5, <4>1 DEF Settled
    <3> QED
      BY <3>1, <3>2
  <2> QED
    BY <1>1, <2>1, <2>2 DEF TaskOK, Gated, Past
<1>8. TypeOK'
  BY <1>1, <1>3, <1>4, <1>5, <1>7 DEF IInv, TypeOK
<1>9. \A r \in rows : r.statement \in Statements /\ r.id \in Ids /\ r.holder \in Holders
  BY DEF IInv, TypeOK, Results
<1>10. Held'
  BY <1>1, <1>5, <1>9 DEF IInv, Held, Certified
<1>11. DuplicateHasAHolder'
  BY <1>1, <1>5, <1>9 DEF IInv, DuplicateHasAHolder
<1>12. CertifiedIsProved' /\ JudgedBesidePassed'
  BY <1>1 DEF IInv, CertifiedIsProved, JudgedBesidePassed, Passed, Certified
<1>13. Siblinghood'
  <2>1. \A x \in Slots : /\ task'[x].attempt = task[x].attempt
                         /\ task'[x].stage = "ended" <=> task[x].stage = "ended"
                         /\ task'[x].stage = "verdict" => task'[x] = task[x]
    <3>1. next \in {"redundancy", "judge"}
      OBVIOUS
    <3> HIDE DEF next, t
    <3> QED
      BY <1>1, <1>3, <1>4, <3>1 DEF IInv, TypeOK
  <2>2. \A r \in rows : r.slot \in Slots
    BY DEF IInv, TypeOK, Results
  <2> QED
    BY <1>1, <2>1, <2>2 DEF IInv, Siblinghood, Passed, Kept
<1> QED
  BY <1>7, <1>8, <1>10, <1>11, <1>12, <1>13 DEF IInv

LEMMA ReadSiblingsInv ==
    ASSUME IInv, NEW s \in Slots, ReadSiblings(s), UNCHANGED statementFirst
    PROVE  IInv'
<1> DEFINE old == task[s]
           t == [old EXCEPT !.stage = "verdict", !.shown = siblings]
<1>1. /\ TaskOK(old) /\ Gated(old) /\ Settled(old, index) /\ old \in Tasks /\ old.stage = "judge"
      /\ siblings \subseteq Ids \X Statements /\ Goto(s, t)
  BY Running DEF ReadSiblings, IInv, TypeOK
<1>2. /\ t \in Tasks /\ t.stage = "verdict" /\ t.shown = siblings /\ t.id = old.id
      /\ t.statement = old.statement /\ t.proof = old.proof /\ t.honest = old.honest
      /\ t.vacuous = old.vacuous /\ t.missed = old.missed /\ t.holder = old.holder
      /\ t.pruned = old.pruned /\ t.attempt = old.attempt
  BY <1>1 DEF Tasks, Stages
<1>3. TaskOK(t) /\ Gated(t) /\ Settled(t, index)
  <2> HIDE DEF t
  <2> QED
    BY <1>1, <1>2 DEF TaskOK, Gated, Past, Settled, Proved, Audited, Probed, Claimed
<1>4. t.attempt \in Int /\ t.attempt = old.attempt
  BY <1>2, AttemptIsInt
<1> HIDE DEF t
<1> QED
  BY <1>1, <1>2, <1>3, <1>4, Moves

LEMMA JudgeInv ==
    ASSUME IInv, NEW s \in Slots, Judge(s), UNCHANGED statementFirst
    PROVE  IInv'
<1> DEFINE old == task[s]
<1>1. /\ TaskOK(old) /\ Gated(old) /\ Settled(old, index) /\ old \in Tasks /\ old.stage = "verdict"
      /\ old.statement \in Statements /\ old.proof \in Proofs /\ old.id \in Ids
      /\ Return(s) /\ UNCHANGED <<statementFirst, index>>
  BY Running DEF Judge, TaskOK
<1>2. PICK reject \in BOOLEAN :
         /\ rows' = rows \cup {Row(s, reject)}
         /\ siblings' = IF Noted(old, reject)
                        THEN siblings \cup {<<old.id, old.statement>>} ELSE siblings
  BY DEF Judge
<1> DEFINE r == Row(s, reject)
<1>3. /\ r.status = Status(old, reject) /\ r.id = old.id /\ r.statement = old.statement
      /\ r.proof = old.proof /\ r.honest = old.honest /\ r.missed = old.missed
      /\ r.holder = old.holder /\ r.pruned = old.pruned /\ r.shown = old.shown
      /\ r.slot = s /\ r.attempt = old.attempt
  BY DEF Row
<1>4. r \in Results
  BY <1>1 DEF Row, Results, Tasks, Status, Verdicts
<1>5. /\ r.status \in {"certified", "duplicate_statement"} <=> Noted(old, reject)
      /\ r.status \in {"certified", "duplicate_statement"} => ~old.vacuous
      /\ r.status = "certified" => old.holder = None
      /\ r.status = "duplicate_statement" => old.holder # None
  BY <1>3 DEF Status, Noted
<1>6. PICK t \in Tasks : /\ task' = [task EXCEPT ![s] = t]
                         /\ TaskOK(t) /\ Gated(t) /\ Settled(t, index)
                         /\ t.stage \in {"generate", "ended"} /\ t.attempt >= old.attempt
                         /\ t.stage # "ended" => t.attempt > old.attempt
  BY <1>1, Returned
<1>7. (\A x \in Slots : TaskOK(task[x]) /\ Gated(task[x]) /\ Settled(task[x], index))'
  BY <1>1, <1>6 DEF IInv, TypeOK, TaskOK, Gated, Past, Settled
<1>8. TypeOK'
  <2>1. task' \in [Slots -> Tasks]
    BY <1>6 DEF IInv, TypeOK
  <2>2. rows' \subseteq Results
    BY <1>2, <1>4 DEF IInv, TypeOK
  <2>3. siblings' \subseteq Ids \X Statements
    BY <1>1, <1>2 DEF IInv, TypeOK
  <2> QED
    BY <1>1, <1>7, <2>1, <2>2, <2>3 DEF IInv, TypeOK
<1>9. index[old.statement] # None /\ old.holder = IF index[old.statement] = old.id THEN None
                                                                            ELSE index[old.statement]
  BY <1>1 DEF Settled, Claimed
<1>10. Held'
  <2> HIDE DEF r
  <2>1. r.status = "certified" => index[r.statement] = r.id
    BY <1>3, <1>5, <1>9
  <2> QED
    BY <1>1, <1>2, <2>1 DEF IInv, Held, Certified, r
<1>11. DuplicateHasAHolder'
  <2> HIDE DEF r
  <2>1. r.status = "duplicate_statement" => r.holder = index[r.statement] /\ r.holder \notin {None, r.id}
    BY <1>3, <1>5, <1>9
  <2> QED
    BY <1>1, <1>2, <2>1 DEF IInv, DuplicateHasAHolder, r
<1>12. CertifiedIsProved'
  <2> HIDE DEF r
  <2>1. r.status = "certified" =>
           /\ r.proof.kind = "closes" \/ r.pruned
           /\ Elaborates(r.proof)
           /\ r.statement.theorem \in Vacuous => r.missed
           /\ r.honest => r.proof.of = r.statement
    BY <1>1, <1>3, <1>5 DEF Gated, Past, Proved, Audited, Probed
  <2> QED
    BY <1>2, <2>1 DEF IInv, CertifiedIsProved, PermittedClosure, Certified, r
<1>13. siblings' = Passed'
  <2> HIDE DEF r
  <2>1. siblings = {<<x.id, x.statement>> : x \in {y \in rows : Kept(y)}}
    BY DEF IInv, Siblinghood, Passed, Kept
  <2>2. rows' = rows \cup {r}
    BY <1>2 DEF r
  <2>3. siblings' = {<<x.id, x.statement>> : x \in {y \in rows' : Kept(y)}}
    <3>1. CASE Kept(r)
      <4>1. siblings' = siblings \cup {<<r.id, r.statement>>}
        BY <1>2, <1>3, <1>5, <3>1 DEF Kept
      <4> QED
        BY <2>1, <2>2, <3>1, <4>1
    <3>2. CASE ~Kept(r)
      <4>1. siblings' = siblings
        BY <1>2, <1>5, <3>2 DEF Kept
      <4> QED
        BY <2>1, <2>2, <3>2, <4>1
    <3> QED
      BY <3>1, <3>2
  <2> QED
    BY <2>3 DEF Passed, Kept
<1>14. siblings \subseteq siblings' /\ Passed \subseteq Passed' /\ siblings = Passed
  BY <1>2, <1>13 DEF IInv, Siblinghood
<1>15. /\ task' \in [Slots -> Tasks] /\ task'[s] = t
       /\ \A x \in Slots \ {s} : task'[x] = task[x]
  BY <1>6 DEF IInv, TypeOK
<1>16. /\ old.attempt \in Int /\ t.attempt \in Int
       /\ \A x \in rows : x.slot \in Slots /\ x.attempt \in Int /\ (x.slot = s => x.attempt < old.attempt)
  <2>1. old.attempt \in Int /\ t.attempt \in Int
    BY <1>1, <1>6, AttemptIsInt
  <2>2. \A x \in rows : x.slot \in Slots /\ x.attempt \in Int
    BY DEF IInv, TypeOK, Results
  <2>3. \A x \in rows : x.slot = s => x.attempt < old.attempt
    BY <1>1 DEF IInv, Siblinghood
  <2> QED
    BY <2>1, <2>2, <2>3
<1>17. Siblinghood'
  <2> HIDE DEF r
  <2>1. ASSUME NEW x \in rows'
        PROVE  /\ x.attempt <= task'[x.slot].attempt
               /\ task'[x.slot].stage # "ended" => x.attempt < task'[x.slot].attempt
    <3>1. CASE x = r
      BY <1>3, <1>6, <1>15, <1>16, <3>1
    <3>2. CASE x \in rows /\ x.slot = s
      BY <1>6, <1>15, <1>16, <3>2
    <3>3. CASE x \in rows /\ x.slot # s
      BY <1>15, <1>16, <3>3 DEF IInv, Siblinghood
    <3> QED
      BY <1>2, <3>1, <3>2, <3>3 DEF r
  <2>2. ASSUME NEW x \in Slots, task'[x].stage = "verdict"
        PROVE  /\ task'[x].shown \subseteq siblings'
               /\ \A a \in rows' : a.slot = x /\ Kept(a) => <<a.id, a.statement>> \in task'[x].shown
    <3>1. x # s /\ task'[x] = task[x]
      BY <1>6, <1>15, <2>2
    <3>2. \A a \in rows' : a.slot = x => a \in rows
      BY <1>2, <1>3, <3>1 DEF r
    <3> QED
      BY <1>14, <2>2, <3>1, <3>2 DEF IInv, Siblinghood
  <2> QED
    BY <1>13, <2>1, <2>2 DEF Siblinghood, Kept
<1>18. JudgedBesidePassed'
  <2> HIDE DEF r
  <2>1. ASSUME NEW b \in rows' PROVE b.shown \subseteq Passed'
    <3>1. CASE b = r
      BY <1>1, <1>3, <1>14, <3>1 DEF IInv, Siblinghood
    <3>2. CASE b \in rows
      BY <1>14, <3>2 DEF IInv, JudgedBesidePassed
    <3> QED
      BY <1>2, <3>1, <3>2 DEF r
  <2>2. ASSUME NEW b \in rows', NEW a \in rows', a.slot = b.slot, a.attempt < b.attempt, Kept(a)
        PROVE  <<a.id, a.statement>> \in b.shown
    <3>1. a # r
      BY <1>2, <1>3, <1>16, <2>2 DEF r
    <3>2. CASE b = r
      BY <1>1, <1>2, <1>3, <2>2, <3>1, <3>2 DEF IInv, Siblinghood, r
    <3>3. CASE b \in rows
      BY <1>2, <2>2, <3>1, <3>3 DEF IInv, JudgedBesidePassed, Kept, r
    <3> QED
      BY <1>2, <3>2, <3>3 DEF r
  <2> QED
    BY <2>1, <2>2 DEF JudgedBesidePassed, Kept
<1> QED
  BY <1>7, <1>8, <1>10, <1>11, <1>12, <1>17, <1>18 DEF IInv

\* IInv is inductive, one step per gate.
LEMMA NextInv == IInv /\ [Next]_vars => IInv'
<1> SUFFICES ASSUME IInv, [Next]_vars PROVE IInv'
  OBVIOUS
<1>1. ASSUME NEW s \in Slots, Stage(s), UNCHANGED statementFirst PROVE IInv'
  BY <1>1, GenerateInv, ProbeStatementInv, AlignInv, ProveInv, RepairInv, AuditInv,
     VacuityInv, PruneInv, DeduplicateInv, ReadSiblingsInv, JudgeInv DEF Stage
<1>2. CASE UNCHANGED vars
  BY <1>2 DEF vars, IInv, TypeOK, TaskOK, Gated, Past, Settled, Held, Certified,
              CertifiedIsProved, DuplicateHasAHolder, Siblinghood, Passed, Kept, JudgedBesidePassed
<1> QED
  BY <1>1, <1>2 DEF Next, AllEnded

\* The inductive invariant holds of every behaviour of the slots.
THEOREM Invariance == Spec => []IInv
BY InitInv, NextInv, PTL DEF Spec

\* Every task is where its gate may leave it, in either order of the gates.
THEOREM TypeCorrect == Spec => []TypeOK
<1>1. IInv => TypeOK
  BY DEF IInv
<1> QED
  BY <1>1, Invariance, PTL

\* Two certified rows that state one theorem carry one id, and a statement of the
\* corpus is certified again only under the id it has there, whatever the slots
\* interleave and whatever ids the corpus holds.
THEOREM IndexSeparates == Spec => []SameTheoremSameId
<1>1. IInv => SameTheoremSameId
  <2> SUFFICES ASSUME IInv PROVE SameTheoremSameId
    OBVIOUS
  <2>1. \A r \in Certified : r.id \in Ids /\ index[r.statement] = r.id
    BY DEF IInv, TypeOK, Results, Held, Certified
  <2> QED
    BY <2>1 DEF IInv, Held, SameTheoremSameId
<1> QED
  BY <1>1, Invariance, PTL

\* What a certified row ships elaborates, had a permitted closure unless the row
\* says it was pruned since, is not known to be vacuous, and proves its own
\* statement whenever the generator's text did.
THEOREM CertificatesHold == Spec => []CertifiedIsProved
<1>1. IInv => CertifiedIsProved
  BY DEF IInv
<1> QED
  BY <1>1, Invariance, PTL

\* A row is called a duplicate only if another id holds its statement, for good.
THEOREM DuplicatesAreReal == Spec => []DuplicateHasAHolder
<1>1. IInv => DuplicateHasAHolder
  BY DEF IInv
<1> QED
  BY <1>1, Invariance, PTL

\* No judgement is made beside a row that was refused, and each is made beside
\* all that the judge let through of its own slot before.
THEOREM SiblingsArePassed == Spec => []JudgedBesidePassed
<1>1. IInv => JudgedBesidePassed
  BY DEF IInv
<1> QED
  BY <1>1, Invariance, PTL
=============================================================================
