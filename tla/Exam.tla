-------------------------------- MODULE Exam --------------------------------
(***************************************************************************)
(* A panel cell of the Lean exam: run_seed_exam.py plays every row the     *)
(* wanted number of times, several episodes at once, and appends each      *)
(* result to the episodes file; drop_unmeasured_episodes.py takes out of   *)
(* it what measured nothing; the process may be killed and resumed.  An    *)
(* episode is the whole-proof player of goedel_player.py in the            *)
(* environment of environment.py.                                          *)
(*                                                                         *)
(* A reply is abstracted to the proof tokens it is charged and to what     *)
(* Lean makes of the proof in it.  Generator, verifier and operator are    *)
(* oracles: each may fail at any time.                                     *)
(***************************************************************************)
EXTENDS Integers, FiniteSets

CONSTANTS
    Rows,          \* the rows of the cell
    Attempts,      \* args.attempts: how often each row is played
    Concurrency,   \* args.episode_concurrency
    EmptyRunAbort, \* EMPTY_RUN_ABORT
    MaxAttempts,   \* proofs an episode may try
    MaxSteps,      \* args.max_steps: proofs env.steps may keep
    TokenBudget,   \* proof tokens an episode may spend
    Headroom,      \* how far a reply may exceed what the episode has left
    MaxStarts      \* bound: how often the cell is started

ASSUME ExamAssumption ==
    /\ Attempts \in Nat \ {0} /\ Concurrency \in Nat \ {0}
    /\ EmptyRunAbort \in Nat \ {0} /\ MaxAttempts \in Nat \ {0} /\ MaxSteps \in Nat
    /\ TokenBudget \in Nat \ {0} /\ Headroom \in Nat /\ MaxStarts \in Nat \ {0}

Pairs == Rows \X (1..Attempts)

VARIABLES
    phase,    \* idle, running, finished, aborted
    starts,
    round,    \* the attempt number the gather is at
    episode,  \* episode[p]: the play of a (row, attempt) pair
    file,     \* file[p]: the pair's lines with an answer, and with nothing measured
    torn,     \* the last line of the file is incomplete
    done,     \* the pairs a resumed process found on file
    empties,  \* consecutive_empty
    stopping  \* aborted holds a message

process == <<round, done, empties, stopping>>
vars == <<phase, starts, episode, file, torn, process>>

\* A proof closes the goal, leaves goals open or is rejected, taken by itself.
Proofs == {"whole", "part", "wrong"}

\* The outcomes of an episode that measured nothing.
Unmeasured == {"generator_empty", "sampler_empty", "verifier_error"}

EmptyFile == [p \in Pairs |-> [answer |-> 0, nothing |-> 0]]

Episode == [stage : {"queued", "reset", "ask", "verify", "write", "over"}, kept : Nat,
            success : BOOLEAN, opening : {"active", "statement", "verifier"}, tries : Nat,
            judged : Nat, tokens : Nat, empty : BOOLEAN, raised : BOOLEAN,
            proof : Proofs \cup {"none"}]

Fresh == [stage |-> "queued", kept |-> 0, success |-> FALSE, opening |-> "active", tries |-> 0,
          judged |-> 0, tokens |-> 0, empty |-> FALSE, raised |-> FALSE, proof |-> "none"]
Over == [Fresh EXCEPT !.stage = "over"]
Underway == {p \in Pairs : episode[p].stage \in {"reset", "ask", "verify", "write"}}

\* What is true of every episode, whatever its stage.
EpisodeOK(e) ==
    /\ e \in Episode
    /\ e.kept <= e.judged /\ e.judged <= e.tries /\ e.tries <= MaxAttempts
    /\ e.tokens <= TokenBudget + Headroom

TypeOK ==
    /\ phase \in {"idle", "running", "finished", "aborted"}
    /\ starts \in 0..MaxStarts /\ round \in 1..Attempts /\ done \subseteq Pairs
    /\ episode \in [Pairs -> Episode] /\ \A p \in Pairs : EpisodeOK(episode[p])
    /\ Cardinality(Underway) <= Concurrency
    /\ file \in [Pairs -> [answer : Nat, nothing : Nat]]
    /\ empties \in Nat /\ torn \in BOOLEAN /\ stopping \in BOOLEAN
    /\ \A p \in Pairs : episode[p].stage # "over" => phase = "running" /\ p[2] = round

Init ==
    /\ phase = "idle" /\ starts = 0
    /\ round = 1 /\ done = {} /\ empties = 0 /\ stopping = FALSE
    /\ episode = [p \in Pairs |-> Over]
    /\ file = EmptyFile /\ torn = FALSE

-----------------------------------------------------------------------------
\* Mutant of OnFile: only an episode that measured something counts as played.
OnFile_Answers(lines) == {p \in Pairs : lines[p].answer > 0}

\* The (seed, attempt) pairs read back from the file.
OnFile(lines) == {p \in Pairs : lines[p].answer + lines[p].nothing > 0}

\* Mutant of Gathered: resuming skips a row that is on file under any attempt.
Gathered_ByRow(attempt, found) ==
    [p \in Pairs |-> IF p[2] = attempt /\ ~\E q \in found : q[1] = p[1] THEN Fresh ELSE Over]

\* The pairs a gather creates: the rest are skipped.
Gathered(attempt, found) ==
    [p \in Pairs |-> IF p[2] = attempt /\ p \notin found THEN Fresh ELSE Over]

NewProcess == round' = 1 /\ empties' = 0 /\ stopping' = FALSE

\* main: --resume reads the file (a torn line does not parse: the process
\* dies), otherwise it is emptied; then the generator is probed.
Start(resume, answers) ==
    /\ phase # "running" /\ starts < MaxStarts
    /\ starts' = starts + 1
    /\ resume => ~torn
    /\ file' = IF resume THEN file ELSE EmptyFile
    /\ torn' = FALSE
    /\ done' = IF resume THEN OnFile(file) ELSE {}
    /\ NewProcess
    /\ episode' = IF answers THEN Gathered(1, done') ELSE [p \in Pairs |-> Over]
    /\ phase' = IF answers THEN "running" ELSE "idle"

Set(p, e) == episode' = [episode EXCEPT ![p] = e]
Keep == UNCHANGED <<phase, starts, file, torn, process>>

\* Mutant of Admits: an aborted run still lets the waiting episodes in.
Admits_Aborted == TRUE

\* The first thing a play looks at once it is through the gate.
Admits == ~stopping

Enter(p) ==
    /\ episode[p].stage = "queued"
    /\ Cardinality(Underway) < Concurrency
    /\ Set(p, IF Admits THEN [Fresh EXCEPT !.stage = "reset"] ELSE Over)
    /\ Keep

\* An exception anywhere in a play: its result has none of the player's fields.
Raised(e) == [e EXCEPT !.stage = "write", !.raised = TRUE]

\* LeanExamEnv.reset: a refused statement and a failed verifier end the episode.
Reset(p) ==
    /\ episode[p].stage = "reset"
    /\ \/ Set(p, [episode[p] EXCEPT !.stage = "ask"])
       \/ Set(p, Raised(episode[p]))
       \/ \E refusal \in {"statement", "verifier"} :
             Set(p, [episode[p] EXCEPT !.stage = "write", !.opening = refusal])
    /\ Keep

\* Mutant of Affordable: the budget is only looked at before a reply is asked.
Affordable_Unchecked(tokens) == TRUE

\* A proof that cost more than the budget is not offered to the verifier.
Affordable(tokens) == tokens <= TokenBudget

MayAsk(e) == e.tries < MaxAttempts /\ e.tokens < TokenBudget

\* One turn of the player's loop: nothing came back; or a reply without a
\* proof, with a proof that costs too much, or with a proof for Lean.
Ask(p) ==
    /\ episode[p].stage = "ask"
    /\ LET e == episode[p] IN
       IF ~MayAsk(e) THEN Set(p, [e EXCEPT !.stage = "write"])
       ELSE \/ Set(p, [e EXCEPT !.stage = "write", !.empty = TRUE])
            \/ Set(p, Raised(e))
            \/ \E tokens \in e.tokens..TokenBudget + Headroom :
                  \/ Set(p, [e EXCEPT !.tokens = tokens, !.tries = @ + 1])
                  \/ /\ ~Affordable(tokens)
                     /\ Set(p, [e EXCEPT !.stage = "write", !.tokens = tokens, !.tries = @ + 1])
                  \/ /\ Affordable(tokens)
                     /\ \E proof \in Proofs :
                           Set(p, [e EXCEPT !.stage = "verify", !.tokens = tokens, !.proof = proof])
    /\ Keep

\* What Lean says of the assembled code: the proof stands after the proofs that
\* env.steps kept because they left goals open, and is judged with them.
Verdicts(kept, proof) ==
    IF kept > 0 THEN {"solved", "accepted", "rejected"}
    ELSE CASE proof = "whole" -> {"solved"} [] proof = "part" -> {"accepted"} [] OTHER -> {"rejected"}

\* env.step with the whole proof as its tactic.  With its steps spent the
\* environment is done without asking Lean; the prompt that a verdict leads to
\* may raise.
Verify(p) ==
    /\ episode[p].stage = "verify"
    /\ LET e == [episode[p] EXCEPT !.tries = @ + 1, !.proof = "none"]
           judged == [e EXCEPT !.judged = @ + 1]
           grown == [judged EXCEPT !.kept = @ + 1]
       IN \/ Set(p, Raised(e))
          \/ e.kept >= MaxSteps /\ Set(p, [e EXCEPT !.stage = "write"])
          \/ e.kept < MaxSteps /\ Set(p, [e EXCEPT !.stage = "ask"])    \* the verifier failed
          \/ /\ e.kept < MaxSteps
             /\ \E verdict \in Verdicts(e.kept, episode[p].proof) :
                   \/ Set(p, CASE verdict = "solved"   -> [grown EXCEPT !.stage = "write", !.success = TRUE]
                               [] verdict = "accepted" -> [grown EXCEPT !.stage = "ask"]
                               [] OTHER                -> [judged EXCEPT !.stage = "ask"])
                   \/ verdict = "accepted" /\ Set(p, Raised(grown))
                   \/ verdict = "rejected" /\ Set(p, Raised(judged))
    /\ Keep

\* An empty reply is the server's doing only if the episode got nothing else.
GeneratorEmpty(e) == e.empty /\ e.tries = 0 /\ e.tokens = 0

\* outcome_of; an exception leaves a result without the player's fields.
OutcomeOf(e) ==
    CASE e.raised                -> "sampler_empty"
      [] e.success               -> "solved"
      [] e.opening = "statement" -> "statement_invalid"
      [] e.opening = "verifier"  -> "verifier_error"
      [] GeneratorEmpty(e)       -> "generator_empty"
      [] e.tokens >= TokenBudget -> "token_budget"
      [] e.tries = 0             -> "generator_empty"
      [] OTHER                   -> "attempts_exhausted"

\* The row is appended and counted with no await between.
Write(p) ==
    /\ episode[p].stage = "write"
    /\ LET nothing == OutcomeOf(episode[p]) \in Unmeasured IN
       /\ file' = IF nothing THEN [file EXCEPT ![p].nothing = @ + 1]
                             ELSE [file EXCEPT ![p].answer = @ + 1]
       /\ empties' = IF nothing THEN empties + 1 ELSE 0
       /\ stopping' = (stopping \/ empties' >= EmptyRunAbort)
    /\ Set(p, Over)
    /\ UNCHANGED <<phase, starts, torn, round, done>>

Play(p) == phase = "running" /\ (Enter(p) \/ Reset(p) \/ Ask(p) \/ Verify(p) \/ Write(p))

Goes == ~stopping /\ round < Attempts

\* The gather is through: next attempt, or the end of the run.
NextRound ==
    /\ phase = "running" /\ \A p \in Pairs : episode[p].stage = "over"
    /\ IF Goes
       THEN /\ round' = round + 1 /\ episode' = Gathered(round + 1, done)
            /\ UNCHANGED phase
       ELSE /\ phase' = IF stopping THEN "aborted" ELSE "finished"
            /\ UNCHANGED <<round, episode>>
    /\ UNCHANGED <<starts, file, torn, done, empties, stopping>>

\* The process is killed, perhaps while it writes a line.
Crash ==
    /\ phase = "running" /\ phase' = "idle"
    /\ torn' \in {FALSE, \E p \in Pairs : episode[p].stage = "write"}
    /\ episode' = [p \in Pairs |-> Over]
    /\ NewProcess
    /\ UNCHANGED <<starts, file, done>>

\* drop_unmeasured_episodes.py --write, between two runs.
DropUnmeasured ==
    /\ phase # "running" /\ ~torn
    /\ file' = [p \in Pairs |-> [file[p] EXCEPT !.nothing = 0]]
    /\ file' # file
    /\ phase' = "idle"
    /\ UNCHANGED <<starts, episode, torn, process>>

Next ==
    \/ \E resume, answers \in BOOLEAN : Start(resume, answers)
    \/ \E p \in Pairs : Play(p)
    \/ NextRound \/ Crash \/ DropUnmeasured

Spec == Init /\ [][Next]_vars

-----------------------------------------------------------------------------
\* However a cell is killed, resumed, cleared and aborted, no (row, attempt) is
\* on file twice: pass@k never counts one attempt as two.
OneRowPerPair == \A p \in Pairs : file[p].answer + file[p].nothing <= 1

\* A run that ends without a complaint leaves every attempt of every row on file.
FinishedIsComplete == phase = "finished" => OnFile(file) = Pairs

\* Against a dead server a process wastes the streak that stops it and what was
\* then in flight, nothing that still waited at the gate.
WasteIsBounded == empties <= EmptyRunAbort + Concurrency - 1

\* A solved episode is one Lean closed within the token budget, and a row that
\* will be dropped as unmeasured holds no verdict of Lean unless the player
\* raised: dropping deletes no answer.  (The reverse is not promised: with a
\* verifier that failed on every proof an episode is filed as an answer.)
OutcomeSeparatesFaults ==
    \A p \in Pairs : episode[p].stage = "write" =>
        LET e == episode[p] IN
        /\ OutcomeOf(e) = "solved" => e.tokens <= TokenBudget
        /\ OutcomeOf(e) \in Unmeasured /\ ~e.raised => e.judged = 0 /\ e.tries = 0

\* An episode that heard nothing at all, from Lean or from the generator, is
\* never an answer.
SilenceIsUnmeasured ==
    \A p \in Pairs : episode[p].stage = "write" =>
        LET e == episode[p] IN
        e.tries = 0 /\ e.tokens = 0 /\ e.opening # "statement" => OutcomeOf(e) \in Unmeasured

\* "One whole proof, one action": a proof that closes the goal solves the exam.
\* (goedel_player.py; steps left by an earlier, partial proof get in its way)
WholeProofStandsAlone ==
    \A p \in Pairs : episode[p].stage = "verify" => episode[p].kept = 0
=============================================================================
