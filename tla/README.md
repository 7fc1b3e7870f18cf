# A TLA+ development of entropymalean

entropymalean grows a corpus of formal theorems.  Starting from a pool of seed
problems it runs *generations*: a planner deals work to the slots of a pool, each
slot asks an LLM for a new theorem (a mutation of one parent, a crossover of two)
and has Lean certify it, an orchestrator selects the next pool, and the results go
to a JSONL file.  Around it are Lean verifiers, provers, an evaluation harness, an
exam environment and certificate tooling.

This directory holds TLA+ modules for the parts whose correctness depends on order,
interleaving, time-outs, crashes or accumulated state, the TLC models that check
them on small instances, and TLAPS proofs of the main results for all instances.
Paths below are relative to the repository's `src/` package unless they start with
`scripts/` or `tests/`.

- [1. The system](#1-the-system)
- [2. The modules and the code](#2-the-modules-and-the-code)
- [3. The runs](#3-the-runs)
- [4. Fairness](#4-fairness)
- [5. What is proved](#5-what-is-proved)
- [6. Disagreements between the code and its own words](#6-disagreements-between-the-code-and-its-own-words)
- [7. Not modelled](#7-not-modelled)
- [8. Plan](#8-plan)

To check: `tlc -config MCPoolRun_files.cfg MCPoolRun` (and so for every `.cfg`),
`tlapm PoolRun_proofs.tla` (and so for every `*_proofs.tla`).

## 1. The system

### 1.1 Components, state and operations

| component | state it keeps | operations | modelled |
|---|---|---|---|
| Persistent Lean REPL verifier, `evaluation/lean_repl_verifier.py` | `_state` (child, env id), an asyncio lock, the child's pipe | `verify`, `close`, the blocking conversation on an executor thread | `LeanRepl` |
| Pool generation loop and graph, `orchestration/pool_generation.py` | the graph's channels, the runtime result store, the output file, the barren streak | generation zero, plan, dispatch, slot, aggregate, reserve round, save, decide | `PoolRun` |
| Next-pool selection, same file | `approved`, `used_ids`, the selected signatures, `updated_by_problem_id` | replay of the selector's decisions, continuity backfill, final rows | `PoolSelect` |
| Slot worker, same file | the card, attempt and failure histories, replan and quality-retry counts | certify, retry, replan, exhaust | `PoolSlot` |
| Pool planner and validation, same file | the lineage of every problem, used pairs, offspring counts | validate, repair and downgrade a plan, deterministic fallback, reserve items | `PoolPlan` |
| Generation zero, same file | each seed's proof and clock | complete the seeds' proofs in parallel | its result, in `PoolRun` |
| Certification of a candidate, same file and `certification/` | the corpus index and the kept siblings, shared by all slots | generate, probe, align, prove, repair, audit, vacuity, prune, deduplicate, judge | `Certify`; an outcome in `PoolSlot` |
| File-based Lean verifier, `evaluation/lean_verifier.py` | LRU of verdicts, in-flight futures, process groups | `verify_lean_proof` with coalescing, subprocess, time-out | `VerdictCache` |
| REPL pool and singleton, `evaluation/lean_repl_verifier.py` | a queue of verifiers, a global | borrow, get, close | no |
| Lean comparator, `evaluation/lean_comparator.py` | one workspace, `_primed` | prepare, prime, compare under a lock | no |
| Proof evaluation, `evaluation/proof_orchestrator.py` | the results file, the grid of cells | run, append, resume, summarise | no |
| Provers, `evaluation/*prover*.py`, `leandojo_*.py` | a proof graph, a conversation | expand, propagate status, extract | `leandojo_*` in `ProofTree` |
| Exam environment and players, `exam_env/` | accepted steps, token budget | reset, step, the players' loops, rollback, inspect | whole-proof player in `Exam` |
| Exam panel, `scripts/evaluate/` | the episodes file, the count of empty episodes | concurrent episodes, resume, abort, drop | `Exam` |
| Certificates, `certification/levels.py` | a record and its level | audit, derive, upgrade | the audit, in `Certify` |
| Problem ids, `orchestration/problem_ids.py` | what an id carries: roots, chain, fingerprint | make an id, read its roots | in `PoolPlan`, `Certify` |
| Template certification graph, Codex CLI, retrieval, single-answer evaluation, scripts and data | see [7](#7-not-modelled) | | no |

### 1.2 How they interact

- The **run loop** invokes a LangGraph once per generation.  Nodes hand work on
  through state channels; large values travel as *refs* into a process-global
  `_RUNTIME_RESULT_STORE`.  Slots run in parallel and write into a channel with a
  reducer; aggregation is the barrier, and may send the graph back to dispatch
  once, for the reserve round.  Only the keys the runner names are taken back from
  the graph's final state.
- The **planner** deals parents to slots.  It knows them by their ids, which carry the
  seeds a problem descends from; the offspring cap reads the same ids off the output
  file, so a generation's results decide what the next one may plan with.
- A **slot** calls the certification pipeline, which calls a verifier; a slot is an
  asyncio task, so every verification is concurrent with the other slots', and so is
  every look at the corpus index and the kept siblings, which all slots share.
- All slots share **one** REPL child (or the file-based verifier's cache).  Callers
  abandon calls: a wall-clock guard in `verify`, and `asyncio.wait_for` around a
  seed's completion in generation zero.
- The **selector** turns an LLM's decisions into the next pool, which is the
  planner's input; its rows are what the archive search of later generations reads.
- The **output file** is the only state that outlives the process, and it is what a
  rerun of the same command appends to.
- The **exam** plays rows of the released corpus: concurrent episodes share a gate, a
  streak of empty episodes and one JSONL file, which a resumed cell reads back.

### 1.3 What is hard

Cancellation and time-outs against a shared child or a shared future; state read after the step that
clears it (`results_ref` after save); counters and budgets whose zero is falsy;
channels that the runner does not take back; deduplication across slots,
generations and reruns; a kill in the middle of a write; LLM answers as arbitrary
sequences of decisions; two off-by-one bounds on attempts; repairs of a plan that could
undo each other; a text changed after it was verified; proof graphs with cycles; faults of
the infrastructure that look like a model's failures.  `PROJECT.json` lists
these hazards with their lines and the properties that watch them.

### 1.4 What makes each component correct

- *REPL verifier*: a caller gets the verdict on its own code or none; one
  conversation and one Mathlib-loaded child at a time; nothing runs after `close`;
  every call returns.
- *Run loop*: no certified theorem twice in the file, no problem id that a slot ended
  with missing from it, the count equals the lines, the file only grows; results live
  exactly as long as their refs; reserve budget; the run ends, and stops when the
  provider is silent (6 says what else stops it).
- *Selection*: the code's five invariants for any answer; the rows written agree
  with the pool; a partial pool, which ends the run, only if forced.
- *Slot*: bounded attempts; the operator lock; a replan is tried, happens at most
  once, and happens when it should; the telemetry says what happened.
- *File verifier*: callers that share a run all end, with its outcome; no run is
  started beside another of its key; no Lean outlives its call; only what Lean judged
  is remembered, and the least recently used is forgotten.
- *Planner*: no crossover of kin, whoever wrote it; the crossover budget is spent while
  it can be; the operator lock reaches every round; seeds at the cap get no offspring;
  planning ends the run only for a shortened pool or kin under the lock.
- *Certification*: what is shipped is what was proved; one theorem has one id; a
  duplicate is one; later judgements see what earlier ones let through.
- *Proof search*: status and distance say what the explored graph says; the extracted
  proof replays and is shortest; the recursion over cycles ends.
- *Exam*: no attempt counted twice or missing over kills, resumes and clearings; a dead
  server wastes boundedly many episodes; faults are not answers.

## 2. The modules and the code

`PROJECT.json` maps every definition to its lines.  `Xxx_Yyy` below a comment
"Mutant of Xxx" is a deliberately wrong version of `Xxx`; it is used by no
specification, only to see that a property notices the mistake.

### LeanRepl, LeanService

`LeanRepl` has three kinds of processes.  *Coroutines*: `Verify` queues a call on
the lock, `Acquire` takes it and submits the job, then exactly one of `Return`,
`WallTimeout` (the guard around `wait_for(shield(fut))`) and `Cancel` (an outer
cancellation) ends the wait; `Close` is `close()`.  *Executor threads*:
`_verify_blocking`, split at each access to `self._state` or to the child
(`StartJob`, `Store`, `ImportFails`, `Load`, `Send`, `SendFails`, `Match`,
`Parse`, `ExpectTimeout`, `ExpectEOF`).  *Children*: reply in order, or die.  A call
stands for its code; the verdict "of c" is the reply to c's code; a child is named
after the thread that spawned it.  `MayWall` and `MayCancel` are the calls that may
be abandoned: the constants in which the claims of the class docstring differ.

`LeanService` is the abstract promise: calls are served one at a time, each answered
once, with its own verdict or without one.  `LeanRepl!ServiceSpec` is the refinement
mapping (the lock's owner is the call being served).

### PoolRun

Variables are the graph's channels (`generation`, `pending` = `all_passed_results`,
`count`, `outputs` = `slot_outputs`, `results`, `reserveDone`, `survival`), the runner's
(`streak`), the store, the disk (`file`, `fileExists`) and one history variable
(`answered`).  Actions are the nodes: `GenerationZero`, `PlanGeneration`, `SlotUnit`,
`Reserve`/`Aggregate` (the two ways out of aggregation), `SaveRaises`/`Save`, and
`Decide`, the runner's code after `graph.ainvoke`.  `Crash` kills the process and
reruns it on the same file; `CrashInSave` kills it between two lines of a write, or
inside one, which leaves a `Torn` line.  A row is the generation and slot that made
it, its status, and the surface key it is deduplicated by.  What a slot returns is any
element of `Results`, so `PoolSlot`'s internals are abstracted; which rows become the
next pool, and which parents are kept as backfills, is any choice, so `PoolSelect`'s are.
The final rows are looked up by `problem_id`: `met[s]` is the slot whose result stands
for the id that slot `s` ended with (any slot of its kind, `FirstMet`), and `Finals` the
rows of those slots and of the backfills, sorted by slot.

### PoolSelect

The decisions of the selector, LLM or deterministic, are an arbitrary sequence:
`Select`, `Reject`, `Backfill`, `RejectSeed`, `Skip`, ended by `EndOfDecisions`.
`Continue` is the continuity loop over the archive, `Finish` the final rows.
`OneSurface` says that a result has the signature its id's seed has, which holds on
the theorem route, where both are read from the formal surface.

### PoolSlot

One slot from its card to its row: `Certify` (an attempt, its quality verdict and
its history entry), `Raise` (any exception), then `Settle`, `Retry` or `Replan`, and
`NextAttempt` or `Exhaust`.  An attempt's outcome is the class that the retry and
replan predicates tell apart (listed in the module) and, where they compare it, its
failure signature.  `Replan` offers every card the deterministic ladder or an LLM's
answer can put together.  The names it would share with `PoolPlan` are its own
(`SlotSpec`, `SlotTypeOK`, `stage`, `opLock`), so that the theorems about the planner and
about the workers of its plan stand side by side in `PoolPlan_proofs`.

### VerdictCache, VerdictService

A call of `verify_lean_proof` is a coroutine: between two awaits it is one action, as
`_cache_lock` is never held across one.  `Hit`, `Follow`, `Start` and `CannotStart` are
the ways it gets past the cache and the table; `Exit`, `TimeOut` and `Reaped` are what
`_verify_lean_proof_uncached` can come back from, each with `Deliver`, the block that
stores, broadcasts and pops; `Wake` resumes a follower; `GroupEnds` is the end of a
process group nobody waits for any more.  `Cancel` is `Task.cancel()` on the awaiting
task: of a follower it cancels the shared future itself (`CancelFollower`), of the
owner it is the `except BaseException` (`CancelOwner`).  A key is a pair (code,
timeout); `Direct` calls pass `use_cache=False` or an `extra_env`.  A verdict is the
call whose run gave it and its kind: `judged`, `crashed` (Lean died without a
diagnostic, which reads as a failed proof) or `system_error`.  `cancelled` and `since`
(the keys used after a key's last use) are history variables.

`VerdictService` has neither futures nor processes nor an order of eviction: the end
of a run answers every caller waiting for its key; only lasting verdicts are
remembered.  Its `GiveUp` and `CalledOff` are not a wish but what the code does: a
cancelled follower takes the other callers of the key with it, and those that arrive
before the run ends.  In the mapping a follower whose future is done has its answer.

### PoolPlan

Five actions follow one generation after another: `PlanGeneration` (any plan an LLM can
write and validation lets through) or `PlanFallback`, `RunSlots` (the primary and the
reserve round), `Aggregate` (with `_build_reserve_work_items`), `SelectNextPool`.  The
pure part is in operators named after the functions: `Normalised` is the three repairs of
`validate_pool_plan` in their order, `ForceCrossovers` the exploration pass (one `Promote`
per item, with `Partners` the parents it may take), `Accepts` the checks after the repairs, `FallbackPlan` the deterministic plan, `ReserveItem` the reserve.
A problem is its id, a sequence of parts joined by `__x__`; a part is a seed with or
without a suffix, whose chain and fingerprint stand as the generation and slot of the row.
A crossover's child is given the one joined id of its parents (8617), so `ChildId` replaces
the last suffix only and those inside stay with their parts: a root such as `A__me__h` is no
seed.  `rows[r]` is how many rows on file have root `r`, up to the cap; a repeated surface
is counted once (any row may be one), a failed generation and a backfill have a tail that
makes their last part a root of its own.  All problems are of the style to prove, as in the pipeline's
runs; a plan refused for its shape is one of the failures `PlanFallback` answers.

### Certify

`task[s]` holds the locals of slot `s`'s attempt in `_certify_theorem_child`, `index` is
`_CORPUS_INDEX`, `siblings` is `_RUN_SIBLINGS`.  A step ends where the code awaits, one
action per gate: `Generate`, `ProbeStatement`, `Align`, `Prove`, `Repair`, `AuditAxioms`,
`ProbeVacuity`, `PruneHypothesis`, `Deduplicate` (twice, as in the code), `ReadSiblings`
(the judge's prompt is written), `Judge` (its verdict, and `build_result`); both
orders of the gates (`statementFirst`) are in one specification.  `CorpusId` gives the
corpus any ids, those included that `child_id` makes again for the same parent, operator
and statement.  A pruned text elaborates, and closes or leans on an axiom: nothing audits
it again.  A statement is a theorem
with or without a spare hypothesis; a proof text is the statement it proves and how Lean
finds it (`closes`, closes with a forbidden `axiom`, or stays `open`).  Lean is an oracle
that accepts nothing false and may time out; the models may answer anything.  An attempt
that fails before the last gates leaves nothing behind, so `rows` has only those that
reached them.

### ProofTree

One search of `leandojo_bfs.py` after another (`Open`, `NextAttempt`).  `Expand` takes a
node off the queue and gives it any list of edges; then `RecomputeStatus` and
`RecomputeDistance` are single calls of the recursive methods of `leandojo_tree.py`, with
`calls` the stack of pending ones, so that a recursion that runs in circles is a behaviour
that never returns.  `Extract` is `extract_proof`, by the calls still to come.  The
reference definitions say what the explored graph says: `Provable` and `Refuted` are the
least sets closed under its edges, `ProvableIn[k]` the nodes at most `k` edges from a
proof.  `math.inf` is a value of its own, compared by `Nearer`.

### Exam

`Start` begins a cell, from nothing or with `--resume`; `Enter`, `Reset`, `Ask`, `Verify`,
`Write` are the steps of an episode between awaits; `NextRound` is the end of a gather;
`Crash` kills the process, perhaps inside a line (`torn`); `DropUnmeasured` is
`drop_unmeasured_episodes.py --write`.  An episode counts the proofs it tried and Lean
judged, and the proof tokens it was charged; `kept` is the length of `env.steps`, and with
`MaxSteps` of them the environment is done without asking Lean.
`OutcomeOf` is `outcome_of`, test by test.

## 3. The runs

| run | question | instance | result |
|---|---|---|---|
| `repl_serial` | are verdicts the callers' own, all quiet after close, and is `LeanService` implemented? | 3 calls, 2 workers, nobody abandons a call; children die, pexpect times out, imports fail, close at any time | holds, 23k states |
| `repl_live` | does every call return, and how many Mathlibs do late threads leave alive? | 3 calls that may hit the wall clock, one of them may be cancelled, 2 workers | holds, 2.3M |
| `repl_cancel` | `VerdictIsOwn` with one cancellation | 3 calls | violated (6.1) |
| `pool_files` | what is in the file, is counted, stays in the store | 1 slot and 1 reserve slot, 2 generations, killed and rerun once anywhere, also inside a write | holds, 3.3M |
| `pool_loop` | does what was selected reach the file, does the run stop when the provider is silent, and end always? | 1 slot and 1 reserve slot that may share an id, a backfill, 3 generations, barren limit 2 | holds, 554k |
| `select_pool` | no problem twice, rows agree with the pool, partial only if forced | 2 results, 2 seeds (one ineligible), pool of 2, up to 3 decisions | holds, 784k |
| `slot_retry` | is a replan tried, and does repetition replan? | 2 parents, 2 failure signatures, 4 attempts, every planned card, lock on and off | holds, 2.9M |
| `verdict_shared` | are runs shared and processes bounded, does the cache keep what it should, is `VerdictService` implemented, does every call end? | 3 calls about one key, 2 about one other each, 2 entries, 2 of the first 3 may be cancelled | holds, 265k |
| `plan_lineage` | kin, crossover budget, lock, cap, and when planning fails | 3 seeds, 1 survivor, 0 or 2 crossovers, 1 reserve item, cap 2, 2 generations planned and 1 worked, one child adopted, lock on and off | holds, 1.4M |
| `certify_gates` | do certificates hold, ids separate, duplicates exist, judgements see what passed and no more? | 2 slots of 2 attempts, 1 repair turn, 4 candidates over a sound, a vacuous and an ill-typed theorem, one statement in the corpus under an id that may be made again, both orders of the gates | holds, 11M |
| `tree_cycles` | do status, distance and extracted proof say what the graph says, and does the search end? | 3 proof states, 2 tactics a node, 2 attempts: every such graph in every order | holds, 157k |
| `exam_cell` | no attempt twice or missing, waste bounded, no answer dropped as a fault | 3 rows played twice, 2 at a time, 2 proofs and 1 step an episode, abort after 2 empties, started twice | holds, 1.1M |

Seven further configurations are no runs of their own; TLC violates their one property,
and section 6 says what that shows: `MCPoolRun_gen0`, `MCPoolRun_dedup`,
`MCPoolRun_barren`, `MCVerdictCache_crash`, `MCPoolPlan_kin`, `MCCertify_twins`,
`MCExam_stacked`.  `MCPoolPlan_third`, `MCPoolRun_keys`, `MCPoolRun_pool` and
`MCExam_steps` hold; what they add is said below.

Where there is a theorem for the type invariant, or for a property that says little
beyond its guard (`CallsSerialized`, `IdleChildOwesNothing`, `FileGrows`,
`ReserveWithinBudget`, `BarrenHaltUncertified`, `WithinSize`, `NoDuplicateSignature`,
`OnlyProved`, `WithinAttempts`, `LockKeepsOperator`, `ExhaustedMeansSpent`,
`AttemptedIsHistory`, `QualityRetriesCounted`, `InFlightIsNotCached`,
`SilenceIsUnmeasured`), the theorem stands alone and no run repeats it.

Why these bounds are enough for what they look for:

- *LeanRepl*.  A stale reply needs a call that leaves it, and one that reads it; the
  third call shows what follows.  Two workers let an abandoned thread run beside the
  next job (a second Mathlib); two wedged threads block the executor, and the third
  call has to return all the same.
- *PoolRun*.  Everything a generation leaves behind (pending rows, the count, the
  store, keys on disk) is seen by the next, so two generations suffice for the file;
  the streak needs `BarrenLimit + 1`.  A slot and its reserve slot make two results that
  repeat each other or share an id.  With one crash a rerun sees a file with a torn line,
  a partial batch, and complete ones.  A second surface, which makes distinct theorems, is
  in `MCPoolRun_keys` (21.5M states, `pool_files` with two surfaces), and a pool of a
  survivor and a generated slot with backfills in `MCPoolRun_pool` (16.8M): the same
  properties hold, in minutes instead of seconds.  Deadlock checking is off because a run
  ends.
- *PoolSelect*.  Two results share an id, a signature, both or neither; two seeds
  give one to backfill and one to reject; three decisions allow a decision after an
  invalidated one, and one more than the pool holds.
- *PoolSlot*.  Four attempts are the code's default (`DefaultRetries` 3); the
  predicates look at the last three attempts.
- *VerdictCache*.  An owner, a follower and a third who arrives late are all that one
  future can tell apart; of two that may be cancelled, one can be the owner and one a
  follower.  Three keys and two entries make an eviction, and the second call on the
  first key makes the hit that decides which one.  Deadlock checking is off because
  the calls end.  Calls that bypass the cache share nothing; in `verdict_shared` there
  are none, the theorems are for any set of them.

- *PoolPlan*.  With three seeds and one crossover child adopted the pool of the second
  generation has kin and non-kin pairs; the cap of two is reached inside the first
  generation.  Two crossovers are all the generated slots, so the lock can be unmeetable.
  `MaxWorked` ends the slots' work, not the planning, one generation early.  A crossover of a
  descendant, whose first root is no seed, is planned over in the third generation: the
  same properties hold of two seeds, at most one crossover and three generations
  (`MCPoolPlan_third`, 0.7M), and the theorems are for any number of either.
- *Certify*.  Two slots whose cards may or may not agree, two attempts each, are what one
  claim of the index can be contested by, a retry can meet its own first attempt, and one
  slot can be judged while the other's verdict is awaited.
- *ProofTree*.  Three states have every kind of cycle: a self-loop, a pair, a cycle through
  the root or past it.  Every order of expansion is explored.
- *Exam*.  Three rows at a concurrency of two leave one waiting at the gate when a streak
  of two ends the run; rows are symmetric.  Two starts make a kill, a resume, a clearing
  and an overwrite each possible before the second.  One proof token to spend and one more
  in a reply give a proof within the budget and one over it.  One step ends an episode
  whose first proof left goals open; a third proof and a second step, for verdicts on
  stacked proofs, are in `MCExam_steps` (5.6M).

A property that needs a restriction of the instance has it in the table and in
section 5; `CountMatchesFile` and `FileGrows` are false with generation-zero rows.
Deadlock is checked where a configuration does not say otherwise; elsewhere the system
really ends.

## 4. Fairness

- `LeanRepl`: the event loop runs every coroutine that can run and fires due timers
  (`WF` of acquire/return/time-out for each call, and of close).  Nothing is assumed
  of executor threads, children or callers: a thread may block in a pty write for ever,
  and the wall-clock guard exists because of that.
- `PoolRun`: the process takes its next step (`WF` of the disjunction of its own
  steps).  Slots return because their provider calls and Lean calls have time-outs.
  Crashes are not fair, and at most `MaxCrashes` happen.
- `VerdictCache`: `wait_for` fires (`WF` of "Lean ends or times out", and of the bounded
  reaping), and a coroutine whose future is done is resumed (`WF` of `Wake`).  Nothing
  is assumed of Lean, of killed process groups or of callers.
- `ProofTree`: one asyncio task goes on as long as it can (`WF` of `Next`).  Which node it
  expands and what the tactics answer is up to the environment.
- `PoolPlan`, `Certify` and `Exam` check safety: their steps wait for models, Lean and
  operators of which nothing is assumed.
- `PoolSelect` and `PoolSlot` check safety only; that a slot ends follows from
  `WithinAttempts`.

## 5. What is proved

All theorems are about `Spec` of their module and hold for every value of its
constants that satisfies the module's `ASSUME`s and the assumption named here.

| theorem | says | assumes |
|---|---|---|
| `LeanRepl_proofs!TypeInvariant` | `TypeOK` | |
| `MathlibIsShared` | `MathlibsAreBounded` | |
| `VerdictsAreOwn`, `ConversationsAreSerial` | `VerdictIsOwn`, `CallsSerialized` | `NoneAbandoned` |
| `ImplementsService` | `Spec => ServiceSpec` | `NoneAbandoned` |
| `IdleChildIsQuiet`, `ClosedIsQuiet` | `IdleChildOwesNothing`, `ClosedMeansQuiet` | `NoneAbandoned` |
| `PoolRun_proofs!TypeInvariant` | `TypeOK` | |
| `NoCertifiedTwice` | `CertifiedOnce`, over crashes and reruns | |
| `ResultsArrive` | `ResultsReachFile` | |
| `StoreIsExact` | `StoreFollowsRefs` | |
| `CertifiedIsNotBarren`, `SilenceStops` | `BarrenHaltUncertified`, `SilenceStopsTheRun` | |
| `FileOnlyGrows`, `CountIsLines` | `FileGrows`, `CountMatchesFile` | `GenZeroTargets = 0` |
| `ReserveIsBounded` | `ReserveWithinBudget` | `ReserveBudget # 0` |
| `PoolSelect_proofs!TypeInvariant`, `PoolIsSound` | `TypeOK`; `WithinSize`, `NoDuplicateSignature`, `OnlyProved` | |
| `NoProblemTwice` | `NoDuplicateId` | `OneSurface` |
| `PartialMeansNoSeedLeft`, `RowsAgreeWithPool` | `PartialIsForced`, `EligibleRowsArePool` | |
| `PoolPlan_proofs!TypeCorrect`, `KinAreNotPlanned`, `BudgetIsSpent` | `TypeOK`, `NoKinPlanned`, `CrossoverBudgetSpent` | |
| `ArmIsHeld`, `FailuresAreExplained`, `CapIsKept` | `LockHoldsTheArm`, `PlanFailsOnlyWhen`, `CapWithholds` | |
| `PoolPlan_proofs!TypeInvariant`, `BudgetHolds`, `LockHolds`, `ReplansAreTried`, `RepetitionIsReplanned` | of `PoolSlot`: `SlotTypeOK`, `WithinAttempts`, `LockKeepsOperator`, `ReplanIsTried`, `RepetitionReplans` | |
| `ExhaustionIsReported`, `AttemptsAreReported`, `QualityRetriesAreReported` | `ExhaustedMeansSpent`, `AttemptedIsHistory`, `QualityRetriesCounted` | |
| `VerdictCache_proofs!TypeInvariant`, `FlightsAreLive` | `TypeOK`, `InFlightIsNotCached` | |
| `OrphansAreCancelled`, `RunsAreShared` | `NoOrphans`, `OneProcessPerKey` | |
| `LeastRecentIsDropped` | `CacheKeepsRecent` | |
| `VerdictCache_proofs!ImplementsService` | `Spec => ServiceSpec` | |
| `Certify_proofs!TypeCorrect`, `IndexSeparates` | `TypeOK`, `SameTheoremSameId` | |
| `CertificatesHold` | `CertifiedIsProved` | |
| `DuplicatesAreReal`, `SiblingsArePassed` | `DuplicateHasAHolder`, `JudgedBesidePassed` | |
| `Exam_proofs!TypeCorrect` | `TypeOK` | |
| `NoAttemptTwice`, `NoAttemptMissing` | `OneRowPerPair`, `FinishedIsComplete` | |
| `AbortBoundsWaste` | `WasteIsBounded` | |
| `FaultsAreNotAnswers`, `SilenceIsNotAnAnswer` | `OutcomeSeparatesFaults`, `SilenceIsUnmeasured` | |
| `ProofTree_proofs!TypeCorrect`, `StatusIsTrue` | `TypeOK`, `StatusIsTruth` | |
| `DistancesAreShortest`, `ProofsReplay` | `DistanceIsShortest`, `ProofReplays` | |
| `GraphIsConsistent` | `GraphInv`: the code's `assert`s on explored nodes | |

The assumptions are not conveniences: each is where the code's own claim fails
without it.  `NoneAbandoned` is `MayWall = {} /\ MayCancel = {}` (6.1);
`GenZeroTargets = 0` is 6.2; `ReserveBudget # 0` because zero reads as the default.

The arguments:

- **LeanRepl.**  `SerialInv`: the lock's owner is the only call with a thread, that
  thread is the only one that holds a child, and the pipe of the child holds at most
  the owner's command or its reply.  `VerdictIsOwn` alone is not inductive: what
  matters is that an idle child owes nothing, and that `before` at `Parse` is the
  current command's reply.  After `close` (`ClosedInv`) no call holds the lock and
  `_state` stays empty, so no thread can start or keep a child.  With abandoned calls
  none of that holds; what does is counted: every thread at work is the owner's or that
  of a call that was left (`OwnerInv`), and where `_state` is not the child the owner's
  thread holds, a late thread put it there (`HeldInv`).  So each child is that of an
  abandoned call (a surjection onto the others from those calls), or one more.
- **PoolRun.**  `RunInv` has a part per concern: the slots dispatched are an initial
  segment `0..n-1` within the budget (`WorkInv`), so a generation's rows are a
  sequence; sorting them behind the backfills keeps every one (`SortKeeps`), so the final
  rows have one for every id and no certificate that no slot earned (`FinalRows`,
  `RowInv`); the loop goes on only below both its limits (`LoopInv`); `results_ref`
  names something only between aggregation and save (`ResultInv`, `StoreInv`), which
  makes the barren guard see the certified count only, and is why the streak is at
  least the number of silent generations behind it (`SilenceInv`).  For the file, the
  rows left by deduplication are listed by a strictly increasing enumeration
  `InOrder`.  That no two of them are certified with one surface follows from its
  monotonicity (`WrittenRows`); that every other row is listed from its being a
  bijection (`OthersAreWritten`); that a dropped one is represented from the *least*
  row with its surface (`Least`, `RepeatsAreWritten`).  Appending in full, in part,
  or with a torn line keeps the file without repeats (`AppendKeepsOnce`).
- **PoolSelect.**  A candidate and a seed both enter only if their signature is new;
  with `OneSurface` equal ids have equal signatures, so no id comes twice although
  `_candidate_invariant_violation` does not look at `used_ids`.  A reason to pass over
  a seed never goes away, as ids and signatures only join the pool (`ViolationsStay`);
  so every seed behind the continuity loop's place is refused or kept out
  (`ForcedInv`).  `RowsInv` holds at every moment, not only at the end.
- **PoolSlot.**  `SlotInv`: the budget leaves room for an attempt whenever one is
  about to start; the current card has the planned operator under the lock; a slot
  that goes on after a proof failure in its second or a later attempt has spent its
  replan (`ProofInv`): the code takes every such failure for a repetition, which is
  stronger than `RepetitionReplans` asks and is what makes it inductive.  The telemetry
  has an invariant per field (`ReportInv`, `CardsInv`, `QualityInv`); the last counts
  the weak attempts of a growing sequence.
- **PoolPlan.**  `IInv` says what a plan keeps from its making to the selection
  (`PlanInv`: whole, without kin, with exactly its survivors, in its arm, and as far
  crossed as it can be), what the reserve may hold, and that a certified child's id has a
  mark of the next generation, hence is none of the pool's (`ChildrenInv`), which keeps pools
  without repeats.  The work is in two places.  The exploration pass is a fold over the
  plan, and `NextStage` its invariant: after each item the items so far are crossed with a
  parent of another lineage, have none left, or the budget is spent, and an item crossed
  later takes nothing back, since pairs are only added to the used ones.  That the
  fallback's plan passes validation where `PlanFailsOnlyWhen` says so is counting
  (`FallbackAccepted`): a pass that ends below its budget leaves a mutation whose parent was
  crossed with every other, so one crossover per problem but itself (`OneForEachOther`),
  and different items have different pairs (`OnePairEach`).  The recursive functions of the
  module are shown to exist by `Recursion`, again from the least counterexample.
- **VerdictCache.**  `CacheInv`: a future is pending only while its run goes on, the
  table names exactly the shared runs that go on (`FlightInv`), a follower awaits the
  future of a run of its own key.  The orphan and process claims add who was
  cancelled.  The refinement holds for `Spec` without assumptions: `RunEnds` shows that
  resolving a future answers exactly the waiting callers of the key, and every action
  maps to one of the service or to a stutter.  For the order of eviction (`LruInv`) the
  keys used after a cached key are those behind it in the `OrderedDict`; moving an entry
  to the end is followed place by place, and the key that falls off has seen exactly
  `CacheMax` others.  It needs `FlightInv`: a stored key is never cached before.

- **Certify.**  None of the four properties is inductive alone.  `Gated` says of each task
  what the gates it has been through established, in either order of the gates;
  `Settled`, that from the first look-up on a task's statement is held in the index by
  the id the task will report, or by its own, whatever other slots claimed while it was
  waiting for Lean; `Held`, that the corpus and every certified row keep their entry.
  The index only gains entries, which carries all three over the steps of other slots.
  `Siblinghood` says that a judge that has been asked was shown every passed row of its
  own slot, whose rows are all of attempts behind the current one.
- **Exam.**  `Accounted` ties an episode's counters to its stage, and gives the outcome
  theorems.  `RowOnce` says that a pair with its row is over, and in a later round is one
  that was found on file; `RowsComplete`, that a pair of the rounds gathered so far that
  is over has its row, unless the run is stopping; so `Write` never meets a row and the
  end of the last round meets no gap.  For the waste it is the *sum* of the streak and the
  episodes under way that never exceeds its bound: once the streak has stopped the run,
  every further empty row is paid for by an episode that is over.
- **ProofTree.**  Neither property speaks of the middle of a recursion, so both are split.
  *Soundness* (`SoundStatus`, `SoundDistance`) holds at every moment: a settled status has
  its reason among the destinations and lies in every closed set, a finite distance is
  backed by a destination at least one nearer.  *Completeness* (`CompleteStatus`,
  `CompleteDistance`) holds but for the nodes whose call is pending: a node whose status or
  distance changes pushes exactly those that lead to it, since `in_edges` is complete
  (`GraphInv`).  With an empty stack the two meet: the proved nodes are closed, hence the
  least closed set, and the same for failure and for finite distances.  That a finite
  distance is a way to a proof, that `ProvableIn[k]` is distance at most `k`
  (`LevelsAreDistances`) and that the extracted proof leads where it should
  (`ExtractedProofLeads`) are inductions on the distance; as the library's induction
  theorems cannot be instantiated they are stated as the least element of the set of
  counterexamples (`LeastElement`).  The recursive functions `ProvableIn` and `Extract` are
  shown to exist by `NatRecursion`, which is proved the same way.

Only model-checked: the liveness properties `EveryCallReturns`, `RunEnds`, `EveryCallEnds`
and `SearchEnds`, since liveness under fairness and `ENABLED` are beyond the prover.  Every
invariant a passing run checks is proved.

## 6. Disagreements between the code and its own words

For each TLC prints a counterexample under the configuration named.  The first is a run of
the project, quoted in `PROJECT.json`; the others are the further configurations.

1. `MCLeanRepl_cancel`, `VerdictIsOwn`.  Cancelling the task that awaits `verify` releases
   the lock while the shielded thread still waits for its reply on the shared child; the
   next call can read that reply as its own verdict.
2. `MCPoolRun_gen0`, `CountMatchesFile`.  `all_passed_results` is not taken back from the
   graph (line 12753), so the generation-zero rows stay pending: the second save opens the
   file with mode `w` and the first generation's rows are lost, though still counted.
3. `MCPoolRun_dedup`, `CertifiedReachFile`.  The keys read back from the file include those
   of failed rows, so a theorem that failed once and is proved later is dropped as a repeat.
4. `MCPoolRun_barren`, `BarrenHaltIsSilence`.  The barren guard reads the results after
   save has released them: any generation without a certified theorem counts as silent.
5. `MCVerdictCache_crash`, `OnlyJudgedIsCached`.  A Lean that dies without a diagnostic has
   no `system_error`, so the crash is cached as a failed proof, although crashes "should be
   retried".
6. `MCPoolPlan_kin`, `NoDescendantCrossed`.  "A parent and its own descendant cannot be
   crossed" (`pool_generation.py:1273`), but `_same_root_lineage` compares first roots only: a
   crossover child is crossed with its second parent, and two crossover children that share
   their second seed with each other.  After a crossover of a descendant `A__me__h` the
   first root is that id and no longer `A`, so the child is crossed with `A` itself.
7. `MCCertify_twins`, `OneSlotPerStatement`.  The index promises that a statement "repeated
   inside the run is caught" (`certification/dedup.py:90`).  Two slots that mutate one parent the same
   way into one statement make the same id, and a row is no duplicate of itself: both certify.
8. `MCExam_stacked`, `WholeProofStandsAlone`.  "One whole proof, one action"
   (`goedel_player.py:397`), but an accepted proof that leaves goals open stays in `env.steps`, and
   the next whole proof is verified behind it.

Seen while modelling, without a run of their own:

- Final rows of a generation are looked up by `problem_id`, which two slots can share
  (`select_next_pool_with_orchestrator`, line 10355); the row of the one met first then
  stands for both, twice if it is not certified, and the other result never reaches the
  file (`ResultsReachFile` speaks of `met[s]` for that reason).
- A card put together from the replanner's answer is not validated: a crossover with
  one parent, or a variant of the other operator, is attempted (line 1950).
- Cancelling one coalesced caller of `verify_lean_proof` cancels the shared future: its
  siblings, and callers that arrive before the run ends, get a `CancelledError`
  although the verdict they wait for is on its way.
- A cancelled owner leaves lake and lean running, their source file unlinked, and the
  next call on the key starts a second process beside them (`OneProcessPerKey` and
  `NoOrphans` hold up to `cancelled` for that reason).
- `clear_cache` while a run is in flight would let its end pop the future of a later
  run of the key; only tests call it.
- A wall-clock time-out while a thread is starting the child lets a second
  Mathlib-loaded child come up, and the late one overwrites it in `_state`: the
  docstring's "one place" becomes one more per call that was left (`MathlibsAreBounded`).
- Zero is falsy in `reserve_budget`, `max_retries`, `target_accepted_per_generation`
  and in the cumulative count (`PreviousCount`).
- With duplicate generation-zero rows the count can fall below the lines written.
- In an exhausted slot `attempted_op_types` loses the operator of its attempts
  (history cards have no `op_type` of their own).
- `_is_plan_level_failure` compares a proof failure's signature with a history that
  already holds it, so any second proof failure is "repeated".
- The replanner's "giveup" falls through to the deterministic card; its prompt never
  says that the operator is locked; and it can use the slot's own parents only.
- The last attempt wins: an exception or a failure after a certified but weak attempt
  loses the certified one.
- The fallback plan is validated outside any `try` (line 10587).  A pool shortened by the
  offspring cap, or kin in the pool while the operator type is locked to crossovers, makes
  it raise, and the run ends.  So would a locked arm with more crossovers than the pool
  has pairs, which takes a pool of two and two crossovers (`PlanFailsOnlyWhen` says that
  nothing else does).
- The offspring cap counts rows of any status, failed ones included, although the comments
  say "accepted descendants" (lines 1168, 1209).  Roots are read from ids that keep inner
  suffixes, so a row whose first parent was a descendant does not count for that parent's
  seed, and the chain of a crossover's child continues its second parent's.  The reserve is built
  from the unfiltered pool, and its crossover falls back to kin when nobody else is left
  (line 2912).
- The fallback's mutations take every second parent: `slot + idx`, while `slot` grows too.
- A statement is entered in the index before the vacuity verdict and the judge are taken
  into account, so a row they drop still makes later ones duplicates; `note_kept_row`
  remembers rows that are then called duplicates; the judge is asked about vacuous and
  duplicate rows as well.
- Axiom closure, alignment and id are those of the text before pruning, which only has to
  elaborate (`CertifiedIsProved` asks for the closure of unpruned rows alone).  A retry whose
  statement is pruned to one that an earlier attempt of its slot registered is called a
  duplicate of it.
- Nothing compels the first `lean_code` of the generator to state its `formal_statement`; a
  repair does (`CertifiedIsProved` is conditional for that reason).
- A row is no duplicate of its own id, also where the corpus has that id: the same parent,
  operator and statement as in an earlier campaign are certified again
  (`SameTheoremSameId` allows this and nothing else).
- Concurrent slots read the kept siblings before either has noted its own, and the list
  keeps an attempt that its slot then retried, although the last attempt wins.
- A torn last line makes every later `--resume`, and `drop_unmeasured_episodes.py`, raise.
  The latter renames the file and then writes it anew: a crash between leaves none.
- The "three wasted episodes" of the abort are those of a concurrency of one; others in
  flight add to them (`WasteIsBounded`).
- Faults are told from answers in one direction only.  A row dropped as unmeasured holds
  no verdict (`OutcomeSeparatesFaults`), but an episode whose every proof met a verifier
  that failed has attempts and is filed as `attempts_exhausted`: the model's failure.
- `llama_cpp_scored_sampler` swallows its errors, so a dead tactic server looks like a
  model without an accepted step.  An exception in the middle of an episode is filed as
  `sampler_empty`, and what Lean had judged until then is dropped with it.
- The depth of the recursion in `leandojo_tree.py` is the depth of the graph; Python's
  recursion limit, which is not modelled, would end it in a long search.

## 7. Not modelled

- *Generation zero*: seeds completed in parallel under a clock.  `PoolRun` takes its result;
  what its clock does to a shared verifier is `repl_cancel`.
- *REPL pool and singleton*: a queue that hands out verifiers and a global that is created
  and closed.  `LeanRepl` is one verifier.
- *Proof evaluation orchestrator*: a grid of cells appended to a file and resumed.  `Exam`
  models the same pattern where it is most elaborate.
- *Provers other than `leandojo_*`*: bounded loops over one conversation or one beam.
- *The step-by-step exam player, rollback and inspect*: the panel's cells that are
  modelled play whole proofs.  Of `drop_unmeasured_episodes.py` the options that drop more
  than unmeasured rows are left out.
- *Quality gates* (`quality.py`) and the signals that enter `Certify` as outcomes (alignment,
  redundancy, novelty, judges): checks on one candidate's text.
- *Certificate ladder* (`levels.py` but its audit): pure functions over one record.
- *Template certification graph*: a linear graph per row that generates text.
- *Lean comparator*: one lock around sequential subprocess calls.
- *Codex CLI*: a subprocess per call, and one counter of bare failures shared by all.
- *Retrieval*, *single-answer evaluation*, *statistics*: similarity scores, caches of external
  answers, text grading.
- *Scripts, data and site*: one-shot analysis and release scripts, and data.
- Within the modelled components: prompts, feedback cards, telemetry text, numeric
  problem families and their parameters, the content of rows beyond what section 2 names.

## 8. Plan

Done: `LeanRepl`, `PoolRun`, `PoolSelect`, `PoolSlot`, `VerdictCache`, `Certify`, `Exam`,
`ProofTree` and `PoolPlan`, with their proofs.  To come, in order:

1. `PoolRun` takes its plans from `PoolPlan`, and its slots' results from `PoolSlot`.
2. **GenZero**: seeds completed in parallel under a clock, composed with `LeanRepl`'s
   cancellation.
3. **ProofEval**: the cell grid, append-and-resume, one cell's exception.
4. The step-by-step player: goal history and budget over reset, play and rollback.
5. **Certificate**: the ladder of levels.
6. **ReplPool**: the queue of verifiers and the closable singleton over `LeanService`.
