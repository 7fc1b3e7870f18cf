------------------------------- MODULE PoolRun -------------------------------
(***************************************************************************)
(* run_pool_generation_async and the graph it invokes once per generation  *)
(* (src/src/orchestration/pool_generation.py): generation zero, planning,  *)
(* slot dispatch, aggregation with its reserve round, the save node that   *)
(* deduplicates and writes the JSONL file, and the runner's loop with its  *)
(* barren-generation guard.  The process may be killed and rerun on the    *)
(* same output file.                                                       *)
(*                                                                         *)
(* A result row is abstracted to the generation and slot that produced it, *)
(* its status, and the surface key the writer deduplicates by.  Which slots *)
(* ended with one problem id, which rows become the next pool, and what is *)
(* backfilled (PoolSelect's subject) is any choice here.                   *)
(***************************************************************************)
EXTENDS Integers, Sequences, FiniteSets, SequencesExt

CONSTANTS
    PoolSize,           \* primary slots of a generation (5 in the code)
    Survivors,          \* how many of them the plan gives to survivors
    MaxGenerations,     \* the max_generations argument
    Keys,               \* surface keys of theorem statements
    NoKey,              \* the key of a row without a statement
    GenZeroTargets,     \* seeds whose proof generation zero has to complete
    ReserveBudget,      \* the reserve_budget argument
    DefaultReserve,     \* DEFAULT_RESERVE_BUDGET
    TargetAccepted,     \* target_accepted_per_generation
    BarrenLimit,        \* BARREN_GENERATION_LIMIT
    MaxBackfills,       \* bound: parents that one selection keeps as backfills
    MaxCrashes          \* bound: how often the process is killed and rerun

ASSUME SizesAssumption ==
    /\ PoolSize \in Nat \ {0} /\ Survivors \in 0..PoolSize
    /\ MaxGenerations \in Nat \ {0} /\ GenZeroTargets \in 0..PoolSize
    /\ ReserveBudget \in Nat /\ DefaultReserve \in Nat \ {0}
    /\ TargetAccepted \in Nat \ {0} /\ BarrenLimit \in Nat \ {0}
    /\ MaxBackfills \in Nat /\ MaxCrashes \in Nat
ASSUME KeysAssumption == NoKey \notin Keys

VARIABLES
    phase,        \* where the run is
    generation,   \* state["generation_count"]
    pending,      \* state["all_passed_results"]: rows waiting for the next save
    count,        \* state["all_passed_results_count"], the cumulative count
    work,         \* work[s]: the op type of slot s, for the slots dispatched
    outputs,      \* outputs[s]: the result of slot s, for the slots finished
    met,          \* met[s]: the slot whose result stands for the problem id of s
    results,      \* state["results"]: the final rows of the generation
    reserveDone,  \* state["reserve_round_done"]
    survival,     \* generation_survival_status
    store,        \* refs held by _RUNTIME_RESULT_STORE
    resultsRef,   \* state["results_ref"] names a stored list of results
    certified,    \* summary["counts"] has a certified entry
    streak,       \* barren_streak
    file,         \* the lines of the output file
    fileExists,
    base,         \* lines the file had when this run started
    crashes,
    answered      \* history: generations a generated slot got an answer in

channels == <<generation, pending, count, work, outputs, met, results, reserveDone, survival>>
runner   == <<streak, base, crashes, answered>>
disk     == <<file, fileExists>>
vars     == <<phase, channels, store, resultsRef, certified, runner, disk>>

Phases == {"start", "plan", "slots", "save", "decide", "ended", "barren", "failed"}
Statuses == {"certified", "failed", "silent", "survivor"}
Torn == [gen |-> -1, slot |-> -1, status |-> "torn", key |-> NoKey]
Rows == [gen : 0..MaxGenerations, slot : Nat, status : Statuses, key : Keys \cup {NoKey}]
Complete == {"complete", "complete_with_backfill"}

\* What a slot can end with: a generated slot certifies a theorem, fails with
\* or without a statement, or never hears from the provider ("silent"); a
\* survivor slot re-certifies its parent or fails to.
Results(op) ==
    IF op = "survivor"
    THEN [status : {"survivor", "failed"}, key : Keys]
    ELSE [status : {"certified"}, key : Keys]
            \cup [status : {"failed"}, key : Keys \cup {NoKey}]
            \cup [status : {"silent"}, key : {NoKey}]

ResultsKey == -1   \* the ref of a generation's result list in the store

NoSlots == [s \in {} |-> <<>>]

TypeOK ==
    /\ phase \in Phases
    /\ generation \in 0..MaxGenerations
    /\ pending \in Seq(Rows) /\ count \in Int
    /\ \A s \in DOMAIN outputs : s \in DOMAIN work /\ outputs[s] \in Results(work[s])
    /\ met \in [DOMAIN met -> DOMAIN outputs] /\ results \in Seq(Rows)
    /\ reserveDone \in BOOLEAN /\ resultsRef \in BOOLEAN
    /\ certified \in BOOLEAN /\ fileExists \in BOOLEAN
    /\ survival \in Complete \cup {"partial"}
    /\ streak \in 0..BarrenLimit
    /\ file \in Seq(Rows \cup {Torn})
    /\ base \in Nat /\ crashes \in 0..MaxCrashes
    /\ answered \subseteq 1..MaxGenerations

Init ==
    /\ phase = "start" /\ generation = 0 /\ pending = <<>> /\ count = 0
    /\ work = NoSlots /\ outputs = NoSlots /\ met = NoSlots /\ results = <<>>
    /\ reserveDone = FALSE
    /\ survival = "partial" /\ store = {} /\ resultsRef = FALSE
    /\ certified = FALSE /\ streak = 0 /\ answered = {}
    /\ file = <<>> /\ fileExists = FALSE /\ base = 0 /\ crashes = 0

-----------------------------------------------------------------------------
\* Generation zero leaves one row per target seed in all_passed_results.
GenerationZero ==
    /\ phase = "start"
    /\ phase' = "plan"
    /\ \E done \in [1..GenZeroTargets -> [status : {"certified", "failed"}, key : Keys]] :
          pending' = [i \in 1..GenZeroTargets |->
              [gen |-> 0, slot |-> i - 1, status |-> done[i].status, key |-> done[i].key]]
    /\ count' = GenZeroTargets
    /\ base' = Len(file)
    /\ UNCHANGED <<generation, work, outputs, met, results, reserveDone, survival, store, resultsRef,
                   certified, streak, crashes, answered, disk>>

\* The runner resets the per-generation channels and the planner (or its
\* deterministic fallback) fills the primary slots.
PlanGeneration ==
    /\ phase = "plan"
    /\ phase' = "slots"
    /\ \E kept \in SUBSET (0..PoolSize - 1) :
          /\ Cardinality(kept) = Survivors
          /\ work' = [s \in 0..PoolSize - 1 |-> IF s \in kept THEN "survivor" ELSE "generated"]
    /\ outputs' = NoSlots /\ met' = NoSlots /\ results' = <<>>
    /\ reserveDone' = FALSE
    /\ certified' = FALSE
    /\ UNCHANGED <<generation, pending, count, survival, store, resultsRef, runner, disk>>

\* Mutant of SlotUnit: the second dispatch sends no reserve item.
SlotUnit_PrimaryOnly(s) ==
    /\ phase = "slots" /\ s \in DOMAIN work \ DOMAIN outputs /\ s < PoolSize
    /\ \E r \in Results(work[s]) :
          /\ outputs' = [x \in DOMAIN outputs \cup {s} |-> IF x = s THEN r ELSE outputs[x]]
          /\ answered' = IF work[s] = "generated" /\ r.status # "silent"
                         THEN answered \cup {generation + 1} ELSE answered
    /\ store' = store \cup {s}
    /\ UNCHANGED <<phase, generation, pending, count, work, met, results, reserveDone, survival,
                   resultsRef, certified, streak, base, crashes, disk>>

\* A slot worker ends; its result goes to the runtime store under a fresh ref.
SlotUnit(s) ==
    /\ phase = "slots" /\ s \in DOMAIN work \ DOMAIN outputs
    /\ \E r \in Results(work[s]) :
          /\ outputs' = [x \in DOMAIN outputs \cup {s} |-> IF x = s THEN r ELSE outputs[x]]
          /\ answered' = IF work[s] = "generated" /\ r.status # "silent"
                         THEN answered \cup {generation + 1} ELSE answered
    /\ store' = store \cup {s}
    /\ UNCHANGED <<phase, generation, pending, count, work, met, results, reserveDone, survival,
                   resultsRef, certified, streak, base, crashes, disk>>

AllDone   == phase = "slots" /\ DOMAIN outputs = DOMAIN work
Generated == {s \in DOMAIN outputs : work[s] = "generated"}

\* `int(state.get("reserve_budget") or DEFAULT_RESERVE_BUDGET)`
Budget == IF ReserveBudget = 0 THEN DefaultReserve ELSE ReserveBudget

\* min(budget, needed + 1) slots when `accepted` of them reached accepted grade.
ReserveCount(accepted) ==
    LET needed == TargetAccepted - accepted
    IN  IF needed <= 0 THEN 0 ELSE IF Budget < needed + 1 THEN Budget ELSE needed + 1

Accepted == {n \in 0..Cardinality(DOMAIN work) :
                n <= Cardinality({s \in Generated : outputs[s].status = "certified"})}

\* Aggregation schedules the reserve round: at most once per generation, and
\* only if something was generated.
Reserve ==
    /\ AllDone /\ ~reserveDone /\ Generated # {}
    /\ \E n \in Accepted :
          /\ ReserveCount(n) > 0
          /\ work' = [s \in 0..PoolSize + ReserveCount(n) - 1 |->
                         IF s < PoolSize THEN work[s] ELSE "generated"]
    /\ reserveDone' = TRUE
    /\ UNCHANGED <<phase, generation, pending, count, outputs, met, results, survival, store,
                   resultsRef, certified, runner, disk>>

RowOf(gen, s) == [gen |-> gen, slot |-> s, status |-> outputs[s].status, key |-> outputs[s].key]

\* Parent, operator and the fingerprint of a statement (or of its absence) make
\* the problem id of a row, so slots of one kind can share one.
\* updated_by_problem_id gives each of them the result that the selector met
\* first, by a decision that named its slot or in slot order.
FirstMet ==
    {m \in [DOMAIN outputs -> DOMAIN outputs] : \A s \in DOMAIN outputs :
        /\ work[m[s]] = work[s]
        /\ outputs[m[s]].key = NoKey <=> outputs[s].key = NoKey
        /\ m[m[s]] = m[s]}

\* The indices in S, in increasing order (a set of one sequence).
InOrder(S) ==
    {k \in [1..Cardinality(S) -> S] : \A m, n \in 1..Cardinality(S) : m < n => k[m] < k[n]}

\* sorted() by slot, which is stable (a set of one sequence).
Sorted(rows) ==
    LET Before(i, j) == rows[i].slot < rows[j].slot \/ (rows[i].slot = rows[j].slot /\ i < j)
    IN {[n \in DOMAIN rows |-> rows[order[n]]] :
           order \in {order \in Surjection(DOMAIN rows, DOMAIN rows) :
                        \A m, n \in DOMAIN rows : m < n => Before(order[m], order[n])}}

\* The final rows: those of the slots and one for each parent that is kept as a
\* backfill, in the place of the pool it fills.
Finals(gen, m, surface) ==
    UNION {Sorted([i \in 1..Cardinality(DOMAIN outputs) |-> RowOf(gen, m[i - 1])]
                  \o [i \in DOMAIN k |-> [gen |-> gen, slot |-> k[i], status |-> "survivor",
                                          key |-> surface[k[i]]]]) :
           k \in InOrder(DOMAIN surface)}

\* Aggregation selects the next pool and stores the results under results_ref.
Aggregate ==
    /\ AllDone
    /\ reserveDone \/ Generated = {} \/ \E n \in Accepted : ReserveCount(n) = 0
    /\ phase' = "save"
    /\ generation' = generation + 1
    /\ survival' \in Complete \cup {"partial"}
    /\ met' \in FirstMet
    /\ \E places \in SUBSET (0..PoolSize - 1) :
          /\ Cardinality(places) <= MaxBackfills
          /\ survival' = "complete" => places = {}
          /\ survival' = "complete_with_backfill" => places # {}
          /\ \E surface \in [places -> Keys] : results' \in Finals(generation + 1, met', surface)
    /\ store' = store \cup {ResultsKey}
    /\ resultsRef' = TRUE
    /\ UNCHANGED <<pending, count, work, outputs, reserveDone, certified, runner, disk>>

-----------------------------------------------------------------------------
(* 06_save_generation                                                       *)

\* The generation's rows after the pending ones.
RowsToWrite == pending \o results

\* state.get("all_passed_results_count") or len(pending_previous_results): a
\* count of zero reads as absent.
PreviousCount == IF count = 0 THEN Len(pending) ELSE count

AppendOnly == fileExists /\ pending = <<>>

\* The keys save_generation_node reads back before it appends.
OnDisk == IF AppendOnly THEN {file[i].key : i \in DOMAIN file} ELSE {}

\* Mutants of Repeats: only the lines of this run are read back; rows of every
\* status are dropped as repeats.
Repeats_ThisRunOnly(rows) ==
    {i \in DOMAIN rows : rows[i].status = "certified" /\
        \/ rows[i].key \in {file[j].key : j \in {x \in DOMAIN file : x > base}}
        \/ \E j \in 1..i - 1 : rows[j].status = "certified" /\ rows[j].key = rows[i].key}

Repeats_AnyStatus(rows) ==
    {i \in DOMAIN rows :
        rows[i].key \in OnDisk \/ \E j \in 1..i - 1 : rows[j].key = rows[i].key}

\* A certified row is a repeat if its key is on disk (whatever the status of
\* the row that has it) or an earlier certified row of this batch has it.
Repeats(rows) ==
    {i \in DOMAIN rows : rows[i].status = "certified" /\
        \/ rows[i].key \in OnDisk
        \/ \E j \in 1..i - 1 : rows[j].status = "certified" /\ rows[j].key = rows[i].key}

\* The rows left when the repeats are dropped (a set of one sequence).
Deduplicated(rows) ==
    {[n \in DOMAIN k |-> rows[k[n]]] : k \in InOrder(DOMAIN rows \ Repeats(rows))}

\* A line torn by an earlier crash makes json.loads raise: the run dies here.
SaveRaises ==
    /\ phase = "save" /\ AppendOnly /\ \E i \in DOMAIN file : file[i] = Torn
    /\ phase' = "failed"
    /\ store' = {}
    /\ resultsRef' = FALSE
    /\ UNCHANGED <<channels, certified, runner, disk>>

\* Mutants of Save: the summary counts the rows before deduplication; the
\* stored result list is left behind.
Save_CountsProduced ==
    /\ phase = "save" /\ ~(AppendOnly /\ \E i \in DOMAIN file : file[i] = Torn)
    /\ phase' = "decide"
    /\ \E written \in Deduplicated(RowsToWrite) :
          file' = IF AppendOnly THEN file \o written ELSE written
    /\ count' = PreviousCount - Len(pending) + Len(RowsToWrite)
    /\ fileExists' = TRUE
    /\ certified' = \E i \in DOMAIN results : results[i].status = "certified"
    /\ store' = (store \ DOMAIN outputs) \ {ResultsKey}
    /\ resultsRef' = FALSE
    /\ UNCHANGED <<generation, pending, work, outputs, met, results, reserveDone, survival, runner>>

Save_LeavesResults ==
    /\ phase = "save" /\ ~(AppendOnly /\ \E i \in DOMAIN file : file[i] = Torn)
    /\ phase' = "decide"
    /\ \E written \in Deduplicated(RowsToWrite) :
          /\ file' = IF AppendOnly THEN file \o written ELSE written
          /\ count' = PreviousCount - Len(pending) + Len(written)
    /\ fileExists' = TRUE
    /\ certified' = \E i \in DOMAIN results : results[i].status = "certified"
    /\ store' = store \ DOMAIN outputs
    /\ resultsRef' = FALSE
    /\ UNCHANGED <<generation, pending, work, outputs, met, results, reserveDone, survival, runner>>

\* The rows are appended, or replace the file when rows are pending.  The node
\* returns all_passed_results = [] but the runner does not take that key back,
\* so `pending` keeps its rows; results_ref does come back empty.
Save ==
    /\ phase = "save" /\ ~(AppendOnly /\ \E i \in DOMAIN file : file[i] = Torn)
    /\ phase' = "decide"
    /\ \E written \in Deduplicated(RowsToWrite) :
          /\ file' = IF AppendOnly THEN file \o written ELSE written
          /\ count' = PreviousCount - Len(pending) + Len(written)
    /\ fileExists' = TRUE
    /\ certified' = \E i \in DOMAIN results : results[i].status = "certified"
    /\ store' = (store \ DOMAIN outputs) \ {ResultsKey}
    /\ resultsRef' = FALSE
    /\ UNCHANGED <<generation, pending, work, outputs, met, results, reserveDone, survival, runner>>

-----------------------------------------------------------------------------
(* The runner, after graph.ainvoke                                          *)

\* _state_results: the stored list if results_ref names one; else the channel
\* "results", which the runner itself reset to [] and is not an output key.
StateResults == IF resultsRef THEN results ELSE <<>>

\* _generation_produced_nothing
ProducedNothing ==
    /\ ~certified
    /\ \/ StateResults = <<>>
       \/ /\ \A i \in DOMAIN StateResults : StateResults[i].status \in {"silent", "survivor"}
          /\ \E i \in DOMAIN StateResults : StateResults[i].status = "silent"

GoOn == phase' = IF generation = MaxGenerations THEN "ended" ELSE "plan"

\* Mutant of Decide: the streak forgets the previous generation.
Decide_StreakForgets ==
    /\ phase = "decide"
    /\ \/ survival \notin Complete /\ phase' = "ended" /\ streak' = streak
       \/ survival \in Complete /\ ~ProducedNothing /\ GoOn /\ streak' = 0
       \/ /\ survival \in Complete /\ ProducedNothing /\ streak' = 1
          /\ IF streak' >= BarrenLimit THEN phase' = "barren" ELSE GoOn
    /\ UNCHANGED <<channels, store, resultsRef, certified, base, crashes, answered, disk>>

\* A pool that could not be filled ends the run; BarrenLimit generations in a
\* row that produced nothing halt it; else the next generation is planned.
Decide ==
    /\ phase = "decide"
    /\ \/ survival \notin Complete /\ phase' = "ended" /\ streak' = streak
       \/ survival \in Complete /\ ~ProducedNothing /\ GoOn /\ streak' = 0
       \/ /\ survival \in Complete /\ ProducedNothing /\ streak' = streak + 1
          /\ IF streak + 1 >= BarrenLimit THEN phase' = "barren" ELSE GoOn
    /\ UNCHANGED <<channels, store, resultsRef, certified, base, crashes, answered, disk>>

-----------------------------------------------------------------------------
(* The process is killed; the same command is run again on the same file.   *)

Running == phase \in {"plan", "slots", "save", "decide"}

Restart ==
    /\ phase' = "start" /\ generation' = 0 /\ pending' = <<>> /\ count' = 0
    /\ work' = NoSlots /\ outputs' = NoSlots /\ met' = NoSlots /\ results' = <<>>
    /\ reserveDone' = FALSE
    /\ survival' = "partial" /\ store' = {} /\ resultsRef' = FALSE
    /\ certified' = FALSE /\ streak' = 0 /\ answered' = {}
    /\ crashes' = crashes + 1

Crash ==
    /\ Running /\ crashes < MaxCrashes
    /\ Restart
    /\ UNCHANGED <<disk, base>>

\* Killed while the rows are being written: some lines, the last maybe torn.
CrashInSave ==
    /\ phase = "save" /\ crashes < MaxCrashes
    /\ ~(AppendOnly /\ \E i \in DOMAIN file : file[i] = Torn)
    /\ \E written \in Deduplicated(RowsToWrite) :
          \E n \in 0..Len(written) - 1, tail \in {<<>>, <<Torn>>} :
              file' = (IF AppendOnly THEN file ELSE <<>>) \o SubSeq(written, 1, n) \o tail
    /\ fileExists' = TRUE
    /\ Restart
    /\ UNCHANGED base

Next ==
    \/ GenerationZero \/ PlanGeneration
    \/ \E s \in 0..PoolSize + DefaultReserve + ReserveBudget : SlotUnit(s)
    \/ Reserve \/ Aggregate \/ SaveRaises \/ Save \/ Decide
    \/ Crash \/ CrashInSave

\* Every step of the run itself is taken (slots return: they are bounded by
\* their provider's time-outs); crashes need not happen.
Spec ==
    /\ Init /\ [][Next]_vars
    /\ WF_vars(GenerationZero \/ PlanGeneration \/ Reserve \/ Aggregate
               \/ SaveRaises \/ Save \/ Decide
               \/ \E s \in 0..PoolSize + DefaultReserve + ReserveBudget : SlotUnit(s))
-----------------------------------------------------------------------------
(* Properties                                                               *)

\* The corpus holds a theorem once: no two certified lines of the file have
\* the same surface, across slots, generations and reruns on the same file
\* (save_generation_node: "keeping both inflates the corpus").
CertifiedOnce ==
    \A i, j \in DOMAIN file :
        i # j /\ file[i].status = "certified" /\ file[j].status = "certified"
            => file[i].key # file[j].key

\* The cumulative count reported with a generation is the number of lines the
\* run has put on disk ("count what was written, not what was produced").
CountMatchesFile ==
    phase \in {"plan", "decide"} /\ generation > 0 => count = Len(file) - base

\* What is on disk stays on disk: the file only ever grows at its end.
FileGrows == [][IsPrefix(file, file')]_disk

\* Once a generation is saved, no problem id that a slot ended with is missing:
\* the row that stands for it is in the file, or is certified and a line with
\* its surface already was.
ResultsReachFile ==
    phase = "decide" =>
        \A s \in DOMAIN outputs :
            \/ \E i \in DOMAIN file : file[i] = RowOf(generation, met[s])
            \/ /\ outputs[met[s]].status = "certified"
               /\ \E i \in DOMAIN file : file[i].key = outputs[met[s]].key

\* A row dropped as "certified row(s) already present" has a certified row on
\* disk with its surface: no proved theorem is missing from the file.
CertifiedReachFile ==
    phase = "decide" =>
        \A s \in DOMAIN outputs : outputs[s].status = "certified" =>
            \E i \in DOMAIN file :
                file[i].status = "certified" /\ file[i].key = outputs[s].key

\* The barren guard never stops a run in which a generated slot of the last
\* BarrenLimit generations got a real answer (_generation_produced_nothing:
\* "a fact about the pool and must not stop the run").
LastGenerations == {g \in 1..generation : g > generation - BarrenLimit}
BarrenHaltIsSilence == phase = "barren" => answered \cap LastGenerations = {}

\* ... and never one whose last generation has a certified theorem in its rows.
BarrenHaltUncertified ==
    phase = "barren" => \A i \in DOMAIN results : results[i].status # "certified"

\* A provider that stops answering cannot burn the rest of the budget: no
\* generation is planned after BarrenLimit silent ones in a row.
SilenceStopsTheRun ==
    [][phase = "plan" /\ phase' = "slots" /\ generation >= BarrenLimit
          => answered \cap LastGenerations # {}]_vars

\* --reserve-budget is the "maximum reserve generated slots" of a generation.
ReserveWithinBudget == Cardinality(DOMAIN work) <= PoolSize + ReserveBudget

\* No result outlives the save of its generation in the in-process store, and
\* every ref that is still to be read is there (else "missing slot result ref").
StoreFollowsRefs ==
    /\ phase \in {"plan", "decide", "ended", "barren"} => store = {}
    /\ phase = "slots" => store = DOMAIN outputs

\* The run ends, whatever is selected and however often it is killed.
RunEnds == <>[](phase \in {"ended", "barren", "failed"})
=============================================================================
