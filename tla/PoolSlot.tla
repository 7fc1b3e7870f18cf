------------------------------ MODULE PoolSlot ------------------------------
(***************************************************************************)
(* One slot worker of a generation: slot_unit_node of                      *)
(* src/src/orchestration/pool_generation.py.  It certifies a candidate     *)
(* from its OperatorCard, judges its quality, and retries: with the same   *)
(* card, or once with a card the replanner (an LLM, or the deterministic   *)
(* ladder) puts in its place.  It always answers with one result row.      *)
(*                                                                         *)
(* An attempt's outcome is abstracted to the class the retry and replan    *)
(* predicates tell apart, and its failure signature.                       *)
(*                                                                         *)
(* Names that PoolPlan has too are this module's own (SlotSpec, stage,     *)
(* opLock, ...): the theorems about the planner and about the workers of   *)
(* its plan stand in one module, PoolPlan_proofs.                          *)
(***************************************************************************)
EXTENDS Integers, Sequences, FiniteSets, Functions

CONSTANTS
    Parents,        \* the problems of the pool the slot may be planned with
    Signatures,     \* failure signatures
    MaxRetries,     \* the max_retries argument
    DefaultRetries  \* POOL_GENERATION_MAX_RETRIES

ASSUME RetriesAssumption == MaxRetries \in Nat /\ DefaultRetries \in Nat \ {0}

VARIABLES
    opLock,          \* OP_TYPE_LOCK
    planned,         \* the OperatorCard of the plan
    card,            \* the current one
    stage,
    history,         \* attempt_history, with failure_history beside it
    replans,         \* replan_count
    qualityRetries,  \* quality_retry_count
    row              \* last_result, with its telemetry; NoRow before the first

slotVars == <<opLock, planned, card, stage, history, replans, qualityRetries, row>>

MutationVariants  == {"mutation_easy", "mutation_hard", "mutation_silent"}
CrossoverVariants == {"crossover_easy", "crossover_hard"}
Variants == MutationVariants \cup CrossoverVariants \cup {"survivor"}
Ops == {"survivor", "mutation", "crossover"}
ParentLists == {<<p>> : p \in Parents} \cup (Parents \X Parents)
Cards == [op : Ops, variant : Variants, parents : ParentLists]

\* The plan's cards, as validate_pool_plan lets them through.
ValidCard(c) ==
    \/ c.op = "survivor"  /\ c.variant = "survivor" /\ Len(c.parents) = 1
    \/ c.op = "mutation"  /\ c.variant \in MutationVariants /\ Len(c.parents) = 1
    \/ /\ c.op = "crossover" /\ c.variant \in CrossoverVariants
       /\ Len(c.parents) = 2 /\ c.parents[1] # c.parents[2]

(* What an attempt comes to.                                               *)
(*   accepted      certified, nothing to retry                             *)
(*   weak          certified, but a retryable quality flag                 *)
(*   parallel      the same, by the coupling gate's verdict                *)
(*   judge_replan  the judge says the pairing is the problem               *)
(*   shape         invalid formal shape, too broad, contract failed        *)
(*   syntax        unparsable answer or Lean syntax error                  *)
(*   proof         proof or alignment failed                               *)
(*   other         any other failure the code retries                      *)
(*   refused       a failure it does not retry                             *)
(*   carried       a survivor that is not certified anew                   *)
PlanFaults   == {"parallel", "judge_replan", "shape"}
QualityFlaws == {"weak", "parallel"}
Retryable    == PlanFaults \cup QualityFlaws \cup {"syntax", "proof", "other"}
Classes      == Retryable \cup {"accepted", "refused", "carried"}

\* Only these two are compared by signature; elsewhere the class stands for it.
SignaturesOf(class) == IF class \in {"syntax", "proof"} THEN Signatures ELSE {class}

Attempts == [card : Cards, replans : 0..1, class : Classes, sig : Signatures \cup Classes]

\* quality.py: a mutation_silent card is judged without the novelty gates.
Outcomes(c) ==
    IF c.op = "survivor" THEN {"carried", "accepted"}
    ELSE Classes \ ({"carried"} \cup
            IF c.op # "crossover" \/ c.variant = "mutation_silent" THEN {"parallel"} ELSE {})

StatusOf(class) ==
    CASE class \in {"accepted"} \cup QualityFlaws -> "certified"
      [] class = "carried" -> "survivor"
      [] OTHER -> "failed"

NoRow == [status |-> "none"]
Rows == [status : {"certified", "survivor", "failed", "slot_failed"},
         op : Ops, attempted : SUBSET Ops, retries : Nat, qualityRetries : Nat,
         replans : 0..1, exhausted : BOOLEAN]

\* `int(state.get("max_retries") or DEFAULT)`; a survivor has one attempt.
Retries == IF MaxRetries = 0 THEN DefaultRetries ELSE MaxRetries
MaxAttempts == IF planned.op = "survivor" THEN 1 ELSE Retries + 1

LastAttempt == Len(history) >= MaxAttempts

SlotTypeOK ==
    /\ opLock \in BOOLEAN
    /\ planned \in Cards /\ ValidCard(planned) /\ card \in Cards
    /\ stage \in {"certify", "decide", "next", "done"}
    /\ history \in Seq(Attempts)
    /\ replans \in 0..1 /\ qualityRetries \in Nat
    /\ row \in Rows \cup {NoRow}

SlotInit ==
    /\ opLock \in BOOLEAN
    /\ planned \in {c \in Cards : ValidCard(c)}
    /\ card = planned
    /\ stage = "certify"
    /\ history = <<>> /\ replans = 0 /\ qualityRetries = 0
    /\ row = NoRow

-----------------------------------------------------------------------------
\* Certification and the quality verdict of one attempt; the attempt goes into
\* both histories before anything is decided about it.  The history cards have
\* no "op_type" of their own (it is in their operator_card), so that part of
\* attempted_op_types adds nothing.
Certify ==
    /\ stage = "certify"
    /\ stage' = "decide"
    /\ \E class \in Outcomes(card) : \E sig \in SignaturesOf(class) :
          /\ history' = Append(history, [card |-> card, replans |-> replans,
                                         class |-> class, sig |-> sig])
          /\ row' = [status |-> StatusOf(class), op |-> card.op,
                     attempted |-> {planned.op, card.op}, retries |-> Len(history),
                     qualityRetries |-> qualityRetries, replans |-> replans,
                     exhausted |-> FALSE]
    /\ UNCHANGED <<opLock, planned, card, replans, qualityRetries>>

\* Anything raised on the way becomes a slot_failed row; what earlier attempts
\* had certified is gone.
Raise ==
    /\ stage = "certify"
    /\ stage' = "done"
    /\ row' = [status |-> "slot_failed", op |-> planned.op, attempted |-> {planned.op},
               retries |-> Len(history), qualityRetries |-> qualityRetries,
               replans |-> 0, exhausted |-> TRUE]
    /\ UNCHANGED <<opLock, planned, card, history, replans, qualityRetries>>

Latest == history[Len(history)]
ShouldRetry == Latest.class \in Retryable

Settle ==
    /\ stage = "decide" /\ ~ShouldRetry
    /\ stage' = "done"
    /\ UNCHANGED <<opLock, planned, card, history, replans, qualityRetries, row>>

\* attempt_history[-3:]
Recent == {i \in DOMAIN history : i > Len(history) - 3}

\* Mutant of PlanLevelFailure: repeated proof failures are not looked at.
PlanLevelFailure_NoProof ==
    \/ Latest.class \in PlanFaults
    \/ /\ Latest.class = "syntax"
       /\ Cardinality({i \in Recent : history[i].class = "syntax"
                                         /\ history[i].sig = Latest.sig}) >= 2

\* _is_plan_level_failure.  failure_history already holds this attempt, so its
\* comparison with the last entry says only that there was an earlier attempt.
PlanLevelFailure ==
    \/ Latest.class \in PlanFaults
    \/ /\ Latest.class = "syntax"
       /\ Cardinality({i \in Recent : history[i].class = "syntax"
                                         /\ history[i].sig = Latest.sig}) >= 2
    \/ /\ Latest.class = "proof"
       /\ \/ Len(history) >= 2 /\ history[Len(history)].sig = Latest.sig
          \/ Cardinality({i \in Recent : history[i].sig = Latest.sig}) >= 2

\* Mutant of ReplanNeeded: the attempts left are not looked at.
ReplanNeeded_LastToo == replans = 0 /\ PlanLevelFailure

ReplanNeeded == replans = 0 /\ ~LastAttempt /\ PlanLevelFailure

CountedQualityRetry ==
    qualityRetries' = IF Latest.class \in QualityFlaws /\ ~LastAttempt
                      THEN qualityRetries + 1 ELSE qualityRetries

Retry ==
    /\ stage = "decide" /\ ShouldRetry /\ ~ReplanNeeded
    /\ stage' = "next"
    /\ CountedQualityRetry
    /\ UNCHANGED <<opLock, planned, card, history, replans, row>>

-----------------------------------------------------------------------------
\* _deterministic_replan_operator_card; the parent kept of a crossover is the
\* first with a proof body, so it may be either.
DeterministicCards ==
    IF card.op = "crossover"
    THEN IF opLock THEN {[card EXCEPT !.variant = "crossover_easy"]}
         ELSE {[op |-> "mutation", variant |-> "mutation_easy", parents |-> <<p>>]
                  : p \in Range(card.parents)}
    ELSE {[card EXCEPT !.variant = IF card.variant = "mutation_easy"
                                   THEN "mutation_silent" ELSE "mutation_easy"]}

\* The operator of a card the LLM proposes: the lock outranks it.
ReplannedOp(proposed) == IF opLock THEN card.op ELSE proposed

\* _llm_replan_operator_card: operator, variant and parents are each taken from
\* the answer; parents outside the slot's own leave the deterministic choice.
LLMCards ==
    {[op |-> ReplannedOp(op), variant |-> variant, parents |-> parents] :
        op \in {"mutation", "crossover"}, variant \in Variants \ {"survivor"},
        parents \in {d.parents : d \in DeterministicCards}
                        \cup {<<p>> : p \in Range(card.parents)}
                        \cup (Range(card.parents) \X Range(card.parents))}

\* A "giveup", an unparsable answer and a transport error all fall through to
\* the deterministic card.
Replan ==
    /\ stage = "decide" /\ ShouldRetry /\ ReplanNeeded
    /\ stage' = "next"
    /\ card' \in DeterministicCards \cup LLMCards
    /\ replans' = replans + 1
    /\ CountedQualityRetry
    /\ UNCHANGED <<opLock, planned, history, row>>

NextAttempt ==
    /\ stage = "next" /\ ~LastAttempt
    /\ stage' = "certify"
    /\ UNCHANGED <<opLock, planned, card, history, replans, qualityRetries, row>>

\* The last attempt is spent: attempted_op_types is rebuilt without the
\* operator of that attempt.
Exhaust ==
    /\ stage = "next" /\ LastAttempt
    /\ stage' = "done"
    /\ row' = [row EXCEPT !.exhausted = TRUE, !.attempted = {planned.op},
                          !.qualityRetries = qualityRetries, !.replans = replans]
    /\ UNCHANGED <<opLock, planned, card, history, replans, qualityRetries>>

SlotNext == Certify \/ Raise \/ Settle \/ Retry \/ Replan \/ NextAttempt \/ Exhaust

SlotSpec == SlotInit /\ [][SlotNext]_slotVars
-----------------------------------------------------------------------------
(* Properties                                                               *)

Done == stage = "done"

\* OP_TYPE_LOCK pins the arm that is measured: every attempt of a slot has the
\* operator the plan gave it, whatever the replanner answers ("the lock
\* outranks the replanner's own judgement").
LockKeepsOperator == opLock => \A i \in DOMAIN history : history[i].card.op = planned.op

\* A replanned card is tried: no slot that answered spent its one replan on a
\* card no attempt ran with, and no slot replans twice.
ReplanIsTried ==
    Done /\ row.status # "slot_failed" =>
        /\ Latest.card = card /\ Latest.replans = replans
        /\ row.replans = replans

\* "Retrying the same OperatorCard is likely anchoring on a bad plan": a card
\* whose proofs failed twice alike within three attempts is not retried while
\* the slot still has its replan.
RepetitionReplans ==
    \A i, j, k \in DOMAIN history :
        (/\ i < j /\ j < k /\ j - i <= 2
         /\ history[i].class = "proof" /\ history[j].class = "proof"
         /\ history[i].sig = history[j].sig) => history[k].replans = 1

\* The reported quality_retry_count is the number of attempts that followed a
\* certified but weak one.
QualityRetriesCounted ==
    Done /\ row.status # "slot_failed" =>
        row.qualityRetries =
            Cardinality({i \in 1..Len(history) - 1 : history[i].class \in QualityFlaws})

\* retry_exhausted, which makes the selector reject a weak row for good, is
\* reported exactly for slots whose last allowed attempt was still retryable,
\* and for those that raised.
ExhaustedMeansSpent ==
    Done => (row.exhausted <=>
        row.status = "slot_failed" \/ (Len(history) = MaxAttempts /\ ShouldRetry))

\* attempted_op_types of a slot that did not exhaust its retries names every
\* operator it ran with.
AttemptedIsHistory ==
    Done /\ ~row.exhausted => row.attempted = {history[i].card.op : i \in DOMAIN history}

\* A generated slot's history never exceeds the budget, a survivor's is one.
WithinAttempts == Len(history) <= MaxAttempts
=============================================================================
