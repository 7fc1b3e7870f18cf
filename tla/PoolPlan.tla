------------------------------ MODULE PoolPlan ------------------------------
(***************************************************************************)
(* Planning of a generation: plan_generation_node, validate_pool_plan,     *)
(* deterministic_fallback_plan and the reserve items of the aggregate node *)
(* of src/src/orchestration/pool_generation.py, over the lineages that the *)
(* ids of src/src/orchestration/problem_ids.py carry from one generation   *)
(* to the next.                                                            *)
(*                                                                         *)
(* All problems are theorems to prove, the style the pipeline runs with:   *)
(* the families and canonical parameters of numeric problems, and the text *)
(* of goals, contracts and avoid patterns, are left out.                   *)
(***************************************************************************)
EXTENDS Integers, Sequences, SequencesExt, FiniteSetsExt

CONSTANTS
    Seeds,           \* the benchmark seeds, a sequence
    Survivors,       \* survivor_count: 0 or 1
    CrossoverCounts, \* the values of the crossover_count argument
    TargetAccepted,  \* target_accepted_per_generation
    ReserveBudget,   \* reserve_budget
    OffspringCap,    \* SEED_OFFSPRING_CAP
    MaxGenerations,  \* max_generations
    MaxWorked,       \* bound: generations whose slots are run
    MaxAdopted       \* bound: children a selection takes into the next pool

PoolSize == Len(Seeds)
SeedSet == Range(Seeds)

ASSUME PlanAssumption ==
    /\ Seeds \in Seq(SeedSet) /\ IsInjective(Seeds)
    /\ PoolSize \in Nat \ {0, 1} /\ Survivors \in {0, 1}
    /\ CrossoverCounts \subseteq 0..PoolSize - Survivors
    /\ TargetAccepted \in Nat \ {0} /\ ReserveBudget \in Nat \ {0}
    /\ OffspringCap \in Nat \ {0} /\ MaxGenerations \in Nat \ {0} /\ MaxWorked \in Nat

VARIABLES
    locked,          \* OP_TYPE_LOCK
    crossoverCount,  \* the run's crossover_count
    generation,
    phase,           \* plan, slots, aggregate, reserve, select, ended, failed
    pool,            \* current_generation
    rows,            \* rows[r]: how many rows on file have root r, if any has
    plan,            \* work_items, by slot
    reserve,         \* reserve_work_items
    certified        \* the generation's certified children

vars == <<locked, crossoverCount, generation, phase, pool, rows, plan, reserve, certified>>
arguments == <<locked, crossoverCount>>

\* An id is a sequence of parts joined by "__x__".  A part is a seed, with or
\* without the suffix of a row; chain and fingerprint of a suffix stand for the
\* generation and the slot the row comes from.
Bare == <<0, 0>>
Parts == [seed : SeedSet, mark : Nat \X Nat]
Seed(s) == [seed |-> s, mark |-> Bare]
SeedPool == [i \in 1..PoolSize |-> <<Seed(Seeds[i])>>]

\* The elements of a sequence that are in a set, in their order.
Kept(s, set) ==
    LET kept[i \in 0..Len(s)] ==
            IF i = 0 THEN <<>>
            ELSE IF s[i] \in set THEN Append(kept[i - 1], s[i]) ELSE kept[i - 1]
    IN kept[Len(s)]

Suffixed(id, mark) == [id EXCEPT ![Len(id)].mark = mark]
Mark(id) == id[Len(id)].mark

\* The id that a slot's parents have together, suffixes and all.
Joined(parents) == IF Len(parents) = 1 THEN parents[1] ELSE parents[1] \o parents[2]

\* Mutant of ChildId: the chain is not extended and no fingerprint made.
ChildId_Joined(parents, mark) == Joined(parents)

\* child_id, called with the one joined id: only the last suffix is replaced.
ChildId(parents, mark) == Suffixed(Joined(parents), mark)

\* roots_of strips the last suffix; those inside stay with their parts, so that
\* such a root is no seed.
RootsOf(id) == Suffixed(id, Bare)

\* _root_lineage_id
RootLineage(id) == RootsOf(id)[1]

\* Mutant of SameRootLineage: roots are compared as whole ids, as they once were.
SameRootLineage_WholeId(p, q) == p = q

\* _same_root_lineage
SameRootLineage(p, q) == RootLineage(p) = RootLineage(q)

Item(op, parents) == [op |-> op, parents |-> parents]
Generated(items) == {i \in DOMAIN items : items[i].op # "survivor"}
Crossovers(items) == {i \in DOMAIN items : items[i].op = "crossover"}
Pair(item) == Range(item.parents)

\* Suffixes inside an id are of generations before its own.
IsProblem(p) ==
    /\ p \in Seq(Parts) /\ p # <<>>
    /\ \A k \in 1..Len(p) - 1 : p[k].mark[1] < Mark(p)[1]

TypeOK ==
    /\ locked \in BOOLEAN /\ crossoverCount \in CrossoverCounts
    /\ generation \in 0..MaxGenerations
    /\ phase \in {"plan", "slots", "aggregate", "reserve", "select", "ended", "failed"}
    /\ DOMAIN pool = 1..PoolSize /\ IsInjective(pool) /\ \A p \in Range(pool) : IsProblem(p)
    /\ DOMAIN rows \subseteq Parts /\ rows \in [DOMAIN rows -> 0..OffspringCap]
    /\ \A c \in certified : IsProblem(c)
    /\ \A item \in Range(plan) \cup Range(reserve) :
          /\ item.op \in {"survivor", "mutation", "crossover"}
          /\ Pair(item) \subseteq Range(pool)
          /\ Cardinality(Pair(item)) = (IF item.op = "crossover" THEN 2 ELSE 1)
    /\ plan # <<>> => Cardinality(DOMAIN plan \ Generated(plan)) = Survivors

Init ==
    /\ locked \in BOOLEAN /\ crossoverCount \in CrossoverCounts
    /\ generation = 0 /\ phase = "plan"
    /\ pool = SeedPool
    /\ \E proved \in SUBSET SeedSet : rows = [r \in {Seed(s) : s \in proved} |-> 1]
    /\ plan = <<>> /\ reserve = <<>> /\ certified = {}

-----------------------------------------------------------------------------
\* _exhausted_seeds; the rows it counts are those of the file, of any status.
Exhausted == {r \in DOMAIN rows : rows[r] >= OffspringCap}

\* Mutant of Spent: only the first root of a parent is looked up.
Spent_FirstRoot(p) == RootLineage(p) \in Exhausted

Spent(p) == Range(RootsOf(p)) \cap Exhausted # {}

\* _drop_exhausted_parents
PlannedPool ==
    LET kept == Kept(pool, {p \in Range(pool) : ~Spent(p)}) IN IF Len(kept) >= 2 THEN kept ELSE pool

\* A crossover of one lineage becomes a mutation of its first parent.
DowngradeSameLineage(item) ==
    IF item.op = "crossover" /\ SameRootLineage(item.parents[1], item.parents[2])
    THEN Item("mutation", <<item.parents[1]>>) ELSE item

\* Mutant of Partners: a parent is crossed once, as in the fallback.
Partners_OncePerParent(first, from, pairs) ==
    {j \in DOMAIN from : /\ from[j] # first /\ ~SameRootLineage(first, from[j])
                         /\ {first, from[j]} \cap UNION pairs = {}}

\* Who a mutation's parent can be crossed with.
Partners(first, from, pairs) ==
    {j \in DOMAIN from : /\ from[j] # first /\ ~SameRootLineage(first, from[j])
                         /\ {first, from[j]} \notin pairs}

\* One item of the exploration pass.
Promote(done, i, from, wanted) ==
    LET first == done.items[i].parents[1]
        partners == Partners(first, from, done.pairs)
    IN IF done.items[i].op # "mutation" \/ done.count >= wanted \/ partners = {} THEN done
       ELSE LET pair == <<first, from[Min(partners)]>>
            IN [items |-> [done.items EXCEPT ![i] = Item("crossover", pair)],
                count |-> done.count + 1,
                pairs |-> done.pairs \cup {Range(pair)}]

\* _force_theorem_crossover_exploration: while the plan has fewer crossovers
\* than its budget, each mutation in turn takes the first parent of another
\* lineage that it has not been crossed with.
ForceCrossovers(items, from) ==
    LET wanted == Min({crossoverCount, Cardinality(Generated(items))})
        promoted[i \in 0..Len(items)] ==
            IF i = 0 THEN [items |-> items, count |-> Cardinality(Crossovers(items)),
                           pairs |-> {Pair(items[j]) : j \in Crossovers(items)}]
            ELSE Promote(promoted[i - 1], i, from, wanted)
    IN promoted[Len(items)].items

\* What validate_pool_plan makes of a plan it does not raise on ...
Normalised(items, from) ==
    LET single == [i \in DOMAIN items |-> DowngradeSameLineage(items[i])]
        forced == ForceCrossovers(single, from)
    IN [i \in DOMAIN items |-> DowngradeSameLineage(forced[i])]

\* ... and when it does not: its last checks are of the repaired plan.
Accepts(made) ==
    LET crossed == Cardinality(Crossovers(made))
    IN /\ Len(made) = PoolSize
       /\ Cardinality(DOMAIN made \ Generated(made)) = Survivors
       /\ crossed <= crossoverCount
       /\ locked => crossed = crossoverCount

\* Plans an LLM can write over the parents it is shown.  One that validation
\* raises on for its shape (slots, ids, arity, variants, patterns) is one of
\* the failures PlanFallback answers.
Proposals(from) ==
    LET ps == Range(from)
        one == {Item(op, <<p>>) : op \in {"survivor", "mutation"}, p \in ps}
        two == {Item("crossover", <<p, q>>) : p \in ps, q \in ps}
        chosen == one \cup {item \in two : Cardinality(Pair(item)) = 2}
    IN {items \in [1..PoolSize -> chosen] : Cardinality(DOMAIN items \ Generated(items)) = Survivors}

PlanGeneration ==
    /\ phase = "plan"
    /\ phase' = "slots"
    /\ plan' \in {Normalised(items, PlannedPool) : items \in Proposals(PlannedPool)}
    /\ Accepts(plan')
    /\ UNCHANGED <<arguments, generation, pool, rows, reserve, certified>>

\* Mutant of FallbackMutations: a slot short.
FallbackMutations_OneShort(n, from) ==
    [i \in 1..n - 1 |-> Item("mutation", <<from[((PoolSize - n + 2 * (i - 1)) % Len(from)) + 1]>>)]

\* `pool[(slot + idx) % len(pool)]`, and slot grows with idx.
FallbackMutations(n, from) ==
    [i \in 1..n |-> Item("mutation", <<from[((PoolSize - n + 2 * (i - 1)) % Len(from)) + 1]>>)]

\* deterministic_fallback_plan: theorem parents are crossed two by two in pool
\* order, kin or not; what is left are mutations.
FallbackPlan(from) ==
    LET survivor == IF Survivors = 1 THEN <<Item("survivor", <<from[1]>>)>> ELSE <<>>
        pairs == Min({crossoverCount, Len(from) \div 2})
        crossed == [i \in 1..pairs |-> Item("crossover", <<from[2 * i - 1], from[2 * i]>>)]
    IN survivor \o crossed \o FallbackMutations(PoolSize - Survivors - pairs, from)

\* The planner raised, or its plan was refused.  The fallback needs a full pool
\* and its plan is validated like any other: when that raises, nothing catches
\* it and the run ends.
PlanFallback ==
    /\ phase = "plan"
    /\ LET made == Normalised(FallbackPlan(PlannedPool), PlannedPool)
       IN IF Len(PlannedPool) = PoolSize /\ Accepts(made)
          THEN phase' = "slots" /\ plan' = made
          ELSE phase' = "failed" /\ plan' = plan
    /\ UNCHANGED <<arguments, generation, pool, rows, reserve, certified>>

-----------------------------------------------------------------------------
Work == plan \o reserve
Slots == IF phase = "slots" THEN Generated(plan) ELSE {Len(plan) + i : i \in DOMAIN reserve}
Survived == IF phase = "slots" THEN DOMAIN plan \ Generated(plan) ELSE {}
Child(i) == ChildId(Work[i].parents, <<generation + 1, i>>)

\* The roots of slot i's row, the same for its child and for its parents
\* together.  A row whose generation failed has a tail of its own on the joined
\* id, which no problem has for a root.
Carried(i, failed) ==
    LET id == Joined(Work[i].parents) IN IF i \in failed THEN Range(Front(id)) ELSE Range(RootsOf(id))

Count(root) == IF root \in DOMAIN rows THEN rows[root] ELSE 0

\* The tally over the rows on file and those that have the given roots.
CountedWith(roots) ==
    [root \in DOMAIN rows \cup UNION Range(roots) |->
        Min({OffspringCap, Count(root) + Cardinality({i \in DOMAIN roots : root \in roots[i]})})]

\* Every slot leaves a row, certified or not, a survivor under its parent's id.
\* A row whose statement is on file already, or of a slot that broke, is not
\* counted.
RunSlots ==
    /\ phase \in {"slots", "reserve"} /\ generation < MaxWorked
    /\ phase' = IF phase = "slots" THEN "aggregate" ELSE "select"
    /\ \E done \in SUBSET Slots, counted \in SUBSET (Slots \cup Survived) :
          \E failed \in SUBSET ((counted \cap Slots) \ done) :
             /\ certified' = certified \cup {Child(i) : i \in done}
             /\ rows' = CountedWith([i \in counted |-> Carried(i, failed)])
    /\ UNCHANGED <<arguments, generation, pool, plan, reserve>>

\* How often a root is among the parents of this generation's results.
LineageCount(p) ==
    Cardinality({i \in DOMAIN plan : \E q \in Pair(plan[i]) : SameRootLineage(p, q)})

\* Parents of the least used lineages first; the order of ids breaks ties, and
\* says nothing.
ReserveOrders ==
    {order \in [1..PoolSize -> Range(pool)] :
        /\ IsInjective(order)
        /\ \A i \in 1..PoolSize - 1 : LineageCount(order[i]) <= LineageCount(order[i + 1])}

\* Mutant of ReserveCrosses: the lock does not reach the reserve.
ReserveCrosses_Unlocked == TRUE

ReserveCrosses == ~(locked /\ crossoverCount = 0)

\* The first item crosses the first parent with the next of another lineage
\* and, when there is none, with whoever comes second.
ReserveItem(order, i) ==
    LET first == order[((i - 1) % PoolSize) + 1]
        others == {j \in DOMAIN order : order[j] # first /\ ~SameRootLineage(first, order[j])}
        second == order[IF others # {} THEN Min(others) ELSE 2]
    IN IF i = 1 /\ ReserveCrosses THEN Item("crossover", <<first, second>>)
       ELSE Item("mutation", <<first>>)

\* _build_reserve_work_items: one more item than is missing, within the budget.
Aggregate ==
    /\ phase = "aggregate"
    /\ \E graded \in 0..Cardinality(certified) :
          LET needed == Max({0, TargetAccepted - graded})
              n == IF needed > 0 THEN Min({ReserveBudget, needed + 1}) ELSE 0
          IN IF n = 0 \/ Generated(plan) = {} THEN phase' = "select" /\ reserve' = reserve
             ELSE /\ phase' = "reserve"
                  /\ \E order \in ReserveOrders : reserve' = [i \in 1..n |-> ReserveItem(order, i)]
    /\ UNCHANGED <<arguments, generation, pool, rows, plan, certified>>

\* The selector's next pool (PoolSelect's subject) is any choice from the pool
\* and the certified children; in the instances each child stands where one of
\* the old pool stood.  A parent that is kept as a backfill leaves a row whose id
\* ends in a tail of its own.
SelectNextPool ==
    /\ phase = "select"
    /\ generation' = generation + 1
    /\ phase' = IF generation' = MaxGenerations THEN "ended" ELSE "plan"
    /\ \E backfilled \in SUBSET Range(pool) :
          rows' = CountedWith([p \in backfilled |-> Range(Front(p))])
    /\ \E kept \in SUBSET certified :
          /\ Cardinality(kept) <= MaxAdopted
          /\ \E place \in [kept -> 1..PoolSize] :
                /\ \A c, d \in kept : c # d => place[c] # place[d]
                /\ pool' = [i \in 1..PoolSize |->
                      IF \E c \in kept : place[c] = i
                      THEN (CHOOSE c \in kept : place[c] = i) ELSE pool[i]]
    /\ plan' = <<>> /\ reserve' = <<>> /\ certified' = {}
    /\ UNCHANGED arguments

Next ==
    \/ PlanGeneration \/ PlanFallback \/ RunSlots \/ Aggregate \/ SelectNextPool

Spec == Init /\ [][Next]_vars
-----------------------------------------------------------------------------
(* Properties                                                               *)

Planned == phase \in {"slots", "aggregate", "reserve", "select"}

\* "Never crossover two parents with the same root lineage", whichever of the
\* planner, the fallback and the exploration pass wrote the crossover: their ids
\* differ in the first root, and two parents that no crossover is behind descend
\* from two seeds.
NoKinPlanned ==
    Planned => \A i \in Crossovers(plan) :
        LET p == plan[i].parents[1]
            q == plan[i].parents[2]
        IN RootLineage(p) # RootLineage(q) /\ (Len(p) = 1 /\ Len(q) = 1 => p[1].seed # q[1].seed)

\* A plan has fewer crossovers than its budget only when none of its mutations
\* has a parent of another lineage left to be crossed with.
CrossoverBudgetSpent ==
    phase = "slots" /\ Cardinality(Crossovers(plan)) < Min({crossoverCount, Cardinality(Generated(plan))}) =>
        \A i \in Generated(plan) \ Crossovers(plan), p \in Range(PlannedPool) :
            \/ SameRootLineage(plan[i].parents[1], p)
            \/ \E j \in Crossovers(plan) : Pair(plan[j]) = {plan[i].parents[1], p}

\* With the operator type locked every round of a generation keeps to the arm:
\* the plan crosses exactly crossover_count times, and the arm without
\* crossovers gets none from the reserve either.
LockHoldsTheArm ==
    locked /\ Planned =>
        /\ Cardinality(Crossovers(plan)) = crossoverCount
        /\ crossoverCount = 0 => Crossovers(reserve) = {}

\* Planning breaks a run only where the offspring cap left fewer parents than
\* slots, or the lock asks for crossovers and the pool has kin in it, or for
\* more of them than it has pairs.
PlanFailsOnlyWhen ==
    phase = "failed" =>
        \/ Len(PlannedPool) < PoolSize
        \/ /\ locked /\ crossoverCount > 0
           /\ \E i, j \in 1..PoolSize : i # j /\ SameRootLineage(pool[i], pool[j])
        \/ locked /\ crossoverCount > (PoolSize * (PoolSize - 1)) \div 2

\* No parent of a planned slot has a root, first or not, that as many rows on file
\* have as the cap allows, while two parents without one remain.
CapWithholds ==
    LET fresh == {p \in Range(pool) : \A root \in Range(RootsOf(p)) : Count(root) < OffspringCap}
    IN phase = "slots" /\ Cardinality(fresh) >= 2 => \A item \in Range(plan) : Pair(item) \subseteq fresh

\* "A parent and its own descendant cannot be crossed."
SeedsOf(id) == {part.seed : part \in Range(id)}
NoDescendantCrossed ==
    \A item \in Range(plan) : item.op = "crossover" =>
        SeedsOf(item.parents[1]) \cap SeedsOf(item.parents[2]) = {}
=============================================================================
