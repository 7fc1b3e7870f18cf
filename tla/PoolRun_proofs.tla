--------------------------- MODULE PoolRun_proofs ---------------------------
(***************************************************************************)
(* Proofs about PoolRun, for every pool size, number of generations,       *)
(* budget, and number of crashes.                                          *)
(***************************************************************************)
EXTENDS PoolRun, FiniteSetTheorems, SequenceTheorems, TLAPS

Lines == Rows \cup {Torn}
HasCertified == \E s \in DOMAIN outputs : outputs[s].status = "certified"
RowsCertified == \E i \in DOMAIN results : results[i].status = "certified"

\* The slots dispatched are an initial segment of the naturals: the primary
\* ones, then as many reserve slots as the budget allows.
WorkInv ==
    /\ \E n \in 0..PoolSize + Budget :
          /\ work \in [0..n - 1 -> {"survivor", "generated"}]
          /\ phase = "slots" => n >= PoolSize /\ (~reserveDone => n = PoolSize)
    /\ phase \in {"save", "decide"} => DOMAIN outputs = DOMAIN work

\* The runner's loop goes on only below both of its limits.
LoopInv ==
    /\ phase \in {"start", "plan", "slots"} => generation < MaxGenerations
    /\ phase \in {"start", "plan", "slots", "save", "decide"} => streak < BarrenLimit

\* Results are named by results_ref between aggregation and save only, so the
\* barren guard sees nothing but the certified count.
ResultInv ==
    /\ resultsRef <=> phase = "save"
    /\ phase = "decide" => (certified <=> RowsCertified)
    /\ phase = "barren" => ~RowsCertified

\* The final rows hold one for every id that a slot ended with, and none is
\* certified that no slot certified.
RowInv ==
    phase \in {"save", "decide"} =>
        /\ met \in [DOMAIN outputs -> DOMAIN outputs]
        /\ \A s \in DOMAIN outputs : \E i \in DOMAIN results : results[i] = RowOf(generation, met[s])
        /\ RowsCertified => HasCertified

StoreInv ==
    /\ phase = "slots" => store = DOMAIN outputs
    /\ phase = "save" => store = DOMAIN outputs \cup {ResultsKey}
    /\ phase \notin {"slots", "save"} => store = {}

FileInv == CertifiedOnce /\ (~fileExists => file = <<>>)

\* Without generation-zero targets nothing is ever pending, the file is only
\* appended to, and the count follows it.
CountInv ==
    GenZeroTargets = 0 =>
        /\ pending = <<>>
        /\ phase \notin {"start", "failed"} => count = Len(file) - base

\* The streak is at least the number of silent generations the last decision
\* ended with; and a certified result is an answer.
SilentSince(g, n) == \A x \in g - n + 1..g : x \notin answered
SilenceInv ==
    /\ phase \in {"plan", "slots"} =>
          \A n \in 1..generation : SilentSince(generation, n) => streak >= n
    /\ phase \in {"save", "decide"} =>
          \A n \in 1..generation - 1 : SilentSince(generation - 1, n) => streak >= n
    /\ phase = "start" => generation = 0
    /\ phase \in {"save", "decide"} => generation >= 1
    /\ phase = "slots" /\ HasCertified => generation + 1 \in answered
    /\ phase \in {"save", "decide"} /\ HasCertified => generation \in answered

RunInv ==
    TypeOK /\ WorkInv /\ LoopInv /\ ResultInv /\ RowInv /\ StoreInv /\ FileInv
           /\ CountInv /\ SilenceInv

-----------------------------------------------------------------------------
(* What the save node writes.                                               *)

\* No two certified lines of f have one surface.
Once(f) ==
    \A i, j \in DOMAIN f :
        i # j /\ f[i].status = "certified" /\ f[j].status = "certified" => f[i].key # f[j].key

LEMMA BudgetType == Budget \in Nat \ {0}
  BY SizesAssumption DEF Budget

\* The slots of a finished generation are 0, 1, ..., n - 1.
LEMMA OutputSlots ==
    ASSUME RunInv, DOMAIN outputs = DOMAIN work
    PROVE  \E n \in Nat : DOMAIN outputs = 0..n - 1 /\ Cardinality(DOMAIN outputs) = n
<1>1. PICK n \in 0..PoolSize + Budget : work \in [0..n - 1 -> {"survivor", "generated"}]
  BY DEF RunInv, WorkInv
<1>2. DOMAIN outputs = 0..n - 1 /\ n \in Nat
  BY <1>1, BudgetType, SizesAssumption
<1>3. Cardinality(0..n - 1) = IF 0 > n - 1 THEN 0 ELSE n - 1 - 0 + 1
  BY <1>2, FS_Interval
<1> QED
  BY <1>2, <1>3

LEMMA RowType ==
    ASSUME RunInv, NEW gen \in 0..MaxGenerations, NEW s \in DOMAIN outputs
    PROVE  RowOf(gen, s) \in Rows
<1>1. s \in Nat /\ work[s] \in {"survivor", "generated"}
  BY BudgetType, SizesAssumption DEF RunInv, WorkInv, TypeOK
<1>2. outputs[s] \in Results(work[s])
  BY DEF RunInv, TypeOK
<1>3. outputs[s].status \in Statuses /\ outputs[s].key \in Keys \cup {NoKey}
  BY <1>1, <1>2 DEF Results, Statuses
<1> QED
  BY <1>1, <1>3 DEF RowOf, Rows

\* Sorting keeps every row and adds none.
LEMMA SortKeeps ==
    ASSUME NEW rows \in Seq(Rows), NEW r \in Sorted(rows)
    PROVE  /\ r \in Seq(Rows)
           /\ \A i \in DOMAIN rows : \E n \in DOMAIN r : r[n] = rows[i]
           /\ \A n \in DOMAIN r : \E i \in DOMAIN rows : r[n] = rows[i]
<1>1. PICK order \in Surjection(DOMAIN rows, DOMAIN rows) : r = [n \in DOMAIN rows |-> rows[order[n]]]
  BY DEF Sorted
<1>2. /\ order \in [DOMAIN rows -> DOMAIN rows]
      /\ \A i \in DOMAIN rows : \E n \in DOMAIN rows : order[n] = i
  BY <1>1 DEF Surjection
<1>3. DOMAIN rows = 1..Len(rows) /\ Len(rows) \in Nat /\ \A i \in DOMAIN rows : rows[i] \in Rows
  OBVIOUS
<1>4. r \in Seq(Rows)
  <2>1. r = [n \in 1..Len(rows) |-> rows[order[n]]] /\ \A n \in 1..Len(rows) : rows[order[n]] \in Rows
    BY <1>1, <1>2, <1>3
  <2> QED
    BY <2>1, <1>3
<1> QED
  BY <1>1, <1>2, <1>4

\* The final rows of a finished generation: well formed, one for every slot (of
\* the slot met first with its id), and certified only if a slot's result is.
LEMMA FinalRows ==
    ASSUME RunInv, DOMAIN outputs = DOMAIN work, NEW gen \in 0..MaxGenerations, NEW m \in FirstMet,
           NEW places \in SUBSET (0..PoolSize - 1), NEW surface \in [places -> Keys],
           NEW r \in Finals(gen, m, surface)
    PROVE  /\ r \in Seq(Rows)
           /\ \A s \in DOMAIN outputs : \E i \in DOMAIN r : r[i] = RowOf(gen, m[s])
           /\ \A i \in DOMAIN r : r[i].status = "certified" => HasCertified
<1>1. PICK n \in Nat : DOMAIN outputs = 0..n - 1 /\ Cardinality(DOMAIN outputs) = n
  BY OutputSlots
<1>2. m \in [DOMAIN outputs -> DOMAIN outputs]
  BY DEF FirstMet
<1> DEFINE own == [i \in 1..n |-> RowOf(gen, m[i - 1])]
           backfill(k) == [i \in DOMAIN k |-> [gen |-> gen, slot |-> k[i], status |-> "survivor",
                                               key |-> surface[k[i]]]]
<1>3. PICK k \in InOrder(places) : r \in Sorted(own \o backfill(k))
  BY <1>1 DEF Finals
<1>4. own \in Seq(Rows) /\ DOMAIN own = 1..n /\ Len(own) = n
  <2>1. \A i \in 1..n : RowOf(gen, m[i - 1]) \in Rows
    BY <1>1, <1>2, RowType
  <2> QED
    BY <2>1
<1>5. /\ backfill(k) \in Seq(Rows)
      /\ \A i \in DOMAIN backfill(k) : backfill(k)[i].status = "survivor"
  <2>1. PICK c \in Nat : c = Cardinality(places)
    <3>1. IsFiniteSet(0..PoolSize - 1)
      BY SizesAssumption, FS_Interval
    <3> QED
      BY <3>1, FS_Subset, FS_CardinalityType
  <2>2. k \in [1..c -> places]
    BY <2>1 DEF InOrder
  <2>3. ASSUME NEW i \in 1..c
        PROVE  k[i] \in Nat /\ surface[k[i]] \in Keys
    <3>1. k[i] \in places /\ 0..PoolSize - 1 \subseteq Nat
      BY <2>2, SizesAssumption
    <3> QED
      BY <3>1
  <2>4. \A i \in 1..c : [gen |-> gen, slot |-> k[i], status |-> "survivor",
                         key |-> surface[k[i]]] \in Rows
    BY <2>3 DEF Rows, Statuses
  <2> QED
    BY <2>2, <2>4
<1>6. ASSUME NEW i \in 1..n
      PROVE  own[i].status = "certified" => HasCertified
  <2>1. m[i - 1] \in DOMAIN outputs /\ own[i].status = outputs[m[i - 1]].status
    BY <1>1, <1>2 DEF RowOf
  <2> QED
    BY <2>1 DEF HasCertified
<1>7. ASSUME NEW s \in DOMAIN outputs
      PROVE  s + 1 \in 1..n /\ own[s + 1] = RowOf(gen, m[s])
  <2>1. PICK i \in 1..n : i = s + 1 /\ i - 1 = s
    BY <1>1
  <2>2. own[i] = RowOf(gen, m[i - 1])
    OBVIOUS
  <2> QED
    BY <2>1, <2>2
<1> DEFINE b == backfill(k)
<1>8. b \in Seq(Rows) /\ \A i \in DOMAIN b : b[i].status = "survivor"
  BY <1>5
<1>9. r \in Sorted(own \o b)
  BY <1>3
<1> HIDE DEF own, backfill, b
<1>10. /\ own \o b \in Seq(Rows)
       /\ DOMAIN (own \o b) = 1..Len(own) + Len(b) /\ Len(b) \in Nat
       /\ \A i \in 1..Len(own) + Len(b) :
             (own \o b)[i] = IF i <= Len(own) THEN own[i] ELSE b[i - Len(own)]
  <2>1. own \in Seq(Rows) /\ b \in Seq(Rows)
    BY <1>4, <1>8
  <2> QED
    BY <2>1, ConcatProperties
<1>11. /\ r \in Seq(Rows)
       /\ \A i \in DOMAIN (own \o b) : \E x \in DOMAIN r : r[x] = (own \o b)[i]
       /\ \A x \in DOMAIN r : \E i \in DOMAIN (own \o b) : r[x] = (own \o b)[i]
  BY <1>9, <1>10, SortKeeps
<1>12. ASSUME NEW s \in DOMAIN outputs
       PROVE  \E i \in DOMAIN r : r[i] = RowOf(gen, m[s])
  <2>1. s + 1 \in DOMAIN (own \o b) /\ (own \o b)[s + 1] = RowOf(gen, m[s])
    BY <1>4, <1>7, <1>10
  <2> QED
    BY <1>11, <2>1
<1>13. ASSUME NEW x \in DOMAIN r, r[x].status = "certified"
       PROVE  HasCertified
  <2>1. PICK i \in 1..Len(own) + Len(b) : r[x] = (own \o b)[i]
    BY <1>10, <1>11
  <2>2. CASE i <= Len(own)
    BY <1>4, <1>6, <1>10, <1>13, <2>1, <2>2
  <2>3. CASE i > Len(own)
    <3>1. i - Len(own) \in DOMAIN b
      BY <1>4, <1>8, <1>10, <2>1, <2>3
    <3> QED
      BY <1>4, <1>8, <1>10, <1>13, <2>1, <2>3, <3>1
  <2> QED
    BY <1>4, <1>10, <2>1, <2>2, <2>3
<1> QED
  BY <1>11, <1>12, <1>13

\* The rows of an aggregation.
LEMMA AggregateRows ==
    ASSUME RunInv, Aggregate
    PROVE  /\ results' \in Seq(Rows) /\ met' \in [DOMAIN outputs -> DOMAIN outputs]
           /\ \A s \in DOMAIN outputs : \E i \in DOMAIN results' :
                 results'[i] = RowOf(generation + 1, met'[s])
           /\ \A i \in DOMAIN results' : results'[i].status = "certified" => HasCertified
<1>1. met' \in FirstMet /\ DOMAIN outputs = DOMAIN work
  BY DEF Aggregate, AllDone
<1>2. generation + 1 \in 0..MaxGenerations
  BY SizesAssumption, SMTT(30) DEF Aggregate, AllDone, RunInv, TypeOK, LoopInv
<1>3. PICK places \in SUBSET (0..PoolSize - 1) :
          \E surface \in [places -> Keys] : results' \in Finals(generation + 1, met', surface)
  BY DEF Aggregate
<1>4. met' \in [DOMAIN outputs -> DOMAIN outputs]
  BY <1>1 DEF FirstMet
<1> QED
  BY <1>1, <1>2, <1>3, <1>4, FinalRows

\* A generation's rows are well formed.
LEMMA RowsToWriteType ==
    ASSUME RunInv
    PROVE  RowsToWrite \in Seq(Rows)
  BY ConcatProperties DEF RunInv, TypeOK, RowsToWrite

\* What is left of well-formed rows is well formed, holds no repeat, and holds
\* them in their order.
LEMMA WrittenRows ==
    ASSUME NEW rows \in Seq(Rows), NEW written \in Deduplicated(rows)
    PROVE  /\ written \in Seq(Rows)
           /\ Once(written)
           /\ \A i \in DOMAIN written : written[i].status = "certified" => written[i].key \notin OnDisk
<1> DEFINE kept == DOMAIN rows \ Repeats(rows)
<1>1. PICK k \in InOrder(kept) : written = [n \in DOMAIN k |-> rows[k[n]]]
  BY DEF Deduplicated
<1>2. DOMAIN rows = 1..Len(rows) /\ Len(rows) \in Nat
  OBVIOUS
<1>3. PICK c \in Nat : c = Cardinality(kept)
  <2>1. IsFiniteSet(1..Len(rows))
    BY <1>2, FS_Interval
  <2> QED
    BY <1>2, <2>1, FS_Subset, FS_CardinalityType
<1>4. k \in [1..c -> kept] /\ \A m, n \in 1..c : m < n => k[m] < k[n]
  BY <1>1, <1>3 DEF InOrder
<1>5. ASSUME NEW n \in 1..c
      PROVE  k[n] \in 1..Len(rows) /\ k[n] \notin Repeats(rows) /\ written[n] = rows[k[n]]
  <2>1. k[n] \in kept /\ n \in DOMAIN k
    BY <1>4
  <2> QED
    BY <2>1, <1>1, <1>2
<1>6. DOMAIN written = 1..c /\ written = [n \in 1..c |-> written[n]]
  BY <1>1, <1>4
<1> HIDE DEF kept
<1>7. written \in Seq(Rows)
  <2>1. \A n \in 1..c : written[n] \in Rows
    BY <1>5, ElementOfSeq
  <2> QED
    BY <2>1, <1>6
<1>8. ASSUME NEW i \in 1..c, NEW j \in 1..c, i < j,
             written[i].status = "certified", written[j].status = "certified"
      PROVE  written[i].key # written[j].key
  <2>1. k[i] \in 1..k[j] - 1
    BY <1>4, <1>5, <1>8
  <2>2. /\ rows[k[i]].status = "certified" /\ rows[k[j]].status = "certified"
        /\ k[j] \in DOMAIN rows /\ k[j] \notin Repeats(rows)
    BY <1>2, <1>5, <1>8
  <2>3. rows[k[i]].key # rows[k[j]].key
    BY <2>1, <2>2 DEF Repeats
  <2> QED
    BY <2>3, <1>5
<1>9. Once(written)
  <2> SUFFICES ASSUME NEW i \in 1..c, NEW j \in 1..c, i # j,
                      written[i].status = "certified", written[j].status = "certified"
               PROVE  written[i].key # written[j].key
    BY <1>6 DEF Once
  <2>1. i < j \/ j < i
    OBVIOUS
  <2> QED
    BY <2>1, <1>8
<1>10. ASSUME NEW i \in 1..c, written[i].status = "certified"
       PROVE  written[i].key \notin OnDisk
  BY <1>2, <1>5, <1>10 DEF Repeats
<1> QED
  BY <1>6, <1>7, <1>9, <1>10

\* Appending lines without certified surfaces already there keeps a file Once.
LEMMA OnceConcat ==
    ASSUME NEW f \in Seq(Lines), NEW g \in Seq(Lines), Once(f), Once(g),
           \A i \in DOMAIN f, j \in DOMAIN g :
               f[i].status = "certified" /\ g[j].status = "certified" => f[i].key # g[j].key
    PROVE  Once(f \o g)
<1>1. /\ f \o g \in Seq(Lines) /\ DOMAIN (f \o g) = 1..Len(f) + Len(g)
      /\ \A i \in 1..Len(f) + Len(g) : (f \o g)[i] = IF i <= Len(f) THEN f[i] ELSE g[i - Len(f)]
  BY ConcatProperties
<1>2. DOMAIN f = 1..Len(f) /\ DOMAIN g = 1..Len(g) /\ Len(f) \in Nat /\ Len(g) \in Nat
  OBVIOUS
<1>3. SUFFICES ASSUME NEW i \in DOMAIN (f \o g), NEW j \in DOMAIN (f \o g), i # j,
                      (f \o g)[i].status = "certified", (f \o g)[j].status = "certified"
               PROVE  (f \o g)[i].key # (f \o g)[j].key
  BY DEF Once
<1>4. CASE i <= Len(f) /\ j <= Len(f)
  BY <1>1, <1>2, <1>3, <1>4 DEF Once
<1>5. CASE i > Len(f) /\ j > Len(f)
  <2>1. i - Len(f) \in DOMAIN g /\ j - Len(f) \in DOMAIN g /\ i - Len(f) # j - Len(f)
    BY <1>1, <1>2, <1>3, <1>5
  <2> QED
    BY <2>1, <1>1, <1>2, <1>3, <1>5 DEF Once
<1>6. CASE i <= Len(f) /\ j > Len(f)
  <2>1. i \in DOMAIN f /\ j - Len(f) \in DOMAIN g
    BY <1>1, <1>2, <1>6
  <2> QED
    BY <2>1, <1>1, <1>2, <1>3, <1>6
<1>7. CASE i > Len(f) /\ j <= Len(f)
  <2>1. i - Len(f) \in DOMAIN g /\ j \in DOMAIN f
    BY <1>1, <1>2, <1>7
  <2> QED
    BY <2>1, <1>1, <1>2, <1>3, <1>7
<1> QED
  BY <1>1, <1>2, <1>4, <1>5, <1>6, <1>7
-----------------------------------------------------------------------------
(* The invariant holds at first, and every step keeps each part of it.      *)

LEMMA InitRunInv == Init => RunInv
<1> SUFFICES ASSUME Init PROVE RunInv
  OBVIOUS
<1>1. TypeOK
  <2>1. DOMAIN outputs = {} /\ met \in [DOMAIN met -> DOMAIN outputs]
    BY DEF Init, NoSlots
  <2>2. pending \in Seq(Rows) /\ results \in Seq(Rows) /\ file \in Seq(Lines)
    BY DEF Init
  <2>3. /\ generation \in 0..MaxGenerations /\ streak \in 0..BarrenLimit /\ crashes \in 0..MaxCrashes
        /\ count \in Int /\ base \in Nat /\ answered \subseteq 1..MaxGenerations
    BY SizesAssumption DEF Init
  <2>4. phase \in Phases /\ survival \in Complete \cup {"partial"}
    BY DEF Init, Phases
  <2> QED
    BY <2>1, <2>2, <2>3, <2>4 DEF Init, TypeOK, Lines
<1>2. WorkInv
  <2>1. 0 \in 0..PoolSize + Budget /\ work \in [0..0 - 1 -> {"survivor", "generated"}]
    BY BudgetType, SizesAssumption DEF Init, NoSlots
  <2> QED
    BY <2>1 DEF Init, WorkInv
<1>3. LoopInv /\ ResultInv /\ RowInv /\ StoreInv /\ FileInv /\ CountInv /\ SilenceInv
  BY SizesAssumption
  DEF Init, LoopInv, ResultInv, RowInv, StoreInv, FileInv, CountInv, SilenceInv, CertifiedOnce, NoSlots
<1> QED
  BY <1>1, <1>2, <1>3 DEF RunInv

LEMMA KeepsWork ==
    ASSUME RunInv, [Next]_vars
    PROVE  WorkInv'
<1> USE DEF RunInv
<1>0. PICK n \in 0..PoolSize + Budget :
          /\ work \in [0..n - 1 -> {"survivor", "generated"}]
          /\ phase = "slots" => n >= PoolSize /\ (~reserveDone => n = PoolSize)
  BY DEF WorkInv
<1> USE BudgetType, SizesAssumption
<1>1. CASE GenerationZero
  BY <1>0, <1>1 DEF GenerationZero, WorkInv
<1>2. CASE PlanGeneration
  <2>1. work' \in [0..PoolSize - 1 -> {"survivor", "generated"}] /\ PoolSize \in 0..PoolSize + Budget
    BY <1>2 DEF PlanGeneration
  <2> QED
    BY <1>2, <2>1 DEF PlanGeneration, WorkInv
<1>3. ASSUME NEW s \in 0..PoolSize + DefaultReserve + ReserveBudget, SlotUnit(s)
      PROVE  WorkInv'
  BY <1>0, <1>3 DEF SlotUnit, WorkInv
<1>4. CASE Reserve
  <2>1. PICK a \in Accepted :
            /\ ReserveCount(a) > 0
            /\ work' = [s \in 0..PoolSize + ReserveCount(a) - 1 |->
                           IF s < PoolSize THEN work[s] ELSE "generated"]
    BY <1>4 DEF Reserve
  <2>2. ReserveCount(a) \in 1..Budget
    <3>1. a \in Int
      BY DEF Accepted
    <3> QED
      BY <3>1, <2>1 DEF ReserveCount
  <2>3. n = PoolSize /\ phase = "slots"
    BY <1>0, <1>4 DEF Reserve, AllDone
  <2>4. PICK m \in PoolSize..PoolSize + Budget : m = PoolSize + ReserveCount(a)
    BY <2>2
  <2>5. work' \in [0..m - 1 -> {"survivor", "generated"}]
    BY <1>0, <2>1, <2>2, <2>3, <2>4
  <2>6. reserveDone' /\ phase' = "slots" /\ m \in 0..PoolSize + Budget /\ m >= PoolSize
    BY <1>4, <2>3, <2>4 DEF Reserve
  <2>7. \E k \in 0..PoolSize + Budget :
           /\ work' \in [0..k - 1 -> {"survivor", "generated"}]
           /\ phase' = "slots" => k >= PoolSize /\ (~reserveDone' => k = PoolSize)
    BY <2>5, <2>6
  <2> QED
    BY <2>6, <2>7 DEF WorkInv, Budget
<1>5. CASE Aggregate
  BY <1>0, <1>5 DEF Aggregate, AllDone, WorkInv
<1>6. CASE SaveRaises
  BY <1>0, <1>6 DEF SaveRaises, WorkInv, channels
<1>7. CASE Save
  BY <1>0, <1>7 DEF Save, WorkInv
<1>8. CASE Decide
  BY <1>0, <1>8 DEF Decide, GoOn, WorkInv, channels
<1>9. ASSUME Restart
      PROVE  WorkInv'
  <2>1. work' \in [0..0 - 1 -> {"survivor", "generated"}] /\ 0 \in 0..PoolSize + Budget
    BY <1>9 DEF Restart, NoSlots
  <2> QED
    BY <1>9, <2>1 DEF Restart, WorkInv
<1>10. CASE UNCHANGED vars
  BY <1>0, <1>10 DEF vars, channels, WorkInv
<1> QED
  BY <1>1, <1>2, <1>3, <1>4, <1>5, <1>6, <1>7, <1>8, <1>9, <1>10 DEF Next, Crash, CrashInSave

LEMMA KeepsLoop ==
    ASSUME RunInv, [Next]_vars
    PROVE  LoopInv'
<1> USE SizesAssumption DEF RunInv, TypeOK, LoopInv
<1>1. CASE GenerationZero
  BY <1>1 DEF GenerationZero
<1>2. CASE PlanGeneration
  BY <1>2 DEF PlanGeneration, runner
<1>3. ASSUME NEW s \in 0..PoolSize + DefaultReserve + ReserveBudget, SlotUnit(s)
      PROVE  LoopInv'
  BY <1>3 DEF SlotUnit
<1>4. CASE Reserve
  BY <1>4 DEF Reserve, AllDone, runner
<1>5. CASE Aggregate
  BY <1>5 DEF Aggregate, AllDone, runner
<1>6. CASE SaveRaises
  BY <1>6 DEF SaveRaises
<1>7. CASE Save
  BY <1>7 DEF Save, runner
<1>8. CASE Decide
  BY <1>8, SMTT(30) DEF Decide, GoOn, channels
<1>9. ASSUME Restart
      PROVE  LoopInv'
  BY <1>9, SMTT(30) DEF Restart
<1>10. CASE UNCHANGED vars
  BY <1>10 DEF vars, channels, runner
<1> QED
  BY <1>1, <1>2, <1>3, <1>4, <1>5, <1>6, <1>7, <1>8, <1>9, <1>10 DEF Next, Crash, CrashInSave

LEMMA KeepsResults ==
    ASSUME RunInv, [Next]_vars
    PROVE  ResultInv' /\ StoreInv'
<1> USE DEF RunInv, ResultInv, StoreInv
<1>1. CASE GenerationZero
  BY <1>1 DEF GenerationZero
<1>2. CASE PlanGeneration
  BY <1>2 DEF PlanGeneration, NoSlots
<1>3. ASSUME NEW s \in 0..PoolSize + DefaultReserve + ReserveBudget, SlotUnit(s)
      PROVE  ResultInv' /\ StoreInv'
  BY <1>3 DEF SlotUnit
<1>4. CASE Reserve
  BY <1>4 DEF Reserve, AllDone
<1>5. CASE Aggregate
  BY <1>5 DEF Aggregate, AllDone
<1>6. CASE SaveRaises
  BY <1>6 DEF SaveRaises
<1>7. CASE Save
  BY <1>7 DEF Save, RowsCertified
<1>8. CASE Decide
  BY <1>8 DEF Decide, GoOn, channels, ProducedNothing, RowsCertified
<1>9. ASSUME Restart
      PROVE  ResultInv' /\ StoreInv'
  BY <1>9 DEF Restart
<1>10. CASE UNCHANGED vars
  BY <1>10 DEF vars, channels, RowsCertified
<1> QED
  BY <1>1, <1>2, <1>3, <1>4, <1>5, <1>6, <1>7, <1>8, <1>9, <1>10 DEF Next, Crash, CrashInSave

LEMMA KeepsRows ==
    ASSUME RunInv, [Next]_vars
    PROVE  RowInv'
<1> USE DEF RunInv, RowInv
<1>1. CASE Aggregate
  <2>1. /\ UNCHANGED outputs /\ generation' = generation + 1
    BY <1>1 DEF Aggregate
  <2>2. \A s \in DOMAIN outputs' : RowOf(generation, met[s])' = RowOf(generation + 1, met'[s])
    BY <2>1 DEF RowOf
  <2> QED
    BY <1>1, <2>1, <2>2, AggregateRows DEF RowsCertified, HasCertified
<1>2. CASE Save
  BY <1>2 DEF Save, RowsCertified, HasCertified, RowOf
<1>3. ASSUME NEW s \in 0..PoolSize + DefaultReserve + ReserveBudget, SlotUnit(s)
      PROVE  RowInv'
  BY <1>3 DEF SlotUnit
<1>4. CASE GenerationZero \/ PlanGeneration \/ Reserve \/ SaveRaises \/ Decide
  BY <1>4 DEF GenerationZero, PlanGeneration, Reserve, AllDone, SaveRaises, Decide, GoOn
<1>5. CASE Restart
  BY <1>5 DEF Restart
<1>6. CASE UNCHANGED vars
  BY <1>6 DEF vars, channels, RowsCertified, HasCertified, RowOf
<1> QED
  BY <1>1, <1>2, <1>3, <1>4, <1>5, <1>6 DEF Next, Crash, CrashInSave
-----------------------------------------------------------------------------
(* What the save node keeps of its rows.                                    *)

\* A nonempty set of positive numbers has a least element.
LEMMA Least ==
    ASSUME NEW X \in SUBSET (Nat \ {0}), X # {}
    PROVE  \E x \in X : \A y \in X : x <= y
<1> DEFINE T == {1..x : x \in X}
<1>1. T \subseteq FiniteSubsetsOf(Nat) /\ T # {}
  <2>1. \A x \in X : 1..x \in SUBSET Nat /\ IsFiniteSet(1..x)
    BY FS_Interval
  <2> QED
    BY <2>1 DEF FiniteSubsetsOf
<1>2. PICK t \in T : \A u \in T : <<u, t>> \notin StrictSubsetOrdering(Nat)
  BY <1>1, FS_StrictSubsetOrderingWellFounded, WFMin
<1>3. PICK x \in X : t = 1..x
  OBVIOUS
<1>4. ASSUME NEW y \in X, y < x
      PROVE  FALSE
  <2>1. 1..y \in T /\ 1..y \subseteq 1..x /\ x \in 1..x /\ x \notin 1..y /\ 1..x \in SUBSET Nat
    BY <1>4
  <2> QED
    BY <1>2, <1>3, <2>1 DEF StrictSubsetOrdering
<1> QED
  BY <1>3, <1>4

\* Every row that is no repeat is written.
LEMMA OthersAreWritten ==
    ASSUME NEW rows \in Seq(Rows), NEW written \in Deduplicated(rows),
           NEW i \in DOMAIN rows \ Repeats(rows)
    PROVE  \E n \in DOMAIN written : written[n] = rows[i]
<1> DEFINE kept == DOMAIN rows \ Repeats(rows)
<1>1. PICK k \in InOrder(kept) : written = [n \in DOMAIN k |-> rows[k[n]]]
  BY DEF Deduplicated
<1>2. DOMAIN rows = 1..Len(rows) /\ Len(rows) \in Nat
  OBVIOUS
<1>3. IsFiniteSet(kept) /\ Cardinality(kept) \in Nat /\ kept \subseteq Nat
  <2>1. IsFiniteSet(1..Len(rows))
    BY <1>2, FS_Interval
  <2> QED
    BY <1>2, <2>1, FS_Subset, FS_CardinalityType
<1> HIDE DEF kept
<1> DEFINE c == Cardinality(kept)
<1>4. k \in [1..c -> kept] /\ \A m, n \in 1..c : m < n => k[m] < k[n]
  BY <1>1 DEF InOrder
<1>5. k \in Injection(1..c, kept)
  <2> SUFFICES ASSUME NEW m \in 1..c, NEW n \in 1..c, m # n
               PROVE  k[m] # k[n]
    BY <1>4 DEF Injection, IsInjective
  <2>1. m < n \/ n < m
    BY <1>3
  <2>2. k[m] \in Nat /\ k[n] \in Nat
    BY <1>3, <1>4
  <2>3. k[m] < k[n] \/ k[n] < k[m]
    BY <1>4, <2>1
  <2> QED
    BY <2>2, <2>3
<1>6. IsFiniteSet(1..c) /\ Cardinality(1..c) = c
  BY <1>3, FS_Interval
<1>7. k \in Surjection(1..c, kept)
  BY <1>3, <1>5, <1>6, FS_Injection
<1>8. PICK n \in 1..c : k[n] = i
  BY <1>7 DEF Surjection, kept
<1> QED
  BY <1>1, <1>4, <1>8

\* A repeat is certified, and its surface is on disk or in a row written.
LEMMA RepeatsAreWritten ==
    ASSUME NEW rows \in Seq(Rows), NEW i \in Repeats(rows)
    PROVE  /\ rows[i].status = "certified"
           /\ \/ rows[i].key \in OnDisk
              \/ \E j \in DOMAIN rows \ Repeats(rows) : rows[j].key = rows[i].key
<1>1. rows[i].status = "certified" /\ i \in 1..Len(rows) /\ DOMAIN rows = 1..Len(rows) /\ Len(rows) \in Nat
  BY DEF Repeats
<1> DEFINE Same == {j \in DOMAIN rows : rows[j].status = "certified" /\ rows[j].key = rows[i].key}
<1>2. Same \in SUBSET (Nat \ {0}) /\ Same # {}
  BY <1>1
<1>3. PICK j \in Same : \A m \in Same : j <= m
  BY <1>2, Least
<1>4. ASSUME rows[i].key \notin OnDisk
      PROVE  j \notin Repeats(rows)
  <2> SUFFICES ASSUME NEW m \in 1..j - 1, rows[m].status = "certified", rows[m].key = rows[j].key
               PROVE  FALSE
    BY <1>3, <1>4 DEF Repeats
  <2>1. m \in Same /\ m < j
    BY <1>1, <1>3
  <2> QED
    BY <1>1, <1>3, <2>1
<1> QED
  BY <1>1, <1>3, <1>4

-----------------------------------------------------------------------------
(* The file.                                                                *)

\* So does cutting it short.
LEMMA OncePrefix ==
    ASSUME NEW f \in Seq(Rows), Once(f), NEW n \in 0..Len(f)
    PROVE  /\ SubSeq(f, 1, n) \in Seq(Rows)
           /\ DOMAIN SubSeq(f, 1, n) = 1..n
           /\ \A i \in 1..n : i \in DOMAIN f /\ SubSeq(f, 1, n)[i] = f[i]
           /\ Once(SubSeq(f, 1, n))
<1>1. \A i \in 1..n : i \in DOMAIN f /\ f[i] \in Rows
  OBVIOUS
<1>2. /\ SubSeq(f, 1, n) \in Seq(Rows)
      /\ Len(SubSeq(f, 1, n)) = IF 1 <= n THEN n - 1 + 1 ELSE 0
      /\ \A i \in 1..n - 1 + 1 : SubSeq(f, 1, n)[i] = f[1 + i - 1]
  BY <1>1, SubSeqProperties
<1>3. DOMAIN SubSeq(f, 1, n) = 1..n /\ \A i \in 1..n : SubSeq(f, 1, n)[i] = f[i]
  BY <1>2
<1>4. Once(SubSeq(f, 1, n))
  BY <1>1, <1>3 DEF Once
<1> QED
  BY <1>1, <1>2, <1>3, <1>4

\* A torn line is no certified line.
LEMMA TornLine ==
    ASSUME NEW tail \in {<<>>, <<Torn>>}
    PROVE  /\ tail \in Seq(Lines) /\ Once(tail)
           /\ \A j \in DOMAIN tail : tail[j].status # "certified"
<1>1. Torn \in Lines /\ Torn.status = "torn"
  BY DEF Lines, Torn
<1>2. CASE tail = <<>>
  BY <1>2 DEF Once
<1>3. CASE tail = <<Torn>>
  <2>1. tail = [j \in 1..1 |-> Torn]
    BY <1>3
  <2>2. tail \in Seq(Lines)
    BY <1>1, <2>1
  <2> QED
    BY <1>1, <2>1, <2>2 DEF Once
<1> QED
  BY <1>2, <1>3

\* What the save node appends to: the file, or nothing if it replaces it.
Kept == IF AppendOnly THEN file ELSE <<>>

\* A batch without certified surfaces on disk can be appended, in full or in
\* part, and a torn line after it.
LEMMA AppendKeepsOnce ==
    ASSUME RunInv, NEW g \in Seq(Rows), Once(g),
           \A i \in DOMAIN g : g[i].status = "certified" => g[i].key \notin OnDisk,
           NEW tail \in {<<>>, <<Torn>>}
    PROVE  /\ Kept \o g \in Seq(Lines) /\ Once(Kept \o g)
           /\ Kept \o g \o tail \in Seq(Lines) /\ Once(Kept \o g \o tail)
<1>1. Kept \in Seq(Lines) /\ Once(Kept)
  BY DEF RunInv, TypeOK, FileInv, CertifiedOnce, Once, Kept, Lines
<1>2. g \in Seq(Lines)
  BY DEF Lines
<1>3. \A i \in DOMAIN Kept, j \in DOMAIN g :
          Kept[i].status = "certified" /\ g[j].status = "certified" => Kept[i].key # g[j].key
  <2>1. CASE AppendOnly
    <3>1. ASSUME NEW i \in DOMAIN file
          PROVE  file[i].key \in OnDisk
      BY <2>1, <3>1 DEF OnDisk
    <3> QED
      BY <2>1, <3>1 DEF Kept
  <2>2. CASE ~AppendOnly
    BY <2>2 DEF Kept
  <2> QED
    BY <2>1, <2>2
<1>4. Kept \o g \in Seq(Lines) /\ Once(Kept \o g)
  <2>1. Kept \o g \in Seq(Lines)
    BY <1>1, <1>2, ConcatProperties
  <2> QED
    BY <2>1, <1>1, <1>2, <1>3, OnceConcat
<1>5. tail \in Seq(Lines) /\ Once(tail) /\ \A j \in DOMAIN tail : tail[j].status # "certified"
  BY TornLine
<1> HIDE DEF Kept
<1>6. Kept \o g \o tail \in Seq(Lines) /\ Once(Kept \o g \o tail)
  <2> DEFINE f == Kept \o g
  <2>1. f \in Seq(Lines) /\ Once(f)
    BY <1>4
  <2> HIDE DEF f
  <2>2. f \o tail \in Seq(Lines)
    BY <2>1, <1>5, ConcatProperties
  <2>3. Once(f \o tail)
    BY <2>1, <1>5, OnceConcat
  <2> QED
    BY <2>2, <2>3 DEF f
<1> QED
  BY <1>4, <1>6

\* The file after a save, or after a save that was cut short.
LEMMA FileAfterSave ==
    ASSUME RunInv, Save
    PROVE  /\ file' \in Seq(Lines) /\ Once(file') /\ fileExists'
           /\ \E g \in Seq(Rows) : file' = Kept \o g /\ count' = PreviousCount - Len(pending) + Len(g)
<1>1. PICK written \in Deduplicated(RowsToWrite) :
          /\ file' = IF AppendOnly THEN file \o written ELSE written
          /\ count' = PreviousCount - Len(pending) + Len(written)
  BY DEF Save
<1>2. RowsToWrite \in Seq(Rows)
  BY RowsToWriteType DEF Save
<1>3. /\ written \in Seq(Rows) /\ Once(written)
      /\ \A i \in DOMAIN written : written[i].status = "certified" => written[i].key \notin OnDisk
  BY <1>1, <1>2, WrittenRows
<1>4. file' = Kept \o written
  BY <1>1, <1>3, ConcatEmptySeq DEF Kept
<1>5. Kept \o written \in Seq(Lines) /\ Once(Kept \o written)
  BY <1>3, AppendKeepsOnce
<1> QED
  BY <1>1, <1>3, <1>4, <1>5 DEF Save

LEMMA FileAfterCrash ==
    ASSUME RunInv, CrashInSave
    PROVE  /\ file' \in Seq(Lines) /\ Once(file') /\ fileExists'
           /\ \E g \in Seq(Lines) : file' = Kept \o g
<1>1. PICK written \in Deduplicated(RowsToWrite) :
          \E n \in 0..Len(written) - 1, tail \in {<<>>, <<Torn>>} :
              file' = (IF AppendOnly THEN file ELSE <<>>) \o SubSeq(written, 1, n) \o tail
  BY DEF CrashInSave
<1>2. RowsToWrite \in Seq(Rows)
  BY RowsToWriteType DEF CrashInSave
<1>3. /\ written \in Seq(Rows) /\ Once(written)
      /\ \A i \in DOMAIN written : written[i].status = "certified" => written[i].key \notin OnDisk
  BY <1>1, <1>2, WrittenRows
<1>4. PICK n \in 0..Len(written) - 1, tail \in {<<>>, <<Torn>>} :
          file' = Kept \o SubSeq(written, 1, n) \o tail
  BY <1>1 DEF Kept
<1>5. n \in 0..Len(written)
  BY <1>3, <1>4
<1> DEFINE g == SubSeq(written, 1, n)
<1>6. /\ g \in Seq(Rows) /\ Once(g) /\ DOMAIN g = 1..n
      /\ \A i \in 1..n : i \in DOMAIN written /\ g[i] = written[i]
  BY <1>3, <1>5, OncePrefix
<1> HIDE DEF g
<1>7. \A i \in DOMAIN g : g[i].status = "certified" => g[i].key \notin OnDisk
  BY <1>3, <1>6
<1>8. Kept \o g \o tail \in Seq(Lines) /\ Once(Kept \o g \o tail)
  BY <1>6, <1>7, AppendKeepsOnce
<1>9. file' = Kept \o g \o tail
  BY <1>4 DEF g
<1>10. g \o tail \in Seq(Lines) /\ Kept \o g \o tail = Kept \o (g \o tail)
  <2>1. g \in Seq(Lines) /\ tail \in Seq(Lines) /\ Kept \in Seq(Lines)
    <3>1. g \in Seq(Lines)
      BY <1>6 DEF Lines
    <3>2. Kept \in Seq(Lines)
      BY DEF Lines, Kept, RunInv, TypeOK
    <3> QED
      BY <3>1, <3>2, TornLine
  <2>2. g \o tail \in Seq(Lines)
    BY <2>1, ConcatProperties
  <2>3. Kept \o g \o tail = Kept \o (g \o tail)
    BY <2>1, ConcatAssociative
  <2> QED
    BY <2>2, <2>3
<1> QED
  BY <1>8, <1>9, <1>10 DEF CrashInSave

LEMMA KeepsFile ==
    ASSUME RunInv, [Next]_vars
    PROVE  FileInv' /\ file' \in Seq(Lines)
<1>1. FileInv /\ file \in Seq(Lines)
  BY DEF RunInv, TypeOK, Lines
<1>2. CASE UNCHANGED disk
  BY <1>1, <1>2 DEF disk, FileInv, CertifiedOnce
<1>3. CASE Save
  BY <1>3, FileAfterSave DEF FileInv, CertifiedOnce, Once
<1>4. CASE CrashInSave
  BY <1>4, FileAfterCrash DEF FileInv, CertifiedOnce, Once
<1>5. ASSUME NEW s \in 0..PoolSize + DefaultReserve + ReserveBudget, SlotUnit(s)
      PROVE  UNCHANGED disk
  BY <1>5 DEF SlotUnit, disk
<1> QED
  BY <1>2, <1>3, <1>4, <1>5
  DEF Next, vars, GenerationZero, PlanGeneration, Reserve, Aggregate, SaveRaises, Decide, Crash

LEMMA KeepsCount ==
    ASSUME RunInv, [Next]_vars
    PROVE  CountInv'
<1> SUFFICES ASSUME GenZeroTargets = 0
             PROVE  /\ pending' = <<>>
                    /\ phase' \notin {"start", "failed"} => count' = Len(file') - base'
  BY DEF CountInv
<1>0. /\ pending = <<>> /\ Len(pending) = 0
      /\ phase \notin {"start", "failed"} => count = Len(file) - base
      /\ Len(file) \in Nat /\ base \in Nat /\ count \in Int
  BY DEF RunInv, CountInv, TypeOK
<1>1. CASE GenerationZero
  <2>1. PICK done : pending' = [i \in 1..GenZeroTargets |->
              [gen |-> 0, slot |-> i - 1, status |-> done[i].status, key |-> done[i].key]]
    BY <1>1 DEF GenerationZero
  <2>2. 1..GenZeroTargets = {}
    OBVIOUS
  <2>3. pending' = <<>>
    BY <2>1, <2>2
  <2> QED
    BY <1>0, <1>1, <2>3 DEF GenerationZero, disk
<1>2. CASE Save
  <2>1. PICK g \in Seq(Rows) : file' = Kept \o g /\ count' = PreviousCount - Len(pending) + Len(g)
    BY <1>2, FileAfterSave
  <2>2. PreviousCount = Len(file) - base
    BY <1>0, <1>2 DEF Save, PreviousCount
  <2>3. Kept = file
    BY <1>0 DEF Kept, AppendOnly, RunInv, FileInv
  <2>4. file \in Seq(Lines) /\ g \in Seq(Lines)
    BY DEF RunInv, TypeOK, Lines
  <2>5. Len(file') = Len(file) + Len(g) /\ Len(g) \in Nat
    BY <2>1, <2>3, <2>4, ConcatProperties
  <2> QED
    BY <1>0, <1>2, <2>1, <2>2, <2>5 DEF Save, runner
<1>3. ASSUME NEW s \in 0..PoolSize + DefaultReserve + ReserveBudget, SlotUnit(s)
      PROVE  UNCHANGED <<pending, count, file, base, phase>>
  BY <1>3 DEF SlotUnit, disk
<1>4. CASE Restart
  BY <1>4 DEF Restart
<1> QED
  BY <1>0, <1>1, <1>2, <1>3, <1>4
  DEF Next, vars, channels, runner, disk, PlanGeneration, Reserve, Aggregate, AllDone, SaveRaises,
      Decide, Crash, CrashInSave


LEMMA KeepsSilence ==
    ASSUME RunInv, [Next]_vars
    PROVE  SilenceInv'
<1>0. /\ SilenceInv /\ generation \in 0..MaxGenerations /\ streak \in 0..BarrenLimit
      /\ MaxGenerations \in Nat /\ BarrenLimit \in Nat
  BY SizesAssumption DEF RunInv, TypeOK
<1>1. CASE GenerationZero
  BY <1>0, <1>1 DEF GenerationZero, SilenceInv, SilentSince
<1>2. CASE PlanGeneration
  BY <1>0, <1>2 DEF PlanGeneration, SilenceInv, SilentSince, HasCertified, NoSlots, runner
<1>3. ASSUME NEW s \in 0..PoolSize + DefaultReserve + ReserveBudget, SlotUnit(s)
      PROVE  SilenceInv'
  <2>1. PICK r \in Results(work[s]) :
            /\ outputs' = [x \in DOMAIN outputs \cup {s} |-> IF x = s THEN r ELSE outputs[x]]
            /\ answered' = IF work[s] = "generated" /\ r.status # "silent"
                           THEN answered \cup {generation + 1} ELSE answered
    BY <1>3 DEF SlotUnit
  <2>2. phase = "slots" /\ phase' = "slots" /\ UNCHANGED <<generation, streak>>
    BY <1>3 DEF SlotUnit
  <2>3. s \in DOMAIN work /\ work[s] \in {"survivor", "generated"}
    BY <1>3 DEF SlotUnit, RunInv, WorkInv
  <2>4. ASSUME HasCertified'
        PROVE  generation' + 1 \in answered'
    <3>1. CASE r.status = "certified"
      <4>1. work[s] = "generated"
        BY <2>1, <2>3, <3>1 DEF Results
      <4> QED
        BY <2>1, <2>2, <3>1, <4>1
    <3>2. CASE r.status # "certified"
      <4>1. HasCertified
        BY <2>1, <2>4, <3>2 DEF HasCertified
      <4> QED
        BY <1>0, <2>1, <2>2, <4>1 DEF SilenceInv
    <3> QED
      BY <3>1, <3>2
  <2>5. \A n \in 1..generation' : SilentSince(generation, n)' => streak' >= n
    BY <1>0, <2>1, <2>2 DEF SilenceInv, SilentSince
  <2> QED
    BY <2>2, <2>4, <2>5 DEF SilenceInv
<1>4. CASE Reserve
  BY <1>0, <1>4 DEF Reserve, AllDone, SilenceInv, SilentSince, HasCertified, runner
<1>5. CASE Aggregate
  BY <1>0, <1>5 DEF Aggregate, AllDone, SilenceInv, SilentSince, HasCertified, runner
<1>6. CASE SaveRaises
  BY <1>0, <1>6 DEF SaveRaises, SilenceInv
<1>7. CASE Save
  BY <1>0, <1>7 DEF Save, SilenceInv, SilentSince, HasCertified, runner
<1>8. CASE Decide
  <2>1. phase = "decide" /\ generation >= 1 /\ UNCHANGED <<generation, outputs, answered>>
    BY <1>0, <1>8 DEF Decide, channels, SilenceInv
  <2>2. phase' \in {"ended", "barren", "plan"}
    BY <1>8 DEF Decide, GoOn
  <2>3. ASSUME phase' = "plan", NEW n \in 1..generation, SilentSince(generation, n)
        PROVE  streak' >= n
    <3>1. generation \notin answered
      BY <1>0, <2>1, <2>3 DEF SilentSince
    <3>2. ~certified
      BY <1>0, <2>1, <3>1 DEF SilenceInv, RunInv, ResultInv, RowInv
    <3>3. ~resultsRef
      BY <2>1 DEF RunInv, ResultInv
    <3>4. streak' = streak + 1
      BY <1>8, <2>3, <3>2, <3>3 DEF Decide, ProducedNothing, StateResults
    <3>5. CASE n = 1
      BY <1>0, <3>4, <3>5
    <3>6. CASE n > 1
      <4>1. n - 1 \in 1..generation - 1 /\ SilentSince(generation - 1, n - 1)
        BY <1>0, <2>1, <2>3, <3>6 DEF SilentSince
      <4> QED
        BY <1>0, <2>1, <3>4, <4>1 DEF SilenceInv
    <3> QED
      BY <3>5, <3>6
  <2>4. phase' = "plan" => \A n \in 1..generation' : SilentSince(generation, n)' => streak' >= n
    BY <2>1, <2>3 DEF SilentSince
  <2> QED
    BY <2>2, <2>4 DEF SilenceInv
<1>9. CASE Restart
  BY <1>9 DEF Restart, SilenceInv
<1>10. CASE UNCHANGED vars
  BY <1>0, <1>10 DEF vars, channels, runner, SilenceInv, SilentSince, HasCertified
<1> QED
  BY <1>1, <1>2, <1>3, <1>4, <1>5, <1>6, <1>7, <1>8, <1>9, <1>10 DEF Next, Crash, CrashInSave


LEMMA KeepsType ==
    ASSUME RunInv, [Next]_vars
    PROVE  TypeOK'
<1> DEFINE SlotsOK == /\ \A s \in DOMAIN outputs : s \in DOMAIN work /\ outputs[s] \in Results(work[s])
                      /\ met \in [DOMAIN met -> DOMAIN outputs]
           RestOK ==
               /\ phase \in Phases /\ generation \in 0..MaxGenerations
               /\ pending \in Seq(Rows) /\ results \in Seq(Rows) /\ count \in Int
               /\ reserveDone \in BOOLEAN /\ resultsRef \in BOOLEAN
               /\ certified \in BOOLEAN /\ fileExists \in BOOLEAN
               /\ survival \in Complete \cup {"partial"} /\ streak \in 0..BarrenLimit
               /\ base \in Nat /\ crashes \in 0..MaxCrashes /\ answered \subseteq 1..MaxGenerations
<1>0. RestOK /\ SlotsOK /\ file \in Seq(Lines)
  BY DEF RunInv, TypeOK, Lines
<1> SUFFICES RestOK' /\ SlotsOK'
  BY KeepsFile DEF TypeOK, Lines
<1> USE SizesAssumption
<1>1. CASE GenerationZero
  <2>1. PICK done \in [1..GenZeroTargets -> [status : {"certified", "failed"}, key : Keys]] :
            pending' = [i \in 1..GenZeroTargets |->
              [gen |-> 0, slot |-> i - 1, status |-> done[i].status, key |-> done[i].key]]
    BY <1>1 DEF GenerationZero
  <2>2. \A i \in 1..GenZeroTargets : pending'[i] \in Rows
    BY <2>1 DEF Rows, Statuses
  <2>3. pending' \in Seq(Rows)
    BY <2>1, <2>2
  <2>4. Len(file) \in Nat
    BY <1>0
  <2> QED
    BY <1>0, <1>1, <2>3, <2>4, SMTT(30) DEF GenerationZero, Phases, disk
<1>2. CASE PlanGeneration
  <2>1. results' \in Seq(Rows) /\ DOMAIN met' = {} /\ DOMAIN outputs' = {}
    BY <1>2 DEF PlanGeneration, NoSlots
  <2>2. SlotsOK'
    <3>1. met' \in [DOMAIN met' -> DOMAIN outputs']
      BY <1>2 DEF PlanGeneration, NoSlots
    <3> QED
      BY <2>1, <3>1
  <2> QED
    BY <1>0, <1>2, <2>1, <2>2 DEF PlanGeneration, Phases, runner, disk
<1>3. ASSUME NEW s \in 0..PoolSize + DefaultReserve + ReserveBudget, SlotUnit(s)
      PROVE  RestOK' /\ SlotsOK'
  <2>1. generation + 1 \in 1..MaxGenerations
    BY <1>0, <1>3, SMTT(30) DEF SlotUnit, RunInv, LoopInv
  <2>2. RestOK'
    BY <1>0, <1>3, <2>1 DEF SlotUnit, disk
  <2>3. SlotsOK'
    BY <1>0, <1>3 DEF SlotUnit
  <2> QED
    BY <2>2, <2>3
<1>4. CASE Reserve
  <2>1. RestOK' /\ outputs' = outputs /\ met' = met
    BY <1>0, <1>4 DEF Reserve, AllDone, runner, disk
  <2>2. PICK a \in Accepted :
            /\ ReserveCount(a) > 0
            /\ work' = [s \in 0..PoolSize + ReserveCount(a) - 1 |->
                           IF s < PoolSize THEN work[s] ELSE "generated"]
    BY <1>4 DEF Reserve
  <2>3. DOMAIN work = 0..PoolSize - 1
    BY <1>4 DEF Reserve, AllDone, RunInv, WorkInv
  <2>4. a \in Int
    BY DEF Accepted
  <2>5. ReserveCount(a) \in Nat
    BY <2>2, <2>4, BudgetType DEF ReserveCount
  <2>6. ASSUME NEW s \in DOMAIN outputs
        PROVE  s \in DOMAIN work' /\ work'[s] = work[s]
    <3>1. s \in 0..PoolSize - 1
      BY <1>0, <2>3
    <3>2. s \in 0..PoolSize + ReserveCount(a) - 1 /\ s < PoolSize
      BY <2>5, <3>1
    <3> QED
      BY <2>2, <3>2
  <2>7. SlotsOK'
    BY <1>0, <2>1, <2>6
  <2> QED
    BY <2>1, <2>7
<1>5. CASE Aggregate
  <2>1. met' \in [DOMAIN outputs -> DOMAIN outputs] /\ UNCHANGED <<work, outputs>>
    BY <1>5, AggregateRows DEF Aggregate
  <2>2. SlotsOK'
    BY <1>0, <2>1
  <2>3. results' \in Seq(Rows)
    BY <1>5, AggregateRows
  <2>4. generation' \in 0..MaxGenerations
    BY <1>0, <1>5 DEF Aggregate, AllDone, RunInv, LoopInv
  <2> QED
    BY <1>0, <1>5, <2>2, <2>3, <2>4 DEF Aggregate, AllDone, Phases, runner, disk
<1>6. CASE SaveRaises
  BY <1>0, <1>6 DEF SaveRaises, Phases, channels, runner, disk
<1>7. CASE Save
  <2>1. PICK g \in Seq(Rows) : count' = PreviousCount - Len(pending) + Len(g)
    BY <1>7, FileAfterSave
  <2>2. Len(pending) \in Nat /\ Len(g) \in Nat
    BY <1>0, SMTT(30)
  <2>3. count' \in Int
    BY <1>0, <2>1, <2>2, SMTT(30) DEF PreviousCount
  <2> QED
    BY <1>0, <1>7, <2>3 DEF Save, Phases, runner
<1>8. CASE Decide
  <2>1. streak' \in 0..BarrenLimit
    BY <1>0, <1>8, SMTT(30) DEF Decide, RunInv, LoopInv
  <2> QED
    BY <1>0, <1>8, <2>1 DEF Decide, GoOn, Phases, channels, disk
<1>9. ASSUME Restart, UNCHANGED base, fileExists' \in BOOLEAN, crashes < MaxCrashes
      PROVE  RestOK' /\ SlotsOK'
  <2>1. pending' \in Seq(Rows) /\ results' \in Seq(Rows)
    BY <1>9 DEF Restart
  <2>2. phase' \in Phases /\ generation' \in 0..MaxGenerations /\ streak' \in 0..BarrenLimit
    BY <1>9 DEF Restart, Phases
  <2>3. base' \in Nat /\ crashes' \in 0..MaxCrashes /\ answered' \subseteq 1..MaxGenerations
    BY <1>0, <1>9, SMTT(30) DEF Restart
  <2>4. DOMAIN outputs' = {} /\ met' \in [DOMAIN met' -> DOMAIN outputs']
    BY <1>9 DEF Restart, NoSlots
  <2>5. count' \in Int /\ survival' \in Complete \cup {"partial"}
    <3>1. count' = 0 /\ survival' = "partial"
      BY <1>9 DEF Restart
    <3> QED
      BY <3>1
  <2>6. reserveDone' \in BOOLEAN /\ resultsRef' \in BOOLEAN /\ certified' \in BOOLEAN
    BY <1>9, Zenon DEF Restart
  <2>7. RestOK'
    BY <1>9, <2>1, <2>2, <2>3, <2>5, <2>6
  <2>8. SlotsOK'
    BY <2>4
  <2> QED
    BY <2>7, <2>8
<1>10. CASE Crash
  BY <1>0, <1>9, <1>10 DEF Crash, disk
<1>11. CASE CrashInSave
  BY <1>0, <1>9, <1>11 DEF CrashInSave
<1>12. CASE UNCHANGED vars
  BY <1>0, <1>12 DEF vars, channels, runner, disk
<1> QED
  BY <1>1, <1>2, <1>3, <1>4, <1>5, <1>6, <1>7, <1>8, <1>10, <1>11, <1>12 DEF Next

LEMMA KeepsRunInv == RunInv /\ [Next]_vars => RunInv'
  BY KeepsType, KeepsWork, KeepsLoop, KeepsResults, KeepsRows, KeepsFile, KeepsCount, KeepsSilence DEF RunInv

LEMMA Invariance == Spec => []RunInv
<1>1. Init => RunInv
  BY InitRunInv
<1>2. RunInv /\ [Next]_vars => RunInv'
  BY KeepsRunInv
<1> QED
  BY <1>1, <1>2, PTL DEF Spec
-----------------------------------------------------------------------------
(* The theorems.                                                            *)

\* Every run keeps its channels, counters and lines well formed, whatever the
\* slots return and whenever the process is killed.
THEOREM TypeInvariant == Spec => []TypeOK
<1>1. RunInv => TypeOK
  BY DEF RunInv
<1> QED
  BY <1>1, Invariance, PTL

\* save_generation_node never leaves two certified lines with one surface in
\* the output file: not within a batch, not across generations, and not across
\* runs on the same file, even if one was killed in the middle of a write.
THEOREM NoCertifiedTwice == Spec => []CertifiedOnce
<1>1. RunInv => CertifiedOnce
  BY DEF RunInv, FileInv
<1> QED
  BY <1>1, Invariance, PTL

\* The results store holds exactly the results still to be read by ref, so no
\* ref dangles and nothing outlives its generation's save.
THEOREM StoreIsExact == Spec => []StoreFollowsRefs
<1>1. RunInv => StoreFollowsRefs
  BY DEF RunInv, StoreInv, StoreFollowsRefs
<1> QED
  BY <1>1, Invariance, PTL

\* The guard for barren generations never halts a run right after a generation
\* with a certified theorem in its final rows.
THEOREM CertifiedIsNotBarren == Spec => []BarrenHaltUncertified
<1>1. RunInv => BarrenHaltUncertified
  BY DEF RunInv, ResultInv, RowsCertified, BarrenHaltUncertified
<1> QED
  BY <1>1, Invariance, PTL

\* Once a generation is saved, every problem id that one of its slots ended with
\* has its row in the file (the row of the slot met first with that id), or that
\* row was certified with a surface the file already had: whatever the other
\* rows are, whatever is backfilled, and however often the command is rerun.
THEOREM ResultsArrive == Spec => []ResultsReachFile
<1>1. Init => ResultsReachFile
  BY DEF Init, ResultsReachFile
<1>2. RunInv /\ ResultsReachFile /\ [Next]_vars => ResultsReachFile'
  <2> SUFFICES ASSUME RunInv, ResultsReachFile, [Next]_vars, phase' = "decide", NEW x \in DOMAIN outputs'
               PROVE  \/ \E i \in DOMAIN file' : file'[i] = RowOf(generation, met[x])'
                      \/ /\ outputs'[met'[x]].status = "certified"
                         /\ \E i \in DOMAIN file' : file'[i].key = outputs'[met'[x]].key
    BY DEF ResultsReachFile
  <2>1. CASE Save
    <3> DEFINE s == met[x]
    <3>1. /\ s \in DOMAIN outputs /\ outputs' = outputs /\ met'[x] = s
          /\ RowOf(generation, met[x])' = RowOf(generation, s)
          /\ \E i \in DOMAIN results : results[i] = RowOf(generation, s)
      BY <2>1 DEF Save, RowOf, RunInv, RowInv
    <3> HIDE DEF s
    <3>2. PICK written \in Deduplicated(RowsToWrite) :
              file' = IF AppendOnly THEN file \o written ELSE written
      BY <2>1 DEF Save
    <3>3. RowsToWrite \in Seq(Rows)
      BY RowsToWriteType
    <3>4. written \in Seq(Rows)
      BY <3>2, <3>3, WrittenRows
    <3>5. PICK i \in DOMAIN RowsToWrite : RowsToWrite[i] = RowOf(generation, s)
      <4>1. PICK j \in DOMAIN results : results[j] = RowOf(generation, s)
        BY <3>1
      <4>2. /\ pending \in Seq(Rows) /\ results \in Seq(Rows)
            /\ Len(pending) \in Nat /\ DOMAIN results = 1..Len(results) /\ Len(results) \in Nat
        BY DEF RunInv, TypeOK
      <4>3. /\ DOMAIN RowsToWrite = 1..Len(pending) + Len(results)
            /\ \A m \in 1..Len(pending) + Len(results) :
                  RowsToWrite[m] = IF m <= Len(pending) THEN pending[m] ELSE results[m - Len(pending)]
        BY <4>2, ConcatProperties DEF RowsToWrite
      <4>4. PICK m \in 1..Len(pending) + Len(results) : m = Len(pending) + j
        BY <4>1, <4>2
      <4>5. ~(m <= Len(pending)) /\ m - Len(pending) = j
        BY <4>1, <4>2, <4>4
      <4> QED
        BY <4>1, <4>3, <4>4, <4>5
    <3>6. ASSUME NEW n \in DOMAIN written
          PROVE  \E m \in DOMAIN file' : file'[m] = written[n]
      <4>1. CASE AppendOnly
        <5>1. file \in Seq(Lines) /\ written \in Seq(Lines) /\ Len(file) \in Nat
          <6>1. written \in Seq(Lines)
            BY <3>4 DEF Lines
          <6> QED
            BY <6>1 DEF RunInv, TypeOK, Lines
        <5>2. Len(file) + n \in 1..Len(file) + Len(written) /\ Len(file) + n > Len(file)
              /\ Len(file) + n - Len(file) = n
          BY <3>4, <5>1
        <5> QED
          BY <3>2, <4>1, <5>1, <5>2, ConcatProperties
      <4>2. CASE ~AppendOnly
        BY <3>2, <4>2
      <4> QED
        BY <4>1, <4>2
    <3>7. RowOf(generation, s).key = outputs[s].key /\ RowOf(generation, s).status = outputs[s].status
      BY DEF RowOf
    <3>8. CASE i \notin Repeats(RowsToWrite)
      <4>1. PICK n \in DOMAIN written : written[n] = RowsToWrite[i]
        BY <3>2, <3>3, <3>5, <3>8, OthersAreWritten
      <4>2. PICK m \in DOMAIN file' : file'[m] = written[n]
        BY <3>6
      <4> QED
        BY <3>1, <3>5, <4>1, <4>2
    <3>9. CASE i \in Repeats(RowsToWrite)
      <4>1. outputs[s].status = "certified"
        BY <3>3, <3>5, <3>7, <3>9, RepeatsAreWritten
      <4>2. CASE outputs[s].key \in OnDisk
        <5>1. AppendOnly /\ \E m \in DOMAIN file : file[m].key = outputs[s].key
          BY <4>2 DEF OnDisk
        <5>2. PICK m \in DOMAIN file : file[m].key = outputs[s].key
          BY <5>1
        <5>3. file \in Seq(Lines) /\ written \in Seq(Lines)
          <6>1. written \in Seq(Lines)
            BY <3>4 DEF Lines
          <6> QED
            BY <6>1 DEF RunInv, TypeOK, Lines
        <5>4. m \in DOMAIN file' /\ file'[m] = file[m]
          BY <3>2, <5>1, <5>3, ConcatProperties
        <5> QED
          BY <3>1, <4>1, <5>2, <5>4
      <4>3. CASE \E j \in DOMAIN RowsToWrite \ Repeats(RowsToWrite) :
                     RowsToWrite[j].key = outputs[s].key
        <5>1. PICK j \in DOMAIN RowsToWrite \ Repeats(RowsToWrite) :
                  RowsToWrite[j].key = outputs[s].key
          BY <4>3
        <5>2. PICK n \in DOMAIN written : written[n] = RowsToWrite[j]
          BY <3>2, <3>3, <5>1, OthersAreWritten
        <5> QED
          BY <3>1, <3>6, <4>1, <5>1, <5>2
      <4> QED
        BY <3>3, <3>5, <3>7, <3>9, <4>2, <4>3, RepeatsAreWritten
    <3> QED
      BY <3>8, <3>9
  <2>2. CASE ~Save
    <3>1. phase = "decide" /\ UNCHANGED <<outputs, met, file, generation>>
      <4>1. ASSUME NEW s \in 0..PoolSize + DefaultReserve + ReserveBudget, SlotUnit(s)
            PROVE  FALSE
        BY <4>1 DEF SlotUnit
      <4> QED
        BY <2>2, <4>1
        DEF Next, vars, channels, disk, GenerationZero, PlanGeneration, Reserve, AllDone, Aggregate,
            SaveRaises, Decide, GoOn, Crash, CrashInSave, Restart
    <3> QED
      BY <3>1 DEF ResultsReachFile, RowOf
  <2> QED
    BY <2>1, <2>2
<1> QED
  BY <1>1, <1>2, Invariance, PTL DEF Spec

\* A positive reserve budget bounds the reserve slots a generation dispatches
\* (a budget of zero reads as the default one).
THEOREM ReserveIsBounded ==
    ASSUME ReserveBudget # 0
    PROVE  Spec => []ReserveWithinBudget
<1>1. RunInv => ReserveWithinBudget
  <2> SUFFICES ASSUME RunInv PROVE ReserveWithinBudget
    OBVIOUS
  <2>1. PICK n \in 0..PoolSize + Budget : work \in [0..n - 1 -> {"survivor", "generated"}]
    BY DEF RunInv, WorkInv
  <2>2. n \in Nat /\ n <= PoolSize + ReserveBudget
    BY <2>1, SizesAssumption DEF Budget
  <2>3. Cardinality(0..n - 1) = IF 0 > n - 1 THEN 0 ELSE n - 1 - 0 + 1
    BY <2>2, FS_Interval
  <2>4. DOMAIN work = 0..n - 1
    BY <2>1
  <2> QED
    BY <2>2, <2>3, <2>4, SizesAssumption DEF ReserveWithinBudget
<1> QED
  BY <1>1, Invariance, PTL

\* After BARREN_GENERATION_LIMIT generations in which no generated slot heard
\* from the provider, no further generation is planned.
THEOREM SilenceStops == Spec => SilenceStopsTheRun
<1>1. RunInv /\ [Next]_vars =>
          [phase = "plan" /\ phase' = "slots" /\ generation >= BarrenLimit
              => answered \cap LastGenerations # {}]_vars
  <2> SUFFICES ASSUME RunInv, phase = "plan", generation >= BarrenLimit,
                      answered \cap LastGenerations = {}
               PROVE  FALSE
    OBVIOUS
  <2>1. BarrenLimit \in 1..generation
    BY SizesAssumption DEF RunInv, TypeOK
  <2>2. SilentSince(generation, BarrenLimit)
    BY <2>1, SizesAssumption, SMTT(30) DEF SilentSince, LastGenerations, RunInv, TypeOK
  <2>3. streak >= BarrenLimit
    BY <2>1, <2>2 DEF RunInv, SilenceInv
  <2> QED
    BY <2>3, SizesAssumption DEF RunInv, LoopInv, TypeOK
<1> QED
  BY <1>1, Invariance, PTL DEF Spec, SilenceStopsTheRun

\* Without generation-zero targets the cumulative count is the number of lines
\* this run has put on disk.
THEOREM CountIsLines ==
    ASSUME GenZeroTargets = 0
    PROVE  Spec => []CountMatchesFile
<1>1. RunInv => CountMatchesFile
  BY DEF RunInv, CountInv, CountMatchesFile
<1> QED
  BY <1>1, Invariance, PTL

\* Without generation-zero targets no step, and no crash during a write, loses
\* or changes a line that is on disk.
THEOREM FileOnlyGrows ==
    ASSUME GenZeroTargets = 0
    PROVE  Spec => FileGrows
<1>1. ASSUME NEW f \in Seq(Lines), NEW g \in Seq(Lines)
      PROVE  IsPrefix(f, f \o g)
  <2>1. Len(f) <= Len(f \o g) /\ Len(f) \in Nat
    BY ConcatProperties
  <2>2. SubSeq(f, 1, Len(f)) = SubSeq(f \o g, 1, Len(f))
    <3>1. CASE Len(f) = 0
      BY <3>1, SubSeqEmpty
    <3>2. CASE Len(f) > 0
      <4>1. 1 \in 1..Len(f) /\ Len(f) \in 1..Len(f)
        BY <2>1, <3>2
      <4> QED
        BY <4>1, SubSeqOfConcat1
    <3> QED
      BY <2>1, <3>1, <3>2
  <2> QED
    BY <2>1, <2>2 DEF IsPrefix
<1>2. RunInv /\ [Next]_vars => [IsPrefix(file, file')]_disk
  <2> SUFFICES ASSUME RunInv, [Next]_vars, ~UNCHANGED disk
               PROVE  IsPrefix(file, file')
    OBVIOUS
  <2>1. Save \/ CrashInSave
    <3>1. ASSUME NEW s \in 0..PoolSize + DefaultReserve + ReserveBudget, SlotUnit(s)
          PROVE  UNCHANGED disk
      BY <3>1 DEF SlotUnit, disk
    <3> QED
      BY <3>1
      DEF Next, vars, GenerationZero, PlanGeneration, Reserve, Aggregate, SaveRaises, Decide, Crash
  <2>2. file \in Seq(Lines) /\ Kept = file
    BY DEF RunInv, TypeOK, Lines, CountInv, FileInv, Kept, AppendOnly
  <2>3. PICK g \in Seq(Lines) : file' = Kept \o g
    BY <2>1, FileAfterSave, FileAfterCrash, SMTT(30) DEF Lines
  <2> QED
    BY <1>1, <2>2, <2>3
<1> QED
  BY <1>2, Invariance, PTL DEF Spec, FileGrows

=============================================================================
