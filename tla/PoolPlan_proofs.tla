--------------------------- MODULE PoolPlan_proofs ---------------------------
(***************************************************************************)
(* Theorems about PoolPlan, for every pool, crossover count, reserve,      *)
(* offspring cap and number of generations, and, in the second half, about *)
(* PoolSlot, the slot workers the plan is handed to, for every set of      *)
(* parents and signatures and every retry budget.  The two modules share   *)
(* no name but the operators of the library.                               *)
(***************************************************************************)
EXTENDS PoolPlan, PoolSlot, SequenceTheorems, FiniteSetTheorems, WellFoundedInduction, TLAPS

\* The items of a plan over parents ps.
ItemsOf(ps) ==
    {Item(op, <<p>>) : op \in {"survivor", "mutation"}, p \in ps}
        \cup {Item("crossover", d) : d \in {d \in ps \X ps : d[1] # d[2]}}

IsPlan(items, ps) == items \in [1..PoolSize -> ItemsOf(ps)]

NoKin(items) ==
    \A i \in Crossovers(items) : ~SameRootLineage(items[i].parents[1], items[i].parents[2])

\* What a mutation with this first parent could still be crossed with.
Used(items, first, from) ==
    \A p \in Range(from) :
        \/ SameRootLineage(first, p)
        \/ \E j \in Crossovers(items) : Pair(items[j]) = {first, p}

\* How many crossovers validation tries to reach.
Wanted(items) == Min({crossoverCount, Cardinality(Generated(items))})

PoolInv ==
    /\ pool \in [1..PoolSize -> Range(pool)]
    /\ \A p \in Range(pool) : Mark(p)[1] <= generation
    /\ generation < MaxGenerations \/ phase = "ended"

\* A plan stands from its making to the selection, and was made over the
\* parents that were not withheld.
PlanInv ==
    /\ ~Planned => plan = <<>>
    /\ Planned =>
          /\ IsPlan(plan, Range(pool)) /\ NoKin(plan)
          /\ Cardinality(DOMAIN plan \ Generated(plan)) = Survivors
          /\ locked => Cardinality(Crossovers(plan)) = crossoverCount
    /\ phase = "slots" =>
          /\ IsPlan(plan, Range(PlannedPool))
          /\ \A j \in 1..PoolSize : plan[j].op = "mutation" =>
                \/ Cardinality(Crossovers(plan)) >= Wanted(plan)
                \/ Used(plan, plan[j].parents[1], PlannedPool)

ReserveInv ==
    /\ reserve \in Seq(ItemsOf(Range(pool)))
    /\ phase \notin {"reserve", "select"} => reserve = <<>>
    /\ locked /\ crossoverCount = 0 => Crossovers(reserve) = {}

\* A child is of the next generation: it is none of the pool's problems.
ChildrenInv ==
    /\ IsFiniteSet(certified)
    /\ \A c \in certified : IsProblem(c) /\ Mark(c)[1] = generation + 1

IInv == TypeOK /\ PoolInv /\ PlanInv /\ ReserveInv /\ ChildrenInv /\ PlanFailsOnlyWhen

-----------------------------------------------------------------------------
(* Numbers and recursion.                                                   *)

\* A nonempty set of naturals has a least element, which is its Min.
LEMMA LeastElement ==
    ASSUME NEW S \in SUBSET Nat, S # {}
    PROVE  \E m \in S : \A j \in S : m <= j
<1>1. PICK m \in S : \A y \in S : ~ (<<y, m>> \in OpToRel(<, Nat))
  BY NatLessThanWellFounded, WFMin
<1>2. \A y \in S : ~ (y < m)
  BY <1>1 DEF OpToRel
<1> QED
  BY <1>2

LEMMA MinIsLeast ==
    ASSUME NEW S \in SUBSET Nat, S # {}
    PROVE  Min(S) \in S /\ \A j \in S : Min(S) <= j
BY LeastElement DEF Min

LEMMA MinOfTwo ==
    ASSUME NEW a \in Nat, NEW b \in Nat
    PROVE  Min({a, b}) = IF a <= b THEN a ELSE b
<1>1. Min({a, b}) \in {a, b} /\ \A j \in {a, b} : Min({a, b}) <= j
  BY MinIsLeast
<1> QED
  BY <1>1

LEMMA FunctionIsSeq ==
    ASSUME NEW n \in Nat, NEW T, NEW f \in [1..n -> T]
    PROVE  f \in Seq(T) /\ Len(f) = n /\ DOMAIN f = 1..n
OBVIOUS

\* What holds at 0 and is handed on holds up to n.
LEMMA Induction ==
    ASSUME NEW n \in Nat, NEW Good, 0 \in Good,
           \A k \in 1..n : k - 1 \in Good => k \in Good
    PROVE  \A k \in 0..n : k \in Good
<1> DEFINE Bad == {k \in 0..n : k \notin Good}
<1> SUFFICES ASSUME Bad # {} PROVE FALSE
  OBVIOUS
<1>1. PICK m \in Bad : \A j \in Bad : m <= j
  <2>1. Bad \in SUBSET Nat
    OBVIOUS
  <2> HIDE DEF Bad
  <2> QED
    BY <2>1, LeastElement
<1>2. m \in 1..n
  OBVIOUS
<1>3. m - 1 \in 0..n /\ m - 1 \notin Bad
  BY <1>1, <1>2
<1> QED
  BY <1>2, <1>3

\* A function may be defined by recursion over the first n naturals.
Recurs(g, S, s0, n, F) ==
    g \in [0..n -> S] /\ g[0] = s0 /\ \A k \in 1..n : g[k] = F[k][g[k - 1]]

LEMMA Recursion ==
    ASSUME NEW S, NEW s0 \in S, NEW n \in Nat, NEW F \in [1..n -> [S -> S]]
    PROVE  \E g : Recurs(g, S, s0, n, F)
<1> DEFINE Start(m) == {g \in [0..m -> S] : g[0] = s0 /\ \A k \in 1..m : g[k] = F[k][g[k - 1]]}
           Good == {m \in 0..n : Start(m) # {}}
<1>1. 0 \in Good
  <2>1. [k \in 0..0 |-> s0] \in Start(0)
    OBVIOUS
  <2> QED
    BY <2>1
<1>2. ASSUME NEW m \in 1..n, m - 1 \in Good PROVE m \in Good
  <2>1. PICK g \in [0..m - 1 -> S] : g[0] = s0 /\ \A k \in 1..m - 1 : g[k] = F[k][g[k - 1]]
    BY <1>2
  <2> DEFINE longer == [k \in 0..m |-> IF k = m THEN F[m][g[m - 1]] ELSE g[k]]
  <2>2. longer \in [0..m -> S]
    <3>1. \A k \in 0..m : k # m => k \in 0..m - 1
      OBVIOUS
    <3>2. F[m][g[m - 1]] \in S
      <4>1. g[m - 1] \in S /\ F[m] \in [S -> S]
        BY <2>1
      <4> QED
        BY <4>1
    <3> QED
      BY <3>1, <3>2, <2>1
  <2>3. longer[0] = s0
    BY <2>1
  <2>4. ASSUME NEW k \in 1..m PROVE longer[k] = F[k][longer[k - 1]]
    <3>1. k - 1 \in 0..m /\ k - 1 # m /\ longer[k - 1] = g[k - 1]
      OBVIOUS
    <3>2. CASE k = m
      BY <3>1, <3>2
    <3>3. CASE k # m
      <4>1. k \in 1..m - 1 /\ k \in 0..m
        BY <3>3
      <4> QED
        BY <3>1, <3>3, <4>1, <2>1
    <3> QED
      BY <3>2, <3>3
  <2>5. longer \in Start(m)
    BY <2>2, <2>3, <2>4
  <2> QED
    BY <2>5
<1>3. \A m \in 0..n : m \in Good
  <2> HIDE DEF Good
  <2> QED
    BY <1>1, <1>2, Induction
<1>4. n \in Good
  BY <1>3
<1> QED
  BY <1>4 DEF Recurs

-----------------------------------------------------------------------------
(* The elements of a sequence that are in a set.                            *)

Keeping(g, S, s, set) ==
    /\ g \in [0..Len(s) -> Seq(S)]
    /\ g[0] = <<>>
    /\ \A k \in 1..Len(s) : g[k] = IF s[k] \in set THEN Append(g[k - 1], s[k]) ELSE g[k - 1]
    /\ Kept(s, set) = g[Len(s)]

LEMMA KeptSteps ==
    ASSUME NEW S, NEW s \in Seq(S), NEW set
    PROVE  \E g : Keeping(g, S, s, set)
<1> DEFINE n == Len(s)
           T == Seq(S)
           Step(k, t) == IF s[k] \in set THEN Append(t, s[k]) ELSE t
           F == [k \in 1..n |-> [t \in T |-> Step(k, t)]]
           Steps(g) == g = [i \in 0..n |-> IF i = 0 THEN <<>> ELSE Step(i, g[i - 1])]
<1>1. n \in Nat
  OBVIOUS
<1>2. \A k \in 1..n : \A t \in T : Step(k, t) \in T
  BY AppendProperties
<1>3. F \in [1..n -> [T -> T]]
  <2> HIDE DEF Step, n
  <2> QED
    BY <1>2
<1>4. PICK g \in [0..n -> T] : g[0] = <<>> /\ \A k \in 1..n : g[k] = F[k][g[k - 1]]
  <2> DEFINE empty == <<>>
  <2>1. empty \in T
    BY EmptySeq
  <2> HIDE DEF F, n, T, empty
  <2>2. \E g : Recurs(g, T, empty, n, F)
    BY <1>1, <1>3, <2>1, Recursion
  <2> QED
    BY <2>2 DEF Recurs, empty
<1>5. \A k \in 1..n : g[k] = Step(k, g[k - 1])
  <2> TAKE k \in 1..n
  <2>1. k - 1 \in 0..n
    BY <1>1
  <2>2. g[k - 1] \in T
    BY <2>1
  <2> HIDE DEF Step, n
  <2> QED
    BY <1>4, <2>2
<1>6. Steps(g)
  <2> HIDE DEF Step, n
  <2>1. \A i \in 0..n : g[i] = IF i = 0 THEN <<>> ELSE Step(i, g[i - 1])
    BY <1>1, <1>4, <1>5
  <2> QED
    BY <2>1
<1> DEFINE kept == CHOOSE f : Steps(f)
<1>7. Steps(kept)
  <2> HIDE DEF Steps
  <2> QED
    BY <1>6
<1>8. Kept(s, set) = kept[n]
  BY DEF Kept
<1> HIDE DEF kept
<1>9. kept[0] = <<>> /\ \A k \in 1..n : kept[k] = Step(k, kept[k - 1])
  <2> HIDE DEF Step, n
  <2>1. \A i \in 0..n : kept[i] = IF i = 0 THEN <<>> ELSE Step(i, kept[i - 1])
    BY <1>7
  <2> QED
    BY <1>1, <2>1
<1>10. \A k \in 0..n : kept[k] \in T
  <2> DEFINE Good == {k \in 0..n : kept[k] \in T}
  <2>1. 0 \in Good
    <3>1. 0 \in 0..n /\ kept[0] \in T
      BY <1>1, <1>9, EmptySeq
    <3> QED
      BY <3>1
  <2>2. \A k \in 1..n : k - 1 \in Good => k \in Good
    <3> HIDE DEF Step, n
    <3> QED
      BY <1>1, <1>2, <1>9
  <2>3. \A k \in 0..n : k \in Good
    <3> HIDE DEF Good, n
    <3> QED
      BY <1>1, <2>1, <2>2, Induction
  <2> QED
    BY <2>3
<1>11. kept \in [0..n -> T]
  <2> HIDE DEF Step, n
  <2>1. DOMAIN kept = 0..n /\ kept = [i \in 0..n |-> kept[i]]
    BY <1>7
  <2> QED
    BY <2>1, <1>10
<1>12. kept \in [0..Len(s) -> Seq(S)]
  BY <1>11
<1>13. \A k \in 1..Len(s) : kept[k] = IF s[k] \in set THEN Append(kept[k - 1], s[k]) ELSE kept[k - 1]
  BY <1>9
<1>14. Kept(s, set) = kept[Len(s)]
  BY <1>8
<1>15. kept[0] = <<>>
  BY <1>9
<1> HIDE DEF Step, n, T, F
<1>16. Keeping(kept, S, s, set)
  BY <1>12, <1>13, <1>14, <1>15 DEF Keeping
<1> QED
  BY <1>16

\* What is kept is in the set, all of what is in the set is kept, nothing is
\* repeated that was not, and if nothing was dropped nothing has changed.
LEMMA KeptProperties ==
    ASSUME NEW S, NEW s \in Seq(S), NEW set
    PROVE  /\ Kept(s, set) \in Seq(S)
           /\ Len(Kept(s, set)) <= Len(s)
           /\ Range(Kept(s, set)) = Range(s) \cap set
           /\ IsInjective(s) => IsInjective(Kept(s, set))
           /\ Len(Kept(s, set)) = Len(s) => Kept(s, set) = s
<1>0. PICK g : Keeping(g, S, s, set)
  BY KeptSteps
<1> DEFINE n == Len(s)
<1>1. /\ g \in [0..n -> Seq(S)]
      /\ g[0] = <<>>
      /\ \A k \in 1..n : g[k] = IF s[k] \in set THEN Append(g[k - 1], s[k]) ELSE g[k - 1]
      /\ Kept(s, set) = g[n]
  BY <1>0 DEF Keeping
<1> DEFINE Sound(k) == /\ Len(g[k]) <= k
                       /\ \A i \in 1..Len(g[k]) : \E j \in 1..k : g[k][i] = s[j] /\ s[j] \in set
                       /\ \A j \in 1..k : s[j] \in set => \E i \in 1..Len(g[k]) : g[k][i] = s[j]
                       /\ IsInjective(s) => \A i, j \in 1..Len(g[k]) : g[k][i] = g[k][j] => i = j
                       /\ Len(g[k]) = k => \A i \in 1..k : g[k][i] = s[i]
           Good == {k \in 0..n : Sound(k)}
<1>2. n \in Nat /\ DOMAIN s = 1..n
  OBVIOUS
<1>3. 0 \in Good
  <2>1. Len(g[0]) = 0 /\ 0 \in 0..n
    BY <1>1, <1>2
  <2>2. Sound(0)
    BY <2>1
  <2> QED
    BY <2>1, <2>2
<1>4. ASSUME NEW k \in 1..n, k - 1 \in Good PROVE k \in Good
  <2>0. k - 1 \in 0..n /\ k \in 0..n
    BY <1>2
  <2>1. k - 1 \in 0..n /\ Sound(k - 1) /\ g[k - 1] \in Seq(S) /\ g[k] \in Seq(S) /\ s[k] \in S
    <3>1. Sound(k - 1)
      <4> HIDE DEF Sound
      <4> QED
        BY <1>4
    <3>2. g[k - 1] \in Seq(S) /\ g[k] \in Seq(S)
      <4> HIDE DEF n
      <4> QED
        BY <2>0, <1>1
    <3> QED
      BY <2>0, <3>1, <3>2, <1>2
  <2>2. CASE s[k] \notin set
    <3>1. g[k] = g[k - 1]
      BY <1>1, <2>2
    <3>2. \A j \in 1..k : s[j] \in set => j \in 1..k - 1
      BY <2>2
    <3>3. Len(g[k]) # k
      BY <2>1, <3>1
    <3>4. Len(g[k]) <= k
      BY <2>1, <3>1
    <3>5. \A i \in 1..Len(g[k]) : \E j \in 1..k : g[k][i] = s[j] /\ s[j] \in set
      BY <2>1, <3>1
    <3>6. \A j \in 1..k : s[j] \in set => \E i \in 1..Len(g[k]) : g[k][i] = s[j]
      BY <2>1, <3>1, <3>2
    <3>7. IsInjective(s) => \A i, j \in 1..Len(g[k]) : g[k][i] = g[k][j] => i = j
      BY <2>1, <3>1
    <3>8. Sound(k)
      BY <3>3, <3>4, <3>5, <3>6, <3>7
    <3> HIDE DEF Sound
    <3> QED
      BY <2>0, <3>8
  <2>3. CASE s[k] \in set
    <3> DEFINE m == Len(g[k - 1])
    <3>1. /\ Len(g[k]) = m + 1 /\ m \in Nat
          /\ \A i \in 1..m : g[k][i] = g[k - 1][i]
          /\ g[k][m + 1] = s[k]
      <4>1. g[k] = Append(g[k - 1], s[k])
        BY <1>1, <2>3
      <4>2. g[k - 1] \in Seq(S) /\ s[k] \in S
        BY <2>1
      <4> HIDE DEF n
      <4> QED
        BY <4>1, <4>2, AppendProperties, LenProperties
    <3>2. \A i \in 1..m + 1 : i # m + 1 => i \in 1..m
      BY <3>1
    <3>3. Len(g[k]) <= k
      BY <2>1, <3>1
    <3>4. \A i \in 1..m + 1 : \E j \in 1..k : g[k][i] = s[j] /\ s[j] \in set
      <4> TAKE i \in 1..m + 1
      <4>1. CASE i = m + 1
        BY <4>1, <3>1, <2>3
      <4>2. CASE i # m + 1
        <5>1. i \in 1..m
          BY <4>2, <3>2
        <5>2. PICK j \in 1..k - 1 : g[k - 1][i] = s[j] /\ s[j] \in set
          BY <5>1, <2>1
        <5>3. j \in 1..k
          OBVIOUS
        <5> QED
          BY <5>1, <5>2, <5>3, <3>1
      <4> QED
        BY <4>1, <4>2
    <3>5. \A j \in 1..k : s[j] \in set => \E i \in 1..m + 1 : g[k][i] = s[j]
      <4> TAKE j \in 1..k
      <4> HAVE s[j] \in set
      <4>1. CASE j = k
        <5>1. m + 1 \in 1..m + 1
          BY <3>1
        <5> QED
          BY <4>1, <5>1, <3>1
      <4>2. CASE j # k
        <5>1. j \in 1..k - 1
          BY <4>2
        <5>2. PICK i \in 1..m : g[k - 1][i] = s[j]
          BY <5>1, <2>1
        <5>3. i \in 1..m + 1
          BY <3>1
        <5> QED
          BY <5>2, <5>3, <3>1
      <4> QED
        BY <4>1, <4>2
    <3>6. ASSUME IsInjective(s), NEW i \in 1..m + 1, NEW j \in 1..m + 1, g[k][i] = g[k][j] PROVE i = j
      <4>1. \A l \in 1..m : g[k][l] # s[k]
        <5> TAKE l \in 1..m
        <5>1. PICK h \in 1..k - 1 : g[k - 1][l] = s[h]
          BY <2>1
        <5>2. h \in 1..n /\ h # k
          BY <1>2
        <5>3. s[h] # s[k]
          BY <5>2, <1>2, <3>6 DEF IsInjective
        <5> QED
          BY <5>1, <5>3, <3>1
      <4>2. CASE i = m + 1 \/ j = m + 1
        BY <4>1, <4>2, <3>1, <3>2, <3>6
      <4>3. CASE i # m + 1 /\ j # m + 1
        <5>1. i \in 1..m /\ j \in 1..m
          BY <4>3, <3>2
        <5> QED
          BY <5>1, <3>1, <3>6, <2>1
      <4> QED
        BY <4>2, <4>3
    <3>7. ASSUME Len(g[k]) = k, NEW i \in 1..k PROVE g[k][i] = s[i]
      <4>1. m = k - 1
        BY <3>1, <3>7
      <4>2. CASE i = k
        BY <4>1, <4>2, <3>1
      <4>3. CASE i # k
        <5>1. i \in 1..k - 1
          BY <4>3
        <5> QED
          BY <4>1, <5>1, <2>1, <3>1
      <4> QED
        BY <4>2, <4>3
    <3>8. Sound(k)
      BY <3>1, <3>3, <3>4, <3>5, <3>6, <3>7
    <3> HIDE DEF Sound
    <3> QED
      BY <2>0, <3>8
  <2> QED
    BY <2>2, <2>3
<1>5. \A k \in 0..n : k \in Good
  <2> HIDE DEF Good, n
  <2> QED
    BY <1>2, <1>3, <1>4, Induction
<1>6. Sound(n) /\ g[n] \in Seq(S) /\ DOMAIN g[n] = 1..Len(g[n])
  <2>1. Sound(n)
    <3> HIDE DEF Sound
    <3> QED
      BY <1>2, <1>5
  <2>2. g[n] \in Seq(S)
    BY <1>1, <1>2
  <2> QED
    BY <2>1, <2>2
<1>7. Range(Kept(s, set)) = Range(s) \cap set
  <2> DEFINE t == g[n]
  <2>1. \A i \in DOMAIN t : t[i] \in Range(s) \cap set
    BY <1>2, <1>6 DEF Range
  <2>2. \A j \in DOMAIN s : s[j] \in set => s[j] \in Range(t)
    <3> TAKE j \in DOMAIN s
    <3> HAVE s[j] \in set
    <3>1. PICK i \in 1..Len(t) : t[i] = s[j]
      BY <1>2, <1>6
    <3>2. i \in DOMAIN t
      BY <1>6
    <3> HIDE DEF t
    <3> QED
      BY <3>1, <3>2 DEF Range
  <2> HIDE DEF t
  <2> QED
    BY <1>1, <2>1, <2>2 DEF Range, t
<1>8. IsInjective(s) => IsInjective(Kept(s, set))
  BY <1>1, <1>6 DEF IsInjective
<1>9. Len(g[n]) = n => g[n] = s
  BY <1>2, <1>6, SeqEqual
<1> QED
  BY <1>1, <1>6, <1>7, <1>8, <1>9
-----------------------------------------------------------------------------
(* Items, and the exploration pass.                                         *)

LEMMA SingleItem ==
    ASSUME NEW ps, NEW p \in ps, NEW op \in {"survivor", "mutation"}
    PROVE  /\ Item(op, <<p>>) \in ItemsOf(ps)
           /\ Item(op, <<p>>).op = op /\ Item(op, <<p>>).parents = <<p>>
BY DEF ItemsOf, Item

LEMMA CrossoverItem ==
    ASSUME NEW ps, NEW p \in ps, NEW q \in ps, p # q
    PROVE  /\ Item("crossover", <<p, q>>) \in ItemsOf(ps)
           /\ Item("crossover", <<p, q>>).op = "crossover"
           /\ Item("crossover", <<p, q>>).parents = <<p, q>>
<1>1. <<p, q>> \in {d \in ps \X ps : d[1] # d[2]}
  OBVIOUS
<1> QED
  BY <1>1 DEF ItemsOf, Item

LEMMA RangeOfTwo ==
    ASSUME NEW p, NEW q
    PROVE  Range(<<p, q>>) = {p, q} /\ Range(<<p>>) = {p}
<1>1. DOMAIN <<p, q>> = {1, 2} /\ DOMAIN <<p>> = {1}
  OBVIOUS
<1> QED
  BY <1>1 DEF Range

LEMMA PairOfTwo ==
    ASSUME NEW p, NEW q, p # q
    PROVE  IsFiniteSet({p, q}) /\ Cardinality({p, q}) = 2
<1> DEFINE one == {p}
<1>1. {p, q} = one \cup {q} /\ q \notin one
  OBVIOUS
<1>2. IsFiniteSet(one) /\ Cardinality(one) = 1
  BY FS_Singleton
<1> HIDE DEF one
<1>3. IsFiniteSet(one \cup {q}) /\ Cardinality(one \cup {q}) = 2
  BY <1>1, <1>2, FS_AddElement
<1> QED
  BY <1>1, <1>3

LEMMA ItemShape ==
    ASSUME NEW ps, NEW item \in ItemsOf(ps)
    PROVE  /\ item.op \in {"survivor", "mutation", "crossover"}
           /\ item.parents[1] \in ps
           /\ item.op # "crossover" => item.parents = <<item.parents[1]>> /\ Pair(item) = {item.parents[1]}
           /\ item.op = "crossover" =>
                 /\ item.parents[2] \in ps /\ item.parents[1] # item.parents[2]
                 /\ item.parents = <<item.parents[1], item.parents[2]>>
                 /\ Pair(item) = {item.parents[1], item.parents[2]}
<1>1. CASE item \in {Item(op, <<p>>) : op \in {"survivor", "mutation"}, p \in ps}
  <2>1. PICK op \in {"survivor", "mutation"}, p \in ps : item = Item(op, <<p>>)
    BY <1>1
  <2>2. item.op = op /\ item.parents = <<p>>
    BY <2>1 DEF Item
  <2>3. item.op # "crossover" /\ item.parents[1] = p
    BY <2>2
  <2> QED
    BY <2>2, <2>3, RangeOfTwo DEF Pair
<1>2. CASE item \in {Item("crossover", d) : d \in {d \in ps \X ps : d[1] # d[2]}}
  <2>1. PICK d \in ps \X ps : d[1] # d[2] /\ item = Item("crossover", d)
    BY <1>2
  <2>2. item.op = "crossover" /\ item.parents = d
    BY <2>1 DEF Item
  <2>3. d = <<d[1], d[2]>> /\ d[1] \in ps /\ d[2] \in ps
    BY <2>1
  <2>4. Range(d) = {d[1], d[2]}
    BY <2>3, RangeOfTwo
  <2> QED
    BY <2>1, <2>2, <2>3, <2>4 DEF Pair
<1> QED
  BY <1>1, <1>2 DEF ItemsOf

LEMMA ItemPair ==
    ASSUME NEW ps, NEW item \in ItemsOf(ps)
    PROVE  Pair(item) \subseteq ps /\ Cardinality(Pair(item)) = (IF item.op = "crossover" THEN 2 ELSE 1)
<1>1. CASE item.op = "crossover"
  <2>1. PICK p \in ps, q \in ps : p # q /\ Pair(item) = {p, q}
    BY <1>1, ItemShape
  <2> QED
    BY <1>1, <2>1, PairOfTwo
<1>2. CASE item.op # "crossover"
  <2>1. PICK p \in ps : Pair(item) = {p}
    BY <1>2, ItemShape
  <2> QED
    BY <1>2, <2>1, FS_Singleton
<1> QED
  BY <1>1, <1>2

LEMMA ItemsOfMore ==
    ASSUME NEW ps, NEW qs, ps \subseteq qs
    PROVE  ItemsOf(ps) \subseteq ItemsOf(qs)
BY DEF ItemsOf

\* Where the exploration pass can stand.
Dones(n, ps) == [items : [1..n -> ItemsOf(ps)], count : Nat, pairs : SUBSET SUBSET ps]

\* It leaves an item, or crosses a mutation's parent with one it can be crossed with.
Leaves(done, i, first, from, wanted) ==
    \/ done.items[i].op # "mutation" \/ done.count >= wanted
    \/ Partners(first, from, done.pairs) = {}

Crosses(done, after, i, first, q, wanted) ==
    /\ done.items[i].op = "mutation" /\ done.count < wanted
    /\ q # first /\ ~SameRootLineage(first, q)
    /\ after = [items |-> [done.items EXCEPT ![i] = Item("crossover", <<first, q>>)],
                count |-> done.count + 1, pairs |-> done.pairs \cup {{first, q}}]

Promotes(done, after, i, from, wanted) ==
    \/ after = done /\ Leaves(done, i, done.items[i].parents[1], from, wanted)
    \/ \E q \in Range(from) : Crosses(done, after, i, done.items[i].parents[1], q, wanted)

LEMMA OnePromotion ==
    ASSUME NEW P, NEW from \in Seq(P), NEW n \in Nat, NEW done \in Dones(n, Range(from)),
           NEW i \in 1..n, NEW wanted \in Nat
    PROVE  /\ Promote(done, i, from, wanted) \in Dones(n, Range(from))
           /\ Promotes(done, Promote(done, i, from, wanted), i, from, wanted)
<1> DEFINE first == done.items[i].parents[1]
           partners == Partners(first, from, done.pairs)
           q == from[Min(partners)]
           after == [items |-> [done.items EXCEPT ![i] = Item("crossover", <<first, q>>)],
                     count |-> done.count + 1,
                     pairs |-> done.pairs \cup {{first, q}}]
<1>0. /\ done.items \in [1..n -> ItemsOf(Range(from))] /\ done.count \in Nat
      /\ done.pairs \in SUBSET SUBSET Range(from) /\ done.items[i] \in ItemsOf(Range(from))
  BY DEF Dones
<1>1. CASE done.items[i].op # "mutation" \/ done.count >= wanted \/ partners = {}
  <2>1. Promote(done, i, from, wanted) = done
    BY <1>1 DEF Promote
  <2> QED
    BY <2>1, <1>1 DEF Promotes, Leaves
<1>2. CASE done.items[i].op = "mutation" /\ ~(done.count >= wanted) /\ partners # {}
  <2>1. Min(partners) \in partners
    <3>1. partners \in SUBSET Nat
      BY DEF Partners
    <3> HIDE DEF partners
    <3> QED
      BY <1>2, <3>1, MinIsLeast
  <2>2. Min(partners) \in DOMAIN from /\ q # first /\ ~SameRootLineage(first, q)
    BY <2>1 DEF Partners
  <2>3. q \in Range(from) /\ first \in Range(from)
    <3>1. first \in Range(from)
      BY <1>0, ItemShape
    <3>2. q \in Range(from)
      <4> HIDE DEF partners
      <4> QED
        BY <2>2 DEF Range
    <3> QED
      BY <3>1, <3>2
  <2>4. Promote(done, i, from, wanted) = after
    <3>1. Range(<<first, q>>) = {first, q}
      <4> HIDE DEF first, q
      <4> QED
        BY RangeOfTwo
    <3> QED
      BY <1>2, <3>1 DEF Promote
  <2> HIDE DEF first, partners, q
  <2>5. Item("crossover", <<first, q>>) \in ItemsOf(Range(from))
    BY <2>2, <2>3, CrossoverItem
  <2>6. after \in Dones(n, Range(from))
    <3>1. [done.items EXCEPT ![i] = Item("crossover", <<first, q>>)] \in [1..n -> ItemsOf(Range(from))]
      BY <1>0, <2>5
    <3>2. done.count + 1 \in Nat /\ done.pairs \cup {{first, q}} \in SUBSET SUBSET Range(from)
      BY <1>0, <2>3
    <3> QED
      BY <3>1, <3>2 DEF Dones
  <2>7. done.count < wanted
    BY <1>0, <1>2
  <2>8. Crosses(done, after, i, first, q, wanted)
    BY <1>2, <2>2, <2>7 DEF Crosses
  <2> HIDE DEF after
  <2> QED
    BY <2>3, <2>4, <2>6, <2>8 DEF Promotes, first
<1> QED
  BY <1>1, <1>2

LEMMA PlanType ==
    ASSUME NEW ps, NEW items, IsPlan(items, ps)
    PROVE  /\ DOMAIN items = 1..PoolSize /\ Len(items) = PoolSize /\ items \in Seq(ItemsOf(ps))
           /\ \A i \in 1..PoolSize : items[i] \in ItemsOf(ps)
           /\ Crossovers(items) \subseteq Generated(items) /\ Generated(items) \subseteq 1..PoolSize
           /\ IsFiniteSet(Generated(items)) /\ IsFiniteSet(Crossovers(items))
           /\ Cardinality(Generated(items)) \in Nat /\ Cardinality(Crossovers(items)) \in Nat
           /\ Cardinality(Crossovers(items)) <= Cardinality(Generated(items))
<1>1. PoolSize \in Nat /\ items \in [1..PoolSize -> ItemsOf(ps)]
  BY PlanAssumption DEF IsPlan
<1> DEFINE n == PoolSize
<1> HIDE DEF n
<1>2. DOMAIN items = 1..n /\ Len(items) = n /\ items \in Seq(ItemsOf(ps))
  BY <1>1 DEF n
<1>3. Crossovers(items) \subseteq Generated(items) /\ Generated(items) \subseteq 1..n
  BY <1>2 DEF Crossovers, Generated
<1>4. IsFiniteSet(1..n)
  BY <1>1, FS_Interval DEF n
<1>5. IsFiniteSet(Generated(items)) /\ IsFiniteSet(Crossovers(items))
  BY <1>3, <1>4, FS_Subset
<1>6. Cardinality(Crossovers(items)) <= Cardinality(Generated(items))
  BY <1>3, <1>5, FS_Subset
<1>7. Cardinality(Generated(items)) \in Nat /\ Cardinality(Crossovers(items)) \in Nat
  BY <1>5, FS_CardinalityType
<1> QED
  BY <1>1, <1>2, <1>3, <1>5, <1>6, <1>7 DEF n

LEMMA WantedType ==
    ASSUME NEW ps, NEW items, IsPlan(items, ps), crossoverCount \in CrossoverCounts
    PROVE  /\ crossoverCount \in Nat /\ Wanted(items) \in Nat
           /\ Wanted(items) = IF crossoverCount <= Cardinality(Generated(items))
                              THEN crossoverCount ELSE Cardinality(Generated(items))
<1>1. crossoverCount \in Nat
  BY PlanAssumption
<1>2. Cardinality(Generated(items)) \in Nat
  BY PlanType
<1> QED
  BY <1>1, <1>2, MinOfTwo DEF Wanted

\* g holds the stages of an exploration pass.
Exploring(g, items, from) ==
    /\ g \in [0..PoolSize -> Dones(PoolSize, Range(from))]
    /\ g[0] = [items |-> items, count |-> Cardinality(Crossovers(items)),
               pairs |-> {Pair(items[j]) : j \in Crossovers(items)}]
    /\ \A k \in 1..PoolSize : g[k] = Promote(g[k - 1], k, from, Wanted(items))
    /\ ForceCrossovers(items, from) = g[PoolSize].items

LEMMA ExplorationSteps ==
    ASSUME NEW P, NEW from \in Seq(P), NEW items, IsPlan(items, Range(from)),
           crossoverCount \in CrossoverCounts
    PROVE  \E g : Exploring(g, items, from)
<1> DEFINE n == PoolSize
           T == Dones(n, Range(from))
           wanted == Wanted(items)
           s0 == [items |-> items, count |-> Cardinality(Crossovers(items)),
                  pairs |-> {Pair(items[j]) : j \in Crossovers(items)}]
           F == [k \in 1..n |-> [t \in T |-> Promote(t, k, from, wanted)]]
           Steps(g) == g = [i \in 0..n |-> IF i = 0 THEN s0 ELSE Promote(g[i - 1], i, from, wanted)]
<1>1. n \in Nat /\ Len(items) = n /\ wanted \in Nat
  BY PlanAssumption, PlanType, WantedType
<1>2. s0 \in T
  <2>1. items \in [1..n -> ItemsOf(Range(from))] /\ Cardinality(Crossovers(items)) \in Nat
    BY PlanType DEF IsPlan
  <2>2. \A j \in Crossovers(items) : Pair(items[j]) \subseteq Range(from)
    BY PlanType, ItemPair
  <2>3. {Pair(items[j]) : j \in Crossovers(items)} \in SUBSET SUBSET Range(from)
    BY <2>2
  <2> QED
    BY <2>1, <2>3 DEF Dones
<1>3. \A k \in 1..n : \A t \in T : Promote(t, k, from, wanted) \in T
  <2> HIDE DEF n, wanted
  <2> QED
    BY <1>1, OnePromotion
<1>4. PICK g \in [0..n -> T] : g[0] = s0 /\ \A k \in 1..n : g[k] = F[k][g[k - 1]]
  <2>1. F \in [1..n -> [T -> T]]
    <3> HIDE DEF n, T, wanted
    <3> QED
      BY <1>3
  <2> HIDE DEF F, n, T, s0
  <2>2. \E g : Recurs(g, T, s0, n, F)
    BY <1>1, <1>2, <2>1, Recursion
  <2> QED
    BY <2>2 DEF Recurs
<1> HIDE DEF n, T, s0, wanted
<1>5. \A k \in 1..n : g[k] = Promote(g[k - 1], k, from, wanted)
  <2> TAKE k \in 1..n
  <2>1. k - 1 \in 0..n
    BY <1>1
  <2>2. g[k - 1] \in T
    BY <2>1
  <2> QED
    BY <1>4, <2>2
<1>6. Steps(g)
  <2>1. \A i \in 0..n : g[i] = IF i = 0 THEN s0 ELSE Promote(g[i - 1], i, from, wanted)
    BY <1>1, <1>4, <1>5
  <2> QED
    BY <2>1
<1> DEFINE promoted == CHOOSE f : Steps(f)
<1>7. Steps(promoted)
  <2> HIDE DEF Steps
  <2> QED
    BY <1>6
<1>8. ForceCrossovers(items, from) = promoted[n].items
  BY <1>1 DEF ForceCrossovers, n, s0, wanted, Wanted
<1> HIDE DEF promoted
<1>9. promoted[0] = s0 /\ \A k \in 1..n : promoted[k] = Promote(promoted[k - 1], k, from, wanted)
  <2>1. \A i \in 0..n : promoted[i] = IF i = 0 THEN s0 ELSE Promote(promoted[i - 1], i, from, wanted)
    BY <1>7
  <2> QED
    BY <1>1, <2>1
<1>10. \A k \in 0..n : promoted[k] \in T
  <2> DEFINE Good == {k \in 0..n : promoted[k] \in T}
  <2>1. 0 \in Good
    BY <1>1, <1>2, <1>9
  <2>2. \A k \in 1..n : k - 1 \in Good => k \in Good
    BY <1>1, <1>3, <1>9
  <2>3. \A k \in 0..n : k \in Good
    <3> HIDE DEF Good
    <3> QED
      BY <1>1, <2>1, <2>2, Induction
  <2> QED
    BY <2>3
<1>11. promoted \in [0..n -> T]
  <2>1. DOMAIN promoted = 0..n /\ promoted = [i \in 0..n |-> promoted[i]]
    BY <1>7
  <2> QED
    BY <2>1, <1>10
<1>12. Exploring(promoted, items, from)
  BY <1>8, <1>9, <1>11 DEF Exploring, n, T, s0, wanted
<1> QED
  BY <1>12

\* A mutation that the pass has made a crossover of.
IsPromoted(now, before) ==
    /\ before.op = "mutation" /\ now.op = "crossover"
    /\ now.parents[1] = before.parents[1]
    /\ ~SameRootLineage(now.parents[1], now.parents[2])

\* After k items: what is done, how it is counted, and why a mutation was left.
Stage(done, k, items, from) ==
    /\ \A j \in 1..PoolSize :
          done.items[j] = items[j] \/ (j <= k /\ IsPromoted(done.items[j], items[j]))
    /\ done.count = Cardinality(Crossovers(done.items))
    /\ done.pairs = {Pair(done.items[j]) : j \in Crossovers(done.items)}
    /\ done.count <= Wanted(items) \/ done.count = Cardinality(Crossovers(items))
    /\ \A j \in 1..k : done.items[j].op = "mutation" =>
          done.count >= Wanted(items) \/ Partners(items[j].parents[1], from, done.pairs) = {}

LEMMA NextStage ==
    ASSUME NEW P, NEW from \in Seq(P), NEW items, IsPlan(items, Range(from)),
           crossoverCount \in CrossoverCounts,
           NEW k \in 1..PoolSize, NEW done \in Dones(PoolSize, Range(from)),
           Stage(done, k - 1, items, from)
    PROVE  Stage(Promote(done, k, from, Wanted(items)), k, items, from)
<1> DEFINE after == Promote(done, k, from, Wanted(items))
           first == items[k].parents[1]
<1>0. PoolSize \in Nat /\ k - 1 \in Nat /\ Wanted(items) \in Nat /\ done.count \in Nat
  BY PlanAssumption, WantedType DEF Dones
<1>1. done.items[k] = items[k]
  BY DEF Stage
<1>2. IsPlan(done.items, Range(from)) /\ done.items \in [1..PoolSize -> ItemsOf(Range(from))]
  BY DEF Dones, IsPlan
<1>3. ASSUME after = done, Leaves(done, k, first, from, Wanted(items))
      PROVE  Stage(after, k, items, from)
  <2>1. \A j \in 1..k : j = k \/ j \in 1..k - 1
    BY <1>0
  <2>2. \A j \in 1..PoolSize : j <= k - 1 => j <= k
    BY <1>0
  <2> HIDE DEF after, first
  <2>3. Stage(done, k, items, from)
    BY <1>3, <2>1, <2>2 DEF Stage, Leaves, first
  <2> QED
    BY <1>3, <2>3
<1>4. ASSUME NEW q \in Range(from), Crosses(done, after, k, first, q, Wanted(items))
      PROVE  Stage(after, k, items, from)
  <2> HIDE DEF after, first
  <2>0. /\ items[k].op = "mutation" /\ done.count < Wanted(items)
        /\ q # first /\ ~SameRootLineage(first, q)
        /\ after = [items |-> [done.items EXCEPT ![k] = Item("crossover", <<first, q>>)],
                    count |-> done.count + 1, pairs |-> done.pairs \cup {{first, q}}]
    BY <1>1, <1>4 DEF Crosses
  <2> DEFINE item == Item("crossover", <<first, q>>)
  <2>1. item.op = "crossover" /\ item.parents[1] = first /\ item.parents[2] = q /\ Pair(item) = {first, q}
    <3>1. item.op = "crossover" /\ item.parents = <<first, q>>
      BY DEF Item
    <3>2. Range(<<first, q>>) = {first, q}
      BY RangeOfTwo
    <3> HIDE DEF item
    <3> QED
      BY <3>1, <3>2 DEF Pair
  <2> HIDE DEF item
  <2>2. after = [items |-> [done.items EXCEPT ![k] = item],
                 count |-> done.count + 1, pairs |-> done.pairs \cup {{first, q}}]
    BY <2>0 DEF item
  <2>3. /\ after.items = [done.items EXCEPT ![k] = item]
        /\ after.count = done.count + 1 /\ after.pairs = done.pairs \cup {{first, q}}
    BY <2>2
  <2>4. /\ after.items[k] = item /\ \A j \in 1..PoolSize : j # k => after.items[j] = done.items[j]
        /\ DOMAIN after.items = 1..PoolSize /\ DOMAIN done.items = 1..PoolSize
    BY <1>2, <2>3
  <2>5. Crossovers(after.items) = Crossovers(done.items) \cup {k} /\ k \notin Crossovers(done.items)
    BY <1>1, <2>0, <2>1, <2>4 DEF Crossovers
  <2>6. Cardinality(Crossovers(after.items)) = Cardinality(Crossovers(done.items)) + 1
    <3>1. IsFiniteSet(Crossovers(done.items))
      BY <1>2, PlanType
    <3> QED
      BY <2>5, <3>1, FS_AddElement
  <2>7. after.pairs = {Pair(after.items[j]) : j \in Crossovers(after.items)}
    <3>1. done.pairs = {Pair(done.items[j]) : j \in Crossovers(done.items)}
      BY DEF Stage
    <3>2. \A j \in Crossovers(done.items) : Pair(after.items[j]) = Pair(done.items[j])
      BY <2>4, <2>5 DEF Crossovers
    <3>3. Pair(after.items[k]) = {first, q}
      BY <2>1, <2>4
    <3> DEFINE X == Crossovers(done.items)
               Y == Crossovers(after.items)
    <3>4. Y = X \cup {k} /\ \A j \in X : Pair(after.items[j]) = Pair(done.items[j])
      BY <2>5, <3>2
    <3>5. done.pairs = {Pair(done.items[j]) : j \in X} /\ after.pairs = done.pairs \cup {{first, q}}
      BY <2>3, <3>1
    <3> HIDE DEF X, Y
    <3>6. after.pairs = {Pair(after.items[j]) : j \in Y}
      BY <3>3, <3>4, <3>5
    <3> QED
      BY <3>6 DEF Y
  <2>8. \A j \in 1..PoolSize : after.items[j] = items[j] \/ (j <= k /\ IsPromoted(after.items[j], items[j]))
    <3> TAKE j \in 1..PoolSize
    <3>1. CASE j = k
      <4>1. IsPromoted(item, items[k])
        BY <2>0, <2>1 DEF IsPromoted, first
      <4> QED
        BY <3>1, <4>1, <2>4
    <3>2. CASE j # k
      <4>1. after.items[j] = done.items[j]
        BY <3>2, <2>4
      <4>2. done.items[j] = items[j] \/ (j <= k - 1 /\ IsPromoted(done.items[j], items[j]))
        BY DEF Stage
      <4>3. j <= k - 1 => j <= k
        BY <1>0
      <4> QED
        BY <4>1, <4>2, <4>3
    <3> QED
      BY <3>1, <3>2
  <2>9. ASSUME NEW j \in 1..k, after.items[j].op = "mutation"
        PROVE  after.count >= Wanted(items) \/ Partners(items[j].parents[1], from, after.pairs) = {}
    <3>1. j # k /\ j \in 1..PoolSize /\ j \in 1..k - 1
      BY <1>0, <2>1, <2>4, <2>9
    <3>2. done.items[j].op = "mutation"
      BY <2>4, <2>9, <3>1
    <3>3. done.count >= Wanted(items) \/ Partners(items[j].parents[1], from, done.pairs) = {}
      BY <3>1, <3>2 DEF Stage
    <3>4. Partners(items[j].parents[1], from, after.pairs) \subseteq Partners(items[j].parents[1], from, done.pairs)
      BY <2>3 DEF Partners
    <3>5. ~(done.count >= Wanted(items))
      BY <1>0, <2>0
    <3> QED
      BY <3>3, <3>4, <3>5
  <2>10. after.count = Cardinality(Crossovers(after.items))
    BY <2>3, <2>6 DEF Stage
  <2>11. after.count <= Wanted(items)
    BY <1>0, <2>0, <2>3
  <2> QED
    BY <2>7, <2>8, <2>9, <2>10, <2>11 DEF Stage
<1>5. Promotes(done, after, k, from, Wanted(items))
  BY <1>0, OnePromotion
<1>6. Stage(after, k, items, from)
  <2> HIDE DEF after
  <2> QED
    BY <1>1, <1>3, <1>4, <1>5 DEF Promotes
<1> QED
  BY <1>6

LEMMA Explored ==
    ASSUME NEW P, NEW from \in Seq(P), NEW items, IsPlan(items, Range(from)),
           crossoverCount \in CrossoverCounts
    PROVE  LET forced == ForceCrossovers(items, from)
               crossed == Cardinality(Crossovers(forced))
           IN /\ IsPlan(forced, Range(from))
              /\ \A j \in 1..PoolSize : forced[j] = items[j] \/ IsPromoted(forced[j], items[j])
              /\ crossed <= Wanted(items) \/ crossed = Cardinality(Crossovers(items))
              /\ \A j \in 1..PoolSize : forced[j].op = "mutation" =>
                    crossed >= Wanted(items) \/ Used(forced, items[j].parents[1], from)
<1> DEFINE n == PoolSize
           forced == ForceCrossovers(items, from)
<1>1. PICK g : Exploring(g, items, from)
  BY ExplorationSteps
<1>2. n \in Nat /\ g \in [0..n -> Dones(n, Range(from))]
  BY <1>1, PlanAssumption DEF Exploring
<1> DEFINE Good == {k \in 0..n : Stage(g[k], k, items, from)}
<1>3. 0 \in Good
  <2>1. g[0].items = items /\ g[0].count = Cardinality(Crossovers(items))
        /\ g[0].pairs = {Pair(items[j]) : j \in Crossovers(items)}
    BY <1>1 DEF Exploring
  <2>2. Stage(g[0], 0, items, from)
    BY <2>1 DEF Stage
  <2> QED
    BY <1>2, <2>2
<1>4. ASSUME NEW k \in 1..n, k - 1 \in Good PROVE k \in Good
  <2>1. k - 1 \in 0..n /\ k \in 0..n /\ g[k - 1] \in Dones(n, Range(from))
    BY <1>2
  <2>2. Stage(g[k - 1], k - 1, items, from)
    BY <1>4
  <2>3. Stage(Promote(g[k - 1], k, from, Wanted(items)), k, items, from)
    BY <2>1, <2>2, NextStage
  <2>4. g[k] = Promote(g[k - 1], k, from, Wanted(items))
    BY <1>1 DEF Exploring
  <2> QED
    BY <2>1, <2>3, <2>4
<1>5. n \in Good
  <2>1. \A k \in 0..n : k \in Good
    <3> HIDE DEF Good, n
    <3> QED
      BY <1>2, <1>3, <1>4, Induction
  <2> QED
    BY <1>2, <2>1
<1>6. Stage(g[n], n, items, from) /\ forced = g[n].items /\ g[n] \in Dones(n, Range(from))
  BY <1>1, <1>2, <1>5 DEF Exploring
<1> HIDE DEF forced
<1>7. IsPlan(forced, Range(from))
  BY <1>6 DEF Dones, IsPlan
<1>8. \A j \in 1..PoolSize : forced[j] = items[j] \/ IsPromoted(forced[j], items[j])
  BY <1>6 DEF Stage
<1>9. g[n].count = Cardinality(Crossovers(forced))
  BY <1>6 DEF Stage
<1>10. \/ Cardinality(Crossovers(forced)) <= Wanted(items)
       \/ Cardinality(Crossovers(forced)) = Cardinality(Crossovers(items))
  BY <1>6, <1>9 DEF Stage
<1>11. ASSUME NEW j \in 1..PoolSize, forced[j].op = "mutation",
              ~(Cardinality(Crossovers(forced)) >= Wanted(items))
       PROVE  Used(forced, items[j].parents[1], from)
  <2> DEFINE first == items[j].parents[1]
  <2>1. Partners(first, from, g[n].pairs) = {}
    BY <1>6, <1>9, <1>11 DEF Stage
  <2>2. g[n].pairs = {Pair(forced[i]) : i \in Crossovers(forced)}
    BY <1>6 DEF Stage
  <2> HIDE DEF first
  <2>3. ASSUME NEW p \in Range(from), ~SameRootLineage(first, p)
        PROVE  \E i \in Crossovers(forced) : Pair(forced[i]) = {first, p}
    <3>1. p # first
      BY <2>3 DEF SameRootLineage
    <3>2. PICK m \in DOMAIN from : from[m] = p
      BY DEF Range
    <3>3. {first, p} \in g[n].pairs
      BY <2>1, <2>3, <3>1, <3>2 DEF Partners
    <3> QED
      BY <2>2, <3>3
  <2> QED
    BY <2>3 DEF Used, first
<1> QED
  BY <1>7, <1>8, <1>10, <1>11 DEF forced
-----------------------------------------------------------------------------
(* What validation makes of a plan.                                         *)

LEMMA Downgraded ==
    ASSUME NEW ps, NEW item \in ItemsOf(ps)
    PROVE  LET single == DowngradeSameLineage(item)
           IN /\ single \in ItemsOf(ps)
              /\ single.op = "survivor" <=> item.op = "survivor"
              /\ single.parents[1] = item.parents[1]
              /\ single.op = "crossover" =>
                    single = item /\ ~SameRootLineage(item.parents[1], item.parents[2])
              /\ ~(item.op = "crossover" /\ SameRootLineage(item.parents[1], item.parents[2])) =>
                    single = item
<1>1. CASE item.op = "crossover" /\ SameRootLineage(item.parents[1], item.parents[2])
  <2> DEFINE first == item.parents[1]
  <2>1. first \in ps /\ DowngradeSameLineage(item) = Item("mutation", <<first>>)
    BY <1>1, ItemShape DEF DowngradeSameLineage
  <2> HIDE DEF first
  <2>2. /\ Item("mutation", <<first>>) \in ItemsOf(ps)
        /\ Item("mutation", <<first>>).op = "mutation"
        /\ Item("mutation", <<first>>).parents[1] = first
    BY <2>1, SingleItem
  <2> QED
    BY <1>1, <2>1, <2>2 DEF first
<1>2. CASE ~(item.op = "crossover" /\ SameRootLineage(item.parents[1], item.parents[2]))
  BY <1>2 DEF DowngradeSameLineage
<1> QED
  BY <1>1, <1>2

\* What a normalised plan is to the plan it was made from.
Normal(made, items, from) ==
    /\ IsPlan(made, Range(from)) /\ NoKin(made)
    /\ Generated(made) = Generated(items)
    /\ \A j \in 1..PoolSize :
          /\ made[j].parents[1] = items[j].parents[1]
          /\ items[j].op = "crossover" /\ ~SameRootLineage(items[j].parents[1], items[j].parents[2]) =>
                made[j] = items[j]
    /\ \/ Cardinality(Crossovers(made)) <= Wanted(items)
       \/ Cardinality(Crossovers(made)) <= Cardinality(Crossovers(items))
    /\ \A j \in 1..PoolSize : made[j].op = "mutation" =>
          \/ Cardinality(Crossovers(made)) >= Wanted(items)
          \/ Used(made, made[j].parents[1], from)

LEMMA NormalisedPlan ==
    ASSUME NEW P, NEW from \in Seq(P), NEW items, IsPlan(items, Range(from)),
           crossoverCount \in CrossoverCounts
    PROVE  Normal(Normalised(items, from), items, from)
<1> DEFINE n == PoolSize
           ps == Range(from)
           single == [i \in DOMAIN items |-> DowngradeSameLineage(items[i])]
           forced == ForceCrossovers(single, from)
           made == Normalised(items, from)
<1>1. DOMAIN items = 1..n /\ \A i \in 1..n : items[i] \in ItemsOf(ps)
  BY PlanType
<1>2. /\ single = [i \in 1..n |-> DowngradeSameLineage(items[i])]
      /\ made = [i \in 1..n |-> DowngradeSameLineage(forced[i])]
  BY <1>1 DEF Normalised
<1> HIDE DEF single, made
<1>3. DOMAIN single = 1..n /\ \A i \in 1..n : single[i] = DowngradeSameLineage(items[i])
  BY <1>2
<1> HIDE DEF ps, n
<1>4. \A i \in 1..n :
         /\ single[i] \in ItemsOf(ps)
         /\ single[i].op = "survivor" <=> items[i].op = "survivor"
         /\ single[i].parents[1] = items[i].parents[1]
         /\ single[i].op = "crossover" =>
               single[i] = items[i] /\ ~SameRootLineage(items[i].parents[1], items[i].parents[2])
         /\ items[i].op = "crossover" /\ ~SameRootLineage(items[i].parents[1], items[i].parents[2]) =>
               single[i] = items[i]
  <2> TAKE i \in 1..n
  <2>1. single[i] = DowngradeSameLineage(items[i]) /\ items[i] \in ItemsOf(ps)
    BY <1>1, <1>3
  <2> QED
    BY <2>1, Downgraded
<1>5. single \in [1..n -> ItemsOf(ps)]
  BY <1>2, <1>3, <1>4
<1>6. IsPlan(single, ps)
  BY <1>5 DEF IsPlan, n
<1> DEFINE crossed == Cardinality(Crossovers(forced))
<1>7. /\ IsPlan(forced, ps)
      /\ \A j \in 1..n : forced[j] = single[j] \/ IsPromoted(forced[j], single[j])
      /\ crossed <= Wanted(single) \/ crossed = Cardinality(Crossovers(single))
      /\ \A j \in 1..n : forced[j].op = "mutation" =>
            crossed >= Wanted(single) \/ Used(forced, single[j].parents[1], from)
  BY <1>6, Explored DEF n, ps
<1> HIDE DEF forced
<1>8. DOMAIN forced = 1..n /\ \A j \in 1..n : forced[j] \in ItemsOf(ps)
  BY <1>7, PlanType DEF n
<1>9. \A j \in 1..n : forced[j].op = "crossover" =>
         ~SameRootLineage(forced[j].parents[1], forced[j].parents[2])
  BY <1>4, <1>7 DEF IsPromoted
<1>10. \A j \in 1..n : made[j] = forced[j]
  <2> TAKE j \in 1..n
  <2>1. made[j] = DowngradeSameLineage(forced[j])
    BY <1>2
  <2> QED
    BY <2>1, <1>9 DEF DowngradeSameLineage
<1>11. made = forced
  <2>1. forced \in [1..n -> ItemsOf(ps)] /\ made = [j \in 1..n |-> made[j]]
    BY <1>2, <1>7 DEF IsPlan, n
  <2> QED
    BY <2>1, <1>10
<1>12. \A j \in 1..n : made[j].parents[1] = items[j].parents[1]
  BY <1>4, <1>7, <1>10 DEF IsPromoted
<1>13. \A j \in 1..n : items[j].op = "crossover" /\ ~SameRootLineage(items[j].parents[1], items[j].parents[2]) =>
          made[j] = items[j]
  BY <1>4, <1>7, <1>10 DEF IsPromoted
<1>14. \A j \in 1..n : (made[j].op = "survivor") <=> (items[j].op = "survivor")
  BY <1>4, <1>7, <1>10 DEF IsPromoted
<1>15. Generated(made) = Generated(items) /\ Generated(single) = Generated(items)
  BY <1>1, <1>3, <1>4, <1>8, <1>11, <1>14 DEF Generated
<1>16. NoKin(made)
  BY <1>8, <1>9, <1>11 DEF NoKin, Crossovers
<1>17. Wanted(single) = Wanted(items)
  BY <1>15 DEF Wanted
<1>18. Cardinality(Crossovers(single)) <= Cardinality(Crossovers(items))
  <2>1. Crossovers(single) \subseteq Crossovers(items)
    BY <1>1, <1>3, <1>4 DEF Crossovers
  <2>2. IsFiniteSet(Crossovers(items))
    BY PlanType
  <2> QED
    BY <2>1, <2>2, FS_Subset
<1>19. \A j \in 1..n : made[j].op = "mutation" =>
          Cardinality(Crossovers(made)) >= Wanted(items) \/ Used(made, made[j].parents[1], from)
  BY <1>4, <1>7, <1>11, <1>12, <1>17
<1>20. \/ Cardinality(Crossovers(made)) <= Wanted(items)
       \/ Cardinality(Crossovers(made)) <= Cardinality(Crossovers(items))
  BY <1>7, <1>11, <1>17, <1>18
<1> QED
  BY <1>7, <1>11, <1>12, <1>13, <1>15, <1>16, <1>19, <1>20 DEF Normal, made, n, ps
-----------------------------------------------------------------------------
(* The pool, and the parents that are not withheld.                         *)

LEMMA PoolType ==
    ASSUME TypeOK, PoolInv
    PROVE  /\ PoolSize \in Nat /\ PoolSize >= 2
           /\ pool \in Seq(Range(pool)) /\ Len(pool) = PoolSize /\ IsInjective(pool)
           /\ \A i \in 1..PoolSize : pool[i] \in Range(pool)
<1>1. PoolSize \in Nat /\ PoolSize >= 2
  BY PlanAssumption
<1>2. pool \in [1..PoolSize -> Range(pool)] /\ IsInjective(pool)
  BY DEF PoolInv, TypeOK
<1> DEFINE n == PoolSize
           ps == Range(pool)
<1> HIDE DEF n, ps
<1>3. n \in Nat /\ pool \in [1..n -> ps]
  BY <1>1, <1>2 DEF n, ps
<1>4. pool \in Seq(ps) /\ Len(pool) = n /\ \A i \in 1..n : pool[i] \in ps
  BY <1>3
<1> QED
  BY <1>1, <1>2, <1>4 DEF n, ps

LEMMA SuffixedType ==
    ASSUME NEW id \in Seq(Parts), id # <<>>, NEW mark \in Nat \X Nat
    PROVE  /\ Suffixed(id, mark) \in Seq(Parts) /\ Suffixed(id, mark) # <<>>
           /\ Len(Suffixed(id, mark)) = Len(id) /\ Mark(Suffixed(id, mark)) = mark
           /\ \A k \in 1..Len(id) - 1 : Suffixed(id, mark)[k] = id[k]
<1>1. Len(id) \in Nat /\ Len(id) > 0 /\ id \in [1..Len(id) -> Parts]
  OBVIOUS
<1> DEFINE n == Len(id)
           part == [id[n] EXCEPT !.mark = mark]
<1>2. Suffixed(id, mark) = [id EXCEPT ![n] = part]
  BY DEF Suffixed
<1>3. part \in Parts /\ part.mark = mark
  <2> DEFINE a == id[n]
  <2>1. a \in [seed : SeedSet, mark : Nat \X Nat]
    BY <1>1 DEF Parts
  <2> HIDE DEF a
  <2>2. [a EXCEPT !.mark = mark] \in [seed : SeedSet, mark : Nat \X Nat]
    BY <2>1
  <2>3. [a EXCEPT !.mark = mark].mark = mark
    BY <2>1
  <2> QED
    BY <2>2, <2>3 DEF Parts, a
<1> HIDE DEF n, part
<1>4. n \in Nat /\ n > 0 /\ id \in [1..n -> Parts]
  BY <1>1 DEF n
<1>5. /\ Suffixed(id, mark) \in [1..n -> Parts] /\ Suffixed(id, mark)[n] = part
      /\ \A k \in 1..n - 1 : Suffixed(id, mark)[k] = id[k]
  BY <1>2, <1>3, <1>4
<1>6. Suffixed(id, mark) \in Seq(Parts) /\ Len(Suffixed(id, mark)) = n
  BY <1>4, <1>5, FunctionIsSeq
<1>7. Suffixed(id, mark) # <<>>
  BY <1>4, <1>6
<1> QED
  BY <1>3, <1>5, <1>6, <1>7 DEF Mark, n

LEMMA MarkType ==
    ASSUME NEW p, IsProblem(p)
    PROVE  Mark(p)[1] \in Nat
<1>1. p \in Seq(Parts) /\ Len(p) \in 1..Len(p)
  BY DEF IsProblem
<1>2. p[Len(p)] \in Parts
  BY <1>1
<1> QED
  BY <1>2 DEF Mark, Parts

LEMMA RootsType ==
    ASSUME NEW p, IsProblem(p)
    PROVE  Range(RootsOf(p)) \subseteq Parts /\ Range(Front(p)) \subseteq Parts
<1>1. p \in Seq(Parts) /\ p # <<>> /\ Bare \in Nat \X Nat
  BY DEF IsProblem, Bare
<1>2. RootsOf(p) \in Seq(Parts)
  BY <1>1, SuffixedType DEF RootsOf
<1>3. Front(p) \in Seq(Parts)
  BY <1>1 DEF Front
<1> QED
  BY <1>2, <1>3 DEF Range

Fresh == {p \in Range(pool) : \A root \in Range(RootsOf(p)) : Count(root) < OffspringCap}

LEMMA FreshIsNotSpent ==
    ASSUME TypeOK
    PROVE  Fresh = {p \in Range(pool) : ~Spent(p)}
<1> SUFFICES ASSUME NEW p \in Range(pool)
             PROVE  (\A root \in Range(RootsOf(p)) : Count(root) < OffspringCap) <=> ~Spent(p)
  BY DEF Fresh
<1>1. OffspringCap \in Nat /\ OffspringCap > 0 /\ \A root \in DOMAIN rows : rows[root] \in Nat
  BY PlanAssumption DEF TypeOK
<1>2. \A root : Count(root) < OffspringCap <=> root \notin Exhausted
  BY <1>1 DEF Count, Exhausted
<1> QED
  BY <1>2 DEF Spent

LEMMA PlannedPoolType ==
    ASSUME TypeOK, PoolInv
    PROVE  /\ PlannedPool \in Seq(Range(pool)) /\ IsInjective(PlannedPool)
           /\ Range(PlannedPool) \subseteq Range(pool)
           /\ Len(PlannedPool) \in Nat /\ 2 <= Len(PlannedPool) /\ Len(PlannedPool) <= PoolSize
           /\ Len(PlannedPool) = PoolSize => PlannedPool = pool
<1> DEFINE kept == Kept(pool, {p \in Range(pool) : ~Spent(p)})
<1>1. /\ kept \in Seq(Range(pool)) /\ Len(kept) <= Len(pool)
      /\ Range(kept) \subseteq Range(pool)
      /\ IsInjective(pool) => IsInjective(kept)
      /\ Len(kept) = Len(pool) => kept = pool
  BY PoolType, KeptProperties
<1>2. PlannedPool = IF Len(kept) >= 2 THEN kept ELSE pool
  BY DEF PlannedPool
<1>3. Len(kept) \in Nat
  BY <1>1
<1> HIDE DEF kept
<1>4. CASE Len(kept) >= 2
  BY <1>1, <1>2, <1>3, <1>4, PoolType
<1>5. CASE ~(Len(kept) >= 2)
  BY <1>2, <1>5, PoolType
<1> QED
  BY <1>4, <1>5

\* While two parents are not spent, only such parents are planned with.
LEMMA SpentAreWithheld ==
    ASSUME TypeOK, PoolInv, Cardinality(Fresh) >= 2
    PROVE  Range(PlannedPool) \subseteq Fresh
<1> DEFINE kept == Kept(pool, Fresh)
<1>1. kept \in Seq(Range(pool)) /\ Range(kept) = Range(pool) \cap Fresh
  BY PoolType, KeptProperties
<1>2. Range(kept) = Fresh
  BY <1>1 DEF Fresh
<1>3. PlannedPool = IF Len(kept) >= 2 THEN kept ELSE pool
  BY FreshIsNotSpent DEF PlannedPool
<1> HIDE DEF kept
<1>4. Len(kept) \in Nat /\ DOMAIN kept = 1..Len(kept)
  BY <1>1
<1>5. CASE Len(kept) = 0
  <2>1. Range(kept) = {}
    BY <1>4, <1>5 DEF Range
  <2> QED
    BY <1>2, <2>1, FS_EmptySet
<1>6. CASE Len(kept) = 1
  <2>1. Range(kept) = {kept[1]}
    BY <1>4, <1>6 DEF Range
  <2>2. Cardinality({kept[1]}) = 1
    BY FS_Singleton
  <2> QED
    BY <1>2, <2>1, <2>2
<1>7. CASE Len(kept) >= 2
  BY <1>2, <1>3, <1>7
<1> QED
  BY <1>4, <1>5, <1>6, <1>7

-----------------------------------------------------------------------------
(* The steps.                                                               *)

LEMMA InitInv == Init => IInv
<1> SUFFICES ASSUME Init PROVE IInv
  OBVIOUS
<1>1. PoolSize \in Nat /\ PoolSize >= 2 /\ Seeds \in Seq(SeedSet) /\ DOMAIN Seeds = 1..PoolSize
  <2>1. PoolSize \in Nat /\ PoolSize >= 2 /\ Seeds \in Seq(SeedSet)
    BY PlanAssumption
  <2>2. DOMAIN Seeds = 1..Len(Seeds)
    BY <2>1, LenProperties
  <2> QED
    BY <2>1, <2>2 DEF PoolSize
<1>2. /\ DOMAIN pool = 1..PoolSize /\ pool = [i \in 1..PoolSize |-> pool[i]]
      /\ \A i \in 1..PoolSize : pool[i] = <<Seed(Seeds[i])>> /\ Seeds[i] \in SeedSet
  BY <1>1 DEF Init, SeedPool
<1>3. \A s : <<Seed(s)>>[1].seed = s
  BY DEF Seed
<1>4. IsInjective(pool)
  <2> SUFFICES ASSUME NEW i \in 1..PoolSize, NEW j \in 1..PoolSize, pool[i] = pool[j] PROVE i = j
    BY <1>2 DEF IsInjective
  <2>1. Seeds[i] = Seeds[j]
    BY <1>2, <1>3
  <2> QED
    BY <1>1, <2>1, PlanAssumption DEF IsInjective
<1>14. \A s \in SeedSet : Seed(s) \in Parts /\ Seed(s).mark[1] = 0
  BY DEF Seed, Parts, Bare
<1>5. \A p \in Range(pool) : IsProblem(p) /\ Mark(p)[1] = 0
  <2>1. \A s \in SeedSet : IsProblem(<<Seed(s)>>) /\ Mark(<<Seed(s)>>)[1] = 0
    <3> TAKE s \in SeedSet
    <3> DEFINE part == Seed(s)
    <3>1. part \in Parts /\ part.mark[1] = 0
      BY <1>14
    <3> HIDE DEF part
    <3>2. <<part>> \in Seq(Parts) /\ Len(<<part>>) = 1 /\ <<part>>[1] = part
      BY <3>1
    <3> QED
      BY <3>1, <3>2 DEF IsProblem, Mark, part
  <2>2. \A i \in 1..PoolSize : IsProblem(pool[i]) /\ Mark(pool[i])[1] = 0
    BY <1>2, <2>1, ZenonT(60)
  <2>3. \A p \in Range(pool) : \E i \in 1..PoolSize : p = pool[i]
    BY <1>2 DEF Range
  <2> QED
    BY <2>2, <2>3
<1>6. pool \in [1..PoolSize -> Range(pool)]
  BY <1>2 DEF Range
<1>7. MaxGenerations \in Nat /\ MaxGenerations > 0 /\ OffspringCap \in Nat
  BY PlanAssumption
<1>8. TypeOK
  <2>1. Range(plan) = {} /\ Range(reserve) = {}
    BY DEF Init, Range
  <2>2. DOMAIN rows \subseteq Parts /\ rows \in [DOMAIN rows -> 0..OffspringCap]
    <3>1. PICK proved \in SUBSET SeedSet : rows = [r \in {Seed(s) : s \in proved} |-> 1]
      BY DEF Init
    <3>2. 1 \in 0..OffspringCap
      BY PlanAssumption
    <3> QED
      BY <1>14, <3>1, <3>2
  <2> QED
    BY <1>2, <1>4, <1>5, <1>7, <2>1, <2>2 DEF Init, TypeOK
<1>9. PoolInv
  BY <1>5, <1>6, <1>7 DEF PoolInv, Init
<1>10. PlanInv
  BY DEF PlanInv, Init, Planned
<1>11. ReserveInv
  BY DEF ReserveInv, Init, Crossovers
<1>12. ChildrenInv
  BY FS_EmptySet DEF ChildrenInv, Init
<1>13. PlanFailsOnlyWhen
  BY DEF PlanFailsOnlyWhen, Init
<1> QED
  BY <1>8, <1>9, <1>10, <1>11, <1>12, <1>13 DEF IInv

\* A plan that was accepted takes its place, whoever wrote it.
LEMMA PlanTaken ==
    ASSUME IInv, phase = "plan", NEW items, IsPlan(items, Range(PlannedPool)),
           Accepts(Normalised(items, PlannedPool)),
           phase' = "slots", plan' = Normalised(items, PlannedPool),
           UNCHANGED <<arguments, generation, pool, rows, reserve, certified>>
    PROVE  IInv'
<1> DEFINE from == PlannedPool
<1>1. TypeOK /\ PoolInv /\ ReserveInv /\ ChildrenInv
  BY DEF IInv
<1>2. /\ from \in Seq(Range(pool)) /\ Range(from) \subseteq Range(pool)
      /\ crossoverCount \in CrossoverCounts
  BY <1>1, PlannedPoolType DEF TypeOK
<1>3. PlannedPool' = PlannedPool
  BY DEF PlannedPool, Spent, Exhausted
<1> HIDE DEF from
<1>4. Normal(plan', items, from)
  BY <1>2, NormalisedPlan DEF from
<1>5. IsPlan(plan', Range(from)) /\ NoKin(plan') /\ Generated(plan') = Generated(items)
  BY <1>4 DEF Normal
<1>6. IsPlan(plan', Range(pool)) /\ DOMAIN plan' = 1..PoolSize
      /\ \A i \in 1..PoolSize : plan'[i] \in ItemsOf(Range(pool))
  <2>1. IsPlan(plan', Range(pool))
    <3> DEFINE qs == ItemsOf(Range(from))
               ps == ItemsOf(Range(pool))
    <3>1. qs \subseteq ps /\ plan' \in [1..PoolSize -> qs]
      BY <1>2, <1>5, ItemsOfMore DEF IsPlan
    <3> HIDE DEF ps, qs
    <3>2. plan' \in [1..PoolSize -> ps]
      BY <3>1
    <3> QED
      BY <3>2 DEF IsPlan, ps
  <2> QED
    BY <2>1, PlanType
<1>7. /\ Cardinality(DOMAIN plan' \ Generated(plan')) = Survivors
      /\ locked => Cardinality(Crossovers(plan')) = crossoverCount
  BY DEF Accepts
<1>8. reserve = <<>>
  BY <1>1 DEF ReserveInv
<1>9. TypeOK'
  <2>1. \A item \in Range(plan') \cup Range(reserve') :
           /\ item.op \in {"survivor", "mutation", "crossover"}
           /\ Pair(item) \subseteq Range(pool)
           /\ Cardinality(Pair(item)) = (IF item.op = "crossover" THEN 2 ELSE 1)
    <3>1. Range(reserve') = {}
      BY <1>8 DEF Range
    <3>2. \A item \in Range(plan') : item \in ItemsOf(Range(pool))
      BY <1>6 DEF Range
    <3> QED
      BY <3>1, <3>2, ItemShape, ItemPair
  <2> QED
    BY <1>1, <1>7, <2>1 DEF TypeOK, arguments
<1>10. PoolInv'
  BY <1>1 DEF PoolInv
<1>11. PlanInv'
  <2>1. Wanted(plan)' = Wanted(items)
    BY <1>5 DEF Wanted, arguments
  <2>2. \A j \in 1..PoolSize : plan'[j].op = "mutation" =>
           Cardinality(Crossovers(plan')) >= Wanted(plan)' \/ Used(plan', plan'[j].parents[1], from)
    BY <1>4, <2>1 DEF Normal
  <2>3. IsPlan(plan', Range(PlannedPool')) /\ Planned'
    BY <1>3, <1>5 DEF from, Planned
  <2>4. \A j \in 1..PoolSize : plan'[j].op = "mutation" =>
           Cardinality(Crossovers(plan')) >= Wanted(plan)' \/ Used(plan', plan'[j].parents[1], PlannedPool')
    BY <1>3, <2>2 DEF from
  <2> QED
    BY <1>5, <1>6, <1>7, <2>3, <2>4 DEF PlanInv, arguments
<1>12. ReserveInv'
  BY <1>1, <1>8 DEF ReserveInv, arguments, Crossovers
<1>13. ChildrenInv'
  BY <1>1 DEF ChildrenInv
<1>14. PlanFailsOnlyWhen'
  BY DEF PlanFailsOnlyWhen
<1> QED
  BY <1>9, <1>10, <1>11, <1>12, <1>13, <1>14 DEF IInv

LEMMA ProposalIsPlan ==
    ASSUME NEW from, NEW items \in Proposals(from)
    PROVE  IsPlan(items, Range(from))
<1> DEFINE ps == Range(from)
           one == {Item(op, <<p>>) : op \in {"survivor", "mutation"}, p \in ps}
           two == {Item("crossover", <<p, q>>) : p \in ps, q \in ps}
           chosen == one \cup {item \in two : Cardinality(Pair(item)) = 2}
<1>1. items \in [1..PoolSize -> chosen]
  BY DEF Proposals
<1>2. one \subseteq ItemsOf(ps)
  BY DEF ItemsOf
<1>3. ASSUME NEW item \in two, Cardinality(Pair(item)) = 2
      PROVE  item \in ItemsOf(ps)
  <2>1. PICK p \in ps, q \in ps : item = Item("crossover", <<p, q>>)
    OBVIOUS
  <2>2. Pair(item) = {p, q}
    <3>1. item.parents = <<p, q>>
      BY <2>1 DEF Item
    <3>2. Range(<<p, q>>) = {p, q}
      <4> HIDE DEF one, two, chosen, ps
      <4> QED
        BY RangeOfTwo
    <3> QED
      BY <3>1, <3>2 DEF Pair
  <2>3. p # q
    <3> HIDE DEF one, two, chosen, ps
    <3> SUFFICES ASSUME p = q PROVE FALSE
      OBVIOUS
    <3>1. Pair(item) = {p}
      BY <2>2
    <3>2. Cardinality({p}) = 1
      BY FS_Singleton
    <3> QED
      BY <1>3, <3>1, <3>2
  <2> QED
    BY <2>1, <2>3, CrossoverItem
<1>4. chosen \subseteq ItemsOf(ps)
  <2> HIDE DEF one, two, ps
  <2> QED
    BY <1>2, <1>3
<1> HIDE DEF chosen, ps
<1> QED
  BY <1>1, <1>4 DEF IsPlan, ps

\* Slot by slot, the fallback's survivor, crossovers and mutations.
FallbackItem(i, pairs, from) ==
    IF i <= Survivors THEN Item("survivor", <<from[1]>>)
    ELSE IF i <= Survivors + pairs
         THEN Item("crossover", <<from[2 * (i - Survivors) - 1], from[2 * (i - Survivors)]>>)
    ELSE Item("mutation", <<from[((2 * i - Survivors - pairs - 2) % PoolSize) + 1]>>)

LEMMA FallbackSlots ==
    ASSUME NEW P, NEW from \in Seq(P), Len(from) = PoolSize, IsInjective(from),
           crossoverCount \in CrossoverCounts,
           NEW pairs, pairs = Min({crossoverCount, PoolSize \div 2})
    PROVE  /\ pairs \in Nat /\ Survivors + pairs <= PoolSize
           /\ pairs <= crossoverCount /\ 2 * pairs <= PoolSize
           /\ pairs = crossoverCount \/ 2 * pairs >= PoolSize - 1
           /\ IsPlan(FallbackPlan(from), Range(from))
           /\ \A i \in 1..PoolSize : FallbackPlan(from)[i] = FallbackItem(i, pairs, from)
<1> DEFINE n == PoolSize
           ps == Range(from)
           T == ItemsOf(ps)
           survivor == IF Survivors = 1 THEN <<Item("survivor", <<from[1]>>)>> ELSE <<>>
           crossed == [i \in 1..pairs |-> Item("crossover", <<from[2 * i - 1], from[2 * i]>>)]
           rest == n - Survivors - pairs
           mutations == FallbackMutations(rest, from)
<1>1. n \in Nat /\ n >= 2 /\ Survivors \in {0, 1} /\ crossoverCount \in Nat /\ crossoverCount <= n - Survivors
  BY PlanAssumption
<1>2. DOMAIN from = 1..n /\ \A i \in 1..n : from[i] \in ps
  BY DEF Range
<1>3. /\ n \div 2 \in Nat /\ 2 * (n \div 2) <= n /\ 2 * (n \div 2) >= n - 1
  <2> HIDE DEF n
  <2> QED
    BY <1>1
<1>4. /\ pairs \in Nat /\ Survivors + pairs <= n /\ rest \in Nat
      /\ pairs <= crossoverCount /\ 2 * pairs <= n
      /\ pairs = crossoverCount \/ 2 * pairs >= n - 1
  <2>1. pairs = IF crossoverCount <= n \div 2 THEN crossoverCount ELSE n \div 2
    BY <1>1, <1>3, MinOfTwo
  <2> HIDE DEF n
  <2> QED
    BY <1>1, <1>3, <2>1
<1>5. \A x \in Nat : x % n \in 0..n - 1
  <2> HIDE DEF n
  <2> QED
    BY <1>1
<1>6. FallbackPlan(from) = survivor \o crossed \o mutations
  BY DEF FallbackPlan
<1> HIDE DEF n, ps
<1>7. /\ survivor \in Seq(T) /\ Len(survivor) = Survivors
      /\ Survivors = 1 => survivor[1] = Item("survivor", <<from[1]>>)
  <2>1. Item("survivor", <<from[1]>>) \in T
    <3>1. from[1] \in ps
      BY <1>1, <1>2
    <3> QED
      BY <3>1, SingleItem
  <2> HIDE DEF T
  <2> QED
    BY <1>1, <2>1
<1>8. /\ crossed \in Seq(T) /\ Len(crossed) = pairs
      /\ \A i \in 1..pairs : crossed[i] = Item("crossover", <<from[2 * i - 1], from[2 * i]>>)
  <2>1. \A i \in 1..pairs : Item("crossover", <<from[2 * i - 1], from[2 * i]>>) \in T
    <3> TAKE i \in 1..pairs
    <3>1. 2 * i - 1 \in 1..n /\ 2 * i \in 1..n /\ 2 * i - 1 # 2 * i
      BY <1>1, <1>4
    <3>2. from[2 * i - 1] \in ps /\ from[2 * i] \in ps /\ from[2 * i - 1] # from[2 * i]
      BY <1>2, <3>1 DEF IsInjective
    <3> QED
      BY <3>2, CrossoverItem
  <2> HIDE DEF T
  <2>2. crossed \in [1..pairs -> T]
    BY <2>1
  <2>3. crossed \in Seq(T) /\ Len(crossed) = pairs
    <3> HIDE DEF crossed
    <3> QED
      BY <1>4, <2>2, FunctionIsSeq
  <2> QED
    BY <2>3
<1>9. /\ mutations \in Seq(T) /\ Len(mutations) = rest
      /\ \A i \in 1..rest :
            mutations[i] = Item("mutation", <<from[((n - rest + 2 * (i - 1)) % n) + 1]>>)
  <2>1. mutations = [i \in 1..rest |-> Item("mutation", <<from[((n - rest + 2 * (i - 1)) % n) + 1]>>)]
    BY DEF FallbackMutations, n
  <2> HIDE DEF mutations
  <2>2. \A i \in 1..rest : mutations[i] = Item("mutation", <<from[((n - rest + 2 * (i - 1)) % n) + 1]>>)
    BY <2>1
  <2>3. \A i \in 1..rest : mutations[i] \in T
    <3> TAKE i \in 1..rest
    <3> DEFINE x == n - rest + 2 * (i - 1)
    <3>1. x \in Nat
      <4>1. n - rest = Survivors + pairs /\ i - 1 \in Nat
        BY <1>1, <1>4
      <4>2. n - rest \in Nat
        BY <1>1, <1>4, <4>1
      <4> HIDE DEF n, rest
      <4> QED
        BY <4>1, <4>2
    <3> HIDE DEF x
    <3>2. (x % n) + 1 \in 1..n
      <4> DEFINE r == x % n
      <4>1. r \in 0..n - 1
        BY <1>5, <3>1
      <4> HIDE DEF r
      <4>2. r + 1 \in 1..n
        BY <1>1, <4>1
      <4> QED
        BY <4>2 DEF r
    <3>3. from[(x % n) + 1] \in ps
      BY <1>2, <3>2
    <3>4. mutations[i] = Item("mutation", <<from[(x % n) + 1]>>)
      BY <2>2 DEF x
    <3> QED
      BY <3>3, <3>4, SingleItem
  <2> HIDE DEF T, rest
  <2>4. mutations \in [1..rest -> T]
    BY <2>1, <2>3
  <2>5. mutations \in Seq(T) /\ Len(mutations) = rest
    <3> HIDE DEF mutations
    <3> QED
      BY <1>4, <2>4, FunctionIsSeq
  <2> QED
    BY <2>2, <2>5
<1>10. \A i \in 1..n : FallbackPlan(from)[i] = FallbackItem(i, pairs, from)
       /\ FallbackPlan(from) \in Seq(T) /\ Len(FallbackPlan(from)) = n
  <2> DEFINE head == survivor \o crossed
  <2>1. /\ head \in Seq(T) /\ Len(head) = Survivors + pairs
        /\ \A i \in 1..Survivors + pairs : head[i] = IF i <= Survivors THEN survivor[i] ELSE crossed[i - Survivors]
    <3> HIDE DEF survivor, crossed, T
    <3>1. /\ head \in Seq(T) /\ Len(head) = Len(survivor) + Len(crossed)
          /\ \A i \in 1..Len(survivor) + Len(crossed) : head[i] =
                IF i <= Len(survivor) THEN survivor[i] ELSE crossed[i - Len(survivor)]
      BY <1>7, <1>8, ConcatProperties
    <3>2. Len(survivor) = Survivors /\ Len(crossed) = pairs
      BY <1>7, <1>8
    <3> HIDE DEF head
    <3> QED
      BY <3>1, <3>2
  <2>2. /\ FallbackPlan(from) \in Seq(T) /\ Len(FallbackPlan(from)) = n
        /\ \A i \in 1..n : FallbackPlan(from)[i] =
              IF i <= Survivors + pairs THEN head[i] ELSE mutations[i - (Survivors + pairs)]
    <3>1. FallbackPlan(from) = head \o mutations
      BY <1>6
    <3>2. Len(head) + Len(mutations) = n
      BY <1>1, <1>4, <1>9, <2>1
    <3> HIDE DEF head, mutations, T
    <3>3. /\ head \o mutations \in Seq(T) /\ Len(head \o mutations) = Len(head) + Len(mutations)
          /\ \A i \in 1..Len(head) + Len(mutations) : (head \o mutations)[i] =
                IF i <= Len(head) THEN head[i] ELSE mutations[i - Len(head)]
      BY <1>9, <2>1, ConcatProperties
    <3>4. Len(head) = Survivors + pairs
      BY <2>1
    <3> DEFINE all == head \o mutations
    <3> HIDE DEF all
    <3>5. all = FallbackPlan(from) /\ all \in Seq(T) /\ Len(all) = n
      BY <3>1, <3>2, <3>3 DEF all
    <3>6. \A i \in 1..n : all[i] = IF i <= Survivors + pairs THEN head[i] ELSE mutations[i - (Survivors + pairs)]
      BY <3>2, <3>3, <3>4 DEF all
    <3> QED
      BY <3>5, <3>6
  <2> HIDE DEF head, survivor, crossed, mutations
  <2>3. ASSUME NEW i \in 1..n PROVE FallbackPlan(from)[i] = FallbackItem(i, pairs, from)
    <3>1. CASE i <= Survivors
      <4>1. i = 1 /\ Survivors = 1 /\ i <= Survivors + pairs /\ i \in 1..Survivors + pairs
        BY <1>1, <1>4, <3>1
      <4> QED
        BY <1>7, <2>1, <2>2, <3>1, <4>1 DEF FallbackItem
    <3>2. CASE ~(i <= Survivors) /\ i <= Survivors + pairs
      <4>1. i \in 1..Survivors + pairs /\ i - Survivors \in 1..pairs
        BY <1>1, <1>4, <3>2
      <4>2. FallbackPlan(from)[i] = crossed[i - Survivors]
        BY <2>1, <2>2, <3>2, <4>1
      <4> QED
        BY <1>8, <3>2, <4>1, <4>2 DEF FallbackItem
    <3>3. CASE ~(i <= Survivors) /\ ~(i <= Survivors + pairs)
      <4> DEFINE j == i - (Survivors + pairs)
      <4>0. i \in Int /\ n \in Int /\ pairs \in Int /\ Survivors \in Int
        BY <1>1, <1>4
      <4>1. j \in 1..rest
        BY <1>1, <1>4, <3>3, <4>0, SMTT(30)
      <4>5. n - rest + 2 * (j - 1) = 2 * i - Survivors - pairs - 2
        BY <4>0
      <4>2. FallbackPlan(from)[i] = mutations[j]
        BY <2>2, <3>3
      <4>3. mutations[j] = Item("mutation", <<from[((n - rest + 2 * (j - 1)) % n) + 1]>>)
        <5> HIDE DEF j, rest
        <5> QED
          BY <1>9, <4>1
      <4>4. mutations[j] = Item("mutation", <<from[((2 * i - Survivors - pairs - 2) % n) + 1]>>)
        <5> HIDE DEF j, rest
        <5> QED
          BY <4>3, <4>5
      <4> HIDE DEF j
      <4> QED
        BY <3>3, <4>2, <4>4 DEF FallbackItem, n
    <3> QED
      BY <3>1, <3>2, <3>3
  <2> QED
    BY <2>2, <2>3
<1>11. IsPlan(FallbackPlan(from), Range(from))
  <2> HIDE DEF T
  <2>1. FallbackPlan(from) \in [1..n -> T]
    <3>1. FallbackPlan(from) \in Seq(T) /\ Len(FallbackPlan(from)) = n
      BY <1>1, <1>10
    <3>2. FallbackPlan(from) \in [1..Len(FallbackPlan(from)) -> T]
      BY <3>1, LenProperties
    <3> QED
      BY <3>1, <3>2
  <2> QED
    BY <2>1 DEF IsPlan, T, n, ps
<1> QED
  BY <1>4, <1>10, <1>11 DEF n

-----------------------------------------------------------------------------
(* The fallback's plan is accepted but where it cannot be.                  *)

LEMMA InjectionBounds ==
    ASSUME NEW A, NEW B, IsFiniteSet(B), NEW f \in [A -> B], IsInjective(f)
    PROVE  Cardinality(A) <= Cardinality(B)
BY FS_Injection DEF Injection

LEMMA PoolCardinality ==
    ASSUME TypeOK, PoolInv
    PROVE  IsFiniteSet(Range(pool)) /\ Cardinality(Range(pool)) = PoolSize
<1> DEFINE n == PoolSize
           ps == Range(pool)
<1>1. n \in Nat /\ n >= 2 /\ pool \in [1..n -> ps] /\ IsInjective(pool)
  BY PoolType DEF PoolInv
<1>2. \A p \in ps : \E i \in 1..n : pool[i] = p
  BY <1>1 DEF Range
<1> HIDE DEF n, ps
<1>3. pool \in Surjection(1..n, ps) /\ pool \in Injection(1..n, ps)
  BY <1>1, <1>2 DEF Surjection, Injection
<1>4. IsFiniteSet(1..n) /\ Cardinality(1..n) = n
  BY <1>1, FS_Interval
<1>5. IsFiniteSet(ps) /\ Cardinality(ps) = Cardinality(1..n)
  BY <1>3, <1>4, FS_Surjection
<1> QED
  BY <1>4, <1>5 DEF n, ps

\* One crossover for each problem that one is crossed with.
LEMMA OnePairEach ==
    ASSUME NEW items, NEW ps, NEW first, NEW B, IsFiniteSet(B),
           \A p \in ps : p # first /\ \E i \in B : Pair(items[i]) = {first, p}
    PROVE  Cardinality(ps) <= Cardinality(B)
<1> DEFINE f == [p \in ps |-> CHOOSE i \in B : Pair(items[i]) = {first, p}]
<1>1. \A p \in ps : f[p] \in B /\ Pair(items[f[p]]) = {first, p}
  OBVIOUS
<1>2. f \in [ps -> B]
  BY <1>1
<1>3. IsInjective(f)
  <2> SUFFICES ASSUME NEW p \in ps, NEW q \in ps, f[p] = f[q] PROVE p = q
    BY DEF IsInjective
  <2> HIDE DEF f
  <2>1. {first, p} = {first, q}
    BY <1>1
  <2> QED
    BY <2>1
<1> HIDE DEF f
<1> QED
  BY <1>2, <1>3, InjectionBounds

PoolHasKin ==
    \E i, j \in 1..PoolSize : i # j /\ SameRootLineage(pool[i], pool[j])

\* A mutation is left while the budget is not spent, and no problem is kin to
\* another: what its parent would have been crossed with, it was crossed with.
LEMMA OneForEachOther ==
    ASSUME TypeOK, PoolInv, ~PoolHasKin, NEW made, NEW first \in Range(pool),
           Used(made, first, pool), NEW B, IsFiniteSet(B),
           \A i \in Crossovers(made) : first \in Pair(made[i]) => i \in B
    PROVE  PoolSize - 1 <= Cardinality(B)
<1> DEFINE others == Range(pool) \ {first}
<1>1. IsFiniteSet(others) /\ Cardinality(others) = PoolSize - 1
  <2> DEFINE ps == Range(pool)
  <2>1. IsFiniteSet(ps) /\ Cardinality(ps) = PoolSize /\ first \in ps
    BY PoolCardinality
  <2> HIDE DEF ps
  <2>2. IsFiniteSet(ps \ {first}) /\ Cardinality(ps \ {first}) = Cardinality(ps) - 1
    BY <2>1, FS_RemoveElement
  <2> QED
    BY <2>1, <2>2 DEF ps
<1>2. ASSUME NEW p \in others
      PROVE  p # first /\ \E i \in B : Pair(made[i]) = {first, p}
  <2>1. ~SameRootLineage(first, p)
    <3>1. DOMAIN pool = 1..PoolSize
      BY PoolType
    <3>2. PICK i \in 1..PoolSize, j \in 1..PoolSize : first = pool[i] /\ p = pool[j]
      BY <3>1 DEF Range
    <3> QED
      BY <1>2, <3>2 DEF PoolHasKin
  <2>2. PICK i \in Crossovers(made) : Pair(made[i]) = {first, p}
    BY <1>2, <2>1 DEF Used
  <2> QED
    BY <1>2, <2>2
<1>3. Cardinality(others) <= Cardinality(B)
  <2> HIDE DEF others
  <2> QED
    BY <1>2, OnePairEach
<1> QED
  BY <1>1, <1>3

\* Pairs of the fallback that are no kin stay as they are.
LEMMA FallbackKept ==
    ASSUME TypeOK, PoolInv, NEW pairs, pairs = Min({crossoverCount, PoolSize \div 2}),
           NEW made, Normal(made, FallbackPlan(pool), pool), ~PoolHasKin, Survivors = 0,
           NEW i \in 1..pairs
    PROVE  /\ i \in Crossovers(made) /\ Pair(made[i]) = {pool[2 * i - 1], pool[2 * i]}
           /\ 2 * i - 1 \in 1..PoolSize /\ 2 * i \in 1..PoolSize
<1> DEFINE items == FallbackPlan(pool)
           p == pool[2 * i - 1]
           q == pool[2 * i]
<1>1. /\ pool \in Seq(Range(pool)) /\ Len(pool) = PoolSize /\ IsInjective(pool)
      /\ PoolSize \in Nat /\ crossoverCount \in CrossoverCounts
  BY PoolType DEF TypeOK
<1>2. /\ pairs \in Nat /\ pairs <= PoolSize /\ 2 * pairs <= PoolSize
      /\ \A j \in 1..PoolSize : items[j] = FallbackItem(j, pairs, pool)
  <2>1. /\ pairs \in Nat /\ Survivors + pairs <= PoolSize /\ 2 * pairs <= PoolSize
        /\ \A j \in 1..PoolSize : FallbackPlan(pool)[j] = FallbackItem(j, pairs, pool)
    BY <1>1, FallbackSlots
  <2>2. pairs <= PoolSize
    BY <1>1, <2>1
  <2> QED
    BY <2>1, <2>2
<1>3. i \in 1..PoolSize /\ 2 * i - 1 \in 1..PoolSize /\ 2 * i \in 1..PoolSize /\ 2 * i - 1 # 2 * i
      /\ 2 * (i - Survivors) = 2 * i /\ ~(i <= Survivors) /\ i <= Survivors + pairs
  BY <1>1, <1>2
<1>4. items[i] = Item("crossover", <<p, q>>)
  BY <1>2, <1>3 DEF FallbackItem
<1>5. ~SameRootLineage(p, q)
  BY <1>3 DEF PoolHasKin, SameRootLineage
<1>6. DOMAIN made = 1..PoolSize
  BY PlanType DEF Normal
<1> HIDE DEF items, p, q
<1>7. items[i].op = "crossover" /\ items[i].parents = <<p, q>>
  BY <1>4 DEF Item
<1>8. items[i].parents[1] = p /\ items[i].parents[2] = q
  BY <1>7
<1>9. made[i] = items[i]
  BY <1>3, <1>5, <1>7, <1>8 DEF Normal, items
<1>10. Pair(made[i]) = {p, q}
  BY <1>7, <1>9, RangeOfTwo, ZenonT(60) DEF Pair
<1> QED
  BY <1>3, <1>6, <1>7, <1>9, <1>10 DEF Crossovers, p, q

LEMMA FallbackAccepted ==
    ASSUME TypeOK, PoolInv, Len(PlannedPool) = PoolSize,
           ~Accepts(Normalised(FallbackPlan(PlannedPool), PlannedPool))
    PROVE  \/ locked /\ crossoverCount > 0 /\ PoolHasKin
           \/ locked /\ crossoverCount > (PoolSize * (PoolSize - 1)) \div 2
<1> DEFINE n == PoolSize
           items == FallbackPlan(pool)
           made == Normalised(items, pool)
           pairs == Min({crossoverCount, n \div 2})
           crossed == Cardinality(Crossovers(made))
<1>1. PlannedPool = pool /\ ~Accepts(made)
  BY PlannedPoolType
<1>2. /\ pool \in Seq(Range(pool)) /\ Len(pool) = n /\ IsInjective(pool)
      /\ n \in Nat /\ n >= 2 /\ crossoverCount \in CrossoverCounts /\ locked \in BOOLEAN
  BY PoolType DEF TypeOK
<1>3. Survivors \in {0, 1} /\ crossoverCount \in Nat /\ crossoverCount <= n - Survivors
  BY <1>2, PlanAssumption
<1>4. /\ pairs \in Nat /\ Survivors + pairs <= n /\ pairs <= crossoverCount /\ 2 * pairs <= n
      /\ pairs = crossoverCount \/ 2 * pairs >= n - 1
      /\ IsPlan(items, Range(pool))
      /\ \A i \in 1..n : items[i] = FallbackItem(i, pairs, pool)
  BY <1>2, FallbackSlots
<1>5. Normal(made, items, pool)
  BY <1>2, <1>4, NormalisedPlan
<1>6. IsPlan(made, Range(pool)) /\ Generated(made) = Generated(items)
  BY <1>5 DEF Normal
<1>7. DOMAIN made = 1..n /\ DOMAIN items = 1..n /\ Len(items) = n
      /\ \A i \in 1..n : items[i] \in ItemsOf(Range(pool)) /\ made[i] \in ItemsOf(Range(pool))
  BY <1>4, <1>6, PlanType
<1> HIDE DEF made, items, pairs, n
<1>8. \A i \in 1..n : items[i].op = IF i <= Survivors THEN "survivor"
                                    ELSE IF i <= Survivors + pairs THEN "crossover" ELSE "mutation"
  <2> TAKE i \in 1..n
  <2>1. items[i] = FallbackItem(i, pairs, pool)
    BY <1>4
  <2>2. CASE i <= Survivors
    BY <2>1, <2>2 DEF FallbackItem, Item
  <2>3. CASE ~(i <= Survivors) /\ i <= Survivors + pairs
    BY <2>1, <2>3 DEF FallbackItem, Item
  <2>4. CASE ~(i <= Survivors) /\ ~(i <= Survivors + pairs)
    BY <2>1, <2>4 DEF FallbackItem, Item
  <2> QED
    BY <2>2, <2>3, <2>4
<1>9. /\ Generated(items) = Survivors + 1..n
      /\ Crossovers(items) = Survivors + 1..Survivors + pairs
      /\ 1..n \ Generated(items) = 1..Survivors
  <2>1. \A i \in 1..n : i \in Survivors + 1..n <=> ~(i <= Survivors)
    BY <1>2, <1>3
  <2>2. \A i \in 1..n : i \in Survivors + 1..Survivors + pairs <=> ~(i <= Survivors) /\ i <= Survivors + pairs
    BY <1>2, <1>3, <1>4
  <2>3. \A i \in 1..n : items[i].op # "survivor" <=> ~(i <= Survivors)
    BY <1>8
  <2>4. \A i \in 1..n : items[i].op = "crossover" <=> ~(i <= Survivors) /\ i <= Survivors + pairs
    BY <1>8
  <2>5. Survivors + 1..n \subseteq 1..n /\ Survivors + 1..Survivors + pairs \subseteq 1..n
        /\ 1..Survivors \subseteq 1..n
    BY <1>2, <1>3, <1>4
  <2>6. Generated(items) = Survivors + 1..n
    BY <1>7, <2>1, <2>3, <2>5 DEF Generated
  <2>7. Crossovers(items) = Survivors + 1..Survivors + pairs
    BY <1>7, <2>2, <2>4, <2>5 DEF Crossovers
  <2>8. 1..n \ (Survivors + 1..n) = 1..Survivors
    BY <1>2, <1>3
  <2> QED
    BY <2>6, <2>7, <2>8
<1>10. /\ Cardinality(Generated(items)) = n - Survivors
       /\ Cardinality(Crossovers(items)) = pairs
       /\ Cardinality(DOMAIN made \ Generated(made)) = Survivors
  <2>1. \A a, b \in Int : Cardinality(a..b) = IF a > b THEN 0 ELSE b - a + 1
    BY FS_Interval
  <2>2. Cardinality(Survivors + 1..n) = n - Survivors
    BY <1>2, <1>3, <2>1, SMTT(30)
  <2>3. Cardinality(Survivors + 1..Survivors + pairs) = pairs
    BY <1>3, <1>4, <2>1
  <2>4. Cardinality(1..Survivors) = Survivors
    <3>1. 1..0 = {} /\ 1..1 = {1}
      OBVIOUS
    <3>2. Cardinality({}) = 0 /\ Cardinality({1}) = 1
      BY FS_EmptySet, FS_Singleton
    <3> QED
      BY <1>3, <3>1, <3>2
  <2> QED
    BY <1>6, <1>7, <1>9, <2>2, <2>3, <2>4
<1>11. Wanted(items) = crossoverCount
  BY <1>2, <1>3, <1>4, <1>10, WantedType
<1>12. crossed \in Nat /\ crossed <= crossoverCount
  <2>1. crossed <= crossoverCount \/ crossed <= pairs
    BY <1>5, <1>10, <1>11 DEF Normal
  <2>2. crossed \in Nat
    BY <1>6, PlanType
  <2> QED
    BY <1>3, <1>4, <2>1, <2>2
<1>13. locked /\ crossed < crossoverCount
  <2>1. locked /\ crossed # crossoverCount
    BY <1>1, <1>7, <1>10, <1>12 DEF Accepts, made, n
  <2> QED
    BY <1>3, <1>12, <2>1
<1> SUFFICES ASSUME ~PoolHasKin, ~(crossoverCount > (PoolSize * (PoolSize - 1)) \div 2) PROVE FALSE
  BY <1>3, <1>12, <1>13
<1>14. PICK j \in 1..n : made[j].op = "mutation" /\ Used(made, made[j].parents[1], pool)
  <2>1. Crossovers(made) # Generated(made)
    BY <1>3, <1>6, <1>10, <1>12, <1>13
  <2>2. PICK j \in Generated(made) : j \notin Crossovers(made)
    BY <1>6, <2>1, PlanType
  <2>3. j \in 1..n /\ made[j].op = "mutation"
    BY <1>7, <2>2, ItemShape DEF Generated, Crossovers
  <2>4. ~(crossed >= Wanted(items))
    BY <1>3, <1>11, <1>12, <1>13
  <2>5. Used(made, made[j].parents[1], pool)
    BY <1>5, <2>3, <2>4 DEF Normal, n
  <2> QED
    BY <2>3, <2>5
<1> DEFINE first == made[j].parents[1]
<1>15. first \in Range(pool) /\ Used(made, first, pool) /\ IsFiniteSet(Crossovers(made))
  BY <1>6, <1>7, <1>14, ItemShape, PlanType
<1> HIDE DEF first
<1>16. n - 1 <= crossed
  BY <1>15, OneForEachOther DEF n
<1>17. Survivors = 0 /\ crossoverCount = n /\ crossed = n - 1 /\ 2 * pairs >= n - 1
  BY <1>2, <1>3, <1>4, <1>12, <1>13, <1>16
<1>18. \A i \in 1..pairs :
          /\ i \in Crossovers(made) /\ Pair(made[i]) = {pool[2 * i - 1], pool[2 * i]}
          /\ 2 * i - 1 \in 1..n /\ 2 * i \in 1..n
  BY <1>5, <1>17, FallbackKept DEF pairs, items, n
<1>19. \A i, k \in 1..n : pool[i] = pool[k] => i = k
  BY <1>2 DEF IsInjective
<1>20. CASE n = 2
  <2>1. (PoolSize * (PoolSize - 1)) \div 2 = 1
    BY <1>20 DEF n
  <2> QED
    BY <1>17, <1>20, <2>1
<1>21. CASE n = 3
  <2>1. pairs = 1
    BY <1>4, <1>17, <1>21
  <2>2. Pair(made[1]) = {pool[1], pool[2]}
    BY <1>18, <2>1
  <2>3. items[2] = Item("mutation", <<pool[2]>>) /\ items[3] = Item("mutation", <<pool[1]>>)
    <3>1. items[2] = FallbackItem(2, 1, pool) /\ items[3] = FallbackItem(3, 1, pool)
      BY <1>4, <1>21, <2>1
    <3>2. (2 * 2 - 0 - 1 - 2) % 3 = 1 /\ (2 * 3 - 0 - 1 - 2) % 3 = 0
      OBVIOUS
    <3> QED
      BY <1>17, <1>21, <3>1, <3>2 DEF FallbackItem, n
  <2>4. made[2].parents[1] = pool[2] /\ made[3].parents[1] = pool[1]
    <3>1. items[2].parents[1] = pool[2] /\ items[3].parents[1] = pool[1]
      BY <2>3 DEF Item
    <3> QED
      BY <1>5, <1>21, <3>1 DEF Normal, n
  <2>5. pool[1] # pool[2] /\ pool[1] # pool[3] /\ pool[2] # pool[3]
    BY <1>19, <1>21
  <2>6. j \in {2, 3}
    BY <1>14, <1>18, <1>21, <2>1 DEF Crossovers
  <2>7. first = IF j = 2 THEN pool[2] ELSE pool[1]
    BY <2>4, <2>6 DEF first
  <2>8. pool[3] \in Range(pool) /\ ~SameRootLineage(first, pool[3])
    <3>1. pool[3] \in Range(pool)
      BY <1>21, PoolType DEF n
    <3>2. ~SameRootLineage(pool[1], pool[3]) /\ ~SameRootLineage(pool[2], pool[3])
      BY <1>21 DEF PoolHasKin, n
    <3> QED
      BY <2>7, <3>1, <3>2
  <2>9. PICK i \in Crossovers(made) : Pair(made[i]) = {first, pool[3]}
    BY <1>15, <2>8 DEF Used
  <2>10. i \in {1, 2, 3} /\ i # j /\ made[i].parents[1] \in Pair(made[i])
    <3>1. i \in 1..n /\ made[i].op = "crossover"
      BY <1>7 DEF Crossovers
    <3>2. made[i].parents[1] \in Pair(made[i])
      BY <1>7, <3>1, ItemShape
    <3> QED
      BY <1>14, <1>21, <3>1, <3>2
  <2>11. CASE i = 1
    <3>1. pool[3] \in {pool[1], pool[2]}
      BY <2>2, <2>9, <2>11
    <3> QED
      BY <2>5, <3>1
  <2>12. CASE i = 2
    <3>1. j = 3 /\ first = pool[1] /\ pool[2] \in {first, pool[3]}
      BY <2>4, <2>6, <2>7, <2>9, <2>10, <2>12
    <3> QED
      BY <2>5, <3>1
  <2>13. CASE i = 3
    <3>1. j = 2 /\ first = pool[2] /\ pool[1] \in {first, pool[3]}
      BY <2>4, <2>6, <2>7, <2>9, <2>10, <2>13
    <3> QED
      BY <2>5, <3>1
  <2> QED
    BY <2>10, <2>11, <2>12, <2>13
<1>22. CASE n >= 4
  <2>1. 1 \in 1..pairs /\ 2 \in 1..pairs
    BY <1>2, <1>4, <1>17, <1>22
  <2>2. /\ 1 \in Crossovers(made) /\ Pair(made[1]) = {pool[1], pool[2]}
        /\ 2 \in Crossovers(made) /\ Pair(made[2]) = {pool[3], pool[4]}
    <3>1. 2 * 1 - 1 = 1 /\ 2 * 1 = 2 /\ 2 * 2 - 1 = 3 /\ 2 * 2 = 4
      OBVIOUS
    <3>2. /\ 1 \in Crossovers(made) /\ Pair(made[1]) = {pool[2 * 1 - 1], pool[2 * 1]}
          /\ 2 \in Crossovers(made) /\ Pair(made[2]) = {pool[2 * 2 - 1], pool[2 * 2]}
      BY <1>18, <2>1
    <3> QED
      BY <3>1, <3>2
  <2>3. pool[1] # pool[3] /\ pool[1] # pool[4] /\ pool[2] # pool[3] /\ pool[2] # pool[4]
    BY <1>2, <1>19, <1>22
  <2>4. PICK b \in Crossovers(made) : first \notin Pair(made[b])
    BY <2>2, <2>3
  <2> DEFINE X == Crossovers(made)
  <2>5. IsFiniteSet(X) /\ b \in X /\ Cardinality(X) = crossed
    BY <1>15
  <2> HIDE DEF X
  <2>6. IsFiniteSet(X \ {b}) /\ Cardinality(X \ {b}) = crossed - 1
    BY <2>5, FS_RemoveElement
  <2>7. \A i \in Crossovers(made) : first \in Pair(made[i]) => i \in X \ {b}
    BY <2>4 DEF X
  <2> DEFINE B == X \ {b}
  <2> HIDE DEF B
  <2>8. IsFiniteSet(B) /\ Cardinality(B) = crossed - 1
        /\ \A i \in Crossovers(made) : first \in Pair(made[i]) => i \in B
    BY <2>6, <2>7 DEF B
  <2>9. n - 1 <= Cardinality(B)
    BY <1>15, <2>8, OneForEachOther DEF n
  <2> QED
    BY <1>2, <1>12, <1>17, <2>8, <2>9
<1> QED
  BY <1>2, <1>20, <1>21, <1>22

LEMMA PlanGenerationInv == ASSUME IInv, PlanGeneration PROVE IInv'
<1>1. PICK items \in Proposals(PlannedPool) :
          Accepts(plan') /\ plan' = Normalised(items, PlannedPool)
  BY DEF PlanGeneration
<1>2. IsPlan(items, Range(PlannedPool))
  BY ProposalIsPlan
<1> QED
  BY <1>1, <1>2, PlanTaken DEF PlanGeneration

LEMMA PlanFallbackInv == ASSUME IInv, PlanFallback PROVE IInv'
<1> DEFINE items == FallbackPlan(PlannedPool)
<1>1. TypeOK /\ PoolInv /\ ReserveInv /\ ChildrenInv /\ phase = "plan" /\ plan = <<>>
  BY DEF IInv, PlanInv, PlanFallback, Planned
<1>2. CASE Len(PlannedPool) = PoolSize /\ Accepts(Normalised(items, PlannedPool))
  <2>1. IsPlan(items, Range(PlannedPool))
    <3>1. PlannedPool \in Seq(Range(pool)) /\ IsInjective(PlannedPool) /\ crossoverCount \in CrossoverCounts
      BY <1>1, PlannedPoolType DEF TypeOK
    <3> DEFINE pairs == Min({crossoverCount, PoolSize \div 2})
    <3> HIDE DEF pairs
    <3>2. pairs = Min({crossoverCount, PoolSize \div 2})
      BY DEF pairs
    <3> QED
      BY <1>2, <3>1, <3>2, FallbackSlots
  <2> QED
    BY <1>2, <2>1, PlanTaken DEF PlanFallback
<1>3. CASE ~(Len(PlannedPool) = PoolSize /\ Accepts(Normalised(items, PlannedPool)))
  <2>1. phase' = "failed" /\ plan' = plan /\ UNCHANGED <<arguments, generation, pool, rows, reserve, certified>>
    BY <1>3 DEF PlanFallback
  <2>2. PlannedPool' = PlannedPool
    BY <2>1 DEF PlannedPool, Spent, Exhausted
  <2>3. \/ Len(PlannedPool) < PoolSize
        \/ locked /\ crossoverCount > 0 /\ PoolHasKin
        \/ locked /\ crossoverCount > (PoolSize * (PoolSize - 1)) \div 2
    <3>1. Len(PlannedPool) = PoolSize \/ Len(PlannedPool) < PoolSize
      BY <1>1, PlannedPoolType, PoolType
    <3> QED
      BY <1>1, <1>3, <3>1, FallbackAccepted
  <2>4. PlanFailsOnlyWhen'
    BY <2>1, <2>2, <2>3 DEF PlanFailsOnlyWhen, PoolHasKin, arguments
  <2>5. TypeOK'
    BY <1>1, <2>1 DEF TypeOK, arguments
  <2>6. PoolInv' /\ ChildrenInv'
    BY <1>1, <2>1 DEF PoolInv, ChildrenInv
  <2>7. PlanInv'
    BY <1>1, <2>1 DEF PlanInv, Planned
  <2>8. ReserveInv'
    BY <1>1, <2>1 DEF ReserveInv, arguments, Crossovers
  <2> QED
    BY <2>4, <2>5, <2>6, <2>7, <2>8 DEF IInv
<1> QED
  BY <1>2, <1>3

\* The id that the parents of an item have together.
LEMMA JoinedType ==
    ASSUME TypeOK, PoolInv, NEW item \in ItemsOf(Range(pool))
    PROVE  LET id == Joined(item.parents)
           IN /\ id \in Seq(Parts) /\ id # <<>>
              /\ \A k \in 1..Len(id) : id[k].mark[1] <= generation
<1> DEFINE p == item.parents[1]
           q == item.parents[2]
<1>1. generation \in Nat
  BY PlanAssumption DEF TypeOK
<1>2. ASSUME NEW r \in Range(pool)
      PROVE  r \in Seq(Parts) /\ r # <<>> /\ \A k \in 1..Len(r) : r[k].mark[1] <= generation
  <2>1. IsProblem(r) /\ Mark(r)[1] <= generation
    BY DEF TypeOK, PoolInv
  <2>2. r \in Seq(Parts) /\ r # <<>> /\ Len(r) \in Nat /\ \A k \in 1..Len(r) : r[k] \in Parts
    BY <2>1 DEF IsProblem
  <2>3. \A k \in 1..Len(r) : r[k].mark[1] \in Nat
    BY <2>2 DEF Parts
  <2>4. Len(r) \in 1..Len(r)
    BY <2>2
  <2>5. ASSUME NEW k \in 1..Len(r) PROVE r[k].mark[1] <= generation
    <3>1. CASE k = Len(r)
      BY <2>1, <3>1 DEF Mark
    <3>2. CASE k # Len(r)
      <4>1. k \in 1..Len(r) - 1
        BY <2>2, <3>2
      <4>2. r[k].mark[1] < Mark(r)[1]
        BY <2>1, <4>1 DEF IsProblem
      <4> QED
        BY <1>1, <2>1, <2>3, <2>4, <4>2 DEF Mark
    <3> QED
      BY <3>1, <3>2
  <2> QED
    BY <2>2, <2>5
<1>3. p \in Range(pool)
  BY ItemShape
<1> HIDE DEF p, q
<1>4. CASE item.op # "crossover"
  <2>1. item.parents = <<p>>
    BY <1>4, ItemShape DEF p
  <2>2. Joined(item.parents) = p
    BY <2>1 DEF Joined
  <2> QED
    BY <1>2, <1>3, <2>2
<1>5. CASE item.op = "crossover"
  <2>1. item.parents = <<p, q>> /\ q \in Range(pool)
    BY <1>5, ItemShape DEF p, q
  <2>2. Joined(item.parents) = p \o q
    BY <2>1 DEF Joined
  <2>3. /\ p \in Seq(Parts) /\ p # <<>> /\ q \in Seq(Parts) /\ q # <<>>
        /\ \A k \in 1..Len(p) : p[k].mark[1] <= generation
        /\ \A k \in 1..Len(q) : q[k].mark[1] <= generation
    BY <1>2, <1>3, <2>1
  <2> DEFINE id == p \o q
  <2>4. /\ id \in Seq(Parts) /\ Len(id) = Len(p) + Len(q) /\ Len(p) \in Nat /\ Len(p) > 0 /\ Len(q) \in Nat
        /\ \A k \in 1..Len(id) : id[k] = IF k <= Len(p) THEN p[k] ELSE q[k - Len(p)]
    BY <2>3, ConcatProperties
  <2> HIDE DEF id
  <2>5. id # <<>>
    BY <2>4
  <2>6. ASSUME NEW k \in 1..Len(id) PROVE id[k].mark[1] <= generation
    <3>1. CASE k <= Len(p)
      BY <2>3, <2>4, <3>1
    <3>2. CASE ~(k <= Len(p))
      <4>1. k - Len(p) \in 1..Len(q)
        BY <2>4, <3>2
      <4> QED
        BY <2>3, <2>4, <3>2, <4>1
    <3> QED
      BY <3>1, <3>2
  <2> QED
    BY <2>2, <2>4, <2>5, <2>6 DEF id
<1> QED
  BY <1>4, <1>5

\* A child's id is of the next generation, and what it carries is older.
LEMMA ChildIsProblem ==
    ASSUME TypeOK, PoolInv, NEW item \in ItemsOf(Range(pool)), NEW i \in Nat
    PROVE  LET child == ChildId(item.parents, <<generation + 1, i>>)
           IN IsProblem(child) /\ Mark(child)[1] = generation + 1
<1> DEFINE id == Joined(item.parents)
           mark == <<generation + 1, i>>
           child == ChildId(item.parents, mark)
<1>1. generation \in Nat /\ mark \in Nat \X Nat /\ mark[1] = generation + 1
  BY PlanAssumption DEF TypeOK
<1>2. id \in Seq(Parts) /\ id # <<>> /\ \A k \in 1..Len(id) : id[k].mark[1] <= generation
  BY JoinedType
<1>3. child = Suffixed(id, mark)
  BY DEF ChildId
<1> HIDE DEF id, mark, child
<1>4. /\ child \in Seq(Parts) /\ child # <<>> /\ Len(child) = Len(id) /\ Mark(child) = mark
      /\ \A k \in 1..Len(id) - 1 : child[k] = id[k]
  BY <1>1, <1>2, <1>3, SuffixedType
<1>5. ASSUME NEW k \in 1..Len(child) - 1 PROVE child[k].mark[1] < Mark(child)[1]
  <2>1. k \in 1..Len(id) /\ child[k] = id[k] /\ id[k] \in Parts
    BY <1>2, <1>4
  <2>2. id[k].mark[1] \in Nat /\ id[k].mark[1] <= generation
    BY <1>2, <2>1 DEF Parts
  <2> QED
    BY <1>1, <1>4, <2>1, <2>2
<1> QED
  BY <1>1, <1>4, <1>5 DEF IsProblem, child, mark

LEMMA ImageIsFinite ==
    ASSUME NEW S, IsFiniteSet(S), NEW T, NEW f \in [S -> T]
    PROVE  IsFiniteSet(Range(f))
<1>1. f \in Surjection(S, Range(f))
  BY DEF Surjection, Range
<1> QED
  BY <1>1, FS_Surjection

LEMMA SlotItems ==
    ASSUME IInv, phase \in {"slots", "reserve"}
    PROVE  /\ IsFiniteSet(Slots) /\ IsFiniteSet(Slots \cup Survived)
           /\ \A i \in Slots \cup Survived : i \in Nat /\ Work[i] \in ItemsOf(Range(pool))
<1> DEFINE T == ItemsOf(Range(pool))
<1>1. /\ plan \in Seq(T) /\ reserve \in Seq(T) /\ Generated(plan) \subseteq DOMAIN plan
  BY PlanType DEF IInv, PlanInv, ReserveInv, Planned, Generated
<1> HIDE DEF T
<1>2. /\ Work \in Seq(T) /\ Len(Work) = Len(plan) + Len(reserve)
      /\ Len(plan) \in Nat /\ Len(reserve) \in Nat
      /\ DOMAIN plan = 1..Len(plan) /\ DOMAIN reserve = 1..Len(reserve)
  BY <1>1, ConcatProperties DEF Work
<1>3. Slots \cup Survived \subseteq 1..Len(Work)
  BY <1>1, <1>2 DEF Slots, Survived
<1>4. IsFiniteSet(1..Len(Work))
  BY <1>2, FS_Interval
<1>5. IsFiniteSet(Slots) /\ IsFiniteSet(Slots \cup Survived)
  <2>1. Slots \subseteq 1..Len(Work)
    BY <1>3
  <2> QED
    BY <1>3, <1>4, <2>1, FS_Subset
<1>6. \A i \in 1..Len(Work) : i \in Nat /\ Work[i] \in T
  BY <1>2
<1> QED
  BY <1>3, <1>5, <1>6 DEF T

\* The tally stays one, whatever finite lot of rows is added.
LEMMA CountedType ==
    ASSUME TypeOK, NEW roots, IsFiniteSet(DOMAIN roots),
           \A i \in DOMAIN roots : roots[i] \subseteq Parts
    PROVE  LET tally == CountedWith(roots)
           IN DOMAIN tally \subseteq Parts /\ tally \in [DOMAIN tally -> 0..OffspringCap]
<1> DEFINE tally == CountedWith(roots)
           D == DOMAIN rows \cup UNION Range(roots)
           X(root) == {i \in DOMAIN roots : root \in roots[i]}
<1>1. D \subseteq Parts
  BY DEF TypeOK, Range
<1>2. ASSUME NEW root PROVE Count(root) + Cardinality(X(root)) \in Nat
  <2>1. Count(root) \in Nat
    BY PlanAssumption DEF TypeOK, Count
  <2> DEFINE of == X(root)
  <2>2. of \subseteq DOMAIN roots
    OBVIOUS
  <2> HIDE DEF of
  <2>3. Cardinality(of) \in Nat
    BY <2>2, FS_Subset, FS_CardinalityType
  <2> QED
    BY <2>1, <2>3 DEF of
<1>3. tally = [root \in D |-> Min({OffspringCap, Count(root) + Cardinality(X(root))})]
  BY DEF CountedWith
<1> HIDE DEF tally, D, X
<1>4. \A root \in D : Min({OffspringCap, Count(root) + Cardinality(X(root))}) \in 0..OffspringCap
  <2> TAKE root \in D
  <2> QED
    BY <1>2, PlanAssumption, MinOfTwo
<1> QED
  BY <1>1, <1>3, <1>4 DEF tally

LEMMA CarriedType ==
    ASSUME TypeOK, PoolInv, NEW i, Work[i] \in ItemsOf(Range(pool)), NEW failed
    PROVE  Carried(i, failed) \subseteq Parts
<1> DEFINE id == Joined(Work[i].parents)
<1>1. id \in Seq(Parts) /\ id # <<>> /\ Bare \in Nat \X Nat
  BY JoinedType DEF Bare
<1>2. Carried(i, failed) = IF i \in failed THEN Range(Front(id)) ELSE Range(RootsOf(id))
  BY DEF Carried
<1> HIDE DEF id
<1>3. RootsOf(id) \in Seq(Parts)
  BY <1>1, SuffixedType DEF RootsOf
<1>4. Front(id) \in Seq(Parts)
  BY <1>1 DEF Front
<1> QED
  BY <1>2, <1>3, <1>4 DEF Range

LEMMA RunSlotsInv == ASSUME IInv, RunSlots PROVE IInv'
<1>1. /\ TypeOK /\ PoolInv /\ PlanInv /\ ReserveInv /\ ChildrenInv
      /\ phase \in {"slots", "reserve"}
      /\ UNCHANGED <<arguments, generation, pool, plan, reserve>>
      /\ phase' = IF phase = "slots" THEN "aggregate" ELSE "select"
  BY DEF IInv, RunSlots
<1>10. PICK done \in SUBSET Slots, counted \in SUBSET (Slots \cup Survived) :
          \E failed \in SUBSET ((counted \cap Slots) \ done) :
             /\ certified' = certified \cup {Child(i) : i \in done}
             /\ rows' = CountedWith([i \in counted |-> Carried(i, failed)])
  BY DEF RunSlots
<1>11. /\ IsFiniteSet(Slots) /\ IsFiniteSet(Slots \cup Survived)
       /\ \A i \in Slots \cup Survived : i \in Nat /\ Work[i] \in ItemsOf(Range(pool))
  BY <1>1, SlotItems
<1>2. IsFiniteSet(Slots) /\ \A i \in Slots : IsProblem(Child(i)) /\ Mark(Child(i))[1] = generation + 1
  BY <1>1, <1>11, ChildIsProblem DEF Child
<1>3. DOMAIN rows' \subseteq Parts /\ rows' \in [DOMAIN rows' -> 0..OffspringCap]
  <2>1. PICK failed \in SUBSET ((counted \cap Slots) \ done) :
            rows' = CountedWith([i \in counted |-> Carried(i, failed)])
    BY <1>10
  <2> DEFINE roots == [i \in counted |-> Carried(i, failed)]
  <2>2. \A i \in counted : Carried(i, failed) \subseteq Parts
    BY <1>1, <1>11, CarriedType
  <2>3. DOMAIN roots = counted /\ \A i \in DOMAIN roots : roots[i] \subseteq Parts
    BY <2>2
  <2>4. IsFiniteSet(counted)
    BY <1>11, FS_Subset
  <2>5. rows' = CountedWith(roots)
    BY <2>1
  <2> HIDE DEF roots
  <2> QED
    BY <1>1, <2>3, <2>4, <2>5, CountedType
<1>4. ChildrenInv'
  <2>1. certified' = certified \cup {Child(i) : i \in done}
    BY <1>10
  <2> DEFINE new == {Child(i) : i \in done}
             f == [i \in done |-> Child(i)]
  <2>2. IsFiniteSet(new)
    <3>1. new = Range(f) /\ f \in [done -> new]
      BY DEF Range
    <3>2. IsFiniteSet(done)
      BY <1>2, FS_Subset
    <3> HIDE DEF f, new
    <3> QED
      BY <3>1, <3>2, ImageIsFinite
  <2>3. \A c \in new : IsProblem(c) /\ Mark(c)[1] = generation + 1
    BY <1>2
  <2>4. certified' = certified \cup new
    BY <2>1
  <2> HIDE DEF new
  <2>5. IsFiniteSet(certified')
    BY <1>1, <2>2, <2>4, FS_Union DEF ChildrenInv
  <2>6. \A c \in certified' : IsProblem(c) /\ Mark(c)[1] = generation' + 1
    BY <1>1, <2>3, <2>4 DEF ChildrenInv
  <2> QED
    BY <2>5, <2>6 DEF ChildrenInv
<1>5. TypeOK'
  BY <1>1, <1>3, <1>4 DEF TypeOK, ChildrenInv, arguments
<1>6. PoolInv'
  BY <1>1 DEF PoolInv
<1>7. PlanInv'
  BY <1>1 DEF PlanInv, Planned, arguments
<1>8. ReserveInv'
  BY <1>1 DEF ReserveInv, arguments
<1>9. PlanFailsOnlyWhen'
  BY <1>1 DEF PlanFailsOnlyWhen
<1> QED
  BY <1>4, <1>5, <1>6, <1>7, <1>8, <1>9 DEF IInv

LEMMA ReserveItemType ==
    ASSUME TypeOK, PoolInv, NEW order \in ReserveOrders, NEW i \in Nat \ {0}
    PROVE  /\ ReserveItem(order, i) \in ItemsOf(Range(pool))
           /\ ReserveItem(order, i).op = "crossover" => ReserveCrosses
<1> DEFINE n == PoolSize
           first == order[((i - 1) % n) + 1]
           others == {j \in DOMAIN order : order[j] # first /\ ~SameRootLineage(first, order[j])}
           second == order[IF others # {} THEN Min(others) ELSE 2]
<1>1. n \in Nat /\ n >= 2
  BY PoolType
<1>2. order \in [1..n -> Range(pool)] /\ IsInjective(order)
  BY DEF ReserveOrders
<1>3. ReserveItem(order, i) = IF i = 1 /\ ReserveCrosses THEN Item("crossover", <<first, second>>)
                              ELSE Item("mutation", <<first>>)
  BY DEF ReserveItem
<1> HIDE DEF n
<1>4. first \in Range(pool)
  <2>1. (i - 1) % n \in 0..n - 1
    BY <1>1
  <2> DEFINE r == (i - 1) % n
  <2> HIDE DEF r
  <2>2. r \in 0..n - 1
    BY <2>1 DEF r
  <2>3. r + 1 \in 1..n
    BY <1>1, <2>2
  <2>4. order[r + 1] \in Range(pool)
    BY <1>2, <2>3
  <2> QED
    BY <2>4 DEF r
<1>5. ASSUME i = 1 PROVE second \in Range(pool) /\ second # first
  <2>1. CASE others # {}
    <3>1. others \subseteq 1..n /\ others \in SUBSET Nat
      BY <1>2
    <3>2. Min(others) \in others
      <4> HIDE DEF others
      <4> QED
        BY <2>1, <3>1, MinIsLeast
    <3>3. Min(others) \in 1..n /\ order[Min(others)] # first
      BY <3>1, <3>2
    <3>4. second = order[Min(others)]
      BY <2>1
    <3> HIDE DEF second, first, others
    <3> QED
      BY <1>2, <3>3, <3>4
  <2>2. CASE ~(others # {})
    <3>1. (i - 1) % n = 0
      <4>1. i - 1 = 0
        BY <1>5
      <4> QED
        BY <1>1, <4>1
    <3>2. first = order[1] /\ second = order[2]
      BY <2>2, <3>1
    <3>3. 1 \in 1..n /\ 2 \in 1..n /\ DOMAIN order = 1..n
      BY <1>1, <1>2
    <3> HIDE DEF first, second, others
    <3> QED
      BY <1>2, <3>2, <3>3 DEF IsInjective
  <2> QED
    BY <2>1, <2>2
<1> HIDE DEF first, second, others
<1>6. CASE i = 1 /\ ReserveCrosses
  BY <1>3, <1>4, <1>5, <1>6, CrossoverItem
<1>7. CASE ~(i = 1 /\ ReserveCrosses)
  BY <1>3, <1>4, <1>7, SingleItem
<1> QED
  BY <1>6, <1>7

LEMMA AggregateInv == ASSUME IInv, Aggregate PROVE IInv'
<1>1. /\ TypeOK /\ PoolInv /\ PlanInv /\ ReserveInv /\ ChildrenInv /\ phase = "aggregate"
      /\ UNCHANGED <<arguments, generation, pool, rows, plan, certified>>
      /\ phase' \in {"select", "reserve"}
  BY DEF IInv, Aggregate
<1>2. \/ reserve' = reserve
      \/ \E n \in Nat, order \in ReserveOrders : reserve' = [i \in 1..n |-> ReserveItem(order, i)]
  <2>1. PICK graded \in 0..Cardinality(certified) :
            LET needed == Max({0, TargetAccepted - graded})
                n == IF needed > 0 THEN Min({ReserveBudget, needed + 1}) ELSE 0
            IN \/ reserve' = reserve
               \/ \E order \in ReserveOrders : reserve' = [i \in 1..n |-> ReserveItem(order, i)]
    BY DEF Aggregate
  <2> DEFINE needed == Max({0, TargetAccepted - graded})
             n == IF needed > 0 THEN Min({ReserveBudget, needed + 1}) ELSE 0
  <2>2. Cardinality(certified) \in Nat /\ graded \in Nat
    BY <1>1, FS_CardinalityType DEF ChildrenInv
  <2>3. needed \in Nat
    <3>1. TargetAccepted - graded \in Int
      BY <2>2, PlanAssumption
    <3>2. \E m \in {0, TargetAccepted - graded} : \A x \in {0, TargetAccepted - graded} : m >= x
      BY <3>1
    <3>3. needed \in {0, TargetAccepted - graded} /\ needed >= 0
      BY <3>2 DEF Max
    <3> QED
      BY <3>1, <3>3
  <2> HIDE DEF needed
  <2>4. n \in Nat
    <3>1. ReserveBudget \in Nat /\ needed + 1 \in Nat
      BY <2>3, PlanAssumption
    <3>2. Min({ReserveBudget, needed + 1}) \in Nat
      BY <3>1, MinOfTwo
    <3> QED
      BY <3>2
  <2> HIDE DEF n
  <2>5. reserve' = reserve \/ \E order \in ReserveOrders : reserve' = [i \in 1..n |-> ReserveItem(order, i)]
    BY <2>1 DEF n, needed
  <2> QED
    BY <2>4, <2>5
<1>3. /\ reserve' \in Seq(ItemsOf(Range(pool)))
      /\ locked /\ crossoverCount = 0 => Crossovers(reserve') = {}
  <2>1. CASE reserve' = reserve
    BY <1>1, <2>1 DEF ReserveInv
  <2>2. ASSUME NEW n \in Nat, NEW order \in ReserveOrders,
               reserve' = [i \in 1..n |-> ReserveItem(order, i)]
        PROVE  /\ reserve' \in Seq(ItemsOf(Range(pool)))
               /\ locked /\ crossoverCount = 0 => Crossovers(reserve') = {}
    <3>1. \A i \in 1..n : /\ ReserveItem(order, i) \in ItemsOf(Range(pool))
                          /\ ReserveItem(order, i).op = "crossover" => ReserveCrosses
      BY <1>1, ReserveItemType
    <3>2. reserve' \in [1..n -> ItemsOf(Range(pool))]
      BY <2>2, <3>1
    <3>3. reserve' \in Seq(ItemsOf(Range(pool)))
      BY <3>2, FunctionIsSeq
    <3>4. \A i \in DOMAIN reserve' : reserve'[i].op = "crossover" => ReserveCrosses
      BY <2>2, <3>1
    <3> QED
      BY <3>3, <3>4 DEF Crossovers, ReserveCrosses
  <2> QED
    BY <1>2, <2>1, <2>2
<1>4. TypeOK'
  <2>1. \A item \in Range(reserve') :
           /\ item.op \in {"survivor", "mutation", "crossover"}
           /\ Pair(item) \subseteq Range(pool)
           /\ Cardinality(Pair(item)) = (IF item.op = "crossover" THEN 2 ELSE 1)
    <3>1. \A item \in Range(reserve') : item \in ItemsOf(Range(pool))
      <4>1. \A i \in DOMAIN reserve' : reserve'[i] \in ItemsOf(Range(pool))
        BY <1>3
      <4> QED
        BY <4>1 DEF Range
    <3> QED
      BY <3>1, ItemShape, ItemPair
  <2> QED
    BY <1>1, <2>1 DEF TypeOK, arguments
<1>5. PoolInv' /\ ChildrenInv'
  BY <1>1 DEF PoolInv, ChildrenInv
<1>6. PlanInv'
  BY <1>1 DEF PlanInv, Planned, arguments
<1>7. ReserveInv'
  <2>1. phase' \notin {"reserve", "select"} => reserve' = <<>>
    BY <1>1
  <2> QED
    BY <1>1, <1>3, <2>1 DEF ReserveInv, arguments
<1>8. PlanFailsOnlyWhen'
  BY <1>1 DEF PlanFailsOnlyWhen
<1> QED
  BY <1>4, <1>5, <1>6, <1>7, <1>8 DEF IInv

LEMMA SelectNextPoolInv == ASSUME IInv, SelectNextPool PROVE IInv'
<1>1. /\ TypeOK /\ PoolInv /\ ChildrenInv /\ phase = "select"
      /\ UNCHANGED arguments
      /\ plan' = <<>> /\ reserve' = <<>> /\ certified' = {}
      /\ generation' = generation + 1
      /\ phase' = IF generation' = MaxGenerations THEN "ended" ELSE "plan"
  BY DEF IInv, SelectNextPool
<1>0. PICK kept \in SUBSET certified : \E place \in [kept -> 1..PoolSize] :
          /\ \A c, d \in kept : c # d => place[c] # place[d]
          /\ pool' = [i \in 1..PoolSize |->
                IF \E c \in kept : place[c] = i
                THEN (CHOOSE c \in kept : place[c] = i) ELSE pool[i]]
  BY DEF SelectNextPool
<1>2. PICK place \in [kept -> 1..PoolSize] :
          /\ \A c, d \in kept : c # d => place[c] # place[d]
          /\ pool' = [i \in 1..PoolSize |->
                IF \E c \in kept : place[c] = i
                THEN (CHOOSE c \in kept : place[c] = i) ELSE pool[i]]
  BY <1>0
<1> DEFINE n == PoolSize
<1>3. /\ n \in Nat /\ DOMAIN pool = 1..n /\ IsInjective(pool)
      /\ \A i \in 1..n : IsProblem(pool[i]) /\ Mark(pool[i])[1] <= generation
      /\ generation \in 0..MaxGenerations /\ generation < MaxGenerations /\ MaxGenerations \in Nat
  BY <1>1, PoolType, PlanAssumption DEF TypeOK, PoolInv
<1>4. \A c \in kept : IsProblem(c) /\ Mark(c)[1] = generation + 1
  BY <1>1 DEF ChildrenInv
<1> HIDE DEF n
<1>5. \A i \in 1..n : \/ pool'[i] \in kept /\ place[pool'[i]] = i
                      \/ pool'[i] = pool[i]
  <2> TAKE i \in 1..n
  <2>1. pool'[i] = IF \E c \in kept : place[c] = i THEN (CHOOSE c \in kept : place[c] = i) ELSE pool[i]
    BY <1>2 DEF n
  <2> QED
    BY <2>1
<1>6. DOMAIN pool' = 1..n /\ pool' = [i \in 1..n |-> pool'[i]]
  BY <1>2 DEF n
<1>7. \A i \in 1..n : IsProblem(pool'[i]) /\ Mark(pool'[i])[1] <= generation + 1
  <2> TAKE i \in 1..n
  <2>1. CASE pool'[i] \in kept
    BY <1>3, <1>4, <2>1
  <2>2. CASE pool'[i] = pool[i]
    <3>1. Mark(pool[i])[1] \in Nat /\ Mark(pool[i])[1] <= generation
      BY <1>3, MarkType
    <3>2. Mark(pool[i])[1] <= generation + 1
      BY <1>3, <3>1
    <3> QED
      BY <1>3, <2>2, <3>2
  <2> QED
    BY <1>5, <2>1, <2>2
<1>8. \A c \in kept : \A i \in 1..n : c # pool[i]
  <2> SUFFICES ASSUME NEW i \in 1..n, pool[i] \in kept PROVE FALSE
    OBVIOUS
  <2>1. Mark(pool[i])[1] \in Nat /\ Mark(pool[i])[1] <= generation /\ Mark(pool[i])[1] = generation + 1
    BY <1>3, <1>4, MarkType
  <2> QED
    BY <1>3, <2>1
<1>9. IsInjective(pool')
  <2> SUFFICES ASSUME NEW i \in 1..n, NEW j \in 1..n, pool'[i] = pool'[j] PROVE i = j
    BY <1>6 DEF IsInjective
  <2>1. CASE pool'[i] \in kept
    BY <1>5, <1>8, <2>1
  <2>2. CASE pool'[i] \notin kept
    <3>1. pool[i] = pool[j]
      BY <1>5, <2>2
    <3> QED
      BY <1>3, <3>1 DEF IsInjective
  <2> QED
    BY <2>1, <2>2
<1>10. \A p \in Range(pool') : IsProblem(p) /\ Mark(p)[1] <= generation'
  BY <1>1, <1>6, <1>7 DEF Range
<1>11. pool' \in [1..n -> Range(pool')]
  BY <1>6 DEF Range
<1>12. generation' \in 0..MaxGenerations /\ (generation' < MaxGenerations \/ phase' = "ended")
  BY <1>1, <1>3
<1>13. TypeOK'
  <2>1. Range(plan') = {} /\ Range(reserve') = {}
    BY <1>1 DEF Range
  <2>2. DOMAIN rows' \subseteq Parts /\ rows' \in [DOMAIN rows' -> 0..OffspringCap]
    <3>1. PICK backfilled \in SUBSET Range(pool) : rows' = CountedWith([p \in backfilled |-> Range(Front(p))])
      BY DEF SelectNextPool
    <3> DEFINE roots == [p \in backfilled |-> Range(Front(p))]
    <3>2. \A p \in backfilled : IsProblem(p)
      BY <1>1 DEF TypeOK
    <3>3. DOMAIN roots = backfilled /\ \A p \in DOMAIN roots : roots[p] \subseteq Parts
      BY <3>2, RootsType
    <3>4. IsFiniteSet(backfilled)
      BY <1>1, PoolCardinality, FS_Subset
    <3>5. rows' = CountedWith(roots)
      BY <3>1
    <3> HIDE DEF roots
    <3> QED
      BY <1>1, <3>3, <3>4, <3>5, CountedType
  <2> QED
    BY <1>1, <1>6, <1>9, <1>10, <1>12, <2>1, <2>2 DEF TypeOK, arguments, n
<1>14. PoolInv'
  BY <1>10, <1>11, <1>12 DEF PoolInv, n
<1>15. PlanInv'
  BY <1>1 DEF PlanInv, Planned
<1>16. ReserveInv'
  BY <1>1 DEF ReserveInv, Crossovers
<1>17. ChildrenInv'
  BY <1>1, FS_EmptySet DEF ChildrenInv
<1>18. PlanFailsOnlyWhen'
  BY <1>1 DEF PlanFailsOnlyWhen
<1> QED
  BY <1>13, <1>14, <1>15, <1>16, <1>17, <1>18 DEF IInv

LEMMA StutterInv == ASSUME IInv, UNCHANGED vars PROVE IInv'
<1>1. PlannedPool' = PlannedPool
  BY DEF vars, PlannedPool, Spent, Exhausted
<1>2. Wanted(plan)' = Wanted(plan)
  BY DEF vars, Wanted
<1>3. TypeOK'
  BY DEF IInv, TypeOK, vars
<1>4. PoolInv' /\ ChildrenInv'
  BY DEF IInv, PoolInv, ChildrenInv, vars
<1>5. PlanInv'
  BY <1>1, <1>2 DEF IInv, PlanInv, Planned, vars
<1>6. ReserveInv'
  BY DEF IInv, ReserveInv, vars
<1>7. PlanFailsOnlyWhen'
  BY <1>1 DEF IInv, PlanFailsOnlyWhen, vars
<1> QED
  BY <1>3, <1>4, <1>5, <1>6, <1>7 DEF IInv

LEMMA NextInv == IInv /\ [Next]_vars => IInv'
<1> SUFFICES ASSUME IInv, [Next]_vars PROVE IInv'
  OBVIOUS
<1>1. CASE PlanGeneration
  BY <1>1, PlanGenerationInv
<1>2. CASE PlanFallback
  BY <1>2, PlanFallbackInv
<1>3. CASE RunSlots
  BY <1>3, RunSlotsInv
<1>4. CASE Aggregate
  BY <1>4, AggregateInv
<1>5. CASE SelectNextPool
  BY <1>5, SelectNextPoolInv
<1>6. CASE UNCHANGED vars
  BY <1>6, StutterInv
<1> QED
  BY <1>1, <1>2, <1>3, <1>4, <1>5, <1>6 DEF Next

-----------------------------------------------------------------------------
(* What the invariant implies.                                              *)

LEMMA NoKinInv == IInv => NoKinPlanned
<1> SUFFICES ASSUME IInv, Planned, NEW i \in Crossovers(plan)
             PROVE  LET p == plan[i].parents[1]
                        q == plan[i].parents[2]
                    IN RootLineage(p) # RootLineage(q) /\ (Len(p) = 1 /\ Len(q) = 1 => p[1].seed # q[1].seed)
  BY DEF NoKinPlanned
<1> DEFINE p == plan[i].parents[1]
           q == plan[i].parents[2]
<1>1. IsPlan(plan, Range(pool)) /\ NoKin(plan) /\ TypeOK
  BY DEF IInv, PlanInv
<1>2. RootLineage(p) # RootLineage(q)
  BY <1>1 DEF NoKin, SameRootLineage
<1>3. IsProblem(p) /\ IsProblem(q)
  <2>1. plan[i] \in ItemsOf(Range(pool)) /\ plan[i].op = "crossover"
    BY <1>1, PlanType DEF Crossovers
  <2>2. p \in Range(pool) /\ q \in Range(pool)
    BY <2>1, ItemShape
  <2> QED
    BY <1>1, <2>2 DEF TypeOK
<1> HIDE DEF p, q
<1>4. ASSUME Len(p) = 1, Len(q) = 1, p[1].seed = q[1].seed PROVE FALSE
  <2>1. ASSUME NEW r, IsProblem(r), Len(r) = 1
        PROVE  r[1] \in Parts /\ RootLineage(r) = [r[1] EXCEPT !.mark = Bare]
    <3>1. r \in Seq(Parts) /\ 1 \in DOMAIN r
      BY <2>1 DEF IsProblem
    <3> QED
      BY <2>1, <3>1 DEF RootLineage, RootsOf, Suffixed
  <2>2. ASSUME NEW a \in Parts PROVE [a EXCEPT !.mark = Bare] = [seed |-> a.seed, mark |-> Bare]
    BY DEF Parts
  <2> QED
    BY <1>2, <1>3, <1>4, <2>1, <2>2, ZenonT(60)
<1> QED
  BY <1>2, <1>4 DEF p, q

LEMMA SpentInv == IInv => CrossoverBudgetSpent
<1> SUFFICES ASSUME IInv, phase = "slots",
                    Cardinality(Crossovers(plan)) < Min({crossoverCount, Cardinality(Generated(plan))}),
                    NEW i \in Generated(plan) \ Crossovers(plan), NEW p \in Range(PlannedPool)
             PROVE  \/ SameRootLineage(plan[i].parents[1], p)
                    \/ \E j \in Crossovers(plan) : Pair(plan[j]) = {plan[i].parents[1], p}
  BY DEF CrossoverBudgetSpent
<1>1. IsPlan(plan, Range(PlannedPool)) /\ crossoverCount \in CrossoverCounts
  BY DEF IInv, PlanInv, TypeOK
<1>2. i \in 1..PoolSize /\ plan[i] \in ItemsOf(Range(PlannedPool))
  BY <1>1, PlanType
<1>3. plan[i].op = "mutation"
  BY <1>1, <1>2, ItemShape, PlanType DEF Generated, Crossovers
<1>4. Cardinality(Crossovers(plan)) \in Nat /\ Wanted(plan) \in Nat
  BY <1>1, PlanType, WantedType
<1>5. ~(Cardinality(Crossovers(plan)) >= Wanted(plan))
  BY <1>4 DEF Wanted
<1>6. Used(plan, plan[i].parents[1], PlannedPool)
  BY <1>2, <1>3, <1>5 DEF IInv, PlanInv
<1> QED
  BY <1>6 DEF Used

LEMMA ArmInv == IInv => LockHoldsTheArm
BY DEF IInv, PlanInv, ReserveInv, LockHoldsTheArm

LEMMA CapInv == IInv => CapWithholds
<1> SUFFICES ASSUME IInv, phase = "slots", Cardinality(Fresh) >= 2, NEW item \in Range(plan)
             PROVE  Pair(item) \subseteq Fresh
  BY DEF CapWithholds, Fresh
<1>1. IsPlan(plan, Range(PlannedPool)) /\ TypeOK /\ PoolInv
  BY DEF IInv, PlanInv
<1>2. item \in ItemsOf(Range(PlannedPool))
  BY <1>1, PlanType DEF Range
<1>3. Pair(item) \subseteq Range(PlannedPool)
  BY <1>2, ItemPair
<1> QED
  BY <1>1, <1>3, SpentAreWithheld

-----------------------------------------------------------------------------
(* Theorems.                                                                *)

LEMMA Invariance == Spec => []IInv
<1> QED
  BY InitInv, NextInv, PTL DEF Spec

\* Every pool is as large as the first and holds no id twice, whatever ids have
\* grown to after however many generations: each has the suffixes of its ancestors
\* inside, every one older than its own.
THEOREM TypeCorrect == Spec => []TypeOK
<1>1. IInv => TypeOK
  BY DEF IInv
<1> QED
  BY <1>1, Invariance, PTL

\* validate_pool_plan lets no crossover of one root lineage into a plan, and so
\* none of two parents of one seed that no crossover is behind.
THEOREM KinAreNotPlanned == Spec => []NoKinPlanned
BY NoKinInv, Invariance, PTL

\* _force_theorem_crossover_exploration stops short of the budget only when
\* there is nothing left to cross.
THEOREM BudgetIsSpent == Spec => []CrossoverBudgetSpent
BY SpentInv, Invariance, PTL

\* Under OP_TYPE_LOCK no round leaves the arm.
THEOREM ArmIsHeld == Spec => []LockHoldsTheArm
BY ArmInv, Invariance, PTL

\* The fallback's plan is refused, and the run lost, in no other case.
THEOREM FailuresAreExplained == Spec => []PlanFailsOnlyWhen
<1>1. IInv => PlanFailsOnlyWhen
  BY DEF IInv
<1> QED
  BY <1>1, Invariance, PTL

\* _drop_exhausted_parents reaches every slot of the plan, for all the roots that
\* a parent's id has.
THEOREM CapIsKept == Spec => []CapWithholds
BY CapInv, Invariance, PTL

-----------------------------------------------------------------------------
(* The slot workers that work the plan off.                                *)

\* The budget: an attempt is only started while one is left, and is decided
\* about only after it was made.
BudgetInv ==
    /\ stage = "certify" => Len(history) < MaxAttempts
    /\ stage \in {"decide", "next"} => Len(history) >= 1 /\ row \in Rows
    /\ WithinAttempts

\* The lock binds the card that is tried next, too.
LockInv == opLock => card.op = planned.op

\* From the attempt until a card is put in place of its own, the slot's card
\* and replan count are the attempt's.
Tried == Latest.card = card /\ Latest.replans = replans /\ row.replans = replans
TriedInv ==
    /\ stage = "decide" => Tried
    /\ stage = "next" /\ LastAttempt => Tried
    /\ stage = "done" /\ row.status # "slot_failed" => Tried

\* A slot that goes on after a proof failure in its second or a later attempt
\* has used its replan, and so had every attempt it made since.
ProofInv ==
    /\ \A j, k \in DOMAIN history :
          2 <= j /\ j < k /\ history[j].class = "proof" => history[k].replans = 1
    /\ stage = "certify" \/ (stage = "next" /\ ~LastAttempt) =>
          \A j \in DOMAIN history : 2 <= j /\ history[j].class = "proof" => replans = 1
    /\ stage = "decide" =>
          \A j \in DOMAIN history :
              2 <= j /\ j < Len(history) /\ history[j].class = "proof" => replans = 1

SlotInv == SlotTypeOK /\ BudgetInv /\ LockInv /\ LockKeepsOperator /\ TriedInv /\ ProofInv
-----------------------------------------------------------------------------
LEMMA ParentsOfCard ==
    ASSUME NEW c \in Cards
    PROVE  Range(c.parents) \subseteq Parents
  <1>1. c.parents \in ParentLists
    BY DEF Cards
  <1>2. CASE \E p \in Parents : c.parents = <<p>>
    BY <1>2 DEF Range
  <1>3. CASE c.parents \in Parents \X Parents
    BY <1>3 DEF Range
  <1> QED  BY <1>1, <1>2, <1>3 DEF ParentLists

\* Whatever is put in place of a card is a card, and keeps the operator if the
\* slot is locked.
LEMMA ReplannedCards ==
    ASSUME card \in Cards, NEW c \in DeterministicCards \cup LLMCards
    PROVE  c \in Cards /\ (opLock => c.op = card.op)
  <1> USE DEF Cards, Ops, Variants, MutationVariants, CrossoverVariants
  <1>1. ASSUME NEW d \in DeterministicCards
        PROVE  d \in Cards /\ (opLock => d.op = card.op)
    <2>1. CASE card.op = "crossover" /\ ~opLock
      <3>1. PICK p \in Range(card.parents) :
                d = [op |-> "mutation", variant |-> "mutation_easy", parents |-> <<p>>]
        BY <1>1, <2>1 DEF DeterministicCards
      <3>2. p \in Parents
        BY ParentsOfCard
      <3> QED  BY <2>1, <3>1, <3>2 DEF ParentLists
    <2>2. CASE ~(card.op = "crossover" /\ ~opLock)
      BY <1>1, <2>2 DEF DeterministicCards
    <2> QED  BY <2>1, <2>2
  <1>2. ASSUME c \in LLMCards
        PROVE  c \in Cards /\ (opLock => c.op = card.op)
    <2>1. PICK op \in {"mutation", "crossover"}, variant \in Variants \ {"survivor"},
              parents \in {d.parents : d \in DeterministicCards}
                             \cup {<<p>> : p \in Range(card.parents)}
                             \cup (Range(card.parents) \X Range(card.parents)) :
              c = [op |-> ReplannedOp(op), variant |-> variant, parents |-> parents]
      BY <1>2 DEF LLMCards
    <2>2. parents \in ParentLists
      <3>1. Range(card.parents) \subseteq Parents
        BY ParentsOfCard
      <3>2. CASE parents \in {d.parents : d \in DeterministicCards}
        BY <1>1, <3>2
      <3>3. CASE parents \in {<<p>> : p \in Range(card.parents)}
        BY <3>1, <3>3 DEF ParentLists
      <3>4. CASE parents \in Range(card.parents) \X Range(card.parents)
        BY <3>1, <3>4 DEF ParentLists
      <3> QED  BY <2>1, <3>2, <3>3, <3>4
    <2>3. ReplannedOp(op) \in Ops /\ (opLock => ReplannedOp(op) = card.op)
      BY <2>1 DEF ReplannedOp
    <2> QED  BY <2>1, <2>2, <2>3
  <1> QED  BY <1>1, <1>2

LEMMA BudgetType ==
    ASSUME planned \in Cards
    PROVE  MaxAttempts \in Nat /\ MaxAttempts >= 1
  BY RetriesAssumption DEF MaxAttempts, Retries
-----------------------------------------------------------------------------
LEMMA InitHolds == SlotInit => SlotInv
  <1> SUFFICES ASSUME SlotInit PROVE SlotInv
    OBVIOUS
  <1>1. SlotTypeOK
    BY DEF SlotInit, SlotTypeOK
  <1>2. MaxAttempts \in Nat /\ MaxAttempts >= 1
    BY BudgetType DEF SlotInit
  <1> QED
    BY <1>1, <1>2 DEF SlotInit, SlotInv, BudgetInv, LockInv, LockKeepsOperator, TriedInv,
                      ProofInv, WithinAttempts

\* An attempt joins the histories.
LEMMA CertifyStep ==
    ASSUME SlotInv, Certify
    PROVE  SlotInv'
  <1> USE DEF SlotInv
  <1>0. PICK class \in Outcomes(card) : \E sig \in SignaturesOf(class) :
           /\ history' = Append(history, [card |-> card, replans |-> replans,
                                          class |-> class, sig |-> sig])
           /\ row' = [status |-> StatusOf(class), op |-> card.op,
                      attempted |-> {planned.op, card.op}, retries |-> Len(history),
                      qualityRetries |-> qualityRetries, replans |-> replans,
                      exhausted |-> FALSE]
    BY DEF Certify
  <1>1. PICK sig \in SignaturesOf(class) :
           /\ history' = Append(history, [card |-> card, replans |-> replans,
                                          class |-> class, sig |-> sig])
           /\ row' = [status |-> StatusOf(class), op |-> card.op,
                      attempted |-> {planned.op, card.op}, retries |-> Len(history),
                      qualityRetries |-> qualityRetries, replans |-> replans,
                      exhausted |-> FALSE]
    BY <1>0
  <1> DEFINE entry == [card |-> card, replans |-> replans, class |-> class, sig |-> sig]
  <1>2. class \in Classes /\ sig \in Signatures \cup Classes
    <2>1. class \in Classes
      BY DEF Outcomes, Classes
    <2> QED  BY <2>1 DEF SignaturesOf
  <1>3. entry \in Attempts
    BY <1>2 DEF Attempts, SlotTypeOK
  <1>4. /\ history \in Seq(Attempts) /\ history' \in Seq(Attempts)
        /\ Len(history') = Len(history) + 1 /\ DOMAIN history' = 1..Len(history) + 1
        /\ DOMAIN history = 1..Len(history) /\ Len(history) \in Nat
        /\ \A i \in DOMAIN history : history'[i] = history[i]
        /\ history'[Len(history) + 1] = entry
    BY <1>1, <1>3 DEF SlotTypeOK
  <1>5. row' \in Rows
    <2>1. StatusOf(class) \in {"certified", "survivor", "failed", "slot_failed"}
      BY DEF StatusOf
    <2>2. planned.op \in Ops /\ card.op \in Ops
      BY DEF SlotTypeOK, Cards
    <2> QED  BY <1>1, <1>4, <2>1, <2>2 DEF Rows, SlotTypeOK
  <1>6. UNCHANGED <<opLock, planned, card, replans, qualityRetries>>
        /\ stage = "certify" /\ stage' = "decide"
    BY DEF Certify
  <1>7. SlotTypeOK'
    BY <1>4, <1>5, <1>6 DEF SlotTypeOK
  <1>8. MaxAttempts \in Nat /\ MaxAttempts' = MaxAttempts
    BY <1>6, BudgetType DEF MaxAttempts, SlotTypeOK
  <1>9. BudgetInv'
    BY <1>4, <1>5, <1>6, <1>8 DEF BudgetInv, WithinAttempts
  <1>10. LockInv' /\ LockKeepsOperator'
    BY <1>4, <1>6 DEF LockInv, LockKeepsOperator
  <1>11. TriedInv'
    <2>1. Latest' = entry
      BY <1>4 DEF Latest
    <2>2. row'.replans = replans
      BY <1>1
    <2> QED  BY <2>1, <2>2, <1>6 DEF TriedInv, Tried
  <1>12. ProofInv'
    <2>1. ASSUME NEW j \in DOMAIN history', NEW k \in DOMAIN history',
                 2 <= j, j < k, history'[j].class = "proof"
          PROVE  history'[k].replans = 1
      <3>1. CASE k \in DOMAIN history
        BY <2>1, <3>1, <1>4 DEF ProofInv
      <3>2. CASE k = Len(history) + 1
        BY <2>1, <3>2, <1>4, <1>6 DEF ProofInv
      <3> QED  BY <3>1, <3>2, <1>4
    <2>2. ASSUME NEW j \in DOMAIN history', 2 <= j, j < Len(history'),
                 history'[j].class = "proof"
          PROVE  replans' = 1
      BY <2>2, <1>4, <1>6 DEF ProofInv
    <2> QED  BY <2>1, <2>2, <1>6 DEF ProofInv
  <1> QED  BY <1>7, <1>9, <1>10, <1>11, <1>12

LEMMA RaiseStep ==
    ASSUME SlotInv, Raise
    PROVE  SlotInv'
  <1> USE DEF SlotInv
  <1>1. row' \in Rows
    <2>1. planned.op \in Ops /\ Len(history) \in Nat
      BY DEF SlotTypeOK, Cards
    <2> QED  BY <2>1 DEF Raise, Rows, SlotTypeOK
  <1>2. row'.status = "slot_failed"
    BY DEF Raise
  <1>3. SlotTypeOK'
    BY <1>1 DEF Raise, SlotTypeOK
  <1>4. BudgetInv'
    BY DEF BudgetInv, Raise, WithinAttempts, MaxAttempts
  <1>5. LockInv' /\ LockKeepsOperator' /\ TriedInv' /\ ProofInv'
    BY <1>2 DEF Raise, LockInv, LockKeepsOperator, TriedInv, ProofInv
  <1> QED  BY <1>3, <1>4, <1>5

LEMMA SettleStep ==
    ASSUME SlotInv, Settle
    PROVE  SlotInv'
  <1> USE DEF SlotInv, Settle
  <1>1. SlotTypeOK'
    BY DEF SlotTypeOK
  <1>2. BudgetInv'
    BY DEF BudgetInv, WithinAttempts, MaxAttempts
  <1>3. LockInv' /\ LockKeepsOperator' /\ TriedInv' /\ ProofInv'
    BY DEF LockInv, LockKeepsOperator, TriedInv, Tried, Latest, ProofInv
  <1> QED  BY <1>1, <1>2, <1>3
\* A second proof failure is plan-level, so a slot that may still replan does.
LEMMA ProofFailureReplans ==
    ASSUME SlotInv, stage = "decide", ~ReplanNeeded, ~LastAttempt,
           NEW j \in DOMAIN history, 2 <= j, history[j].class = "proof"
    PROVE  replans = 1
  <1>1. /\ DOMAIN history = 1..Len(history) /\ Len(history) \in Nat
        /\ replans \in 0..1
    BY DEF SlotInv, SlotTypeOK
  <1>2. CASE j < Len(history)
    BY <1>2 DEF SlotInv, ProofInv
  <1>3. CASE j = Len(history)
    <2>1. Latest.class = "proof" /\ Len(history) >= 2
      BY <1>3 DEF Latest
    <2>2. PlanLevelFailure
      BY <2>1 DEF PlanLevelFailure, Latest
    <2> QED  BY <2>2, <1>1 DEF ReplanNeeded
  <1> QED  BY <1>1, <1>2, <1>3

LEMMA RetryStep ==
    ASSUME SlotInv, Retry
    PROVE  SlotInv'
  <1> USE DEF SlotInv
  <1>1. /\ UNCHANGED <<opLock, planned, card, history, replans, row>>
        /\ stage = "decide" /\ stage' = "next" /\ ~ReplanNeeded
        /\ qualityRetries' \in {qualityRetries, qualityRetries + 1}
    BY DEF Retry, CountedQualityRetry
  <1>2. SlotTypeOK'
    BY <1>1 DEF SlotTypeOK
  <1>3. BudgetInv'
    BY <1>1 DEF BudgetInv, WithinAttempts, MaxAttempts
  <1>4. LockInv' /\ LockKeepsOperator' /\ TriedInv'
    BY <1>1 DEF LockInv, LockKeepsOperator, TriedInv, Tried, Latest
  <1>5. LastAttempt' = LastAttempt
    BY <1>1 DEF LastAttempt, MaxAttempts
  <1>6. ProofInv'
    BY <1>1, <1>5, ProofFailureReplans DEF ProofInv
  <1> QED  BY <1>2, <1>3, <1>4, <1>6

LEMMA ReplanStep ==
    ASSUME SlotInv, Replan
    PROVE  SlotInv'
  <1> USE DEF SlotInv
  <1>1. /\ UNCHANGED <<opLock, planned, history, row>>
        /\ stage = "decide" /\ stage' = "next"
        /\ replans = 0 /\ replans' = 1 /\ ~LastAttempt
        /\ qualityRetries' \in {qualityRetries, qualityRetries + 1}
        /\ card' \in DeterministicCards \cup LLMCards
    BY DEF Replan, ReplanNeeded, CountedQualityRetry
  <1>2. card' \in Cards /\ (opLock => card'.op = card.op)
    BY <1>1, ReplannedCards DEF SlotTypeOK
  <1>3. SlotTypeOK'
    BY <1>1, <1>2 DEF SlotTypeOK
  <1>4. BudgetInv'
    BY <1>1 DEF BudgetInv, WithinAttempts, MaxAttempts
  <1>5. LockInv' /\ LockKeepsOperator'
    BY <1>1, <1>2 DEF LockInv, LockKeepsOperator
  <1>6. ~LastAttempt'
    BY <1>1 DEF LastAttempt, MaxAttempts
  <1>7. TriedInv' /\ ProofInv'
    BY <1>1, <1>6 DEF TriedInv, ProofInv
  <1> QED  BY <1>3, <1>4, <1>5, <1>7

LEMMA NextAttemptStep ==
    ASSUME SlotInv, NextAttempt
    PROVE  SlotInv'
  <1> USE DEF SlotInv, NextAttempt
  <1>1. SlotTypeOK'
    BY DEF SlotTypeOK
  <1>2. /\ MaxAttempts \in Nat /\ MaxAttempts' = MaxAttempts
        /\ Len(history) \in Nat /\ Len(history)' = Len(history)
    BY BudgetType DEF SlotTypeOK, MaxAttempts
  <1>3. BudgetInv'
    BY <1>2 DEF BudgetInv, WithinAttempts, LastAttempt
  <1>4. LockInv' /\ LockKeepsOperator' /\ TriedInv' /\ ProofInv'
    BY DEF LockInv, LockKeepsOperator, TriedInv, ProofInv
  <1> QED  BY <1>1, <1>3, <1>4

LEMMA ExhaustStep ==
    ASSUME SlotInv, Exhaust
    PROVE  SlotInv'
  <1> USE DEF SlotInv
  <1>1. /\ UNCHANGED <<opLock, planned, card, history, replans, qualityRetries>>
        /\ stage = "next" /\ stage' = "done" /\ LastAttempt
        /\ row' = [row EXCEPT !.exhausted = TRUE, !.attempted = {planned.op},
                              !.qualityRetries = qualityRetries, !.replans = replans]
    BY DEF Exhaust
  <1>2. row \in Rows
    BY <1>1 DEF BudgetInv
  <1>3. row' \in Rows /\ row'.replans = replans
    <2>1. planned.op \in Ops
      BY DEF SlotTypeOK, Cards
    <2> QED  BY <1>1, <1>2, <2>1 DEF Rows, SlotTypeOK
  <1>4. SlotTypeOK'
    BY <1>1, <1>3 DEF SlotTypeOK
  <1>5. BudgetInv' /\ LockInv' /\ LockKeepsOperator' /\ ProofInv'
    BY <1>1 DEF BudgetInv, WithinAttempts, MaxAttempts, LockInv, LockKeepsOperator, ProofInv
  <1>6. TriedInv'
    BY <1>1, <1>3 DEF TriedInv, Tried, Latest
  <1> QED  BY <1>4, <1>5, <1>6

LEMMA StepHolds == SlotInv /\ [SlotNext]_slotVars => SlotInv'
  <1> SUFFICES ASSUME SlotInv, [SlotNext]_slotVars PROVE SlotInv'
    OBVIOUS
  <1>1. CASE UNCHANGED slotVars
    BY <1>1 DEF slotVars, SlotInv, SlotTypeOK, BudgetInv, WithinAttempts, LastAttempt, MaxAttempts,
                LockInv, LockKeepsOperator, TriedInv, Tried, Latest, ProofInv
  <1> QED
    BY <1>1, CertifyStep, RaiseStep, SettleStep, RetryStep, ReplanStep, NextAttemptStep,
       ExhaustStep DEF SlotNext
-----------------------------------------------------------------------------
\* The state has its type for every budget, pool and set of signatures.
THEOREM TypeInvariant == SlotSpec => []SlotTypeOK
  <1>1. SlotInv => SlotTypeOK
    BY DEF SlotInv
  <1> QED  BY <1>1, InitHolds, StepHolds, PTL DEF SlotSpec

\* A slot never makes more attempts than its budget (one for a survivor), so
\* the retry loop of slot_unit_node ends.
THEOREM BudgetHolds == SlotSpec => []WithinAttempts
  <1>1. SlotInv => WithinAttempts
    BY DEF SlotInv, BudgetInv
  <1> QED  BY <1>1, InitHolds, StepHolds, PTL DEF SlotSpec

\* With OP_TYPE_LOCK every attempt has the planned operator, whatever the
\* replanner answers and whichever of its two paths made the card.
THEOREM LockHolds == SlotSpec => []LockKeepsOperator
  <1>1. SlotInv => LockKeepsOperator
    BY DEF SlotInv
  <1> QED  BY <1>1, InitHolds, StepHolds, PTL DEF SlotSpec

\* The one replan is spent on a card that is tried, and the row reports it.
THEOREM ReplansAreTried == SlotSpec => []ReplanIsTried
  <1>1. SlotInv => ReplanIsTried
    BY DEF SlotInv, TriedInv, Tried, ReplanIsTried, Done
  <1> QED  BY <1>1, InitHolds, StepHolds, PTL DEF SlotSpec

\* No card is retried after its proofs failed twice alike while the slot still
\* has its replan.
THEOREM RepetitionIsReplanned == SlotSpec => []RepetitionReplans
  <1>1. SlotInv => RepetitionReplans
    <2> SUFFICES ASSUME SlotInv,
                        NEW i \in DOMAIN history, NEW j \in DOMAIN history,
                        NEW k \in DOMAIN history, i < j, j < k, history[j].class = "proof"
                 PROVE  history[k].replans = 1
      BY DEF RepetitionReplans
    <2>1. DOMAIN history = 1..Len(history) /\ Len(history) \in Nat
      BY DEF SlotInv, SlotTypeOK
    <2>2. 2 <= j
      BY <2>1
    <2> QED  BY <2>2 DEF SlotInv, ProofInv
  <1> QED  BY <1>1, InitHolds, StepHolds, PTL DEF SlotSpec
-----------------------------------------------------------------------------
(* What the slot's row reports.                                             *)

\* retry_exhausted is set by the exits that spend the budget, and only there.
ReportInv ==
    /\ stage \in {"decide", "next"} => row.exhausted = FALSE /\ row.status # "slot_failed"
    /\ stage = "next" => ShouldRetry
    /\ ExhaustedMeansSpent

\* Every attempt ran with the planned card or the replanned one.
CardsInv ==
    /\ history = <<>> => replans = 0
    /\ replans = 0 => card = planned /\ \A i \in DOMAIN history : history[i].card = planned
    /\ \A i \in DOMAIN history : history[i].card \in {planned, card}
    /\ history # <<>> => history[1].card = planned
    /\ stage = "decide" => row.attempted = {planned.op, card.op}
    /\ AttemptedIsHistory

\* quality_retry_count is the number of weak attempts that were followed, or
\* are about to be.
WeakIn(h, n) == {i \in 1..n : h[i].class \in QualityFlaws}
QualityInv ==
    /\ stage = "certify" \/ (stage = "next" /\ ~LastAttempt) =>
          qualityRetries = Cardinality(WeakIn(history, Len(history)))
    /\ stage = "decide" \/ (stage = "next" /\ LastAttempt) =>
          qualityRetries = Cardinality(WeakIn(history, Len(history) - 1))
    /\ stage = "decide" => row.qualityRetries = qualityRetries
    /\ QualityRetriesCounted

LEMMA StatusOfAttempt == \A class : StatusOf(class) # "slot_failed"
  BY DEF StatusOf

\* One more attempt adds one to the weak ones if it is weak.
LEMMA WeakGrows ==
    ASSUME SlotInv, Len(history) >= 1
    PROVE  /\ Cardinality(WeakIn(history, Len(history) - 1)) \in Nat
           /\ Cardinality(WeakIn(history, Len(history))) =
                  Cardinality(WeakIn(history, Len(history) - 1))
                      + (IF Latest.class \in QualityFlaws THEN 1 ELSE 0)
  <1>1. Len(history) \in Nat /\ DOMAIN history = 1..Len(history)
    BY DEF SlotInv, SlotTypeOK
  <1> DEFINE n == Len(history)
             S == WeakIn(history, n - 1)
  <1>2. IsFiniteSet(S) /\ n \notin S
    <2>1. S \in SUBSET (1..n - 1) /\ n \notin S
      BY <1>1 DEF WeakIn
    <2>2. IsFiniteSet(1..n - 1)
      BY <1>1, FS_Interval
    <2> QED  BY <2>1, <2>2, FS_Subset
  <1>3. WeakIn(history, n) = IF Latest.class \in QualityFlaws THEN S \cup {n} ELSE S
    BY <1>1 DEF WeakIn, Latest
  <1>4. Cardinality(S) \in Nat /\ Cardinality(S \cup {n}) = Cardinality(S) + 1
    BY <1>2, FS_AddElement, FS_CardinalityType
  <1> HIDE DEF S
  <1> QED  BY <1>3, <1>4 DEF S

\* What Certify adds, in one place.
LEMMA AttemptMade ==
    ASSUME Certify
    PROVE  /\ \E a : a.card = card /\ history' = Append(history, a)
           /\ row'.attempted = {planned.op, card.op} /\ row'.qualityRetries = qualityRetries
  <1>1. PICK class \in Outcomes(card) : \E sig \in SignaturesOf(class) :
           /\ history' = Append(history, [card |-> card, replans |-> replans,
                                          class |-> class, sig |-> sig])
           /\ row' = [status |-> StatusOf(class), op |-> card.op,
                      attempted |-> {planned.op, card.op}, retries |-> Len(history),
                      qualityRetries |-> qualityRetries, replans |-> replans,
                      exhausted |-> FALSE]
    BY DEF Certify
  <1>2. PICK sig \in SignaturesOf(class) :
           history' = Append(history, [card |-> card, replans |-> replans,
                                       class |-> class, sig |-> sig])
    BY <1>1
  <1> DEFINE a == [card |-> card, replans |-> replans, class |-> class, sig |-> sig]
  <1>3. a.card = card /\ history' = Append(history, a)
    BY <1>2
  <1> QED  BY <1>1, <1>3

LEMMA ReportStep ==
    ASSUME SlotInv, ReportInv, [SlotNext]_slotVars
    PROVE  ReportInv'
  <1> USE DEF ReportInv, ExhaustedMeansSpent, Done
  <1>1. CASE Certify
    <2>1. stage' = "decide" /\ row'.exhausted = FALSE /\ row'.status # "slot_failed"
      BY <1>1, StatusOfAttempt DEF Certify
    <2> QED  BY <2>1
  <1>2. CASE Raise
    BY <1>2 DEF Raise
  <1>3. CASE Settle
    BY <1>3 DEF Settle, ShouldRetry, Latest
  <1>4. CASE Retry
    BY <1>4 DEF Retry, ShouldRetry, Latest
  <1>5. CASE Replan
    BY <1>5 DEF Replan, ShouldRetry, Latest
  <1>6. CASE NextAttempt
    BY <1>6 DEF NextAttempt
  <1>7. CASE Exhaust
    <2>1. row \in Rows /\ Len(history) = MaxAttempts
      <3>1. Len(history) \in Nat /\ MaxAttempts \in Nat
        BY BudgetType DEF SlotInv, SlotTypeOK
      <3> QED  BY <1>7, <3>1 DEF Exhaust, SlotInv, BudgetInv, WithinAttempts, LastAttempt
    <2>2. stage' = "done" /\ row'.exhausted = TRUE /\ row'.status = row.status
      BY <1>7, <2>1 DEF Exhaust, Rows
    <2>3. ShouldRetry' /\ Len(history)' = MaxAttempts'
      BY <1>7, <2>1 DEF Exhaust, ShouldRetry, Latest, MaxAttempts
    <2> QED  BY <2>2, <2>3
  <1>8. CASE UNCHANGED slotVars
    BY <1>8 DEF slotVars, ShouldRetry, Latest, MaxAttempts
  <1> QED  BY <1>1, <1>2, <1>3, <1>4, <1>5, <1>6, <1>7, <1>8 DEF SlotNext

LEMMA CardsStep ==
    ASSUME SlotInv, CardsInv, [SlotNext]_slotVars
    PROVE  CardsInv'
  <1> USE DEF CardsInv, AttemptedIsHistory, Done
  <1>0. /\ history \in Seq(Attempts) /\ Len(history) \in Nat /\ DOMAIN history = 1..Len(history)
        /\ replans \in 0..1
    BY DEF SlotInv, SlotTypeOK
  <1>1. CASE Certify
    <2>1. /\ UNCHANGED <<planned, card, replans>> /\ stage' = "decide"
          /\ row'.attempted = {planned.op, card.op}
      BY <1>1, AttemptMade DEF Certify
    <2>0. PICK a : a.card = card /\ history' = Append(history, a)
      BY <1>1, AttemptMade
    <2>2. /\ DOMAIN history' = 1..Len(history) + 1 /\ history' # <<>>
          /\ \A i \in DOMAIN history : history'[i] = history[i]
          /\ history'[Len(history) + 1].card = card
      BY <1>0, <2>0
    <2>3. \A i \in DOMAIN history' : i \in DOMAIN history \/ i = Len(history) + 1
      BY <1>0, <2>2
    <2>4. history'[1].card = planned
      <3>1. CASE history = <<>>
        BY <2>2, <3>1
      <3>2. CASE history # <<>>
        BY <1>0, <2>2, <3>2
      <3> QED  BY <3>1, <3>2
    <2> QED  BY <2>1, <2>2, <2>3, <2>4
  <1>2. CASE Raise
    BY <1>2 DEF Raise
  <1>3. CASE Settle
    <2>1. Len(history) >= 1 /\ history[Len(history)].card = card
      BY <1>3 DEF Settle, SlotInv, BudgetInv, TriedInv, Tried, Latest
    <2>2. {history[i].card.op : i \in DOMAIN history} = {planned.op, card.op}
      <3>1. history # <<>> /\ 1 \in DOMAIN history /\ Len(history) \in DOMAIN history
        BY <1>0, <2>1
      <3> QED  BY <2>1, <3>1
    <2> QED  BY <1>3, <2>2 DEF Settle
  <1>4. CASE Retry
    BY <1>4 DEF Retry
  <1>5. CASE Replan
    BY <1>0, <1>5 DEF Replan, ReplanNeeded, SlotInv, BudgetInv
  <1>6. CASE NextAttempt
    BY <1>6 DEF NextAttempt
  <1>7. CASE Exhaust
    <2>1. row'.exhausted = TRUE
      BY <1>7 DEF Exhaust, SlotInv, BudgetInv, Rows
    <2> QED  BY <1>7, <2>1 DEF Exhaust
  <1>8. CASE UNCHANGED slotVars
    BY <1>8 DEF slotVars
  <1> QED  BY <1>1, <1>2, <1>3, <1>4, <1>5, <1>6, <1>7, <1>8 DEF SlotNext

LEMMA QualityStep ==
    ASSUME SlotInv, QualityInv, [SlotNext]_slotVars
    PROVE  QualityInv'
  <1> USE DEF QualityInv, QualityRetriesCounted, Done
  <1>0. /\ history \in Seq(Attempts) /\ Len(history) \in Nat /\ DOMAIN history = 1..Len(history)
        /\ qualityRetries \in Nat
    BY DEF SlotInv, SlotTypeOK
  <1>1. CASE Certify
    <2>1. /\ stage = "certify" /\ stage' = "decide" /\ qualityRetries' = qualityRetries
          /\ row'.qualityRetries = qualityRetries
      BY <1>1, AttemptMade DEF Certify
    <2>2. /\ Len(history') - 1 = Len(history)
          /\ \A i \in 1..Len(history) : history'[i] = history[i]
      <3>1. PICK a : history' = Append(history, a)
        BY <1>1, AttemptMade
      <3> QED  BY <1>0, <3>1
    <2>3. WeakIn(history', Len(history)) = WeakIn(history, Len(history))
      BY <2>2 DEF WeakIn
    <2> QED  BY <2>1, <2>2, <2>3
  <1>2. CASE Raise
    BY <1>2 DEF Raise
  <1>3. CASE Settle
    BY <1>3 DEF Settle, WeakIn
  <1>4. ASSUME Retry \/ Replan
        PROVE  QualityInv'
    <2>1. /\ stage = "decide" /\ stage' = "next" /\ history' = history /\ LastAttempt' = LastAttempt
          /\ qualityRetries' = IF Latest.class \in QualityFlaws /\ ~LastAttempt
                               THEN qualityRetries + 1 ELSE qualityRetries
      BY <1>4 DEF Retry, Replan, CountedQualityRetry, LastAttempt, MaxAttempts
    <2>2. Len(history) >= 1
      BY <2>1 DEF SlotInv, BudgetInv
    <2>3. CASE LastAttempt
      BY <2>1, <2>3
    <2>4. CASE ~LastAttempt
      BY <2>1, <2>2, <2>4, WeakGrows
    <2> QED  BY <2>3, <2>4
  <1>5. CASE NextAttempt
    BY <1>5 DEF NextAttempt
  <1>6. CASE Exhaust
    <2>1. row'.qualityRetries = qualityRetries
      BY <1>6 DEF Exhaust, SlotInv, BudgetInv, Rows
    <2> QED  BY <1>6, <2>1 DEF Exhaust, WeakIn
  <1>7. CASE UNCHANGED slotVars
    BY <1>7 DEF slotVars, LastAttempt, MaxAttempts
  <1> QED  BY <1>1, <1>2, <1>3, <1>4, <1>5, <1>6, <1>7 DEF SlotNext

LEMMA InitTelemetry == SlotInit => ReportInv /\ CardsInv /\ QualityInv
  <1> SUFFICES ASSUME SlotInit PROVE ReportInv /\ CardsInv /\ QualityInv
    OBVIOUS
  <1>1. WeakIn(history, Len(history)) = {} /\ Cardinality({}) = 0
    BY FS_EmptySet DEF SlotInit, WeakIn
  <1> QED
    BY <1>1 DEF SlotInit, ReportInv, ExhaustedMeansSpent, CardsInv, AttemptedIsHistory, QualityInv,
                QualityRetriesCounted, Done

\* retry_exhausted is reported exactly for the slots whose last allowed attempt
\* was still retryable, and for those that raised.
THEOREM ExhaustionIsReported == SlotSpec => []ExhaustedMeansSpent
  <1>1. SlotInv /\ ReportInv => ExhaustedMeansSpent
    BY DEF ReportInv
  <1> QED  BY <1>1, InitHolds, StepHolds, InitTelemetry, ReportStep, PTL DEF SlotSpec

\* attempted_op_types of a slot that did not exhaust its retries is the set of
\* operators it ran with.
THEOREM AttemptsAreReported == SlotSpec => []AttemptedIsHistory
  <1>1. SlotInv /\ CardsInv => AttemptedIsHistory
    BY DEF CardsInv
  <1> QED  BY <1>1, InitHolds, StepHolds, InitTelemetry, CardsStep, PTL DEF SlotSpec

\* quality_retry_count is the number of attempts that followed a certified but
\* weak one.
THEOREM QualityRetriesAreReported == SlotSpec => []QualityRetriesCounted
  <1>1. SlotInv /\ QualityInv => QualityRetriesCounted
    BY DEF QualityInv
  <1> QED  BY <1>1, InitHolds, StepHolds, InitTelemetry, QualityStep, PTL DEF SlotSpec

=============================================================================
