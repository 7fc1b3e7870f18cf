-------------------------- MODULE ProofTree_proofs --------------------------
(***************************************************************************)
(* Proofs about ProofTree: for any proof states, any graph that tactics    *)
(* make of them, cycles included, and any order of expansion.              *)
(*                                                                         *)
(* The library's induction theorems have an operator as a parameter; here  *)
(* inductions are on the least element of the set of counterexamples.      *)
(***************************************************************************)
EXTENDS ProofTree, FiniteSetTheorems, WellFoundedInduction, TLAPS

USE ConstantsAssumption, NodesAssumption

Nodes == States \cup Terminals

\* What the search and the recursion rely on: what is queued is not explored,
\* each node knows who leads to it, and only explored nodes are called.
GraphInv ==
    /\ \A n \in States : IsExplored(n) => n \in known
    /\ \A n \in queue : ~IsExplored(n)
    /\ \A n \in States : ~IsExplored(n) => status[n] = "OPEN" /\ distance[n] = Infinity
    /\ \A m, n \in States : IsExplored(m) /\ n \in Range(edges[m]) => m \in Range(inEdges[n])
    /\ \A n \in States : \A m \in Range(inEdges[n]) : IsExplored(m)
    /\ \A n \in Range(calls) : IsExplored(n)
    /\ phase \in {"status", "distance"} => node \in States /\ IsExplored(node)
    /\ phase \notin {"status", "distance"} => calls = <<>>

\* A settled status has its reason among the destinations; no status says more
\* than the explored graph ...
SoundStatus ==
    /\ \A n \in States : status[n] = "PROVED" => \E d \in Range(edges[n]) : StatusOf(d) = "PROVED"
    /\ \A n \in States : status[n] = "FAILED" => \A d \in Range(edges[n]) : StatusOf(d) = "FAILED"
    /\ \A set \in SUBSET States : ProofClosed(set) => \A n \in States : status[n] = "PROVED" => n \in set
    /\ \A set \in SUBSET States : FailureClosed(set) => \A n \in States : status[n] = "FAILED" => n \in set

\* ... and what it says follows, but for the nodes still to be called.
Follows(n) ==
    /\ (\E d \in Range(edges[n]) : StatusOf(d) = "PROVED") => status[n] = "PROVED"
    /\ (\A d \in Range(edges[n]) : StatusOf(d) = "FAILED") => status[n] = "FAILED"
CompleteStatus ==
    \A n \in States : IsExplored(n) /\ ~(phase = "status" /\ n \in Range(calls)) => Follows(n)

\* No distance is less than an edge more than that of some destination ...
Backed(n) == \E d \in Range(edges[n]) : DistanceOf(d) # Infinity /\ 1 + DistanceOf(d) <= distance[n]
SoundDistance == \A n \in States : distance[n] # Infinity => IsExplored(n) /\ Backed(n)

\* ... and none is more, but for the nodes whose distance is to be recomputed.
Relaxed(n) ==
    \A d \in Range(edges[n]) : DistanceOf(d) # Infinity =>
        distance[n] # Infinity /\ distance[n] <= 1 + DistanceOf(d)
Recomputing(n) == (phase = "distance" /\ n \in Range(calls)) \/ (phase = "status" /\ n = node)
CompleteDistance == \A n \in States : IsExplored(n) /\ ~Recomputing(n) => Relaxed(n)

\* The tactics of a proof lead from one state to the next, and the last one to
\* a finished proof.
Leads(n, proof) ==
    LET path == <<n>> \o proof IN
        /\ \A i \in 1..Len(path) - 1 : path[i] \in States /\ path[i + 1] \in Range(edges[path[i]])
        /\ Last(path) \in ProofNodes

ResultInv ==
    result.status = "PROVED" =>
        /\ phase = "ended"
        /\ Leads(Root, result.proof)
        /\ distance[Root] # Infinity /\ Len(result.proof) = distance[Root]

IInv ==
    /\ TypeOK /\ GraphInv
    /\ SoundStatus /\ CompleteStatus
    /\ SoundDistance /\ CompleteDistance
    /\ ResultInv

-----------------------------------------------------------------------------
(* Numbers, sequences and what the operators of the model return.           *)

\* A nonempty set of naturals has a least element, which is its Min.
LEMMA LeastElement ==
    ASSUME NEW S \in SUBSET Nat, S # {}
    PROVE  \E m \in S : \A j \in S : m <= j
<1>1. PICK m \in S : \A y \in S : ~ (<<y, m>> \in OpToRel(<, Nat))
  BY NatLessThanWellFounded, WFMin
<1>2. \A y \in S : ~ (y < m)
  BY <1>1 DEF OpToRel
<1> QED
  BY <1>2

LEMMA MinIsLeast ==
    ASSUME NEW S \in SUBSET Nat, S # {}
    PROVE  Min(S) \in S /\ \A j \in S : Min(S) <= j
BY LeastElement DEF Min

\* A function may be defined by recursion over the naturals.
LEMMA NatRecursion ==
    ASSUME NEW S, NEW s0 \in S, NEW F \in [S -> S]
    PROVE  \E g \in [Nat -> S] : g[0] = s0 /\ \A k \in Nat : g[k + 1] = F[g[k]]
<1> DEFINE Start(n) == {h \in [0..n -> S] : h[0] = s0 /\ \A k \in 0..n - 1 : h[k + 1] = F[h[k]]}
           Bad == {n \in Nat : Start(n) = {}}
<1>1. \A n \in Nat : Start(n) # {}
  <2> SUFFICES ASSUME Bad # {} PROVE FALSE
    OBVIOUS
  <2>1. PICK m \in Bad : \A j \in Bad : m <= j
    <3> Bad \in SUBSET Nat
      OBVIOUS
    <3> QED
      BY LeastElement
  <2>2. CASE m = 0
    <3>1. [k \in 0..0 |-> s0] \in Start(0)
      OBVIOUS
    <3> QED
      BY <2>2, <3>1
  <2>3. CASE m # 0
    <3>1. m \in Nat /\ m - 1 \in Nat /\ m - 1 \notin Bad
      BY <2>1, <2>3
    <3>2. PICK h \in [0..m - 1 -> S] : h[0] = s0 /\ \A k \in 0..(m - 1) - 1 : h[k + 1] = F[h[k]]
      BY <3>1
    <3> DEFINE longer == [k \in 0..m |-> IF k = m THEN F[h[m - 1]] ELSE h[k]]
    <3>3. longer \in [0..m -> S]
      <4>1. \A k \in 0..m : k # m => k \in 0..m - 1
        BY <3>1
      <4>2. F[h[m - 1]] \in S
        BY <3>1, <3>2
      <4> QED
        BY <4>1, <4>2, <3>2
    <3>4. longer[0] = s0
      BY <3>1, <3>2
    <3>5. ASSUME NEW k \in 0..m - 1 PROVE longer[k + 1] = F[longer[k]]
      <4>1. longer[k] = h[k]
        BY <3>1
      <4>2. CASE k = m - 1
        BY <3>1, <4>1, <4>2
      <4>3. CASE k # m - 1
        <5>1. k \in 0..(m - 1) - 1 /\ k + 1 \in 0..m /\ k + 1 # m
          BY <3>1, <4>3
        <5> QED
          BY <5>1, <4>1, <3>2
      <4> QED
        BY <4>2, <4>3
    <3>6. longer \in Start(m)
      BY <3>3, <3>4, <3>5
    <3> QED
      BY <3>6
  <2> QED
    BY <2>2, <2>3
<1>2. ASSUME NEW n \in Nat, NEW m \in Nat, n <= m, NEW h \in Start(n), NEW j \in Start(m)
      PROVE  \A k \in 0..n : h[k] = j[k]
  <2> DEFINE Differ == {k \in Nat : k <= n /\ h[k] # j[k]}
  <2> SUFFICES ASSUME NEW i \in 0..n, h[i] # j[i] PROVE FALSE
    OBVIOUS
  <2>1. PICK k \in Differ : \A l \in Differ : k <= l
    <3> Differ \in SUBSET Nat /\ i \in Differ
      OBVIOUS
    <3> QED
      BY LeastElement
  <2>2. k # 0
    OBVIOUS
  <2>3. k - 1 \in Nat /\ k - 1 \in 0..n - 1 /\ k - 1 \in 0..m - 1 /\ (k - 1) + 1 = k /\ k - 1 \notin Differ
    BY <1>2, <2>1, <2>2
  <2>4. h[k - 1] = j[k - 1] /\ h[k] = F[h[k - 1]] /\ j[k] = F[j[k - 1]]
    BY <2>3
  <2> QED
    BY <2>4
<1> DEFINE Of(n) == CHOOSE h \in Start(n) : TRUE
           g == [n \in Nat |-> Of(n)[n]]
<1>3. \A n \in Nat : Of(n) \in Start(n)
  BY <1>1
<1> HIDE DEF Of
<1>4. g \in [Nat -> S]
  BY <1>3
<1>5. g[0] = s0
  BY <1>3
<1>6. ASSUME NEW k \in Nat PROVE g[k + 1] = F[g[k]]
  <2>1. k + 1 \in Nat /\ k <= k + 1 /\ Of(k) \in Start(k) /\ Of(k + 1) \in Start(k + 1)
    BY <1>3
  <2>2. Of(k)[k] = Of(k + 1)[k]
    <3> HIDE DEF Start
    <3>1. \A i \in 0..k : Of(k)[i] = Of(k + 1)[i]
      BY <2>1, <1>2
    <3> QED
      BY <3>1
  <2>3. Of(k + 1)[k + 1] = F[Of(k + 1)[k]]
    BY <2>1
  <2> QED
    BY <2>2, <2>3
<1> QED
  BY <1>4, <1>5, <1>6

LEMMA Concatenated ==
    ASSUME NEW S, NEW s \in Seq(S), NEW t \in Seq(S)
    PROVE  s \o t \in Seq(S) /\ Range(s \o t) = Range(s) \cup Range(t)
<1>1. s \o t \in Seq(S) /\ Len(s \o t) = Len(s) + Len(t)
  OBVIOUS
<1>2. \A i \in 1..Len(s) : (s \o t)[i] = s[i]
  OBVIOUS
<1>3. \A i \in 1..Len(t) : (s \o t)[Len(s) + i] = t[i]
  OBVIOUS
<1>4. \A i \in 1..Len(s) + Len(t) : i \in 1..Len(s) \/ i - Len(s) \in 1..Len(t)
  OBVIOUS
<1>5. ASSUME NEW i \in 1..Len(s) + Len(t) PROVE (s \o t)[i] \in Range(s) \cup Range(t)
  <2>1. CASE i \in 1..Len(s)
    BY <2>1, <1>2 DEF Range
  <2>2. CASE i - Len(s) \in 1..Len(t)
    <3>1. (s \o t)[i] = t[i - Len(s)]
      BY <1>3, <2>2
    <3> QED
      BY <3>1, <2>2 DEF Range
  <2> QED
    BY <2>1, <2>2, <1>4
<1>6. Range(s \o t) \subseteq Range(s) \cup Range(t)
  BY <1>1, <1>5 DEF Range
<1>7. ASSUME NEW i \in 1..Len(s) PROVE s[i] \in Range(s \o t)
  <2>1. i \in 1..Len(s \o t)
    BY <1>1
  <2> QED
    BY <1>1, <1>2, <2>1 DEF Range
<1>8. ASSUME NEW i \in 1..Len(t) PROVE t[i] \in Range(s \o t)
  <2>1. Len(s) + i \in 1..Len(s \o t)
    BY <1>1
  <2> QED
    BY <1>1, <1>3, <2>1 DEF Range
<1>9. Range(s) \subseteq Range(s \o t)
  BY <1>7 DEF Range
<1>10. Range(t) \subseteq Range(s \o t)
  BY <1>8 DEF Range
<1> QED
  BY <1>1, <1>6, <1>9, <1>10

LEMMA Popped ==
    ASSUME NEW S, NEW s \in Seq(S), s # <<>>
    PROVE  /\ Head(s) \in S /\ Tail(s) \in Seq(S)
           /\ Range(s) = {Head(s)} \cup Range(Tail(s))
<1>1. Head(s) = s[1] /\ Head(s) \in S /\ Tail(s) \in Seq(S) /\ Len(Tail(s)) = Len(s) - 1 /\ Len(s) > 0
  OBVIOUS
<1>2. DOMAIN s = 1..Len(s) /\ DOMAIN Tail(s) = 1..Len(s) - 1 /\ \A i \in 1..Len(s) - 1 : Tail(s)[i] = s[i + 1]
  OBVIOUS
<1>3. ASSUME NEW i \in 1..Len(s) PROVE s[i] \in {Head(s)} \cup Range(Tail(s))
  <2>1. CASE i = 1
    BY <2>1, <1>1
  <2>2. CASE i # 1
    <3>1. i - 1 \in 1..Len(s) - 1 /\ (i - 1) + 1 = i
      BY <2>2
    <3>2. s[i] = Tail(s)[i - 1]
      BY <3>1, <1>2
    <3> QED
      BY <3>1, <3>2, <1>2 DEF Range
  <2> QED
    BY <2>1, <2>2
<1>4. ASSUME NEW i \in 1..Len(s) - 1 PROVE Tail(s)[i] \in Range(s)
  <2>1. i + 1 \in 1..Len(s)
    OBVIOUS
  <2> QED
    BY <2>1, <1>2 DEF Range
<1>5. Head(s) \in Range(s)
  BY <1>1 DEF Range
<1>6. Range(s) \subseteq {Head(s)} \cup Range(Tail(s))
  BY <1>2, <1>3 DEF Range
<1>7. Range(Tail(s)) \subseteq Range(s)
  BY <1>2, <1>4 DEF Range
<1> QED
  BY <1>1, <1>5, <1>6, <1>7

LEMMA Terminal ==
    /\ Finished # Error /\ GivenUp # Error
    /\ Finished \notin States /\ GivenUp \notin States /\ Error \notin States
BY DEF Terminals, Finished, GivenUp, Error

LEMMA ListType ==
    ASSUME NEW out \in OutLists
    PROVE  /\ out \in Seq(Nodes) /\ Range(out) \subseteq Nodes /\ DOMAIN out = 1..Len(out)
           /\ out # Unexplored
<1>1. PICK m \in 0..MaxTactics : out \in [1..m -> Nodes]
  BY DEF OutLists, BoundedSeq, SeqOf, Nodes
<1>2. out \in Seq(Nodes) /\ DOMAIN out = 1..Len(out)
  BY <1>1
<1>3. "unexplored" \notin Nodes
  BY DEF Nodes, Terminals, Finished, GivenUp, Error
<1>4. out # Unexplored
  <2> SUFFICES ASSUME out = Unexplored PROVE FALSE
    OBVIOUS
  <2>1. Len(out) = 1 /\ out[1] = "unexplored"
    BY DEF Unexplored
  <2> QED
    BY <2>1, <1>2, <1>3
<1> QED
  BY <1>1, <1>2, <1>4 DEF Range

\* Where the edges of an explored node can lead.
LEMMA Destinations ==
    ASSUME TypeOK, NEW n \in States, IsExplored(n)
    PROVE  edges[n] \in OutLists /\ Range(edges[n]) \subseteq Nodes /\ edges[n] \in Seq(Nodes)
BY ListType DEF TypeOK, IsExplored

LEMMA StatusType ==
    ASSUME TypeOK, NEW d \in Nodes
    PROVE  StatusOf(d) \in {"OPEN", "PROVED", "FAILED"}
BY DEF StatusOf, Nodes, Terminals, ProofNodes, TypeOK

LEMMA DistanceType ==
    ASSUME TypeOK, NEW d \in Nodes
    PROVE  DistanceOf(d) \in Nat \cup {Infinity}
BY DEF DistanceOf, Nodes, Terminals, ProofNodes, TypeOK, Infinity

-----------------------------------------------------------------------------
(* The steps.                                                               *)

LEMMA InitInv == Init => IInv
<1> SUFFICES ASSUME Init PROVE IInv
  OBVIOUS
<1>1. /\ phase = "open" /\ calls = <<>> /\ queue = {} /\ node = NoNode
      /\ \A n \in States : status[n] = "OPEN" /\ distance[n] = Infinity /\ ~IsExplored(n)
  BY DEF Init, IsExplored
<1>2. TypeOK
  BY DEF Init, TypeOK
<1>3. GraphInv
  BY <1>1 DEF GraphInv, Range, Init
<1>4. SoundStatus /\ CompleteStatus /\ SoundDistance /\ CompleteDistance
  BY <1>1 DEF SoundStatus, CompleteStatus, SoundDistance, CompleteDistance
<1>5. ResultInv
  BY DEF ResultInv, Init
<1> QED
  BY <1>2, <1>3, <1>4, <1>5 DEF IInv

\* Only Stop gives a result.
LEMMA NoResult ==
    ASSUME ResultInv, phase # "ended"
    PROVE  /\ result.status # "PROVED"
           /\ result' = result => ResultInv'
BY DEF ResultInv

LEMMA OpenInv == ASSUME IInv, Open PROVE IInv'
<1>1. /\ phase' = "search" /\ calls' = <<>> /\ queue' = {Root} /\ node' = NoNode
      /\ \A n \in States : status'[n] = "OPEN" /\ distance'[n] = Infinity /\ ~IsExplored(n)'
  BY DEF Open, IsExplored
<1>2. TypeOK'
  BY DEF Open, TypeOK, IInv
<1>3. GraphInv'
  BY <1>1 DEF GraphInv, Range, Open
<1>4. SoundStatus' /\ CompleteStatus' /\ SoundDistance' /\ CompleteDistance'
  BY <1>1 DEF SoundStatus, CompleteStatus, SoundDistance, CompleteDistance
<1>5. ResultInv'
  BY NoResult DEF Open, IInv
<1> QED
  BY <1>2, <1>3, <1>4, <1>5 DEF IInv

\* A step from rest that leaves the graph alone.
LEMMA GraphKept ==
    ASSUME IInv, UNCHANGED tree, phase \in {"open", "search"}, phase' \in {"open", "search", "ended"}
    PROVE  GraphInv' /\ SoundStatus' /\ CompleteStatus' /\ SoundDistance' /\ CompleteDistance'
<1>1. calls = <<>> /\ calls' = <<>> /\ Range(calls) = {}
  BY DEF IInv, GraphInv, tree, Range
<1>2. GraphInv'
  BY <1>1 DEF IInv, GraphInv, tree, IsExplored
<1>3. \A d : StatusOf(d)' = StatusOf(d) /\ DistanceOf(d)' = DistanceOf(d)
  BY DEF StatusOf, DistanceOf, tree
<1>4. SoundStatus'
  BY <1>3 DEF IInv, SoundStatus, tree, IsExplored, ProofClosed, FailureClosed
<1>5. CompleteStatus'
  BY <1>3, <1>1 DEF IInv, CompleteStatus, Follows, tree, IsExplored
<1>6. SoundDistance'
  BY <1>3 DEF IInv, SoundDistance, Backed, tree, IsExplored
<1>7. CompleteDistance'
  BY <1>3, <1>1 DEF IInv, CompleteDistance, Relaxed, Recomputing, tree, IsExplored
<1> QED
  BY <1>2, <1>4, <1>5, <1>6, <1>7

LEMMA NextAttemptType ==
    ASSUME TypeOK, NextAttempt
    PROVE  attempt' \in 1..K /\ phase' \in {"open", "ended"}
BY DEF TypeOK, NextAttempt

LEMMA AttemptRaisesInv == ASSUME IInv, AttemptRaises PROVE IInv'
<1>1. UNCHANGED tree /\ phase \in {"open", "search"} /\ result' = result
  BY DEF AttemptRaises
<1>2. attempt' \in 1..K /\ phase' \in {"open", "ended"}
  BY NextAttemptType DEF AttemptRaises, IInv
<1>3. TypeOK'
  BY <1>1, <1>2 DEF IInv, TypeOK, tree
<1>4. ResultInv'
  BY <1>1, NoResult DEF IInv
<1> QED
  BY <1>1, <1>2, <1>3, <1>4, GraphKept DEF IInv

\* One node becomes explored: it alone has its status and distance to be found.
LEMMA ExpandInv == ASSUME IInv, Expand PROVE IInv'
<1>1. PICK n \in queue, out \in OutLists :
         /\ queue' = (queue \ {n}) \cup ((Range(out) \cap States) \ known)
         /\ known' = known \cup (Range(out) \cap States)
         /\ edges' = [edges EXCEPT ![n] = out]
         /\ Reached(n, out)
         /\ node' = n
         /\ calls' = <<n>>
  BY DEF Expand
<1>2. /\ phase = "search" /\ phase' = "status" /\ status' = status /\ distance' = distance
      /\ attempt' = attempt /\ result' = result
  BY DEF Expand
<1>3. n \in States /\ n \in known /\ ~IsExplored(n) /\ status[n] = "OPEN" /\ distance[n] = Infinity
  BY DEF IInv, GraphInv, TypeOK
<1>4. out \in Seq(Nodes) /\ Range(out) \subseteq Nodes /\ DOMAIN out = 1..Len(out) /\ out # Unexplored
  BY ListType
<1>5. /\ edges'[n] = out /\ IsExplored(n)'
      /\ \A m \in States : m # n => edges'[m] = edges[m] /\ IsExplored(m)' = IsExplored(m)
  BY <1>1, <1>3, <1>4 DEF IInv, TypeOK, IsExplored
<1>6. \A d : StatusOf(d)' = StatusOf(d) /\ DistanceOf(d)' = DistanceOf(d)
  BY <1>2 DEF StatusOf, DistanceOf
<1>7. calls' \in Seq(States) /\ Range(calls') = {n} /\ calls = <<>>
  BY <1>1, <1>2, <1>3 DEF Range, IInv, GraphInv
<1> DEFINE Hits(s) == {j \in DOMAIN out : out[j] = s}
           More(s) == [i \in 1..Cardinality(Hits(s)) |-> n]
<1>8. \A s \in States : inEdges'[s] = inEdges[s] \o More(s)
  BY <1>1 DEF Reached
<1>9. ASSUME NEW s \in States
      PROVE  /\ inEdges'[s] \in Seq(States)
             /\ Range(inEdges'[s]) \subseteq Range(inEdges[s]) \cup {n}
             /\ Range(inEdges[s]) \subseteq Range(inEdges'[s])
             /\ s \in Range(out) => n \in Range(inEdges'[s])
  <2>1. Hits(s) \subseteq 1..Len(out)
    BY <1>4
  <2>2. IsFiniteSet(Hits(s))
    BY <2>1, <1>4, FS_Interval, FS_Subset
  <2>3. Cardinality(Hits(s)) \in Nat
    BY <2>2, FS_CardinalityType
  <2>4. More(s) \in Seq(States) /\ DOMAIN More(s) = 1..Cardinality(Hits(s))
    BY <2>3, <1>3
  <2>5. inEdges[s] \in Seq(States)
    BY DEF IInv, TypeOK
  <2>6. inEdges'[s] \in Seq(States) /\ Range(inEdges'[s]) = Range(inEdges[s]) \cup Range(More(s))
    <3>1. More(s) \in Seq(States) /\ inEdges'[s] = inEdges[s] \o More(s)
      BY <1>8, <2>4
    <3> HIDE DEF More
    <3>2. Range(inEdges[s] \o More(s)) = Range(inEdges[s]) \cup Range(More(s))
      BY <3>1, <2>5, Concatenated
    <3> QED
      BY <3>1, <3>2, <2>5
  <2>7. Range(More(s)) \subseteq {n}
    BY DEF Range
  <2>8. ASSUME s \in Range(out) PROVE n \in Range(More(s))
    <3>1. Hits(s) # {}
      BY <2>8 DEF Range
    <3>2. Cardinality(Hits(s)) # 0
      BY <3>1, <2>2, FS_EmptySet
    <3>3. 1 \in DOMAIN More(s) /\ More(s)[1] = n
      BY <3>2, <2>3
    <3> QED
      BY <3>3 DEF Range
  <2> QED
    BY <2>6, <2>7, <2>8
<1>10. TypeOK'
  <2>1. inEdges' \in [States -> Seq(States)]
    BY <1>1, <1>9 DEF Reached
  <2>2. queue' \subseteq known' /\ known' \subseteq States
    BY <1>1 DEF IInv, TypeOK
  <2>3. edges' \in [States -> OutLists \cup {Unexplored}]
    BY <1>1 DEF IInv, TypeOK
  <2> QED
    BY <1>1, <1>2, <1>3, <1>7, <2>1, <2>2, <2>3 DEF IInv, TypeOK
<1>11. GraphInv'
  <2>1. \A m \in States : IsExplored(m)' => m \in known'
    BY <1>1, <1>3, <1>5 DEF IInv, GraphInv
  <2>2. \A m \in queue' : ~IsExplored(m)'
    BY <1>1, <1>3, <1>5 DEF IInv, GraphInv, TypeOK
  <2>3. \A m \in States : ~IsExplored(m)' => status'[m] = "OPEN" /\ distance'[m] = Infinity
    BY <1>2, <1>3, <1>5 DEF IInv, GraphInv
  <2>4. ASSUME NEW m \in States, NEW s \in States, IsExplored(m)', s \in Range(edges'[m])
        PROVE  m \in Range(inEdges'[s])
    BY <2>4, <1>5, <1>9 DEF IInv, GraphInv
  <2>5. \A s \in States : \A m \in Range(inEdges'[s]) : IsExplored(m)'
    <3> TAKE s \in States
    <3> TAKE m \in Range(inEdges'[s])
    <3>1. m \in Range(inEdges[s]) \/ m = n
      BY <1>9
    <3>2. inEdges[s] \in Seq(States)
      BY DEF IInv, TypeOK
    <3>3. m \in States
      BY <3>1, <3>2, <1>3 DEF Range
    <3> QED
      BY <3>1, <3>3, <1>5 DEF IInv, GraphInv
  <2> QED
    BY <1>1, <1>2, <1>3, <1>5, <1>7, <2>1, <2>2, <2>3, <2>4, <2>5 DEF GraphInv
<1>12. SoundStatus'
  <2>1. \A m \in States : status[m] # "OPEN" => m # n
    BY <1>3
  <2>2. \A set \in SUBSET States : ProofClosed(set)' => ProofClosed(set)
    BY <1>3, <1>5 DEF ProofClosed
  <2>3. \A set \in SUBSET States : FailureClosed(set)' => FailureClosed(set)
    BY <1>3, <1>5 DEF FailureClosed
  <2> QED
    BY <1>2, <1>5, <1>6, <2>1, <2>2, <2>3 DEF IInv, SoundStatus
<1>13. CompleteStatus'
  BY <1>2, <1>5, <1>6, <1>7 DEF IInv, CompleteStatus, Follows
<1>14. SoundDistance'
  BY <1>2, <1>3, <1>5, <1>6 DEF IInv, SoundDistance, Backed
<1>15. CompleteDistance'
  BY <1>1, <1>2, <1>5, <1>6, <1>7 DEF IInv, CompleteDistance, Recomputing, Relaxed
<1>16. ResultInv'
  BY <1>2, NoResult DEF IInv
<1> QED
  BY <1>10, <1>11, <1>12, <1>13, <1>14, <1>15, <1>16 DEF IInv

\* One call of _recompute_status.
LEMMA RecomputeStatusInv == ASSUME IInv, RecomputeStatus PROVE IInv'
<1> DEFINE n == Head(calls)
<1>1. /\ phase = "status" /\ calls # <<>>
      /\ status' = [status EXCEPT ![n] = Verdict(n)]
      /\ calls' = IF status[n] # Verdict(n) THEN inEdges[n] \o Tail(calls) ELSE Tail(calls)
      /\ UNCHANGED <<attempt, phase, queue, known, edges, inEdges, distance, node, result>>
  BY DEF RecomputeStatus
<1>2. calls \in Seq(States) /\ status \in [States -> {"OPEN", "PROVED", "FAILED"}]
  BY DEF IInv, TypeOK
<1>3. n \in States /\ Tail(calls) \in Seq(States) /\ Range(calls) = {n} \cup Range(Tail(calls))
  BY <1>1, <1>2, Popped
<1>4. IsExplored(n) /\ Range(edges[n]) \subseteq Nodes /\ edges[n] \in Seq(Nodes)
  BY <1>3, Destinations DEF IInv, GraphInv
<1>5. inEdges[n] \in Seq(States)
  BY <1>3 DEF IInv, TypeOK
<1>6. /\ Range(inEdges[n] \o Tail(calls)) = Range(inEdges[n]) \cup Range(Tail(calls))
      /\ inEdges[n] \o Tail(calls) \in Seq(States)
  BY <1>3, <1>5, Concatenated, ZenonT(60)
<1>7. /\ \A s : IsExplored(s)' = IsExplored(s)
      /\ \A d : DistanceOf(d)' = DistanceOf(d)
  BY <1>1 DEF IsExplored, DistanceOf
<1>8. /\ (\A i \in DOMAIN edges[n] : StatusOf(edges[n][i]) = "FAILED")
            <=> (\A d \in Range(edges[n]) : StatusOf(d) = "FAILED")
      /\ (\E i \in DOMAIN edges[n] : StatusOf(edges[n][i]) = "PROVED")
            <=> (\E d \in Range(edges[n]) : StatusOf(d) = "PROVED")
  BY DEF Range
<1> DEFINE AllFailed == \A d \in Range(edges[n]) : StatusOf(d) = "FAILED"
           SomeProved == \E d \in Range(edges[n]) : StatusOf(d) = "PROVED"
<1>9. Verdict(n) = IF status[n] # "OPEN" THEN status[n]
                   ELSE IF AllFailed THEN "FAILED" ELSE IF SomeProved THEN "PROVED" ELSE "OPEN"
  BY <1>8 DEF Verdict
<1>10. Verdict(n) \in {"OPEN", "PROVED", "FAILED"}
  BY <1>2, <1>3, <1>9
<1>11. TypeOK'
  BY <1>1, <1>2, <1>3, <1>6, <1>10 DEF IInv, TypeOK
<1>12. GraphInv'
  <2>1. \A m \in Range(calls') : IsExplored(m)
    BY <1>1, <1>3, <1>6 DEF IInv, GraphInv
  <2>2. \A m \in States : ~IsExplored(m) => status'[m] = "OPEN"
    BY <1>1, <1>2, <1>4 DEF IInv, GraphInv
  <2> QED
    BY <1>1, <1>7, <2>1, <2>2 DEF IInv, GraphInv
<1>13. SoundDistance' /\ CompleteDistance'
  BY <1>1, <1>7 DEF IInv, SoundDistance, Backed, CompleteDistance, Recomputing, Relaxed
<1>14. ResultInv'
  BY <1>1, NoResult DEF IInv
<1>15. CASE status[n] = Verdict(n)
  <2>1. status' = status /\ calls' = Tail(calls)
    BY <1>1, <1>2, <1>15
  <2>2. \A d : StatusOf(d)' = StatusOf(d)
    BY <2>1 DEF StatusOf
  <2>3. SoundStatus'
    BY <1>1, <1>7, <2>1, <2>2 DEF IInv, SoundStatus, ProofClosed, FailureClosed
  <2>4. Follows(n)
    BY <1>2, <1>3, <1>9, <1>15 DEF Follows, IInv, SoundStatus
  <2>5. CompleteStatus'
    BY <1>1, <1>3, <1>7, <2>1, <2>2, <2>4 DEF IInv, CompleteStatus, Follows
  <2> QED
    BY <1>11, <1>12, <1>13, <1>14, <2>3, <2>5 DEF IInv
<1>16. CASE status[n] # Verdict(n)
  <2>1. /\ status[n] = "OPEN" /\ status'[n] = Verdict(n)
        /\ \A m \in States : m # n => status'[m] = status[m]
        /\ calls' = inEdges[n] \o Tail(calls)
    BY <1>1, <1>2, <1>3, <1>9, <1>16
  <2>2. \A d \in Nodes : d # n => StatusOf(d)' = StatusOf(d)
    BY <2>1 DEF StatusOf, Nodes, Terminals, ProofNodes
  <2>3. StatusOf(n) = "OPEN"
    BY <2>1, <1>3 DEF StatusOf, Terminals, ProofNodes
  <2>4. \/ AllFailed /\ status'[n] = "FAILED"
        \/ SomeProved /\ ~AllFailed /\ status'[n] = "PROVED"
    BY <1>9, <1>16, <2>1
  <2>5. \A m \in States : status'[m] # "OPEN" => IsExplored(m) /\ Range(edges[m]) \subseteq Nodes
    BY <1>1, <1>4, <2>1, Destinations DEF IInv, GraphInv
  <2>6. ASSUME NEW m \in States, status'[m] = "PROVED"
        PROVE  \E d \in Range(edges[m]) : StatusOf(d)' = "PROVED"
    <3>1. PICK d \in Range(edges[m]) : StatusOf(d) = "PROVED"
      BY <2>1, <2>4, <2>6 DEF IInv, SoundStatus
    <3> QED
      BY <3>1, <2>2, <2>3, <2>5, <2>6
  <2>7. ASSUME NEW m \in States, status'[m] = "FAILED"
        PROVE  \A d \in Range(edges[m]) : StatusOf(d)' = "FAILED"
    <3>1. \A d \in Range(edges[m]) : StatusOf(d) = "FAILED"
      BY <2>1, <2>4, <2>7 DEF IInv, SoundStatus
    <3> QED
      BY <3>1, <2>2, <2>3, <2>5, <2>7
  <2>8. ASSUME NEW set \in SUBSET States, ProofClosed(set), status'[n] = "PROVED"
        PROVE  n \in set
    <3>1. PICK d \in Range(edges[n]) : StatusOf(d) = "PROVED"
      BY <2>4, <2>8
    <3>2. d \in ProofNodes \cup set
      <4>1. CASE d \in Terminals
        BY <3>1, <4>1 DEF StatusOf, Terminals, ProofNodes
      <4>2. CASE d \in States \ Terminals
        <5>1. status[d] = "PROVED"
          BY <3>1, <4>2 DEF StatusOf, Terminals, ProofNodes
        <5> QED
          BY <5>1, <4>2, <2>8 DEF IInv, SoundStatus
      <4> QED
        BY <4>1, <4>2, <1>4, <3>1 DEF Nodes
    <3> QED
      BY <3>1, <3>2, <1>3, <1>4, <2>8 DEF ProofClosed
  <2>9. ASSUME NEW set \in SUBSET States, FailureClosed(set), status'[n] = "FAILED"
        PROVE  n \in set
    <3>1. ASSUME NEW d \in Range(edges[n]) PROVE d \in {Error} \cup set
      <4>0. StatusOf(d) = "FAILED"
        BY <2>4, <2>9
      <4>1. CASE d \in Terminals
        BY <4>0, <4>1 DEF StatusOf, Terminals, ProofNodes
      <4>2. CASE d \in States \ Terminals
        <5>1. status[d] = "FAILED"
          BY <4>0, <4>2 DEF StatusOf, Terminals, ProofNodes
        <5> QED
          BY <5>1, <4>2, <2>9 DEF IInv, SoundStatus
      <4> QED
        BY <4>1, <4>2, <1>4 DEF Nodes
    <3> QED
      BY <3>1, <1>3, <1>4, <2>9 DEF FailureClosed
  <2>10. SoundStatus'
    <3>1. \A set : ProofClosed(set)' = ProofClosed(set) /\ FailureClosed(set)' = FailureClosed(set)
      BY <1>1, <1>7 DEF ProofClosed, FailureClosed
    <3>2. \A set \in SUBSET States : ProofClosed(set) => \A m \in States : status'[m] = "PROVED" => m \in set
      BY <2>1, <2>8 DEF IInv, SoundStatus
    <3>3. \A set \in SUBSET States : FailureClosed(set) => \A m \in States : status'[m] = "FAILED" => m \in set
      BY <2>1, <2>9 DEF IInv, SoundStatus
    <3> QED
      BY <1>1, <2>6, <2>7, <3>1, <3>2, <3>3 DEF SoundStatus
  <2>11. ASSUME NEW m \in States, IsExplored(m), m \notin Range(calls')
         PROVE  Follows(m)'
    <3>1. CASE m = n
      <4>1. CASE AllFailed /\ status'[n] = "FAILED"
        BY <1>1, <3>1, <4>1, <2>7 DEF Follows
      <4>2. CASE SomeProved /\ status'[n] = "PROVED"
        <5>1. \E d \in Range(edges[n]) : StatusOf(d)' = "PROVED"
          BY <4>2, <1>3, <2>6
        <5> QED
          BY <1>1, <3>1, <4>2, <5>1 DEF Follows
      <4> QED
        BY <4>1, <4>2, <2>4
    <3>2. CASE m # n
      <4>1. m \notin Range(calls) /\ m \notin Range(inEdges[n])
        BY <2>11, <3>2, <2>1, <1>6, <1>3
      <4>2. Follows(m)
        BY <4>1, <2>11 DEF IInv, CompleteStatus
      <4>3. n \notin Range(edges[m]) /\ Range(edges[m]) \subseteq Nodes
        BY <4>1, <1>3, <2>11, Destinations DEF IInv, GraphInv
      <4>4. \A d \in Range(edges[m]) : StatusOf(d)' = StatusOf(d)
        BY <4>3, <2>2
      <4> QED
        BY <1>1, <2>1, <3>2, <4>2, <4>4 DEF Follows
    <3> QED
      BY <3>1, <3>2
  <2>12. CompleteStatus'
    BY <1>1, <1>7, <2>11 DEF CompleteStatus
  <2> QED
    BY <1>11, <1>12, <1>13, <1>14, <2>10, <2>12 DEF IInv
<1> QED
  BY <1>15, <1>16

LEMMA StatusDoneInv == ASSUME IInv, StatusDone PROVE IInv'
<1>1. /\ phase = "status" /\ calls = <<>> /\ phase' = "distance" /\ calls' = <<node>>
      /\ UNCHANGED <<attempt, queue, known, edges, inEdges, status, distance, node, result>>
  BY DEF StatusDone
<1>2. node \in States /\ IsExplored(node)
  BY <1>1 DEF IInv, GraphInv
<1>3. Range(calls) = {} /\ Range(calls') = {node} /\ calls' \in Seq(States)
  BY <1>1, <1>2 DEF Range
<1>4. /\ \A s : IsExplored(s)' = IsExplored(s)
      /\ \A d : DistanceOf(d)' = DistanceOf(d) /\ StatusOf(d)' = StatusOf(d)
  BY <1>1 DEF IsExplored, DistanceOf, StatusOf
<1>5. TypeOK'
  BY <1>1, <1>3 DEF IInv, TypeOK
<1>6. GraphInv'
  BY <1>1, <1>2, <1>3, <1>4 DEF IInv, GraphInv
<1>7. SoundStatus'
  BY <1>1, <1>4 DEF IInv, SoundStatus, ProofClosed, FailureClosed
<1>8. CompleteStatus'
  BY <1>1, <1>3, <1>4 DEF IInv, CompleteStatus, Follows
<1>9. SoundDistance'
  BY <1>1, <1>4 DEF IInv, SoundDistance, Backed
<1>10. CompleteDistance'
  BY <1>1, <1>3, <1>4 DEF IInv, CompleteDistance, Recomputing, Relaxed
<1>11. ResultInv'
  BY <1>1, NoResult DEF IInv
<1> QED
  BY <1>5, <1>6, <1>7, <1>8, <1>9, <1>10, <1>11 DEF IInv

\* Nearest is one more than the least finite distance of a destination.
LEMMA NearestIsLeast ==
    ASSUME TypeOK, NEW n \in States, IsExplored(n)
    PROVE  /\ Nearest(n) \in Nat \cup {Infinity}
           /\ Nearest(n) # Infinity =>
                \E d \in Range(edges[n]) : DistanceOf(d) \in Nat /\ Nearest(n) = 1 + DistanceOf(d)
           /\ \A d \in Range(edges[n]) : DistanceOf(d) # Infinity =>
                DistanceOf(d) \in Nat /\ Nearest(n) \in Nat /\ Nearest(n) <= 1 + DistanceOf(d)
<1>1. \A d \in Range(edges[n]) : DistanceOf(d) # Infinity => DistanceOf(d) \in Nat
  BY Destinations, DistanceType
<1>2. Distances(n) \in SUBSET Nat
  BY <1>1 DEF Distances
<1>3. CASE Distances(n) = {}
  BY <1>3 DEF Nearest, Distances
<1>4. CASE Distances(n) # {}
  <2>1. Nearest(n) \in Distances(n) /\ \A e \in Distances(n) : Nearest(n) <= e
    BY <1>2, <1>4, MinIsLeast DEF Nearest
  <2>2. \A d \in Range(edges[n]) : DistanceOf(d) # Infinity => 1 + DistanceOf(d) \in Distances(n)
    BY DEF Distances
  <2>3. PICK d \in Range(edges[n]) : DistanceOf(d) # Infinity /\ Nearest(n) = 1 + DistanceOf(d)
    BY <2>1 DEF Distances
  <2>4. Nearest(n) \in Nat
    BY <1>2, <2>1
  <2> QED
    BY <1>1, <2>1, <2>2, <2>3, <2>4
<1> QED
  BY <1>3, <1>4

\* One call of _recompute_distance_to_proof.
LEMMA RecomputeDistanceInv == ASSUME IInv, RecomputeDistance PROVE IInv'
<1>0. PICK n : n = Head(calls)
  OBVIOUS
<1>1. /\ phase = "distance" /\ calls # <<>>
      /\ UNCHANGED <<attempt, phase, queue, known, edges, inEdges, status, node, result>>
      /\ \/ /\ Nearer(Nearest(n), distance[n])
            /\ distance' = [distance EXCEPT ![n] = Nearest(n)]
            /\ calls' = inEdges[n] \o Tail(calls)
         \/ /\ ~Nearer(Nearest(n), distance[n])
            /\ distance' = distance /\ calls' = Tail(calls)
  BY <1>0 DEF RecomputeDistance
<1>2. calls \in Seq(States) /\ distance \in [States -> Nat \cup {Infinity}]
  BY DEF IInv, TypeOK
<1>3. n \in States /\ Tail(calls) \in Seq(States) /\ Range(calls) = {n} \cup Range(Tail(calls))
  BY <1>0, <1>1, <1>2, Popped
<1>4. IsExplored(n) /\ Range(edges[n]) \subseteq Nodes
  BY <1>3, Destinations DEF IInv, GraphInv
<1>5. inEdges[n] \in Seq(States)
  BY <1>3 DEF IInv, TypeOK
<1>6. /\ Range(inEdges[n] \o Tail(calls)) = Range(inEdges[n]) \cup Range(Tail(calls))
      /\ inEdges[n] \o Tail(calls) \in Seq(States)
  BY <1>3, <1>5, Concatenated, ZenonT(60)
<1>7. /\ \A s : IsExplored(s)' = IsExplored(s)
      /\ \A d : StatusOf(d)' = StatusOf(d)
  BY <1>1 DEF IsExplored, StatusOf
<1>8. /\ Nearest(n) \in Nat \cup {Infinity}
      /\ Nearest(n) # Infinity =>
            \E d \in Range(edges[n]) : DistanceOf(d) \in Nat /\ Nearest(n) = 1 + DistanceOf(d)
      /\ \A d \in Range(edges[n]) : DistanceOf(d) # Infinity =>
            DistanceOf(d) \in Nat /\ Nearest(n) \in Nat /\ Nearest(n) <= 1 + DistanceOf(d)
  BY <1>3, <1>4, NearestIsLeast DEF IInv
<1>9. TypeOK'
  BY <1>1, <1>2, <1>3, <1>6, <1>8, ZenonT(60) DEF IInv, TypeOK
<1>10. GraphInv'
  <2>1. \A m \in Range(calls') : IsExplored(m)
    BY <1>1, <1>3, <1>6 DEF IInv, GraphInv
  <2>2. \A m \in States : ~IsExplored(m) => distance'[m] = Infinity
    BY <1>1, <1>2, <1>4 DEF IInv, GraphInv
  <2> QED
    BY <1>1, <1>7, <2>1, <2>2 DEF IInv, GraphInv
<1>11. SoundStatus' /\ CompleteStatus'
  BY <1>1, <1>7 DEF IInv, SoundStatus, ProofClosed, FailureClosed, CompleteStatus, Follows
<1>12. ResultInv'
  BY <1>1, NoResult DEF IInv
<1>13. CASE Nearer(Nearest(n), distance[n])
  <2>1. /\ distance'[n] = Nearest(n) /\ Nearest(n) \in Nat
        /\ distance[n] # Infinity => distance[n] \in Nat /\ Nearest(n) < distance[n]
        /\ \A m \in States : m # n => distance'[m] = distance[m]
        /\ calls' = inEdges[n] \o Tail(calls)
    BY <1>1, <1>2, <1>3, <1>8, <1>13 DEF Nearer
  <2>2. \A d \in Nodes : d # n => DistanceOf(d)' = DistanceOf(d)
    BY <2>1 DEF DistanceOf, Nodes, Terminals, ProofNodes
  <2>3. DistanceOf(n) = distance[n] /\ DistanceOf(n)' = Nearest(n)
    BY <2>1, <1>3 DEF DistanceOf, Terminals, ProofNodes
  <2>4. \A d \in Nodes : DistanceOf(d) \in Nat \cup {Infinity}
    BY DistanceType DEF IInv
  <2>5. Nearest(n) # Infinity
    BY <2>1 DEF Infinity
  <2>6. SoundDistance'
    <3> SUFFICES ASSUME NEW m \in States, distance'[m] # Infinity
                 PROVE  IsExplored(m) /\ Backed(m)'
      BY <1>7 DEF SoundDistance
    <3>1. CASE m = n
      <4>1. PICK d \in Range(edges[n]) : DistanceOf(d) \in Nat /\ Nearest(n) = 1 + DistanceOf(d)
        BY <1>8, <2>5
      <4>2. d # n /\ d \in Nodes
        BY <4>1, <2>1, <2>3, <1>4 DEF Infinity
      <4>3. DistanceOf(d)' = DistanceOf(d) /\ DistanceOf(d) # Infinity
        BY <4>1, <4>2, <2>2 DEF Infinity
      <4> QED
        BY <1>1, <1>4, <2>1, <3>1, <4>1, <4>3 DEF Backed
    <3>2. CASE m # n
      <4>1. IsExplored(m) /\ Backed(m) /\ distance'[m] = distance[m] /\ distance[m] \in Nat
        BY <1>2, <2>1, <3>2 DEF IInv, SoundDistance
      <4>2. PICK d \in Range(edges[m]) : DistanceOf(d) # Infinity /\ 1 + DistanceOf(d) <= distance[m]
        BY <4>1 DEF Backed
      <4>3. d \in Nodes
        BY <4>1, Destinations DEF IInv
      <4>4. DistanceOf(d)' # Infinity /\ 1 + DistanceOf(d)' <= distance[m]
        <5>1. CASE d = n
          BY <5>1, <4>1, <4>2, <2>1, <2>3, <2>5
        <5>2. CASE d # n
          BY <5>2, <4>2, <4>3, <2>2
        <5> QED
          BY <5>1, <5>2
      <4> QED
        BY <1>1, <4>1, <4>4 DEF Backed
    <3> QED
      BY <3>1, <3>2
  <2>7. CompleteDistance'
    <3> SUFFICES ASSUME NEW m \in States, IsExplored(m), m \notin Range(calls')
                 PROVE  Relaxed(m)'
      BY <1>1, <1>7 DEF CompleteDistance, Recomputing
    <3>1. CASE m = n
      <4> SUFFICES ASSUME NEW d \in Range(edges[n]), DistanceOf(d)' # Infinity
                   PROVE  Nearest(n) <= 1 + DistanceOf(d)'
        BY <1>1, <2>1, <2>5, <3>1 DEF Relaxed
      <4>1. CASE d = n
        BY <4>1, <2>1, <2>3
      <4>2. CASE d # n
        BY <4>2, <1>4, <1>8, <2>2
      <4> QED
        BY <4>1, <4>2
    <3>2. CASE m # n
      <4>1. m \notin Range(calls) /\ m \notin Range(inEdges[n])
        BY <3>2, <2>1, <1>6, <1>3
      <4>2. Relaxed(m)
        BY <4>1, <1>1 DEF IInv, CompleteDistance, Recomputing
      <4>3. n \notin Range(edges[m]) /\ Range(edges[m]) \subseteq Nodes
        BY <4>1, <1>3, Destinations DEF IInv, GraphInv
      <4>4. \A d \in Range(edges[m]) : DistanceOf(d)' = DistanceOf(d)
        BY <4>3, <2>2
      <4> QED
        BY <1>1, <2>1, <3>2, <4>2, <4>4 DEF Relaxed
    <3> QED
      BY <3>1, <3>2
  <2> QED
    BY <1>9, <1>10, <1>11, <1>12, <2>6, <2>7 DEF IInv
<1>14. CASE ~Nearer(Nearest(n), distance[n])
  <2>1. distance' = distance /\ calls' = Tail(calls)
    BY <1>1, <1>14
  <2>2. \A d : DistanceOf(d)' = DistanceOf(d)
    BY <2>1 DEF DistanceOf
  <2>3. Relaxed(n)
    <3> SUFFICES ASSUME NEW d \in Range(edges[n]), DistanceOf(d) # Infinity
                 PROVE  distance[n] # Infinity /\ distance[n] <= 1 + DistanceOf(d)
      BY DEF Relaxed
    <3>1. DistanceOf(d) \in Nat /\ Nearest(n) \in Nat /\ Nearest(n) <= 1 + DistanceOf(d)
      BY <1>8
    <3>2. distance[n] # Infinity /\ ~(Nearest(n) < distance[n])
      BY <3>1, <1>14 DEF Nearer, Infinity
    <3>3. distance[n] \in Nat
      BY <1>2, <1>3, <3>2
    <3> QED
      BY <3>1, <3>2, <3>3
  <2>4. SoundDistance'
    BY <1>1, <1>7, <2>1, <2>2 DEF IInv, SoundDistance, Backed
  <2>5. CompleteDistance'
    BY <1>1, <1>3, <1>7, <2>1, <2>2, <2>3 DEF IInv, CompleteDistance, Recomputing, Relaxed
  <2> QED
    BY <1>9, <1>10, <1>11, <1>12, <2>4, <2>5 DEF IInv
<1> QED
  BY <1>13, <1>14

LEMMA DistanceDoneInv == ASSUME IInv, DistanceDone PROVE IInv'
<1>1. phase = "distance" /\ calls = <<>> /\ phase' = "search" /\ UNCHANGED <<attempt, result, tree>>
  BY DEF DistanceDone
<1>2. calls' = <<>> /\ Range(calls) = {}
  BY <1>1 DEF tree, Range
<1>3. /\ \A s : IsExplored(s)' = IsExplored(s)
      /\ \A d : DistanceOf(d)' = DistanceOf(d) /\ StatusOf(d)' = StatusOf(d)
  BY <1>1 DEF IsExplored, DistanceOf, StatusOf, tree
<1>4. TypeOK'
  BY <1>1 DEF IInv, TypeOK, tree
<1>5. GraphInv'
  BY <1>1, <1>3 DEF IInv, GraphInv, tree
<1>6. SoundStatus'
  BY <1>1, <1>3 DEF IInv, SoundStatus, ProofClosed, FailureClosed, tree
<1>7. CompleteStatus'
  BY <1>1, <1>2, <1>3 DEF IInv, CompleteStatus, Follows, tree
<1>8. SoundDistance'
  BY <1>1, <1>3 DEF IInv, SoundDistance, Backed, tree
<1>9. CompleteDistance'
  BY <1>1, <1>2, <1>3 DEF IInv, CompleteDistance, Recomputing, Relaxed, tree
<1>10. ResultInv'
  BY <1>1, NoResult DEF IInv
<1> QED
  BY <1>4, <1>5, <1>6, <1>7, <1>8, <1>9, <1>10 DEF IInv

-----------------------------------------------------------------------------
(* When no call is pending.                                                 *)

Resting == phase \notin {"status", "distance"}

\* Every status is then the truth about the explored graph.
LEMMA StatusesAtRest ==
    ASSUME IInv, Resting
    PROVE  /\ {n \in States : status[n] = "PROVED"} = Provable
           /\ {n \in States : status[n] = "FAILED"} = Refuted
<1>1. \A n \in States : IsExplored(n) => Follows(n) /\ Range(edges[n]) \subseteq Nodes
  BY Destinations DEF IInv, Resting, CompleteStatus
<1>2. ProofClosed({n \in States : status[n] = "PROVED"})
  <2> SUFFICES ASSUME NEW n \in States, IsExplored(n), NEW d \in Range(edges[n]),
                      d \in ProofNodes \cup {m \in States : status[m] = "PROVED"}
               PROVE  status[n] = "PROVED"
    BY DEF ProofClosed
  <2>1. StatusOf(d) = "PROVED"
    BY DEF StatusOf, Terminals, ProofNodes, Finished, GivenUp, Error
  <2> QED
    BY <1>1, <2>1 DEF Follows
<1>3. FailureClosed({n \in States : status[n] = "FAILED"})
  <2> SUFFICES ASSUME NEW n \in States, IsExplored(n),
                      Range(edges[n]) \subseteq {Error} \cup {m \in States : status[m] = "FAILED"}
               PROVE  status[n] = "FAILED"
    BY DEF FailureClosed
  <2>1. \A d \in Range(edges[n]) : StatusOf(d) = "FAILED"
    BY DEF StatusOf, Terminals, ProofNodes, Finished, GivenUp, Error
  <2> QED
    BY <1>1, <2>1 DEF Follows
<1>4. {n \in States : status[n] = "PROVED"} \subseteq Provable
  BY DEF IInv, SoundStatus, Provable
<1>5. {n \in States : status[n] = "FAILED"} \subseteq Refuted
  BY DEF IInv, SoundStatus, Refuted
<1> QED
  BY <1>2, <1>3, <1>4, <1>5 DEF Provable, Refuted

\* A finite distance is never more than a way to a proof.
LEMMA FiniteIsProvable ==
    ASSUME IInv, NEW n \in States, distance[n] # Infinity
    PROVE  n \in Provable
<1> SUFFICES ASSUME NEW set \in SUBSET States, ProofClosed(set), n \notin set
             PROVE  FALSE
  BY DEF Provable
<1> DEFINE Outside == {m \in States : distance[m] # Infinity /\ m \notin set}
           Lengths == {distance[m] : m \in Outside}
<1>1. distance \in [States -> Nat \cup {Infinity}]
  BY DEF IInv, TypeOK
<1>2. PICK k \in Lengths : \A j \in Lengths : k <= j
  <2> Lengths \in SUBSET Nat /\ Lengths # {}
    BY <1>1
  <2> QED
    BY LeastElement
<1>3. PICK m \in Outside : k = distance[m]
  OBVIOUS
<1>4. IsExplored(m) /\ Backed(m) /\ Range(edges[m]) \subseteq Nodes /\ k \in Nat
  BY <1>1, <1>3, Destinations DEF IInv, SoundDistance
<1>5. PICK d \in Range(edges[m]) : DistanceOf(d) # Infinity /\ 1 + DistanceOf(d) <= k
  BY <1>3, <1>4 DEF Backed
<1>6. \/ d \in ProofNodes
      \/ d \in States /\ distance[d] # Infinity /\ 1 + distance[d] <= k /\ distance[d] \in Nat
  BY <1>1, <1>4, <1>5 DEF DistanceOf, Nodes, Terminals, ProofNodes
<1>7. d \in ProofNodes \cup set
  <2>1. CASE d \in States /\ distance[d] # Infinity /\ 1 + distance[d] <= k /\ distance[d] \in Nat
    <3> SUFFICES ASSUME d \notin set PROVE FALSE
      OBVIOUS
    <3>1. distance[d] \in Lengths
      BY <2>1
    <3> HIDE DEF Lengths
    <3>2. k <= distance[d]
      BY <1>2, <3>1
    <3> QED
      BY <1>4, <2>1, <3>2
  <2> QED
    BY <1>6, <2>1
<1>8. m \in set
  BY <1>3, <1>4, <1>5, <1>7 DEF ProofClosed
<1> QED
  BY <1>3, <1>8

LEMMA DistancesAtRest ==
    ASSUME IInv, Resting
    PROVE  /\ \A n \in States : IsExplored(n) => Relaxed(n)
           /\ {n \in States : distance[n] # Infinity} = Provable
<1>1. \A n \in States : IsExplored(n) => Relaxed(n) /\ Range(edges[n]) \subseteq Nodes
  BY Destinations DEF IInv, Resting, CompleteDistance, Recomputing
<1>2. ProofClosed({n \in States : distance[n] # Infinity})
  <2> SUFFICES ASSUME NEW n \in States, IsExplored(n), NEW d \in Range(edges[n]),
                      d \in ProofNodes \cup {m \in States : distance[m] # Infinity}
               PROVE  distance[n] # Infinity
    BY DEF ProofClosed
  <2>1. DistanceOf(d) # Infinity
    BY DEF DistanceOf, Terminals, ProofNodes, Finished, GivenUp, Error, Infinity
  <2> QED
    BY <1>1, <2>1 DEF Relaxed
<1>3. {n \in States : distance[n] # Infinity} \subseteq Provable
  BY FiniteIsProvable
<1> QED
  BY <1>1, <1>2, <1>3 DEF Provable

\* ProvableIn by its levels.
LEMMA ProvableInLevels ==
    /\ ProvableIn[0] = {}
    /\ \A k \in Nat : ProvableIn[k] \subseteq States
    /\ \A k \in Nat : ProvableIn[k + 1] =
         {n \in States : IsExplored(n) /\ Range(edges[n]) \cap (ProofNodes \cup ProvableIn[k]) # {}}
<1> DEFINE Above(set) == {n \in States : IsExplored(n) /\ Range(edges[n]) \cap (ProofNodes \cup set) # {}}
           F == [set \in SUBSET States |-> Above(set)]
           Levels(f) == f = [k \in Nat |-> IF k = 0 THEN {} ELSE Above(f[k - 1])]
<1>1. PICK g \in [Nat -> SUBSET States] : g[0] = {} /\ \A k \in Nat : g[k + 1] = F[g[k]]
  <2> DEFINE Sets == SUBSET States
  <2>1. {} \in Sets /\ F \in [Sets -> Sets]
    OBVIOUS
  <2> HIDE DEF F, Sets
  <2>2. \E g \in [Nat -> Sets] : g[0] = {} /\ \A k \in Nat : g[k + 1] = F[g[k]]
    BY <2>1, NatRecursion
  <2> QED
    BY <2>2 DEF Sets
<1>2. \A k \in Nat : k # 0 => g[k] = Above(g[k - 1])
  <2> TAKE k \in Nat
  <2> HAVE k # 0
  <2>1. k - 1 \in Nat /\ (k - 1) + 1 = k
    OBVIOUS
  <2>2. g[k] = F[g[k - 1]] /\ g[k - 1] \in SUBSET States
    BY <1>1, <2>1
  <2> QED
    BY <2>2
<1>3. Levels(g)
  <2> HIDE DEF Above
  <2>1. \A k \in Nat : g[k] = IF k = 0 THEN {} ELSE Above(g[k - 1])
    BY <1>1, <1>2
  <2> QED
    BY <1>1, <2>1
<1>4. ProvableIn = CHOOSE f : Levels(f)
  BY DEF ProvableIn
<1>5. Levels(ProvableIn)
  <2> HIDE DEF Levels
  <2> QED
    BY <1>3, <1>4
<1>6. \A k \in Nat : ProvableIn[k] = IF k = 0 THEN {} ELSE Above(ProvableIn[k - 1])
  <2> HIDE DEF Above
  <2> QED
    BY <1>5
<1>7. \A k \in Nat : ProvableIn[k] \subseteq States
  BY <1>6
<1> HIDE DEF Above
<1>8. \A k \in Nat : k + 1 \in Nat /\ k + 1 # 0 /\ (k + 1) - 1 = k
  OBVIOUS
<1>9. \A k \in Nat : ProvableIn[k + 1] = Above(ProvableIn[k])
  BY <1>6, <1>8
<1> QED
  BY <1>6, <1>7, <1>9 DEF Above

\* A destination at a finite distance is a proof or a state.
LEMMA FiniteDestination ==
    ASSUME TypeOK, NEW d \in Nodes, DistanceOf(d) # Infinity
    PROVE  /\ DistanceOf(d) \in Nat
           /\ \/ d \in ProofNodes /\ DistanceOf(d) = 0
              \/ d \in States /\ d \notin Terminals /\ DistanceOf(d) = distance[d]
BY DEF TypeOK, DistanceOf, Nodes, Terminals, ProofNodes

LEMMA Backing ==
    ASSUME IInv, NEW n \in States, distance[n] # Infinity
    PROVE  /\ IsExplored(n) /\ distance[n] \in Nat /\ distance[n] # 0
           /\ \E d \in Range(edges[n]) :
                /\ d \in Nodes
                /\ DistanceOf(d) # Infinity /\ DistanceOf(d) \in Nat /\ 1 + DistanceOf(d) <= distance[n]
<1>1. distance[n] \in Nat /\ IsExplored(n) /\ Backed(n)
  BY DEF IInv, TypeOK, SoundDistance
<1>2. PICK d \in Range(edges[n]) : DistanceOf(d) # Infinity /\ 1 + DistanceOf(d) <= distance[n]
  BY <1>1 DEF Backed
<1>3. d \in Nodes
  BY <1>1, Destinations DEF IInv
<1>4. DistanceOf(d) \in Nat
  BY <1>2, <1>3, FiniteDestination DEF IInv
<1> QED
  BY <1>1, <1>2, <1>3, <1>4

LEMMA NextLevel ==
    ASSUME IInv, Resting, NEW k \in Nat,
           \A m \in States : m \in ProvableIn[k] <=> (distance[m] # Infinity /\ distance[m] <= k),
           NEW n \in States
    PROVE  n \in ProvableIn[k + 1] <=> (distance[n] # Infinity /\ distance[n] <= k + 1)
<1>1. n \in ProvableIn[k + 1] <=>
        (IsExplored(n) /\ \E d \in Range(edges[n]) : d \in ProofNodes \cup ProvableIn[k])
  BY ProvableInLevels
<1>2. ASSUME n \in ProvableIn[k + 1] PROVE distance[n] # Infinity /\ distance[n] <= k + 1
  <2>1. PICK d \in Range(edges[n]) : d \in ProofNodes \cup ProvableIn[k]
    BY <1>1, <1>2
  <2>2. IsExplored(n) /\ Relaxed(n) /\ d \in Nodes
    BY <1>1, <1>2, DistancesAtRest, Destinations DEF IInv
  <2>3. DistanceOf(d) # Infinity /\ DistanceOf(d) <= k
    <3>1. CASE d \in ProofNodes
      BY <3>1 DEF DistanceOf, Infinity
    <3>2. CASE d \notin ProofNodes
      <4>1. d \in States
        <5>1. d # Error
          BY <2>1, <3>2, ProvableInLevels DEF Terminals
        <5> QED
          BY <5>1, <2>2, <3>2 DEF Nodes, Terminals, ProofNodes
      <4> QED
        BY <4>1, <2>1, <3>2 DEF DistanceOf, Terminals, ProofNodes
    <3> QED
      BY <3>1, <3>2
  <2>4. distance[n] # Infinity /\ distance[n] <= 1 + DistanceOf(d)
    BY <2>2, <2>3 DEF Relaxed
  <2>5. DistanceOf(d) \in Nat /\ distance[n] \in Nat
    BY <2>2, <2>3, <2>4, FiniteDestination DEF IInv, TypeOK
  <2> QED
    BY <2>3, <2>4, <2>5
<1>3. ASSUME distance[n] # Infinity, distance[n] <= k + 1 PROVE n \in ProvableIn[k + 1]
  <2>1. IsExplored(n) /\ distance[n] \in Nat
    BY <1>3, Backing
  <2>2. PICK d \in Range(edges[n]) :
          /\ d \in Nodes
          /\ DistanceOf(d) # Infinity /\ DistanceOf(d) \in Nat /\ 1 + DistanceOf(d) <= distance[n]
    BY <1>3, Backing
  <2>3. DistanceOf(d) <= k
    BY <1>3, <2>1, <2>2
  <2>4. d \in ProofNodes \cup ProvableIn[k]
    BY <2>2, <2>3, FiniteDestination DEF IInv
  <2> QED
    BY <1>1, <2>1, <2>2, <2>4
<1> QED
  BY <1>2, <1>3

\* The nodes within k edges of a proof are those whose distance is at most k.
LEMMA LevelsAreDistances ==
    ASSUME IInv, Resting, NEW k \in Nat
    PROVE  \A n \in States : n \in ProvableIn[k] <=> (distance[n] # Infinity /\ distance[n] <= k)
<1> DEFINE Right(i) == \A n \in States : n \in ProvableIn[i] <=> (distance[n] # Infinity /\ distance[n] <= i)
           Wrong == {i \in Nat : ~Right(i)}
<1> SUFFICES ASSUME Wrong # {} PROVE FALSE
  OBVIOUS
<1>1. PICK i \in Wrong : \A j \in Wrong : i <= j
  <2> Wrong \in SUBSET Nat
    OBVIOUS
  <2> HIDE DEF Wrong
  <2> QED
    BY LeastElement
<1>2. CASE i = 0
  <2>1. \A n \in States : distance[n] # Infinity => distance[n] \in Nat /\ distance[n] # 0
    BY Backing
  <2>2. \A n \in States : distance[n] # Infinity => ~(distance[n] <= 0)
    BY <2>1
  <2> QED
    BY <1>2, <2>2, ProvableInLevels
<1>3. CASE i # 0
  <2>1. i \in Nat /\ i - 1 \in Nat /\ (i - 1) + 1 = i /\ i - 1 \notin Wrong
    <3>1. i \in Nat /\ i - 1 \in Nat /\ (i - 1) + 1 = i /\ ~(i <= i - 1)
      BY <1>3
    <3> HIDE DEF Wrong
    <3> QED
      BY <1>1, <3>1
  <2>2. Right(i - 1)
    BY <2>1
  <2>3. \A n \in States : n \in ProvableIn[(i - 1) + 1] <=> (distance[n] # Infinity /\ distance[n] <= (i - 1) + 1)
    BY <2>1, <2>2, NextLevel
  <2> QED
    BY <2>1, <2>3
<1> QED
  BY <1>2, <1>3

LEMMA ShortestAtRest ==
    ASSUME IInv, Resting
    PROVE  \A n \in States :
             IF distance[n] = Infinity THEN n \notin Provable
             ELSE n \in ProvableIn[distance[n]] \ ProvableIn[distance[n] - 1]
<1> TAKE n \in States
<1>1. CASE distance[n] = Infinity
  BY <1>1, DistancesAtRest
<1>2. CASE distance[n] # Infinity
  <2>1. distance[n] \in Nat /\ distance[n] - 1 \in Nat /\ distance[n] <= distance[n]
        /\ ~(distance[n] <= distance[n] - 1)
    BY <1>2, Backing
  <2>2. n \in ProvableIn[distance[n]]
    BY <1>2, <2>1, LevelsAreDistances
  <2>3. n \notin ProvableIn[distance[n] - 1]
    BY <1>2, <2>1, LevelsAreDistances
  <2> QED
    BY <1>2, <2>2, <2>3
<1> QED
  BY <1>1, <1>2

-----------------------------------------------------------------------------
(* The proof that is read off the tree.                                     *)

\* The proving edge leads nowhere farther from a proof than any other edge.
LEMMA ProvingEdgeIsNearest ==
    ASSUME TypeOK, NEW n \in States, IsExplored(n), Range(edges[n]) # {}
    PROVE  /\ ProvingEdge(n) \in Range(edges[n])
           /\ \A d \in Range(edges[n]) : ~Nearer(DistanceOf(d), DistanceOf(ProvingEdge(n)))
<1> DEFINE At(i) == DistanceOf(edges[n][i])
           Indices == DOMAIN edges[n]
           Least == {i \in Indices : \A j \in Indices : ~Nearer(At(j), At(i))}
           First(i) == /\ \A j \in Indices : ~Nearer(At(j), At(i))
                       /\ \A j \in 1..i - 1 : Nearer(At(i), At(j))
<1>1. /\ Indices = 1..Len(edges[n]) /\ Len(edges[n]) \in Nat
      /\ Indices # {} /\ \A i \in Indices : At(i) \in Nat \cup {Infinity}
  <2>1. edges[n] \in Seq(Nodes)
    BY Destinations
  <2>2. Indices = 1..Len(edges[n]) /\ Len(edges[n]) \in Nat /\ \A i \in Indices : edges[n][i] \in Nodes
    BY <2>1
  <2>3. Indices # {}
    BY DEF Range
  <2> QED
    BY <2>2, <2>3, DistanceType
<1> HIDE DEF At
<1>2. Least # {}
  <2> DEFINE Finite == {i \in Indices : At(i) # Infinity}
             Values == {At(i) : i \in Finite}
  <2>1. CASE Finite = {}
    BY <2>1, <1>1 DEF Nearer
  <2>2. CASE Finite # {}
    <3>1. Values \in SUBSET Nat /\ Values # {}
      BY <1>1, <2>2
    <3>2. PICK v \in Values : \A w \in Values : v <= w
      <4> HIDE DEF Values
      <4> QED
        BY <3>1, LeastElement
    <3>3. PICK i \in Finite : v = At(i)
      OBVIOUS
    <3>4. ASSUME NEW j \in Indices, Nearer(At(j), At(i)) PROVE FALSE
      <4>1. At(j) # Infinity /\ At(j) < At(i)
        BY <3>3, <3>4 DEF Nearer
      <4>2. v <= At(j)
        BY <3>2, <4>1
      <4> QED
        BY <4>1, <4>2, <1>1, <3>1, <3>3
    <3> QED
      BY <3>4
  <2> QED
    BY <2>1, <2>2
<1>3. PICK i \in Least : \A j \in Least : i <= j
  <2>1. Least \in SUBSET Nat
    BY <1>1
  <2> HIDE DEF Least
  <2> QED
    BY <1>2, <2>1, LeastElement
<1>4. ASSUME NEW j \in 1..i - 1 PROVE Nearer(At(i), At(j))
  <2>1. j \in Indices /\ i \in Indices /\ j \notin Least
    <3>1. j \in Nat /\ ~(i <= j) /\ j \in Indices
      BY <1>1
    <3> QED
      BY <1>3, <3>1
  <2>2. PICK l \in Indices : Nearer(At(l), At(j))
    BY <2>1
  <2>3. ~Nearer(At(l), At(i))
    BY <2>1
  <2>4. At(i) \in Nat \cup {Infinity} /\ At(j) \in Nat \cup {Infinity} /\ At(l) \in Nat \cup {Infinity}
    BY <1>1, <2>1
  <2> QED
    BY <2>2, <2>3, <2>4 DEF Nearer, Infinity
<1>5. First(i) /\ i \in Indices
  BY <1>4
<1> DEFINE chosen == CHOOSE j \in Indices : First(j)
<1>6. First(chosen) /\ chosen \in Indices
  <2> HIDE DEF First, Indices
  <2> QED
    BY <1>5
<1>7. ProvingEdge(n) = edges[n][chosen]
  BY DEF ProvingEdge, At
<1> HIDE DEF chosen
<1>8. ProvingEdge(n) \in Range(edges[n])
  BY <1>6, <1>7 DEF Range
<1>9. ASSUME NEW d \in Range(edges[n]) PROVE ~Nearer(DistanceOf(d), DistanceOf(ProvingEdge(n)))
  <2>1. PICK j \in Indices : d = edges[n][j]
    BY DEF Range
  <2> QED
    BY <2>1, <1>6, <1>7 DEF At
<1> QED
  BY <1>8, <1>9

\* Of a proved node at rest the proving edge is one edge nearer to the proof.
LEMMA OneEdgeNearer ==
    ASSUME IInv, Resting, NEW n \in States, distance[n] # Infinity
    PROVE  LET d == ProvingEdge(n) IN
             /\ d \in Range(edges[n]) /\ d \in Nodes
             /\ DistanceOf(d) # Infinity /\ DistanceOf(d) \in Nat /\ distance[n] = 1 + DistanceOf(d)
<1>1. IsExplored(n) /\ distance[n] \in Nat
  BY Backing
<1>2. PICK b \in Range(edges[n]) :
        b \in Nodes /\ DistanceOf(b) # Infinity /\ DistanceOf(b) \in Nat /\ 1 + DistanceOf(b) <= distance[n]
  BY Backing
<1> DEFINE d == ProvingEdge(n)
<1>3. d \in Range(edges[n]) /\ ~Nearer(DistanceOf(b), DistanceOf(d))
  BY <1>1, <1>2, ProvingEdgeIsNearest DEF IInv
<1>4. d \in Nodes
  BY <1>1, <1>3, Destinations DEF IInv
<1> HIDE DEF d
<1>5. DistanceOf(d) # Infinity /\ ~(DistanceOf(b) < DistanceOf(d))
  BY <1>2, <1>3 DEF Nearer
<1>6. DistanceOf(d) \in Nat
  BY <1>4, <1>5, FiniteDestination DEF IInv
<1>7. distance[n] <= 1 + DistanceOf(d)
  BY <1>1, <1>3, <1>5, DistancesAtRest DEF Relaxed
<1>8. distance[n] = 1 + DistanceOf(d)
  BY <1>1, <1>2, <1>5, <1>6, <1>7
<1> QED
  BY <1>3, <1>4, <1>5, <1>6, <1>8 DEF d

LEMMA OneMoreTactic ==
    ASSUME NEW n \in States, NEW d \in Range(edges[n]), d \in Nodes
    PROVE  /\ d \in ProofNodes => Leads(n, <<d>> \o <<>>)
           /\ \A proof \in Seq(Nodes) : d \in States /\ Leads(d, proof) => Leads(n, <<d>> \o proof)
<1>1. ASSUME d \in ProofNodes PROVE Leads(n, <<d>> \o <<>>)
  <2> DEFINE path == <<n>> \o (<<d>> \o <<>>)
  <2>1. Len(path) = 2 /\ path[1] = n /\ path[2] = d
    BY DEF Nodes
  <2> HIDE DEF path
  <2>2. /\ \A i \in 1..Len(path) - 1 : path[i] \in States /\ path[i + 1] \in Range(edges[path[i]])
        /\ path[Len(path)] \in ProofNodes
    BY <1>1, <2>1
  <2> QED
    BY <2>2 DEF Leads, Last, path
<1>2. ASSUME NEW proof \in Seq(Nodes), d \in States, Leads(d, proof)
      PROVE  Leads(n, <<d>> \o proof)
  <2> DEFINE rest == <<d>> \o proof
             path == <<n>> \o rest
  <2>1. rest \in Seq(Nodes) /\ Len(rest) = 1 + Len(proof) /\ rest[1] = d
    BY DEF Nodes
  <2>2. /\ \A i \in 1..Len(rest) - 1 : rest[i] \in States /\ rest[i + 1] \in Range(edges[rest[i]])
        /\ rest[Len(rest)] \in ProofNodes
    BY <1>2 DEF Leads, Last
  <2> HIDE DEF rest
  <2>3. /\ Len(path) = 1 + Len(rest) /\ Len(rest) \in Nat /\ Len(rest) >= 1
        /\ path[1] = n /\ \A i \in 1..Len(rest) : path[i + 1] = rest[i]
    BY <2>1 DEF Nodes
  <2> HIDE DEF path
  <2>4. ASSUME NEW i \in 1..Len(path) - 1
        PROVE  path[i] \in States /\ path[i + 1] \in Range(edges[path[i]])
    <3>1. CASE i = 1
      <4>1. path[i] = n /\ path[i + 1] = d
        BY <3>1, <2>1, <2>3
      <4> QED
        BY <4>1
    <3>2. CASE i # 1
      <4>1. i - 1 \in 1..Len(rest) - 1 /\ (i - 1) + 1 = i /\ i \in 1..Len(rest) /\ i - 1 \in 1..Len(rest)
        BY <3>2, <2>3
      <4>2. path[i] = rest[i - 1] /\ path[i + 1] = rest[i]
        BY <4>1, <2>3
      <4> QED
        BY <4>1, <4>2, <2>2
    <3> QED
      BY <3>1, <3>2
  <2>5. path[Len(path)] \in ProofNodes
    BY <2>2, <2>3
  <2> QED
    BY <2>4, <2>5 DEF Leads, Last, path, rest
<1> QED
  BY <1>1, <1>2

LEMMA ProvedIsFinite ==
    ASSUME IInv, Resting, NEW n \in States
    PROVE  status[n] = "PROVED" <=> distance[n] # Infinity
BY StatusesAtRest, DistancesAtRest

\* Extract by its calls.
LEMMA ExtractCalls ==
    ASSUME IInv, Resting
    PROVE  \A k \in Nat : \A n \in States :
             status[n] = "PROVED" =>
               Extract[k + 1][n] =
                 <<ProvingEdge(n)>> \o (IF ProvingEdge(n) \in Terminals THEN <<>>
                                        ELSE Extract[k][ProvingEdge(n)])
<1> DEFINE Lists == [States -> Seq(Nodes)]
           One(n, e) == IF status[n] # "PROVED" THEN <<>>
                        ELSE <<ProvingEdge(n)>> \o (IF ProvingEdge(n) \in Terminals THEN <<>>
                                                   ELSE e[ProvingEdge(n)])
           F == [e \in Lists |-> [n \in States |-> One(n, e)]]
           None == [n \in States |-> <<>>]
           Calls(f) == f = [k \in Nat |-> [n \in States |->
                          IF k = 0 \/ status[n] # "PROVED" THEN <<>>
                          ELSE <<ProvingEdge(n)>> \o (IF ProvingEdge(n) \in Terminals THEN <<>>
                                                     ELSE f[k - 1][ProvingEdge(n)])]]
<1>1. ASSUME NEW n \in States, NEW e \in Lists PROVE One(n, e) \in Seq(Nodes)
  <2>1. CASE status[n] = "PROVED"
    <3> DEFINE d == ProvingEdge(n)
               tail == IF d \in Terminals THEN <<>> ELSE e[d]
    <3>1. d \in Nodes
      BY <2>1, ProvedIsFinite, OneEdgeNearer
    <3> HIDE DEF d
    <3>2. tail \in Seq(Nodes)
      BY <3>1 DEF Nodes
    <3> HIDE DEF tail
    <3>3. <<d>> \o tail \in Seq(Nodes)
      BY <3>1, <3>2
    <3> QED
      BY <2>1, <3>3 DEF d, tail
  <2>2. CASE status[n] # "PROVED"
    BY <2>2
  <2> QED
    BY <2>1, <2>2
<1>2. F \in [Lists -> Lists] /\ None \in Lists
  <2> HIDE DEF One
  <2> QED
    BY <1>1
<1>3. PICK g \in [Nat -> Lists] : g[0] = None /\ \A k \in Nat : g[k + 1] = F[g[k]]
  <2> HIDE DEF Lists, F, None
  <2> QED
    BY <1>2, NatRecursion
<1>4. Calls(g)
  <2> DEFINE Level(k) == [n \in States |-> IF k = 0 THEN <<>> ELSE One(n, g[k - 1])]
  <2>1. ASSUME NEW k \in Nat PROVE g[k] = Level(k)
    <3>1. CASE k = 0
      BY <3>1, <1>3
    <3>2. CASE k # 0
      <4>1. k - 1 \in Nat /\ (k - 1) + 1 = k
        BY <3>2
      <4>2. g[k] = F[g[k - 1]] /\ g[k - 1] \in Lists
        BY <1>3, <4>1
      <4> HIDE DEF One, Lists
      <4> QED
        BY <3>2, <4>2
    <3> QED
      BY <3>1, <3>2
  <2>2. \A k \in Nat : \A n \in States :
          (IF k = 0 THEN <<>> ELSE One(n, g[k - 1])) =
          IF k = 0 \/ status[n] # "PROVED" THEN <<>>
          ELSE <<ProvingEdge(n)>> \o (IF ProvingEdge(n) \in Terminals THEN <<>>
                                     ELSE g[k - 1][ProvingEdge(n)])
    OBVIOUS
  <2>3. g = [k \in Nat |-> g[k]]
    BY <1>3
  <2>4. g = [k \in Nat |-> Level(k)]
    <3> HIDE DEF Level
    <3> QED
      BY <2>1, <2>3
  <2> QED
    BY <2>2, <2>4
<1>5. Extract = CHOOSE f : Calls(f)
  BY DEF Extract
<1>6. Calls(Extract)
  <2> HIDE DEF Calls
  <2> QED
    BY <1>4, <1>5
<1>7. ASSUME NEW j \in Nat, NEW n \in States
      PROVE  Extract[j][n] =
               IF j = 0 \/ status[n] # "PROVED" THEN <<>>
               ELSE <<ProvingEdge(n)>> \o (IF ProvingEdge(n) \in Terminals THEN <<>>
                                          ELSE Extract[j - 1][ProvingEdge(n)])
  <2>1. Extract[j] = [m \in States |->
          IF j = 0 \/ status[m] # "PROVED" THEN <<>>
          ELSE <<ProvingEdge(m)>> \o (IF ProvingEdge(m) \in Terminals THEN <<>>
                                     ELSE Extract[j - 1][ProvingEdge(m)])]
    BY <1>6, Zenon
  <2> QED
    BY <2>1, Zenon
<1> HIDE DEF Calls
<1> TAKE k \in Nat
<1> TAKE n \in States
<1> HAVE status[n] = "PROVED"
<1>8. k + 1 \in Nat /\ k + 1 # 0 /\ (k + 1) - 1 = k
  OBVIOUS
<1> QED
  BY <1>7, <1>8

\* The proof read off a node whose distance is k is a proof of k tactics.
LEMMA ExtractedProofLeads ==
    ASSUME IInv, Resting, NEW k \in Nat, NEW n \in States, distance[n] # Infinity, distance[n] = k
    PROVE  Extract[k][n] \in Seq(Nodes) /\ Len(Extract[k][n]) = k /\ Leads(n, Extract[k][n])
<1> DEFINE Good(i, m) == Extract[i][m] \in Seq(Nodes) /\ Len(Extract[i][m]) = i /\ Leads(m, Extract[i][m])
           Wrong == {i \in Nat : \E m \in States : distance[m] # Infinity /\ distance[m] = i /\ ~Good(i, m)}
<1> SUFFICES ASSUME Wrong # {} PROVE FALSE
  OBVIOUS
<1>1. PICK i \in Wrong : \A j \in Wrong : i <= j
  <2> Wrong \in SUBSET Nat
    OBVIOUS
  <2> HIDE DEF Wrong
  <2> QED
    BY LeastElement
<1>2. PICK m \in States : distance[m] # Infinity /\ distance[m] = i /\ ~Good(i, m)
  OBVIOUS
<1> DEFINE d == ProvingEdge(m)
<1>3. /\ d \in Range(edges[m]) /\ d \in Nodes
      /\ DistanceOf(d) # Infinity /\ DistanceOf(d) \in Nat /\ distance[m] = 1 + DistanceOf(d)
  BY <1>2, OneEdgeNearer
<1> HIDE DEF d
<1>4. i \in Nat /\ i - 1 \in Nat /\ (i - 1) + 1 = i /\ DistanceOf(d) = i - 1 /\ ~(i <= i - 1)
  BY <1>2, <1>3
<1>5. Extract[i][m] = <<d>> \o (IF d \in Terminals THEN <<>> ELSE Extract[i - 1][d])
  <2>1. status[m] = "PROVED"
    BY <1>2, ProvedIsFinite
  <2>2. Extract[(i - 1) + 1][m] = <<d>> \o (IF d \in Terminals THEN <<>> ELSE Extract[i - 1][d])
    BY <1>4, <2>1, ExtractCalls DEF d
  <2> QED
    BY <1>4, <2>2
<1>6. CASE d \in ProofNodes /\ DistanceOf(d) = 0
  <2>1. d \in Terminals
    BY <1>6 DEF ProofNodes, Terminals
  <2>2. Extract[i][m] = <<d>> \o <<>>
    BY <1>5, <2>1
  <2>3. Leads(m, <<d>> \o <<>>)
    BY <1>3, <1>6, OneMoreTactic
  <2>4. i = 1
    BY <1>4, <1>6
  <2>5. <<d>> \o <<>> \in Seq(Nodes) /\ Len(<<d>> \o <<>>) = 1
    BY <1>3
  <2> QED
    BY <1>2, <2>2, <2>3, <2>4, <2>5
<1>7. CASE d \in States /\ d \notin Terminals /\ DistanceOf(d) = distance[d]
  <2> DEFINE rest == Extract[i - 1][d]
  <2>1. rest \in Seq(Nodes) /\ Len(rest) = i - 1 /\ Leads(d, rest)
    <3>1. i - 1 \notin Wrong
      <4> HIDE DEF Wrong
      <4> QED
        BY <1>1, <1>4
    <3>2. distance[d] # Infinity /\ distance[d] = i - 1
      BY <1>3, <1>4, <1>7
    <3> QED
      BY <3>1, <3>2, <1>4, <1>7
  <2> HIDE DEF rest
  <2>2. Extract[i][m] = <<d>> \o rest
    BY <1>5, <1>7 DEF rest
  <2>3. Leads(m, <<d>> \o rest)
    BY <1>3, <1>7, <2>1, OneMoreTactic
  <2>4. <<d>> \o rest \in Seq(Nodes) /\ Len(<<d>> \o rest) = i
    BY <1>3, <1>4, <2>1
  <2> QED
    BY <1>2, <2>2, <2>3, <2>4
<1> QED
  BY <1>3, <1>6, <1>7, FiniteDestination DEF IInv

LEMMA StopInv == ASSUME IInv, Stop PROVE IInv'
<1>1. /\ phase = "search" /\ UNCHANGED tree
      /\ result' = [status |-> status[Root],
                    proof |-> IF status[Root] = "PROVED" THEN ExtractedProof ELSE result.proof]
      /\ IF status[Root] = "PROVED" THEN attempt' = attempt /\ phase' = "ended" ELSE NextAttempt
  BY DEF Stop
<1>2. attempt' \in 1..K /\ phase' \in {"open", "ended"}
  BY <1>1, NextAttemptType DEF IInv, TypeOK
<1>3. Root \in States /\ status[Root] \in {"OPEN", "PROVED", "FAILED"} /\ Resting
  BY <1>1 DEF IInv, TypeOK, Resting
<1>4. ASSUME status[Root] = "PROVED"
      PROVE  /\ ExtractedProof \in Seq(Nodes) /\ Leads(Root, ExtractedProof)
             /\ distance[Root] # Infinity /\ Len(ExtractedProof) = distance[Root]
  <2>1. distance[Root] # Infinity
    BY <1>3, <1>4, ProvedIsFinite
  <2>2. distance[Root] \in Nat
    BY <1>3, <2>1, Backing
  <2> QED
    BY <1>3, <2>1, <2>2, ExtractedProofLeads DEF ExtractedProof
<1>5. TypeOK'
  <2>1. result'.status \in {"OPEN", "PROVED", "FAILED"} /\ result'.proof \in Seq(States \cup Terminals)
    BY <1>1, <1>3, <1>4 DEF IInv, TypeOK, Nodes
  <2> QED
    BY <1>1, <1>2, <2>1 DEF IInv, TypeOK, tree
<1>6. ResultInv'
  <2>1. CASE status[Root] = "PROVED"
    <3>1. result'.proof = ExtractedProof /\ phase' = "ended" /\ distance' = distance /\ edges' = edges
      BY <1>1, <2>1 DEF tree
    <3>2. Leads(Root, result.proof)'
      BY <1>4, <2>1, <3>1 DEF Leads
    <3> QED
      BY <1>4, <2>1, <3>1, <3>2 DEF ResultInv
  <2>2. CASE status[Root] # "PROVED"
    BY <1>1, <2>2 DEF ResultInv
  <2> QED
    BY <2>1, <2>2
<1> QED
  BY <1>1, <1>2, <1>5, <1>6, GraphKept DEF IInv

LEMMA StutterInv == ASSUME IInv, UNCHANGED vars PROVE IInv'
<1>1. /\ \A s : IsExplored(s)' = IsExplored(s)
      /\ \A d : DistanceOf(d)' = DistanceOf(d) /\ StatusOf(d)' = StatusOf(d)
  BY DEF IsExplored, DistanceOf, StatusOf, vars
<1>2. TypeOK'
  BY DEF IInv, TypeOK, vars
<1>3. GraphInv'
  BY <1>1 DEF IInv, GraphInv, vars
<1>4. SoundStatus' /\ CompleteStatus'
  BY <1>1 DEF IInv, SoundStatus, CompleteStatus, ProofClosed, FailureClosed, Follows, vars
<1>5. SoundDistance' /\ CompleteDistance'
  BY <1>1 DEF IInv, SoundDistance, Backed, CompleteDistance, Recomputing, Relaxed, vars
<1>6. ResultInv'
  BY DEF IInv, ResultInv, Leads, vars
<1> QED
  BY <1>2, <1>3, <1>4, <1>5, <1>6 DEF IInv

LEMMA NextInv == IInv /\ [Next]_vars => IInv'
<1> SUFFICES ASSUME IInv, [Next]_vars PROVE IInv'
  OBVIOUS
<1>1. CASE Open
  BY <1>1, OpenInv
<1>2. CASE AttemptRaises
  BY <1>2, AttemptRaisesInv
<1>3. CASE Expand
  BY <1>3, ExpandInv
<1>4. CASE RecomputeStatus
  BY <1>4, RecomputeStatusInv
<1>5. CASE StatusDone
  BY <1>5, StatusDoneInv
<1>6. CASE RecomputeDistance
  BY <1>6, RecomputeDistanceInv
<1>7. CASE DistanceDone
  BY <1>7, DistanceDoneInv
<1>8. CASE Stop
  BY <1>8, StopInv
<1>9. CASE UNCHANGED vars
  BY <1>9, StutterInv
<1> QED
  BY <1>1, <1>2, <1>3, <1>4, <1>5, <1>6, <1>7, <1>8, <1>9 DEF Next

LEMMA ReplaysInv == IInv => ProofReplays
<1> SUFFICES ASSUME IInv, phase = "ended", result.status = "PROVED"
             PROVE  /\ Leads(Root, result.proof)
                    /\ Root \in ProvableIn[Len(result.proof)] \ ProvableIn[Len(result.proof) - 1]
  BY DEF ProofReplays, Leads
<1>1. Leads(Root, result.proof) /\ distance[Root] # Infinity /\ Len(result.proof) = distance[Root]
  BY DEF IInv, ResultInv
<1>2. Resting
  BY DEF Resting
<1> QED
  BY <1>1, <1>2, ShortestAtRest

-----------------------------------------------------------------------------
(* What the search promises.                                                *)

\* The search keeps to its types.  What the code asserts is in the invariant:
\* only explored nodes are recomputed, and the setter of out_edges is called
\* once for each node that leaves the queue.
THEOREM TypeCorrect == Spec => []TypeOK
<1>1. Init => IInv
  BY InitInv
<1>2. IInv /\ [Next]_vars => IInv'
  BY NextInv
<1>3. IInv => TypeOK
  BY DEF IInv
<1> QED
  BY <1>1, <1>2, <1>3, PTL DEF Spec

\* What the recursion relies on: only explored nodes are called, each knows all
\* the explored nodes that lead to it, and what is queued has not been explored.
THEOREM GraphIsConsistent == Spec => []GraphInv
<1>1. Init => IInv
  BY InitInv
<1>2. IInv /\ [Next]_vars => IInv'
  BY NextInv
<1>3. IInv => GraphInv
  BY DEF IInv
<1> QED
  BY <1>1, <1>2, <1>3, PTL DEF Spec

\* Between two expansions the statuses are the truth about the explored graph,
\* for any graph and whatever cycles the tactics make: PROVED is the least set
\* of nodes that lead to a proof, FAILED the least set of those whose every way
\* out fails.
THEOREM StatusIsTrue == Spec => []StatusIsTruth
<1>1. Init => IInv
  BY InitInv
<1>2. IInv /\ [Next]_vars => IInv'
  BY NextInv
<1>3. IInv => StatusIsTruth
  BY StatusesAtRest DEF StatusIsTruth, AtRest, Resting
<1> QED
  BY <1>1, <1>2, <1>3, PTL DEF Spec

\* Between two expansions every distance is that of the shortest explored way
\* to a proof, and infinite exactly when there is none.
THEOREM DistancesAreShortest == Spec => []DistanceIsShortest
<1>1. Init => IInv
  BY InitInv
<1>2. IInv /\ [Next]_vars => IInv'
  BY NextInv
<1>3. IInv => DistanceIsShortest
  BY ShortestAtRest DEF DistanceIsShortest, AtRest, Resting
<1> QED
  BY <1>1, <1>2, <1>3, PTL DEF Spec

\* A search that proves the theorem returns a proof that replays from the
\* initial state, and none shorter has been explored.
THEOREM ProofsReplay == Spec => []ProofReplays
<1>1. Init => IInv
  BY InitInv
<1>2. IInv /\ [Next]_vars => IInv'
  BY NextInv
<1>3. IInv => ProofReplays
  BY ReplaysInv
<1> QED
  BY <1>1, <1>2, <1>3, PTL DEF Spec
=============================================================================
