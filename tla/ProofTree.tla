----------------------------- MODULE ProofTree -----------------------------
(***************************************************************************)
(* Best-first proof search over Dojo proof states: the nodes and edges of  *)
(* src/src/evaluation/leandojo_tree.py and the search of leandojo_bfs.py.  *)
(* A tactic may lead back to a state that is already known, so what is     *)
(* called a tree is a graph with cycles.  The status of a node and its     *)
(* distance to a proof are propagated along in_edges by recursive calls;   *)
(* here `calls` is the recursion's stack, one step per call.               *)
(*                                                                         *)
(* Tactics are left out: an edge is its destination.                       *)
(***************************************************************************)
EXTENDS Integers, Sequences, SequencesExt, FiniteSetsExt

CONSTANTS
    States,      \* TacticState
    Root,        \* the theorem's initial state
    MaxTactics,  \* the number of suggestions the generator answers with
    K            \* the attempts

ASSUME ConstantsAssumption == Root \in States /\ MaxTactics \in Nat /\ K \in Nat \ {0}

VARIABLES
    attempt,   \* of 1..K
    phase,     \* open, search, status, distance, ended
    queue,     \* priority_queue
    known,     \* the tactic states of self.nodes
    edges,     \* _out_edges of each node
    inEdges,   \* the src of each of in_edges
    status,    \* _status
    distance,  \* _distance_to_proof
    node,      \* the node whose out_edges were set last
    calls,     \* the pending _recompute calls, the current one first
    result     \* last_status and last_proof of the SearchResult

vars == <<attempt, phase, queue, known, edges, inEdges, status, distance, node, calls, result>>
tree == <<queue, known, edges, inEdges, status, distance, node, calls>>

\* ProofFinishedNode, for ProofFinished and ProofGivenUp, and ErrorNode.  An
\* ErrorNode also stands for a tactic timeout, a crash or an exception.
Finished == "finished"
GivenUp  == "given_up"
Error    == "error"
ProofNodes == {Finished, GivenUp}
Terminals  == {Finished, GivenUp, Error}

Unexplored == <<"unexplored">>
NoNode == "none"

\* math.inf, which is nearer than nothing; it is no number of edges.
Infinity == -1
Nearer(d, e) == d # Infinity /\ (e = Infinity \/ d < e)

ASSUME NodesAssumption == NoNode \notin States /\ "unexplored" \notin States
                            /\ Terminals \cap States = {}

\* Answers to a node's suggestions: the loop over them breaks at a proof.
OutLists ==
    {out \in BoundedSeq(States \cup Terminals, MaxTactics) :
        \A i \in 1..Len(out) - 1 : out[i] \notin ProofNodes}

IsExplored(n) == edges[n] # Unexplored

StatusOf(dst) ==
    IF dst \in ProofNodes THEN "PROVED" ELSE IF dst = Error THEN "FAILED" ELSE status[dst]

DistanceOf(dst) ==
    IF dst \in ProofNodes THEN 0 ELSE IF dst = Error THEN Infinity ELSE distance[dst]

TypeOK ==
    /\ attempt \in 1..K
    /\ phase \in {"open", "search", "status", "distance", "ended"}
    /\ queue \subseteq known /\ known \subseteq States
    /\ edges \in [States -> OutLists \cup {Unexplored}]
    /\ inEdges \in [States -> Seq(States)]
    /\ status \in [States -> {"OPEN", "PROVED", "FAILED"}]
    /\ distance \in [States -> Nat \cup {Infinity}]
    /\ node \in States \cup {NoNode}
    /\ calls \in Seq(States)
    /\ result.status \in {"OPEN", "PROVED", "FAILED"}
    /\ result.proof \in Seq(States \cup Terminals)

Init ==
    /\ attempt = 1
    /\ phase = "open"
    /\ queue = {} /\ known = {}
    /\ edges = [s \in States |-> Unexplored]
    /\ inEdges = [s \in States |-> <<>>]
    /\ status = [s \in States |-> "OPEN"]
    /\ distance = [s \in States |-> Infinity]
    /\ node = NoNode
    /\ calls = <<>>
    /\ result = [status |-> "OPEN", proof |-> <<>>]

-----------------------------------------------------------------------------
\* Every attempt has its own Dojo, root and search.
Open ==
    /\ phase = "open"
    /\ phase' = "search"
    /\ queue' = {Root} /\ known' = {Root}
    /\ edges' = [s \in States |-> Unexplored]
    /\ inEdges' = [s \in States |-> <<>>]
    /\ status' = [s \in States |-> "OPEN"]
    /\ distance' = [s \in States |-> Infinity]
    /\ node' = NoNode /\ calls' = <<>>
    /\ UNCHANGED <<attempt, result>>

\* Mutant of NextAttempt: one attempt too many.
NextAttempt_OneMore ==
    IF attempt <= K THEN attempt' = attempt + 1 /\ phase' = "open"
                    ELSE attempt' = attempt /\ phase' = "ended"

NextAttempt ==
    IF attempt < K THEN attempt' = attempt + 1 /\ phase' = "open"
                   ELSE attempt' = attempt /\ phase' = "ended"

\* The Dojo or the generator raises: the attempt counts, its search is dropped.
AttemptRaises ==
    /\ phase \in {"open", "search"}
    /\ NextAttempt
    /\ UNCHANGED <<tree, result>>

\* in_edges of each destination grow with the edges that reach it.
Reached(n, out) ==
    inEdges' = [s \in States |->
        inEdges[s] \o [i \in 1..Cardinality({j \in DOMAIN out : out[j] = s}) |-> n]]

\* One node is taken off the queue and its suggestions are run.  All priorities
\* are equal, and the heap gives nodes of equal priority no order.
Expand ==
    /\ phase = "search" /\ queue # {} /\ status[Root] # "PROVED"
    /\ \E n \in queue, out \in OutLists :
          /\ queue' = (queue \ {n}) \cup ((Range(out) \cap States) \ known)
          /\ known' = known \cup (Range(out) \cap States)
          /\ edges' = [edges EXCEPT ![n] = out]
          /\ Reached(n, out)
          /\ node' = n
          /\ calls' = <<n>>
    /\ phase' = "status"
    /\ UNCHANGED <<attempt, status, distance, result>>

\* Mutant of Verdict: any failed tactic fails the node.
Verdict_AnyFailed(n) ==
    IF status[n] # "OPEN" THEN status[n]
    ELSE IF \E i \in DOMAIN edges[n] : StatusOf(edges[n][i]) = "PROVED" THEN "PROVED"
    ELSE IF \E i \in DOMAIN edges[n] : StatusOf(edges[n][i]) = "FAILED" THEN "FAILED"
    ELSE "OPEN"

Verdict(n) ==
    IF status[n] # "OPEN" THEN status[n]
    ELSE IF \A i \in DOMAIN edges[n] : StatusOf(edges[n][i]) = "FAILED" THEN "FAILED"
    ELSE IF \E i \in DOMAIN edges[n] : StatusOf(edges[n][i]) = "PROVED" THEN "PROVED"
    ELSE "OPEN"

\* One call of _recompute_status: a status that settles is passed on to the
\* sources of in_edges, depth first.
RecomputeStatus ==
    /\ phase = "status" /\ calls # <<>>
    /\ LET n == Head(calls) IN
          /\ status' = [status EXCEPT ![n] = Verdict(n)]
          /\ calls' = IF status[n] # Verdict(n) THEN inEdges[n] \o Tail(calls) ELSE Tail(calls)
    /\ UNCHANGED <<attempt, phase, queue, known, edges, inEdges, distance, node, result>>

\* The setter of out_edges recomputes the distance once the status is done.
StatusDone ==
    /\ phase = "status" /\ calls = <<>>
    /\ phase' = "distance"
    /\ calls' = <<node>>
    /\ UNCHANGED <<attempt, queue, known, edges, inEdges, status, distance, node, result>>

\* `1 + dst.distance_to_proof` of each edge for which that is finite.
Distances(n) ==
    {1 + DistanceOf(dst) : dst \in {d \in Range(edges[n]) : DistanceOf(d) # Infinity}}

Nearest(n) == IF Distances(n) = {} THEN Infinity ELSE Min(Distances(n))

\* Mutant of RecomputeDistance: passed on when it is no worse, not only when it
\* is better.
RecomputeDistance_NoWorse ==
    /\ phase = "distance" /\ calls # <<>>
    /\ LET n == Head(calls) IN
          IF ~Nearer(distance[n], Nearest(n))
          THEN /\ distance' = [distance EXCEPT ![n] = Nearest(n)]
               /\ calls' = inEdges[n] \o Tail(calls)
          ELSE distance' = distance /\ calls' = Tail(calls)
    /\ UNCHANGED <<attempt, phase, queue, known, edges, inEdges, status, node, result>>

\* Mutant of RecomputeDistance: the sources of in_edges are not told.
RecomputeDistance_Local ==
    /\ phase = "distance" /\ calls # <<>>
    /\ LET n == Head(calls) IN
          distance' = IF Nearer(Nearest(n), distance[n]) THEN [distance EXCEPT ![n] = Nearest(n)] ELSE distance
    /\ calls' = Tail(calls)
    /\ UNCHANGED <<attempt, phase, queue, known, edges, inEdges, status, node, result>>

RecomputeDistance ==
    /\ phase = "distance" /\ calls # <<>>
    /\ LET n == Head(calls) IN
          IF Nearer(Nearest(n), distance[n])
          THEN /\ distance' = [distance EXCEPT ![n] = Nearest(n)]
               /\ calls' = inEdges[n] \o Tail(calls)
          ELSE distance' = distance /\ calls' = Tail(calls)
    /\ UNCHANGED <<attempt, phase, queue, known, edges, inEdges, status, node, result>>

DistanceDone ==
    /\ phase = "distance" /\ calls = <<>>
    /\ phase' = "search"
    /\ UNCHANGED <<attempt, result, tree>>

-----------------------------------------------------------------------------
\* Mutant of ProvingEdge: the first edge to a proved node.
ProvingEdge_First(n) ==
    LET i == CHOOSE i \in DOMAIN edges[n] :
                /\ StatusOf(edges[n][i]) = "PROVED"
                /\ \A j \in 1..i - 1 : StatusOf(edges[n][j]) # "PROVED"
    IN edges[n][i]

\* The first edge of least distance.
ProvingEdge(n) ==
    LET At(i) == DistanceOf(edges[n][i])
        i == CHOOSE i \in DOMAIN edges[n] : /\ \A j \in DOMAIN edges[n] : ~Nearer(At(j), At(i))
                                           /\ \A j \in 1..i - 1 : Nearer(At(i), At(j))
    IN edges[n][i]

\* extract_proof: proving edges down to a terminal node.  The recursion is a
\* function of the calls still allowed; each is one edge nearer to the proof.
Extract[k \in Nat] ==
    [n \in States |->
        IF k = 0 \/ status[n] # "PROVED" THEN <<>>
        ELSE <<ProvingEdge(n)>> \o (IF ProvingEdge(n) \in Terminals THEN <<>>
                                   ELSE Extract[k - 1][ProvingEdge(n)])]

ExtractedProof == Extract[distance[Root]][Root]

\* The search stops: root proved, nothing queued, or the clock.
Stop ==
    /\ phase = "search"
    /\ result' = [status |-> status[Root],
                  proof |-> IF status[Root] = "PROVED" THEN ExtractedProof ELSE result.proof]
    /\ IF status[Root] = "PROVED" THEN attempt' = attempt /\ phase' = "ended" ELSE NextAttempt
    /\ UNCHANGED tree

Next ==
    \/ Open \/ AttemptRaises \/ Expand \/ RecomputeStatus \/ StatusDone
    \/ RecomputeDistance \/ DistanceDone \/ Stop

Spec == Init /\ [][Next]_vars

\* One asyncio task: it goes on as long as it can.
FairSpec == Spec /\ WF_vars(Next)
-----------------------------------------------------------------------------
(* Properties                                                               *)

AtRest == phase \in {"search", "ended"}

\* A node is provable when explored edges lead from it to a proof, round a cycle
\* or not: it is in every set of nodes that these edges cannot leave backwards.
ProofClosed(set) ==
    \A n \in States : IsExplored(n) /\ Range(edges[n]) \cap (ProofNodes \cup set) # {} => n \in set

Provable == {n \in States : \A set \in SUBSET States : ProofClosed(set) => n \in set}

\* It is refuted when every way out of it is known to fail.
FailureClosed(set) ==
    \A n \in States : IsExplored(n) /\ Range(edges[n]) \subseteq {Error} \cup set => n \in set

Refuted == {n \in States : \A set \in SUBSET States : FailureClosed(set) => n \in set}

\* The nodes from which at most k explored edges lead to a proof.
ProvableIn[k \in Nat] ==
    IF k = 0 THEN {}
    ELSE {n \in States : IsExplored(n) /\ Range(edges[n]) \cap (ProofNodes \cup ProvableIn[k - 1]) # {}}

\* Between two expansions every node's status is what the explored graph says,
\* cycles or not: proved when explored edges lead to a proof, failed when
\* every way out is known to fail, and open otherwise.
StatusIsTruth ==
    AtRest =>
        /\ {n \in States : status[n] = "PROVED"} = Provable
        /\ {n \in States : status[n] = "FAILED"} = Refuted

\* A node's distance is the length of its shortest explored way to a proof, and
\* infinite exactly when there is none.
DistanceIsShortest ==
    AtRest => \A n \in States :
        IF distance[n] = Infinity THEN n \notin Provable
        ELSE n \in ProvableIn[distance[n]] \ ProvableIn[distance[n] - 1]

\* A proved theorem comes with a proof: tactics that lead from the initial
\* state to a finished proof, each where the last one left off, as few as any
\* explored way has.
ProofReplays ==
    phase = "ended" /\ result.status = "PROVED" =>
        LET path == <<Root>> \o result.proof IN
            /\ \A i \in 1..Len(path) - 1 : path[i] \in States /\ path[i + 1] \in Range(edges[path[i]])
            /\ Last(path) \in ProofNodes
            /\ Root \in ProvableIn[Len(result.proof)] \ ProvableIn[Len(result.proof) - 1]

\* The recursion over a graph with cycles comes to an end, and so does the
\* search: every theorem gets its SearchResult.
SearchEnds == <>(phase = "ended")
=============================================================================
