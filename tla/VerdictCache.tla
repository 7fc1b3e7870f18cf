----------------------------- MODULE VerdictCache -----------------------------
(***************************************************************************)
(* verify_lean_proof (src/src/evaluation/lean_verifier.py): one            *)
(* `lake env lean` subprocess per verification, behind a bounded LRU of    *)
(* verdicts and a table of futures that lets concurrent calls with one key *)
(* share one run.                                                          *)
(*                                                                         *)
(* A key stands for a pair (code, timeout).  A run, its future and its     *)
(* process group are named by the call that started them.  The cache lock  *)
(* is never held across an await, so what a coroutine does between two     *)
(* awaits is one action.                                                   *)
(***************************************************************************)
EXTENDS Naturals, Sequences, FiniteSets

CONSTANTS
    Calls,      \* calls of verify_lean_proof
    Keys,       \* (code, timeout) pairs
    KeyOf,      \* the key a call asks about
    Direct,     \* calls with use_cache=False or an extra_env
    MayCancel,  \* calls whose awaiting task may be cancelled (an outer wait_for)
    CacheMax,   \* _CACHE_MAX
    None        \* Python's None

ASSUME CallsAssumption ==
    KeyOf \in [Calls -> Keys] /\ Direct \subseteq Calls /\ MayCancel \subseteq Calls
ASSUME KeysAssumption == IsFiniteSet(Keys)
ASSUME CacheAssumption == CacheMax \in Nat \ {0}
ASSUME NoneAssumption == None \notin Calls

VARIABLES
    pc,         \* pc[c]: where the coroutine of call c is
    result,     \* result[c]: what it returned or raised
    follows,    \* follows[c]: whose future c awaits
    future,     \* future[c]: the future c created for its followers
    inflight,   \* _inflight[k]: whose future is in the table, or None
    cache,      \* _cache[k]: the verdict, or Nothing
    order,      \* the OrderedDict's order, least recently used first
    process,    \* process[c]: the process group c started
    cancelled,  \* history: calls whose task was cancelled
    since       \* history: for each key used, the keys used after it

table == <<inflight, cache, order, since>>
vars  == <<pc, result, follows, future, process, cancelled, table>>

Lasting == {"judged", "crashed"}
Kinds == Lasting \cup {"system_error"}
Verdict(c, kind) == [by |-> c, kind |-> kind]
Cancelled == [by |-> None, kind |-> "cancelled"]
Pending   == [by |-> None, kind |-> "pending"]
Nothing   == [by |-> None, kind |-> "none"]
Verdicts  == [by : Calls, kind : Kinds]

\* Where a call is that runs Lean itself.
Working == {"verifying", "reaping"}

TypeOK ==
    /\ pc \in [Calls -> {"idle", "following", "verifying", "reaping", "ended"}]
    /\ result \in [Calls -> Verdicts \cup {Cancelled, Nothing}]
    /\ follows \in [Calls -> Calls \cup {None}]
    /\ future \in [Calls -> Verdicts \cup {Cancelled, Pending, Nothing}]
    /\ inflight \in [Keys -> Calls \cup {None}]
    /\ cache \in [Keys -> Verdicts \cup {Nothing}]
    /\ order \in Seq(Keys)
    /\ process \in [Calls -> {"none", "running", "killed", "gone"}]
    /\ cancelled \subseteq MayCancel
    /\ since \in [Keys -> SUBSET Keys]

Init ==
    /\ pc = [c \in Calls |-> "idle"]
    /\ result = [c \in Calls |-> Nothing]
    /\ follows = [c \in Calls |-> None]
    /\ future = [c \in Calls |-> Nothing]
    /\ inflight = [k \in Keys |-> None]
    /\ cache = [k \in Keys |-> Nothing]
    /\ order = <<>>
    /\ process = [c \in Calls |-> "none"]
    /\ cancelled = {}
    /\ since = [k \in Keys |-> Keys]

-----------------------------------------------------------------------------
(* The cache.                                                               *)

Cached(k) == cache[k] # Nothing

\* A use of a key, for the history only.
Used(k) == since' = [j \in Keys |-> IF j = k THEN {} ELSE since[j] \cup {k}]

\* Mutant of Touch: the entry keeps its place.
Touch_NoMove(k) == UNCHANGED order /\ Used(k)

\* _cache.move_to_end(key) of a cached key.
Touch(k) ==
    /\ \E i \in DOMAIN order :
          /\ order[i] = k
          /\ order' = Append(SubSeq(order, 1, i - 1) \o SubSeq(order, i + 1, Len(order)), k)
    /\ Used(k)

\* The verdict is put at the end and the oldest entry is dropped if the cache was
\* full.  A key in flight is never cached (InFlightIsNotCached), so it is new.
Store(k, v) ==
    LET full   == Len(order) >= CacheMax
        oldest == Head(order)
    IN  /\ order' = Append(IF full THEN Tail(order) ELSE order, k)
        /\ cache' = [j \in Keys |-> IF j = k THEN v
                                    ELSE IF full /\ j = oldest THEN Nothing ELSE cache[j]]
        /\ Used(k)

-----------------------------------------------------------------------------
(* verify_lean_proof up to its first await.                                 *)

End(c, outcome) ==
    /\ pc' = [pc EXCEPT ![c] = "ended"]
    /\ result' = [result EXCEPT ![c] = outcome]

Hit(c) ==
    /\ pc[c] = "idle" /\ c \notin Direct /\ Cached(KeyOf[c])
    /\ End(c, cache[KeyOf[c]])
    /\ Touch(KeyOf[c])
    /\ UNCHANGED <<follows, future, inflight, cache, process, cancelled>>

\* The future found in the table is awaited.  If a follower's cancellation has
\* cancelled it, the await raises at once.
InTable(c) ==
    pc[c] = "idle" /\ c \notin Direct /\ ~Cached(KeyOf[c]) /\ inflight[KeyOf[c]] # None

Follow(c) ==
    /\ InTable(c)
    /\ LET owner == inflight[KeyOf[c]] IN
          IF future[owner] = Pending
          THEN /\ pc' = [pc EXCEPT ![c] = "following"]
               /\ follows' = [follows EXCEPT ![c] = owner]
               /\ UNCHANGED result
          ELSE End(c, future[owner]) /\ UNCHANGED follows
    /\ UNCHANGED <<future, process, cancelled, table>>

\* Mutant of MayStart: the table of futures is not consulted.
MayStart_Alone(c) == pc[c] = "idle" /\ (c \in Direct \/ ~Cached(KeyOf[c]))

\* Nothing is cached or in flight: this call runs Lean itself.
MayStart(c) ==
    /\ pc[c] = "idle"
    /\ c \in Direct \/ (~Cached(KeyOf[c]) /\ inflight[KeyOf[c]] = None)

Start(c) ==
    /\ MayStart(c)
    /\ pc' = [pc EXCEPT ![c] = "verifying"]
    /\ process' = [process EXCEPT ![c] = "running"]
    /\ IF c \in Direct THEN UNCHANGED <<future, inflight>>
       ELSE /\ future' = [future EXCEPT ![c] = Pending]
            /\ inflight' = [inflight EXCEPT ![KeyOf[c]] = c]
    /\ UNCHANGED <<result, follows, cache, order, since, cancelled>>

\* No `lake` or `lean` on the path, or the subprocess cannot be created: the
\* future is made, resolved and dropped before anybody can see it.
CannotStart(c) ==
    /\ MayStart(c)
    /\ End(c, Verdict(c, "system_error"))
    /\ UNCHANGED <<follows, future, process, cancelled, table>>

-----------------------------------------------------------------------------
(* The verification and what follows it.                                    *)

\* Mutant of Deliver: system errors are cached as well.
Deliver_CachesErrors(c, kind) ==
    /\ End(c, Verdict(c, kind))
    /\ IF c \in Direct THEN UNCHANGED <<future, table>>
       ELSE /\ Store(KeyOf[c], Verdict(c, kind))
            /\ future' = [future EXCEPT ![c] = IF @ = Pending THEN Verdict(c, kind) ELSE @]
            /\ inflight' = [inflight EXCEPT ![KeyOf[c]] = None]
    /\ UNCHANGED <<follows, cancelled>>

\* The verdict is stored if it has no system_error, broadcast unless the future
\* was cancelled, taken out of the table and returned.
Deliver(c, kind) ==
    /\ End(c, Verdict(c, kind))
    /\ IF c \in Direct THEN UNCHANGED <<future, table>>
       ELSE /\ IF kind = "system_error" THEN UNCHANGED <<cache, order, since>>
               ELSE Store(KeyOf[c], Verdict(c, kind))
            /\ future' = [future EXCEPT ![c] = IF @ = Pending THEN Verdict(c, kind) ELSE @]
            /\ inflight' = [inflight EXCEPT ![KeyOf[c]] = None]
    /\ UNCHANGED <<follows, cancelled>>

\* Lean ends in time: it judged the code, or it crashed without a diagnostic
\* (out of memory, killed), which reads as a failed proof: system_error is None.
Exit(c) ==
    /\ pc[c] = "verifying" /\ process[c] = "running"
    /\ process' = [process EXCEPT ![c] = "gone"]
    /\ \E kind \in Lasting : Deliver(c, kind)

\* Mutant of TimeOut: the process group is not killed.
TimeOut_NoKill(c) ==
    /\ pc[c] = "verifying" /\ process[c] = "running"
    /\ Deliver(c, "system_error")
    /\ UNCHANGED process

\* asyncio.TimeoutError: the process group is killed and waited for.
TimeOut(c) ==
    /\ pc[c] = "verifying" /\ process[c] = "running"
    /\ pc' = [pc EXCEPT ![c] = "reaping"]
    /\ process' = [process EXCEPT ![c] = "killed"]
    /\ UNCHANGED <<result, follows, future, cancelled, table>>

\* The killed group is gone, or ten seconds have passed: "abandon".
Reaped(c) ==
    /\ pc[c] = "reaping"
    /\ Deliver(c, "system_error")
    /\ UNCHANGED process

\* The process group ends without a coroutine that takes notice.
GroupEnds(c) ==
    /\ process[c] = "killed" \/ (process[c] = "running" /\ pc[c] = "ended")
    /\ process' = [process EXCEPT ![c] = "gone"]
    /\ UNCHANGED <<pc, result, follows, future, cancelled, table>>

\* The future that c awaits is done and c resumes.
Wake(c) ==
    /\ pc[c] = "following" /\ future[follows[c]] # Pending
    /\ End(c, future[follows[c]])
    /\ UNCHANGED <<follows, future, process, cancelled, table>>

-----------------------------------------------------------------------------
(* Cancellation of the task that awaits the call, once per call.            *)

\* Task.cancel() cancels what the task awaits: the shared future itself.  If it
\* is done already, only this task is cancelled.
CancelFollower(c) ==
    /\ pc[c] = "following"
    /\ IF future[follows[c]] = Pending
       THEN future' = [future EXCEPT ![follows[c]] = Cancelled] /\ UNCHANGED <<pc, result>>
       ELSE End(c, Cancelled) /\ UNCHANGED future
    /\ UNCHANGED <<inflight, process>>

\* Mutant of CancelOwner: the exception is not passed on to the followers.
CancelOwner_KeepsFuture(c) ==
    /\ pc[c] \in Working
    /\ End(c, Cancelled)
    /\ IF c \in Direct THEN UNCHANGED inflight
       ELSE inflight' = [inflight EXCEPT ![KeyOf[c]] = None]
    /\ UNCHANGED <<future, process>>

\* `except BaseException`: the CancelledError is set on the future, the key
\* leaves the table.  Nothing kills the process group of a run.
CancelOwner(c) ==
    /\ pc[c] \in Working
    /\ End(c, Cancelled)
    /\ IF c \in Direct THEN UNCHANGED <<future, inflight>>
       ELSE /\ future' = [future EXCEPT ![c] = IF @ = Pending THEN Cancelled ELSE @]
            /\ inflight' = [inflight EXCEPT ![KeyOf[c]] = None]
    /\ UNCHANGED process

Cancel(c) ==
    /\ c \in MayCancel \ cancelled
    /\ CancelFollower(c) \/ CancelOwner(c)
    /\ cancelled' = cancelled \cup {c}
    /\ UNCHANGED <<follows, cache, order, since>>

Next ==
    \E c \in Calls :
        \/ Hit(c) \/ Follow(c) \/ Start(c) \/ CannotStart(c)
        \/ Exit(c) \/ TimeOut(c) \/ Reaped(c) \/ Wake(c)
        \/ GroupEnds(c) \/ Cancel(c)

\* The loop fires timers (wait_for's, and the ten seconds of the reaping) and
\* resumes coroutines whose future is done.  Nothing is assumed of Lean.
LoopFairness ==
    \A c \in Calls : /\ WF_vars(Exit(c) \/ TimeOut(c)) /\ WF_vars(Reaped(c))
                     /\ WF_vars(Wake(c))

Spec == Init /\ [][Next]_vars /\ LoopFairness
-----------------------------------------------------------------------------
(* Properties                                                               *)

\* "siblings await the same future and never spawn duplicate Lean processes":
\* two processes are at work on one key only if a cancelled call left one behind
\* or a killed one has not gone yet.
OneProcessPerKey ==
    \A c, d \in Calls \ Direct :
        (c # d /\ KeyOf[c] = KeyOf[d] /\ process[c] = "running" /\ process[d] = "running")
            => c \in cancelled \/ d \in cancelled

\* No Lean outlives its call ("orphaned and continuing to hold ~2 GB"), but for
\* calls that were cancelled.
NoOrphans ==
    \A c \in Calls : process[c] = "running" /\ pc[c] # "verifying" => c \in cancelled

\* The table of futures holds runs in progress only, and no key is cached while
\* it is in flight: a key is never blocked by a future nobody will resolve.
InFlightIsNotCached ==
    \A k \in Keys : inflight[k] # None =>
        /\ ~Cached(k)
        /\ pc[inflight[k]] \in Working /\ KeyOf[inflight[k]] = k

\* Least recently used is what is dropped: a key is cached exactly if fewer than
\* CacheMax other keys were stored or hit after its last use.
CacheKeepsRecent ==
    \A k \in Keys : Cached(k) <=> k \notin since[k] /\ Cardinality(since[k]) < CacheMax

\* Only verdicts of a Lean that judged the code are remembered: "timeouts and
\* process crashes are transient and should be retried".
OnlyJudgedIsCached == \A k \in Keys : cache[k].kind \in {"judged", "none"}

\* Every call ends, whoever is cancelled and however long Lean takes.
EveryCallEnds == \A c \in Calls : pc[c] # "idle" ~> pc[c] = "ended"

\* Seen by its callers the verifier is the service of VerdictService: a waiting
\* caller has its answer as soon as the future it awaits is done.
Awaited(c) == pc[c] = "following" /\ future[follows[c]] # Pending
StatusOf(c) ==
    IF pc[c] = "idle" THEN "idle" ELSE IF pc[c] = "ended" THEN "returned"
    ELSE IF Awaited(c) THEN "answered" ELSE "asked"
AnswerTo(c) == IF Awaited(c) THEN future[follows[c]] ELSE result[c]

Service == INSTANCE VerdictService WITH
    Alone  <- Direct,
    status <- [c \in Calls |-> StatusOf(c)],
    answer <- [c \in Calls |-> AnswerTo(c)],
    known  <- cache,
    doomed <- {k \in Keys : inflight[k] # None /\ future[inflight[k]] = Cancelled}
ServiceSpec == Service!Spec
=============================================================================
