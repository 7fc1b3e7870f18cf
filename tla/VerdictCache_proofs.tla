------------------------- MODULE VerdictCache_proofs -------------------------
(***************************************************************************)
(* Proofs about VerdictCache, for any number of calls and keys, whichever  *)
(* calls bypass the cache and whichever are cancelled.                     *)
(***************************************************************************)
EXTENDS VerdictCache, SequenceTheorems, FiniteSetTheorems, TLAPS

\* The four kinds of value a future or a result can have are different.
LEMMA Outcomes ==
    /\ Cancelled # Pending /\ Cancelled # Nothing /\ Pending # Nothing
    /\ \A v \in Verdicts : v # Cancelled /\ v # Pending /\ v # Nothing
    /\ \A c \in Calls, kind \in Kinds : Verdict(c, kind) \in Verdicts
BY DEF Cancelled, Pending, Nothing, Verdicts, Verdict, Kinds, Lasting

\* What Store and Touch do to the order of the keys.
LEMMA StoreType ==
    ASSUME TypeOK, NEW k \in Keys, NEW v \in Verdicts, Store(k, v)
    PROVE  /\ order' \in Seq(Keys) /\ since' \in [Keys -> SUBSET Keys]
           /\ cache' \in [Keys -> Verdicts \cup {Nothing}]
           /\ cache'[k] = v /\ \A j \in Keys \ {k} : cache'[j] \in {cache[j], Nothing}
<1>1. Len(order) >= CacheMax => Tail(order) \in Seq(Keys)
  BY CacheAssumption, HeadTailProperties, EmptySeq DEF TypeOK
<1>2. order' \in Seq(Keys)
  BY <1>1, AppendProperties DEF Store, TypeOK
<1>3. since' \in [Keys -> SUBSET Keys]
  BY DEF Store, Used, TypeOK
<1>4. cache' \in [Keys -> Verdicts \cup {Nothing}]
      /\ cache'[k] = v /\ \A j \in Keys \ {k} : cache'[j] \in {cache[j], Nothing}
  BY DEF Store, TypeOK
<1> QED
  BY <1>2, <1>3, <1>4

LEMMA TouchType ==
    ASSUME TypeOK, NEW k \in Keys, Touch(k)
    PROVE  order' \in Seq(Keys) /\ since' \in [Keys -> SUBSET Keys]
<1>1. PICK i \in DOMAIN order :
         order' = Append(SubSeq(order, 1, i - 1) \o SubSeq(order, i + 1, Len(order)), k)
  BY DEF Touch
<1>2. order \in Seq(Keys) /\ i \in 1..Len(order) /\ Len(order) \in Nat
  BY LenProperties DEF TypeOK
<1>3. SubSeq(order, 1, i - 1) \in Seq(Keys) /\ SubSeq(order, i + 1, Len(order)) \in Seq(Keys)
  BY <1>2, SubSeqProperties
<1>4. order' \in Seq(Keys)
  BY <1>1, <1>3, ConcatProperties, AppendProperties
<1>5. since' \in [Keys -> SUBSET Keys]
  BY DEF Touch, Used, TypeOK
<1> QED
  BY <1>4, <1>5

\* Deliver, one variable at a time.
LEMMA Delivered ==
    ASSUME TypeOK, NEW c \in Calls, NEW kind \in Kinds, Deliver(c, kind)
    PROVE  /\ pc' = [pc EXCEPT ![c] = "ended"]
           /\ result' = [result EXCEPT ![c] = Verdict(c, kind)]
           /\ UNCHANGED <<follows, cancelled>>
           /\ c \in Direct => UNCHANGED <<future, inflight, cache, order, since>>
           /\ c \notin Direct =>
                 /\ future' = [future EXCEPT ![c] = IF @ = Pending THEN Verdict(c, kind) ELSE @]
                 /\ inflight' = [inflight EXCEPT ![KeyOf[c]] = None]
           /\ order' \in Seq(Keys) /\ since' \in [Keys -> SUBSET Keys]
           /\ cache' \in [Keys -> Verdicts \cup {Nothing}]
           /\ \A j \in Keys \ {KeyOf[c]} : cache'[j] \in {cache[j], Nothing}
<1>1. KeyOf[c] \in Keys /\ Verdict(c, kind) \in Verdicts
  BY CallsAssumption, Outcomes
<1>2. CASE c \in Direct
  BY <1>2 DEF Deliver, End, table, TypeOK
<1>3. CASE c \notin Direct /\ kind = "system_error"
  BY <1>3 DEF Deliver, End, TypeOK
<1>4. CASE c \notin Direct /\ kind # "system_error"
  BY <1>1, <1>4, StoreType DEF Deliver, End
<1> QED
  BY <1>2, <1>3, <1>4
-----------------------------------------------------------------------------
\* A future that is done or pending was made by a call that shares its run; the
\* futures that followers await exist; nothing is returned before the end.
FutureInv ==
    \A c \in Calls :
        /\ pc[c] = "idle" => future[c] = Nothing
        /\ future[c] # Nothing => c \notin Direct
        /\ future[c] = Pending => pc[c] \in Working
        /\ pc[c] \in Working /\ c \notin Direct => future[c] \in {Pending, Cancelled}
FollowInv ==
    \A c \in Calls :
        pc[c] = "following" => /\ c \notin Direct
                               /\ follows[c] \in Calls /\ KeyOf[follows[c]] = KeyOf[c]
                               /\ future[follows[c]] # Nothing
ResultInv == \A c \in Calls : pc[c] # "ended" => result[c] = Nothing
\* The table of futures names exactly the runs that are shared, and no cached key.
FlightInv ==
    /\ \A k \in Keys : inflight[k] # None =>
          /\ inflight[k] \in Calls \ Direct /\ pc[inflight[k]] \in Working
          /\ KeyOf[inflight[k]] = k /\ ~Cached(k)
    /\ \A c \in Calls \ Direct : pc[c] \in Working => inflight[KeyOf[c]] = c

CacheInv == TypeOK /\ FutureInv /\ FollowInv /\ ResultInv /\ FlightInv

LEMMA CacheInvInit == Init => CacheInv
<1> SUFFICES ASSUME Init PROVE CacheInv
  OBVIOUS
<1>1. TypeOK
  BY DEF Init, TypeOK
<1> QED
  BY <1>1, Outcomes DEF Init, CacheInv, FutureInv, FollowInv, ResultInv, FlightInv, Working

LEMMA TypeStep ==
    ASSUME CacheInv, [Next]_vars
    PROVE  TypeOK'
<1> USE DEF CacheInv, TypeOK
<1>1. ASSUME NEW c \in Calls, Hit(c) PROVE TypeOK'
  <2>1. KeyOf[c] \in Keys /\ cache[KeyOf[c]] \in Verdicts
    BY <1>1, CallsAssumption DEF Hit, Cached
  <2> QED
    BY <1>1, <2>1, TouchType DEF Hit, End
<1>2. ASSUME NEW c \in Calls, Follow(c) PROVE TypeOK'
  <2>1. /\ KeyOf[c] \in Keys /\ inflight[KeyOf[c]] \in Calls
        /\ future[inflight[KeyOf[c]]] \in Verdicts \cup {Cancelled, Pending, Nothing}
    BY <1>2, CallsAssumption DEF Follow, InTable
  <2> QED
    BY <1>2, <2>1 DEF Follow, End, table
<1>3. ASSUME NEW c \in Calls, Start(c) PROVE TypeOK'
  BY <1>3, CallsAssumption DEF Start
<1>4. ASSUME NEW c \in Calls, CannotStart(c) PROVE TypeOK'
  <2>1. Verdict(c, "system_error") \in Verdicts
    BY Outcomes DEF Kinds
  <2> QED
    BY <1>4, <2>1 DEF CannotStart, End, table
<1>5. ASSUME NEW c \in Calls, NEW kind \in Kinds, Deliver(c, kind)
      PROVE  /\ pc' \in [Calls -> {"idle", "following", "verifying", "reaping", "ended"}]
             /\ result' \in [Calls -> Verdicts \cup {Cancelled, Nothing}]
             /\ follows' \in [Calls -> Calls \cup {None}]
             /\ future' \in [Calls -> Verdicts \cup {Cancelled, Pending, Nothing}]
             /\ inflight' \in [Keys -> Calls \cup {None}]
             /\ cache' \in [Keys -> Verdicts \cup {Nothing}]
             /\ order' \in Seq(Keys)
             /\ cancelled' \subseteq MayCancel
             /\ since' \in [Keys -> SUBSET Keys]
  <2>1. KeyOf[c] \in Keys /\ Verdict(c, kind) \in Verdicts
    BY CallsAssumption, Outcomes
  <2>2. future' \in [Calls -> Verdicts \cup {Cancelled, Pending, Nothing}]
        /\ inflight' \in [Keys -> Calls \cup {None}]
    <3>1. CASE c \in Direct
      BY <1>5, <3>1, Delivered
    <3>2. CASE c \notin Direct
      BY <1>5, <2>1, <3>2, Delivered, SMTT(30)
    <3> QED
      BY <3>1, <3>2
  <2>3. result' \in [Calls -> Verdicts \cup {Cancelled, Nothing}]
    BY <1>5, <2>1, Delivered
  <2>4. cancelled' = cancelled /\ follows' = follows /\ pc' = [pc EXCEPT ![c] = "ended"]
    BY <1>5, Delivered
  <2>5. /\ order' \in Seq(Keys) /\ since' \in [Keys -> SUBSET Keys]
        /\ cache' \in [Keys -> Verdicts \cup {Nothing}]
    BY <1>5, Delivered
  <2> QED
    BY <2>2, <2>3, <2>4, <2>5
<1>6. ASSUME NEW c \in Calls, Exit(c) PROVE TypeOK'
  <2>1. PICK kind \in Kinds : Deliver(c, kind)
    BY <1>6 DEF Exit, Kinds
  <2>2. process' \in [Calls -> {"none", "running", "killed", "gone"}]
    BY <1>6 DEF Exit
  <2> QED
    BY <1>5, <2>1, <2>2
<1>7. ASSUME NEW c \in Calls, Reaped(c) PROVE TypeOK'
  BY <1>5, <1>7 DEF Reaped, Kinds
<1>8. ASSUME NEW c \in Calls, TimeOut(c) \/ GroupEnds(c) PROVE TypeOK'
  BY <1>8 DEF TimeOut, GroupEnds, table
<1>9. ASSUME NEW c \in Calls, Wake(c) PROVE TypeOK'
  BY <1>9 DEF Wake, End, FollowInv, table
<1>10. ASSUME NEW c \in Calls, Cancel(c) PROVE TypeOK'
  <2>1. CASE CancelFollower(c)
    <3>1. follows[c] \in Calls
      BY <2>1 DEF CancelFollower, FollowInv
    <3> QED
      BY <1>10, <2>1, <3>1 DEF Cancel, CancelFollower, End
  <2>2. CASE CancelOwner(c)
    BY <1>10, <2>2, CallsAssumption DEF Cancel, CancelOwner, End
  <2> QED
    BY <1>10, <2>1, <2>2 DEF Cancel
<1>11. CASE UNCHANGED vars
  BY <1>11 DEF vars, table
<1> QED
  BY <1>1, <1>2, <1>3, <1>4, <1>6, <1>7, <1>8, <1>9, <1>10, <1>11 DEF Next
-----------------------------------------------------------------------------
\* How one step of c changes the coroutines and the futures: of the others only
\* the future that c follows can change, from pending to cancelled.
LEMMA FutureStep ==
    ASSUME CacheInv, [Next]_vars
    PROVE  FutureInv' /\ FollowInv' /\ ResultInv'
<1> USE Outcomes DEF CacheInv, TypeOK, FutureInv, FollowInv, ResultInv, Working
<1>1. ASSUME NEW c \in Calls, Hit(c) \/ CannotStart(c)
      PROVE  FutureInv' /\ FollowInv' /\ ResultInv'
  BY <1>1 DEF Hit, CannotStart, MayStart, End
<1>2. ASSUME NEW c \in Calls, Follow(c) PROVE FutureInv' /\ FollowInv' /\ ResultInv'
  <2>1. /\ inflight[KeyOf[c]] \in Calls /\ KeyOf[inflight[KeyOf[c]]] = KeyOf[c]
        /\ c \notin Direct /\ pc[c] = "idle"
    BY <1>2, CallsAssumption DEF Follow, InTable, FlightInv
  <2>2. CASE future[inflight[KeyOf[c]]] = Pending
    BY <1>2, <2>1, <2>2 DEF Follow
  <2>3. CASE future[inflight[KeyOf[c]]] # Pending
    BY <1>2, <2>1, <2>3 DEF Follow, End
  <2> QED
    BY <2>2, <2>3
<1>3. ASSUME NEW c \in Calls, Start(c) PROVE FutureInv' /\ FollowInv' /\ ResultInv'
  BY <1>3 DEF Start, MayStart
<1>4. ASSUME NEW c \in Calls, NEW kind \in Kinds, Deliver(c, kind), pc[c] \in Working
      PROVE  FutureInv' /\ FollowInv' /\ ResultInv'
  <2>1. /\ pc' = [pc EXCEPT ![c] = "ended"] /\ follows' = follows
        /\ result' = [result EXCEPT ![c] = Verdict(c, kind)]
    BY <1>4, Delivered
  <2>2. CASE c \in Direct
    <3>1. future' = future
      BY <1>4, <2>2, Delivered
    <3> QED
      BY <2>1, <2>2, <3>1
  <2>3. CASE c \notin Direct
    <3>1. future' = [future EXCEPT ![c] = IF @ = Pending THEN Verdict(c, kind) ELSE @]
      BY <1>4, <2>3, Delivered
    <3> QED
      BY <2>1, <2>3, <3>1
  <2> QED
    BY <2>2, <2>3
<1>5. ASSUME NEW c \in Calls, Exit(c) \/ Reaped(c) PROVE FutureInv' /\ FollowInv' /\ ResultInv'
  BY <1>4, <1>5 DEF Exit, Reaped, Kinds
<1>6. ASSUME NEW c \in Calls, TimeOut(c) \/ GroupEnds(c)
      PROVE  FutureInv' /\ FollowInv' /\ ResultInv'
  BY <1>6 DEF TimeOut, GroupEnds
<1>7. ASSUME NEW c \in Calls, Wake(c) PROVE FutureInv' /\ FollowInv' /\ ResultInv'
  BY <1>7 DEF Wake, End
<1>8. ASSUME NEW c \in Calls, Cancel(c) PROVE FutureInv' /\ FollowInv' /\ ResultInv'
  <2>1. CASE CancelFollower(c)
    BY <1>8, <2>1 DEF Cancel, CancelFollower, End
  <2>2. CASE CancelOwner(c)
    BY <1>8, <2>2 DEF Cancel, CancelOwner, End
  <2> QED
    BY <1>8, <2>1, <2>2 DEF Cancel
<1>9. CASE UNCHANGED vars
  BY <1>9 DEF vars
<1> QED
  BY <1>1, <1>2, <1>3, <1>5, <1>6, <1>7, <1>8, <1>9 DEF Next

LEMMA FlightStep ==
    ASSUME CacheInv, [Next]_vars
    PROVE  FlightInv'
<1> USE Outcomes, CallsAssumption, NoneAssumption DEF CacheInv, TypeOK, FlightInv, Working, Cached
<1>1. ASSUME NEW c \in Calls, Hit(c) \/ CannotStart(c) PROVE FlightInv'
  BY <1>1 DEF Hit, CannotStart, MayStart, End, table
<1>2. ASSUME NEW c \in Calls, Follow(c) PROVE FlightInv'
  BY <1>2 DEF Follow, InTable, End, table
<1>3. ASSUME NEW c \in Calls, Start(c) PROVE FlightInv'
  BY <1>3 DEF Start, MayStart
<1>4. ASSUME NEW c \in Calls, NEW kind \in Kinds, Deliver(c, kind), pc[c] \in Working
      PROVE  FlightInv'
  <2>1. pc' = [pc EXCEPT ![c] = "ended"]
    BY <1>4, Delivered
  <2>2. CASE c \in Direct
    <3>1. inflight' = inflight /\ cache' = cache
      BY <1>4, <2>2, Delivered
    <3> QED
      BY <2>1, <2>2, <3>1
  <2>3. CASE c \notin Direct
    <3>1. inflight' = [inflight EXCEPT ![KeyOf[c]] = None]
      BY <1>4, <2>3, Delivered
    <3>2. \A j \in Keys \ {KeyOf[c]} : cache'[j] \in {cache[j], Nothing}
      BY <1>4, Delivered
    <3> QED
      BY <1>4, <2>1, <2>3, <3>1, <3>2
  <2> QED
    BY <2>2, <2>3
<1>5. ASSUME NEW c \in Calls, Exit(c) \/ Reaped(c) PROVE FlightInv'
  BY <1>4, <1>5 DEF Exit, Reaped, Kinds
<1>6. ASSUME NEW c \in Calls, TimeOut(c) \/ GroupEnds(c) PROVE FlightInv'
  BY <1>6 DEF TimeOut, GroupEnds, table
<1>7. ASSUME NEW c \in Calls, Wake(c) PROVE FlightInv'
  BY <1>7 DEF Wake, End, table
<1>8. ASSUME NEW c \in Calls, Cancel(c) PROVE FlightInv'
  <2>1. CASE CancelFollower(c)
    BY <1>8, <2>1 DEF Cancel, CancelFollower, End
  <2>2. CASE CancelOwner(c)
    BY <1>8, <2>2 DEF Cancel, CancelOwner, End
  <2> QED
    BY <1>8, <2>1, <2>2 DEF Cancel
<1>9. CASE UNCHANGED vars
  BY <1>9 DEF vars, table
<1> QED
  BY <1>1, <1>2, <1>3, <1>5, <1>6, <1>7, <1>8, <1>9 DEF Next

LEMMA CacheInvariant == Spec => []CacheInv
<1>1. CacheInv /\ [Next]_vars => CacheInv'
  BY TypeStep, FutureStep, FlightStep DEF CacheInv
<1> QED
  BY <1>1, CacheInvInit, PTL DEF Spec

\* The variables keep their types; in particular a follower is never handed a
\* future that is not done.
THEOREM TypeInvariant == Spec => []TypeOK
<1>1. CacheInv => TypeOK
  BY DEF CacheInv
<1> QED
  BY <1>1, CacheInvariant, PTL

\* A key in the table of futures belongs to a run in progress and is not cached.
THEOREM FlightsAreLive == Spec => []InFlightIsNotCached
<1>1. CacheInv => InFlightIsNotCached
  BY DEF CacheInv, FlightInv, InFlightIsNotCached
<1> QED
  BY <1>1, CacheInvariant, PTL
-----------------------------------------------------------------------------
\* No Lean outlives its call unless the call was cancelled: a run that times out
\* is killed before its call goes on.
THEOREM OrphansAreCancelled == Spec => []NoOrphans
<1>1. Init => NoOrphans
  BY DEF Init, NoOrphans
<1>2. CacheInv /\ NoOrphans /\ [Next]_vars => NoOrphans'
  <2> SUFFICES ASSUME CacheInv, NoOrphans, [Next]_vars PROVE NoOrphans'
    OBVIOUS
  <2> USE DEF CacheInv, TypeOK, NoOrphans
  <2>1. ASSUME NEW c \in Calls, NEW kind \in Kinds, Deliver(c, kind)
        PROVE  pc' = [pc EXCEPT ![c] = "ended"] /\ cancelled' = cancelled
    BY <2>1, Delivered
  <2>2. ASSUME NEW c \in Calls, Exit(c) PROVE NoOrphans'
    BY <2>1, <2>2 DEF Exit, Kinds
  <2>3. ASSUME NEW c \in Calls, Reaped(c) PROVE NoOrphans'
    BY <2>1, <2>3 DEF Reaped, Kinds
  <2>4. ASSUME NEW c \in Calls,
               \/ Hit(c) \/ Follow(c) \/ Start(c) \/ CannotStart(c)
               \/ TimeOut(c) \/ GroupEnds(c) \/ Wake(c)
        PROVE  NoOrphans'
    BY <2>4 DEF Hit, Follow, InTable, Start, CannotStart, MayStart, TimeOut, GroupEnds, Wake, End
  <2>5. ASSUME NEW c \in Calls, Cancel(c) PROVE NoOrphans'
    BY <2>5 DEF Cancel, CancelFollower, CancelOwner, End
  <2>6. CASE UNCHANGED vars
    BY <2>6 DEF vars
  <2> QED
    BY <2>2, <2>3, <2>4, <2>5, <2>6 DEF Next
<1> QED
  BY <1>1, <1>2, CacheInvariant, PTL DEF Spec

\* Two Leans at work on one key: one of them is what a cancelled call left.
THEOREM RunsAreShared == Spec => []OneProcessPerKey
<1>1. CacheInv /\ NoOrphans => OneProcessPerKey
  BY CallsAssumption DEF CacheInv, FlightInv, NoOrphans, OneProcessPerKey, Working
<1> QED
  BY <1>1, CacheInvariant, OrphansAreCancelled, PTL
-----------------------------------------------------------------------------
(* The refinement.                                                          *)

\* The callers of c's run whose answer is still open.
Followers(c) == {d \in Calls : pc[d] = "following" /\ follows[d] = c /\ future[c] = Pending}
Doomed == {k \in Keys : inflight[k] # None /\ future[inflight[k]] = Cancelled}

\* Status and answer of a call, place by place.
LEMMA Places ==
    ASSUME CacheInv, NEW c \in Calls
    PROVE  /\ pc[c] = "idle" => StatusOf(c) = "idle" /\ AnswerTo(c) = Nothing
           /\ pc[c] = "ended" => StatusOf(c) = "returned" /\ AnswerTo(c) = result[c]
           /\ pc[c] \in Working => StatusOf(c) = "asked" /\ AnswerTo(c) = Nothing
           /\ pc[c] = "following" =>
                 IF future[follows[c]] = Pending
                 THEN StatusOf(c) = "asked" /\ AnswerTo(c) = Nothing
                 ELSE StatusOf(c) = "answered" /\ AnswerTo(c) = future[follows[c]]
BY DEF CacheInv, ResultInv, StatusOf, AnswerTo, Awaited, Working

\* A pending future is that of the run in flight for its key.
LEMMA PendingIsInFlight ==
    ASSUME CacheInv, NEW d \in Calls, pc[d] = "following", future[follows[d]] = Pending
    PROVE  inflight[KeyOf[d]] = follows[d]
<1>1. follows[d] \in Calls /\ KeyOf[follows[d]] = KeyOf[d]
  BY DEF CacheInv, FollowInv
<1>2. follows[d] \notin Direct /\ pc[follows[d]] \in Working
  BY <1>1, Outcomes DEF CacheInv, FutureInv
<1> QED
  BY <1>1, <1>2 DEF CacheInv, FlightInv

\* Who waits for the key of a run: its caller and its followers.
LEMMA WaitingForRun ==
    ASSUME CacheInv, NEW c \in Calls \ Direct, pc[c] \in Working
    PROVE  Service!Waiting(KeyOf[c]) = {c} \cup Followers(c)
<1>1. ASSUME NEW d \in Calls \ Direct, KeyOf[d] = KeyOf[c], StatusOf(d) = "asked"
      PROVE  d = c \/ d \in Followers(c)
  <2>1. pc[d] \in Working \/ (pc[d] = "following" /\ future[follows[d]] = Pending)
    BY <1>1, Places DEF CacheInv, TypeOK, Working
  <2>2. inflight[KeyOf[c]] = c
    BY DEF CacheInv, FlightInv
  <2>3. CASE pc[d] \in Working
    BY <1>1, <2>2, <2>3 DEF CacheInv, FlightInv
  <2>4. CASE pc[d] = "following" /\ future[follows[d]] = Pending
    BY <1>1, <2>2, <2>4, PendingIsInFlight DEF Followers
  <2> QED
    BY <2>1, <2>3, <2>4
<1>2. StatusOf(c) = "asked"
  BY Places
<1>3. ASSUME NEW d \in Followers(c)
      PROVE  d \in Calls \ Direct /\ KeyOf[d] = KeyOf[c] /\ StatusOf(d) = "asked"
  BY <1>3, Places DEF Followers, CacheInv, FollowInv
<1> QED
  BY <1>1, <1>2, <1>3 DEF Service!Waiting

\* A shared run is the one in flight for its key.
LEMMA RunIsInFlight ==
    ASSUME CacheInv, NEW c \in Calls \ Direct, pc[c] \in Working
    PROVE  inflight[KeyOf[c]] = c /\ KeyOf[c] \in Keys
BY CallsAssumption DEF CacheInv, FlightInv

\* The end of a shared run, by a verdict or by cancellation: its caller and its
\* followers have the outcome, and nothing changes for the others.
LEMMA RunEnds ==
    ASSUME CacheInv, CacheInv', NEW c \in Calls \ Direct, pc[c] \in Working, NEW v,
           pc' = [pc EXCEPT ![c] = "ended"], result' = [result EXCEPT ![c] = v],
           follows' = follows, v # Pending,
           future' = [future EXCEPT ![c] = IF @ = Pending THEN v ELSE @],
           inflight' = [inflight EXCEPT ![KeyOf[c]] = None]
    PROVE  /\ \A d \in Calls :
                 /\ StatusOf(d)' = IF d = c THEN "returned"
                                   ELSE IF d \in Followers(c) THEN "answered" ELSE StatusOf(d)
                 /\ AnswerTo(d)' = IF d = c \/ d \in Followers(c) THEN v ELSE AnswerTo(d)
           /\ Doomed' = Doomed \ {KeyOf[c]}
<1> USE DEF CacheInv, TypeOK
<1>1. StatusOf(c)' = "returned" /\ AnswerTo(c)' = v
  BY DEF StatusOf, AnswerTo, Awaited
<1>2. ASSUME NEW d \in Followers(c), d # c
      PROVE  StatusOf(d)' = "answered" /\ AnswerTo(d)' = v
  BY <1>2 DEF StatusOf, AnswerTo, Awaited, Followers
<1>3. ASSUME NEW d \in Calls, d # c, d \notin Followers(c)
      PROVE  StatusOf(d)' = StatusOf(d) /\ AnswerTo(d)' = AnswerTo(d)
  <2>1. pc'[d] = pc[d] /\ result'[d] = result[d]
    BY <1>3
  <2>2. CASE pc[d] # "following"
    BY <2>1, <2>2 DEF StatusOf, AnswerTo, Awaited
  <2>3. CASE pc[d] = "following"
    <3>1. future'[follows[d]] = future[follows[d]]
      BY <1>3, <2>3 DEF Followers, FollowInv
    <3> QED
      BY <2>1, <2>3, <3>1 DEF StatusOf, AnswerTo, Awaited
  <2> QED
    BY <2>2, <2>3
<1>4. Doomed' = Doomed \ {KeyOf[c]}
  <2>1. inflight[KeyOf[c]] = c /\ KeyOf[c] \in Keys
    BY RunIsInFlight
  <2>2. ASSUME NEW k \in Keys, k # KeyOf[c]
        PROVE  k \in Doomed' <=> k \in Doomed
    <3>1. inflight'[k] = inflight[k]
      BY <2>2
    <3>2. inflight[k] # None => inflight[k] # c /\ inflight[k] \in Calls
      BY <2>2 DEF FlightInv
    <3>3. inflight[k] # None => future'[inflight[k]] = future[inflight[k]]
      BY <3>2
    <3> QED
      BY <2>2, <3>1, <3>3 DEF Doomed
  <2>3. KeyOf[c] \notin Doomed'
    BY <2>1 DEF Doomed
  <2> QED
    BY <2>2, <2>3 DEF Doomed
<1> QED
  BY <1>1, <1>2, <1>3, <1>4

\* A call that ends while no future and no key in flight changes.
LEMMA OneEnds ==
    ASSUME CacheInv, NEW c \in Calls, NEW v,
           pc' = [pc EXCEPT ![c] = "ended"], result' = [result EXCEPT ![c] = v],
           UNCHANGED <<follows, future, inflight>>
    PROVE  /\ \A d \in Calls :
                 /\ StatusOf(d)' = IF d = c THEN "returned" ELSE StatusOf(d)
                 /\ AnswerTo(d)' = IF d = c THEN v ELSE AnswerTo(d)
           /\ Doomed' = Doomed
BY DEF CacheInv, TypeOK, StatusOf, AnswerTo, Awaited, Doomed

\* Pointwise facts about a step are facts about the service's variables.
LEMMA AnswerOne ==
    ASSUME NEW c \in Calls, NEW group, NEW v,
           \A d \in Calls :
              /\ StatusOf(d)' = IF d = c THEN "returned"
                                ELSE IF d \in group THEN "answered" ELSE StatusOf(d)
              /\ AnswerTo(d)' = IF d = c \/ d \in group THEN v ELSE AnswerTo(d)
    PROVE  Service!Answer(c, group, v)
BY DEF Service!Answer

\* What the service remembers after a shared run.
LEMMA Remembered ==
    ASSUME CacheInv, NEW c \in Calls \ Direct, NEW kind \in Kinds, Deliver(c, kind)
    PROVE  Service!Remember(c, kind)
<1> USE DEF CacheInv, TypeOK
<1>1. KeyOf[c] \in Keys /\ Verdict(c, kind) \in Verdicts
  BY CallsAssumption, Outcomes
<1>2. CASE kind = "system_error"
  <2>1. cache' = cache
    BY <1>2 DEF Deliver
  <2>2. cache' = [k \in Keys |-> IF k = KeyOf[c] /\ kind \in Service!Lasting
                                 THEN Service!Verdict(c, kind)
                                 ELSE IF k \in {} THEN Service!Nothing ELSE cache[k]]
    BY <1>2, <2>1 DEF Service!Lasting
  <2>3. {} \in SUBSET (Keys \ {KeyOf[c]})
    OBVIOUS
  <2> QED
    BY <2>2, <2>3 DEF Service!Remember
<1>3. CASE kind # "system_error"
  <2>1. Store(KeyOf[c], Verdict(c, kind))
    BY <1>3 DEF Deliver
  <2> DEFINE forgotten == {k \in Keys \ {KeyOf[c]} : Len(order) >= CacheMax /\ k = Head(order)}
  <2>2. kind \in Service!Lasting
    BY <1>3 DEF Service!Lasting, Kinds, Lasting
  <2>3. cache' = [k \in Keys |-> IF k = KeyOf[c] /\ kind \in Service!Lasting
                                 THEN Service!Verdict(c, kind)
                                 ELSE IF k \in forgotten THEN Service!Nothing ELSE cache[k]]
    BY <2>1, <2>2 DEF Store, Service!Verdict, Verdict, Service!Nothing, Nothing
  <2>4. forgotten \in SUBSET (Keys \ {KeyOf[c]})
    OBVIOUS
  <2> QED
    BY <2>3, <2>4 DEF Service!Remember
<1> QED
  BY <1>2, <1>3

LEMMA ArrivalStep ==
    ASSUME CacheInv, CacheInv', NEW c \in Calls,
           Hit(c) \/ Follow(c) \/ Start(c) \/ CannotStart(c)
    PROVE  Service!Ask(c) \/ Service!Recall(c) \/ Service!CalledOff(c) \/ Service!Fail(c)
<1>1. pc[c] = "idle" /\ StatusOf(c) = "idle" /\ KeyOf[c] \in Keys
  BY Places, CallsAssumption DEF Hit, Follow, InTable, Start, CannotStart, MayStart
<1>2. CASE Hit(c)
  <2>1. Service!Answer(c, {}, cache[KeyOf[c]])
    BY <1>2, OneEnds, AnswerOne DEF Hit, End
  <2>2. cache' = cache /\ Doomed' = Doomed /\ c \notin Direct /\ cache[KeyOf[c]] # Service!Nothing
    BY <1>2, OneEnds DEF Hit, End, Cached, Nothing, Service!Nothing
  <2> QED
    BY <1>1, <2>1, <2>2 DEF Service!Recall, Doomed
<1>3. CASE CannotStart(c)
  <2>1. Service!Answer(c, {}, Verdict(c, "system_error"))
    BY <1>3, OneEnds, AnswerOne DEF CannotStart, End, table
  <2>2. cache' = cache /\ Doomed' = Doomed
    BY <1>3, OneEnds DEF CannotStart, End, table
  <2> QED
    BY <1>1, <2>1, <2>2 DEF Service!Fail, Verdict, Service!Verdict, Doomed
<1>4. CASE Follow(c)
  <2> DEFINE owner == inflight[KeyOf[c]]
  <2>1. /\ owner \in Calls \ Direct /\ KeyOf[c] \in Keys /\ owner # None
        /\ c \notin Direct /\ cache[KeyOf[c]] = Nothing
        /\ future[owner] \in {Pending, Cancelled}
    BY <1>4, CallsAssumption DEF Follow, InTable, Cached, CacheInv, FlightInv, FutureInv
  <2>2. UNCHANGED <<future, inflight, cache>>
    BY <1>4 DEF Follow, table
  <2>3. Doomed' = Doomed
    BY <2>2 DEF Doomed
  <2>4. CASE future[owner] = Pending
    <3>1. pc' = [pc EXCEPT ![c] = "following"] /\ follows' = [follows EXCEPT ![c] = owner]
          /\ result' = result
      BY <1>4, <2>4 DEF Follow
    <3>2. ASSUME NEW d \in Calls
          PROVE  /\ StatusOf(d)' = IF d = c THEN "asked" ELSE StatusOf(d)
                 /\ AnswerTo(d)' = AnswerTo(d)
      BY <1>1, <2>2, <2>4, <3>1 DEF StatusOf, AnswerTo, Awaited, CacheInv, TypeOK
    <3>3. KeyOf[c] \notin Doomed
      BY <2>4, Outcomes DEF Doomed
    <3> QED
      BY <1>1, <2>1, <2>2, <2>3, <3>2, <3>3 DEF Service!Ask, Doomed, Nothing, Service!Nothing
  <2>5. CASE future[owner] # Pending
    <3>1. future[owner] = Cancelled /\ KeyOf[c] \in Doomed
      BY <2>1, <2>5 DEF Doomed
    <3>2. End(c, Cancelled) /\ follows' = follows
      BY <1>4, <2>5, <3>1 DEF Follow
    <3>3. Service!Answer(c, {}, Cancelled)
      BY <2>2, <3>2, OneEnds, AnswerOne DEF End
    <3> QED
      BY <1>1, <2>1, <2>2, <2>3, <3>1, <3>3
         DEF Service!CalledOff, Doomed, Cancelled, Service!Cancelled
  <2> QED
    BY <2>4, <2>5
<1>5. CASE Start(c)
  <2>1. ASSUME NEW d \in Calls, pc[d] = "following" PROVE follows[d] # c
    BY <1>1, <2>1 DEF CacheInv, FollowInv, FutureInv
  <2>2. /\ pc' = [pc EXCEPT ![c] = "verifying"] /\ UNCHANGED <<follows, result, cache>>
        /\ \A d \in Calls \ {c} : future'[d] = future[d]
    BY <1>5 DEF Start, CacheInv, TypeOK
  <2>3. ASSUME NEW d \in Calls
        PROVE  /\ StatusOf(d)' = IF d = c THEN "asked" ELSE StatusOf(d)
               /\ AnswerTo(d)' = AnswerTo(d)
    <3>1. CASE d = c
      BY <1>1, <2>2, <3>1 DEF StatusOf, AnswerTo, Awaited, CacheInv, TypeOK
    <3>2. CASE d # c
      <4>1. pc[d] = "following" => future'[follows[d]] = future[follows[d]]
        BY <2>1, <2>2 DEF CacheInv, FollowInv
      <4> QED
        BY <2>2, <3>2, <4>1 DEF StatusOf, AnswerTo, Awaited, CacheInv, TypeOK
    <3> QED
      BY <3>1, <3>2
  <2>4. c \in Direct \/ (cache[KeyOf[c]] = Nothing /\ inflight[KeyOf[c]] = None)
    BY <1>5 DEF Start, MayStart, Cached
  <2>5. Doomed' = Doomed
    <3>1. CASE c \in Direct
      BY <1>5, <3>1 DEF Start, Doomed
    <3>2. CASE c \notin Direct
      <4>1. /\ inflight' = [inflight EXCEPT ![KeyOf[c]] = c]
            /\ future' = [future EXCEPT ![c] = Pending]
        BY <1>5, <3>2 DEF Start
      <4>2. KeyOf[c] \notin Doomed /\ KeyOf[c] \notin Doomed'
        BY <1>1, <2>4, <3>2, <4>1, Outcomes DEF Doomed, CacheInv, TypeOK
      <4>3. ASSUME NEW k \in Keys, k # KeyOf[c] PROVE k \in Doomed' <=> k \in Doomed
        <5>1. inflight'[k] = inflight[k]
          BY <4>1, <4>3 DEF CacheInv, TypeOK
        <5>2. inflight[k] # None => inflight[k] \in Calls \ {c}
          BY <1>1 DEF CacheInv, FlightInv, Working
        <5> QED
          BY <2>2, <4>3, <5>1, <5>2 DEF Doomed
      <4> QED
        BY <4>2, <4>3 DEF Doomed
    <3> QED
      BY <3>1, <3>2
  <2>6. c \in Direct \/ (cache[KeyOf[c]] = Nothing /\ KeyOf[c] \notin Doomed)
    BY <2>4 DEF Doomed
  <2> QED
    BY <1>1, <2>2, <2>3, <2>5, <2>6 DEF Service!Ask, Doomed, Nothing, Service!Nothing
<1> QED
  BY <1>2, <1>3, <1>4, <1>5

LEMMA RunStep ==
    ASSUME CacheInv, CacheInv', NEW c \in Calls, NEW kind \in Kinds,
           Deliver(c, kind), pc[c] \in Working
    PROVE  Service!Land(c, kind)
<1>1. StatusOf(c) = "asked"
  BY Places
<1>2. /\ pc' = [pc EXCEPT ![c] = "ended"] /\ follows' = follows
      /\ result' = [result EXCEPT ![c] = Verdict(c, kind)]
  BY Delivered DEF CacheInv
<1>3. CASE c \in Direct
  <2>1. UNCHANGED <<future, inflight, cache>>
    BY <1>3, Delivered DEF CacheInv
  <2>2. Service!Answer(c, {}, Verdict(c, kind)) /\ Doomed' = Doomed
    BY <1>2, <2>1, OneEnds, AnswerOne
  <2> QED
    BY <1>1, <1>3, <2>1, <2>2 DEF Service!Land, Verdict, Service!Verdict, Doomed
<1>4. CASE c \notin Direct
  <2>1. /\ future' = [future EXCEPT ![c] = IF @ = Pending THEN Verdict(c, kind) ELSE @]
        /\ inflight' = [inflight EXCEPT ![KeyOf[c]] = None]
    BY <1>4, Delivered DEF CacheInv
  <2>2. Verdict(c, kind) # Pending
    BY Outcomes
  <2>3. /\ \A d \in Calls :
              /\ StatusOf(d)' = IF d = c THEN "returned"
                                ELSE IF d \in Followers(c) THEN "answered" ELSE StatusOf(d)
              /\ AnswerTo(d)' = IF d = c \/ d \in Followers(c) THEN Verdict(c, kind)
                                ELSE AnswerTo(d)
        /\ Doomed' = Doomed \ {KeyOf[c]}
    BY <1>2, <1>4, <2>1, <2>2, RunEnds
  <2>4. \A d \in Calls :
              /\ StatusOf(d)' = IF d = c THEN "returned"
                                ELSE IF d \in Service!Waiting(KeyOf[c]) THEN "answered"
                                ELSE StatusOf(d)
              /\ AnswerTo(d)' = IF d = c \/ d \in Service!Waiting(KeyOf[c])
                                THEN Verdict(c, kind) ELSE AnswerTo(d)
    BY <1>4, <2>3, WaitingForRun
  <2>5. Service!Answer(c, Service!Waiting(KeyOf[c]), Verdict(c, kind))
    BY <2>4, AnswerOne
  <2>6. Service!Remember(c, kind)
    BY <1>4, Remembered
  <2> QED
    BY <1>1, <1>4, <2>3, <2>5, <2>6 DEF Service!Land, Verdict, Service!Verdict, Doomed
<1> QED
  BY <1>3, <1>4

LEMMA CancelStep ==
    ASSUME CacheInv, CacheInv', NEW c \in Calls, Cancel(c)
    PROVE  Service!Abort(c) \/ Service!Leave(c) \/ Service!GiveUp(c)
<1>1. UNCHANGED <<follows, cache>>
  BY DEF Cancel
<1>2. CASE CancelOwner(c)
  <2>1. /\ pc' = [pc EXCEPT ![c] = "ended"] /\ result' = [result EXCEPT ![c] = Cancelled]
        /\ pc[c] \in Working
    BY <1>2 DEF CancelOwner, End
  <2>2. StatusOf(c) = "asked"
    BY <2>1, Places
  <2>3. CASE c \in Direct
    <3>1. UNCHANGED <<future, inflight>>
      BY <1>2, <2>3 DEF CancelOwner
    <3>2. Service!Answer(c, {}, Cancelled) /\ Doomed' = Doomed
      BY <1>1, <2>1, <3>1, OneEnds, AnswerOne
    <3> QED
      BY <1>1, <2>2, <2>3, <3>2 DEF Service!Abort, Cancelled, Service!Cancelled, Doomed
  <2>4. CASE c \notin Direct
    <3>1. /\ future' = [future EXCEPT ![c] = IF @ = Pending THEN Cancelled ELSE @]
          /\ inflight' = [inflight EXCEPT ![KeyOf[c]] = None]
      BY <1>2, <2>4 DEF CancelOwner
    <3>2. /\ \A d \in Calls :
                /\ StatusOf(d)' = IF d = c THEN "returned"
                                  ELSE IF d \in Followers(c) THEN "answered" ELSE StatusOf(d)
                /\ AnswerTo(d)' = IF d = c \/ d \in Followers(c) THEN Cancelled
                                  ELSE AnswerTo(d)
          /\ Doomed' = Doomed \ {KeyOf[c]}
      BY <1>1, <2>1, <2>4, <3>1, Outcomes, RunEnds
    <3>3. \A d \in Calls :
                /\ StatusOf(d)' = IF d = c THEN "returned"
                                  ELSE IF d \in Service!Waiting(KeyOf[c]) THEN "answered"
                                  ELSE StatusOf(d)
                /\ AnswerTo(d)' = IF d = c \/ d \in Service!Waiting(KeyOf[c]) THEN Cancelled
                                  ELSE AnswerTo(d)
      BY <2>1, <2>4, <3>2, WaitingForRun
    <3>4. Service!Answer(c, Service!Waiting(KeyOf[c]), Cancelled)
      BY <3>3, AnswerOne
    <3> QED
      BY <1>1, <2>2, <2>4, <3>2, <3>4 DEF Service!Abort, Cancelled, Service!Cancelled, Doomed
  <2> QED
    BY <2>3, <2>4
<1>3. CASE CancelFollower(c) /\ future[follows[c]] # Pending
  <2>1. /\ pc' = [pc EXCEPT ![c] = "ended"] /\ result' = [result EXCEPT ![c] = Cancelled]
        /\ UNCHANGED <<future, inflight>>
    BY <1>3 DEF CancelFollower, End
  <2>2. StatusOf(c) = "answered"
    BY <1>3, Places DEF CancelFollower
  <2>3. Service!Answer(c, {}, Cancelled) /\ Doomed' = Doomed
    BY <1>1, <2>1, OneEnds, AnswerOne
  <2> QED
    BY <1>1, <2>2, <2>3 DEF Service!GiveUp, Cancelled, Service!Cancelled, Doomed
<1>4. CASE CancelFollower(c) /\ future[follows[c]] = Pending
  <2>1. /\ pc[c] = "following" /\ UNCHANGED <<pc, result, inflight>>
        /\ future' = [future EXCEPT ![follows[c]] = Cancelled]
    BY <1>4 DEF CancelFollower
  <2>2. PICK runner \in Calls \ Direct :
           /\ runner = follows[c] /\ KeyOf[runner] = KeyOf[c] /\ pc[runner] \in Working
           /\ c \notin Direct /\ runner # c
    BY <1>4, <2>1, Outcomes DEF CacheInv, FollowInv, FutureInv, Working
  <2>3. Service!Waiting(KeyOf[c]) = {runner} \cup Followers(runner)
    BY <2>2, WaitingForRun
  <2> DEFINE group == Service!Waiting(KeyOf[c]) \ {runner}
  <2>4. group = Followers(runner)
    BY <2>2, <2>3 DEF Followers, Working
  <2>5. c \in Followers(runner) /\ StatusOf(c) = "asked"
    BY <1>4, <2>1, <2>2, Places DEF Followers
  <2>6. ASSUME NEW d \in Calls
        PROVE  /\ StatusOf(d)' = IF d \in Followers(runner) THEN "answered" ELSE StatusOf(d)
               /\ AnswerTo(d)' = IF d \in Followers(runner) THEN Cancelled ELSE AnswerTo(d)
    <3>1. CASE d \in Followers(runner)
      BY <1>1, <2>1, <2>2, <3>1, Outcomes
         DEF Followers, StatusOf, AnswerTo, Awaited, CacheInv, TypeOK
    <3>2. CASE d \notin Followers(runner)
      <4>1. pc[d] = "following" => follows[d] # runner
        BY <1>4, <2>2, <3>2 DEF Followers
      <4>2. pc[d] = "following" => future'[follows[d]] = future[follows[d]]
        BY <2>1, <2>2, <4>1 DEF CacheInv, FollowInv, TypeOK
      <4> QED
        BY <1>1, <2>1, <3>2, <4>2 DEF StatusOf, AnswerTo, Awaited
    <3> QED
      BY <3>1, <3>2
  <2>7. Doomed' = Doomed \cup {KeyOf[c]}
    <3>1. inflight[KeyOf[c]] = runner /\ KeyOf[c] \in Keys /\ runner # None
      BY <2>2, RunIsInFlight, NoneAssumption
    <3>2. KeyOf[c] \in Doomed'
      BY <2>1, <2>2, <3>1 DEF Doomed, CacheInv, TypeOK
    <3>3. ASSUME NEW k \in Keys, k # KeyOf[c] PROVE k \in Doomed' <=> k \in Doomed
      <4>1. inflight[k] # None => inflight[k] \in Calls \ {runner}
        BY <2>2, <3>3 DEF CacheInv, FlightInv
      <4> QED
        BY <2>1, <2>2, <3>3, <4>1 DEF Doomed, CacheInv, TypeOK
    <3> QED
      BY <3>1, <3>2, <3>3 DEF Doomed
  <2>8. runner \in Service!Waiting(KeyOf[c]) \ {c}
    BY <2>2, <2>3
  <2>9. \A d \in Calls :
           /\ StatusOf(d)' = IF d \in group THEN "answered" ELSE StatusOf(d)
           /\ AnswerTo(d)' = IF d \in group THEN Cancelled ELSE AnswerTo(d)
    BY <2>4, <2>6
  <2> HIDE DEF group
  <2>10. /\ [d \in Calls |-> StatusOf(d)]' =
               [d \in Calls |-> IF d \in group THEN "answered" ELSE [e \in Calls |-> StatusOf(e)][d]]
         /\ [d \in Calls |-> AnswerTo(d)]' =
               [d \in Calls |-> IF d \in group THEN Service!Cancelled
                                ELSE [e \in Calls |-> AnswerTo(e)][d]]
    BY <2>9 DEF Cancelled, Service!Cancelled
  <2> QED
    BY <1>1, <2>2, <2>5, <2>7, <2>8, <2>10 DEF Service!Leave, Doomed, group
<1> QED
  BY <1>2, <1>3, <1>4 DEF Cancel, CancelFollower

\* Every step is one of the service, or changes nothing its callers see.
LEMMA ServiceStep ==
    ASSUME CacheInv, CacheInv', [Next]_vars
    PROVE  Service!Next \/ UNCHANGED Service!svars
<1>1. ASSUME NEW c \in Calls, Hit(c) \/ Follow(c) \/ Start(c) \/ CannotStart(c)
      PROVE  Service!Next
  BY <1>1, ArrivalStep DEF Service!Next
<1>2. ASSUME NEW c \in Calls, Exit(c) \/ Reaped(c) PROVE Service!Next
  <2>1. PICK kind \in Kinds : Deliver(c, kind) /\ pc[c] \in Working
    BY <1>2 DEF Exit, Reaped, Kinds, Working
  <2>2. kind \in Service!Kinds
    BY DEF Kinds, Service!Kinds, Lasting, Service!Lasting
  <2> QED
    BY <2>1, <2>2, RunStep DEF Service!Next
<1>3. ASSUME NEW c \in Calls, Wake(c) PROVE Service!Return(c)
  <2>1. /\ pc' = [pc EXCEPT ![c] = "ended"] /\ UNCHANGED <<follows, future, inflight, cache>>
        /\ result' = [result EXCEPT ![c] = future[follows[c]]]
    BY <1>3 DEF Wake, End, table
  <2>2. StatusOf(c) = "answered" /\ AnswerTo(c) = future[follows[c]]
    BY <1>3, Places DEF Wake
  <2>3. /\ \A d \in Calls :
              /\ StatusOf(d)' = IF d = c THEN "returned" ELSE StatusOf(d)
              /\ AnswerTo(d)' = AnswerTo(d)
        /\ Doomed' = Doomed
    BY <2>1, <2>2, OneEnds
  <2> QED
    BY <2>1, <2>2, <2>3 DEF Service!Return, Doomed
<1>4. ASSUME NEW c \in Calls, Cancel(c) PROVE Service!Next
  BY <1>4, CancelStep DEF Service!Next
<1>5. ASSUME NEW c \in Calls, TimeOut(c) PROVE UNCHANGED Service!svars
  <2>1. \A d \in Calls : StatusOf(d)' = StatusOf(d) /\ AnswerTo(d)' = AnswerTo(d)
    BY <1>5 DEF TimeOut, StatusOf, AnswerTo, Awaited, CacheInv, TypeOK
  <2> QED
    BY <1>5, <2>1 DEF TimeOut, Service!svars, table
<1>6. ASSUME UNCHANGED <<pc, result, follows, future, inflight, cache>>
      PROVE  UNCHANGED Service!svars
  BY <1>6 DEF Service!svars, StatusOf, AnswerTo, Awaited
<1>7. ASSUME NEW c \in Calls, GroupEnds(c) PROVE UNCHANGED Service!svars
  BY <1>6, <1>7 DEF GroupEnds, table
<1>8. CASE UNCHANGED vars
  BY <1>6, <1>8 DEF vars, table
<1> QED
  BY <1>1, <1>2, <1>3, <1>4, <1>5, <1>7, <1>8 DEF Next, Service!Next

\* verify_lean_proof implements the service (its safety part): the end of a run
\* answers all who wait for its key, with the verdict of that run.
THEOREM ImplementsService == Spec => ServiceSpec
<1>1. Init => Service!Init
  BY DEF Init, Service!Init, StatusOf, AnswerTo, Awaited, Nothing, Service!Nothing
<1>2. CacheInv /\ CacheInv' /\ [Next]_vars => [Service!Next]_(Service!svars)
  BY ServiceStep
<1> QED
  BY <1>1, <1>2, CacheInvariant, PTL DEF Spec, ServiceSpec, Service!Spec
-----------------------------------------------------------------------------
(* The order of eviction.                                                   *)

\* The keys behind position i.
After(s, i) == {s[j] : j \in i + 1..Len(s)}

\* The order lists the cached keys once each, and the keys used after a cached
\* one are those behind it; a key that was dropped has seen CacheMax others.
LruInv ==
    /\ Len(order) <= CacheMax
    /\ \A i, j \in DOMAIN order : order[i] = order[j] => i = j
    /\ \A k \in Keys : Cached(k) <=> \E i \in DOMAIN order : order[i] = k
    /\ \A i \in DOMAIN order : since[order[i]] = After(order, i)
    /\ \A k \in Keys : ~Cached(k) => k \in since[k] \/ CacheMax <= Cardinality(since[k])

LEMMA AfterCardinality ==
    ASSUME NEW s \in Seq(Keys), \A i, j \in DOMAIN s : s[i] = s[j] => i = j,
           NEW i \in 0..Len(s)
    PROVE  IsFiniteSet(After(s, i)) /\ Cardinality(After(s, i)) = Len(s) - i
<1> DEFINE f == [j \in i + 1..Len(s) |-> s[j]]
<1>1. Len(s) \in Nat /\ DOMAIN s = 1..Len(s)
  BY LenProperties
<1>2. f \in Bijection(i + 1..Len(s), After(s, i))
  <2>1. f \in [i + 1..Len(s) -> After(s, i)]
    BY DEF After
  <2>2. \A j, k \in i + 1..Len(s) : f[j] = f[k] => j = k
    BY <1>1
  <2>3. \A x \in After(s, i) : \E j \in i + 1..Len(s) : f[j] = x
    BY DEF After
  <2> QED
    BY <2>1, <2>2, <2>3 DEF Bijection, Injection, Surjection, IsInjective
<1>3. IsFiniteSet(i + 1..Len(s)) /\ Cardinality(i + 1..Len(s)) = Len(s) - i
  <2>1. i + 1 \in Int /\ Len(s) \in Int
    BY <1>1
  <2>2. /\ IsFiniteSet(i + 1..Len(s))
        /\ Cardinality(i + 1..Len(s)) = IF i + 1 > Len(s) THEN 0 ELSE Len(s) - (i + 1) + 1
    BY <2>1, FS_Interval
  <2> QED
    BY <1>1, <2>2
<1> QED
  BY <1>2, <1>3, FS_Bijection DEF ExistsBijection

LEMMA SinceGrows ==
    ASSUME TypeOK, NEW k \in Keys, Used(k), NEW j \in Keys, j # k
    PROVE  /\ since'[j] = since[j] \cup {k}
           /\ Cardinality(since[j]) <= Cardinality(since'[j])
           /\ Cardinality(since[j]) \in Nat /\ Cardinality(since'[j]) \in Nat
<1>1. since'[j] = since[j] \cup {k}
  BY DEF Used
<1>2. since[j] \subseteq Keys /\ since'[j] \subseteq Keys
  BY <1>1 DEF TypeOK
<1>3. IsFiniteSet(since[j]) /\ IsFiniteSet(since'[j])
  BY <1>2, KeysAssumption, FS_Subset
<1> QED
  BY <1>1, <1>3, FS_Subset, FS_CardinalityType

\* Moving the entry at i to the end, entry by entry.
Moved(s, i) == Append(SubSeq(s, 1, i - 1) \o SubSeq(s, i + 1, Len(s)), s[i])

LEMMA MovedToEnd ==
    ASSUME NEW s \in Seq(Keys), NEW i \in 1..Len(s)
    PROVE  /\ Len(Moved(s, i)) = Len(s) /\ DOMAIN Moved(s, i) = 1..Len(s)
           /\ \A j \in 1..i - 1 : Moved(s, i)[j] = s[j]
           /\ \A j \in i + 1..Len(s) : Moved(s, i)[j - 1] = s[j]
           /\ Moved(s, i)[Len(s)] = s[i]
<1> DEFINE t == Moved(s, i)
           n == Len(s)
           a == SubSeq(s, 1, i - 1)
           b == SubSeq(s, i + 1, n)
<1>1. n \in Nat /\ DOMAIN s = 1..n /\ \A j \in 1..n : s[j] \in Keys
  BY LenProperties, ElementOfSeq
<1>2. a \in Seq(Keys) /\ Len(a) = i - 1 /\ \A j \in 1..i - 1 : a[j] = s[j]
  <2>1. \A j \in 1..i - 1 : s[j] \in Keys
    BY <1>1
  <2> QED
    BY <1>1, <2>1, SubSeqProperties
<1>3. b \in Seq(Keys) /\ Len(b) = n - i /\ \A j \in 1..n - i : b[j] = s[j + i]
  <2>1. i + 1 \in Int /\ n \in Int /\ \A j \in i + 1..n : s[j] \in Keys
    BY <1>1
  <2>2. /\ b \in Seq(Keys)
        /\ Len(b) = IF i + 1 <= n THEN n - (i + 1) + 1 ELSE 0
        /\ \A j \in 1..n - (i + 1) + 1 : b[j] = s[(i + 1) + j - 1]
    BY <2>1, SubSeqProperties
  <2> HIDE DEF b, n
  <2>3. n - (i + 1) + 1 = n - i /\ \A j \in 1..n - i : (i + 1) + j - 1 = j + i
    BY <1>1
  <2>4. Len(b) = n - i
    BY <1>1, <2>2
  <2> QED
    BY <2>2, <2>3, <2>4
<1> HIDE DEF a, b
<1>4. /\ a \o b \in Seq(Keys) /\ Len(a \o b) = n - 1
      /\ \A j \in 1..n - 1 : (a \o b)[j] = IF j <= i - 1 THEN a[j] ELSE b[j - (i - 1)]
  <2>1. Len(a) + Len(b) = n - 1
    BY <1>1, <1>2, <1>3
  <2>2. /\ a \o b \in Seq(Keys) /\ Len(a \o b) = Len(a) + Len(b)
        /\ \A j \in 1..Len(a) + Len(b) :
              (a \o b)[j] = IF j <= Len(a) THEN a[j] ELSE b[j - Len(a)]
    BY <1>2, <1>3, ConcatProperties
  <2> QED
    BY <1>2, <2>1, <2>2
<1> DEFINE ab == a \o b
<1>5. t = Append(ab, s[i])
  BY DEF a, b, Moved
<1> HIDE DEF ab, t
<1>6. ab \in Seq(Keys) /\ Len(ab) = n - 1 /\ s[i] \in Keys
  BY <1>1, <1>4 DEF ab
<1>7. t \in Seq(Keys) /\ Len(t) = n /\ t[n] = s[i] /\ \A j \in 1..n - 1 : t[j] = ab[j]
  <2>1. /\ t \in Seq(Keys) /\ Len(t) = Len(ab) + 1
        /\ \A j \in 1..Len(ab) : t[j] = ab[j]
        /\ t[Len(ab) + 1] = s[i]
    <3> HIDE DEF n
    <3>1. /\ Append(ab, s[i]) \in Seq(Keys) /\ Len(Append(ab, s[i])) = Len(ab) + 1
          /\ \A j \in 1..Len(ab) : Append(ab, s[i])[j] = ab[j]
          /\ Append(ab, s[i])[Len(ab) + 1] = s[i]
      BY <1>6, AppendProperties
    <3> QED
      BY <1>5, <3>1
  <2>2. (n - 1) + 1 = n
    BY <1>1
  <2> QED
    BY <1>6, <2>1, <2>2
<1>8. DOMAIN t = 1..n
  BY <1>7, LenProperties
<1>9. ASSUME NEW j \in 1..i - 1 PROVE t[j] = s[j]
  <2>1. j \in 1..n - 1 /\ j <= i - 1
    BY <1>1
  <2>2. ab[j] = a[j]
    BY <1>4, <2>1 DEF ab
  <2> QED
    BY <1>2, <1>7, <2>1, <2>2
<1>10. ASSUME NEW j \in i + 1..n PROVE t[j - 1] = s[j]
  <2>1. j - 1 \in 1..n - 1 /\ ~(j - 1 <= i - 1) /\ (j - 1) - (i - 1) = j - i /\ j - i \in 1..n - i
    BY <1>1
  <2>2. ab[j - 1] = b[j - i]
    BY <1>4, <2>1 DEF ab
  <2>3. b[j - i] = s[j - i + i] /\ j - i + i = j
    BY <1>1, <1>3, <2>1
  <2> QED
    BY <1>7, <2>1, <2>2, <2>3
<1> QED
  BY <1>7, <1>8, <1>9, <1>10 DEF t

LEMMA TouchKeepsLru ==
    ASSUME TypeOK, LruInv, NEW k \in Keys, Touch(k), cache' = cache
    PROVE  LruInv'
<1> DEFINE n == Len(order)
<1>1. PICK i \in DOMAIN order :
         /\ order[i] = k
         /\ order' = Append(SubSeq(order, 1, i - 1) \o SubSeq(order, i + 1, n), k)
  BY DEF Touch
<1>2. order \in Seq(Keys) /\ i \in 1..n /\ n \in Nat /\ DOMAIN order = 1..n
  BY LenProperties DEF TypeOK
<1>3. /\ Len(order') = n /\ DOMAIN order' = 1..n
      /\ \A j \in 1..i - 1 : order'[j] = order[j]
      /\ \A j \in i + 1..n : order'[j - 1] = order[j]
      /\ order'[n] = k
  <2>1. order' = Append(SubSeq(order, 1, i - 1) \o SubSeq(order, i + 1, Len(order)), order[i])
    BY <1>1
  <2>2. i \in 1..Len(order) /\ order \in Seq(Keys)
    BY <1>2
  <2>3. order' = Moved(order, i)
    BY <2>1 DEF Moved
  <2> HIDE DEF n
  <2>4. /\ Len(Moved(order, i)) = Len(order) /\ DOMAIN Moved(order, i) = 1..Len(order)
        /\ \A j \in 1..i - 1 : Moved(order, i)[j] = order[j]
        /\ \A j \in i + 1..Len(order) : Moved(order, i)[j - 1] = order[j]
        /\ Moved(order, i)[Len(order)] = order[i]
    BY <2>2, MovedToEnd
  <2> QED
    BY <1>1, <2>3, <2>4 DEF n
<1> HIDE DEF n
\* Where an entry moves to.
<1> DEFINE to == [j \in 1..n |-> IF j < i THEN j ELSE IF j = i THEN n ELSE j - 1]
<1>4. \A j \in 1..n : to[j] \in 1..n /\ order'[to[j]] = order[j]
  <2> SUFFICES ASSUME NEW j \in 1..n PROVE to[j] \in 1..n /\ order'[to[j]] = order[j]
    OBVIOUS
  <2>1. CASE j < i
    BY <1>2, <1>3, <2>1
  <2>2. CASE j = i
    BY <1>1, <1>2, <1>3, <2>2
  <2>3. CASE j > i
    BY <1>2, <1>3, <2>3
  <2> QED
    BY <1>2, <2>1, <2>2, <2>3
<1>5. \A m \in 1..n : \E j \in 1..n : to[j] = m
  <2> SUFFICES ASSUME NEW m \in 1..n PROVE \E j \in 1..n : to[j] = m
    OBVIOUS
  <2>1. CASE m < i
    BY <1>2, <2>1
  <2>2. CASE m >= i /\ m < n
    <3>1. m + 1 \in 1..n /\ ~(m + 1 < i) /\ m + 1 # i /\ (m + 1) - 1 = m
      BY <1>2, <2>2
    <3>2. to[m + 1] = m
      BY <3>1
    <3> HIDE DEF to
    <3> QED
      BY <3>1, <3>2
  <2>3. CASE m = n
    <3>1. to[i] = m
      BY <1>2, <2>3
    <3> HIDE DEF to
    <3> QED
      BY <1>2, <3>1
  <2> QED
    <3>1. m < i \/ (m >= i /\ m < n) \/ m = n
      BY <1>2
    <3> HIDE DEF to
    <3> QED
      BY <3>1, <2>1, <2>2, <2>3
\* Behind what was behind j are the same entries, and i.
<1>6. \A j, x \in 1..n : j # i /\ x # i => (x > j <=> to[x] > to[j])
  BY <1>2
<1>7. to[i] = n /\ \A j \in 1..n : j # i => to[j] < n
  BY <1>2
<1> HIDE DEF to
<1>8. \A j, m \in 1..n : order[j] = order[m] => j = m
  BY <1>2 DEF LruInv
<1>9. \A x, y \in 1..n : order'[x] = order'[y] => x = y
  <2> SUFFICES ASSUME NEW x \in 1..n, NEW y \in 1..n, order'[x] = order'[y] PROVE x = y
    OBVIOUS
  <2>1. PICK j \in 1..n : to[j] = x
    BY <1>5
  <2>2. PICK m \in 1..n : to[m] = y
    BY <1>5
  <2>3. j = m
    BY <1>4, <1>8, <2>1, <2>2
  <2> QED
    BY <2>1, <2>2, <2>3
<1>10. since' = [j \in Keys |-> IF j = k THEN {} ELSE since[j] \cup {k}]
  BY DEF Touch, Used
<1>11. ASSUME NEW m \in 1..n PROVE since'[order'[m]] = After(order', m)
  <2>1. PICK j \in 1..n : to[j] = m
    BY <1>5
  <2>2. order'[m] = order[j] /\ order[j] \in Keys /\ (order[j] = k <=> j = i)
    <3>1. order'[m] = order[j]
      BY <1>4, <2>1
    <3>2. order[j] \in Keys
      BY <1>2, ElementOfSeq
    <3> QED
      BY <1>1, <1>2, <1>8, <3>1, <3>2
  <2>3. CASE j = i
    <3>1. m = n
      BY <1>7, <2>1, <2>3
    <3>2. After(order', m) = {}
      BY <1>2, <1>3, <3>1 DEF After
    <3> QED
      BY <1>10, <2>2, <2>3, <3>2
  <2>4. CASE j # i
    <3>1. since'[order'[m]] = After(order, j) \cup {k}
      BY <1>2, <1>10, <2>2, <2>4 DEF LruInv
    <3>2. m < n /\ k \in After(order', m)
      <4>1. m < n
        BY <1>7, <2>1, <2>4
      <4>2. n \in m + 1..n
        BY <1>2, <4>1
      <4> QED
        BY <1>3, <4>1, <4>2 DEF After
    <3>3. ASSUME NEW x \in j + 1..n PROVE order[x] \in After(order', m)
      <4>1. CASE x = i
        BY <1>1, <3>2, <4>1
      <4>2. CASE x # i
        <5>1. x \in 1..n /\ x > j
          BY <1>2
        <5>2. to[x] \in 1..n /\ to[x] > m
          BY <1>4, <1>6, <2>1, <2>4, <4>2, <5>1
        <5>3. to[x] \in m + 1..n
          BY <1>2, <5>2
        <5> QED
          BY <1>3, <1>4, <5>1, <5>3 DEF After
      <4> QED
        BY <4>1, <4>2
    <3>4. ASSUME NEW y \in m + 1..n PROVE order'[y] \in After(order, j) \cup {k}
      <4>1. y \in 1..n /\ y > m
        BY <1>2
      <4>2. PICK x \in 1..n : to[x] = y
        BY <1>5, <4>1
      <4>3. order'[y] = order[x]
        BY <1>4, <4>2
      <4>4. x # i => x \in j + 1..n
        BY <1>2, <1>6, <2>1, <2>4, <4>1, <4>2
      <4> QED
        BY <1>1, <4>3, <4>4 DEF After, n
    <3>5. After(order', m) \subseteq After(order, j) \cup {k}
      BY <1>3, <3>4 DEF After
    <3>6. After(order, j) \subseteq After(order', m)
      BY <3>3 DEF After, n
    <3> QED
      BY <3>1, <3>2, <3>5, <3>6
  <2> QED
    BY <2>3, <2>4
<1>12. ASSUME NEW j \in Keys
       PROVE  (\E m \in 1..n : order'[m] = j) <=> (\E m \in 1..n : order[m] = j)
  <2>1. ASSUME NEW m \in 1..n, order'[m] = j PROVE \E x \in 1..n : order[x] = j
    <3>1. PICK x \in 1..n : to[x] = m
      BY <1>5
    <3> QED
      BY <1>4, <2>1, <3>1
  <2>2. ASSUME NEW m \in 1..n, order[m] = j PROVE \E x \in 1..n : order'[x] = j
    BY <1>4, <2>2
  <2> QED
    BY <2>1, <2>2
<1>13. ASSUME NEW j \in Keys, ~Cached(j)
       PROVE  j \in since'[j] \/ CacheMax <= Cardinality(since'[j])
  <2>1. j # k
    BY <1>1, <1>13 DEF LruInv
  <2>2. Used(k)
    BY DEF Touch
  <2> QED
    BY <1>13, <2>1, <2>2, SinceGrows, CacheAssumption DEF LruInv
<1>14. Len(order') <= CacheMax
  BY <1>3 DEF LruInv, n
<1>15. \A j \in Keys : Cached(j)' <=> \E m \in DOMAIN order' : order'[m] = j
  BY <1>2, <1>3, <1>12, ZenonT(60) DEF LruInv, Cached
<1>16. \A j \in Keys : ~Cached(j)' => j \in since'[j] \/ CacheMax <= Cardinality(since'[j])
  BY <1>13 DEF Cached
<1> QED
  BY <1>3, <1>9, <1>11, <1>14, <1>15, <1>16 DEF LruInv

\* A key that is not cached goes to the end, over the oldest if the cache is full.
LEMMA StoreKeepsLru ==
    ASSUME TypeOK, LruInv, NEW k \in Keys, ~Cached(k), NEW v, v # Nothing, Store(k, v)
    PROVE  LruInv'
<1> DEFINE n == Len(order)
           full == n >= CacheMax
           d == IF full THEN 1 ELSE 0
           base == IF full THEN Tail(order) ELSE order
<1>1. order \in Seq(Keys) /\ n \in Nat /\ DOMAIN order = 1..n /\ \A j \in 1..n : order[j] \in Keys
  BY LenProperties, ElementOfSeq DEF TypeOK
<1>2. full => n = CacheMax /\ n >= 1
  <2>1. n <= CacheMax /\ CacheMax \in Nat /\ CacheMax # 0
    BY CacheAssumption DEF LruInv
  <2> HIDE DEF n
  <2> QED
    BY <1>1, <2>1
<1>3. base \in Seq(Keys) /\ Len(base) = n - d /\ \A j \in 1..n - d : base[j] = order[j + d]
  <2>1. CASE full
    <3>1. order # <<>>
      BY <1>2, <2>1
    <3>2. /\ Tail(order) \in Seq(Keys) /\ Len(Tail(order)) = n - 1
          /\ \A j \in 1..Len(Tail(order)) : Tail(order)[j] = order[j + 1]
      BY <1>1, <3>1, HeadTailProperties
    <3> QED
      BY <2>1, <3>2
  <2>2. CASE ~full
    BY <1>1, <2>2
  <2> QED
    BY <2>1, <2>2
<1>4. order' = Append(base, k)
  BY DEF Store
<1>5. full => Head(order) = order[1]
  BY <1>2
<1>6. cache' = [j \in Keys |-> IF j = k THEN v ELSE IF full /\ j = Head(order) THEN Nothing ELSE cache[j]]
  BY DEF Store
<1>7. d \in {0, 1} /\ (full <=> d = 1) /\ n - d \in Nat /\ n - d + 1 <= CacheMax
  <2> HIDE DEF n
  <2>1. CASE full
    BY <1>1, <1>2, <2>1
  <2>2. CASE ~full
    BY <1>1, <2>2, CacheAssumption
  <2> QED
    BY <2>1, <2>2
<1> HIDE DEF n, d, base, full
<1>8. /\ Len(order') = n - d + 1 /\ DOMAIN order' = 1..n - d + 1
      /\ \A j \in 1..n - d : order'[j] = order[j + d]
      /\ order'[n - d + 1] = k
  <2>1. /\ Append(base, k) \in Seq(Keys) /\ Len(Append(base, k)) = Len(base) + 1
        /\ \A j \in 1..Len(base) : Append(base, k)[j] = base[j]
        /\ Append(base, k)[Len(base) + 1] = k
    BY <1>3, AppendProperties
  <2>2. order' \in Seq(Keys) /\ Len(order') = n - d + 1
    BY <1>3, <1>4, <2>1
  <2> QED
    BY <1>3, <1>4, <2>1, <2>2, LenProperties
<1>9. \A j, m \in 1..n : order[j] = order[m] => j = m
  BY <1>1 DEF LruInv
<1>10. \A j \in 1..n : order[j] # k
  BY <1>1 DEF LruInv
\* The places after the store are those behind the dropped entry, and the last one.
<1>11. ASSUME NEW m \in 1..n - d + 1
       PROVE  \/ m \in 1..n - d /\ m + d \in 1..n /\ order'[m] = order[m + d]
              \/ m = n - d + 1 /\ order'[m] = k
  BY <1>1, <1>7, <1>8
<1>12. \A x, y \in 1..n - d + 1 : order'[x] = order'[y] => x = y
  <2> SUFFICES ASSUME NEW x \in 1..n - d + 1, NEW y \in 1..n - d + 1, order'[x] = order'[y]
               PROVE  x = y
    OBVIOUS
  <2>1. CASE x = n - d + 1
    <3>1. order'[y] = k
      BY <1>8, <2>1
    <3>2. ~(y \in 1..n - d /\ y + d \in 1..n /\ order'[y] = order[y + d])
      BY <1>10, <3>1
    <3> QED
      BY <1>11, <2>1, <3>2
  <2>2. CASE x \in 1..n - d /\ x + d \in 1..n /\ order'[x] = order[x + d]
    <3>1. y \in 1..n - d /\ y + d \in 1..n /\ order'[y] = order[y + d]
      BY <1>10, <1>11, <2>2
    <3>2. x + d = y + d
      BY <1>9, <2>2, <3>1
    <3> QED
      BY <1>7, <2>2, <3>1, <3>2
  <2> QED
    BY <1>11, <2>1, <2>2
<1>13. Used(k) /\ since' = [j \in Keys |-> IF j = k THEN {} ELSE since[j] \cup {k}]
  BY DEF Store, Used
<1>14. ASSUME NEW m \in 1..n - d + 1 PROVE since'[order'[m]] = After(order', m)
  <2>1. CASE m = n - d + 1
    BY <1>7, <1>8, <1>13, <2>1 DEF After
  <2>2. CASE m \in 1..n - d /\ m + d \in 1..n /\ order'[m] = order[m + d]
    <3>1. since'[order'[m]] = After(order, m + d) \cup {k}
      BY <1>1, <1>10, <1>13, <2>2 DEF LruInv
    <3>2. k \in After(order', m)
      <4>1. n - d + 1 \in m + 1..n - d + 1
        BY <1>1, <1>7, <2>2
      <4> QED
        BY <1>8, <4>1 DEF After
    <3>3. ASSUME NEW x \in m + d + 1..n PROVE order[x] \in After(order', m)
      <4>1. x - d \in 1..n - d /\ x - d \in m + 1..n - d + 1 /\ (x - d) + d = x
        BY <1>1, <1>7, <2>2
      <4>2. order'[x - d] = order[x]
        BY <1>8, <4>1
      <4> QED
        BY <1>8, <4>1, <4>2 DEF After
    <3>4. ASSUME NEW y \in m + 1..n - d + 1 PROVE order'[y] \in After(order, m + d) \cup {k}
      <4>1. CASE y = n - d + 1
        BY <1>8, <4>1
      <4>2. CASE y # n - d + 1
        <5>1. y \in 1..n - d /\ y + d \in m + d + 1..n
          BY <1>1, <1>7, <2>2, <4>2
        <5> QED
          BY <1>8, <5>1 DEF After, n
      <4> QED
        BY <4>1, <4>2
    <3>5. After(order', m) \subseteq After(order, m + d) \cup {k}
      BY <1>8, <3>4 DEF After
    <3>6. After(order, m + d) \subseteq After(order', m)
      BY <3>3 DEF After, n
    <3> QED
      BY <3>1, <3>2, <3>5, <3>6
  <2> QED
    BY <1>11, <2>1, <2>2
<1>15. ASSUME NEW j \in Keys
       PROVE  Cached(j)' <=> \E m \in 1..n - d + 1 : order'[m] = j
  <2>1. CASE j = k
    <3>1. n - d + 1 \in 1..n - d + 1
      BY <1>1, <1>7
    <3>2. cache'[j] = v
      BY <1>6, <2>1
    <3>3. Cached(j)'
      BY <3>2 DEF Cached
    <3> QED
      BY <1>8, <2>1, <3>1, <3>3
  <2>2. CASE j # k /\ full /\ j = Head(order)
    <3>1. order[1] = j /\ 1 \in 1..n /\ d = 1
      BY <1>1, <1>2, <1>5, <1>7, <2>2
    <3>2. ~Cached(j)'
      BY <1>6, <2>2 DEF Cached
    <3>3. ASSUME NEW m \in 1..n - d + 1, order'[m] = j PROVE FALSE
      <4>1. m \in 1..n - d /\ m + d \in 1..n /\ order[m + d] = j
        BY <1>11, <2>2, <3>3
      <4>2. m + d = 1
        BY <1>9, <3>1, <4>1
      <4> QED
        BY <3>1, <4>1, <4>2
    <3> QED
      BY <3>2, <3>3
  <2>3. CASE j # k /\ ~(full /\ j = Head(order))
    <3>1. Cached(j)' <=> Cached(j)
      BY <1>6, <2>3 DEF Cached
    <3>2. Cached(j) <=> \E x \in 1..n : order[x] = j
      BY <1>1 DEF LruInv
    <3>3. ASSUME NEW x \in 1..n, order[x] = j PROVE \E m \in 1..n - d + 1 : order'[m] = j
      <4>1. x # 1 \/ d = 0
        BY <1>5, <1>7, <2>3, <3>3
      <4>2. x - d \in 1..n - d /\ x - d \in 1..n - d + 1 /\ (x - d) + d = x
        BY <1>1, <1>7, <4>1
      <4> QED
        BY <1>8, <3>3, <4>2
    <3>4. ASSUME NEW m \in 1..n - d + 1, order'[m] = j PROVE \E x \in 1..n : order[x] = j
      BY <1>11, <2>3, <3>4
    <3> QED
      BY <3>1, <3>2, <3>3, <3>4
  <2> QED
    BY <2>1, <2>2, <2>3
<1>16. ASSUME NEW j \in Keys, ~Cached(j)'
       PROVE  j \in since'[j] \/ CacheMax <= Cardinality(since'[j])
  <2>1. j # k
    BY <1>6, <1>16 DEF Cached
  <2>2. /\ since'[j] = since[j] \cup {k} /\ Cardinality(since[j]) <= Cardinality(since'[j])
        /\ Cardinality(since[j]) \in Nat /\ Cardinality(since'[j]) \in Nat
    BY <1>13, <2>1, SinceGrows
  <2>3. CASE ~Cached(j)
    BY <2>2, <2>3, CacheAssumption DEF LruInv
  <2>4. CASE Cached(j)
    <3>1. full /\ j = order[1] /\ 1 \in 1..n /\ n = CacheMax
      BY <1>1, <1>2, <1>5, <1>6, <1>16, <2>1, <2>4 DEF Cached
    <3>2. since[j] = After(order, 1)
      BY <1>1, <3>1 DEF LruInv
    <3>3. 1 \in 0..Len(order) /\ \A x, y \in DOMAIN order : order[x] = order[y] => x = y
      BY <1>1, <1>9, <3>1 DEF n
    <3>4. IsFiniteSet(since[j]) /\ Cardinality(since[j]) = n - 1
      BY <1>1, <3>2, <3>3, AfterCardinality DEF n
    <3>5. k \notin since[j]
      <4>1. ASSUME NEW x \in 1 + 1..n PROVE order[x] # k
        <5>1. x \in 1..n
          BY <1>1
        <5> QED
          BY <1>10, <5>1
      <4> QED
        BY <3>2, <4>1 DEF After, n
    <3>6. Cardinality(since'[j]) = (n - 1) + 1
      BY <2>2, <3>4, <3>5, FS_AddElement, SMTT(30)
    <3> QED
      BY <1>1, <3>1, <3>6
  <2> QED
    BY <2>3, <2>4
<1>17. Len(order') <= CacheMax
  BY <1>7, <1>8
<1>18. \A j \in Keys : ~Cached(j)' => j \in since'[j] \/ CacheMax <= Cardinality(since'[j])
  BY <1>16
<1> QED
  BY <1>8, <1>12, <1>14, <1>15, <1>17, <1>18 DEF LruInv

LEMMA LruStep ==
    ASSUME CacheInv, LruInv, [Next]_vars
    PROVE  LruInv'
<1>1. TypeOK
  BY DEF CacheInv
<1>2. ASSUME UNCHANGED table PROVE LruInv'
  BY <1>2 DEF table, LruInv, Cached, After
<1>3. ASSUME UNCHANGED <<cache, order, since>> PROVE LruInv'
  BY <1>3 DEF LruInv, Cached, After
<1>4. ASSUME NEW c \in Calls, NEW kind \in Kinds, Deliver(c, kind), pc[c] \in Working
      PROVE  LruInv'
  <2>1. CASE c \in Direct \/ kind = "system_error"
    BY <1>3, <1>4, <2>1 DEF Deliver, table
  <2>2. CASE c \notin Direct /\ kind # "system_error"
    <3>1. Store(KeyOf[c], Verdict(c, kind)) /\ KeyOf[c] \in Keys
      BY <1>4, <2>2, CallsAssumption DEF Deliver
    <3>2. inflight[KeyOf[c]] = c
      BY <1>4, <2>2, RunIsInFlight
    <3>3. ~Cached(KeyOf[c])
      BY <3>1, <3>2, <1>4, NoneAssumption DEF CacheInv, FlightInv, Cached
    <3>4. Verdict(c, kind) # Nothing
      BY Outcomes
    <3> QED
      BY <1>1, <3>1, <3>3, <3>4, StoreKeepsLru
  <2> QED
    BY <2>1, <2>2
<1>5. ASSUME NEW c \in Calls, Hit(c) PROVE LruInv'
  BY <1>1, <1>5, TouchKeepsLru, CallsAssumption DEF Hit
<1>6. ASSUME NEW c \in Calls, Exit(c) PROVE LruInv'
  BY <1>4, <1>6 DEF Exit, Kinds, Working
<1>7. ASSUME NEW c \in Calls, Reaped(c) PROVE LruInv'
  BY <1>4, <1>7 DEF Reaped, Kinds, Working
<1>8. ASSUME NEW c \in Calls,
             \/ Follow(c) \/ Start(c) \/ CannotStart(c) \/ TimeOut(c) \/ Wake(c)
             \/ GroupEnds(c) \/ Cancel(c)
      PROVE  LruInv'
  <2>1. UNCHANGED <<cache, order, since>>
    BY <1>8 DEF Follow, Start, CannotStart, TimeOut, Wake, GroupEnds, Cancel, table
  <2> QED
    BY <1>3, <2>1
<1>9. CASE UNCHANGED vars
  BY <1>2, <1>9 DEF vars
<1> QED
  BY <1>5, <1>6, <1>7, <1>8, <1>9 DEF Next

\* The cache forgets the least recently used: for any bound, a key is cached exactly
\* if it was used and fewer than CacheMax other keys were used after it.
THEOREM LeastRecentIsDropped == Spec => []CacheKeepsRecent
<1>1. Init => LruInv
  <2> SUFFICES ASSUME Init PROVE LruInv
    OBVIOUS
  <2>1. order = <<>> /\ Len(order) = 0 /\ DOMAIN order = {}
    BY DEF Init
  <2> QED
    BY <2>1, CacheAssumption DEF Init, LruInv, Cached
<1>2. CacheInv /\ LruInv /\ [Next]_vars => LruInv'
  BY LruStep
<1>3. CacheInv /\ LruInv => CacheKeepsRecent
  <2> SUFFICES ASSUME CacheInv, LruInv, NEW k \in Keys
               PROVE  Cached(k) <=> k \notin since[k] /\ Cardinality(since[k]) < CacheMax
    BY DEF CacheKeepsRecent
  <2>1. order \in Seq(Keys) /\ Len(order) \in Nat /\ DOMAIN order = 1..Len(order)
    BY LenProperties DEF CacheInv, TypeOK
  <2>2. CASE Cached(k)
    <3>1. PICK i \in 1..Len(order) : order[i] = k
      BY <2>1, <2>2 DEF LruInv
    <3>2. since[k] = After(order, i)
      BY <2>1, <3>1 DEF LruInv
    <3>3. i \in 0..Len(order) /\ \A x, y \in DOMAIN order : order[x] = order[y] => x = y
      BY <2>1 DEF LruInv
    <3>4. Cardinality(since[k]) = Len(order) - i
      BY <2>1, <3>2, <3>3, AfterCardinality
    <3>5. Cardinality(since[k]) < CacheMax
      BY <2>1, <3>4, CacheAssumption DEF LruInv
    <3>6. k \notin since[k]
      BY <2>1, <3>1, <3>2, <3>3 DEF After
    <3> QED
      BY <2>2, <3>5, <3>6
  <2>3. CASE ~Cached(k)
    <3>1. IsFiniteSet(since[k])
      BY KeysAssumption, FS_Subset DEF CacheInv, TypeOK
    <3>2. Cardinality(since[k]) \in Nat
      BY <3>1, FS_CardinalityType
    <3> QED
      BY <2>3, <3>2, CacheAssumption DEF LruInv
  <2> QED
    BY <2>2, <2>3
<1> QED
  BY <1>1, <1>2, <1>3, CacheInvariant, PTL DEF Spec
=============================================================================
