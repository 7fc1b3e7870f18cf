--------------------------- MODULE LeanRepl_proofs ---------------------------
(***************************************************************************)
(* Proofs about LeanRepl, for every set of calls and every worker count.   *)
(* Types and the bound on the Mathlibs hold whatever is abandoned; the     *)
(* verdict of a call is its own, and calls are serialized, as long as no   *)
(* call is abandoned.                                                      *)
(***************************************************************************)
EXTENDS LeanRepl, SequenceTheorems, FiniteSetTheorems, TLAPS

\* A thread in conversation has a child, and `before` is set once it matched:
\* what makes the type invariant inductive.
Talking ==
    \A t \in Calls :
        /\ thread[t] \in {"expecting", "matched"} => local[t] \in Calls
        /\ thread[t] = "matched" => before[local[t]] \in Calls

\* The variables keep their types: in particular self._state only ever holds a
\* child some thread spawned, and a verdict is always somebody's.
THEOREM TypeInvariant == Spec => []TypeOK
<1>1. Init => TypeOK /\ Talking
  <2> SUFFICES ASSUME Init PROVE TypeOK /\ Talking
    OBVIOUS
  <2>1. Nothing \in Outcomes
    BY DEF Outcomes
  <2>2. waiters \in Seq(Calls \cup {Closer}) /\ inbox \in [Calls -> Seq(Calls)]
        /\ outbox \in [Calls -> Seq(Calls)]
    BY DEF Init
  <2> QED
    BY <2>1, <2>2 DEF Init, TypeOK, Talking, Phases, Stages
<1>2. TypeOK /\ Talking /\ [Next]_vars => TypeOK' /\ Talking'
  <2> SUFFICES ASSUME TypeOK, Talking, [Next]_vars PROVE TypeOK' /\ Talking'
    OBVIOUS
  <2> USE DEF TypeOK, Talking, Phases, Stages, coroutines, threads, ptys
  <2> /\ Nothing \in Outcomes /\ SystemError \in Outcomes /\ Raised \in Outcomes
      /\ WallClock \in Outcomes /\ Cancelled \in Outcomes
    BY DEF Outcomes
  <2>1. ASSUME NEW c \in Calls, Verify(c) PROVE TypeOK' /\ Talking'
    BY <2>1 DEF Verify
  <2>2. ASSUME NEW c \in Calls, Acquire(c) PROVE TypeOK' /\ Talking'
    <3>1. waiters' \in Seq(Calls \cup {Closer})
      BY <2>2 DEF Acquire
    <3>2. /\ phase' \in [Calls -> Phases]
          /\ thread' \in [Calls -> Stages]
          /\ \A t \in Calls : thread'[t] = thread[t] \/ thread'[t] = "queued"
      BY <2>2 DEF Acquire
    <3> QED
      BY <2>2, <3>1, <3>2 DEF Acquire
  <2>3. ASSUME NEW c \in Calls, Return(c) PROVE TypeOK' /\ Talking'
    BY <2>3 DEF Return
  <2>4. ASSUME NEW c \in Calls, WallTimeout(c) PROVE TypeOK' /\ Talking'
    BY <2>4 DEF WallTimeout
  <2>5. ASSUME NEW c \in Calls, Cancel(c) PROVE TypeOK' /\ Talking'
    BY <2>5 DEF Cancel
  <2>6. CASE RequestClose
    BY <2>6 DEF RequestClose
  <2>7. CASE Close
    BY <2>7 DEF Close
  <2>8. ASSUME NEW t \in Calls, Job(t) PROVE TypeOK' /\ Talking'
    <3>1. CASE StartJob(t)
      <4>0. \/ /\ thread' = [thread EXCEPT ![t] = "starting"]
               /\ local' = [local EXCEPT ![t] = t]
            \/ thread' = [thread EXCEPT ![t] = "loading"] /\ local' = local
        BY <3>1 DEF StartJob, Goto
      <4>1. thread' \in [Calls -> Stages] /\ local' \in [Calls -> Calls \cup {None}]
        BY <4>0
      <4>2. \A u \in Calls : thread'[u] \in {"expecting", "matched"} =>
                 thread[u] = thread'[u] /\ local'[u] = local[u]
        BY <4>0
      <4> QED
        BY <3>1, <4>1, <4>2 DEF StartJob
    <3>3. CASE ImportFails(t)
      BY <3>3 DEF ImportFails, Finish
    <3>4. CASE Store(t)
      BY <3>4 DEF Store, Goto
    <3>5. CASE Load(t)
      BY <3>5 DEF Load, Goto
    <3>6. CASE Send(t)
      BY <3>6 DEF Send, Goto
    <3>7. CASE SendFails(t)
      BY <3>7 DEF SendFails, Finish
    <3>8. CASE Match(t)
      BY <3>8 DEF Match, Goto
    <3>9. CASE Parse(t)
      <4>1. local[t] \in Calls /\ before[local[t]] \in Calls
        BY <3>9 DEF Parse
      <4>2. PICK value \in {Verdict(before[local[t]]), SystemError} : Finish(t, value)
        BY <3>9 DEF Parse
      <4>3. value \in Outcomes
        BY <4>1, <4>2 DEF Outcomes
      <4>4. UNCHANGED <<state, coroutines, ptys, dead, closed>>
        BY <3>9 DEF Parse
      <4> QED
        BY <4>2, <4>3, <4>4 DEF Finish
    <3>10. CASE ExpectTimeout(t)
      BY <3>10 DEF ExpectTimeout, Finish
    <3>11. CASE ExpectEOF(t)
      BY <3>11 DEF ExpectEOF, Finish
    <3> QED
      BY <2>8, <3>1, <3>3, <3>4, <3>5, <3>6, <3>7, <3>8, <3>9, <3>10, <3>11 DEF Job
  <2>9. ASSUME NEW k \in Calls, ChildReplies(k) PROVE TypeOK' /\ Talking'
    BY <2>9 DEF ChildReplies
  <2>10. ASSUME NEW k \in Calls, ChildDies(k) PROVE TypeOK' /\ Talking'
    BY <2>10 DEF ChildDies
  <2>11. CASE UNCHANGED vars
    BY <2>11 DEF vars
  <2> QED
    BY <2>1, <2>2, <2>3, <2>4, <2>5, <2>6, <2>7, <2>8, <2>9, <2>10, <2>11 DEF Next
<1> QED
  BY <1>1, <1>2, PTL DEF Spec
-----------------------------------------------------------------------------
(* No call is abandoned: the thread that runs is the lock holder's.         *)

NoneAbandoned == MayWall = {} /\ MayCancel = {}

Quiet(k)   == inbox[k] = <<>> /\ outbox[k] = <<>>
Owes(k, t) == \/ inbox[k] = <<t>> /\ outbox[k] = <<>>
              \/ inbox[k] = <<>> /\ outbox[k] = <<t>>

\* A thread between submission and completion is the lock holder's.
HolderInv ==
    \A c \in Calls :
        /\ phase[c] = "running" <=> owner = c
        /\ thread[c] \notin {"none", "finished"} => owner = c
        /\ phase[c] \in {"idle", "waiting"} => thread[c] = "none"

\* The thread's local child is the one in self._state, from Load to the end.
ChildInv ==
    /\ state \in Calls => thread[state] \notin {"none", "queued", "starting"}
    /\ \A t \in Calls :
        /\ thread[t] \in {"none", "queued", "finished"} => local[t] = None
        /\ thread[t] = "starting" => local[t] = t /\ state = None
        /\ thread[t] = "loading" => state \in Calls /\ local[t] \in {None, state}
        /\ thread[t] \in {"sending", "expecting", "matched"} =>
              state \in Calls /\ local[t] = state

\* The child owes a reply exactly while the holder's thread expects one.
PtyInv ==
    /\ \A k \in Calls : thread[k] \in {"none", "queued", "starting"} => Quiet(k)
    /\ \A t \in Calls :
        /\ thread[t] = "expecting" => Owes(state, t)
        /\ thread[t] = "matched" => before[state] = t
    /\ state \in Calls /\ (\A t \in Calls : thread[t] # "expecting") => Quiet(state)

OwnInv ==
    /\ \A c \in Calls : outcome[c].kind = "verdict" => outcome[c].of = c
    /\ VerdictIsOwn

SerialInv == TypeOK /\ HolderInv /\ ChildInv /\ PtyInv /\ OwnInv
LEMMA SerialInit == Init => SerialInv
<1>1. Init => TypeOK
  <2>1. Init => Nothing \in Outcomes /\ waiters \in Seq(Calls \cup {Closer})
                /\ inbox \in [Calls -> Seq(Calls)] /\ outbox \in [Calls -> Seq(Calls)]
    BY DEF Init, Outcomes
  <2> QED
    BY <2>1, ZenonT(60) DEF Init, TypeOK, Phases, Stages
<1>2. Init => HolderInv /\ ChildInv /\ PtyInv /\ OwnInv
  BY NamesAssumption DEF Init, HolderInv, ChildInv, PtyInv, OwnInv, VerdictIsOwn, Quiet, Nothing
<1> QED
  BY <1>1, <1>2 DEF SerialInv

LEMMA SerialStep ==
    ASSUME NoneAbandoned, SerialInv, TypeOK', [Next]_vars
    PROVE  SerialInv'
<1> USE NamesAssumption DEF SerialInv, TypeOK, Phases, Stages, coroutines, threads, ptys
<1> DEFINE Good == HolderInv /\ ChildInv /\ PtyInv /\ OwnInv
<1>1. ASSUME NEW c \in Calls, Verify(c) PROVE Good'
  <2>1. HolderInv'
    BY <1>1 DEF Verify, HolderInv
  <2>2. ChildInv'
    BY <1>1 DEF Verify, HolderInv, ChildInv
  <2>3. PtyInv'
    BY <1>1 DEF Verify, HolderInv, ChildInv, PtyInv, Quiet, Owes
  <2>4. OwnInv'
    BY <1>1 DEF Verify, HolderInv, ChildInv, PtyInv, OwnInv, VerdictIsOwn
  <2> QED
    BY <2>1, <2>2, <2>3, <2>4
<1>2. ASSUME NEW c \in Calls, Acquire(c) PROVE Good'
  <2>1. HolderInv'
    BY <1>2 DEF Acquire, HolderInv
  <2>2. ChildInv'
    BY <1>2 DEF Acquire, HolderInv, ChildInv
  <2>3. PtyInv'
    BY <1>2 DEF Acquire, HolderInv, ChildInv, PtyInv, Quiet, Owes
  <2>4. OwnInv'
    BY <1>2 DEF Acquire, HolderInv, ChildInv, PtyInv, OwnInv, VerdictIsOwn
  <2> QED
    BY <2>1, <2>2, <2>3, <2>4
<1>3. ASSUME NEW c \in Calls, Return(c) PROVE Good'
  <2>1. HolderInv'
    BY <1>3 DEF Return, HolderInv
  <2>2. ChildInv'
    BY <1>3 DEF Return, HolderInv, ChildInv
  <2>3. PtyInv'
    BY <1>3 DEF Return, HolderInv, ChildInv, PtyInv, Quiet, Owes
  <2>4. OwnInv'
    BY <1>3 DEF Return, HolderInv, ChildInv, PtyInv, OwnInv, VerdictIsOwn
  <2> QED
    BY <2>1, <2>2, <2>3, <2>4
<1>4. ASSUME NEW c \in Calls, WallTimeout(c) \/ Cancel(c) PROVE FALSE
  BY <1>4 DEF WallTimeout, Cancel, NoneAbandoned
<1>5. CASE RequestClose
  <2>1. HolderInv'
    BY <1>5 DEF RequestClose, HolderInv
  <2>2. ChildInv'
    BY <1>5 DEF RequestClose, HolderInv, ChildInv
  <2>3. PtyInv'
    BY <1>5 DEF RequestClose, HolderInv, ChildInv, PtyInv, Quiet, Owes
  <2>4. OwnInv'
    BY <1>5 DEF RequestClose, HolderInv, ChildInv, PtyInv, OwnInv, VerdictIsOwn
  <2> QED
    BY <2>1, <2>2, <2>3, <2>4
<1>6. CASE Close
  <2>1. HolderInv'
    BY <1>6 DEF Close, HolderInv
  <2>2. ChildInv'
    BY <1>6 DEF Close, HolderInv, ChildInv
  <2>3. PtyInv'
    BY <1>6 DEF Close, HolderInv, ChildInv, PtyInv, Quiet, Owes
  <2>4. OwnInv'
    BY <1>6 DEF Close, HolderInv, ChildInv, PtyInv, OwnInv, VerdictIsOwn
  <2> QED
    BY <2>1, <2>2, <2>3, <2>4
<1>7. ASSUME NEW t \in Calls, Job(t) PROVE Good'
  <2>0. /\ thread[t] \notin {"none", "finished"}
        /\ \A u \in Calls : u # t => thread[u] \in {"none", "finished"}
    BY <1>7 DEF Job, StartJob, ImportFails, Store, Load, Send, SendFails, Match,
                Parse, ExpectTimeout, ExpectEOF, HolderInv
  <2>1. CASE StartJob(t)
    <3>1. HolderInv'
      BY <2>1 DEF StartJob, HolderInv, Goto
    <3>2. ChildInv'
      BY <2>1 DEF StartJob, HolderInv, ChildInv, Goto
    <3>3. PtyInv'
      <4>1. /\ thread' \in {[thread EXCEPT ![t] = "starting"], [thread EXCEPT ![t] = "loading"]}
            /\ UNCHANGED <<state, inbox, outbox, before>>
        BY <2>1 DEF StartJob, Goto
      <4> QED
        BY <2>0, <2>1, <4>1, SMTT(30) DEF StartJob, PtyInv, Quiet, Owes
    <3>4. OwnInv'
      BY <2>1 DEF StartJob, HolderInv, ChildInv, PtyInv, OwnInv, VerdictIsOwn, Goto
    <3> QED
      BY <3>1, <3>2, <3>3, <3>4
  <2>3. CASE ImportFails(t)
    <3>1. HolderInv'
      BY <2>3 DEF ImportFails, HolderInv, Finish
    <3>2. ChildInv'
      BY <2>3 DEF ImportFails, HolderInv, ChildInv, Finish
    <3>3. PtyInv'
      BY <2>3 DEF ImportFails, HolderInv, ChildInv, PtyInv, Quiet, Owes, Finish
    <3>4. OwnInv'
      BY <2>3 DEF ImportFails, HolderInv, ChildInv, PtyInv, OwnInv, VerdictIsOwn, Finish,
             Verdict, SystemError, Raised
    <3> QED
      BY <3>1, <3>2, <3>3, <3>4
  <2>4. CASE Store(t)
    <3>1. HolderInv'
      BY <2>4 DEF Store, HolderInv, Goto
    <3>2. ChildInv'
      BY <2>4 DEF Store, HolderInv, ChildInv, Goto
    <3>3. PtyInv'
      <4>1. /\ thread' = [thread EXCEPT ![t] = "loading"] /\ state' = t
            /\ \A k \in Calls : Quiet(k)' <=> Quiet(k)
        BY <2>4 DEF Store, Goto, Quiet
      <4>2. Quiet(t)
        BY <2>4 DEF Store, PtyInv
      <4> QED
        BY <2>0, <4>1, <4>2, ZenonT(60) DEF PtyInv
    <3>4. OwnInv'
      BY <2>4 DEF Store, HolderInv, ChildInv, PtyInv, OwnInv, VerdictIsOwn, Goto
    <3> QED
      BY <3>1, <3>2, <3>3, <3>4
  <2>5. CASE Load(t)
    <3>1. HolderInv'
      BY <2>5 DEF Load, HolderInv, Goto
    <3>2. ChildInv'
      BY <2>5 DEF Load, HolderInv, ChildInv, Goto
    <3>3. PtyInv'
      BY <2>0, <2>5 DEF Load, PtyInv, Quiet, Goto
    <3>4. OwnInv'
      BY <2>5 DEF Load, HolderInv, ChildInv, PtyInv, OwnInv, VerdictIsOwn, Goto
    <3> QED
      BY <3>1, <3>2, <3>3, <3>4
  <2>6. CASE Send(t)
    <3>1. HolderInv'
      BY <2>6 DEF Send, HolderInv, Goto
    <3>2. ChildInv'
      BY <2>6 DEF Send, HolderInv, ChildInv, Goto
    <3>3. PtyInv'
      <4>1. state \in Calls /\ local[t] = state /\ Quiet(state)
        BY <2>0, <2>6 DEF Send, ChildInv, PtyInv
      <4>2. inbox' = [inbox EXCEPT ![state] = <<t>>] /\ outbox' = outbox
        BY <2>6, <4>1 DEF Send, Quiet
      <4>3. Owes(state, t)'
        BY <2>6, <4>1, <4>2 DEF Send, Quiet, Owes
      <4> QED
        BY <2>0, <2>6, <4>1, <4>2, <4>3 DEF Send, Goto, ChildInv, PtyInv, Quiet
    <3>4. OwnInv'
      BY <2>6 DEF Send, HolderInv, ChildInv, PtyInv, OwnInv, VerdictIsOwn, Goto
    <3> QED
      BY <3>1, <3>2, <3>3, <3>4
  <2>7. CASE SendFails(t)
    <3>1. HolderInv'
      BY <2>7 DEF SendFails, HolderInv, Finish
    <3>2. ChildInv'
      BY <2>7 DEF SendFails, HolderInv, ChildInv, Finish
    <3>3. PtyInv'
      BY <2>7 DEF SendFails, HolderInv, ChildInv, PtyInv, Quiet, Owes, Finish
    <3>4. OwnInv'
      BY <2>7 DEF SendFails, HolderInv, ChildInv, PtyInv, OwnInv, VerdictIsOwn, Finish,
             Verdict, SystemError, Raised
    <3> QED
      BY <3>1, <3>2, <3>3, <3>4
  <2>8. CASE Match(t)
    <3>1. HolderInv'
      BY <2>8 DEF Match, HolderInv, Goto
    <3>2. ChildInv'
      BY <2>8 DEF Match, HolderInv, ChildInv, Goto
    <3>3. PtyInv'
      <4>1. state \in Calls /\ local[t] = state /\ Owes(state, t) /\ outbox[state] # <<>>
        BY <2>0, <2>8 DEF Match, ChildInv, PtyInv
      <4>2. inbox[state] = <<>> /\ outbox[state] = <<t>>
        BY <4>1 DEF Owes
      <4>3. /\ before' = [before EXCEPT ![state] = t]
            /\ outbox' = [outbox EXCEPT ![state] = <<>>]
            /\ UNCHANGED <<inbox, state>>
        BY <2>8, <4>1, <4>2, Head(<<t>>) = t, Tail(<<t>>) = <<>> DEF Match
      <4>4. thread' = [thread EXCEPT ![t] = "matched"]
        BY <2>8 DEF Match, Goto
      <4>5. \A k \in Calls : Quiet(k) => Quiet(k)'
        BY <4>3 DEF Quiet
      <4>6. Quiet(state)' /\ before'[state] = t
        BY <4>1, <4>2, <4>3 DEF Quiet
      <4> QED
        BY <2>0, <4>3, <4>4, <4>5, <4>6, ZenonT(60) DEF PtyInv
    <3>4. OwnInv'
      BY <2>8 DEF Match, HolderInv, ChildInv, PtyInv, OwnInv, VerdictIsOwn, Goto
    <3> QED
      BY <3>1, <3>2, <3>3, <3>4
  <2>9. CASE Parse(t)
    <3>1. HolderInv'
      BY <2>9 DEF Parse, HolderInv, Finish
    <3>2. ChildInv'
      BY <2>9 DEF Parse, HolderInv, ChildInv, Finish
    <3>3. PtyInv'
      BY <2>9 DEF Parse, HolderInv, ChildInv, PtyInv, Quiet, Owes, Finish
    <3>4. OwnInv'
      BY <2>9 DEF Parse, HolderInv, ChildInv, PtyInv, OwnInv, VerdictIsOwn, Finish,
             Verdict, SystemError, Raised
    <3> QED
      BY <3>1, <3>2, <3>3, <3>4
  <2>10. CASE ExpectTimeout(t)
    <3>1. HolderInv'
      BY <2>10 DEF ExpectTimeout, HolderInv, Finish
    <3>2. ChildInv'
      BY <2>10 DEF ExpectTimeout, HolderInv, ChildInv, Finish
    <3>3. PtyInv'
      BY <2>10 DEF ExpectTimeout, HolderInv, ChildInv, PtyInv, Quiet, Owes, Finish
    <3>4. OwnInv'
      BY <2>10 DEF ExpectTimeout, HolderInv, ChildInv, PtyInv, OwnInv, VerdictIsOwn, Finish,
             Verdict, SystemError, Raised
    <3> QED
      BY <3>1, <3>2, <3>3, <3>4
  <2>11. CASE ExpectEOF(t)
    <3>1. HolderInv'
      BY <2>11 DEF ExpectEOF, HolderInv, Finish
    <3>2. ChildInv'
      BY <2>0, <2>11 DEF ExpectEOF, ChildInv, Finish
    <3>3. PtyInv'
      BY <2>0, <2>11 DEF ExpectEOF, PtyInv, Quiet, Finish
    <3>4. OwnInv'
      BY <2>11 DEF ExpectEOF, HolderInv, ChildInv, PtyInv, OwnInv, VerdictIsOwn, Finish,
             Verdict, SystemError, Raised
    <3> QED
      BY <3>1, <3>2, <3>3, <3>4
  <2> QED
    BY <1>7, <2>1, <2>3, <2>4, <2>5, <2>6, <2>7, <2>8, <2>9, <2>10, <2>11 DEF Job
<1>8. ASSUME NEW k \in Calls, ChildReplies(k) PROVE Good'
  <2>1. HolderInv'
    BY <1>8 DEF ChildReplies, HolderInv
  <2>2. ChildInv'
    BY <1>8 DEF ChildReplies, HolderInv, ChildInv
  <2>3. PtyInv'
    <3>1. inbox[k] # <<>> /\ k = state
      <4>1. inbox[k] # <<>> /\ (state = k \/ \E u \in Calls : local[u] = k)
        BY <1>8 DEF ChildReplies, Alive, Children
      <4>2. ASSUME NEW u \in Calls, local[u] = k PROVE state = k
        BY <4>1, <4>2, ZenonT(60) DEF ChildInv, PtyInv, Quiet
      <4> QED
        BY <4>1, <4>2
    <3>2. PICK t \in Calls : thread[t] = "expecting"
      BY <3>1 DEF PtyInv, Quiet
    <3>3. inbox[k] = <<t>> /\ outbox[k] = <<>>
      BY <3>1, <3>2 DEF PtyInv, Owes
    <3>4. /\ inbox' = [inbox EXCEPT ![k] = <<>>]
          /\ outbox' = [outbox EXCEPT ![k] = <<t>>]
      BY <1>8, <3>3 DEF ChildReplies
    <3>5. \A u \in Calls : thread[u] = "expecting" => u = t
      BY <3>2 DEF HolderInv
    <3> QED
      BY <1>8, <3>1, <3>2, <3>3, <3>4, <3>5 DEF ChildReplies, ChildInv, PtyInv, Quiet, Owes
  <2>4. OwnInv'
    BY <1>8 DEF ChildReplies, HolderInv, ChildInv, PtyInv, OwnInv, VerdictIsOwn
  <2> QED
    BY <2>1, <2>2, <2>3, <2>4
<1>9. ASSUME NEW k \in Calls, ChildDies(k) PROVE Good'
  <2>1. HolderInv'
    BY <1>9 DEF ChildDies, HolderInv
  <2>2. ChildInv'
    BY <1>9 DEF ChildDies, HolderInv, ChildInv
  <2>3. PtyInv'
    BY <1>9 DEF ChildDies, HolderInv, ChildInv, PtyInv, Quiet, Owes
  <2>4. OwnInv'
    BY <1>9 DEF ChildDies, HolderInv, ChildInv, PtyInv, OwnInv, VerdictIsOwn
  <2> QED
    BY <2>1, <2>2, <2>3, <2>4
<1>10. CASE UNCHANGED vars
  BY <1>10 DEF vars, HolderInv, ChildInv, PtyInv, OwnInv, VerdictIsOwn, Quiet, Owes
<1> QED
  BY <1>1, <1>2, <1>3, <1>4, <1>5, <1>6, <1>7, <1>8, <1>9, <1>10 DEF Next
LEMMA SerialInvariant == ASSUME NoneAbandoned PROVE Spec => []SerialInv
<1>1. SerialInv /\ TypeOK' /\ [Next]_vars => SerialInv'
  BY SerialStep
<1> QED
  BY <1>1, SerialInit, TypeInvariant, PTL DEF Spec

\* No call ever reads the verdict of another call's code, for any number of
\* calls, workers, child crashes, reply timeouts and closes, as long as the
\* waiting coroutine is never abandoned (_verify_blocking's error branches).
THEOREM VerdictsAreOwn == ASSUME NoneAbandoned PROVE Spec => []VerdictIsOwn
<1>1. SerialInv => VerdictIsOwn
  BY DEF SerialInv, OwnInv
<1> QED
  BY <1>1, SerialInvariant, PTL

LEMMA AtMostOne == Cardinality({}) <= 1 /\ \A x : Cardinality({x}) <= 1
<1>1. Cardinality({}) = 0 /\ \A x : Cardinality({x}) = 1
  BY FS_EmptySet, FS_Singleton, Zenon
<1> QED
  BY <1>1

\* One conversation at a time: the docstring's "calls are serialized".
THEOREM ConversationsAreSerial == ASSUME NoneAbandoned PROVE Spec => []CallsSerialized
<1>1. SerialInv => CallsSerialized
  <2> SUFFICES ASSUME SerialInv PROVE CallsSerialized
    OBVIOUS
  <2>1. InFlight = {} \/ InFlight = {owner}
    BY NamesAssumption, ZenonT(60) DEF InFlight, SerialInv, HolderInv, TypeOK
  <2> QED
    BY <2>1, AtMostOne DEF CallsSerialized
<1> QED
  BY <1>1, SerialInvariant, PTL

\* A child kept between two calls owes no reply: the lock is released only with
\* the child idle or dropped.
THEOREM IdleChildIsQuiet == ASSUME NoneAbandoned PROVE Spec => []IdleChildOwesNothing
<1>1. SerialInv => IdleChildOwesNothing
  <2> SUFFICES ASSUME SerialInv, owner = None, state # None
               PROVE  inbox[state] = <<>> /\ outbox[state] = <<>>
    BY DEF IdleChildOwesNothing
  <2>1. state \in Calls /\ \A t \in Calls : thread[t] # "expecting"
    BY NamesAssumption DEF SerialInv, TypeOK, HolderInv
  <2> QED
    BY <2>1 DEF SerialInv, PtyInv, Quiet
<1> QED
  BY <1>1, SerialInvariant, PTL

ClosedInv == closed => owner = None /\ state = None

\* After close() and until the next call takes the lock, no child is alive:
\* close() waits for the lock, so no thread can put a child in its place.
THEOREM ClosedIsQuiet == ASSUME NoneAbandoned PROVE Spec => []ClosedMeansQuiet
<1>1. Init => ClosedInv
  BY DEF Init, ClosedInv
<1>2. SerialInv /\ ClosedInv /\ [Next]_vars => ClosedInv'
  <2> SUFFICES ASSUME SerialInv, ClosedInv, [Next]_vars, closed'
               PROVE  owner' = None /\ state' = None
    BY DEF ClosedInv
  <2>1. ASSUME NEW c \in Calls, Verify(c) \/ Acquire(c) \/ Return(c) \/ WallTimeout(c) \/ Cancel(c)
        PROVE  owner' = None /\ state' = None
    BY <2>1 DEF Verify, Acquire, Return, WallTimeout, Cancel, ClosedInv
  <2>2. CASE RequestClose \/ Close
    BY <2>2 DEF RequestClose, Close, ClosedInv
  <2>3. ASSUME NEW t \in Calls, Job(t)
        PROVE  FALSE
    <3>1. closed /\ thread[t] \notin {"none", "finished"}
      BY <2>3
      DEF Job, StartJob, ImportFails, Store, Load, Send, SendFails, Match, Parse,
          ExpectTimeout, ExpectEOF
    <3> QED
      BY <3>1, NamesAssumption DEF ClosedInv, SerialInv, HolderInv
  <2>4. ASSUME NEW k \in Calls, ChildReplies(k) \/ ChildDies(k)
        PROVE  owner' = None /\ state' = None
    BY <2>4 DEF ChildReplies, ChildDies, coroutines, ClosedInv
  <2>5. CASE UNCHANGED vars
    BY <2>5 DEF vars, coroutines, ClosedInv
  <2> QED
    BY <2>1, <2>2, <2>3, <2>4, <2>5 DEF Next
<1>3. SerialInv /\ ClosedInv => ClosedMeansQuiet
  <2> SUFFICES ASSUME SerialInv, ClosedInv, closed PROVE Children = {}
    BY DEF ClosedMeansQuiet, Alive
  <2>1. \A t \in Calls : thread[t] \in {"none", "finished"}
    BY NamesAssumption DEF SerialInv, HolderInv, ClosedInv
  <2>2. \A t \in Calls : local[t] = None
    BY <2>1 DEF SerialInv, ChildInv
  <2> QED
    BY <2>2, NamesAssumption DEF Children, ClosedInv
<1> QED
  BY <1>1, <1>2, <1>3, SerialInvariant, PTL DEF Spec

\* The verifier implements the abstract service (its safety part): every step
\* is a step of LeanService or leaves its variables unchanged.
THEOREM ImplementsService == ASSUME NoneAbandoned PROVE Spec => ServiceSpec
<1> DEFINE Status == [c \in Calls |->
                  CASE phase[c] = "idle" -> "idle"
                    [] phase[c] = "returned" -> "answered"
                    [] OTHER -> "asked"]
           Given  == [c \in Calls |->
                  IF result[c].kind = "verdict" THEN result[c].of ELSE None]
<1>1. Init => Service!Init
  BY DEF Init, Service!Init, Nothing
<1>2. SerialInv /\ SerialInv' /\ [Next]_vars => [Service!Next]_(Service!svars)
  <2> SUFFICES ASSUME SerialInv, SerialInv', [Next]_vars
               PROVE  Service!Next \/ UNCHANGED Service!svars
    OBVIOUS
  <2> USE NamesAssumption DEF SerialInv, TypeOK, coroutines
  <2>1. ASSUME NEW c \in Calls, Verify(c) PROVE Service!Ask(c)
    BY <2>1 DEF Verify, Service!Ask
  <2>2. ASSUME NEW c \in Calls, Acquire(c) PROVE Service!Serve(c)
    BY <2>2 DEF Acquire, Service!Serve
  <2>3. ASSUME NEW c \in Calls, Return(c) PROVE Service!Answer(c)
    <3>1. phase[c] = "running" /\ owner = c /\ owner' = None
      BY <2>3 DEF Return, HolderInv
    <3>2. result' = [result EXCEPT ![c] = outcome[c]]
          /\ (outcome[c].kind = "verdict" => outcome[c].of = c)
      BY <2>3 DEF Return, OwnInv
    <3>3. \E a \in {c, None} : Given' = [Given EXCEPT ![c] = a]
      BY <3>2
    <3>4. Status' = [Status EXCEPT ![c] = "answered"]
      BY <2>3 DEF Return
    <3> QED
      BY <3>1, <3>3, <3>4 DEF Service!Answer
  <2>4. ASSUME NEW c \in Calls, WallTimeout(c) \/ Cancel(c) PROVE FALSE
    BY <2>4 DEF WallTimeout, Cancel, NoneAbandoned
  <2>5. CASE UNCHANGED coroutines \/ RequestClose \/ Close
    BY <2>5 DEF RequestClose, Close, Service!svars
  <2>6. ASSUME NEW t \in Calls, Job(t) \/ ChildReplies(t) \/ ChildDies(t)
        PROVE  UNCHANGED coroutines
    BY <2>6 DEF Job, StartJob, ImportFails, Store, Load, Send, SendFails,
                Match, Parse, ExpectTimeout, ExpectEOF, ChildReplies, ChildDies
  <2> QED
    BY <2>1, <2>2, <2>3, <2>4, <2>5, <2>6 DEF Next, vars, Service!Next
<1> QED
  BY <1>1, <1>2, SerialInvariant, PTL DEF Spec, ServiceSpec, Service!Spec
-----------------------------------------------------------------------------
(* Calls may be abandoned: their threads go on beside the lock holder's.    *)

\* The thread at work is the lock holder's or that of a call that was left.
OwnerInv ==
    \A c \in Calls :
        /\ phase[c] = "running" <=> owner = c
        /\ phase[c] \in {"idle", "waiting"} => thread[c] = "none"
        /\ thread[c] \notin {"none", "finished"} => owner = c \/ c \in Abandoned
        /\ c \in Abandoned => phase[c] = "returned"

\* A thread holds a child only while it works; self._state is the spawning
\* thread's own child as long as that thread holds one; and where it differs
\* from the child of the holder's thread, a late thread has put it there.
HeldInv ==
    /\ \A t \in Calls :
        /\ thread[t] \in {"none", "queued", "finished"} => local[t] = None
        /\ thread[t] = "starting" => local[t] = t
    /\ state \in Calls => local[state] \in {None, state}
    /\ owner \in Calls /\ local[owner] # None =>
          state \in Abandoned \cup {None, local[owner]}

\* Only finitely many calls were made, whatever Calls is.
Made == {c \in Calls : phase[c] # "idle"}

FewMade == IsFiniteSet(Made)

LateInv    == OwnerInv /\ HeldInv /\ FewMade
MathlibInv == TypeOK /\ LateInv

LEMMA MathlibInit == Init => LateInv
<1> SUFFICES ASSUME Init PROVE LateInv
  OBVIOUS
<1>1. OwnerInv /\ HeldInv
  BY NamesAssumption DEF Init, OwnerInv, HeldInv, Abandoned, Nothing
<1>2. Made = {}
  BY DEF Init, Made
<1> QED
  BY <1>1, <1>2, FS_EmptySet DEF LateInv, FewMade

LEMMA MathlibStep ==
    ASSUME MathlibInv, [Next]_vars
    PROVE  LateInv'
<1> USE NamesAssumption DEF MathlibInv, LateInv, FewMade, TypeOK, Phases, Stages, coroutines, threads, ptys
<1>0. ASSUME UNCHANGED phase PROVE FewMade'
  BY <1>0 DEF Made, FewMade
<1>1. ASSUME NEW c \in Calls, Verify(c) PROVE LateInv'
  <2>1. OwnerInv' /\ HeldInv'
    BY <1>1 DEF Verify, OwnerInv, HeldInv, Abandoned
  <2>2. Made' = Made \cup {c}
    BY <1>1 DEF Verify, Made
  <2> QED
    BY <2>1, <2>2, FS_AddElement
<1>2. ASSUME NEW c \in Calls, Acquire(c) PROVE LateInv'
  <2>1. OwnerInv'
    BY <1>2 DEF Acquire, OwnerInv, Abandoned
  <2>2. HeldInv'
    BY <1>2 DEF Acquire, OwnerInv, HeldInv, Abandoned
  <2>3. Made' = Made
    BY <1>2 DEF Acquire, Made
  <2> QED
    BY <2>1, <2>2, <2>3
<1>3. ASSUME NEW c \in Calls, Return(c) \/ WallTimeout(c) \/ Cancel(c) PROVE LateInv'
  <2>1. /\ phase[c] = "running" /\ owner = c /\ owner' = None
        /\ phase' = [phase EXCEPT ![c] = "returned"]
        /\ UNCHANGED <<thread, local>>
        /\ state' \in {state, None}
        /\ \A d \in Calls : d # c => result'[d] = result[d]
        /\ thread[c] = "finished" \/ result'[c] \in {WallClock, Cancelled}
    BY <1>3 DEF Return, WallTimeout, Cancel, OwnerInv
  <2>2. c \in Abandoned' \/ thread[c] = "finished"
    BY <2>1 DEF Abandoned, WallClock, Cancelled
  <2>3. \A d \in Calls : d # c => (d \in Abandoned' <=> d \in Abandoned)
    BY <2>1 DEF Abandoned
  <2>4. OwnerInv'
    BY <2>1, <2>2, <2>3 DEF OwnerInv
  <2>5. HeldInv'
    BY <2>1 DEF HeldInv
  <2>6. Made' = Made
    BY <2>1 DEF Made
  <2> QED
    BY <2>4, <2>5, <2>6
<1>4. CASE RequestClose \/ Close
  BY <1>0, <1>4 DEF RequestClose, Close, OwnerInv, HeldInv, Abandoned
<1>5. ASSUME NEW t \in Calls, Job(t) PROVE LateInv'
  <2>1. /\ UNCHANGED <<owner, phase, result>>
        /\ thread[t] \notin {"none", "finished"}
        /\ \A u \in Calls : u # t => thread'[u] = thread[u] /\ local'[u] = local[u]
        /\ thread'[t] # "none"
    BY <1>5 DEF Job, StartJob, ImportFails, Store, Load, Send, SendFails, Match,
                Parse, ExpectTimeout, ExpectEOF, Goto, Finish
  <2>2. OwnerInv'
    BY <2>1 DEF OwnerInv, Abandoned
  <2>3. Abandoned' = Abandoned /\ (owner = t \/ t \in Abandoned)
    BY <2>1 DEF Abandoned, OwnerInv
  <2>4. ASSUME StartJob(t) PROVE HeldInv'
    <3>1. CASE state = None
      <4>1. /\ local' = [local EXCEPT ![t] = t] /\ state' = None
            /\ \A u \in Calls : thread'[u] = IF u = t THEN "starting" ELSE thread[u]
        BY <2>4, <3>1 DEF StartJob, Goto
      <4> QED
        BY <4>1 DEF HeldInv
    <3>2. CASE state # None
      <4>1. /\ UNCHANGED <<local, state, owner, result>>
            /\ \A u \in Calls : thread'[u] = IF u = t THEN "loading" ELSE thread[u]
        BY <2>4, <3>2 DEF StartJob, Goto
      <4> QED
        BY <2>3, <4>1 DEF HeldInv
    <3> QED
      BY <3>1, <3>2
  <2>5. ASSUME Store(t) PROVE HeldInv'
    <3>1. state' = t /\ local' = local /\ local[t] = t
      BY <2>5 DEF Store, HeldInv
    <3>2. \A u \in Calls : thread'[u] = IF u = t THEN "loading" ELSE thread[u]
      BY <2>5 DEF Store, Goto
    <3>3. owner' \in Calls => state' \in Abandoned' \cup {None, local'[owner']}
      BY <2>1, <2>3, <3>1
    <3> QED
      BY <3>1, <3>2, <3>3 DEF HeldInv
  <2>6. ASSUME Load(t) PROVE HeldInv'
    <3>1. state' = state /\ local' = [local EXCEPT ![t] = state]
      BY <2>6 DEF Load
    <3>2. \A u \in Calls : thread'[u] = IF u = t THEN "sending" ELSE thread[u]
      BY <2>6 DEF Load, Goto
    <3>3. state \in Calls => local'[state] \in {None, state}
      BY <3>1 DEF HeldInv
    <3> QED
      BY <2>1, <2>3, <3>1, <3>2, <3>3 DEF HeldInv
  <2>7. ASSUME ImportFails(t) \/ SendFails(t) \/ Parse(t) \/ ExpectTimeout(t) \/ ExpectEOF(t)
        PROVE  HeldInv'
    <3>1. state' \in {state, None} /\ thread' = [thread EXCEPT ![t] = "finished"]
          /\ local' = [local EXCEPT ![t] = None]
      BY <2>7 DEF ImportFails, SendFails, Parse, ExpectTimeout, ExpectEOF, Finish
    <3> QED
      BY <2>1, <2>3, <3>1 DEF HeldInv
  <2>8. ASSUME Send(t) \/ Match(t) PROVE HeldInv'
    BY <2>3, <2>8 DEF Send, Match, Goto, HeldInv
  <2>9. HeldInv'
    BY <1>5, <2>4, <2>5, <2>6, <2>7, <2>8 DEF Job
  <2> QED
    BY <1>0, <2>1, <2>2, <2>9
<1>6. ASSUME NEW k \in Calls, ChildReplies(k) \/ ChildDies(k) PROVE LateInv'
  BY <1>0, <1>6 DEF ChildReplies, ChildDies, OwnerInv, HeldInv, Abandoned
<1>7. CASE UNCHANGED vars
  BY <1>0, <1>7 DEF vars, OwnerInv, HeldInv, Abandoned
<1> QED
  BY <1>1, <1>2, <1>3, <1>4, <1>5, <1>6, <1>7 DEF Next

\* Every child is that of a call that was left, or the one in self._state, or
\* the one the holder's thread talks to: send a child to its abandoned call.
LEMMA MathlibCount == ASSUME MathlibInv PROVE MathlibsAreBounded
<1> USE NamesAssumption DEF MathlibInv, LateInv, FewMade, TypeOK, Stages
<1> DEFINE Of(c) == IF local[c] = None THEN c ELSE local[c]
           Theirs == {Of(c) : c \in Abandoned}
           Mine   == IF owner \in Calls /\ local[owner] # None THEN local[owner] ELSE state
<1>1. IsFiniteSet(Abandoned)
  <2>1. Abandoned \subseteq Made
    BY DEF Abandoned, Made, OwnerInv
  <2> QED
    BY <2>1, FS_Subset
<1>2. IsFiniteSet(Theirs) /\ Cardinality(Theirs) <= Cardinality(Abandoned)
  <2> DEFINE Map == [c \in Abandoned |-> Of(c)]
  <2>1. Map \in Surjection(Abandoned, Theirs)
    BY DEF Surjection
  <2> HIDE DEF Map, Theirs
  <2> QED
    BY <1>1, <2>1, FS_Surjection
<1>3. ASSUME NEW k \in Alive PROVE k \in Theirs \cup {Mine}
  <2>1. CASE state = k
    <3>1. CASE Mine = state
      BY <2>1, <3>1
    <3>2. CASE Mine # state
      <4>1. owner \in Calls /\ local[owner] # None /\ Mine = local[owner]
        BY <3>2
      <4>2. k \in Calls /\ k \in Abandoned
        BY <2>1, <3>2, <4>1 DEF HeldInv, Alive, Children
      <4>3. Of(k) = k
        BY <2>1, <4>2 DEF HeldInv
      <4> QED
        BY <4>2, <4>3
    <3> QED
      BY <3>1, <3>2
  <2>2. ASSUME NEW t \in Calls, local[t] = k PROVE k \in Theirs \cup {Mine}
    <3>1. k \in Calls
      BY DEF Alive, Children
    <3>2. owner = t \/ t \in Abandoned
      BY <2>2, <3>1 DEF HeldInv, OwnerInv
    <3>3. Of(t) = k
      BY <2>2, <3>1
    <3>4. ASSUME owner = t PROVE Mine = k
      BY <2>2, <3>1, <3>4
    <3> QED
      BY <3>2, <3>3, <3>4
  <2> QED
    BY <2>1, <2>2 DEF Alive, Children
<1> HIDE DEF Theirs, Mine, Of
<1>4. /\ IsFiniteSet(Theirs \cup {Mine})
      /\ Cardinality(Theirs \cup {Mine}) <= Cardinality(Theirs) + 1
  <2>1. Cardinality(Theirs) \in Nat
    BY <1>2, FS_CardinalityType
  <2>2. /\ IsFiniteSet(Theirs \cup {Mine})
        /\ Cardinality(Theirs \cup {Mine}) =
             IF Mine \in Theirs THEN Cardinality(Theirs) ELSE Cardinality(Theirs) + 1
    BY <1>2, FS_AddElement, Zenon
  <2> QED
    BY <2>1, <2>2
<1>5. Alive \subseteq Theirs \cup {Mine}
  BY <1>3
<1>6. Cardinality(Alive) <= Cardinality(Theirs \cup {Mine}) /\ IsFiniteSet(Alive)
  BY <1>4, <1>5, FS_Subset
<1>7. /\ Cardinality(Alive) \in Nat /\ Cardinality(Theirs) \in Nat
      /\ Cardinality(Theirs \cup {Mine}) \in Nat /\ Cardinality(Abandoned) \in Nat
  BY <1>1, <1>2, <1>4, <1>6, FS_CardinalityType
<1> QED
  BY <1>2, <1>4, <1>6, <1>7 DEF MathlibsAreBounded

\* Whoever gives up, and whenever: each call that was left costs at most one
\* Mathlib beside the shared one ("serializing keeps Mathlib resident in one
\* place"), because a late thread stores its own child or uses the shared one.
THEOREM MathlibIsShared == Spec => []MathlibsAreBounded
<1>1. TypeOK /\ LateInv /\ [Next]_vars => LateInv'
  BY MathlibStep DEF MathlibInv
<1>2. TypeOK /\ LateInv => MathlibsAreBounded
  BY MathlibCount DEF MathlibInv
<1> QED
  BY <1>1, <1>2, MathlibInit, TypeInvariant, PTL DEF Spec
=============================================================================
