------------------------------ MODULE LeanRepl ------------------------------
(***************************************************************************)
(* LeanReplVerifier (src/src/evaluation/lean_repl_verifier.py): one        *)
(* persistent `lake exe repl` child shared by every verification of the    *)
(* process.  A call of `verify` takes an asyncio lock, hands the blocking  *)
(* conversation with the child to an executor thread, and waits for that   *)
(* thread under a wall-clock timeout.  A timeout or a cancellation ends    *)
(* the wait and releases the lock; it cannot stop the thread.              *)
(*                                                                         *)
(* A call is its own code: the verdict "of c" is the child's reply to c's  *)
(* code.  A thread is named by the call that submitted it and a child by   *)
(* the thread that spawned it (a thread spawns at most one).               *)
(***************************************************************************)
EXTENDS Naturals, Sequences, FiniteSets

CONSTANTS
    Calls,      \* calls of verify
    MayWall,    \* the calls whose wall-clock timeout may fire before the thread is done
    MayCancel,  \* the calls whose awaiting task may be cancelled (an outer wait_for)
    Workers,    \* threads of the default executor
    Closer,     \* the caller of close()
    None        \* Python's None

ASSUME CallsAssumption == MayWall \subseteq Calls /\ MayCancel \subseteq Calls
ASSUME WorkersAssumption == Workers \in Nat \ {0}
ASSUME NamesAssumption == None \notin Calls /\ Closer \notin Calls /\ None # Closer

VARIABLES
    state,    \* self._state: the child it holds, or None
    owner,    \* the call that holds self._lock, or None
    waiters,  \* the FIFO queue of the lock
    phase,    \* phase[c]: where the coroutine of call c is
    result,   \* result[c]: what verify returned or raised to c's caller
    thread,   \* thread[c]: where the executor job of call c is
    local,    \* local[c]: the child bound to that job's local variable `state`
    outcome,  \* outcome[c]: the value of the job's future
    inbox,    \* inbox[k]: commands child k has not answered
    outbox,   \* outbox[k]: replies of child k nobody has read
    before,   \* before[k]: pexpect's `child.before`, the reply of the last match
    dead,     \* children that exited or were terminated
    closed    \* close() was the last operation to hold the lock

coroutines == <<owner, waiters, phase, result>>
threads    == <<thread, local, outcome>>
ptys       == <<inbox, outbox, before>>
vars       == <<state, coroutines, threads, ptys, dead, closed>>

Nothing       == [kind |-> "none", of |-> None]
Verdict(d)    == [kind |-> "verdict", of |-> d]
SystemError   == [kind |-> "system_error", of |-> None]
Raised        == [kind |-> "raised", of |-> None]
WallClock     == [kind |-> "wall_timeout", of |-> None]  \* system_error "REPL wall-time timeout"
Cancelled     == [kind |-> "cancelled", of |-> None]     \* CancelledError
Outcomes      == {Nothing, SystemError, Raised, WallClock, Cancelled}
                    \cup {Verdict(d) : d \in Calls}

Phases  == {"idle", "waiting", "running", "returned"}
Stages  == {"none", "queued", "starting", "loading", "sending",
            "expecting", "matched", "finished"}
Working == Stages \ {"none", "queued", "finished"}

TypeOK ==
    /\ state \in Calls \cup {None}
    /\ owner \in Calls \cup {None}
    /\ waiters \in Seq(Calls \cup {Closer})
    /\ phase \in [Calls -> Phases]
    /\ result \in [Calls -> Outcomes]
    /\ thread \in [Calls -> Stages]
    /\ local \in [Calls -> Calls \cup {None}]
    /\ outcome \in [Calls -> Outcomes]
    /\ inbox \in [Calls -> Seq(Calls)]
    /\ outbox \in [Calls -> Seq(Calls)]
    /\ before \in [Calls -> Calls \cup {None}]
    /\ dead \subseteq Calls
    /\ closed \in BOOLEAN

Init ==
    /\ state = None
    /\ owner = None
    /\ waiters = <<>>
    /\ phase = [c \in Calls |-> "idle"]
    /\ result = [c \in Calls |-> Nothing]
    /\ thread = [c \in Calls |-> "none"]
    /\ local = [c \in Calls |-> None]
    /\ outcome = [c \in Calls |-> Nothing]
    /\ inbox = [k \in Calls |-> <<>>]
    /\ outbox = [k \in Calls |-> <<>>]
    /\ before = [k \in Calls |-> None]
    /\ dead = {}
    /\ closed = FALSE

-----------------------------------------------------------------------------
(* The coroutines.                                                          *)

Verify(c) ==
    /\ phase[c] = "idle"
    /\ phase' = [phase EXCEPT ![c] = "waiting"]
    /\ waiters' = Append(waiters, c)
    /\ UNCHANGED <<state, owner, result, threads, ptys, dead, closed>>

\* `async with self._lock` succeeds and the job is submitted to the executor.
Acquire(c) ==
    /\ owner = None /\ waiters # <<>> /\ Head(waiters) = c /\ phase[c] = "waiting"
    /\ owner' = c
    /\ waiters' = Tail(waiters)
    /\ phase' = [phase EXCEPT ![c] = "running"]
    /\ thread' = [thread EXCEPT ![c] = "queued"]
    /\ closed' = FALSE
    /\ UNCHANGED <<state, result, local, outcome, ptys, dead>>

\* The future of the job completes in time: its value, or its exception.
Return(c) ==
    /\ phase[c] = "running" /\ thread[c] = "finished"
    /\ phase' = [phase EXCEPT ![c] = "returned"]
    /\ result' = [result EXCEPT ![c] = outcome[c]]
    /\ owner' = None
    /\ UNCHANGED <<state, waiters, threads, ptys, dead, closed>>

\* Mutant of WallTimeout: the guard only covers the wait for a reply.
WallTimeout_ReplyOnly(c) ==
    /\ c \in MayWall /\ phase[c] = "running" /\ thread[c] = "expecting"
    /\ dead' = dead \cup ({state} \ {None})
    /\ state' = None
    /\ phase' = [phase EXCEPT ![c] = "returned"]
    /\ result' = [result EXCEPT ![c] = WallClock]
    /\ owner' = None
    /\ UNCHANGED <<waiters, threads, ptys, closed>>

\* The wall-clock guard: whatever child self._state holds now is terminated,
\* the attribute is cleared, the lock is released; the thread goes on.
WallTimeout(c) ==
    /\ c \in MayWall /\ phase[c] = "running" /\ thread[c] # "finished"
    /\ dead' = dead \cup ({state} \ {None})
    /\ state' = None
    /\ phase' = [phase EXCEPT ![c] = "returned"]
    /\ result' = [result EXCEPT ![c] = WallClock]
    /\ owner' = None
    /\ UNCHANGED <<waiters, threads, ptys, closed>>

\* CancelledError out of `await wait_for(shield(fut))`: no handler runs, the
\* lock is released by `async with`, the shielded thread goes on.  (asyncio takes
\* a call cancelled while it waits out of the queue: it is a call not made.)
Cancel(c) ==
    /\ c \in MayCancel /\ phase[c] = "running"
    /\ phase' = [phase EXCEPT ![c] = "returned"]
    /\ result' = [result EXCEPT ![c] = Cancelled]
    /\ owner' = None
    /\ UNCHANGED <<state, waiters, threads, ptys, dead, closed>>

RequestClose ==
    /\ \A i \in 1..Len(waiters) : waiters[i] # Closer
    /\ ~closed
    /\ waiters' = Append(waiters, Closer)
    /\ UNCHANGED <<state, owner, phase, result, threads, ptys, dead, closed>>

\* Mutant of Close: the child is forgotten in the attribute but not terminated,
\* as if close() ran without clearing self._state.
Close_KeepsChild ==
    /\ owner = None /\ waiters # <<>> /\ Head(waiters) = Closer
    /\ waiters' = Tail(waiters)
    /\ closed' = TRUE
    /\ UNCHANGED <<state, owner, phase, result, threads, ptys, dead>>

\* close(): nothing inside its critical section awaits.
Close ==
    /\ owner = None /\ waiters # <<>> /\ Head(waiters) = Closer
    /\ waiters' = Tail(waiters)
    /\ dead' = dead \cup ({state} \ {None})
    /\ state' = None
    /\ closed' = TRUE
    /\ UNCHANGED <<owner, phase, result, threads, ptys>>

-----------------------------------------------------------------------------
(* The executor threads: _verify_blocking, one action per atomic access to  *)
(* self._state or to the child.                                             *)

\* The value of a late thread's future is read by nobody.
Finish(t, value) ==
    /\ thread' = [thread EXCEPT ![t] = "finished"]
    /\ outcome' = IF phase[t] = "running" THEN [outcome EXCEPT ![t] = value] ELSE outcome
    /\ local' = [local EXCEPT ![t] = None]

Goto(t, stage) == thread' = [thread EXCEPT ![t] = stage]

\* Mutant of StartJob: a child is spawned without testing self._state.
StartJob_AlwaysSpawns(t) ==
    /\ thread[t] = "queued"
    /\ Cardinality({u \in Calls : thread[u] \in Working}) < Workers
    /\ Goto(t, "starting")
    /\ local' = [local EXCEPT ![t] = t]
    /\ UNCHANGED <<state, coroutines, outcome, ptys, dead, closed>>

\* A worker picks the job up and tests `self._state is None`.
StartJob(t) ==
    /\ thread[t] = "queued"
    /\ Cardinality({u \in Calls : thread[u] \in Working}) < Workers
    /\ \/ /\ state = None
          /\ Goto(t, "starting")
          /\ local' = [local EXCEPT ![t] = t]
       \/ /\ state # None
          /\ Goto(t, "loading")
          /\ UNCHANGED local
    /\ UNCHANGED <<state, coroutines, outcome, ptys, dead, closed>>

\* self._state = self._start_blocking(): the imports were answered.  (A child
\* found dead here died after its answer: the answer is read from the pty.)
Store(t) ==
    /\ thread[t] = "starting"
    /\ state' = t
    /\ Goto(t, "loading")
    /\ UNCHANGED <<coroutines, local, outcome, ptys, dead, closed>>

\* In _start_blocking pexpect raises TIMEOUT or EOF, or the reply is not JSON:
\* the exception leaves _verify_blocking, the child dies with its last reference.
ImportFails(t) ==
    /\ thread[t] = "starting"
    /\ dead' = dead \cup {t}
    /\ Finish(t, Raised)
    /\ UNCHANGED <<state, coroutines, ptys, closed>>

\* state = self._state
Load(t) ==
    /\ thread[t] = "loading"
    /\ local' = [local EXCEPT ![t] = state]
    /\ Goto(t, "sending")
    /\ UNCHANGED <<state, coroutines, outcome, ptys, dead, closed>>

Send(t) ==
    /\ thread[t] = "sending" /\ local[t] # None
    /\ inbox' = [inbox EXCEPT ![local[t]] = Append(@, t)]
    /\ Goto(t, "expecting")
    /\ UNCHANGED <<state, coroutines, local, outcome, outbox, before, dead, closed>>

\* `state.env_id` on None, or a broken pty: the `except Exception` branch.
SendFails(t) ==
    /\ thread[t] = "sending" /\ (local[t] = None \/ local[t] \in dead)
    /\ state' = None
    /\ Finish(t, SystemError)
    /\ UNCHANGED <<coroutines, ptys, dead, closed>>

\* child.expect finds a delimiter and leaves the reply in child.before.
Match(t) ==
    /\ thread[t] = "expecting" /\ outbox[local[t]] # <<>>
    /\ before' = [before EXCEPT ![local[t]] = Head(outbox[local[t]])]
    /\ outbox' = [outbox EXCEPT ![local[t]] = Tail(@)]
    /\ Goto(t, "matched")
    /\ UNCHANGED <<state, coroutines, local, outcome, inbox, dead, closed>>

\* The reply is parsed into a verdict, or is not JSON; the child is kept.
Parse(t) ==
    /\ thread[t] = "matched"
    /\ \E value \in {Verdict(before[local[t]]), SystemError} : Finish(t, value)
    /\ UNCHANGED <<state, coroutines, ptys, dead, closed>>

\* Mutant of ExpectTimeout: the child is kept, its reply still on its way.
ExpectTimeout_KeepsChild(t) ==
    /\ thread[t] = "expecting"
    /\ Finish(t, SystemError)
    /\ UNCHANGED <<state, coroutines, ptys, dead, closed>>

\* pexpect.TIMEOUT: the child is dropped and terminated.
ExpectTimeout(t) ==
    /\ thread[t] = "expecting"
    /\ state' = None
    /\ dead' = dead \cup {local[t]}
    /\ Finish(t, SystemError)
    /\ UNCHANGED <<coroutines, ptys, closed>>

\* pexpect.EOF: the child is gone and its output is drained.
ExpectEOF(t) ==
    /\ thread[t] = "expecting" /\ local[t] \in dead /\ outbox[local[t]] = <<>>
    /\ state' = None
    /\ Finish(t, SystemError)
    /\ UNCHANGED <<coroutines, ptys, dead, closed>>

Job(t) ==
    \/ StartJob(t) \/ Store(t) \/ ImportFails(t) \/ Load(t)
    \/ Send(t) \/ SendFails(t) \/ Match(t) \/ Parse(t)
    \/ ExpectTimeout(t) \/ ExpectEOF(t)

-----------------------------------------------------------------------------
(* The REPL child: it answers its commands in order, and may crash.  A      *)
(* child nobody references any more is closed by pexpect's destructor and   *)
(* takes no part in the protocol.                                           *)

Children == {k \in Calls : state = k \/ \E t \in Calls : local[t] = k}
Alive    == Children \ dead

ChildReplies(k) ==
    /\ k \in Alive /\ inbox[k] # <<>>
    /\ outbox' = [outbox EXCEPT ![k] = Append(@, Head(inbox[k]))]
    /\ inbox' = [inbox EXCEPT ![k] = Tail(@)]
    /\ UNCHANGED <<state, coroutines, threads, before, dead, closed>>

ChildDies(k) ==
    /\ k \in Alive
    /\ dead' = dead \cup {k}
    /\ UNCHANGED <<state, coroutines, threads, ptys, closed>>

Next ==
    \/ \E c \in Calls : Verify(c) \/ Acquire(c) \/ Return(c) \/ WallTimeout(c) \/ Cancel(c)
    \/ RequestClose \/ Close
    \/ \E t \in Calls : Job(t)
    \/ \E k \in Calls : ChildReplies(k) \/ ChildDies(k)

\* The event loop runs every coroutine that can run and fires due timers.
\* Nothing is assumed of the threads or of the child: a thread may block in a
\* pty write for ever.
LoopFairness ==
    /\ \A c \in Calls : WF_vars(Acquire(c) \/ Return(c) \/ WallTimeout(c))
    /\ WF_vars(Close)

Spec == Init /\ [][Next]_vars /\ LoopFairness
-----------------------------------------------------------------------------
(* Properties                                                               *)

\* A verdict handed to a caller is the child's reply to that caller's own
\* code.  Keeping a child whose reply is still on its way would give the next
\* call the previous verdict: "not a lost measurement but a wrong one"
\* (_verify_blocking, the comment on pexpect.TIMEOUT).
VerdictIsOwn ==
    \A c \in Calls : result[c].kind = "verdict" => result[c].of = c

\* At most one command is in the conversation with a child at any time:
\* "calls are serialized" (class docstring of LeanReplVerifier).
InFlight == {t \in Calls : thread[t] \in {"expecting", "matched"}}
CallsSerialized == Cardinality(InFlight) <= 1

\* The calls whose caller left while the thread was still at work.
Abandoned == {c \in Calls : result[c].kind \in {"wall_timeout", "cancelled"}}

\* "Serializing keeps Mathlib resident in one place": a late thread may start a
\* child while its successor starts another, and may store its own over it, but
\* each caller that left costs at most one more Mathlib; with none, there is one.
MathlibsAreBounded == Cardinality(Alive) <= 1 + Cardinality(Abandoned)

\* After close() and until the next call, no child runs.
ClosedMeansQuiet == closed => Alive = {}

\* A child left in self._state between two calls owes no reply: the lock is
\* only released with the child idle or gone.
IdleChildOwesNothing ==
    owner = None /\ state # None => inbox[state] = <<>> /\ outbox[state] = <<>>

\* Every call returns, even if its thread and its child are wedged for ever:
\* "one wedged REPL cannot stall a campaign" (comment in verify).
EveryCallReturns ==
    \A c \in Calls : phase[c] = "waiting" ~> phase[c] = "returned"

\* What a caller may rely on when no call is abandoned: the abstract service.
Service == INSTANCE LeanService WITH
    serving <- owner,
    status  <- [c \in Calls |->
                  CASE phase[c] = "idle" -> "idle"
                    [] phase[c] = "returned" -> "answered"
                    [] OTHER -> "asked"],
    answer  <- [c \in Calls |-> IF result[c].kind = "verdict" THEN result[c].of ELSE None]

ServiceSpec == Service!Spec
=============================================================================
