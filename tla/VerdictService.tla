---------------------------- MODULE VerdictService ----------------------------
(***************************************************************************)
(* What verify_lean_proof is to its callers, without futures, processes or *)
(* an order of eviction.  The end of a run answers every caller that waits *)
(* for its key.  A verdict may be remembered and given again, a system     *)
(* error never is.  A caller that is cancelled takes the other waiting     *)
(* callers of its key with it, all but the one whose run it is; until that *)
(* run ends, callers that arrive are called off as well.                   *)
(***************************************************************************)
CONSTANTS
    Calls, Keys, KeyOf,
    Alone,     \* calls that neither share a run nor are remembered
    None

VARIABLES
    status,    \* [Calls -> {"idle", "asked", "answered", "returned"}]
    answer,    \* [Calls -> what the caller gets, or Nothing]
    known,     \* [Keys -> a remembered verdict, or Nothing]
    doomed     \* keys whose callers were called off while their run goes on

\* What a caller gets: the verdict of a run, named by the call that started it.
\* A system error says nothing about the code and is never remembered.
Lasting == {"judged", "crashed"}
Kinds == Lasting \cup {"system_error"}
Verdict(c, kind) == [by |-> c, kind |-> kind]
Cancelled == [by |-> None, kind |-> "cancelled"]
Nothing == [by |-> None, kind |-> "none"]

svars == <<status, answer, known, doomed>>

Init ==
    /\ status = [c \in Calls |-> "idle"]
    /\ answer = [c \in Calls |-> Nothing]
    /\ known = [k \in Keys |-> Nothing]
    /\ doomed = {}

\* The callers that wait for a shared run of a key.
Waiting(k) == {c \in Calls \ Alone : KeyOf[c] = k /\ status[c] = "asked"}

\* c returns with a, the others of the group have the same answer waiting.
Answer(c, group, a) ==
    /\ status' = [d \in Calls |-> IF d = c THEN "returned"
                                  ELSE IF d \in group THEN "answered" ELSE status[d]]
    /\ answer' = [d \in Calls |-> IF d = c \/ d \in group THEN a ELSE answer[d]]

Ask(c) ==
    /\ status[c] = "idle"
    /\ c \in Alone \/ (known[KeyOf[c]] = Nothing /\ KeyOf[c] \notin doomed)
    /\ status' = [status EXCEPT ![c] = "asked"]
    /\ UNCHANGED <<answer, known, doomed>>

Recall(c) ==
    /\ status[c] = "idle" /\ c \notin Alone /\ known[KeyOf[c]] # Nothing
    /\ Answer(c, {}, known[KeyOf[c]])
    /\ UNCHANGED <<known, doomed>>

\* A caller that arrives while the callers of its key are called off.
CalledOff(c) ==
    /\ status[c] = "idle" /\ c \notin Alone /\ KeyOf[c] \in doomed
    /\ Answer(c, {}, Cancelled)
    /\ UNCHANGED <<known, doomed>>

\* A run that cannot be started.
Fail(c) ==
    /\ status[c] = "idle"
    /\ Answer(c, {}, Verdict(c, "system_error"))
    /\ UNCHANGED <<known, doomed>>

\* What is remembered after a shared run of c; other keys may be forgotten.
Remember(c, kind) ==
    \E forgotten \in SUBSET (Keys \ {KeyOf[c]}) :
        known' = [k \in Keys |-> IF k = KeyOf[c] /\ kind \in Lasting THEN Verdict(c, kind)
                                 ELSE IF k \in forgotten THEN Nothing ELSE known[k]]

\* The run that c asked for ends.
Land(c, kind) ==
    /\ status[c] = "asked"
    /\ IF c \in Alone
       THEN Answer(c, {}, Verdict(c, kind)) /\ UNCHANGED <<known, doomed>>
       ELSE /\ Answer(c, Waiting(KeyOf[c]), Verdict(c, kind))
            /\ Remember(c, kind)
            /\ doomed' = doomed \ {KeyOf[c]}

Return(c) ==
    /\ status[c] = "answered"
    /\ status' = [status EXCEPT ![c] = "returned"]
    /\ UNCHANGED <<answer, known, doomed>>

\* Cancellation of the caller whose run it is, of one that waits for the run of
\* another, and of one that has its answer but did not resume yet.
Abort(c) ==
    /\ status[c] = "asked"
    /\ IF c \in Alone
       THEN Answer(c, {}, Cancelled) /\ UNCHANGED doomed
       ELSE Answer(c, Waiting(KeyOf[c]), Cancelled) /\ doomed' = doomed \ {KeyOf[c]}
    /\ UNCHANGED known

Leave(c) ==
    /\ status[c] = "asked" /\ c \notin Alone
    /\ \E runner \in Waiting(KeyOf[c]) \ {c} :
          LET group == Waiting(KeyOf[c]) \ {runner} IN
          /\ status' = [d \in Calls |-> IF d \in group THEN "answered" ELSE status[d]]
          /\ answer' = [d \in Calls |-> IF d \in group THEN Cancelled ELSE answer[d]]
    /\ doomed' = doomed \cup {KeyOf[c]}
    /\ UNCHANGED known

GiveUp(c) ==
    /\ status[c] = "answered"
    /\ Answer(c, {}, Cancelled)
    /\ UNCHANGED <<known, doomed>>

Next ==
    \E c \in Calls :
        \/ Ask(c) \/ Recall(c) \/ CalledOff(c) \/ Fail(c)
        \/ \E kind \in Kinds : Land(c, kind)
        \/ Return(c) \/ Abort(c) \/ Leave(c) \/ GiveUp(c)

Spec == Init /\ [][Next]_svars
=============================================================================
