---------------------------- MODULE LeanService ----------------------------
(***************************************************************************)
(* What a caller of `verify` is promised, without threads or children:     *)
(* calls are served one at a time, and each is answered once, with the     *)
(* verdict on its own code or with no verdict (a system error).            *)
(***************************************************************************)
CONSTANTS Calls, None

VARIABLES
    serving,   \* the call being served, or None
    status,    \* [Calls -> {"idle", "asked", "answered"}]
    answer     \* answer[c]: whose verdict c was given, None for no verdict

svars == <<serving, status, answer>>

Init ==
    /\ serving = None
    /\ status = [c \in Calls |-> "idle"]
    /\ answer = [c \in Calls |-> None]

Ask(c) ==
    /\ status[c] = "idle"
    /\ status' = [status EXCEPT ![c] = "asked"]
    /\ UNCHANGED <<serving, answer>>

Serve(c) ==
    /\ serving = None /\ status[c] = "asked"
    /\ serving' = c
    /\ UNCHANGED <<status, answer>>

Answer(c) ==
    /\ serving = c
    /\ serving' = None
    /\ status' = [status EXCEPT ![c] = "answered"]
    /\ \E a \in {c, None} : answer' = [answer EXCEPT ![c] = a]

Next == \E c \in Calls : Ask(c) \/ Serve(c) \/ Answer(c)

Spec == Init /\ [][Next]_svars
=============================================================================
