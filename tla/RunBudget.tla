----------------------------- MODULE RunBudget -----------------------------
(***************************************************************************)
(* What the API promises to those who submit Runs: a key is admitted once, *)
(* for one specification, while fewer than MaxInFlight Runs are in flight; *)
(* whoever is told "accepted" asked for that very specification, whoever   *)
(* is told "conflict" asked for another one.                               *)
(***************************************************************************)
EXTENDS Naturals, FiniteSets

CONSTANTS Client, Job, Body, Wants, NoBody, MaxInFlight

VARIABLES
    state,    \* of each key: "NONE", "LIVE" or "ENDED"
    admitted, \* the specification a key was admitted with
    told      \* what each client was told last, "nothing" before

vars == <<state, admitted, told>>

Live == {j \in Job : state[j] = "LIVE"}

Init ==
    /\ state = [j \in Job |-> "NONE"]
    /\ admitted = [j \in Job |-> NoBody]
    /\ told = [c \in Client |-> "nothing"]

Admit(c) ==
    LET j == Wants[c].job IN
    /\ state[j] = "NONE"
    /\ Cardinality(Live) < MaxInFlight
    /\ state' = [state EXCEPT ![j] = "LIVE"]
    /\ admitted' = [admitted EXCEPT ![j] = Wants[c].body]
    /\ UNCHANGED told

End(j) ==
    /\ state[j] = "LIVE"
    /\ state' = [state EXCEPT ![j] = "ENDED"]
    /\ UNCHANGED <<admitted, told>>

(* The one way past the budget: an executor writes RUNNING over a Run that *)
(* another one has closed (ExecutionOwnership, ReopenedOnlyUnfenced).      *)
Reopen(j) ==
    /\ state[j] = "ENDED"
    /\ state' = [state EXCEPT ![j] = "LIVE"]
    /\ UNCHANGED <<admitted, told>>

Tell(c, answer) ==
    /\ state[Wants[c].job] # "NONE"
    /\ answer = IF admitted[Wants[c].job] = Wants[c].body THEN "accepted" ELSE "conflict"
    /\ told' = [told EXCEPT ![c] = answer]
    /\ UNCHANGED <<state, admitted>>

Next ==
    \/ \E c \in Client : Admit(c) \/ Tell(c, "accepted") \/ Tell(c, "conflict")
    \/ \E j \in Job : End(j) \/ Reopen(j)

Spec == Init /\ [][Next]_vars
=============================================================================
