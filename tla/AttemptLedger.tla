---------------------------- MODULE AttemptLedger ----------------------------
(***************************************************************************)
(* What a Run promises about its Attempts, whoever executes or recovers    *)
(* them: the Attempts form a ledger that only grows, every entry gets one  *)
(* verdict and keeps it, and a further Attempt is opened only after all    *)
(* earlier ones failed retryably and their executions are over.            *)
(***************************************************************************)
EXTENDS Naturals

CONSTANT Attempt    \* the attempt numbers of one Run, natural numbers

VARIABLES
    ledger,      \* the verdict of each attempt, "NONE" before it is opened
    execution    \* what became of the tool execution of each attempt

vars == <<ledger, execution>>

Verdicts == {"SUCCEEDED", "FAILED", "CANCELLED", "RETRYABLE_FAILURE", "ABANDONED"}

(* Verdicts that rest on an execution that was observed to end. *)
Observed == {"SUCCEEDED", "CANCELLED"}

Init ==
    /\ ledger = [n \in Attempt |-> "NONE"]
    /\ execution = [n \in Attempt |-> "idle"]

Open(n) ==
    /\ ledger[n] = "NONE"
    /\ \A m \in Attempt : m < n => /\ ledger[m] = "RETRYABLE_FAILURE"
                                   /\ execution[m] # "live"
    /\ ledger' = [ledger EXCEPT ![n] = "RUNNING"]
    /\ UNCHANGED execution

(* An attempt executes at most once; an abandoned one may still be launched *)
(* by an owner that has not noticed yet, which is why a verdict is final.   *)
Launch(n) ==
    /\ ledger[n] \in {"RUNNING", "ABANDONED"}
    /\ execution[n] = "idle"
    /\ execution' = [execution EXCEPT ![n] = "live"]
    /\ UNCHANGED ledger

Finish(n) ==
    /\ execution[n] = "live"
    /\ execution' = [execution EXCEPT ![n] = "ended"]
    /\ UNCHANGED ledger

Close(n, v) ==
    /\ ledger[n] = "RUNNING"
    /\ v \in Observed => execution[n] = "ended"
    /\ v # "ABANDONED" => execution[n] # "live"
    /\ ledger' = [ledger EXCEPT ![n] = v]
    /\ UNCHANGED execution

Next ==
    \E n \in Attempt :
        \/ Open(n)
        \/ Launch(n)
        \/ Finish(n)
        \/ \E v \in Verdicts : Close(n, v)

Spec == Init /\ [][Next]_vars
=============================================================================
