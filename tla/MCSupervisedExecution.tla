----------------------- MODULE MCSupervisedExecution -----------------------
(* SupervisedExecution for TLC. *)
EXTENDS SupervisedExecution

(* What DeliveryEnds still asks something of.  A request that ended, an    *)
(* Agent that ended and a hidden Run with its request stay as they are.    *)
Pending(j) ==
    /\ req[j] \in {"NONE"} \cup ActiveRequest
    /\ owner[j] # NoAgent => apc[owner[j]] # "ended"
    /\ ~Hidden(j)

(* FairSpec as far as that: a behaviour that violates DeliveryEnds never   *)
(* leaves it.                                                              *)
DeliverySpec ==
    Init /\ [][Next /\ \E j \in Job : Pending(j)]_vars /\ Fairness
=============================================================================
