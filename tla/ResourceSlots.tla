--------------------------- MODULE ResourceSlots ----------------------------
(***************************************************************************)
(* The device adapters (adapters.py): callers run jobs on adapters; the    *)
(* adapters of one resource_key exclude each other by a lock of the        *)
(* process that is never waited for; a real adapter opens its client       *)
(* (clients.py) under the lock and closes it before it gives the lock up.  *)
(* Every call on the client may raise.                                     *)
(***************************************************************************)
CONSTANTS
    Caller, Adapter, Resource,
    ResourceOf,  \* the resource_key of each adapter
    Real,        \* the adapters with a client, the others being fixtures
    Nobody

ASSUME SlotsAssumption ==
    /\ ResourceOf \in [Adapter -> Resource]
    /\ Real \subseteq Adapter
    /\ Nobody \notin Caller \cup Adapter

VARIABLES
    lock,        \* the caller that holds the lock of a resource_key
    opened,      \* the real adapters whose client is connected
    at, on       \* where a caller is in run(), and on which adapter

slotVars == <<lock, opened, at, on>>

SlotsTypeOK ==
    /\ lock \in [Resource -> Caller \cup {Nobody}]
    /\ opened \subseteq Real
    /\ at \in [Caller -> {"out", "acquired", "executing", "collecting", "releasing", "closed"}]
    /\ on \in [Caller -> Adapter \cup {Nobody}]

SlotsInit ==
    /\ lock = [r \in Resource |-> Nobody]
    /\ opened = {}
    /\ at = [c \in Caller |-> "out"]
    /\ on = [c \in Caller |-> Nobody]

Go(c, from, to) == at[c] = from /\ at' = [at EXCEPT ![c] = to]

Unlock(c) ==
    /\ lock' = [lock EXCEPT ![ResourceOf[on[c]]] = Nobody]
    /\ on' = [on EXCEPT ![c] = Nobody]

(* acquire(blocking=False); a held lock is answered by resource_unavailable. *)
Acquire(c, a) ==
    /\ lock[ResourceOf[a]] = Nobody
    /\ Go(c, "out", IF a \in Real THEN "acquired" ELSE "executing")
    /\ lock' = [lock EXCEPT ![ResourceOf[a]] = c]
    /\ on' = [on EXCEPT ![c] = a]
    /\ UNCHANGED opened

OpenClient(c) ==
    /\ Go(c, "acquired", "executing")
    /\ opened' = opened \cup {on[c]}
    /\ UNCHANGED <<lock, on>>

(* Mutant of OpenFails: run() has no lease yet whose release it could ensure. *)
OpenFailsHolding(c) ==
    /\ Go(c, "acquired", "out")
    /\ UNCHANGED <<lock, on, opened>>

OpenFails(c) ==
    /\ Go(c, "acquired", "out")
    /\ Unlock(c)
    /\ UNCHANGED opened

(* execute and collect, whose errors lead to the same finally clause.      *)
Execute(c) ==
    /\ Go(c, "executing", "collecting") \/ Go(c, "executing", "releasing")
    /\ UNCHANGED <<lock, on, opened>>

Collect(c) ==
    /\ Go(c, "collecting", "releasing")
    /\ UNCHANGED <<lock, on, opened>>

(* Mutant of Close: the lock is given up with the client, and by Release again. *)
CloseUnlocking(c) ==
    /\ Go(c, "releasing", "closed")
    /\ lock' = [lock EXCEPT ![ResourceOf[on[c]]] = Nobody]
    /\ UNCHANGED <<opened, on>>

(* close(), which may leave a device handle behind when it raises.         *)
Close(c) ==
    /\ Go(c, "releasing", "closed")
    /\ opened' \in {opened, opened \ {on[c]}}
    /\ UNCHANGED <<lock, on>>

Release(c) ==
    /\ Go(c, "closed", "out")
    /\ Unlock(c)
    /\ UNCHANGED opened

SlotsNext ==
    \E c \in Caller :
        \/ \E a \in Adapter : Acquire(c, a)
        \/ OpenClient(c) \/ OpenFails(c)
        \/ Execute(c) \/ Collect(c)
        \/ Close(c) \/ Release(c)

SlotsSpec == SlotsInit /\ [][SlotsNext]_slotVars

(* A resource is held by nobody but a caller that is still inside run():   *)
(* no error on any path leaves a device unavailable for good               *)
(* (adapters.py:83, 150, 162).                                             *)
SlotReturned ==
    \A r \in Resource, c \in Caller : lock[r] = c => at[c] # "out" /\ ResourceOf[on[c]] = r

(* A caller that uses an adapter holds the resource, alone, and its client *)
(* stays connected until the caller closes it itself: what an earlier user *)
(* does while leaving never hits the next one (adapters.py:162).           *)
UserIsUndisturbed ==
    \A c \in Caller : at[c] \in {"executing", "collecting", "releasing"} =>
        /\ lock[ResourceOf[on[c]]] = c
        /\ on[c] \in Real => on[c] \in opened
=============================================================================
