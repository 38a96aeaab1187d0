------------------------- MODULE ExecutionOwnership -------------------------
(***************************************************************************)
(* Ownership of one Run between the executor that claimed it, its OpenSTA  *)
(* child processes, and the reconcilers that close it when its executor is *)
(* gone: JobService._execute, its heartbeat thread and recover_stale_runs, *)
(* PostgresWorker.drain, and the statements of the two stores they use.    *)
(*                                                                         *)
(* A process is an operating-system process that holds a JobService.  Its  *)
(* execution thread and its recovery pass interleave with those of every   *)
(* other process at the granularity of the store's transactions.           *)
(*                                                                         *)
(* A stored deadline is kept as the time it has left (deadline - now), so  *)
(* "deadline < now" is "left = -1", and Tick lets one unit of time pass.   *)
(* Durations are counted in such units and nothing bounds how many pass    *)
(* between two steps of a process.                                         *)
(***************************************************************************)
EXTENDS Integers

CONSTANTS
    Proc,            \* processes
    NoProc,          \* NULL in a column that names an owner's token
    MaxAttempts,     \* JobService.max_attempts
    LeaseTicks,      \* lease_seconds, also the age at which a Run is stale
    ClaimTicks,      \* recovery_lease_seconds
    GraceTicks,      \* orphan_grace_seconds
    SharedQueue,     \* TRUE: execution_mode "external", workers poll the store
                     \* FALSE: "local", the submitting process executes
    AtomicFinalize,  \* TRUE: SQLite rolls back when the Run row is not RUNNING
                     \* FALSE: PostgreSQL commits the Attempt row alone
    PsAvailable,     \* the host has the ps command
    MaxCrashes       \* bound on the crashes a behaviour contains

ASSUME ProcAssumption == NoProc \notin Proc
ASSUME BoundAssumption ==
    /\ MaxAttempts \in Nat \ {0}
    /\ LeaseTicks \in Nat \ {0}
    /\ ClaimTicks \in Nat \ {0}
    /\ GraceTicks \in Nat \ {0}
    /\ MaxCrashes \in Nat
ASSUME ModeAssumption ==
    SharedQueue \in BOOLEAN /\ AtomicFinalize \in BOOLEAN /\ PsAvailable \in BOOLEAN

Attempt == 1..MaxAttempts

VARIABLES
    \* the row of the Run
    run,          \* status
    runLeft,      \* time until updated_at + lease_seconds, 0 when stale
    \* the rows of its Attempts
    att,          \* status, "NONE" when there is no row
    lease,        \* lease_token, named by the process that drew it
    leaseLeft,    \* lease_expires_at - now
    claim,        \* recovery_token, named by the process that drew it
    claimLeft,    \* recovery_expires_at - now
    pid,          \* process_pid, process_identity, process_group_id are set
    graceLeft,    \* orphan_deadline - now, 0 when reached
    \* the operating system
    child,        \* what became of the child of each Attempt
    up,           \* the process runs
    crashes,      \* crashes so far
    \* the execution thread of each process
    epc,          \* where it is in _execute, "idle" when it has no future
    en,           \* attempt_no
    eout,         \* how the adapter call ended
    beat,         \* its heartbeat thread runs
    \* the recovery pass of each process
    rpc,          \* where it is in recover_stale_runs
    rn,           \* the attempt it read last
    rexp,         \* list_expired_leased_attempts() of this pass
    rpid          \* process_pid is set in the attempt it read

runVars  == <<run, runLeft>>
attVars  == <<att, lease, leaseLeft, claim, claimLeft, pid, graceLeft>>
execVars == <<epc, en, eout, beat>>
recVars  == <<rpc, rn, rexp, rpid>>
vars == <<runVars, attVars, child, up, crashes, execVars, recVars>>

RunTerminal == {"SUCCEEDED", "FAILED", "CANCELLED", "TIMED_OUT"}
AttTerminal == {"SUCCEEDED", "FAILED", "CANCELLED", "RETRYABLE_FAILURE", "ABANDONED"}
Outcome == {"none", "ok", "rejected", "cancelled", "timeout", "transport", "exception"}

TypeOK ==
    /\ run \in {"QUEUED", "RUNNING"} \cup RunTerminal
    /\ runLeft \in 0..LeaseTicks
    /\ att \in [Attempt -> {"NONE", "RUNNING"} \cup AttTerminal]
    /\ lease \in [Attempt -> Proc \cup {NoProc}]
    /\ leaseLeft \in [Attempt -> -1..LeaseTicks]
    /\ claim \in [Attempt -> Proc \cup {NoProc}]
    /\ claimLeft \in [Attempt -> -1..ClaimTicks]
    /\ pid \in [Attempt -> BOOLEAN]
    /\ graceLeft \in [Attempt -> 0..GraceTicks]
    /\ child \in [Attempt -> {"none", "alive", "signalled", "dead",
                             "reused", "hit", "foreign"}]
    /\ up \in [Proc -> BOOLEAN]
    /\ crashes \in 0..MaxCrashes
    /\ epc \in [Proc -> {"idle", "start", "record", "lease", "spawn", "observe",
                         "wait", "check", "finalize", "settle", "sleep"}]
    /\ en \in [Proc -> Attempt]
    /\ eout \in [Proc -> Outcome]
    /\ beat \in [Proc -> BOOLEAN]
    /\ rpc \in [Proc -> {"idle", "scan", "read", "fail", "claim", "look",
                         "release", "abandon"}]
    /\ rn \in [Proc -> Attempt]
    /\ rexp \in [Proc -> SUBSET Attempt]
    /\ rpid \in [Proc -> BOOLEAN]
    /\ \A p \in Proc : epc[p] \in {"settle", "sleep"} => en[p] < MaxAttempts

Init ==
    /\ run = "QUEUED"
    /\ runLeft = LeaseTicks
    /\ att = [n \in Attempt |-> "NONE"]
    /\ lease = [n \in Attempt |-> NoProc]
    /\ leaseLeft = [n \in Attempt |-> -1]
    /\ claim = [n \in Attempt |-> NoProc]
    /\ claimLeft = [n \in Attempt |-> -1]
    /\ pid = [n \in Attempt |-> FALSE]
    /\ graceLeft = [n \in Attempt |-> 0]
    /\ child = [n \in Attempt |-> "none"]
    /\ up = [p \in Proc |-> TRUE]
    /\ crashes = 0
    /\ IF SharedQueue
       THEN epc = [p \in Proc |-> "idle"]
       ELSE \E s \in Proc : epc = [p \in Proc |-> IF p = s THEN "start" ELSE "idle"]
    /\ en = [p \in Proc |-> 1]
    /\ eout = [p \in Proc |-> "none"]
    /\ beat = [p \in Proc |-> FALSE]
    /\ rpc = [p \in Proc |-> "idle"]
    /\ rn = [p \in Proc |-> 1]
    /\ rexp = [p \in Proc |-> {}]
    /\ rpid = [p \in Proc |-> FALSE]

-----------------------------------------------------------------------------
(* The conditions of the stores' conditional updates.  A definition whose  *)
(* comment begins with "Faulty:" is a variant no step uses, stated to show *)
(* which property depends on what it drops.                                *)

(* No lease, or an expired one: what acquire_attempt_lease requires. *)
LeaseFree(n) ==
    /\ att[n] = "RUNNING"
    /\ lease[n] = NoProc \/ leaseLeft[n] < 0

LeaseExpired(n) ==
    /\ att[n] = "RUNNING"
    /\ lease[n] # NoProc
    /\ leaseLeft[n] < 0

(* Faulty: a heartbeat revives an expired lease. *)
LeaseHeldDespiteExpiry(n, p) == att[n] = "RUNNING" /\ lease[n] = p

(* What heartbeat_attempt requires: a late heartbeat revives nothing. *)
LeaseHeld(n, p) ==
    /\ att[n] = "RUNNING"
    /\ lease[n] = p
    /\ leaseLeft[n] >= 0

(* Faulty: a recovery claim whose holder crashed is never taken over. *)
NeverClaimed(n) == claim[n] = NoProc

NoLiveClaim(n) == claim[n] = NoProc \/ claimLeft[n] < 0

(* Faulty: the lease token alone admits a terminal write. *)
WriteFenceWithoutExpiry(n, p) == att[n] = "RUNNING" /\ lease[n] = p

(* What transition_attempt and finalize_attempt_and_run require. *)
WriteFence(n, p) == LeaseHeld(n, p) /\ NoLiveClaim(n)

(* What claim_recovery requires. *)
Claimable(n) == LeaseExpired(n) /\ NoLiveClaim(n)

(* What release_recovery_claim and finalize_recovery require. *)
ClaimHeld(n, p) == att[n] = "RUNNING" /\ claim[n] = p

(* The attempt row closed with verdict v together with the Run row.  When  *)
(* the Run is not RUNNING its update matches no row and the call returns   *)
(* False: SQLite has rolled the Attempt back, PostgreSQL commits it.       *)
CloseTogether(n, v, r) ==
    /\ att' = [att EXCEPT ![n] = v]
    /\ run' = r
    /\ runLeft' = LeaseTicks

CloseAttemptOnly(n, v) ==
    /\ att' = IF AtomicFinalize THEN att ELSE [att EXCEPT ![n] = v]
    /\ UNCHANGED runVars

(* Faulty: the Run is written whatever its status. *)
CloseBothAnyRun(n, v, r) == CloseTogether(n, v, r)

CloseBoth(n, v, r) ==
    IF run = "RUNNING" THEN CloseTogether(n, v, r) ELSE CloseAttemptOnly(n, v)

-----------------------------------------------------------------------------
(* The execution thread. *)

(* The thread's future is done.  Its exception, if it raised one, ends a   *)
(* polling worker, where drain re-raises it, unless drain collected the    *)
(* future in its wait for a free slot; otherwise it stays in the future.   *)
Leave(p, raised) ==
    /\ epc' = [epc EXCEPT ![p] = "idle"]
    /\ beat' = [beat EXCEPT ![p] = FALSE]
    /\ \/ UNCHANGED up
       \/ /\ raised /\ SharedQueue
          /\ up' = [up EXCEPT ![p] = FALSE]

(* Faulty: the claim does not look at the status it replaces. *)
ClaimUnfinishedRun(p) ==
    /\ SharedQueue
    /\ epc[p] = "idle" /\ rpc[p] = "idle"
    /\ run \in {"QUEUED", "RUNNING"}
    /\ run' = "RUNNING"
    /\ runLeft' = LeaseTicks
    /\ epc' = [epc EXCEPT ![p] = "start"]
    /\ UNCHANGED <<attVars, child, up, crashes, en, eout, beat, recVars>>

(* A worker takes the queued Run: one UPDATE, rows locked by others skipped. *)
ClaimNextRun(p) ==
    /\ SharedQueue
    /\ epc[p] = "idle" /\ rpc[p] = "idle"
    /\ run = "QUEUED"
    /\ run' = "RUNNING"
    /\ runLeft' = LeaseTicks
    /\ epc' = [epc EXCEPT ![p] = "start"]
    /\ UNCHANGED <<attVars, child, up, crashes, en, eout, beat, recVars>>

(* Faulty: the Run is cancelled although its future could not be.          *)
CancelWithoutFuture(p) ==
    /\ ~SharedQueue
    /\ epc[p] = "start"
    /\ run' = "CANCELLED"
    /\ runLeft' = LeaseTicks
    /\ UNCHANGED <<attVars, child, up, crashes, execVars, recVars>>

(* JobService.cancel of a future that has not started. *)
CancelBeforeExecution(p) ==
    /\ ~SharedQueue
    /\ epc[p] = "start"
    /\ run' = "CANCELLED"
    /\ runLeft' = LeaseTicks
    /\ epc' = [epc EXCEPT ![p] = "idle"]
    /\ UNCHANGED <<attVars, child, up, crashes, en, eout, beat, recVars>>

(* update_run(status="RUNNING"), whatever the Run's status is by now. *)
Start(p) ==
    /\ epc[p] = "start"
    /\ run' = "RUNNING"
    /\ runLeft' = LeaseTicks
    /\ en' = [en EXCEPT ![p] = 1]
    /\ epc' = [epc EXCEPT ![p] = "record"]
    /\ UNCHANGED <<attVars, child, up, crashes, eout, beat, recVars>>

(* record_attempt(attempt_no, "RUNNING"): an upsert without a fence. *)
RecordAttempt(p) ==
    /\ epc[p] = "record"
    /\ att' = [att EXCEPT ![en[p]] = "RUNNING"]
    /\ epc' = [epc EXCEPT ![p] = "lease"]
    /\ UNCHANGED <<runVars, lease, leaseLeft, claim, claimLeft, pid, graceLeft,
                   child, up, crashes, en, eout, beat, recVars>>

AcquireLease(p) ==
    /\ epc[p] = "lease"
    /\ IF LeaseFree(en[p])
       THEN /\ lease' = [lease EXCEPT ![en[p]] = p]
            /\ leaseLeft' = [leaseLeft EXCEPT ![en[p]] = LeaseTicks]
            /\ epc' = [epc EXCEPT ![p] = "spawn"]
            /\ beat' = [beat EXCEPT ![p] = TRUE]
            /\ UNCHANGED eout
       ELSE /\ epc' = [epc EXCEPT ![p] = "finalize"]
            /\ eout' = [eout EXCEPT ![p] = "exception"]
            /\ UNCHANGED <<lease, leaseLeft, beat>>
    /\ UNCHANGED <<runVars, att, claim, claimLeft, pid, graceLeft,
                   child, up, crashes, en, recVars>>

(* adapter.run: the wait for a resource slot, then Popen. *)
SpawnChild(p) ==
    /\ epc[p] = "spawn"
    /\ child' = [child EXCEPT ![en[p]] = "alive"]
    /\ epc' = [epc EXCEPT ![p] = "observe"]
    /\ UNCHANGED <<runVars, attVars, up, crashes, en, eout, beat, recVars>>

(* How a thread goes on when its adapter call raised or returned o. *)
AfterAdapter(p, o) ==
    /\ eout' = [eout EXCEPT ![p] = o]
    /\ epc' = [epc EXCEPT ![p] =
                 IF o \in {"ok", "rejected"} THEN "check"
                 ELSE IF o \in {"timeout", "transport"} /\ en[p] < MaxAttempts THEN "settle"
                 ELSE "finalize"]

(* The adapter raises without a child: a missing input, a refused connection. *)
FailToSpawn(p) ==
    /\ epc[p] = "spawn"
    /\ \E o \in {"exception", "transport"} : AfterAdapter(p, o)
    /\ UNCHANGED <<runVars, attVars, child, up, crashes, en, beat, recVars>>

(* _record_adapter_process, called back after Popen; its False is ignored. *)
RecordProcess(p) ==
    LET n == en[p] IN
    /\ epc[p] = "observe"
    /\ epc' = [epc EXCEPT ![p] = "wait"]
    /\ IF att[n] = "RUNNING" /\ lease[n] = p
       THEN /\ pid' = [pid EXCEPT ![n] = TRUE]
            /\ graceLeft' = [graceLeft EXCEPT ![n] = GraceTicks]
       ELSE UNCHANGED <<pid, graceLeft>>
    /\ UNCHANGED <<runVars, att, lease, leaseLeft, claim, claimLeft,
                   child, up, crashes, en, eout, beat, recVars>>

(* communicate() returned: the child's exit was collected.  "rejected"     *)
(* stands for a nonzero exit or a report that does not validate.           *)
ChildCollected(p) ==
    /\ epc[p] = "wait"
    /\ child[en[p]] = "dead"
    /\ \E o \in {"ok", "rejected"} \cup (IF SharedQueue THEN {} ELSE {"cancelled"}) :
           AfterAdapter(p, o)
    /\ UNCHANGED <<runVars, attVars, child, up, crashes, en, beat, recVars>>

(* Faulty: the timeout is reported while the child keeps running. *)
ChildTimesOutAlive(p) ==
    /\ epc[p] = "wait"
    /\ child[en[p]] \in {"alive", "signalled"}
    /\ AfterAdapter(p, "timeout")
    /\ UNCHANGED <<runVars, attVars, child, up, crashes, en, beat, recVars>>

(* communicate() timed out: the child's group is killed and collected.     *)
ChildTimesOut(p) ==
    /\ epc[p] = "wait"
    /\ child[en[p]] \in {"alive", "signalled"}
    /\ child' = [child EXCEPT ![en[p]] = "dead"]
    /\ AfterAdapter(p, "timeout")
    /\ UNCHANGED <<runVars, attVars, up, crashes, en, beat, recVars>>

(* heartbeat_attempt after the adapter returned, before the report is parsed. *)
CheckLease(p) ==
    /\ epc[p] = "check"
    /\ epc' = [epc EXCEPT ![p] = "finalize"]
    /\ IF LeaseHeld(en[p], p)
       THEN /\ leaseLeft' = [leaseLeft EXCEPT ![en[p]] = LeaseTicks]
            /\ UNCHANGED eout
       ELSE /\ eout' = [eout EXCEPT ![p] = "exception"]
            /\ UNCHANGED leaseLeft
    /\ UNCHANGED <<runVars, att, lease, claim, claimLeft, pid, graceLeft,
                   child, up, crashes, en, beat, recVars>>

AttVerdict(o) ==
    CASE o = "ok" -> "SUCCEEDED"
      [] o = "cancelled" -> "CANCELLED"
      [] o \in {"timeout", "transport"} -> "RETRYABLE_FAILURE"
      [] OTHER -> "FAILED"

(* Faulty: a report is taken for a success whatever the tool's exit code. *)
RunVerdictOfReport(o) == IF o \in {"ok", "rejected"} THEN "SUCCEEDED" ELSE "FAILED"

RunVerdict(o) ==
    CASE o = "ok" -> "SUCCEEDED"
      [] o = "cancelled" -> "CANCELLED"
      [] o = "timeout" -> "TIMED_OUT"
      [] OTHER -> "FAILED"

(* finalize_attempt_and_run.  When it returns False the service raises; a  *)
(* result's finalization stands inside the try, whose last handler tries   *)
(* once more with FAILED, and a handler's finalization leaves the thread.  *)
Finalize(p) ==
    LET n == en[p]
        accepted == WriteFence(n, p) /\ run = "RUNNING"
    IN
    /\ epc[p] = "finalize"
    /\ IF WriteFence(n, p)
       THEN CloseBoth(n, AttVerdict(eout[p]), RunVerdict(eout[p]))
       ELSE UNCHANGED <<runVars, att>>
    /\ IF ~accepted /\ eout[p] \in {"ok", "rejected"}
       THEN /\ eout' = [eout EXCEPT ![p] = "exception"]
            /\ UNCHANGED <<epc, beat, up>>
       ELSE /\ Leave(p, ~accepted)
            /\ UNCHANGED eout
    /\ UNCHANGED <<lease, leaseLeft, claim, claimLeft, pid, graceLeft,
                   child, crashes, en, recVars>>

(* transition_attempt to RETRYABLE_FAILURE before the retry delay. *)
SettleRetry(p) ==
    /\ epc[p] = "settle"
    /\ IF WriteFence(en[p], p)
       THEN /\ att' = [att EXCEPT ![en[p]] = "RETRYABLE_FAILURE"]
            /\ epc' = [epc EXCEPT ![p] = "sleep"]
            /\ beat' = [beat EXCEPT ![p] = FALSE]
            /\ UNCHANGED up
       ELSE Leave(p, TRUE) /\ UNCHANGED att
    /\ UNCHANGED <<runVars, lease, leaseLeft, claim, claimLeft, pid, graceLeft,
                   child, crashes, en, eout, recVars>>

NextAttempt(p) ==
    /\ epc[p] = "sleep"
    /\ en' = [en EXCEPT ![p] = @ + 1]
    /\ epc' = [epc EXCEPT ![p] = "record"]
    /\ UNCHANGED <<runVars, attVars, child, up, crashes, eout, beat, recVars>>

(* One turn of _heartbeat_loop; the thread ends at its first refusal. *)
Heartbeat(p) ==
    /\ beat[p]
    /\ IF LeaseHeld(en[p], p)
       THEN /\ leaseLeft' = [leaseLeft EXCEPT ![en[p]] = LeaseTicks]
            /\ UNCHANGED beat
       ELSE /\ beat' = [beat EXCEPT ![p] = FALSE]
            /\ UNCHANGED leaseLeft
    /\ UNCHANGED <<runVars, att, lease, claim, claimLeft, pid, graceLeft,
                   child, up, crashes, epc, en, eout, recVars>>

ExecStep(p) ==
    \/ ClaimNextRun(p) \/ CancelBeforeExecution(p)
    \/ Start(p) \/ RecordAttempt(p) \/ AcquireLease(p)
    \/ SpawnChild(p) \/ FailToSpawn(p) \/ RecordProcess(p)
    \/ ChildCollected(p) \/ ChildTimesOut(p)
    \/ CheckLease(p) \/ Finalize(p) \/ SettleRetry(p) \/ NextAttempt(p)

-----------------------------------------------------------------------------
(* The recovery pass.  A polling worker recovers only between drains, when *)
(* it executes nothing; a local service may be asked at any time.          *)

NoAttempt == \A n \in Attempt : att[n] = "NONE"

IsLastAttempt(n) ==
    /\ att[n] # "NONE"
    /\ \A m \in Attempt : m > n => att[m] = "NONE"

(* list_expired_leased_attempts *)
ScanExpired(p) ==
    /\ rpc[p] = "idle"
    /\ SharedQueue => epc[p] = "idle"
    /\ rexp' = [rexp EXCEPT ![p] = {n \in Attempt : LeaseExpired(n)}]
    /\ rpc' = [rpc EXCEPT ![p] = "scan"]
    /\ UNCHANGED <<runVars, attVars, child, up, crashes, execVars, rn, rpid>>

(* The first query of list_stale_running: is this Run RUNNING and stale? *)
ScanStale(p) ==
    /\ rpc[p] = "scan"
    /\ rpc' = [rpc EXCEPT ![p] =
                 IF run = "RUNNING" /\ runLeft = 0 THEN "read" ELSE "idle"]
    /\ UNCHANGED <<runVars, attVars, child, up, crashes, execVars, rn, rexp, rpid>>

(* Faulty: recovery trusts the store's timestamps alone. *)
FutureIgnored(p) == FALSE

(* The Run's future is in this process and not done. *)
FutureLive(p) == epc[p] # "idle"

(* get_run, for every stale Run before any of them is looked into, and the *)
(* decisions taken on the rows it returned.  The second disjunct's branch  *)
(* is the skip of a lease not seen expired.                                *)
ReadRun(p) ==
    /\ rpc[p] = "read"
    /\ \/ /\ NoAttempt
          /\ rpc' = [rpc EXCEPT ![p] = "fail"]
          /\ UNCHANGED <<rn, rpid>>
       \/ \E n \in Attempt :
             /\ IsLastAttempt(n)
             /\ rpc' = [rpc EXCEPT ![p] =
                          IF lease[n] # NoProc /\ n \notin rexp[p] THEN "idle" ELSE "claim"]
             /\ rn' = [rn EXCEPT ![p] = n]
             /\ rpid' = [rpid EXCEPT ![p] = pid[n]]
    /\ UNCHANGED <<runVars, attVars, child, up, crashes, execVars, rexp>>

(* The future is looked at after the rows were read.  A future that is     *)
(* done stays done, so its guard stands in the step that follows the look. *)
SkipLive(p) ==
    /\ rpc[p] \in {"fail", "claim"}
    /\ FutureLive(p)
    /\ rpc' = [rpc EXCEPT ![p] = "idle"]
    /\ UNCHANGED <<runVars, attVars, child, up, crashes, execVars, rn, rexp, rpid>>

(* update_run(status="FAILED") for the Run that had no Attempt: no fence.  *)
FailRunWithoutAttempt(p) ==
    /\ rpc[p] = "fail"
    /\ ~FutureLive(p)
    /\ run' = "FAILED"
    /\ runLeft' = LeaseTicks
    /\ rpc' = [rpc EXCEPT ![p] = "idle"]
    /\ UNCHANGED <<attVars, child, up, crashes, execVars, rn, rexp, rpid>>

ClaimRecovery(p) ==
    /\ rpc[p] = "claim"
    /\ ~FutureLive(p)
    /\ IF Claimable(rn[p])
       THEN /\ claim' = [claim EXCEPT ![rn[p]] = p]
            /\ claimLeft' = [claimLeft EXCEPT ![rn[p]] = ClaimTicks]
            /\ rpc' = [rpc EXCEPT ![p] = "look"]
       ELSE /\ rpc' = [rpc EXCEPT ![p] = "idle"]
            /\ UNCHANGED <<claim, claimLeft>>
    /\ UNCHANGED <<runVars, att, lease, leaseLeft, pid, graceLeft,
                   child, up, crashes, execVars, rn, rexp, rpid>>

(* Exited but not yet collected by the parent that waits for it. *)
Zombie(n) ==
    /\ child[n] = "dead"
    /\ \E p \in Proc : epc[p] \in {"observe", "wait"} /\ en[p] = n

LiveChild(n) == child[n] \in {"alive", "signalled"}

(* The pid of the ended child names a foreign process, which "hit" records *)
(* to have been signalled in the child's place.                            *)
Stranger(n) == child[n] \in {"reused", "hit"}

(* os.kill(pid, 0) finds a process it may signal. *)
PidExists(n) == LiveChild(n) \/ Stranger(n) \/ Zombie(n)

(* os.kill(pid, 0) raises PermissionError: the pid now is another user's.  *)
PidForbidden(n) == child[n] = "foreign"

(* Faulty: whatever has the pid is taken for the child. *)
AnyProcessMatches(n) == PidExists(n)

(* process_identity is None where ps cannot be run, and None matches every *)
(* process; ps shows another command for a zombie and for a foreign one.   *)
IdentityMatches(n) == LiveChild(n) \/ ~PsAvailable

(* SIGTERM to the recorded process group. *)
AfterSignal(n) ==
    [child EXCEPT ![n] = IF LiveChild(n) THEN "signalled"
                         ELSE IF Stranger(n) THEN "hit" ELSE @]

(* The child behind the pid that was read: within its grace, to be         *)
(* signalled, or gone or not safely terminable, which also is what a       *)
(* refused signal to a foreign group comes to.  recover_stale_runs catches *)
(* no PermissionError of os.kill: it raises with the claim held, and ends  *)
(* the polling worker whose drain called it.                               *)
LookAtChild(p) ==
    LET n == rn[p]
        refused == rpid[p] /\ PidForbidden(n)
        present == rpid[p] /\ PidExists(n)
        overdue == graceLeft[n] = 0
    IN
    /\ rpc[p] = "look"
    /\ \/ /\ refused
          /\ rpc' = [rpc EXCEPT ![p] = "idle"]
          /\ up' = [up EXCEPT ![p] = ~SharedQueue]
          /\ UNCHANGED child
       \/ /\ present /\ ~overdue
          /\ rpc' = [rpc EXCEPT ![p] = "release"]
          /\ UNCHANGED <<child, up>>
       \/ /\ present /\ overdue /\ IdentityMatches(n)
          /\ rpc' = [rpc EXCEPT ![p] = "release"]
          /\ child' = AfterSignal(n)
          /\ UNCHANGED up
       \/ /\ ~refused
          /\ present => overdue /\ (IdentityMatches(n) => Stranger(n))
          /\ rpc' = [rpc EXCEPT ![p] = "abandon"]
          /\ UNCHANGED <<child, up>>
    /\ UNCHANGED <<runVars, attVars, crashes, execVars, rn, rexp, rpid>>

(* release_recovery_claim *)
ReleaseClaim(p) ==
    LET n == rn[p] IN
    /\ rpc[p] = "release"
    /\ rpc' = [rpc EXCEPT ![p] = "idle"]
    /\ IF ClaimHeld(n, p)
       THEN /\ claim' = [claim EXCEPT ![n] = NoProc]
            /\ claimLeft' = [claimLeft EXCEPT ![n] = -1]
       ELSE UNCHANGED <<claim, claimLeft>>
    /\ UNCHANGED <<runVars, att, lease, leaseLeft, pid, graceLeft,
                   child, up, crashes, execVars, rn, rexp, rpid>>

(* finalize_recovery *)
AbandonAttempt(p) ==
    LET n == rn[p] IN
    /\ rpc[p] = "abandon"
    /\ rpc' = [rpc EXCEPT ![p] = "idle"]
    /\ IF ClaimHeld(n, p)
       THEN CloseBoth(n, "ABANDONED", "FAILED")
       ELSE UNCHANGED <<runVars, att>>
    /\ UNCHANGED <<lease, leaseLeft, claim, claimLeft, pid, graceLeft,
                   child, up, crashes, execVars, rn, rexp, rpid>>

RecoveryStep(p) ==
    \/ ScanExpired(p) \/ ScanStale(p) \/ SkipLive(p) \/ ReadRun(p)
    \/ FailRunWithoutAttempt(p) \/ ClaimRecovery(p) \/ LookAtChild(p)
    \/ ReleaseClaim(p) \/ AbandonAttempt(p)

-----------------------------------------------------------------------------
(* The environment. *)

ChildExits(n) ==
    /\ child[n] \in {"alive", "signalled"}
    /\ child' = [child EXCEPT ![n] = "dead"]
    /\ UNCHANGED <<runVars, attVars, up, crashes, execVars, recVars>>

(* A collected child's pid is given to a process of the same user or of    *)
(* another one, which keeps it.                                            *)
PidReused(n) ==
    /\ child[n] = "dead"
    /\ pid[n]
    /\ ~Zombie(n)
    /\ \E c \in {"reused", "foreign"} : child' = [child EXCEPT ![n] = c]
    /\ UNCHANGED <<runVars, attVars, up, crashes, execVars, recVars>>

(* The process dies with all its threads; its children keep running in     *)
(* their own sessions.                                                     *)
Crash(p) ==
    /\ up[p]
    /\ crashes < MaxCrashes
    /\ crashes' = crashes + 1
    /\ up' = [up EXCEPT ![p] = FALSE]
    /\ epc' = [epc EXCEPT ![p] = "idle"]
    /\ beat' = [beat EXCEPT ![p] = FALSE]
    /\ rpc' = [rpc EXCEPT ![p] = "idle"]
    /\ UNCHANGED <<runVars, attVars, child, en, eout, rn, rexp, rpid>>

Restart(p) ==
    /\ ~up[p]
    /\ up' = [up EXCEPT ![p] = TRUE]
    /\ UNCHANGED <<runVars, attVars, child, crashes, execVars, recVars>>

(* The time left after one more unit, down to the value past which no      *)
(* condition tells the difference.                                         *)
Less(t, floor) == IF t > floor THEN t - 1 ELSE floor

Tick ==
    /\ \/ runLeft > 0
       \/ \E n \in Attempt : leaseLeft[n] > -1 \/ claimLeft[n] > -1 \/ graceLeft[n] > 0
    /\ runLeft' = Less(runLeft, 0)
    /\ leaseLeft' = [n \in Attempt |-> Less(leaseLeft[n], -1)]
    /\ claimLeft' = [n \in Attempt |-> Less(claimLeft[n], -1)]
    /\ graceLeft' = [n \in Attempt |-> Less(graceLeft[n], 0)]
    /\ UNCHANGED <<run, att, lease, claim, pid, child, up, crashes, execVars, recVars>>

ProcStep(p) == up[p] /\ (ExecStep(p) \/ Heartbeat(p) \/ RecoveryStep(p))

Next ==
    \/ \E p \in Proc : ProcStep(p) \/ Crash(p) \/ Restart(p)
    \/ \E n \in Attempt : ChildExits(n) \/ PidReused(n)
    \/ Tick

Spec == Init /\ [][Next]_vars

(* Threads are scheduled, time passes, SIGTERM's default action ends a     *)
(* child, and a process that ended is started again.  A recovery pass may  *)
(* outlive its claim and lose it to another one, but not every time: the   *)
(* claim lasts recovery_lease_seconds and covers three statements.  Nothing *)
(* makes a child exit on its own, a heartbeat arrive in time, or a crash   *)
(* happen.                                                                 *)
Fairness ==
    /\ \A p \in Proc :
          /\ WF_vars(up[p] /\ ExecStep(p))
          /\ WF_vars(up[p] /\ RecoveryStep(p))
          /\ SF_vars(up[p] /\ ClaimHeld(rn[p], p) /\ LookAtChild(p))
          /\ SF_vars(up[p] /\ ClaimHeld(rn[p], p) /\ AbandonAttempt(p))
          /\ WF_vars(Restart(p))
    /\ \A n \in Attempt : WF_vars(child[n] = "signalled" /\ ChildExits(n))
    /\ WF_vars(Tick)

FairSpec == Spec /\ Fairness

-----------------------------------------------------------------------------
(* Properties. *)

(* An attempt is opened only when every earlier one failed retryably and   *)
(* its child is gone, a verdict is written once and kept, and success is   *)
(* accepted only of an execution whose end was observed: the rows of       *)
(* attempts, written by the executor's fenced updates and by the           *)
(* reconcilers', are an AttemptLedger.                                     *)
Execution(n) ==
    CASE child[n] = "none" -> "idle"
      [] child[n] \in {"alive", "signalled"} -> "live"
      [] OTHER -> "ended"

Ledger == INSTANCE AttemptLedger
            WITH ledger <- att, execution <- [n \in Attempt |-> Execution(n)]

ImplementsLedger == Ledger!Spec

ChildEnded(n) == child[n] \in {"dead", "reused", "hit", "foreign"}

(* No attempt follows one whose child is alive: neither the retry loop nor *)
(* a recovery that raced it has two children working for the same Run.     *)
NoAttemptBesideLiveChild ==
    \A n, m \in Attempt : LiveChild(n) /\ n < m => att[m] = "NONE"

(* A Run reads SUCCEEDED only while its last attempt does, and that        *)
(* attempt's child was seen to end: no crash, recovery or late write       *)
(* invents a success (service.py 313, 426).                                *)
SuccessIsWitnessed ==
    run = "SUCCEEDED" =>
        \E n \in Attempt : /\ IsLastAttempt(n)
                           /\ att[n] = "SUCCEEDED"
                           /\ ChildEnded(n)

(* Once the lease of a running attempt has expired nothing its owner does  *)
(* later is accepted: a heartbeat in flight, a result check or a           *)
(* finalization that was delayed past the expiry all come too late.        *)
ExpiredLeaseNeverSucceeds ==
    \A n \in Attempt : [](LeaseExpired(n) => [](att[n] # "SUCCEEDED"))

(* A reconciler signals only after the lease of the attempt expired,       *)
(* however long it paused between its claim and the signal, and a process  *)
(* that merely got the child's pid only where ps cannot tell them apart.   *)
SignalsOnlyOrphans ==
    [][\A n \in Attempt :
          child'[n] # child[n] /\ child'[n] \in {"signalled", "hit"}
              => /\ lease[n] # NoProc /\ leaseLeft[n] < 0
                 /\ child[n] = "alive" \/ (child[n] = "reused" /\ ~PsAvailable)]_vars

RunClosed == run \in RunTerminal

(* A terminal Run changes again only by the two writes that carry no       *)
(* fence: _execute's first update_run, and the recovery of a Run that was  *)
(* read without an Attempt.                                                *)
ReopenedOnlyUnfenced ==
    [][RunClosed /\ run' # run
          => \E p \in Proc : epc[p] = "start" \/ rpc[p] = "fail"]_vars

(* One process that executes and recovers does one thing to a verdict: a   *)
(* pass that read the Run between update_run(RUNNING) and record_attempt,  *)
(* and looks at the future when it is done, fails the Run that SUCCEEDED   *)
(* (service.py 358-366).  No terminal Run is reopened, whatever cancel,    *)
(* crash and recovery do around its future.                                *)
LocalVerdictKept == [][RunClosed => run' \in {run, "FAILED"}]_vars

(* The row of the Run is what the status of its last attempt asks for.     *)
Agrees(n) ==
    /\ att[n] = "RUNNING" => run = "RUNNING"
    /\ att[n] = "RETRYABLE_FAILURE" => run \in {"RUNNING", "TIMED_OUT", "FAILED"}
    /\ att[n] = "ABANDONED" => run = "FAILED"
    /\ att[n] \in {"SUCCEEDED", "FAILED", "CANCELLED"} => run = att[n]

(* The two rows tell the same story: both are open, or both were closed    *)
(* with verdicts that match.                                               *)
RowsAgree == \A n \in Attempt : IsLastAttempt(n) => Agrees(n)

(* At every transaction boundary, whatever thread or process stopped       *)
(* there, the two rows agree until the recovery of a Run that was read     *)
(* without an Attempt writes FAILED over whatever the Run is by then.      *)
RowsPartOnlyUnfenced ==
    [][RowsAgree /\ ~RowsAgree'
          => run' = "FAILED" /\ \E p \in Proc : rpc[p] = "fail" /\ rpc'[p] = "idle"]_vars

(* A Run is not closed over a child that still runs, unless the child's    *)
(* process id never reached the store: the unfenced FAILED, too, waits for *)
(* the future, and a recovery after a restart waits for the child.         *)
ClosedOverNoLiveChild ==
    [][~RunClosed /\ RunClosed' => \A n \in Attempt : LiveChild(n) => ~pid[n]]_vars

(* An attempt that got a lease does not stay RUNNING for ever, whatever    *)
(* crashes: its owner closes it, or the lease expires, the orphaned child  *)
(* is waited for, signalled and found gone, and a reconciler closes it,    *)
(* unless the Run was closed without it or the child's pid went to another *)
(* user's process, which no pass survives.                                 *)
LeasedAttemptEnds ==
    \A n \in Attempt :
        (att[n] = "RUNNING" /\ lease[n] # NoProc)
            ~> (att[n] # "RUNNING" \/ run # "RUNNING" \/ PidForbidden(n))

(* A Run whose child has ended does not stay RUNNING for ever, also where  *)
(* no pid went to another user.                                            *)
RunEndsAfterItsChild ==
    (run = "RUNNING" /\ \E n \in Attempt : ChildEnded(n))
        ~> (run # "RUNNING" \/ \E n \in Attempt : PidForbidden(n))

-----------------------------------------------------------------------------
(* The inductive invariant behind the safety properties.                   *)

(* A queued Run is claimed once, so one thread at a time executes it. *)
SoleExecutor ==
    /\ \A p, q \in Proc : epc[p] # "idle" /\ epc[q] # "idle" => p = q
    /\ run = "QUEUED" =>
          \A p \in Proc : epc[p] = "idle" \/ (epc[p] = "start" /\ ~SharedQueue)
    /\ run = "QUEUED" \/ (\E p \in Proc : epc[p] = "start") => NoAttempt

LeaseLost(n) == lease[n] # NoProc /\ leaseLeft[n] < 0

AttemptRow(n) ==
    /\ att[n] = "NONE" => child[n] = "none" /\ lease[n] = NoProc
    /\ att[n] # "NONE" => \A m \in Attempt : m < n => att[m] = "RETRYABLE_FAILURE"
    /\ att[n] \notin {"RUNNING", "ABANDONED"} => ~LiveChild(n)
    /\ att[n] \in {"SUCCEEDED", "CANCELLED"} => ChildEnded(n)
    /\ claim[n] # NoProc => LeaseLost(n)

(* What each point of _execute may rely on. *)
OwnAttempt(p) ==
    LET n == en[p] IN
    /\ epc[p] \notin {"idle", "start"} =>
          \A m \in Attempt : /\ m < n => att[m] = "RETRYABLE_FAILURE"
                             /\ m > n => att[m] = "NONE"
    /\ epc[p] = "record" => att[n] = "NONE"
    /\ epc[p] = "lease" => att[n] = "RUNNING" /\ lease[n] = NoProc /\ child[n] = "none"
    /\ epc[p] = "spawn" => att[n] \in {"RUNNING", "ABANDONED"} /\ child[n] = "none"
    /\ epc[p] \in {"check", "finalize", "settle", "sleep"} => ~LiveChild(n)
    /\ epc[p] = "check" => ChildEnded(n)
    /\ epc[p] = "finalize" /\ eout[p] \in {"ok", "rejected", "cancelled"} => ChildEnded(n)
    /\ epc[p] = "sleep" => att[n] = "RETRYABLE_FAILURE"

(* The attempt of a recovery that was once granted stays lost to its owner. *)
OrphanClaimed(p) == rpc[p] \in {"look", "release", "abandon"} => LeaseLost(rn[p])

(* One thread executes, attempts are opened in order behind ended ones,    *)
(* verdicts match what their children did, and a recovery claim implies a  *)
(* lease that expired for good.                                            *)
OwnershipInv ==
    /\ TypeOK
    /\ SoleExecutor
    /\ \A n \in Attempt : AttemptRow(n)
    /\ \A p \in Proc : OwnAttempt(p) /\ OrphanClaimed(p)
=============================================================================
