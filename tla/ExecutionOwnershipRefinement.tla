-------------------- MODULE ExecutionOwnershipRefinement --------------------
(* ExecutionOwnership implements AttemptLedger, what its steps may never   *)
(* do, and what one local process adds to it, proved from the inductive    *)
(* invariant.                                                              *)
EXTENDS ExecutionOwnershipSafety

Executions == [n \in Attempt |-> Execution(n)]

(* A step that touches neither an attempt's status nor a child stutters. *)
LEMMA RowsUntouched == att' = att /\ child' = child => UNCHANGED Ledger!vars
BY DEF Ledger!vars, Execution

(* A child that changes moves its own execution and no other. *)
LEMMA ChildMoves ==
    ASSUME TypeOK, NEW k \in Attempt, NEW c, child' = [child EXCEPT ![k] = c]
    PROVE  /\ c = "alive" => Executions' = [Executions EXCEPT ![k] = "live"]
           /\ c = "dead" => Executions' = [Executions EXCEPT ![k] = "ended"]
BY DEF Executions, Execution, TypeOK

(* The executor's and the reconcilers' terminal updates close the ledger's *)
(* entry, under the conditions the ledger asks for.                        *)
LEMMA ClosesEntry ==
    ASSUME TypeOK, NEW k \in Attempt, NEW v \in AttTerminal,
           att[k] = "RUNNING", att' = [att EXCEPT ![k] = v], child' = child,
           v \in {"SUCCEEDED", "CANCELLED"} => ChildEnded(k),
           v # "ABANDONED" => ~LiveChild(k)
    PROVE  Ledger!Next
<1>1. Ledger!Close(k, v)
  BY DEF Ledger!Close, Ledger!Observed, Execution, ChildEnded, LiveChild, TypeOK
<1>2. v \in Ledger!Verdicts
  BY DEF Ledger!Verdicts, AttTerminal
<1> QED
  BY <1>1, <1>2 DEF Ledger!Next

(* Every step of an executing thread is a step of the ledger or none. *)
LEMMA ExecRefines ==
    ASSUME OwnershipInv, NEW p \in Proc, ExecStep(p)
    PROVE  [Ledger!Next]_(Ledger!vars)
<1> USE DEF runVars, attVars, execVars, recVars
<1>0. TypeOK /\ en[p] \in Attempt
  BY DEF OwnershipInv, TypeOK
<1>1. CASE \/ ClaimNextRun(p) \/ CancelBeforeExecution(p) \/ Start(p) \/ AcquireLease(p)
           \/ FailToSpawn(p) \/ RecordProcess(p) \/ ChildCollected(p) \/ CheckLease(p)
           \/ NextAttempt(p)
  <2>1. att' = att /\ child' = child
    BY <1>1 DEF ClaimNextRun, CancelBeforeExecution, Start, AcquireLease, FailToSpawn,
       RecordProcess, ChildCollected, CheckLease, NextAttempt
  <2> QED
    BY <2>1, RowsUntouched
<1>2. CASE RecordAttempt(p)
  <2>1. Ledger!Open(en[p])
    <3>1. /\ att[en[p]] = "NONE"
          /\ att' = [att EXCEPT ![en[p]] = "RUNNING"]
          /\ child' = child
      BY <1>2 DEF RecordAttempt, OwnershipInv, OwnAttempt
    <3>2. ASSUME NEW m \in Attempt, m < en[p]
          PROVE  att[m] = "RETRYABLE_FAILURE" /\ Execution(m) # "live"
      BY <1>2, <3>2 DEF RecordAttempt, OwnershipInv, OwnAttempt, AttemptRow, LiveChild,
         Execution, TypeOK
    <3> QED
      BY <3>1, <3>2 DEF Ledger!Open, Execution
  <2> QED
    BY <1>0, <2>1 DEF Ledger!Next
<1>3. CASE SpawnChild(p)
  <2>1. Ledger!Launch(en[p])
    <3>1. /\ att[en[p]] \in {"RUNNING", "ABANDONED"} /\ child[en[p]] = "none"
          /\ att' = att
          /\ child' = [child EXCEPT ![en[p]] = "alive"]
      BY <1>3 DEF SpawnChild, OwnershipInv, OwnAttempt
    <3>2. Executions' = [Executions EXCEPT ![en[p]] = "live"]
      BY <1>0, <3>1, ChildMoves
    <3> QED
      BY <1>0, <3>1, <3>2 DEF Ledger!Launch, Executions, Execution
  <2> QED
    BY <1>0, <2>1 DEF Ledger!Next
<1>4. CASE ChildTimesOut(p)
  <2>1. Ledger!Finish(en[p])
    <3>1. /\ LiveChild(en[p])
          /\ att' = att
          /\ child' = [child EXCEPT ![en[p]] = "dead"]
      BY <1>4 DEF ChildTimesOut, LiveChild
    <3>2. Executions' = [Executions EXCEPT ![en[p]] = "ended"]
      BY <1>0, <3>1, ChildMoves
    <3> QED
      BY <1>0, <3>1, <3>2 DEF Ledger!Finish, Executions, Execution, LiveChild
  <2> QED
    BY <1>0, <2>1 DEF Ledger!Next
<1>5. CASE Finalize(p)
  <2>1. child' = child
    BY <1>5 DEF Finalize
  <2>2. CASE att' = att
    BY <2>1, <2>2, RowsUntouched
  <2>3. CASE att' # att
    <3>1. /\ WriteFence(en[p], p)
          /\ att' = [att EXCEPT ![en[p]] = AttVerdict(eout[p])]
      BY <1>5, <2>3, Zenon DEF Finalize, CloseBoth, CloseTogether, CloseAttemptOnly
    <3>2. ~LiveChild(en[p]) /\ (eout[p] \in {"ok", "cancelled"} => ChildEnded(en[p]))
      BY <1>5 DEF Finalize, OwnershipInv, OwnAttempt
    <3>3. /\ AttVerdict(eout[p]) \in AttTerminal \ {"ABANDONED"}
          /\ AttVerdict(eout[p]) \in {"SUCCEEDED", "CANCELLED"} => eout[p] \in {"ok", "cancelled"}
      BY DEF AttVerdict, AttTerminal
    <3>4. att[en[p]] = "RUNNING"
      BY <3>1 DEF WriteFence, LeaseHeld
    <3> QED
      BY <1>0, <2>1, <3>1, <3>2, <3>3, <3>4, ClosesEntry
  <2> QED
    BY <2>2, <2>3
<1>6. CASE SettleRetry(p)
  <2>1. child' = child
    BY <1>6 DEF SettleRetry
  <2>2. CASE WriteFence(en[p], p)
    <3>1. /\ att[en[p]] = "RUNNING"
          /\ att' = [att EXCEPT ![en[p]] = "RETRYABLE_FAILURE"]
      BY <1>6, <2>2 DEF SettleRetry, WriteFence, LeaseHeld
    <3>2. ~LiveChild(en[p])
      BY <1>6 DEF SettleRetry, OwnershipInv, OwnAttempt
    <3>3. "RETRYABLE_FAILURE" \in AttTerminal
      BY DEF AttTerminal
    <3> QED
      BY <1>0, <2>1, <3>1, <3>2, <3>3, ClosesEntry
  <2>3. CASE ~WriteFence(en[p], p)
    BY <1>6, <2>1, <2>3, RowsUntouched DEF SettleRetry
  <2> QED
    BY <2>2, <2>3
<1> QED
  BY <1>1, <1>2, <1>3, <1>4, <1>5, <1>6 DEF ExecStep

(* So is every step of a recovery pass. *)
LEMMA RecoveryRefines ==
    ASSUME OwnershipInv, NEW p \in Proc, RecoveryStep(p)
    PROVE  [Ledger!Next]_(Ledger!vars)
<1> USE DEF runVars, attVars, execVars, recVars
<1>0. TypeOK /\ rn[p] \in Attempt
  BY DEF OwnershipInv, TypeOK
<1>1. CASE \/ ScanExpired(p) \/ ScanStale(p) \/ SkipLive(p) \/ ReadRun(p)
           \/ FailRunWithoutAttempt(p) \/ ClaimRecovery(p) \/ ReleaseClaim(p)
  <2>1. att' = att /\ child' = child
    BY <1>1 DEF ScanExpired, ScanStale, SkipLive, ReadRun, FailRunWithoutAttempt,
       ClaimRecovery, ReleaseClaim
  <2> QED
    BY <2>1, RowsUntouched
<1>2. CASE LookAtChild(p)
  <2>1. att' = att
    BY <1>2 DEF LookAtChild
  <2>2. \A n \in Attempt : Execution(n)' = Execution(n)
    BY <1>0, <1>2, LookMoves DEF Execution
  <2> QED
    BY <2>1, <2>2 DEF Ledger!vars
<1>3. CASE AbandonAttempt(p)
  <2>1. child' = child
    BY <1>3 DEF AbandonAttempt
  <2>2. CASE att' = att
    BY <2>1, <2>2, RowsUntouched
  <2>3. CASE att' # att
    <3>1. /\ ClaimHeld(rn[p], p)
          /\ att' = [att EXCEPT ![rn[p]] = "ABANDONED"]
      BY <1>3, <2>3, Zenon DEF AbandonAttempt, CloseBoth, CloseTogether, CloseAttemptOnly
    <3>2. "ABANDONED" \in AttTerminal
      BY DEF AttTerminal
    <3> QED
      BY <1>0, <2>1, <3>1, <3>2, ClosesEntry DEF ClaimHeld
  <2> QED
    BY <2>2, <2>3
<1> QED
  BY <1>1, <1>2, <1>3 DEF RecoveryStep

(* So is every other step. *)
LEMMA StepRefines == OwnershipInv /\ [Next]_vars => [Ledger!Next]_(Ledger!vars)
<1> SUFFICES ASSUME OwnershipInv, [Next]_vars PROVE [Ledger!Next]_(Ledger!vars)
  OBVIOUS
<1> USE DEF runVars, attVars, execVars, recVars
<1>1. ASSUME NEW p \in Proc, Heartbeat(p) \/ Crash(p) \/ Restart(p)
      PROVE  UNCHANGED Ledger!vars
  BY <1>1, RowsUntouched DEF Heartbeat, Crash, Restart
<1>2. ASSUME NEW n \in Attempt, ChildExits(n) PROVE Ledger!Next
  <2>1. /\ LiveChild(n)
        /\ att' = att
        /\ child' = [child EXCEPT ![n] = "dead"]
    BY <1>2 DEF ChildExits, LiveChild
  <2>2. Executions' = [Executions EXCEPT ![n] = "ended"]
    BY <2>1, ChildMoves DEF OwnershipInv
  <2>3. Ledger!Finish(n)
    BY <2>1, <2>2 DEF Ledger!Finish, Executions, Execution, LiveChild
  <2> QED
    BY <2>3 DEF Ledger!Next
<1>3. ASSUME NEW n \in Attempt, PidReused(n) PROVE UNCHANGED Ledger!vars
  <2>1. att' = att
    BY <1>3 DEF PidReused
  <2>2. \A m \in Attempt : Execution(m)' = Execution(m)
    BY <1>3 DEF PidReused, Execution, OwnershipInv, TypeOK
  <2> QED
    BY <2>1, <2>2 DEF Ledger!vars
<1>4. CASE Tick \/ UNCHANGED vars
  BY <1>4, RowsUntouched DEF Tick, vars
<1> QED
  BY <1>1, <1>2, <1>3, <1>4, ExecRefines, RecoveryRefines DEF Next, ProcStep

(* The attempts of a Run, as its executor and the reconcilers of every     *)
(* process write them, are a ledger: opened in order behind ended ones,    *)
(* closed once, and never closed as a success while a child still works.   *)
THEOREM LedgerImplemented == Spec => ImplementsLedger
<1>1. Init => Ledger!Init
  BY DEF Init, Ledger!Init, Execution
<1> QED
  BY <1>1, StepRefines, Ownership, PTL DEF Spec, ImplementsLedger, Ledger!Spec

(* However long a reconciler paused between its claim and its signal, the  *)
(* signal reaches a live child whose attempt's lease has expired, or,      *)
(* where ps cannot tell them apart, a process that got the child's pid.    *)
THEOREM OrphansOnly == Spec => SignalsOnlyOrphans
<1>1. ASSUME OwnershipInv, Next, NEW n \in Attempt,
             child'[n] # child[n], child'[n] \in {"signalled", "hit"}
      PROVE  /\ lease[n] # NoProc /\ leaseLeft[n] < 0
             /\ child[n] = "alive" \/ (child[n] = "reused" /\ ~PsAvailable)
  <2> USE DEF runVars, attVars, execVars, recVars
  <2>1. PICK p \in Proc : LookAtChild(p)
    <3>1. ASSUME NEW p \in Proc, ExecStep(p) PROVE FALSE
      BY <1>1, <3>1 DEF ExecStep, ClaimNextRun, CancelBeforeExecution, Start, RecordAttempt,
         AcquireLease, SpawnChild, FailToSpawn, RecordProcess, ChildCollected, ChildTimesOut,
         CheckLease, Finalize, SettleRetry, NextAttempt, OwnershipInv, TypeOK
    <3>2. ASSUME NEW p \in Proc, RecoveryStep(p) PROVE LookAtChild(p)
      BY <1>1, <3>2 DEF RecoveryStep, ScanExpired, ScanStale, SkipLive, ReadRun,
         FailRunWithoutAttempt, ClaimRecovery, ReleaseClaim, AbandonAttempt
    <3>3. ASSUME NEW p \in Proc, Heartbeat(p) \/ Crash(p) \/ Restart(p) PROVE FALSE
      BY <1>1, <3>3 DEF Heartbeat, Crash, Restart
    <3>4. ASSUME NEW m \in Attempt, ChildExits(m) \/ PidReused(m) PROVE FALSE
      BY <1>1, <3>4 DEF ChildExits, PidReused, OwnershipInv, TypeOK
    <3> QED
      BY <1>1, <3>1, <3>2, <3>3, <3>4 DEF Next, ProcStep, Tick
  <2>2. TypeOK
    BY <1>1 DEF OwnershipInv
  <2>3. /\ n = rn[p]
        /\ child[n] = "alive" \/ (child[n] = "reused" /\ ~PsAvailable)
    BY <1>1, <2>1, <2>2, LookMoves
  <2>4. rpc[p] = "look" /\ OrphanClaimed(p)
    BY <1>1, <2>1 DEF LookAtChild, OwnershipInv
  <2> QED
    BY <2>3, <2>4 DEF OrphanClaimed, LeaseLost
<1>2. OwnershipInv /\ [Next]_vars
        => [\A n \in Attempt :
               child'[n] # child[n] /\ child'[n] \in {"signalled", "hit"}
                   => /\ lease[n] # NoProc /\ leaseLeft[n] < 0
                      /\ child[n] = "alive" \/ (child[n] = "reused" /\ ~PsAvailable)]_vars
  BY <1>1
<1> QED
  BY <1>2, Ownership, PTL DEF Spec, SignalsOnlyOrphans

(* An owner that lost its lease, and has not succeeded, never will. *)
LostUnfinished(n) == LeaseLost(n) /\ att[n] # "SUCCEEDED"

(* No step gives a lost lease back or accepts a success under it. *)
LEMMA LostStaysUnfinished ==
    ASSUME NEW n \in Attempt, OwnershipInv, OwnershipInv', LostUnfinished(n), [Next]_vars
    PROVE  LostUnfinished(n)'
<1> USE DEF runVars, attVars, execVars, recVars
<1>0. leaseLeft[n] \in Int /\ leaseLeft[n] < 0 /\ lease[n] # NoProc /\ att[n] # "SUCCEEDED"
  BY DEF LostUnfinished, LeaseLost, OwnershipInv, TypeOK
<1>1. ASSUME NEW p \in Proc PROVE ~LeaseHeld(n, p)
  BY <1>0 DEF LeaseHeld
<1>2. ASSUME NEW p \in Proc, ExecStep(p) PROVE LostUnfinished(n)'
  <2>0. en[p] \in Attempt
    BY DEF OwnershipInv, TypeOK
  <2>1. CASE AcquireLease(p)
    <3>1. lease[en[p]] = NoProc
      BY <2>1 DEF AcquireLease, OwnershipInv, OwnAttempt
    <3> QED
      BY <1>0, <2>0, <2>1, <3>1 DEF AcquireLease, LostUnfinished, LeaseLost, OwnershipInv, TypeOK
  <2>2. CASE CheckLease(p)
    BY <1>0, <1>1, <2>0, <2>2 DEF CheckLease, LostUnfinished, LeaseLost, OwnershipInv, TypeOK
  <2>3. CASE Finalize(p)
    <3>1. lease' = lease /\ leaseLeft' = leaseLeft
      BY <2>3 DEF Finalize
    <3>2. att'[n] = att[n]
      <4>1. CASE n = en[p]
        BY <1>1, <2>3, <4>1 DEF Finalize, WriteFence
      <4>2. CASE n # en[p]
        BY <2>0, <2>3, <4>2 DEF Finalize, CloseBoth, CloseTogether, CloseAttemptOnly,
           OwnershipInv, TypeOK
      <4> QED
        BY <4>1, <4>2
    <3> QED
      BY <1>0, <3>1, <3>2 DEF LostUnfinished, LeaseLost
  <2>4. CASE SettleRetry(p)
    <3>1. /\ att' = att \/ att' = [att EXCEPT ![en[p]] = "RETRYABLE_FAILURE"]
          /\ lease' = lease /\ leaseLeft' = leaseLeft
      BY <2>4 DEF SettleRetry
    <3> QED
      BY <1>0, <2>0, <3>1 DEF LostUnfinished, LeaseLost, OwnershipInv, TypeOK
  <2>5. CASE RecordAttempt(p)
    BY <1>0, <2>0, <2>5 DEF RecordAttempt, LostUnfinished, LeaseLost, OwnershipInv, TypeOK
  <2>6. CASE \/ ClaimNextRun(p) \/ CancelBeforeExecution(p) \/ Start(p) \/ SpawnChild(p)
             \/ FailToSpawn(p) \/ RecordProcess(p) \/ ChildCollected(p) \/ ChildTimesOut(p)
             \/ NextAttempt(p)
    <3>1. UNCHANGED <<att, lease, leaseLeft>>
      BY <2>6 DEF ClaimNextRun, CancelBeforeExecution, Start, SpawnChild, FailToSpawn,
         RecordProcess, ChildCollected, ChildTimesOut, NextAttempt
    <3> QED
      BY <1>0, <3>1 DEF LostUnfinished, LeaseLost
  <2> QED
    BY <1>2, <2>1, <2>2, <2>3, <2>4, <2>5, <2>6 DEF ExecStep
<1>3. ASSUME NEW p \in Proc, RecoveryStep(p) PROVE LostUnfinished(n)'
  <2>0. rn[p] \in Attempt
    BY DEF OwnershipInv, TypeOK
  <2>1. lease' = lease /\ leaseLeft' = leaseLeft
    BY <1>3 DEF RecoveryStep, ScanExpired, ScanStale, SkipLive, ReadRun,
       FailRunWithoutAttempt, ClaimRecovery, LookAtChild, ReleaseClaim, AbandonAttempt
  <2>2. att' = att \/ att' = [att EXCEPT ![rn[p]] = "ABANDONED"]
    BY <1>3, Zenon DEF RecoveryStep, ScanExpired, ScanStale, SkipLive, ReadRun,
       FailRunWithoutAttempt, ClaimRecovery, LookAtChild, ReleaseClaim, AbandonAttempt,
       CloseBoth, CloseTogether, CloseAttemptOnly
  <2> QED
    BY <1>0, <2>0, <2>1, <2>2 DEF LostUnfinished, LeaseLost, OwnershipInv, TypeOK
<1>4. ASSUME NEW p \in Proc, Heartbeat(p) PROVE LostUnfinished(n)'
  <2>1. en[p] \in Attempt
    BY DEF OwnershipInv, TypeOK
  <2> QED
    BY <1>0, <1>1, <1>4, <2>1 DEF Heartbeat, LostUnfinished, LeaseLost, OwnershipInv, TypeOK
<1>5. ASSUME NEW p \in Proc, Crash(p) \/ Restart(p) PROVE LostUnfinished(n)'
  BY <1>0, <1>5 DEF Crash, Restart, LostUnfinished, LeaseLost
<1>6. ASSUME NEW m \in Attempt, ChildExits(m) \/ PidReused(m) PROVE LostUnfinished(n)'
  BY <1>0, <1>6 DEF ChildExits, PidReused, LostUnfinished, LeaseLost
<1>7. CASE Tick
  BY <1>0, <1>7 DEF Tick, Less, LostUnfinished, LeaseLost
<1>8. CASE UNCHANGED vars
  BY <1>0, <1>8 DEF vars, LostUnfinished, LeaseLost
<1> QED
  BY <1>2, <1>3, <1>4, <1>5, <1>6, <1>7, <1>8 DEF Next, ProcStep

(* An attempt whose lease expired while it ran never becomes SUCCEEDED:    *)
(* no late heartbeat, result check or finalization of its owner revives it.*)
THEOREM LateOwnerRefused == Spec => ExpiredLeaseNeverSucceeds
<1>1. ASSUME NEW n \in Attempt
      PROVE  Spec => [](LeaseExpired(n) => [](att[n] # "SUCCEEDED"))
  <2>1. LeaseExpired(n) => LostUnfinished(n)
    BY DEF LeaseExpired, LostUnfinished, LeaseLost
  <2>2. LostUnfinished(n) => att[n] # "SUCCEEDED"
    BY DEF LostUnfinished
  <2>3. OwnershipInv /\ OwnershipInv' /\ LostUnfinished(n) /\ [Next]_vars
            => LostUnfinished(n)'
    BY LostStaysUnfinished
  <2> QED
    BY <2>1, <2>2, <2>3, Ownership, PTL DEF Spec
<1> QED
  BY <1>1 DEF ExpiredLeaseNeverSucceeds

-----------------------------------------------------------------------------
(* The Run's row and its last attempt's where the process that executes is *)
(* the process that recovers, on either store.                             *)

OneLocalProcess == ~SharedQueue /\ (\A p, q \in Proc : p = q)

(* Recovery goes past its claim only behind an execution that is over, and *)
(* a future that has begun keeps the Run RUNNING until it closes it.       *)
RecoversBehind(p) ==
    /\ epc[p] # "idle" => rpc[p] \notin {"look", "release", "abandon"}
    /\ epc[p] = "start" => run = "QUEUED" /\ rpc[p] \in {"idle", "scan"}
    /\ epc[p] \notin {"idle", "start"} => run = "RUNNING"

(* A pass that is about to close the Run knows the child, or none lives.   *)
WatchesChild(p) ==
    /\ epc[p] = "idle" /\ rpc[p] = "fail" => \A n \in Attempt : ~LiveChild(n)
    /\ epc[p] = "idle" /\ rpc[p] \in {"claim", "look"} /\ LiveChild(rn[p]) /\ pid[rn[p]]
            => rpid[p]
    /\ rpc[p] = "abandon" => ~(LiveChild(rn[p]) /\ pid[rn[p]])

(* The rows part for good, when the unfenced FAILED is written.            *)
LocalInv ==
    /\ RowsAgree \/ (run = "FAILED" /\ \A p \in Proc : epc[p] = "idle")
    /\ \A p \in Proc : RecoversBehind(p) /\ WatchesChild(p)

(* What a step does to the two rows and to the child. *)
Unfenced == run' = "FAILED" /\ \E p \in Proc : rpc[p] = "fail" /\ rpc'[p] = "idle"

LocalStep ==
    /\ RowsAgree => RowsAgree' \/ Unfenced
    /\ RunClosed => run' \in {run, "FAILED"}
    /\ ~RunClosed /\ RunClosed' => \A n \in Attempt : LiveChild(n) => ~pid[n]

(* Behind a running attempt there is no other. *)
LEMMA RunningIsLast ==
    ASSUME OwnershipInv, NEW n \in Attempt, att[n] = "RUNNING"
    PROVE  IsLastAttempt(n)
BY DEF OwnershipInv, AttemptRow, IsLastAttempt, Attempt

(* Before the first attempt, and beside one whose child is gone or that    *)
(* runs, no child lives.                                                   *)
LEMMA OnlyItsChild ==
    ASSUME OwnershipInv, NEW n \in Attempt,
           \A m \in Attempt : (m < n => att[m] = "RETRYABLE_FAILURE") /\ (m > n => att[m] = "NONE")
    PROVE  \A m \in Attempt : LiveChild(m) => m = n
<1>1. \A m \in Attempt : m < n \/ m = n \/ m > n
  BY DEF Attempt
<1>2. \A m \in Attempt : att[m] \in {"NONE", "RETRYABLE_FAILURE"} => ~LiveChild(m)
  BY DEF OwnershipInv, AttemptRow, LiveChild
<1> QED
  BY <1>1, <1>2

LEMMA NoChildYet == OwnershipInv /\ NoAttempt => \A n \in Attempt : ~LiveChild(n)
BY DEF OwnershipInv, AttemptRow, NoAttempt, LiveChild

(* Only the row that was last can be last after its status was replaced.   *)
LEMMA LastStaysLast ==
    ASSUME TypeOK, NEW n \in Attempt, \A m \in Attempt : m > n => att[m] = "NONE",
           NEW v, v # "NONE", att' = [att EXCEPT ![n] = v]
    PROVE  att'[n] = v /\ \A m \in Attempt : IsLastAttempt(m)' => m = n
<1>1. att'[n] = v /\ \A m \in Attempt : m # n => att'[m] = att[m]
  BY DEF TypeOK
<1>2. \A m \in Attempt : m < n \/ m = n \/ n < m
  BY DEF Attempt
<1>3. \A m \in Attempt : IsLastAttempt(m)' <=>
        att'[m] # "NONE" /\ \A k \in Attempt : k > m => att'[k] = "NONE"
  BY DEF IsLastAttempt
<1>4. \A m \in Attempt : m < n => n > m
  BY DEF Attempt
<1>5. \A m \in Attempt : n < m => m > n
  BY DEF Attempt
<1> QED
  BY <1>1, <1>2, <1>3, <1>4, <1>5

(* A step that leaves both rows, the threads and the child as they are.    *)
LEMMA RowsUnmoved ==
    ASSUME run' = run, att' = att
    PROVE  (RowsAgree' <=> RowsAgree) /\ (RunClosed' <=> RunClosed)
BY DEF RowsAgree, Agrees, IsLastAttempt, RunClosed

(* The executing thread keeps the rows together, and ends behind its child.*)
LEMMA ExecAgrees ==
    ASSUME OneLocalProcess, OwnershipInv, LocalInv, NEW p \in Proc, ExecStep(p)
    PROVE  LocalInv' /\ LocalStep
<1> USE DEF runVars, attVars, execVars, recVars
<1>0. /\ TypeOK /\ en[p] \in Attempt /\ ~SharedQueue /\ \A q \in Proc : q = p
      /\ SoleExecutor /\ OwnAttempt(p) /\ RecoversBehind(p) /\ WatchesChild(p)
      /\ epc[p] # "idle" => RowsAgree
      /\ rpc[p] \in {"idle", "scan", "read", "fail", "claim", "look", "release", "abandon"}
  BY DEF OwnershipInv, LocalInv, OneLocalProcess, TypeOK
<1>1. CASE ClaimNextRun(p)
  BY <1>0, <1>1 DEF ClaimNextRun
<1>2. CASE CancelBeforeExecution(p) \/ Start(p)
  <2>1. /\ NoAttempt /\ att' = att /\ rpc' = rpc /\ child' = child /\ run = "QUEUED"
        /\ rpc[p] \in {"idle", "scan"} /\ RowsAgree
    BY <1>0, <1>2 DEF CancelBeforeExecution, Start, SoleExecutor, RecoversBehind
  <2>2. \/ epc'[p] = "idle"
        \/ epc'[p] = "record" /\ run' = "RUNNING"
    BY <1>0, <1>2 DEF CancelBeforeExecution, Start, TypeOK
  <2>3. NoAttempt' /\ RowsAgree'
    BY <2>1 DEF NoAttempt, RowsAgree, IsLastAttempt
  <2>4. \A n \in Attempt : ~LiveChild(n)
    BY <2>1, NoChildYet
  <2>5. LocalStep
    BY <2>1, <2>3, <2>4 DEF LocalStep, RunClosed, RunTerminal
  <2> QED
    BY <1>0, <2>1, <2>2, <2>3, <2>5 DEF LocalInv, RecoversBehind, WatchesChild
<1>3. CASE RecordAttempt(p)
  <2>1. /\ run = "RUNNING" /\ run' = run /\ rpc' = rpc
        /\ att' = [att EXCEPT ![en[p]] = "RUNNING"] /\ epc'[p] = "lease"
        /\ rpc[p] \notin {"look", "release", "abandon"}
    BY <1>0, <1>3 DEF RecordAttempt, RecoversBehind, TypeOK
  <2>2. \A m \in Attempt : m > en[p] => att[m] = "NONE"
    BY <1>0, <1>3 DEF RecordAttempt, OwnAttempt
  <2>3. att'[en[p]] = "RUNNING" /\ \A m \in Attempt : IsLastAttempt(m)' => m = en[p]
    BY <1>0, <2>1, <2>2, LastStaysLast
  <2>4. RowsAgree'
    BY <2>1, <2>3 DEF RowsAgree, Agrees
  <2>5. LocalStep
    BY <2>1, <2>4 DEF LocalStep, RunClosed, RunTerminal
  <2> QED
    BY <1>0, <2>1, <2>4, <2>5 DEF LocalInv, RecoversBehind, WatchesChild
<1>4. CASE \/ AcquireLease(p) \/ SpawnChild(p) \/ FailToSpawn(p) \/ RecordProcess(p)
           \/ ChildCollected(p) \/ ChildTimesOut(p) \/ CheckLease(p) \/ NextAttempt(p)
  <2>1. /\ run' = run /\ att' = att /\ rpc' = rpc
        /\ epc[p] \notin {"idle", "start"}
    BY <1>4 DEF AcquireLease, SpawnChild, FailToSpawn, RecordProcess, ChildCollected,
       ChildTimesOut, CheckLease, NextAttempt
  <2>2. epc'[p] \notin {"start", "idle"}
    BY <1>0, <1>4 DEF AcquireLease, SpawnChild, FailToSpawn, RecordProcess, ChildCollected,
       ChildTimesOut, CheckLease, NextAttempt, AfterAdapter, TypeOK
  <2>3. RowsAgree' /\ (RunClosed' <=> RunClosed)
    BY <1>0, <2>1, RowsUnmoved
  <2>4. LocalStep
    BY <2>1, <2>3 DEF LocalStep
  <2>5. RecoversBehind(p)' /\ WatchesChild(p)'
    BY <1>0, <2>1, <2>2 DEF RecoversBehind, WatchesChild
  <2> QED
    BY <1>0, <2>3, <2>4, <2>5 DEF LocalInv
<1>5. CASE Finalize(p) \/ SettleRetry(p)
  <2> DEFINE n == en[p]
  <2>1. /\ run = "RUNNING" /\ rpc' = rpc /\ rpc[p] \notin {"look", "release", "abandon"}
        /\ epc[p] \in {"finalize", "settle"}
        /\ \A m \in Attempt : (m < n => att[m] = "RETRYABLE_FAILURE") /\ (m > n => att[m] = "NONE")
        /\ child' = child /\ RowsAgree
    BY <1>0, <1>5 DEF Finalize, SettleRetry, RecoversBehind, OwnAttempt
  <2>2. epc'[p] \in {"finalize", "sleep", "idle"}
    BY <1>0, <1>5, <2>1 DEF Finalize, SettleRetry, Leave, TypeOK
  <2>3. \A m \in Attempt : ~LiveChild(m)
    <3>1. ~LiveChild(n)
      BY <1>0, <2>1 DEF OwnAttempt
    <3> QED
      BY <1>0, <2>1, <3>1, OnlyItsChild
  <2>4. RowsAgree' /\ run' \in {run} \cup RunTerminal /\ (epc'[p] # "idle" => run' = "RUNNING")
    <3>1. CASE UNCHANGED <<run, att>>
      BY <2>1, <3>1, RowsUnmoved
    <3>2. CASE Finalize(p) /\ WriteFence(n, p)
      <4>1. /\ att' = [att EXCEPT ![n] = AttVerdict(eout[p])]
            /\ run' = RunVerdict(eout[p])
            /\ epc'[p] = "idle"
        BY <1>0, <2>1, <3>2 DEF Finalize, Leave, CloseBoth, CloseTogether, TypeOK
      <4> DEFINE v == AttVerdict(eout[p])
      <4>2. /\ v # "NONE" /\ v # "RUNNING" /\ v # "ABANDONED"
            /\ v = "RETRYABLE_FAILURE" => run' \in {"TIMED_OUT", "FAILED"}
            /\ v \in {"SUCCEEDED", "FAILED", "CANCELLED"} => run' = v
            /\ run' \in RunTerminal
        BY <4>1 DEF AttVerdict, RunVerdict, RunTerminal
      <4> HIDE DEF v
      <4>3. att'[n] = v /\ \A m \in Attempt : IsLastAttempt(m)' => m = n
        <5>1. att' = [att EXCEPT ![n] = v]
          BY <4>1 DEF v
        <5> QED
          BY <1>0, <2>1, <4>2, <5>1, LastStaysLast
      <4> QED
        BY <4>1, <4>2, <4>3 DEF RowsAgree, Agrees
    <3>3. CASE SettleRetry(p) /\ att' = [att EXCEPT ![n] = "RETRYABLE_FAILURE"]
      <4>1. att'[n] = "RETRYABLE_FAILURE" /\ \A m \in Attempt : IsLastAttempt(m)' => m = n
        BY <1>0, <2>1, <3>3, LastStaysLast
      <4>2. run' = run
        BY <3>3 DEF SettleRetry
      <4> QED
        BY <2>1, <4>1, <4>2 DEF RowsAgree, Agrees
    <3> QED
      BY <1>5, <3>1, <3>2, <3>3 DEF Finalize, SettleRetry
  <2>5. LocalStep
    BY <2>1, <2>3, <2>4 DEF LocalStep, RunClosed, RunTerminal
  <2>6. \A m \in Attempt : ~LiveChild(m)'
    BY <2>1, <2>3 DEF LiveChild
  <2>7. WatchesChild(p)'
    <3>1. rn'[p] \in Attempt
      BY <1>0, <1>5 DEF Finalize, SettleRetry, TypeOK
    <3> QED
      BY <2>1, <2>6, <3>1 DEF WatchesChild
  <2>8. RecoversBehind(p)'
    BY <1>0, <2>1, <2>2, <2>4 DEF RecoversBehind
  <2> QED
    BY <1>0, <2>4, <2>5, <2>7, <2>8 DEF LocalInv
<1> QED
  BY <1>1, <1>2, <1>3, <1>4, <1>5 DEF ExecStep

(* A recovery pass parts them by its unfenced write alone, and closes the  *)
(* Run over no child whose pid is stored.                                  *)
LEMMA RecoveryAgrees ==
    ASSUME OneLocalProcess, OwnershipInv, LocalInv, NEW p \in Proc, RecoveryStep(p)
    PROVE  LocalInv' /\ LocalStep
<1> USE DEF runVars, attVars, execVars, recVars
<1>0. /\ TypeOK /\ rn[p] \in Attempt /\ \A q \in Proc : q = p
      /\ SoleExecutor /\ RecoversBehind(p) /\ WatchesChild(p)
      /\ RowsAgree \/ (run = "FAILED" /\ epc[p] = "idle")
  BY DEF OwnershipInv, LocalInv, OneLocalProcess, TypeOK
<1>1. CASE \/ ScanExpired(p) \/ ScanStale(p) \/ SkipLive(p) \/ ReadRun(p)
           \/ ClaimRecovery(p) \/ LookAtChild(p) \/ ReleaseClaim(p)
  <2>1. run' = run /\ att' = att /\ epc' = epc /\ pid' = pid
    BY <1>1 DEF ScanExpired, ScanStale, SkipLive, ReadRun, ClaimRecovery, LookAtChild,
       ReleaseClaim
  <2>2. RecoversBehind(p)'
    <3>1. epc[p] # "idle" => rpc'[p] \notin {"look", "release", "abandon"}
      BY <1>0, <1>1 DEF ScanExpired, ScanStale, SkipLive, ReadRun, FutureLive, ClaimRecovery,
         LookAtChild, ReleaseClaim, RecoversBehind, TypeOK
    <3>2. epc[p] = "start" => rpc'[p] \in {"idle", "scan"}
      BY <1>0, <1>1 DEF ScanExpired, ScanStale, SkipLive, ReadRun, FutureLive, ClaimRecovery,
         LookAtChild, ReleaseClaim, RecoversBehind, TypeOK
    <3> QED
      BY <1>0, <2>1, <3>1, <3>2 DEF RecoversBehind
  <2>3. WatchesChild(p)'
    <3>1. CASE ScanExpired(p) \/ ScanStale(p) \/ SkipLive(p) \/ ReleaseClaim(p)
      <4>1. rpc'[p] \in {"idle", "scan", "read"}
        BY <1>0, <3>1 DEF ScanExpired, ScanStale, SkipLive, ReleaseClaim, TypeOK
      <4> QED
        BY <4>1 DEF WatchesChild
    <3>2. CASE ReadRun(p)
      <4>1. CASE NoAttempt /\ rpc' = [rpc EXCEPT ![p] = "fail"]
        <5>1. rpc'[p] = "fail" /\ child' = child
          BY <1>0, <3>2, <4>1 DEF ReadRun, TypeOK
        <5>2. \A n \in Attempt : ~LiveChild(n)
          BY <4>1, NoChildYet
        <5> QED
          BY <5>1, <5>2 DEF WatchesChild, LiveChild
      <4>2. ASSUME NEW n \in Attempt, rpc'[p] \in {"idle", "claim"}, rn'[p] = n, rpid'[p] = pid[n]
            PROVE  WatchesChild(p)'
        BY <2>1, <4>2 DEF WatchesChild
      <4>3. \/ NoAttempt /\ rpc' = [rpc EXCEPT ![p] = "fail"]
            \/ \E n \in Attempt : rpc'[p] \in {"idle", "claim"} /\ rn'[p] = n /\ rpid'[p] = pid[n]
        BY <1>0, <3>2 DEF ReadRun, TypeOK
      <4> QED
        BY <4>1, <4>2, <4>3
    <3>3. CASE ClaimRecovery(p)
      <4>1. rpc[p] = "claim" /\ rpc'[p] \in {"idle", "look"} /\ UNCHANGED <<rn, rpid, child, pid, epc>>
        BY <1>0, <3>3 DEF ClaimRecovery, TypeOK
      <4> QED
        BY <1>0, <4>1 DEF WatchesChild, LiveChild
    <3>4. CASE LookAtChild(p)
      <4>1. CASE rpc'[p] # "abandon"
        <5>1. rpc'[p] \in {"idle", "release"}
          BY <1>0, <3>4, <4>1 DEF LookAtChild, TypeOK
        <5> QED
          BY <5>1 DEF WatchesChild
      <4>2. CASE rpc'[p] = "abandon"
        <5>1. /\ rpc[p] = "look" /\ child' = child /\ rn' = rn
              /\ rpid[p] /\ PidExists(rn[p]) =>
                    (IdentityMatches(rn[p]) => Stranger(rn[p]))
          BY <1>0, <3>4, <4>2 DEF LookAtChild, TypeOK
        <5>2. LiveChild(rn[p]) => PidExists(rn[p]) /\ IdentityMatches(rn[p]) /\ ~Stranger(rn[p])
          BY DEF LiveChild, PidExists, IdentityMatches, Stranger
        <5>3. epc[p] = "idle"
          BY <1>0, <5>1 DEF RecoversBehind
        <5>4. ~(LiveChild(rn[p]) /\ pid[rn[p]])
          BY <1>0, <5>1, <5>2, <5>3 DEF WatchesChild
        <5> QED
          BY <2>1, <4>2, <5>1, <5>4 DEF WatchesChild, LiveChild
      <4> QED
        BY <4>1, <4>2
    <3> QED
      BY <1>1, <3>1, <3>2, <3>3, <3>4
  <2>4. (RowsAgree' <=> RowsAgree) /\ (RunClosed' <=> RunClosed)
    BY <2>1, RowsUnmoved
  <2> QED
    BY <1>0, <2>1, <2>2, <2>3, <2>4 DEF LocalInv, LocalStep
<1>2. CASE FailRunWithoutAttempt(p)
  <2>1. /\ run' = "FAILED" /\ epc' = epc /\ epc[p] = "idle"
        /\ rpc[p] = "fail" /\ rpc'[p] = "idle"
    BY <1>0, <1>2 DEF FailRunWithoutAttempt, FutureLive, TypeOK
  <2>2. \A n \in Attempt : ~LiveChild(n)
    BY <1>0, <2>1 DEF WatchesChild
  <2>3. LocalStep
    BY <2>1, <2>2 DEF LocalStep, Unfenced
  <2> QED
    BY <1>0, <2>1, <2>3 DEF LocalInv, RecoversBehind, WatchesChild
<1>3. CASE AbandonAttempt(p)
  <2> DEFINE n == rn[p]
  <2>1. epc' = epc /\ rpc[p] = "abandon" /\ rpc'[p] = "idle" /\ epc[p] = "idle"
    BY <1>0, <1>3 DEF AbandonAttempt, RecoversBehind, TypeOK
  <2>2. RecoversBehind(p)' /\ WatchesChild(p)'
    BY <2>1 DEF RecoversBehind, WatchesChild
  <2>3. CASE ClaimHeld(n, p) /\ run = "RUNNING"
    <3>1. att[n] = "RUNNING" /\ IsLastAttempt(n)
      BY <1>0, <2>3, RunningIsLast DEF ClaimHeld
    <3>2. att' = [att EXCEPT ![n] = "ABANDONED"] /\ run' = "FAILED"
      BY <1>3, <2>3 DEF AbandonAttempt, CloseBoth, CloseTogether
    <3>3. att'[n] = "ABANDONED" /\ \A m \in Attempt : IsLastAttempt(m)' => m = n
      BY <1>0, <3>1, <3>2, LastStaysLast DEF IsLastAttempt
    <3>4. RowsAgree'
      BY <3>2, <3>3 DEF RowsAgree, Agrees
    <3>5. \A m \in Attempt : LiveChild(m) => ~pid[m]
      <4>1. \A m \in Attempt : (m < n => att[m] = "RETRYABLE_FAILURE") /\ (m > n => att[m] = "NONE")
        BY <1>0, <3>1 DEF OwnershipInv, AttemptRow, IsLastAttempt
      <4>2. ~(LiveChild(n) /\ pid[n])
        BY <1>0, <2>1 DEF WatchesChild
      <4> QED
        BY <1>0, <4>1, <4>2, OnlyItsChild
    <3> QED
      BY <1>0, <2>2, <2>3, <3>4, <3>5 DEF LocalInv, LocalStep, RunClosed, RunTerminal
  <2>4. CASE ~ClaimHeld(n, p)
    <3>1. run' = run /\ att' = att
      BY <1>3, <2>4 DEF AbandonAttempt
    <3>2. (RowsAgree' <=> RowsAgree) /\ (RunClosed' <=> RunClosed)
      BY <3>1, RowsUnmoved
    <3> QED
      BY <1>0, <2>1, <2>2, <3>1, <3>2 DEF LocalInv, LocalStep
  <2>5. CASE ClaimHeld(n, p) /\ run # "RUNNING"
    <3>1. run = "FAILED" /\ ~RowsAgree
      <4>1. att[n] = "RUNNING" /\ IsLastAttempt(n)
        BY <1>0, <2>5, RunningIsLast DEF ClaimHeld
      <4>2. ~RowsAgree
        BY <1>0, <2>5, <4>1 DEF RowsAgree, Agrees
      <4> QED
        BY <1>0, <4>2
    <3>2. run' = run
      BY <1>3, <2>5 DEF AbandonAttempt, CloseBoth, CloseAttemptOnly
    <3> QED
      BY <1>0, <2>1, <2>2, <3>1, <3>2 DEF LocalInv, LocalStep, RunClosed, RunTerminal
  <2> QED
    BY <2>3, <2>4, <2>5
<1> QED
  BY <1>1, <1>2, <1>3 DEF RecoveryStep

(* Nor do the environment and the other steps of the process. *)
LEMMA StepAgrees ==
    ASSUME OneLocalProcess, OwnershipInv, LocalInv, [Next]_vars
    PROVE  LocalInv' /\ LocalStep
<1>1. ASSUME NEW p \in Proc, Crash(p)
      PROVE  LocalInv' /\ LocalStep
  <2>1. /\ run' = run /\ att' = att /\ \A q \in Proc : q = p
        /\ epc'[p] = "idle" /\ rpc'[p] = "idle"
    BY <1>1 DEF Crash, OneLocalProcess, runVars, attVars, OwnershipInv, TypeOK
  <2>2. (RowsAgree' <=> RowsAgree) /\ (RunClosed' <=> RunClosed)
    BY <2>1, RowsUnmoved
  <2> QED
    BY <2>1, <2>2 DEF LocalInv, LocalStep, RecoversBehind, WatchesChild
<1>2. CASE \/ \E p \in Proc : Heartbeat(p) \/ Restart(p)
           \/ \E n \in Attempt : ChildExits(n) \/ PidReused(n)
           \/ Tick \/ UNCHANGED vars
  <2>1. UNCHANGED <<run, att, epc, rpc, rn, rpid, pid>>
    BY <1>2 DEF Heartbeat, Restart, ChildExits, PidReused, Tick, vars, runVars, attVars,
       execVars, recVars
  <2>2. \A n \in Attempt : LiveChild(n)' => LiveChild(n)
    <3>1. CASE child' = child
      BY <3>1 DEF LiveChild
    <3>2. ASSUME NEW m \in Attempt, ChildExits(m) \/ PidReused(m)
          PROVE  \A n \in Attempt : LiveChild(n)' => LiveChild(n)
      BY <3>2 DEF ChildExits, PidReused, LiveChild, OwnershipInv, TypeOK
    <3> QED
      BY <1>2, <3>1, <3>2 DEF Heartbeat, Restart, Tick, vars, runVars, attVars
  <2>3. (RowsAgree' <=> RowsAgree) /\ (RunClosed' <=> RunClosed)
    BY <2>1, RowsUnmoved
  <2>4. \A p \in Proc : rn[p] \in Attempt
    BY DEF OwnershipInv, TypeOK
  <2>5. ASSUME NEW p \in Proc PROVE RecoversBehind(p)' /\ WatchesChild(p)'
    <3>1. RecoversBehind(p) /\ WatchesChild(p)
      BY DEF LocalInv
    <3> QED
      BY <2>1, <2>2, <2>4, <3>1 DEF RecoversBehind, WatchesChild
  <2> QED
    BY <2>1, <2>3, <2>5 DEF LocalInv, LocalStep
<1> QED
  BY <1>1, <1>2, ExecAgrees, RecoveryAgrees DEF Next, ProcStep

LEMMA LocalAgreement == ASSUME OneLocalProcess PROVE Spec => []LocalInv
<1>1. Init => LocalInv
  BY DEF OneLocalProcess, Init, LocalInv, RecoversBehind, WatchesChild, RowsAgree,
     IsLastAttempt, LiveChild
<1>2. OwnershipInv /\ LocalInv /\ [Next]_vars => LocalInv'
  BY StepAgrees
<1> QED
  BY <1>1, <1>2, Ownership, PTL DEF Spec

(* Where the process that executes a Run is the one that recovers it, the  *)
(* rows of the Run and of its last attempt match at every transaction      *)
(* boundary, through any number of crashes and on either store, until a    *)
(* pass that read the Run without an Attempt writes its unfenced FAILED.   *)
THEOREM LocalRowsAgree == ASSUME OneLocalProcess PROVE Spec => RowsPartOnlyUnfenced
<1>1. OwnershipInv /\ LocalInv /\ [Next]_vars
        => [RowsAgree /\ ~RowsAgree'
               => run' = "FAILED" /\ \E p \in Proc : rpc[p] = "fail" /\ rpc'[p] = "idle"]_vars
  BY StepAgrees DEF LocalStep, Unfenced
<1> QED
  BY <1>1, LocalAgreement, Ownership, PTL DEF Spec, RowsPartOnlyUnfenced

(* There, too, no verdict is taken back for another execution: a Run that  *)
(* has ended keeps its status or becomes FAILED.                           *)
THEOREM LocalRunStaysClosed == ASSUME OneLocalProcess PROVE Spec => LocalVerdictKept
<1>1. OwnershipInv /\ LocalInv /\ [Next]_vars => [RunClosed => run' \in {run, "FAILED"}]_vars
  BY StepAgrees DEF LocalStep
<1> QED
  BY <1>1, LocalAgreement, Ownership, PTL DEF Spec, LocalVerdictKept

(* And no Run is closed while a child runs whose pid the store knows: the  *)
(* pass that closes it found the future done or the orphan gone.           *)
THEOREM LocalChildIsAwaited == ASSUME OneLocalProcess PROVE Spec => ClosedOverNoLiveChild
<1>1. OwnershipInv /\ LocalInv /\ [Next]_vars
        => [~RunClosed /\ RunClosed' => \A n \in Attempt : LiveChild(n) => ~pid[n]]_vars
  BY StepAgrees DEF LocalStep
<1> QED
  BY <1>1, LocalAgreement, Ownership, PTL DEF Spec, ClosedOverNoLiveChild
=============================================================================
