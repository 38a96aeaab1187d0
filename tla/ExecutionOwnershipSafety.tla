---------------------- MODULE ExecutionOwnershipSafety ----------------------
(* OwnershipInv is inductive, and the safety properties that follow from   *)
(* it.  Each action is taken against the four parts of the invariant.      *)
EXTENDS ExecutionOwnershipProofs

(* OwnershipInv without its typing part. *)
SafetyInv ==
    /\ SoleExecutor
    /\ \A n \in Attempt : AttemptRow(n)
    /\ \A p \in Proc : OwnAttempt(p) /\ OrphanClaimed(p)

(* A renewal requires a lease that still runs: a lost one stays lost.      *)
LEMMA RenewalKeepsLost ==
    ASSUME TypeOK, NEW p \in Proc, NEW k \in Attempt, lease' = lease,
           \/ leaseLeft' = leaseLeft
           \/ LeaseHeld(k, p) /\ leaseLeft' = [leaseLeft EXCEPT ![k] = LeaseTicks]
    PROVE  \A n \in Attempt : LeaseLost(n) => LeaseLost(n)'
<1> SUFFICES ASSUME NEW n \in Attempt, LeaseLost(n) PROVE LeaseLost(n)'
  OBVIOUS
<1>1. leaseLeft[n] \in Int /\ leaseLeft[k] \in Int
  BY DEF TypeOK
<1>2. CASE leaseLeft' = leaseLeft
  BY <1>2 DEF LeaseLost
<1>3. CASE LeaseHeld(k, p) /\ leaseLeft' = [leaseLeft EXCEPT ![k] = LeaseTicks]
  <2>1. n # k
    BY <1>1, <1>3 DEF LeaseHeld, LeaseLost
  <2> QED
    BY <1>3, <2>1 DEF LeaseLost, TypeOK
<1> QED
  BY <1>2, <1>3

(* What precedes and what follows an attempt when the retry loop moves on. *)
LEMMA NextInOrder ==
    ASSUME NEW k \in Attempt, NEW j \in Attempt, j = k + 1,
           NEW row, row[k] = "RETRYABLE_FAILURE",
           \A m \in Attempt : /\ m < k => row[m] = "RETRYABLE_FAILURE"
                              /\ m > k => row[m] = "NONE"
    PROVE  /\ row[j] = "NONE"
           /\ \A m \in Attempt : /\ m < j => row[m] = "RETRYABLE_FAILURE"
                                 /\ m > j => row[m] = "NONE"
BY BoundAssumption DEF Attempt

(* No step of an executing thread breaks the invariant. *)
LEMMA ExecSafety ==
    ASSUME OwnershipInv, NEW p \in Proc, ExecStep(p)
    PROVE  SafetyInv'
<1> USE DEF runVars, attVars, execVars, recVars, LiveChild, ChildEnded, LeaseLost
<1> USE DEF OwnershipInv
<1>1. CASE ClaimNextRun(p)
  <2>1. SoleExecutor'
    BY <1>1 DEF ClaimNextRun, SoleExecutor, NoAttempt, TypeOK
  <2>2. ASSUME NEW n \in Attempt PROVE AttemptRow(n)'
    BY <1>1 DEF ClaimNextRun, AttemptRow, OwnAttempt, OrphanClaimed, TypeOK
  <2>3. ASSUME NEW q \in Proc PROVE OwnAttempt(q)'
    BY <1>1 DEF ClaimNextRun, AttemptRow, OwnAttempt, OrphanClaimed, SoleExecutor, TypeOK
  <2>4. ASSUME NEW q \in Proc PROVE OrphanClaimed(q)'
    BY <1>1 DEF ClaimNextRun, AttemptRow, OwnAttempt, OrphanClaimed, TypeOK
  <2> QED
    BY <2>1, <2>2, <2>3, <2>4 DEF SafetyInv
<1>2. CASE CancelBeforeExecution(p)
  <2>1. SoleExecutor'
    BY <1>2 DEF CancelBeforeExecution, SoleExecutor, NoAttempt, TypeOK
  <2>2. ASSUME NEW n \in Attempt PROVE AttemptRow(n)'
    BY <1>2 DEF CancelBeforeExecution, AttemptRow, OwnAttempt, OrphanClaimed, TypeOK
  <2>3. ASSUME NEW q \in Proc PROVE OwnAttempt(q)'
    BY <1>2 DEF CancelBeforeExecution, AttemptRow, OwnAttempt, OrphanClaimed,
       SoleExecutor, TypeOK
  <2>4. ASSUME NEW q \in Proc PROVE OrphanClaimed(q)'
    BY <1>2 DEF CancelBeforeExecution, AttemptRow, OwnAttempt, OrphanClaimed, TypeOK
  <2> QED
    BY <2>1, <2>2, <2>3, <2>4 DEF SafetyInv
<1>3. CASE Start(p)
  <2>1. SoleExecutor'
    BY <1>3 DEF Start, SoleExecutor, NoAttempt, TypeOK
  <2>2. ASSUME NEW n \in Attempt PROVE AttemptRow(n)'
    BY <1>3 DEF Start, AttemptRow, OwnAttempt, OrphanClaimed, TypeOK
  <2>3. ASSUME NEW q \in Proc PROVE OwnAttempt(q)'
    <3>1. /\ epc'[p] = "record" /\ en'[p] = 1
          /\ \A n \in Attempt : att'[n] = "NONE"
      BY <1>3 DEF Start, SoleExecutor, NoAttempt, TypeOK
    <3>2. 1 \in Attempt /\ \A n \in Attempt : ~(n < 1)
      BY BoundAssumption DEF Attempt
    <3>3. CASE q = p
      BY <3>1, <3>2, <3>3 DEF OwnAttempt
    <3>4. CASE q # p
      BY <1>3, <3>4 DEF Start, OwnAttempt, SoleExecutor, TypeOK
    <3> QED
      BY <3>3, <3>4
  <2>4. ASSUME NEW q \in Proc PROVE OrphanClaimed(q)'
    BY <1>3 DEF Start, AttemptRow, OwnAttempt, OrphanClaimed, TypeOK
  <2> QED
    BY <2>1, <2>2, <2>3, <2>4 DEF SafetyInv
<1>4. CASE RecordAttempt(p)
  <2>1. SoleExecutor'
    BY <1>4 DEF RecordAttempt, SoleExecutor, NoAttempt, TypeOK
  <2>2. ASSUME NEW n \in Attempt PROVE AttemptRow(n)'
    BY <1>4, SMTT(30) DEF RecordAttempt, AttemptRow, OwnAttempt, OrphanClaimed, TypeOK
  <2>3. ASSUME NEW q \in Proc PROVE OwnAttempt(q)'
    BY <1>4 DEF RecordAttempt, AttemptRow, OwnAttempt, OrphanClaimed, SoleExecutor, TypeOK
  <2>4. ASSUME NEW q \in Proc PROVE OrphanClaimed(q)'
    BY <1>4 DEF RecordAttempt, AttemptRow, OwnAttempt, OrphanClaimed, TypeOK
  <2> QED
    BY <2>1, <2>2, <2>3, <2>4 DEF SafetyInv
<1>5. CASE AcquireLease(p)
  <2>1. SoleExecutor'
    <3>1. /\ epc[p] = "lease"
          /\ epc' \in {[epc EXCEPT ![p] = "spawn"], [epc EXCEPT ![p] = "finalize"]}
          /\ UNCHANGED <<run, att>>
      BY <1>5 DEF AcquireLease
    <3> QED
      BY <3>1, SMTT(30) DEF SoleExecutor, NoAttempt, TypeOK
  <2>2. ASSUME NEW n \in Attempt PROVE AttemptRow(n)'
    BY <1>5 DEF AcquireLease, LeaseFree, AttemptRow, OwnAttempt, OrphanClaimed, TypeOK
  <2>3. ASSUME NEW q \in Proc PROVE OwnAttempt(q)'
    BY <1>5 DEF AcquireLease, LeaseFree, AttemptRow, OwnAttempt, OrphanClaimed,
       SoleExecutor, TypeOK
  <2>4. ASSUME NEW q \in Proc PROVE OrphanClaimed(q)'
    BY <1>5 DEF AcquireLease, LeaseFree, AttemptRow, OwnAttempt, OrphanClaimed, TypeOK
  <2> QED
    BY <2>1, <2>2, <2>3, <2>4 DEF SafetyInv
<1>6. CASE SpawnChild(p)
  <2>1. SoleExecutor'
    BY <1>6 DEF SpawnChild, SoleExecutor, NoAttempt, TypeOK
  <2>2. ASSUME NEW n \in Attempt PROVE AttemptRow(n)'
    BY <1>6 DEF SpawnChild, AttemptRow, OwnAttempt, OrphanClaimed, TypeOK
  <2>3. ASSUME NEW q \in Proc PROVE OwnAttempt(q)'
    BY <1>6 DEF SpawnChild, AttemptRow, OwnAttempt, OrphanClaimed, SoleExecutor, TypeOK
  <2>4. ASSUME NEW q \in Proc PROVE OrphanClaimed(q)'
    BY <1>6 DEF SpawnChild, AttemptRow, OwnAttempt, OrphanClaimed, TypeOK
  <2> QED
    BY <2>1, <2>2, <2>3, <2>4 DEF SafetyInv
<1>7. CASE FailToSpawn(p)
  <2>1. SoleExecutor'
    BY <1>7 DEF FailToSpawn, AfterAdapter, SoleExecutor, NoAttempt, TypeOK
  <2>2. ASSUME NEW n \in Attempt PROVE AttemptRow(n)'
    BY <1>7 DEF FailToSpawn, AfterAdapter, AttemptRow, OwnAttempt, OrphanClaimed, TypeOK
  <2>3. ASSUME NEW q \in Proc PROVE OwnAttempt(q)'
    BY <1>7 DEF FailToSpawn, AfterAdapter, AttemptRow, OwnAttempt, OrphanClaimed,
       SoleExecutor, TypeOK
  <2>4. ASSUME NEW q \in Proc PROVE OrphanClaimed(q)'
    BY <1>7 DEF FailToSpawn, AfterAdapter, AttemptRow, OwnAttempt, OrphanClaimed, TypeOK
  <2> QED
    BY <2>1, <2>2, <2>3, <2>4 DEF SafetyInv
<1>8. CASE RecordProcess(p)
  <2>1. SoleExecutor'
    BY <1>8 DEF RecordProcess, SoleExecutor, NoAttempt, TypeOK
  <2>2. ASSUME NEW n \in Attempt PROVE AttemptRow(n)'
    BY <1>8 DEF RecordProcess, AttemptRow, OwnAttempt, OrphanClaimed, TypeOK
  <2>3. ASSUME NEW q \in Proc PROVE OwnAttempt(q)'
    BY <1>8 DEF RecordProcess, AttemptRow, OwnAttempt, OrphanClaimed, SoleExecutor, TypeOK
  <2>4. ASSUME NEW q \in Proc PROVE OrphanClaimed(q)'
    BY <1>8 DEF RecordProcess, AttemptRow, OwnAttempt, OrphanClaimed, TypeOK
  <2> QED
    BY <2>1, <2>2, <2>3, <2>4 DEF SafetyInv
<1>9. CASE ChildCollected(p)
  <2>1. SoleExecutor'
    BY <1>9 DEF ChildCollected, AfterAdapter, SoleExecutor, NoAttempt, TypeOK
  <2>2. ASSUME NEW n \in Attempt PROVE AttemptRow(n)'
    BY <1>9 DEF ChildCollected, AfterAdapter, AttemptRow, OwnAttempt, OrphanClaimed, TypeOK
  <2>3. ASSUME NEW q \in Proc PROVE OwnAttempt(q)'
    BY <1>9 DEF ChildCollected, AfterAdapter, AttemptRow, OwnAttempt, OrphanClaimed,
       SoleExecutor, TypeOK
  <2>4. ASSUME NEW q \in Proc PROVE OrphanClaimed(q)'
    BY <1>9 DEF ChildCollected, AfterAdapter, AttemptRow, OwnAttempt, OrphanClaimed, TypeOK
  <2> QED
    BY <2>1, <2>2, <2>3, <2>4 DEF SafetyInv
<1>10. CASE ChildTimesOut(p)
  <2>1. SoleExecutor'
    BY <1>10 DEF ChildTimesOut, AfterAdapter, SoleExecutor, NoAttempt, TypeOK
  <2>2. ASSUME NEW n \in Attempt PROVE AttemptRow(n)'
    BY <1>10 DEF ChildTimesOut, AfterAdapter, AttemptRow, OwnAttempt, OrphanClaimed, TypeOK
  <2>3. ASSUME NEW q \in Proc PROVE OwnAttempt(q)'
    BY <1>10 DEF ChildTimesOut, AfterAdapter, AttemptRow, OwnAttempt, OrphanClaimed,
       SoleExecutor, TypeOK
  <2>4. ASSUME NEW q \in Proc PROVE OrphanClaimed(q)'
    BY <1>10 DEF ChildTimesOut, AfterAdapter, AttemptRow, OwnAttempt, OrphanClaimed, TypeOK
  <2> QED
    BY <2>1, <2>2, <2>3, <2>4 DEF SafetyInv
<1>11. CASE CheckLease(p)
  <2>1. SoleExecutor'
    BY <1>11 DEF CheckLease, LeaseHeld, SoleExecutor, NoAttempt, TypeOK
  <2>0. \A n \in Attempt : LeaseLost(n) => LeaseLost(n)'
    <3>1. en[p] \in Attempt
      BY DEF TypeOK
    <3> QED
      BY <1>11, <3>1, RenewalKeepsLost DEF CheckLease
  <2>2. ASSUME NEW n \in Attempt PROVE AttemptRow(n)'
    <3> HIDE DEF LeaseLost
    <3> QED
      BY <1>11, <2>0 DEF CheckLease, AttemptRow
  <2>3. ASSUME NEW q \in Proc PROVE OwnAttempt(q)'
    <3>1. /\ epc[p] = "check" /\ epc' = [epc EXCEPT ![p] = "finalize"]
          /\ UNCHANGED <<att, lease, child, en>>
      BY <1>11 DEF CheckLease
    <3>2. CASE q = p
      BY <3>1, <3>2 DEF OwnAttempt, TypeOK
    <3>3. CASE q # p
      BY <3>1, <3>3 DEF OwnAttempt, SoleExecutor, TypeOK
    <3> QED
      BY <3>2, <3>3
  <2>4. ASSUME NEW q \in Proc PROVE OrphanClaimed(q)'
    <3> HIDE DEF LeaseLost
    <3> QED
      BY <1>11, <2>0 DEF CheckLease, OrphanClaimed, TypeOK
  <2> QED
    BY <2>1, <2>2, <2>3, <2>4 DEF SafetyInv
<1>12. CASE Finalize(p)
  <2>1. SoleExecutor'
    BY <1>12 DEF Finalize, Leave, WriteFence, LeaseHeld, CloseBoth, CloseTogether,
       CloseAttemptOnly, AttVerdict, RunVerdict, SoleExecutor, NoAttempt, TypeOK
  <2>2. ASSUME NEW n \in Attempt PROVE AttemptRow(n)'
    BY <1>12 DEF Finalize, Leave, WriteFence, LeaseHeld, CloseBoth, CloseTogether,
       CloseAttemptOnly, AttVerdict, RunVerdict, AttemptRow, OwnAttempt, OrphanClaimed,
       TypeOK
  <2>3. ASSUME NEW q \in Proc PROVE OwnAttempt(q)'
    BY <1>12 DEF Finalize, Leave, WriteFence, LeaseHeld, CloseBoth, CloseTogether,
       CloseAttemptOnly, AttVerdict, RunVerdict, AttemptRow, OwnAttempt, OrphanClaimed,
       SoleExecutor, TypeOK
  <2>4. ASSUME NEW q \in Proc PROVE OrphanClaimed(q)'
    BY <1>12 DEF Finalize, Leave, WriteFence, LeaseHeld, CloseBoth, CloseTogether,
       CloseAttemptOnly, AttVerdict, RunVerdict, AttemptRow, OwnAttempt, OrphanClaimed,
       TypeOK
  <2> QED
    BY <2>1, <2>2, <2>3, <2>4 DEF SafetyInv
<1>13. CASE SettleRetry(p)
  <2>1. SoleExecutor'
    <3>1. /\ epc[p] = "settle"
          /\ epc' \in {[epc EXCEPT ![p] = "sleep"], [epc EXCEPT ![p] = "idle"]}
          /\ UNCHANGED run
      BY <1>13 DEF SettleRetry, Leave
    <3> QED
      BY <3>1 DEF SoleExecutor, TypeOK
  <2>2. ASSUME NEW n \in Attempt PROVE AttemptRow(n)'
    BY <1>13, SMTT(30) DEF SettleRetry, Leave, AttemptRow, OwnAttempt, TypeOK
  <2>3. ASSUME NEW q \in Proc PROVE OwnAttempt(q)'
    <3>1. CASE q = p
      <4>1. CASE WriteFence(en[p], p)
        BY <1>13, <3>1, <4>1, SMTT(30) DEF SettleRetry, AttemptRow, OwnAttempt, TypeOK
      <4>2. CASE ~WriteFence(en[p], p)
        BY <1>13, <3>1, <4>2 DEF SettleRetry, Leave, OwnAttempt, TypeOK
      <4> QED
        BY <4>1, <4>2
    <3>2. CASE q # p
      <4>1. epc[q] = "idle" /\ epc'[q] = "idle"
        BY <1>13, <3>2 DEF SettleRetry, Leave, SoleExecutor, TypeOK
      <4> QED
        BY <4>1 DEF OwnAttempt
    <3> QED
      BY <3>1, <3>2
  <2>4. ASSUME NEW q \in Proc PROVE OrphanClaimed(q)'
    BY <1>13 DEF SettleRetry, Leave, AttemptRow, OwnAttempt, OrphanClaimed, TypeOK
  <2> QED
    BY <2>1, <2>2, <2>3, <2>4 DEF SafetyInv
<1>14. CASE NextAttempt(p)
  <2>1. SoleExecutor'
    BY <1>14 DEF NextAttempt, SoleExecutor, NoAttempt, TypeOK
  <2>2. ASSUME NEW n \in Attempt PROVE AttemptRow(n)'
    BY <1>14 DEF NextAttempt, AttemptRow, OwnAttempt, OrphanClaimed, TypeOK
  <2>3. ASSUME NEW q \in Proc PROVE OwnAttempt(q)'
    <3>1. CASE q = p
      <4>1. /\ epc[p] = "sleep" /\ epc'[p] = "record"
            /\ en'[p] = en[p] + 1 /\ att' = att
        BY <1>14 DEF NextAttempt, TypeOK
      <4>2. /\ att[en[p]] = "RETRYABLE_FAILURE"
            /\ \A m \in Attempt : /\ m < en[p] => att[m] = "RETRYABLE_FAILURE"
                                  /\ m > en[p] => att[m] = "NONE"
        BY <4>1 DEF OwnAttempt
      <4>3. en[p] \in Attempt /\ en'[p] \in Attempt
        BY ExecTypeOK DEF TypeOK
      <4>4. /\ att'[en'[p]] = "NONE"
            /\ \A m \in Attempt : /\ m < en'[p] => att'[m] = "RETRYABLE_FAILURE"
                                  /\ m > en'[p] => att'[m] = "NONE"
        BY <4>1, <4>2, <4>3, NextInOrder
      <4>5. epc'[p] = "record"
        BY <4>1
      <4>6. OwnAttempt(p)'
        BY <4>4, <4>5 DEF OwnAttempt
      <4> QED
        BY <3>1, <4>6
    <3>2. CASE q # p
      BY <1>14, <3>2 DEF NextAttempt, OwnAttempt, SoleExecutor, TypeOK
    <3> QED
      BY <3>1, <3>2
  <2>4. ASSUME NEW q \in Proc PROVE OrphanClaimed(q)'
    BY <1>14 DEF NextAttempt, AttemptRow, OwnAttempt, OrphanClaimed, TypeOK
  <2> QED
    BY <2>1, <2>2, <2>3, <2>4 DEF SafetyInv
<1> QED
  BY <1>1, <1>2, <1>3, <1>4, <1>5, <1>6, <1>7, <1>8, <1>9, <1>10, <1>11, <1>12, <1>13,
     <1>14 DEF ExecStep

(* No step of a recovery pass breaks the invariant. *)
LEMMA RecoverySafety ==
    ASSUME OwnershipInv, NEW p \in Proc, RecoveryStep(p)
    PROVE  SafetyInv'
<1> USE DEF runVars, attVars, execVars, recVars, LiveChild, ChildEnded, LeaseLost
<1> USE DEF OwnershipInv
<1>1. CASE ScanExpired(p)
  <2>1. SoleExecutor'
    BY <1>1 DEF ScanExpired, SoleExecutor, NoAttempt, TypeOK
  <2>2. ASSUME NEW n \in Attempt PROVE AttemptRow(n)'
    BY <1>1 DEF ScanExpired, AttemptRow, OwnAttempt, OrphanClaimed, TypeOK
  <2>3. ASSUME NEW q \in Proc PROVE OwnAttempt(q)'
    BY <1>1 DEF ScanExpired, AttemptRow, OwnAttempt, OrphanClaimed, SoleExecutor, TypeOK
  <2>4. ASSUME NEW q \in Proc PROVE OrphanClaimed(q)'
    BY <1>1 DEF ScanExpired, AttemptRow, OwnAttempt, OrphanClaimed, TypeOK
  <2> QED
    BY <2>1, <2>2, <2>3, <2>4 DEF SafetyInv
<1>2. CASE ScanStale(p)
  <2>1. SoleExecutor'
    BY <1>2 DEF ScanStale, SoleExecutor, NoAttempt, TypeOK
  <2>2. ASSUME NEW n \in Attempt PROVE AttemptRow(n)'
    BY <1>2 DEF ScanStale, AttemptRow, OwnAttempt, OrphanClaimed, TypeOK
  <2>3. ASSUME NEW q \in Proc PROVE OwnAttempt(q)'
    BY <1>2 DEF ScanStale, AttemptRow, OwnAttempt, OrphanClaimed, SoleExecutor, TypeOK
  <2>4. ASSUME NEW q \in Proc PROVE OrphanClaimed(q)'
    BY <1>2 DEF ScanStale, AttemptRow, OwnAttempt, OrphanClaimed, TypeOK
  <2> QED
    BY <2>1, <2>2, <2>3, <2>4 DEF SafetyInv
<1>3. CASE SkipLive(p)
  <2>1. SoleExecutor'
    BY <1>3 DEF SkipLive, SoleExecutor, NoAttempt, TypeOK
  <2>2. ASSUME NEW n \in Attempt PROVE AttemptRow(n)'
    BY <1>3 DEF SkipLive, AttemptRow, OwnAttempt, OrphanClaimed, TypeOK
  <2>3. ASSUME NEW q \in Proc PROVE OwnAttempt(q)'
    BY <1>3 DEF SkipLive, AttemptRow, OwnAttempt, OrphanClaimed, SoleExecutor, TypeOK
  <2>4. ASSUME NEW q \in Proc PROVE OrphanClaimed(q)'
    BY <1>3 DEF SkipLive, AttemptRow, OwnAttempt, OrphanClaimed, TypeOK
  <2> QED
    BY <2>1, <2>2, <2>3, <2>4 DEF SafetyInv
<1>4. CASE ReadRun(p)
  <2>1. SoleExecutor'
    BY <1>4 DEF ReadRun, SoleExecutor, NoAttempt, TypeOK
  <2>2. ASSUME NEW n \in Attempt PROVE AttemptRow(n)'
    BY <1>4 DEF ReadRun, AttemptRow, OwnAttempt, OrphanClaimed, TypeOK
  <2>3. ASSUME NEW q \in Proc PROVE OwnAttempt(q)'
    BY <1>4 DEF ReadRun, AttemptRow, OwnAttempt, OrphanClaimed, SoleExecutor, TypeOK
  <2>4. ASSUME NEW q \in Proc PROVE OrphanClaimed(q)'
    BY <1>4 DEF ReadRun, AttemptRow, OwnAttempt, OrphanClaimed, TypeOK
  <2> QED
    BY <2>1, <2>2, <2>3, <2>4 DEF SafetyInv
<1>5. CASE FailRunWithoutAttempt(p)
  <2>1. SoleExecutor'
    BY <1>5 DEF FailRunWithoutAttempt, SoleExecutor, NoAttempt, TypeOK
  <2>2. ASSUME NEW n \in Attempt PROVE AttemptRow(n)'
    BY <1>5 DEF FailRunWithoutAttempt, AttemptRow, OwnAttempt, OrphanClaimed, TypeOK
  <2>3. ASSUME NEW q \in Proc PROVE OwnAttempt(q)'
    BY <1>5 DEF FailRunWithoutAttempt, AttemptRow, OwnAttempt, OrphanClaimed,
       SoleExecutor, TypeOK
  <2>4. ASSUME NEW q \in Proc PROVE OrphanClaimed(q)'
    BY <1>5 DEF FailRunWithoutAttempt, AttemptRow, OwnAttempt, OrphanClaimed, TypeOK
  <2> QED
    BY <2>1, <2>2, <2>3, <2>4 DEF SafetyInv
<1>6. CASE ClaimRecovery(p)
  <2>1. SoleExecutor'
    BY <1>6 DEF ClaimRecovery, Claimable, LeaseExpired, SoleExecutor, NoAttempt, TypeOK
  <2>2. ASSUME NEW n \in Attempt PROVE AttemptRow(n)'
    BY <1>6 DEF ClaimRecovery, Claimable, LeaseExpired, AttemptRow, OwnAttempt,
       OrphanClaimed, TypeOK
  <2>3. ASSUME NEW q \in Proc PROVE OwnAttempt(q)'
    BY <1>6 DEF ClaimRecovery, Claimable, LeaseExpired, AttemptRow, OwnAttempt,
       OrphanClaimed, SoleExecutor, TypeOK
  <2>4. ASSUME NEW q \in Proc PROVE OrphanClaimed(q)'
    BY <1>6 DEF ClaimRecovery, Claimable, LeaseExpired, AttemptRow, OwnAttempt,
       OrphanClaimed, TypeOK
  <2> QED
    BY <2>1, <2>2, <2>3, <2>4 DEF SafetyInv
<1>7. CASE LookAtChild(p)
  <2>0. /\ UNCHANGED <<runVars, attVars, execVars, rn>>
        /\ rpc[p] = "look"
        /\ TypeOK
    BY <1>7 DEF LookAtChild
  <2>1. SoleExecutor'
    BY <2>0 DEF SoleExecutor, NoAttempt
  <2>2. ASSUME NEW n \in Attempt PROVE AttemptRow(n)'
    BY <1>7, <2>0, LookMoves DEF AttemptRow
  <2>3. ASSUME NEW q \in Proc PROVE OwnAttempt(q)'
    <3>1. en[q] \in Attempt
      BY DEF TypeOK
    <3> QED
      BY <1>7, <2>0, <3>1, LookMoves DEF OwnAttempt
  <2>4. ASSUME NEW q \in Proc PROVE OrphanClaimed(q)'
    BY <1>7, <2>0, LookMoves, SMTT(30) DEF OrphanClaimed, TypeOK
  <2> QED
    BY <2>1, <2>2, <2>3, <2>4 DEF SafetyInv
<1>8. CASE ReleaseClaim(p)
  <2>1. SoleExecutor'
    BY <1>8 DEF ReleaseClaim, SoleExecutor, NoAttempt, TypeOK
  <2>2. ASSUME NEW n \in Attempt PROVE AttemptRow(n)'
    BY <1>8 DEF ReleaseClaim, AttemptRow, OwnAttempt, OrphanClaimed, TypeOK
  <2>3. ASSUME NEW q \in Proc PROVE OwnAttempt(q)'
    BY <1>8 DEF ReleaseClaim, AttemptRow, OwnAttempt, OrphanClaimed, SoleExecutor, TypeOK
  <2>4. ASSUME NEW q \in Proc PROVE OrphanClaimed(q)'
    BY <1>8 DEF ReleaseClaim, AttemptRow, OwnAttempt, OrphanClaimed, TypeOK
  <2> QED
    BY <2>1, <2>2, <2>3, <2>4 DEF SafetyInv
<1>9. CASE AbandonAttempt(p)
  <2>1. SoleExecutor'
    BY <1>9 DEF AbandonAttempt, ClaimHeld, CloseBoth, CloseTogether, CloseAttemptOnly,
       SoleExecutor, NoAttempt, TypeOK
  <2>2. ASSUME NEW n \in Attempt PROVE AttemptRow(n)'
    BY <1>9 DEF AbandonAttempt, ClaimHeld, CloseBoth, CloseTogether, CloseAttemptOnly,
       AttemptRow, OwnAttempt, OrphanClaimed, TypeOK
  <2>3. ASSUME NEW q \in Proc PROVE OwnAttempt(q)'
    BY <1>9 DEF AbandonAttempt, ClaimHeld, CloseBoth, CloseTogether, CloseAttemptOnly,
       AttemptRow, OwnAttempt, OrphanClaimed, SoleExecutor, TypeOK
  <2>4. ASSUME NEW q \in Proc PROVE OrphanClaimed(q)'
    BY <1>9 DEF AbandonAttempt, ClaimHeld, CloseBoth, CloseTogether, CloseAttemptOnly,
       AttemptRow, OwnAttempt, OrphanClaimed, TypeOK
  <2> QED
    BY <2>1, <2>2, <2>3, <2>4 DEF SafetyInv
<1> QED
  BY <1>1, <1>2, <1>3, <1>4, <1>5, <1>6, <1>7, <1>8, <1>9 DEF RecoveryStep

(* Nor does a heartbeat, a crash, a child's end or the passage of time. *)
LEMMA StepSafety == OwnershipInv /\ [Next]_vars => SafetyInv'
<1> SUFFICES ASSUME OwnershipInv, [Next]_vars PROVE SafetyInv'
  OBVIOUS
<1> USE DEF runVars, attVars, execVars, recVars, LiveChild, ChildEnded, LeaseLost
<1> USE DEF OwnershipInv
<1>1. ASSUME NEW p \in Proc, Heartbeat(p) PROVE SafetyInv'
  <2>0. \A n \in Attempt : LeaseLost(n) => LeaseLost(n)'
    <3>1. en[p] \in Attempt
      BY DEF TypeOK
    <3> QED
      BY <1>1, <3>1, RenewalKeepsLost DEF Heartbeat
  <2> HIDE DEF LeaseLost
  <2>1. SoleExecutor'
    BY <1>1 DEF Heartbeat, SoleExecutor, NoAttempt
  <2>2. ASSUME NEW m \in Attempt PROVE AttemptRow(m)'
    BY <1>1, <2>0 DEF Heartbeat, AttemptRow
  <2>3. ASSUME NEW q \in Proc PROVE OwnAttempt(q)'
    BY <1>1 DEF Heartbeat, OwnAttempt
  <2>4. ASSUME NEW q \in Proc PROVE OrphanClaimed(q)'
    BY <1>1, <2>0 DEF Heartbeat, OrphanClaimed, TypeOK
  <2> QED
    BY <2>1, <2>2, <2>3, <2>4 DEF SafetyInv
<1>2. ASSUME NEW p \in Proc, Crash(p) PROVE SafetyInv'
  <2>1. SoleExecutor'
    BY <1>2 DEF Crash, SoleExecutor, NoAttempt, TypeOK
  <2>2. ASSUME NEW m \in Attempt PROVE AttemptRow(m)'
    BY <1>2 DEF Crash, AttemptRow, TypeOK
  <2>3. ASSUME NEW q \in Proc PROVE OwnAttempt(q)'
    BY <1>2 DEF Crash, OwnAttempt, TypeOK
  <2>4. ASSUME NEW q \in Proc PROVE OrphanClaimed(q)'
    BY <1>2 DEF Crash, OrphanClaimed, TypeOK
  <2> QED
    BY <2>1, <2>2, <2>3, <2>4 DEF SafetyInv
<1>3. ASSUME NEW p \in Proc, Restart(p) PROVE SafetyInv'
  <2>1. SoleExecutor'
    BY <1>3 DEF Restart, SoleExecutor, NoAttempt, TypeOK
  <2>2. ASSUME NEW m \in Attempt PROVE AttemptRow(m)'
    BY <1>3 DEF Restart, AttemptRow, TypeOK
  <2>3. ASSUME NEW q \in Proc PROVE OwnAttempt(q)'
    BY <1>3 DEF Restart, OwnAttempt, TypeOK
  <2>4. ASSUME NEW q \in Proc PROVE OrphanClaimed(q)'
    BY <1>3 DEF Restart, OrphanClaimed, TypeOK
  <2> QED
    BY <2>1, <2>2, <2>3, <2>4 DEF SafetyInv
<1>4. ASSUME NEW n \in Attempt, ChildExits(n) \/ PidReused(n) PROVE SafetyInv'
  <2>1. SoleExecutor'
    BY <1>4 DEF ChildExits, PidReused, SoleExecutor, NoAttempt, TypeOK
  <2>2. ASSUME NEW m \in Attempt PROVE AttemptRow(m)'
    BY <1>4 DEF ChildExits, PidReused, AttemptRow, TypeOK
  <2>3. ASSUME NEW q \in Proc PROVE OwnAttempt(q)'
    BY <1>4 DEF ChildExits, PidReused, OwnAttempt, TypeOK
  <2>4. ASSUME NEW q \in Proc PROVE OrphanClaimed(q)'
    BY <1>4 DEF ChildExits, PidReused, OrphanClaimed, TypeOK
  <2> QED
    BY <2>1, <2>2, <2>3, <2>4 DEF SafetyInv
<1>5. ASSUME Tick PROVE SafetyInv'
  <2>1. SoleExecutor'
    BY <1>5 DEF Tick, Less, SoleExecutor, NoAttempt, TypeOK
  <2>2. ASSUME NEW m \in Attempt PROVE AttemptRow(m)'
    BY <1>5 DEF Tick, Less, AttemptRow, TypeOK
  <2>3. ASSUME NEW q \in Proc PROVE OwnAttempt(q)'
    BY <1>5 DEF Tick, Less, OwnAttempt, TypeOK
  <2>4. ASSUME NEW q \in Proc PROVE OrphanClaimed(q)'
    BY <1>5 DEF Tick, Less, OrphanClaimed, TypeOK
  <2> QED
    BY <2>1, <2>2, <2>3, <2>4 DEF SafetyInv
<1>6. ASSUME UNCHANGED vars PROVE SafetyInv'
  <2>1. SoleExecutor'
    BY <1>6 DEF vars, SoleExecutor, NoAttempt, TypeOK
  <2>2. ASSUME NEW m \in Attempt PROVE AttemptRow(m)'
    BY <1>6 DEF vars, AttemptRow, TypeOK
  <2>3. ASSUME NEW q \in Proc PROVE OwnAttempt(q)'
    BY <1>6 DEF vars, OwnAttempt, TypeOK
  <2>4. ASSUME NEW q \in Proc PROVE OrphanClaimed(q)'
    BY <1>6 DEF vars, OrphanClaimed, TypeOK
  <2> QED
    BY <2>1, <2>2, <2>3, <2>4 DEF SafetyInv
<1> QED
  BY <1>1, <1>2, <1>3, <1>4, <1>5, <1>6, ExecSafety, RecoverySafety DEF Next, ProcStep

(* The initial state satisfies the invariant. *)
LEMMA InitSafety == Init => SafetyInv
BY ProcAssumption, BoundAssumption DEF Init, SafetyInv, SoleExecutor, AttemptRow, OwnAttempt,
   OrphanClaimed, NoAttempt, LiveChild, ChildEnded, LeaseLost

(* OwnershipInv holds in every state: it holds initially and every step    *)
(* preserves it.                                                           *)
THEOREM Ownership == Spec => []OwnershipInv
<1>1. Init => OwnershipInv
  BY InitTypeOK, InitSafety DEF OwnershipInv, SafetyInv
<1>2. OwnershipInv /\ [Next]_vars => OwnershipInv'
  BY StepTypeOK, StepSafety DEF OwnershipInv, SafetyInv
<1> QED
  BY <1>1, <1>2, PTL DEF Spec

(* Two children never work for one Run at a time: an attempt opens only    *)
(* behind attempts that failed retryably, whose children are gone.         *)
THEOREM NoAttemptOverlaps == Spec => []NoAttemptBesideLiveChild
<1>1. OwnershipInv => NoAttemptBesideLiveChild
  BY DEF OwnershipInv, AttemptRow, NoAttemptBesideLiveChild, Attempt
<1> QED
  BY <1>1, Ownership, PTL

(* Nothing done to a terminal Run comes from a conditional update: only    *)
(* _execute's first write and the recovery of a Run without an attempt     *)
(* can change it.                                                          *)
THEOREM OnlyUnfencedWritesReopen == Spec => ReopenedOnlyUnfenced
<1>1. ASSUME Next, RunClosed, run' # run
      PROVE  \E p \in Proc : epc[p] = "start" \/ rpc[p] = "fail"
  <2> USE DEF runVars, attVars, execVars, recVars
  <2>1. ASSUME NEW p \in Proc, ExecStep(p) PROVE epc[p] = "start"
    BY <1>1, <2>1 DEF ExecStep, ClaimNextRun, CancelBeforeExecution, Start, RecordAttempt,
       AcquireLease, SpawnChild, FailToSpawn, RecordProcess, ChildCollected, ChildTimesOut,
       CheckLease, Finalize, SettleRetry, NextAttempt, CloseBoth, CloseAttemptOnly,
       RunClosed, RunTerminal
  <2>2. ASSUME NEW p \in Proc, RecoveryStep(p) PROVE rpc[p] = "fail"
    BY <1>1, <2>2 DEF RecoveryStep, ScanExpired, ScanStale, SkipLive, ReadRun,
       FailRunWithoutAttempt, ClaimRecovery, LookAtChild, ReleaseClaim, AbandonAttempt,
       CloseBoth, CloseAttemptOnly, RunClosed, RunTerminal
  <2>3. ASSUME NEW p \in Proc, Heartbeat(p) \/ Crash(p) \/ Restart(p) PROVE FALSE
    BY <1>1, <2>3 DEF Heartbeat, Crash, Restart
  <2>4. ASSUME NEW n \in Attempt, ChildExits(n) \/ PidReused(n) PROVE FALSE
    BY <1>1, <2>4 DEF ChildExits, PidReused
  <2>5. ~Tick
    BY <1>1 DEF Tick
  <2> QED
    BY <1>1, <2>1, <2>2, <2>3, <2>4, <2>5 DEF Next, ProcStep
<1>2. [Next]_vars => [RunClosed /\ run' # run
                       => \E p \in Proc : epc[p] = "start" \/ rpc[p] = "fail"]_vars
  BY <1>1
<1> QED
  BY <1>2, PTL DEF Spec, ReopenedOnlyUnfenced

(* A Run that reads SUCCEEDED has a last attempt that succeeded and whose  *)
(* child was seen to end.                                                  *)
THEOREM SuccessWitnessed == Spec => []SuccessIsWitnessed
<1> USE DEF runVars, attVars, execVars, recVars, LiveChild, ChildEnded
<1>1. Init => SuccessIsWitnessed
  BY DEF Init, SuccessIsWitnessed
<1>2. OwnershipInv /\ SuccessIsWitnessed /\ [Next]_vars => SuccessIsWitnessed'
  <2> SUFFICES ASSUME OwnershipInv, SuccessIsWitnessed, [Next]_vars, run' = "SUCCEEDED"
               PROVE  \E n \in Attempt : /\ IsLastAttempt(n)'
                                         /\ att'[n] = "SUCCEEDED"
                                         /\ ChildEnded(n)'
    BY DEF SuccessIsWitnessed
  <2>1. CASE run = "SUCCEEDED"
    <3>1. PICK n \in Attempt : IsLastAttempt(n) /\ att[n] = "SUCCEEDED" /\ ChildEnded(n)
      BY <2>1 DEF SuccessIsWitnessed
    <3>2. \A m \in Attempt : att[m] \in {"RETRYABLE_FAILURE", "NONE", "SUCCEEDED"}
      <4>1. \A m \in Attempt : m < n \/ m = n \/ m > n
        BY DEF Attempt
      <4> QED
        BY <3>1, <4>1 DEF OwnershipInv, AttemptRow, IsLastAttempt
    <3>3. \A p \in Proc : epc[p] \notin {"record", "lease", "spawn"}
      <4>1. \A p \in Proc : epc[p] = "record" => FALSE
        <5>1. \A m, k \in Attempt : m < k \/ m = k \/ m > k
          BY DEF Attempt
        <5> QED
          BY <3>1, <5>1 DEF OwnershipInv, OwnAttempt, TypeOK
      <4>2. \A p \in Proc : epc[p] \notin {"lease", "spawn"}
        BY <3>2 DEF OwnershipInv, OwnAttempt, TypeOK
      <4> QED
        BY <4>1, <4>2
    <3>4. att' = att
      <4>1. ASSUME NEW p \in Proc, ExecStep(p) PROVE att' = att
        BY <2>1, <3>2, <3>3, <4>1 DEF ExecStep, ClaimNextRun, CancelBeforeExecution, Start,
           RecordAttempt, AcquireLease, SpawnChild, FailToSpawn, RecordProcess,
           ChildCollected, ChildTimesOut, CheckLease, Finalize, WriteFence, LeaseHeld,
           SettleRetry, NextAttempt, OwnershipInv, TypeOK
      <4>2. ASSUME NEW p \in Proc, RecoveryStep(p) PROVE att' = att
        BY <2>1, <3>2, <4>2 DEF RecoveryStep, ScanExpired, ScanStale, SkipLive, ReadRun,
           FailRunWithoutAttempt, ClaimRecovery, LookAtChild, ReleaseClaim,
           AbandonAttempt, ClaimHeld, OwnershipInv, TypeOK
      <4>3. ASSUME NEW p \in Proc, Heartbeat(p) \/ Crash(p) \/ Restart(p) PROVE att' = att
        BY <4>3 DEF Heartbeat, Crash, Restart
      <4>4. ASSUME NEW m \in Attempt, ChildExits(m) \/ PidReused(m) PROVE att' = att
        BY <4>4 DEF ChildExits, PidReused
      <4> QED
        BY <4>1, <4>2, <4>3, <4>4 DEF Next, ProcStep, Tick, vars
    <3>5. ChildEnded(n)'
      <4>1. ASSUME NEW p \in Proc, ExecStep(p) PROVE ChildEnded(n)'
        BY <3>1, <3>3, <4>1 DEF ExecStep, ClaimNextRun, CancelBeforeExecution, Start,
           RecordAttempt, AcquireLease, SpawnChild, FailToSpawn, RecordProcess,
           ChildCollected, ChildTimesOut, CheckLease, Finalize, SettleRetry,
           NextAttempt, OwnershipInv, TypeOK
      <4>2. ASSUME NEW p \in Proc, RecoveryStep(p) PROVE ChildEnded(n)'
        <5>1. CASE LookAtChild(p)
          BY <3>1, <5>1, LookMoves DEF OwnershipInv
        <5>2. CASE ~LookAtChild(p)
          BY <3>1, <4>2, <5>2 DEF RecoveryStep, ScanExpired, ScanStale, SkipLive, ReadRun,
             FailRunWithoutAttempt, ClaimRecovery, ReleaseClaim, AbandonAttempt
        <5> QED
          BY <5>1, <5>2
      <4>3. ASSUME NEW p \in Proc, Heartbeat(p) \/ Crash(p) \/ Restart(p) PROVE ChildEnded(n)'
        BY <3>1, <4>3 DEF Heartbeat, Crash, Restart
      <4>4. ASSUME NEW m \in Attempt, ChildExits(m) \/ PidReused(m) PROVE ChildEnded(n)'
        BY <3>1, <4>4 DEF ChildExits, PidReused, OwnershipInv, TypeOK
      <4> QED
        BY <3>1, <4>1, <4>2, <4>3, <4>4 DEF Next, ProcStep, Tick, vars
    <3> QED
      BY <3>1, <3>4, <3>5 DEF IsLastAttempt
  <2>2. CASE run # "SUCCEEDED"
    <3>1. PICK p \in Proc : Finalize(p) /\ WriteFence(en[p], p) /\ eout[p] = "ok"
      <4>1. ASSUME NEW p \in Proc, ExecStep(p)
            PROVE  Finalize(p) /\ WriteFence(en[p], p) /\ eout[p] = "ok"
        BY <2>2, <4>1 DEF ExecStep, ClaimNextRun, CancelBeforeExecution, Start,
           RecordAttempt, AcquireLease, SpawnChild, FailToSpawn, RecordProcess,
           ChildCollected, ChildTimesOut, CheckLease, Finalize, CloseBoth, CloseTogether,
           CloseAttemptOnly, RunVerdict, SettleRetry, NextAttempt
      <4>2. ASSUME NEW p \in Proc, RecoveryStep(p) PROVE FALSE
        BY <2>2, <4>2 DEF RecoveryStep, ScanExpired, ScanStale, SkipLive, ReadRun,
           FailRunWithoutAttempt, ClaimRecovery, LookAtChild, ReleaseClaim,
           AbandonAttempt, CloseBoth, CloseTogether, CloseAttemptOnly
      <4>3. ASSUME NEW p \in Proc, Heartbeat(p) \/ Crash(p) \/ Restart(p) PROVE FALSE
        BY <2>2, <4>3 DEF Heartbeat, Crash, Restart
      <4>4. ASSUME NEW m \in Attempt, ChildExits(m) \/ PidReused(m) PROVE FALSE
        BY <2>2, <4>4 DEF ChildExits, PidReused
      <4> QED
        BY <2>2, <4>1, <4>2, <4>3, <4>4 DEF Next, ProcStep, Tick, vars
    <3>2. en[p] \in Attempt /\ epc[p] = "finalize"
      BY <3>1 DEF Finalize, OwnershipInv, TypeOK
    <3>3. /\ att' = [att EXCEPT ![en[p]] = "SUCCEEDED"]
          /\ child' = child
      BY <2>2, <3>1 DEF Finalize, CloseBoth, CloseTogether, CloseAttemptOnly, AttVerdict
    <3>4. /\ ChildEnded(en[p])
          /\ \A m \in Attempt : m > en[p] => att[m] = "NONE"
      BY <3>1, <3>2 DEF OwnershipInv, OwnAttempt
    <3>5. \A m \in Attempt : m > en[p] => m # en[p]
      BY <3>2 DEF Attempt
    <3> QED
      BY <3>2, <3>3, <3>4, <3>5 DEF IsLastAttempt, OwnershipInv, TypeOK
  <2> QED
    BY <2>1, <2>2
<1> QED
  BY <1>1, <1>2, Ownership, PTL DEF Spec
=============================================================================
