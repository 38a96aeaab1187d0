---------------------- MODULE ExecutionOwnershipProofs ----------------------
(* Proofs about ExecutionOwnership, for any number of processes and        *)
(* attempts, any durations, both stores and both execution modes.          *)
EXTENDS ExecutionOwnership, TLAPS

(* The columns and program counters always hold values of their domains.   *)
LEMMA InitTypeOK == Init => TypeOK
BY ProcAssumption, BoundAssumption, SMTT(30) DEF Init, TypeOK, Attempt, Outcome

(* An executing thread writes values of the domains. *)
LEMMA ExecTypeOK ==
    ASSUME TypeOK, NEW p \in Proc, ExecStep(p)
    PROVE  TypeOK'
<1> USE BoundAssumption, ModeAssumption DEF runVars, attVars, execVars, recVars,
        RunTerminal, AttTerminal, Outcome
<1>0. /\ en[p] \in Attempt
      /\ LeaseTicks \in -1..LeaseTicks /\ LeaseTicks \in 0..LeaseTicks
      /\ GraceTicks \in 0..GraceTicks
  BY DEF TypeOK
<1>1. CASE ClaimNextRun(p)
  BY <1>0, <1>1 DEF ClaimNextRun, TypeOK
<1>2. CASE CancelBeforeExecution(p)
  BY <1>0, <1>2 DEF CancelBeforeExecution, TypeOK
<1>3. CASE Start(p)
  <2>1. 1 \in Attempt
    BY DEF Attempt
  <2>2. /\ en' \in [Proc -> Attempt]
        /\ epc' = [epc EXCEPT ![p] = "record"]
    BY <1>3, <2>1 DEF Start, TypeOK
  <2>3. /\ run' = "RUNNING" /\ runLeft' = LeaseTicks
        /\ UNCHANGED <<attVars, child, up, crashes, eout, beat, recVars>>
    BY <1>3 DEF Start
  <2>4. \A q \in Proc : epc'[q] \in {"settle", "sleep"} => en'[q] < MaxAttempts
    BY <1>3 DEF Start, TypeOK
  <2> QED
    BY <1>0, <2>2, <2>3, <2>4 DEF TypeOK
<1>4. CASE RecordAttempt(p)
  BY <1>0, <1>4 DEF RecordAttempt, TypeOK
<1>5. CASE AcquireLease(p)
  <2>1. CASE LeaseFree(en[p])
    <3>1. /\ lease' \in [Attempt -> Proc \cup {NoProc}]
          /\ leaseLeft' \in [Attempt -> -1..LeaseTicks]
      BY <1>0, <1>5, <2>1 DEF AcquireLease, TypeOK
    <3>2. /\ epc' = [epc EXCEPT ![p] = "spawn"]
          /\ beat' = [beat EXCEPT ![p] = TRUE]
          /\ UNCHANGED <<runVars, att, claim, claimLeft, pid, graceLeft,
                         child, up, crashes, en, eout, recVars>>
      BY <1>5, <2>1 DEF AcquireLease
    <3> QED
      BY <3>1, <3>2 DEF TypeOK
  <2>2. CASE ~LeaseFree(en[p])
    BY <1>5, <2>2, SMTT(30) DEF AcquireLease, TypeOK
  <2> QED
    BY <2>1, <2>2
<1>6. CASE SpawnChild(p)
  BY <1>0, <1>6 DEF SpawnChild, TypeOK
<1>7. CASE FailToSpawn(p)
  BY <1>0, <1>7 DEF FailToSpawn, AfterAdapter, TypeOK
<1>8. CASE RecordProcess(p)
  <2>1. graceLeft' \in [Attempt -> 0..GraceTicks]
    BY <1>0, <1>8 DEF RecordProcess, TypeOK
  <2>3. pid' \in [Attempt -> BOOLEAN]
    BY <1>0, <1>8 DEF RecordProcess, TypeOK
  <2>2. /\ epc' = [epc EXCEPT ![p] = "wait"]
        /\ UNCHANGED <<runVars, att, lease, leaseLeft, claim, claimLeft,
                       child, up, crashes, en, eout, beat, recVars>>
    BY <1>8 DEF RecordProcess
  <2> QED
    BY <2>1, <2>2, <2>3 DEF TypeOK
<1>9. CASE ChildCollected(p)
  BY <1>0, <1>9 DEF ChildCollected, AfterAdapter, TypeOK
<1>10. CASE ChildTimesOut(p)
  BY <1>0, <1>10 DEF ChildTimesOut, AfterAdapter, TypeOK
<1>11. CASE CheckLease(p)
  <2>1. /\ leaseLeft' \in [Attempt -> -1..LeaseTicks]
        /\ eout' \in [Proc -> Outcome]
    BY <1>0, <1>11 DEF CheckLease, TypeOK
  <2>2. /\ epc' = [epc EXCEPT ![p] = "finalize"]
        /\ UNCHANGED <<runVars, att, lease, claim, claimLeft, pid, graceLeft,
                       child, up, crashes, en, beat, recVars>>
    BY <1>11 DEF CheckLease
  <2> QED
    BY <2>1, <2>2 DEF TypeOK
<1>12. CASE Finalize(p)
  <2>1. /\ att' \in [Attempt -> {"NONE", "RUNNING"} \cup AttTerminal]
        /\ run' \in {"QUEUED", "RUNNING"} \cup RunTerminal
        /\ runLeft' \in 0..LeaseTicks
    BY <1>0, <1>12 DEF Finalize, CloseBoth, CloseTogether, CloseAttemptOnly,
       AttVerdict, RunVerdict, TypeOK
  <2>2. /\ eout' \in [Proc -> Outcome]
        /\ epc' = epc \/ epc' = [epc EXCEPT ![p] = "idle"]
        /\ beat' \in [Proc -> BOOLEAN]
        /\ up' \in [Proc -> BOOLEAN]
    <3>1. \/ /\ eout' = [eout EXCEPT ![p] = "exception"]
             /\ UNCHANGED <<epc, beat, up>>
          \/ /\ \E raised \in BOOLEAN : Leave(p, raised)
             /\ UNCHANGED eout
      BY <1>12 DEF Finalize
    <3>2. CASE eout' = [eout EXCEPT ![p] = "exception"] /\ UNCHANGED <<epc, beat, up>>
      BY <3>2 DEF TypeOK
    <3>3. CASE (\E raised \in BOOLEAN : Leave(p, raised)) /\ UNCHANGED eout
      BY <3>3 DEF Leave, TypeOK
    <3> QED
      BY <3>1, <3>2, <3>3
  <2>3. UNCHANGED <<lease, leaseLeft, claim, claimLeft, pid, graceLeft,
                    child, crashes, en, recVars>>
    BY <1>12 DEF Finalize
  <2>4. /\ epc' \in [Proc -> {"idle", "start", "record", "lease", "spawn", "observe",
                              "wait", "check", "finalize", "settle", "sleep"}]
        /\ \A q \in Proc : epc'[q] \in {"settle", "sleep"} => en'[q] < MaxAttempts
    BY <2>2, <2>3 DEF TypeOK
  <2> QED
    BY <2>1, <2>2, <2>3, <2>4 DEF TypeOK
<1>13. CASE SettleRetry(p)
  <2>1. /\ att' \in [Attempt -> {"NONE", "RUNNING"} \cup AttTerminal]
        /\ epc' = [epc EXCEPT ![p] = "sleep"] \/ epc' = [epc EXCEPT ![p] = "idle"]
        /\ beat' \in [Proc -> BOOLEAN]
        /\ up' \in [Proc -> BOOLEAN]
    <3>1. CASE WriteFence(en[p], p)
      <4>1. /\ att' = [att EXCEPT ![en[p]] = "RETRYABLE_FAILURE"]
            /\ epc' = [epc EXCEPT ![p] = "sleep"]
            /\ beat' = [beat EXCEPT ![p] = FALSE]
            /\ UNCHANGED up
        BY <1>13, <3>1 DEF SettleRetry
      <4> QED
        BY <4>1 DEF TypeOK
    <3>2. CASE ~WriteFence(en[p], p)
      <4>1. Leave(p, TRUE) /\ UNCHANGED att
        BY <1>13, <3>2 DEF SettleRetry
      <4> QED
        BY <4>1 DEF Leave, TypeOK
    <3> QED
      BY <3>1, <3>2
  <2>2. /\ en[p] < MaxAttempts
        /\ UNCHANGED <<runVars, lease, leaseLeft, claim, claimLeft, pid, graceLeft,
                       child, crashes, en, eout, recVars>>
    BY <1>13 DEF SettleRetry, TypeOK
  <2> QED
    BY <2>1, <2>2 DEF TypeOK
<1>14. CASE NextAttempt(p)
  <2>1. en[p] + 1 \in Attempt
    <3>1. en[p] < MaxAttempts
      BY <1>14 DEF NextAttempt, TypeOK
    <3> QED
      BY <1>0, <3>1 DEF Attempt
  <2>2. /\ en' = [en EXCEPT ![p] = en[p] + 1]
        /\ epc' = [epc EXCEPT ![p] = "record"]
        /\ UNCHANGED <<runVars, attVars, child, up, crashes, eout, beat, recVars>>
    BY <1>14 DEF NextAttempt
  <2> QED
    BY <2>1, <2>2 DEF TypeOK
<1> QED
  BY <1>1, <1>2, <1>3, <1>4, <1>5, <1>6, <1>7, <1>8, <1>9, <1>10, <1>11, <1>12,
     <1>13, <1>14 DEF ExecStep

(* So does its heartbeat thread. *)
LEMMA HeartbeatTypeOK ==
    ASSUME TypeOK, NEW p \in Proc, Heartbeat(p)
    PROVE  TypeOK'
<1> USE BoundAssumption DEF runVars, attVars, execVars, recVars
<1>1. /\ leaseLeft' \in [Attempt -> -1..LeaseTicks]
      /\ beat' \in [Proc -> BOOLEAN]
  <2>1. en[p] \in Attempt /\ LeaseTicks \in -1..LeaseTicks
    BY DEF TypeOK
  <2> QED
    BY <2>1 DEF Heartbeat, TypeOK
<1>2. UNCHANGED <<runVars, att, lease, claim, claimLeft, pid, graceLeft,
                  child, up, crashes, epc, en, eout, recVars>>
  BY DEF Heartbeat
<1> QED
  BY <1>1, <1>2 DEF TypeOK

(* What a look at a child can do to the children. *)
LEMMA LookMoves ==
    ASSUME TypeOK, NEW p \in Proc, LookAtChild(p)
    PROVE  /\ child' \in [Attempt -> {"none", "alive", "signalled", "dead",
                                      "reused", "hit", "foreign"}]
           /\ \A n \in Attempt :
                 \/ child'[n] = child[n]
                 \/ n = rn[p] /\ child[n] = "alive" /\ child'[n] = "signalled"
                 \/ n = rn[p] /\ child[n] = "reused" /\ child'[n] = "hit" /\ ~PsAvailable
           /\ rpc' \in {[rpc EXCEPT ![p] = s] : s \in {"idle", "release", "abandon"}}
           /\ up' = up \/ (up' = [up EXCEPT ![p] = ~SharedQueue] /\ rpc'[p] = "idle")
<1>0. rn[p] \in Attempt
  BY DEF TypeOK
<1>1. \/ child' = child
      \/ IdentityMatches(rn[p]) /\ child' = AfterSignal(rn[p])
  BY DEF LookAtChild
<1>4. /\ rpc' \in {[rpc EXCEPT ![p] = s] : s \in {"idle", "release", "abandon"}}
      /\ up' = up \/ (up' = [up EXCEPT ![p] = ~SharedQueue] /\ rpc'[p] = "idle")
  BY DEF LookAtChild, TypeOK
<1>2. CASE child' = child
  BY <1>2, <1>4 DEF TypeOK
<1>3. CASE IdentityMatches(rn[p]) /\ child' = AfterSignal(rn[p])
  <2>1. child' \in [Attempt -> {"none", "alive", "signalled", "dead",
                                "reused", "hit", "foreign"}]
    BY <1>0, <1>3 DEF AfterSignal, TypeOK
  <2>2. ASSUME NEW n \in Attempt
        PROVE  \/ child'[n] = child[n]
               \/ n = rn[p] /\ child[n] = "alive" /\ child'[n] = "signalled"
               \/ n = rn[p] /\ child[n] = "reused" /\ child'[n] = "hit" /\ ~PsAvailable
    BY <1>0, <1>3 DEF AfterSignal, IdentityMatches, LiveChild, Stranger, TypeOK
  <2> QED
    BY <1>4, <2>1, <2>2
<1> QED
  BY <1>1, <1>2, <1>3

(* So does a recovery pass. *)
LEMMA RecoveryTypeOK ==
    ASSUME TypeOK, NEW p \in Proc, RecoveryStep(p)
    PROVE  TypeOK'
<1> USE BoundAssumption, ModeAssumption DEF runVars, attVars, execVars, recVars,
        RunTerminal, AttTerminal
<1>0. /\ rn[p] \in Attempt
      /\ LeaseTicks \in 0..LeaseTicks
      /\ ClaimTicks \in -1..ClaimTicks /\ -1 \in -1..ClaimTicks
  BY DEF TypeOK
<1>1. CASE ScanExpired(p)
  BY <1>1 DEF ScanExpired, TypeOK
<1>2. CASE ScanStale(p)
  BY <1>2 DEF ScanStale, TypeOK
<1>3. CASE SkipLive(p)
  BY <1>3 DEF SkipLive, TypeOK
<1>4. CASE ReadRun(p)
  <2>1. /\ rpc' \in [Proc -> {"idle", "scan", "read", "fail", "claim", "look",
                              "release", "abandon"}]
        /\ rn' \in [Proc -> Attempt]
    <3>1. CASE rpc' = [rpc EXCEPT ![p] = "fail"] /\ UNCHANGED rn
      BY <3>1 DEF TypeOK
    <3>2. ASSUME NEW n \in Attempt,
                 \/ rpc' = [rpc EXCEPT ![p] = "idle"]
                 \/ rpc' = [rpc EXCEPT ![p] = "claim"],
                 rn' = [rn EXCEPT ![p] = n]
          PROVE  /\ rpc' \in [Proc -> {"idle", "scan", "read", "fail", "claim", "look",
                                        "release", "abandon"}]
                 /\ rn' \in [Proc -> Attempt]
      BY <3>2 DEF TypeOK
    <3>3. \/ rpc' = [rpc EXCEPT ![p] = "fail"] /\ UNCHANGED rn
          \/ \E n \in Attempt :
                /\ \/ rpc' = [rpc EXCEPT ![p] = "idle"]
                   \/ rpc' = [rpc EXCEPT ![p] = "claim"]
                /\ rn' = [rn EXCEPT ![p] = n]
      BY <1>4 DEF ReadRun
    <3> QED
      BY <3>1, <3>2, <3>3
  <2>3. rpid' \in [Proc -> BOOLEAN]
    <3>1. \A n \in Attempt : pid[n] \in BOOLEAN
      BY DEF TypeOK
    <3> QED
      BY <1>4, <3>1 DEF ReadRun, TypeOK
  <2>2. UNCHANGED <<runVars, attVars, child, up, crashes, execVars, rexp>>
    BY <1>4 DEF ReadRun
  <2> QED
    BY <2>1, <2>2, <2>3 DEF TypeOK
<1>5. CASE FailRunWithoutAttempt(p)
  BY <1>0, <1>5 DEF FailRunWithoutAttempt, TypeOK
<1>6. CASE ClaimRecovery(p)
  <2>1. /\ claim' \in [Attempt -> Proc \cup {NoProc}]
        /\ claimLeft' \in [Attempt -> -1..ClaimTicks]
    BY <1>0, <1>6, SMTT(30) DEF ClaimRecovery, TypeOK
  <2>2. rpc' \in [Proc -> {"idle", "scan", "read", "fail", "claim", "look",
                           "release", "abandon"}]
    BY <1>6, SMTT(30) DEF ClaimRecovery, TypeOK
  <2>3. UNCHANGED <<runVars, att, lease, leaseLeft, pid, graceLeft,
                    child, up, crashes, execVars, rn, rexp, rpid>>
    BY <1>6 DEF ClaimRecovery
  <2> QED
    BY <2>1, <2>2, <2>3 DEF TypeOK
<1>7. CASE LookAtChild(p)
  <2>1. UNCHANGED <<runVars, attVars, crashes, execVars, rn, rexp, rpid>>
    BY <1>7 DEF LookAtChild
  <2>2. up' \in [Proc -> BOOLEAN]
    <3>1. \A b \in BOOLEAN : [up EXCEPT ![p] = b] \in [Proc -> BOOLEAN]
      BY Zenon DEF TypeOK
    <3>2. (~SharedQueue) \in BOOLEAN
      BY ModeAssumption, Zenon
    <3>3. up' = up \/ up' = [up EXCEPT ![p] = ~SharedQueue]
      BY <1>7, LookMoves, Zenon
    <3> QED
      BY <3>1, <3>2, <3>3, Zenon DEF TypeOK
  <2>3. rpc' \in [Proc -> {"idle", "scan", "read", "fail", "claim", "look",
                           "release", "abandon"}]
    BY <1>7, LookMoves DEF TypeOK
  <2> QED
    BY <1>7, <2>1, <2>2, <2>3, LookMoves DEF TypeOK
<1>8. CASE ReleaseClaim(p)
  <2>1. /\ claim' \in [Attempt -> Proc \cup {NoProc}]
        /\ claimLeft' \in [Attempt -> -1..ClaimTicks]
    <3>1. CASE ClaimHeld(rn[p], p)
      <4>1. /\ claim' = [claim EXCEPT ![rn[p]] = NoProc]
            /\ claimLeft' = [claimLeft EXCEPT ![rn[p]] = -1]
        BY <1>8, <3>1 DEF ReleaseClaim
      <4>2. /\ claim \in [Attempt -> Proc \cup {NoProc}]
            /\ claimLeft \in [Attempt -> -1..ClaimTicks]
            /\ -1 \in -1..ClaimTicks
        BY DEF TypeOK
      <4> QED
        BY <4>1, <4>2
    <3>2. CASE ~ClaimHeld(rn[p], p)
      <4>1. UNCHANGED <<claim, claimLeft>>
        BY <1>8, <3>2 DEF ReleaseClaim
      <4> QED
        BY <4>1 DEF TypeOK
    <3> QED
      BY <3>1, <3>2
  <2>2. /\ rpc' = [rpc EXCEPT ![p] = "idle"]
        /\ UNCHANGED <<runVars, att, lease, leaseLeft, pid, graceLeft,
                       child, up, crashes, execVars, rn, rexp, rpid>>
    BY <1>8 DEF ReleaseClaim
  <2> QED
    BY <2>1, <2>2 DEF TypeOK
<1>9. CASE AbandonAttempt(p)
  <2>1. /\ att' \in [Attempt -> {"NONE", "RUNNING"} \cup AttTerminal]
        /\ run' \in {"QUEUED", "RUNNING"} \cup RunTerminal
        /\ runLeft' \in 0..LeaseTicks
    BY <1>0, <1>9 DEF AbandonAttempt, CloseBoth, CloseTogether, CloseAttemptOnly, TypeOK
  <2>2. /\ rpc' = [rpc EXCEPT ![p] = "idle"]
        /\ UNCHANGED <<lease, leaseLeft, claim, claimLeft, pid, graceLeft,
                       child, up, crashes, execVars, rn, rexp, rpid>>
    BY <1>9 DEF AbandonAttempt
  <2> QED
    BY <2>1, <2>2 DEF TypeOK
<1> QED
  BY <1>1, <1>2, <1>3, <1>4, <1>5, <1>6, <1>7, <1>8, <1>9 DEF RecoveryStep

(* Time left counts down inside its range. *)
LEMMA TickTypeOK == TypeOK /\ Tick => TypeOK'
<1> SUFFICES ASSUME TypeOK, Tick PROVE TypeOK'
  OBVIOUS
<1> USE BoundAssumption DEF runVars, attVars, execVars, recVars
<1>1. /\ leaseLeft' \in [Attempt -> -1..LeaseTicks]
      /\ claimLeft' \in [Attempt -> -1..ClaimTicks]
      /\ graceLeft' \in [Attempt -> 0..GraceTicks]
      /\ runLeft' \in 0..LeaseTicks
  BY DEF Tick, Less, TypeOK
<1>2. UNCHANGED <<run, att, lease, claim, pid, child, up, crashes, execVars, recVars>>
  BY DEF Tick
<1> QED
  BY <1>1, <1>2 DEF TypeOK

(* Every step stays in the domains. *)
LEMMA StepTypeOK == TypeOK /\ [Next]_vars => TypeOK'
<1> SUFFICES ASSUME TypeOK, [Next]_vars PROVE TypeOK'
  OBVIOUS
<1>1. ASSUME NEW p \in Proc, ProcStep(p) PROVE TypeOK'
  BY <1>1, ExecTypeOK, HeartbeatTypeOK, RecoveryTypeOK DEF ProcStep
<1>2. ASSUME NEW p \in Proc, Crash(p) PROVE TypeOK'
  <2>1. crashes' \in 0..MaxCrashes
    BY <1>2, BoundAssumption DEF Crash, TypeOK
  <2> QED
    BY <1>2, <2>1 DEF Crash, TypeOK, runVars, attVars, execVars, recVars
<1>3. ASSUME NEW p \in Proc, Restart(p) PROVE TypeOK'
  BY <1>3 DEF Restart, TypeOK, runVars, attVars, execVars, recVars
<1>4. ASSUME NEW n \in Attempt, ChildExits(n) \/ PidReused(n) PROVE TypeOK'
  <2>1. child' \in [Attempt -> {"none", "alive", "dead", "signalled", "reused", "hit", "foreign"}]
    BY <1>4 DEF ChildExits, PidReused, TypeOK
  <2>2. UNCHANGED <<runVars, attVars, up, crashes, execVars, recVars>>
    BY <1>4 DEF ChildExits, PidReused
  <2> QED
    BY <2>1, <2>2 DEF TypeOK, runVars, attVars, execVars, recVars
<1>5. CASE Tick
  BY <1>5, TickTypeOK
<1>6. CASE UNCHANGED vars
  BY <1>6 DEF TypeOK, vars, runVars, attVars, execVars, recVars
<1> QED
  BY <1>1, <1>2, <1>3, <1>4, <1>5, <1>6 DEF Next

(* Every column and program counter holds a value of its domain, in every  *)
(* state of every behaviour.                                               *)
THEOREM Typing == Spec => []TypeOK
BY InitTypeOK, StepTypeOK, PTL DEF Spec
=============================================================================
