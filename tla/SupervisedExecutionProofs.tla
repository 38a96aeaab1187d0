--------------------- MODULE SupervisedExecutionProofs ---------------------
(* Proofs about SupervisedExecution, for any hosts, Agents, Supervisors    *)
(* and jobs, any durations, capacities and numbers of crashes.             *)
EXTENDS SupervisedExecution, FiniteSetTheorems, TLAPS

LEMMA BoundsHold ==
    /\ LeaseTicks \in 0..LeaseTicks /\ LeaseTicks \in -1..LeaseTicks
    /\ ClaimTicks \in -1..ClaimTicks
    /\ -1 \in -1..LeaseTicks /\ -1 \in -1..ClaimTicks
    /\ 0 \in 0..MaxCrashes
  BY SupervisedBounds

(* A process belongs to a host. *)
LEMMA HostsOfProcesses ==
    /\ \A a \in Agent : HostOf(a) \in Host
    /\ \A v \in Supervisor : HostOf(v) \in Host
  BY DEF Agent, Supervisor, HostOf

LEMMA InitTypeOK == Init => TypeOK
  BY BoundsHold DEF Init, TypeOK

(* A closed Attempt and its Run keep their domains. *)
LEMMA ClosingTypeOK ==
    ASSUME TypeOK, NEW j \in Job, NEW v \in {"SUCCEEDED", "FAILED", "ABANDONED"},
           NEW r \in {"SUCCEEDED", "FAILED"}, CloseBoth(j, v, r)
    PROVE  /\ att' \in [Job -> {"NONE", "RUNNING", "SUCCEEDED", "FAILED", "ABANDONED"}]
           /\ run' \in [Job -> {"QUEUED", "RUNNING", "SUCCEEDED", "FAILED"}]
           /\ runLeft' \in [Job -> 0..LeaseTicks]
<1>1. att' = [att EXCEPT ![j] = v]
  BY DEF CloseBoth
<1>2. \/ run' = [run EXCEPT ![j] = r] /\ runLeft' = [runLeft EXCEPT ![j] = LeaseTicks]
      \/ run' = run /\ runLeft' = runLeft
  BY DEF CloseBoth, runVars
<1>3. att' \in [Job -> {"NONE", "RUNNING", "SUCCEEDED", "FAILED", "ABANDONED"}]
  BY <1>1 DEF TypeOK
<1>4. run' \in [Job -> {"QUEUED", "RUNNING", "SUCCEEDED", "FAILED"}]
  BY <1>2 DEF TypeOK
<1>5. runLeft' \in [Job -> 0..LeaseTicks]
  BY <1>2, BoundsHold DEF TypeOK
<1> QED
  BY <1>3, <1>4, <1>5

(* The statements of an execution thread write values of the domains. *)
LEMMA ThreadTypeOK ==
    ASSUME TypeOK, NEW j \in Job, ThreadStep(j)
    PROVE  TypeOK'
<1> USE DEF runVars, attVars, reqVars, sessVars, recVars, thrVars, supVars
<1>1. CASE Start(j)
  BY <1>1, BoundsHold DEF Start, TypeOK
<1>2. CASE RecordAttempt(j)
  BY <1>2 DEF RecordAttempt, TypeOK
<1>3. CASE AcquireLease(j)
  <2>1. CASE att[j] = "RUNNING" /\ (leased[j] => leaseLeft[j] < 0)
    <3>1. /\ leased' = [leased EXCEPT ![j] = TRUE]
          /\ leaseLeft' = [leaseLeft EXCEPT ![j] = LeaseTicks]
          /\ tpc' = [tpc EXCEPT ![j] = "register"]
      BY <1>3, <2>1 DEF AcquireLease
    <3>2. leased' \in [Job -> BOOLEAN] /\ leaseLeft' \in [Job -> -1..LeaseTicks]
      BY <3>1, BoundsHold DEF TypeOK
    <3> QED
      BY <1>3, <3>1, <3>2 DEF AcquireLease, TypeOK
  <2>2. CASE ~(att[j] = "RUNNING" /\ (leased[j] => leaseLeft[j] < 0))
    BY <1>3, <2>2 DEF AcquireLease, TypeOK
  <2> QED
    BY <2>1, <2>2
<1>4. CASE Register(j)
  <2> QED
    <3>1. CASE att[j] = "RUNNING" /\ leased[j] /\ SessionLive(tagent[j])
      <4>1. owner' = [owner EXCEPT ![j] = tagent[j]] /\ tpc' = [tpc EXCEPT ![j] = "enqueue"]
        BY <1>4, <3>1 DEF Register
      <4>2. owner' \in [Job -> Agent \cup {NoAgent}]
        BY <4>1 DEF TypeOK
      <4> QED
        BY <1>4, <4>1, <4>2 DEF Register, TypeOK
    <3>2. CASE ~(att[j] = "RUNNING" /\ leased[j] /\ SessionLive(tagent[j]))
      BY <1>4, <3>2 DEF Register, TypeOK
    <3> QED
      BY <3>1, <3>2
<1>5. CASE Enqueue(j)
  BY <1>5 DEF Enqueue, ActiveRequest, TypeOK
<1>6. CASE GiveUp(j)
  <2>1. /\ att' \in [Job -> {"NONE", "RUNNING", "SUCCEEDED", "FAILED", "ABANDONED"}]
        /\ run' \in [Job -> {"QUEUED", "RUNNING", "SUCCEEDED", "FAILED"}]
        /\ runLeft' \in [Job -> 0..LeaseTicks]
    BY <1>6, ClosingTypeOK DEF GiveUp, TypeOK
  <2>2. tpc' \in [Job -> {"none", "start", "record", "lease", "register", "enqueue",
                         "giveup", "returned", "raised"}]
    BY <1>6 DEF GiveUp, TypeOK
  <2> QED
    BY <1>6, <2>1, <2>2 DEF GiveUp, TypeOK
<1> QED
  BY <1>1, <1>2, <1>3, <1>4, <1>5, <1>6 DEF ThreadStep

(* A pass that has looked at a job keeps a view of it. *)
LEMMA LookTypeOK ==
    ASSUME TypeOK, NEW a \in Agent, NEW j \in Job,
           NEW s \in {"skip", "listed", "fail", "foreign", "claim", "held"}, Look(a, j, s)
    PROVE  view' \in [Agent -> [Job -> {"skip", "listed", "fail", "foreign", "claim", "held"}]]
  BY DEF Look, TypeOK

(* The recovery pass of an Agent keeps the domains. *)
LEMMA RecoveryTypeOK ==
    ASSUME TypeOK, NEW a \in Agent, NEW j \in Job,
           \/ ReadRun(a, j) \/ FailRunWithoutAttempt(a, j) \/ ConsultWitness(a, j)
           \/ ClaimRecovery(a, j) \/ AbandonAttempt(a, j)
    PROVE  TypeOK'
<1> USE DEF runVars, attVars, reqVars, sessVars, recVars, thrVars, supVars
<1>1. CASE ReadRun(a, j)
  <2>1. view' \in [Agent -> [Job -> {"skip", "listed", "fail", "foreign", "claim", "held"}]]
    BY <1>1, LookTypeOK DEF ReadRun, Treatment
  <2> QED
    BY <1>1, <2>1 DEF ReadRun, TypeOK
<1>2. CASE FailRunWithoutAttempt(a, j)
  <2>1. view' \in [Agent -> [Job -> {"skip", "listed", "fail", "foreign", "claim", "held"}]]
    BY <1>2, LookTypeOK DEF FailRunWithoutAttempt
  <2> QED
    BY <1>2, <2>1, BoundsHold DEF FailRunWithoutAttempt, TypeOK
<1>3. CASE ConsultWitness(a, j)
  <2>1. view' \in [Agent -> [Job -> {"skip", "listed", "fail", "foreign", "claim", "held"}]]
    BY <1>3, LookTypeOK DEF ConsultWitness
  <2> QED
    BY <1>3, <2>1 DEF ConsultWitness, TypeOK
<1>4. CASE ClaimRecovery(a, j)
  <2>1. view' \in [Agent -> [Job -> {"skip", "listed", "fail", "foreign", "claim", "held"}]]
    BY <1>4, LookTypeOK DEF ClaimRecovery
  <2> QED
    <3>1. CASE LeaseExpired(j) /\ NoLiveClaim(j)
      <4>1. claim' = [claim EXCEPT ![j] = a] /\ claimLeft' = [claimLeft EXCEPT ![j] = ClaimTicks]
        BY <1>4, <3>1 DEF ClaimRecovery
      <4>2. claim' \in [Job -> Agent \cup {NoAgent}] /\ claimLeft' \in [Job -> -1..ClaimTicks]
        BY <4>1, BoundsHold DEF TypeOK
      <4> QED
        BY <1>4, <2>1, <4>2 DEF ClaimRecovery, TypeOK
    <3>2. CASE ~(LeaseExpired(j) /\ NoLiveClaim(j))
      BY <1>4, <2>1, <3>2 DEF ClaimRecovery, TypeOK
    <3> QED
      BY <3>1, <3>2
<1>5. CASE AbandonAttempt(a, j)
  <2>1. view' \in [Agent -> [Job -> {"skip", "listed", "fail", "foreign", "claim", "held"}]]
    BY <1>5, LookTypeOK DEF AbandonAttempt
  <2>2. req' \in [Job -> {"NONE", "COMPLETED", "UNAVAILABLE"} \cup ActiveRequest]
    <3>1. RetiredDelivery(j) \in [Job -> {"NONE", "COMPLETED", "UNAVAILABLE"} \cup ActiveRequest]
      BY DEF RetiredDelivery, TypeOK
    <3> QED
      BY <1>5, <3>1 DEF AbandonAttempt, TypeOK
  <2>3. /\ att' \in [Job -> {"NONE", "RUNNING", "SUCCEEDED", "FAILED", "ABANDONED"}]
        /\ run' \in [Job -> {"QUEUED", "RUNNING", "SUCCEEDED", "FAILED"}]
        /\ runLeft' \in [Job -> 0..LeaseTicks]
    BY <1>5, ClosingTypeOK DEF AbandonAttempt, TypeOK
  <2> QED
    BY <1>5, <2>1, <2>2, <2>3 DEF AbandonAttempt, TypeOK
<1> QED
  BY <1>1, <1>2, <1>3, <1>4, <1>5

LEMMA CollectedTypeOK ==
    ASSUME TypeOK, NEW S
    PROVE  Collected(S) \in [Job -> {"none", "start", "record", "lease", "register", "enqueue",
                                    "giveup", "returned", "raised"}]
  BY DEF Collected, TypeOK

(* So do the other steps of an Agent. *)
LEMMA AgentTypeOK ==
    ASSUME TypeOK, NEW a \in Agent, AgentStep(a)
    PROVE  TypeOK'
<1> USE DEF runVars, attVars, reqVars, sessVars, recVars, thrVars, supVars, Goto
<1>1. CASE StartAgent(a)
  BY <1>1, BoundsHold DEF StartAgent, TypeOK
<1>2. CASE HeartbeatAgent(a)
  <2>1. CASE current[HostOf(a)] = a
    <3>1. sessLeft' = [sessLeft EXCEPT ![HostOf(a)] = LeaseTicks]
      BY <1>2, <2>1 DEF HeartbeatAgent
    <3>2. sessLeft' \in [Host -> -1..LeaseTicks]
      BY <3>1, BoundsHold DEF TypeOK
    <3> QED
      <4>1. apc' = [apc EXCEPT ![a] = "refresh"]
        BY <1>2, <2>1 DEF HeartbeatAgent
      <4>2. UNCHANGED <<runVars, attVars, reqVars, current, child, crashes,
                        recVars, thrVars, supVars>>
        BY <1>2 DEF HeartbeatAgent
      <4> QED
        BY <3>2, <4>1, <4>2 DEF TypeOK
  <2>2. CASE current[HostOf(a)] # a
    BY <1>2, <2>2 DEF HeartbeatAgent, TypeOK
  <2> QED
    BY <2>1, <2>2
<1>3. CASE RefreshQueued(a)
  <2>1. leaseLeft' \in [Job -> -1..LeaseTicks]
    BY <1>3, BoundsHold DEF RefreshQueued, TypeOK
  <2> QED
    BY <1>3, <2>1 DEF RefreshQueued, TypeOK
<1>4. CASE ScanExpired(a)
  BY <1>4 DEF ScanExpired, TypeOK
<1>5. CASE ListStale(a)
  <2>1. view' \in [Agent -> [Job -> {"skip", "listed", "fail", "foreign", "claim", "held"}]]
    BY <1>5 DEF ListStale, TypeOK
  <2> QED
    BY <1>5, <2>1 DEF ListStale, TypeOK
<1>6. CASE EndRecovery(a)
  BY <1>6 DEF EndRecovery, TypeOK
<1>7. CASE RetireDeliveries(a)
  <2>1. req' \in [Job -> {"NONE", "COMPLETED", "UNAVAILABLE"} \cup ActiveRequest]
    BY <1>7 DEF RetireDeliveries, TypeOK
  <2> QED
    BY <1>7, <2>1 DEF RetireDeliveries, TypeOK
<1>8. CASE CountActive(a)
  <2>1. \E S : tpc' = tpc \/ tpc' = Collected(S)
    BY <1>8 DEF CountActive
  <2>2. tpc' \in [Job -> {"none", "start", "record", "lease", "register", "enqueue",
                         "giveup", "returned", "raised"}]
    BY <2>1, CollectedTypeOK DEF TypeOK
  <2>3. apc' \in [Agent -> {"off", "beat", "refresh", "scan", "stale", "recover",
                           "retire", "count", "claim", "wait", "ended"}]
    <3>1. apc' = apc \/ \E s \in {"beat", "claim", "wait", "ended"} : apc' = [apc EXCEPT ![a] = s]
      BY <1>8 DEF CountActive
    <3> QED
      BY <3>1 DEF TypeOK
  <2>4. UNCHANGED <<runVars, attVars, reqVars, sessVars, child, crashes,
                    recVars, tagent, supVars>>
    BY <1>8 DEF CountActive
  <2> QED
    BY <2>2, <2>3, <2>4 DEF TypeOK
<1>9. CASE NothingToClaim(a)
  BY <1>9 DEF NothingToClaim, TypeOK
<1>10. CASE CollectFutures(a)
  <2>1. \E S : tpc' = tpc \/ tpc' = Collected(S)
    BY <1>10 DEF CollectFutures
  <2>2. tpc' \in [Job -> {"none", "start", "record", "lease", "register", "enqueue",
                         "giveup", "returned", "raised"}]
    BY <2>1, CollectedTypeOK DEF TypeOK
  <2>3. apc' \in [Agent -> {"off", "beat", "refresh", "scan", "stale", "recover",
                           "retire", "count", "claim", "wait", "ended"}]
    <3>1. apc' = apc \/ \E s \in {"beat", "claim", "wait", "ended"} : apc' = [apc EXCEPT ![a] = s]
      BY <1>10 DEF CollectFutures
    <3> QED
      BY <3>1 DEF TypeOK
  <2>4. UNCHANGED <<runVars, attVars, reqVars, sessVars, child, crashes,
                    recVars, tagent, supVars>>
    BY <1>10 DEF CollectFutures
  <2> QED
    BY <2>2, <2>3, <2>4 DEF TypeOK
<1>11. ASSUME NEW j \in Job, ClaimNextRun(a, j) PROVE TypeOK'
  BY <1>11, BoundsHold DEF ClaimNextRun, TypeOK
<1> QED
  BY <1>1, <1>2, <1>3, <1>4, <1>5, <1>6, <1>7, <1>8, <1>9, <1>10, <1>11, RecoveryTypeOK
  DEF AgentStep

(* A Supervisor keeps the domains, *)
LEMMA SupervisorTypeOK ==
    ASSUME TypeOK, NEW v \in Supervisor, SupervisorStep(v)
    PROVE  TypeOK'
<1> USE DEF runVars, attVars, reqVars, sessVars, recVars, thrVars, supVars, SupGoto
<1>1. CASE SpawnChild(v)
  BY <1>1 DEF SpawnChild, TypeOK
<1>2. CASE FailToSpawn(v)
  BY <1>2 DEF FailToSpawn, TypeOK
<1>3. CASE RecordStarted(v)
  <2>1. req' \in [Job -> {"NONE", "COMPLETED", "UNAVAILABLE"} \cup ActiveRequest]
    <3>1. req' = req \/ req' = [req EXCEPT ![sjob[v]] = "RUNNING"]
      BY <1>3 DEF RecordStarted
    <3> QED
      BY <3>1 DEF ActiveRequest, TypeOK
  <2> QED
    <3>1. \E s \in {"wait", "fail"} : spc' = [spc EXCEPT ![v] = s]
      BY <1>3 DEF RecordStarted
    <3>2. UNCHANGED <<runVars, attVars, witness, sessVars, child, crashes, apc, recVars, thrVars,
                      sjob, beat>>
      BY <1>3 DEF RecordStarted
    <3> QED
      BY <2>1, <3>1, <3>2 DEF TypeOK
<1>4. CASE ChildCollected(v)
  BY <1>4 DEF ChildCollected, TypeOK
<1>5. CASE ChildTimesOut(v)
  BY <1>5 DEF ChildTimesOut, TypeOK
<1>6. ASSUME NEW j \in Job, NEW kind \in {"PROCESS_EXITED", "RUNTIME_TERMINATED"},
             RecordWitness(j, kind)
      PROVE  /\ req' \in [Job -> {"NONE", "COMPLETED", "UNAVAILABLE"} \cup ActiveRequest]
             /\ witness' \in [Job -> {"NONE", "PROCESS_EXITED", "RUNTIME_TERMINATED"}]
  <2>1. req' = req \/ req' = [req EXCEPT ![j] = "COMPLETED"]
    BY <1>6 DEF RecordWitness
  <2>2. witness' = witness \/ witness' = [witness EXCEPT ![j] = kind]
    BY <1>6 DEF RecordWitness
  <2>3. req' \in [Job -> {"NONE", "COMPLETED", "UNAVAILABLE"} \cup ActiveRequest]
    BY <2>1 DEF TypeOK
  <2>4. witness' \in [Job -> {"NONE", "PROCESS_EXITED", "RUNTIME_TERMINATED"}]
    BY <2>2 DEF TypeOK
  <2> QED
    BY <2>3, <2>4
<1>7. sjob[v] \in Job
  BY DEF TypeOK
<1>8. CASE WitnessExit(v)
  <2>1. /\ req' \in [Job -> {"NONE", "COMPLETED", "UNAVAILABLE"} \cup ActiveRequest]
        /\ witness' \in [Job -> {"NONE", "PROCESS_EXITED", "RUNTIME_TERMINATED"}]
    BY <1>6, <1>7, <1>8 DEF WitnessExit
  <2> QED
    BY <1>8, <2>1 DEF WitnessExit, TypeOK
<1>9. CASE WitnessFailure(v)
  <2>1. /\ req' \in [Job -> {"NONE", "COMPLETED", "UNAVAILABLE"} \cup ActiveRequest]
        /\ witness' \in [Job -> {"NONE", "PROCESS_EXITED", "RUNTIME_TERMINATED"}]
    BY <1>6, <1>7, <1>9 DEF WitnessFailure
  <2> QED
    BY <1>9, <2>1 DEF WitnessFailure, TypeOK
<1>10. CASE Finalize(v)
  <2>1. \/ \E r \in {"SUCCEEDED", "FAILED"} : CloseBoth(sjob[v], r, r)
        \/ UNCHANGED <<att, runVars>>
    BY <1>10 DEF Finalize
  <2>2. /\ att' \in [Job -> {"NONE", "RUNNING", "SUCCEEDED", "FAILED", "ABANDONED"}]
        /\ run' \in [Job -> {"QUEUED", "RUNNING", "SUCCEEDED", "FAILED"}]
        /\ runLeft' \in [Job -> 0..LeaseTicks]
    <3>1. CASE UNCHANGED <<att, runVars>>
      BY <3>1 DEF TypeOK
    <3>2. CASE \E r \in {"SUCCEEDED", "FAILED"} : CloseBoth(sjob[v], r, r)
      <4>1. PICK r \in {"SUCCEEDED", "FAILED"} : CloseBoth(sjob[v], r, r)
        BY <3>2
      <4>2. r \in {"SUCCEEDED", "FAILED", "ABANDONED"}
        OBVIOUS
      <4> HIDE DEF TypeOK
      <4> QED
        BY <1>7, <4>1, <4>2, ClosingTypeOK
    <3> QED
      BY <2>1, <3>1, <3>2
  <2>3. spc' \in [Supervisor -> {"idle", "spawn", "observe", "wait", "exit",
                                "finalize", "fail", "down"}]
    <3>1. \E s \in {"idle", "down"} : spc' = [spc EXCEPT ![v] = s]
      BY <1>10 DEF Finalize
    <3> QED
      BY <3>1 DEF TypeOK
  <2>4. /\ beat' = [beat EXCEPT ![v] = "off"]
        /\ UNCHANGED <<leased, leaseLeft, claim, claimLeft, owner, reqVars, sessVars,
                       child, crashes, apc, recVars, thrVars, sjob>>
    BY <1>10 DEF Finalize
  <2> QED
    BY <2>2, <2>3, <2>4 DEF TypeOK
<1>11. ASSUME NEW j \in Job, ClaimRequest(v, j) PROVE TypeOK'
  BY <1>11 DEF ClaimRequest, ActiveRequest, TypeOK
<1> QED
  BY <1>1, <1>2, <1>3, <1>4, <1>5, <1>8, <1>9, <1>10, <1>11 DEF SupervisorStep

(* and so do the heartbeats, the crashes and time. *)
LEMMA EnvironmentTypeOK ==
    ASSUME TypeOK,
           \/ \E j \in Job : ChildExits(j)
           \/ \E a \in Agent : CrashAgent(a)
           \/ \E v \in Supervisor : \/ BeatSession(v) \/ BeatAttempt(v)
                                    \/ CrashSupervisor(v) \/ RestartSupervisor(v)
           \/ Tick
    PROVE  TypeOK'
<1> USE DEF runVars, attVars, reqVars, sessVars, recVars, thrVars, supVars, Goto, SupGoto
<1>1. ASSUME NEW j \in Job, ChildExits(j) PROVE TypeOK'
  BY <1>1 DEF ChildExits, TypeOK
<1>2. ASSUME crashes < MaxCrashes PROVE crashes + 1 \in 0..MaxCrashes
  BY <1>2, SupervisedBounds DEF TypeOK
<1>3. ASSUME NEW a \in Agent, CrashAgent(a) PROVE TypeOK'
  <2>1. tpc' \in [Job -> {"none", "start", "record", "lease", "register", "enqueue",
                         "giveup", "returned", "raised"}]
    BY <1>3, CollectedTypeOK DEF CrashAgent
  <2>2. view' \in [Agent -> [Job -> {"skip", "listed", "fail", "foreign", "claim", "held"}]]
    BY <1>3 DEF CrashAgent, TypeOK
  <2>3. /\ apc' = [apc EXCEPT ![a] = "ended"]
        /\ expired' = [expired EXCEPT ![a] = {}]
        /\ crashes' \in 0..MaxCrashes
        /\ UNCHANGED <<runVars, attVars, reqVars, sessVars, child, tagent, supVars>>
    BY <1>2, <1>3 DEF CrashAgent
  <2> QED
    BY <2>1, <2>2, <2>3 DEF TypeOK
<1>4. ASSUME NEW v \in Supervisor, BeatSession(v) PROVE TypeOK'
  <2>1. sessLeft' \in [Host -> -1..LeaseTicks]
    <3>1. sessLeft' = sessLeft \/ \E h : sessLeft' = [sessLeft EXCEPT ![h] = LeaseTicks]
      BY <1>4 DEF BeatSession
    <3> QED
      BY <3>1, BoundsHold DEF TypeOK
  <2>2. beat' \in [Supervisor -> {"off", "session", "attempt"}]
    <3>1. \E s \in {"off", "attempt"} : beat' = [beat EXCEPT ![v] = s]
      BY <1>4 DEF BeatSession
    <3> QED
      BY <3>1 DEF TypeOK
  <2> QED
    <3>1. UNCHANGED <<runVars, attVars, reqVars, current, child, crashes, apc, recVars,
                      thrVars, spc, sjob>>
      BY <1>4 DEF BeatSession
    <3> QED
      BY <2>1, <2>2, <3>1 DEF TypeOK
<1>5. ASSUME NEW v \in Supervisor, BeatAttempt(v) PROVE TypeOK'
  <2>1. leaseLeft' \in [Job -> -1..LeaseTicks]
    <3>1. leaseLeft' = leaseLeft \/ leaseLeft' = [leaseLeft EXCEPT ![sjob[v]] = LeaseTicks]
      BY <1>5 DEF BeatAttempt
    <3> QED
      BY <3>1, BoundsHold DEF TypeOK
  <2>2. beat' \in [Supervisor -> {"off", "session", "attempt"}]
    <3>1. \E s \in {"off", "session"} : beat' = [beat EXCEPT ![v] = s]
      BY <1>5 DEF BeatAttempt
    <3> QED
      BY <3>1 DEF TypeOK
  <2> QED
    <3>1. UNCHANGED <<runVars, att, leased, claim, claimLeft, owner, reqVars, sessVars,
                      child, crashes, apc, recVars, thrVars, spc, sjob>>
      BY <1>5 DEF BeatAttempt
    <3> QED
      BY <2>1, <2>2, <3>1 DEF TypeOK
<1>6. ASSUME NEW v \in Supervisor, CrashSupervisor(v) PROVE TypeOK'
  BY <1>2, <1>6 DEF CrashSupervisor, TypeOK
<1>7. ASSUME NEW v \in Supervisor, RestartSupervisor(v) PROVE TypeOK'
  BY <1>7 DEF RestartSupervisor, TypeOK
<1>8. CASE Tick
  <2>1. /\ \A t \in 0..LeaseTicks : Less(t, 0) \in 0..LeaseTicks
        /\ \A t \in -1..LeaseTicks : Less(t, -1) \in -1..LeaseTicks
        /\ \A t \in -1..ClaimTicks : Less(t, -1) \in -1..ClaimTicks
    BY SupervisedBounds DEF Less
  <2>2. runLeft' \in [Job -> 0..LeaseTicks]
    BY <1>8, <2>1 DEF Tick, TypeOK
  <2>3. leaseLeft' \in [Job -> -1..LeaseTicks]
    BY <1>8, <2>1 DEF Tick, TypeOK
  <2>4. claimLeft' \in [Job -> -1..ClaimTicks]
    BY <1>8, <2>1 DEF Tick, TypeOK
  <2>5. sessLeft' \in [Host -> -1..LeaseTicks]
    BY <1>8, <2>1 DEF Tick, TypeOK
  <2>6. UNCHANGED <<run, att, leased, claim, owner, reqVars, current, child, crashes,
                    apc, recVars, thrVars, supVars>>
    BY <1>8 DEF Tick
  <2> QED
    BY <2>2, <2>3, <2>4, <2>5, <2>6 DEF TypeOK
<1> QED
  BY <1>1, <1>3, <1>4, <1>5, <1>6, <1>7, <1>8

LEMMA StepTypeOK == TypeOK /\ [Next]_vars => TypeOK'
<1> SUFFICES ASSUME TypeOK, [Next]_vars PROVE TypeOK'
  OBVIOUS
<1>1. CASE UNCHANGED vars
  BY <1>1 DEF vars, runVars, attVars, reqVars, sessVars, recVars, thrVars, supVars, TypeOK
<1>2. CASE Next
  BY <1>2, ThreadTypeOK, AgentTypeOK, SupervisorTypeOK, EnvironmentTypeOK DEF Next
<1> QED
  BY <1>1, <1>2

-----------------------------------------------------------------------------
(* The inductive invariant.                                                *)

JobInv(j) == ThreadInv(j) /\ RowInv(j) /\ DeliveryAgrees(j)
CoreInv == (\A j \in Job : JobInv(j)) /\ (\A v \in Supervisor : AloneInv(v) /\ SupervisorInv(v))

LEMMA InvParts == SupervisedInv <=> TypeOK /\ CoreInv
  BY DEF SupervisedInv, CoreInv, JobInv, DeliveriesAgree

(* Agents never return to the state before their start. *)
Started == \A a \in Agent : apc[a] # "off" => apc'[a] # "off"

SameRows(i) ==
    /\ run'[i] = run[i] /\ att'[i] = att[i] /\ leased'[i] = leased[i] /\ claim'[i] = claim[i]
    /\ owner'[i] = owner[i] /\ req'[i] = req[i] /\ witness'[i] = witness[i]
    /\ child'[i] = child[i] /\ tpc'[i] = tpc[i] /\ tagent'[i] = tagent[i]

(* A job whose rows stay as they are, and for which nobody starts to work. *)
LEMMA OtherJob ==
    ASSUME TypeOK, NEW i \in Job, JobInv(i), Started, SameRows(i),
           \A v \in Supervisor : Working(v, i)' => Working(v, i)
    PROVE  JobInv(i)'
<1>1. ThreadInv(i)'
  BY DEF JobInv, ThreadInv, Started, SameRows
<1>2. RowInv(i)'
  <2>1. owner[i] \in Agent \cup {NoAgent}
    BY DEF TypeOK
  <2> QED
    BY <2>1 DEF JobInv, RowInv, Started, SameRows
<1>3. DeliveryAgrees(i)'
  BY DEF JobInv, DeliveryAgrees, SameRows
<1> QED
  BY <1>1, <1>2, <1>3 DEF JobInv

(* Steps after which some threads or Supervisors have less to do, or       *)
(* nothing has changed for a job at all.                                   *)
LEMMA LessToDo ==
    ASSUME TypeOK, CoreInv, Started,
           UNCHANGED <<run, att, leased, claim, owner, reqVars, child, tagent, sjob>>,
           \A i \in Job : tpc'[i] \in {tpc[i], "none"},
           \A v \in Supervisor : spc'[v] \in {spc[v], "idle", "down"}
    PROVE  CoreInv'
<1>1. ASSUME NEW v \in Supervisor, NEW i PROVE Working(v, i)' => Working(v, i)
  BY DEF Working
<1>2. ASSUME NEW i \in Job PROVE JobInv(i)'
  <2>1. JobInv(i)
    BY DEF CoreInv
  <2>2. ThreadInv(i)'
    BY <2>1 DEF JobInv, ThreadInv, Started, reqVars
  <2>3. RowInv(i)'
    <3>1. owner[i] \in Agent \cup {NoAgent}
      BY DEF TypeOK
    <3> QED
      BY <1>1, <2>1, <3>1 DEF JobInv, RowInv, Started, reqVars
  <2>4. DeliveryAgrees(i)'
    BY <2>1 DEF JobInv, DeliveryAgrees, reqVars
  <2> QED
    BY <2>2, <2>3, <2>4 DEF JobInv
<1>3. ASSUME NEW v \in Supervisor PROVE (AloneInv(v) /\ SupervisorInv(v))'
  <2>1. AloneInv(v) /\ SupervisorInv(v) /\ sjob'[v] = sjob[v]
    BY DEF CoreInv
  <2>2. AloneInv(v)'
    BY <1>1, <2>1 DEF AloneInv
  <2> QED
    BY <2>1, <2>2 DEF SupervisorInv, reqVars
<1> QED
  BY <1>2, <1>3 DEF CoreInv

(* A step that writes the rows of one job, and no Supervisor takes.        *)
LEMMA RowStep ==
    ASSUME TypeOK, CoreInv, Started, NEW j \in Job, UNCHANGED <<child, witness, spc, sjob>>,
           \A i \in Job \ {j} : SameRows(i),
           req'[j] \in {req[j], "UNAVAILABLE"} \/ req[j] = "NONE",
           JobInv(j)'
    PROVE  CoreInv'
<1>1. ASSUME NEW v \in Supervisor, NEW i PROVE Working(v, i)' = Working(v, i)
  BY DEF Working
<1>2. ASSUME NEW i \in Job PROVE JobInv(i)'
  BY <1>1, OtherJob DEF CoreInv
<1>3. ASSUME NEW v \in Supervisor PROVE AloneInv(v)' /\ SupervisorInv(v)'
  <2>1. /\ AloneInv(v) /\ SupervisorInv(v) /\ sjob'[v] = sjob[v] /\ spc'[v] = spc[v]
        /\ child' = child /\ witness' = witness /\ sjob[v] \in Job
    BY DEF CoreInv, TypeOK
  <2>2. AloneInv(v)'
    BY <1>1, <2>1 DEF AloneInv
  <2>3. CASE req'[sjob[v]] \in {req[sjob[v]], "UNAVAILABLE"}
    BY <2>1, <2>2, <2>3 DEF SupervisorInv
  <2>4. CASE sjob[v] = j /\ req[j] = "NONE"
    <3>1. ~Working(v, j)
      BY <2>4 DEF CoreInv, JobInv, RowInv
    <3>2. spc[v] \in {"idle", "down"}
      BY <2>4, <3>1 DEF Working
    <3> QED
      BY <2>1, <2>2, <3>2 DEF SupervisorInv
  <2>5. sjob[v] # j => req'[sjob[v]] = req[sjob[v]]
    BY <2>1 DEF SameRows
  <2> QED
    BY <2>3, <2>4, <2>5
<1> QED
  BY <1>2, <1>3 DEF CoreInv

(* A step of the Supervisor that works on a job, or takes one that nobody  *)
(* works on.                                                               *)
LEMMA DeliveryStep ==
    ASSUME TypeOK, CoreInv, NEW v \in Supervisor, NEW j \in Job, sjob'[v] = j,
           UNCHANGED <<leased, claim, owner, apc, tpc, tagent>>,
           \A i \in Job \ {j} : SameRows(i),
           \A w \in Supervisor \ {v} : spc'[w] = spc[w] /\ sjob'[w] = sjob[w],
           Working(v, j) \/ \A w \in Supervisor : ~Working(w, j),
           JobInv(j)',
           SupervisorInv(v)'
    PROVE  CoreInv'
<1>1. ASSUME NEW w \in Supervisor, w # v, NEW i PROVE Working(w, i)' = Working(w, i)
  BY <1>1 DEF Working
<1>2. ASSUME NEW w \in Supervisor, w # v PROVE ~Working(w, j)
  <2>1. CASE Working(v, j)
    BY <1>2, <2>1 DEF CoreInv, AloneInv, Working
  <2> QED
    BY <2>1
<1>3. ASSUME NEW i \in Job PROVE JobInv(i)'
  <2>1. CASE i # j
    <3>1. \A w \in Supervisor : Working(w, i)' => Working(w, i)
      BY <1>1, <2>1 DEF Working
    <3> QED
      BY <2>1, <3>1, OtherJob DEF CoreInv, Started
  <2> QED
    BY <2>1
<1>4. ASSUME NEW w \in Supervisor, w # v PROVE AloneInv(w)' /\ SupervisorInv(w)'
  <2>1. /\ AloneInv(w) /\ SupervisorInv(w) /\ sjob'[w] = sjob[w] /\ spc'[w] = spc[w] /\ sjob[w] \in Job
    BY <1>4 DEF CoreInv, TypeOK
  <2>2. CASE sjob[w] = j
    <3>1. spc[w] \in {"idle", "down"}
      BY <1>2, <1>4, <2>2 DEF Working
    <3> QED
      BY <2>1, <3>1 DEF AloneInv, SupervisorInv, Working
  <2>3. CASE sjob[w] # j
    <3>1. /\ req'[sjob[w]] = req[sjob[w]] /\ witness'[sjob[w]] = witness[sjob[w]]
          /\ child'[sjob[w]] = child[sjob[w]]
      BY <2>1, <2>3 DEF SameRows
    <3>2. AloneInv(w)'
      BY <1>1, <1>4, <2>1, <2>3 DEF AloneInv, Working
    <3> QED
      BY <2>1, <3>1, <3>2 DEF SupervisorInv
  <2> QED
    BY <2>2, <2>3
<1>5. AloneInv(v)'
  BY <1>1, <1>2 DEF AloneInv
<1> QED
  BY <1>3, <1>4, <1>5 DEF CoreInv

LEMMA CoreInit == Init => CoreInv
  BY DEF Init, CoreInv, JobInv, ThreadInv, RowInv, DeliveryAgrees, ActiveRequest,
     AloneInv, SupervisorInv, Working

(* Execution threads. *)
LEMMA ThreadKeepsInv ==
    ASSUME TypeOK, CoreInv, NEW j \in Job, ThreadStep(j)
    PROVE  CoreInv'
<1> USE DEF runVars, attVars, reqVars, sessVars, recVars, thrVars, supVars
<1>1. JobInv(j) /\ Started
  BY DEF CoreInv, ThreadStep, Start, RecordAttempt, AcquireLease, Register, Enqueue, GiveUp, Started
<1>2. CASE Start(j)
  <2>1. JobInv(j)'
    BY <1>1, <1>2 DEF Start, TypeOK, JobInv, ThreadInv, RowInv, DeliveryAgrees, Working
  <2>2. \A i \in Job \ {j} : SameRows(i)
    BY <1>2 DEF Start, SameRows, TypeOK
  <2> QED
    BY <1>1, <1>2, <2>1, <2>2, RowStep DEF Start
<1>3. CASE RecordAttempt(j)
  <2>1. JobInv(j)'
    BY <1>1, <1>3 DEF RecordAttempt, TypeOK, JobInv, ThreadInv, RowInv, DeliveryAgrees, Working
  <2>2. \A i \in Job \ {j} : SameRows(i)
    BY <1>3 DEF RecordAttempt, SameRows, TypeOK
  <2> QED
    BY <1>1, <1>3, <2>1, <2>2, RowStep DEF RecordAttempt
<1>4. CASE AcquireLease(j)
  <2>1. JobInv(j)'
    <3>1. /\ leased' = [leased EXCEPT ![j] = TRUE]
          /\ tpc' = [tpc EXCEPT ![j] = "register"]
      BY <1>1, <1>4 DEF AcquireLease, JobInv, ThreadInv
    <3> QED
      BY <1>1, <1>4, <3>1 DEF AcquireLease, TypeOK, JobInv, ThreadInv, RowInv, DeliveryAgrees, Working
  <2>2. \A i \in Job \ {j} : SameRows(i)
    BY <1>4 DEF AcquireLease, SameRows, TypeOK
  <2> QED
    BY <1>1, <1>4, <2>1, <2>2, RowStep DEF AcquireLease
<1>5. CASE Register(j)
  <2>1. /\ tagent[j] \in Agent /\ apc[tagent[j]] # "off" /\ leased[j]
        /\ owner[j] = NoAgent /\ req[j] = "NONE"
    BY <1>1, <1>5 DEF Register, JobInv, ThreadInv, RowInv
  <2>2. JobInv(j)'
    BY <1>1, <1>5, <2>1, NullAssumption
    DEF Register, TypeOK, JobInv, ThreadInv, RowInv, DeliveryAgrees, Working
  <2>3. \A i \in Job \ {j} : SameRows(i)
    BY <1>5 DEF Register, SameRows, TypeOK
  <2> QED
    BY <1>1, <1>5, <2>2, <2>3, RowStep DEF Register
<1>6. CASE Enqueue(j)
  <2>1. req[j] = "NONE" /\ owner[j] # NoAgent
    BY <1>1, <1>6 DEF Enqueue, JobInv, ThreadInv
  <2>2. JobInv(j)'
    BY <1>1, <1>6, <2>1
    DEF Enqueue, TypeOK, JobInv, ThreadInv, RowInv, DeliveryAgrees, ActiveRequest, Working
  <2>3. \A i \in Job \ {j} : SameRows(i)
    BY <1>6 DEF Enqueue, SameRows, TypeOK
  <2> QED
    BY <1>1, <1>6, <2>1, <2>2, <2>3, RowStep DEF Enqueue
<1>7. CASE GiveUp(j)
  <2>1. ~AcceptedFrom(j, tagent[j])
    BY <1>1, <1>7, NullAssumption DEF GiveUp, AcceptedFrom, JobInv, ThreadInv
  <2>2. tpc' = [tpc EXCEPT ![j] = "raised"] /\ UNCHANGED <<att, runVars>>
    BY <1>7, <2>1 DEF GiveUp
  <2>3. JobInv(j)'
    BY <1>1, <1>7, <2>2 DEF GiveUp, TypeOK, JobInv, ThreadInv, RowInv, DeliveryAgrees, Working
  <2>4. \A i \in Job \ {j} : SameRows(i)
    BY <1>7, <2>2 DEF GiveUp, SameRows, TypeOK
  <2> QED
    BY <1>1, <1>7, <2>3, <2>4, RowStep DEF GiveUp
<1> QED
  BY <1>2, <1>3, <1>4, <1>5, <1>6, <1>7 DEF ThreadStep

(* The writes of the recovery pass and of dispatch. *)
LEMMA AgentWritesKeepInv ==
    ASSUME TypeOK, CoreInv, NEW a \in Agent, NEW j \in Job,
           \/ FailRunWithoutAttempt(a, j) \/ ClaimRecovery(a, j) \/ AbandonAttempt(a, j)
           \/ ClaimNextRun(a, j)
    PROVE  CoreInv'
<1> USE DEF runVars, attVars, reqVars, sessVars, recVars, thrVars, supVars
<1>1. JobInv(j)
  BY DEF CoreInv
<1>2. CASE FailRunWithoutAttempt(a, j)
  <2>1. Started
    BY <1>2 DEF FailRunWithoutAttempt, Started
  <2>2. JobInv(j)'
    BY <1>1, <1>2 DEF FailRunWithoutAttempt, TypeOK, JobInv, ThreadInv, RowInv, DeliveryAgrees, Working
  <2>3. \A i \in Job \ {j} : SameRows(i)
    BY <1>2 DEF FailRunWithoutAttempt, SameRows, TypeOK
  <2> QED
    BY <1>2, <2>1, <2>2, <2>3, RowStep DEF FailRunWithoutAttempt
<1>3. CASE ClaimRecovery(a, j)
  <2>1. claim' = claim \/ (leased[j] /\ claim' = [claim EXCEPT ![j] = a])
    BY <1>3 DEF ClaimRecovery, LeaseExpired
  <2>2. UNCHANGED <<runVars, att, leased, leaseLeft, owner, reqVars, sessVars,
                    child, crashes, apc, expired, thrVars, supVars>>
    BY <1>3 DEF ClaimRecovery
  <2>3. JobInv(j)'
    BY <1>1, <2>1, <2>2 DEF TypeOK, JobInv, ThreadInv, RowInv, DeliveryAgrees, Working
  <2>4. \A i \in Job \ {j} : SameRows(i)
    BY <2>1, <2>2 DEF SameRows, TypeOK
  <2> QED
    BY <2>2, <2>3, <2>4, RowStep DEF Started
<1>4. CASE AbandonAttempt(a, j)
  <2>1. UNCHANGED <<leased, leaseLeft, claim, claimLeft, owner, witness, sessVars,
                    child, crashes, apc, expired, thrVars, supVars>>
    BY <1>4 DEF AbandonAttempt
  <2>2. CASE UNCHANGED <<att, runVars, req>>
    BY <2>1, <2>2, LessToDo DEF Started
  <2>3. CASE ~UNCHANGED <<att, runVars, req>>
    <3>1. /\ att[j] = "RUNNING" /\ claim[j] = a
          /\ att' = [att EXCEPT ![j] = "ABANDONED"]
          /\ run' = run \/ run' = [run EXCEPT ![j] = "FAILED"]
          /\ req' = req \/ (req[j] \in ActiveRequest /\ req' = [req EXCEPT ![j] = "UNAVAILABLE"])
      BY <1>4, <2>3 DEF AbandonAttempt, RecoveryFence, CloseBoth, RetiredDelivery
    <3>2. leased[j]
      BY <1>1, <3>1, NullAssumption DEF JobInv, RowInv
    <3>3. req'[j] \in {req[j], "UNAVAILABLE"} /\ att'[j] = "ABANDONED"
      BY <3>1 DEF TypeOK
    <3>4. ThreadInv(j)'
      BY <1>1, <2>1, <3>1, <3>2 DEF TypeOK, JobInv, ThreadInv, ActiveRequest
    <3>5. RowInv(j)'
      BY <1>1, <2>1, <3>1, <3>2 DEF TypeOK, JobInv, RowInv, ActiveRequest, Working
    <3>6. DeliveryAgrees(j)'
      BY <1>1, <2>1, <3>1, <3>3 DEF TypeOK, JobInv, DeliveryAgrees
    <3>7. \A i \in Job \ {j} : SameRows(i)
      BY <2>1, <3>1 DEF SameRows, TypeOK
    <3> QED
      BY <2>1, <3>3, <3>4, <3>5, <3>6, <3>7, RowStep DEF Started, JobInv
  <2> QED
    BY <2>2, <2>3
<1>5. CASE ClaimNextRun(a, j)
  <2>1. Started /\ apc[a] # "off"
    BY <1>5 DEF ClaimNextRun, Goto, Started, TypeOK
  <2>2. apc'[a] # "off"
    BY <2>1 DEF Started
  <2>3. JobInv(j)'
    BY <1>1, <1>5, <2>1, <2>2
    DEF ClaimNextRun, Started, TypeOK, JobInv, ThreadInv, RowInv, DeliveryAgrees, Working
  <2>4. \A i \in Job \ {j} : SameRows(i)
    BY <1>5 DEF ClaimNextRun, SameRows, TypeOK
  <2> QED
    BY <1>5, <2>1, <2>3, <2>4, RowStep DEF ClaimNextRun
<1> QED
  BY <1>2, <1>3, <1>4, <1>5

(* The deliveries of abandoned Attempts are retired, all at once. *)
LEMMA RetirementKeepsInv ==
    ASSUME TypeOK, CoreInv, NEW a \in Agent, RetireDeliveries(a)
    PROVE  CoreInv'
<1> USE DEF runVars, attVars, reqVars, sessVars, recVars, thrVars, supVars
<1>1. /\ Started
      /\ \A i \in Job : \/ req'[i] = req[i]
                       \/ /\ req[i] \in ActiveRequest /\ att[i] = "ABANDONED"
                          /\ req'[i] = "UNAVAILABLE"
      /\ UNCHANGED <<runVars, attVars, witness, sessVars, child, crashes,
                     recVars, thrVars, supVars>>
  BY DEF RetireDeliveries, Goto, Started, TypeOK
<1>2. ASSUME NEW v \in Supervisor, NEW i PROVE Working(v, i)' = Working(v, i)
  BY <1>1 DEF Working
<1>3. ASSUME NEW i \in Job PROVE JobInv(i)'
  <2>1. JobInv(i) /\ owner[i] \in Agent \cup {NoAgent}
    BY DEF CoreInv, TypeOK
  <2>2. ThreadInv(i)'
    BY <1>1, <2>1 DEF JobInv, ThreadInv, Started, ActiveRequest
  <2>3. RowInv(i)'
    BY <1>1, <1>2, <2>1 DEF JobInv, RowInv, Started, ActiveRequest
  <2>4. DeliveryAgrees(i)'
    BY <1>1, <2>1 DEF JobInv, DeliveryAgrees
  <2> QED
    BY <2>2, <2>3, <2>4 DEF JobInv
<1>4. ASSUME NEW v \in Supervisor PROVE AloneInv(v)' /\ SupervisorInv(v)'
  <2>1. /\ AloneInv(v) /\ SupervisorInv(v) /\ sjob[v] \in Job
        /\ UNCHANGED <<spc, sjob, child, witness>>
    BY <1>1 DEF CoreInv, TypeOK
  <2>2. req'[sjob[v]] \in {req[sjob[v]], "UNAVAILABLE"}
    BY <1>1, <2>1
  <2>3. AloneInv(v)'
    BY <1>2, <2>1 DEF AloneInv
  <2> QED
    BY <2>1, <2>2, <2>3 DEF SupervisorInv
<1> QED
  BY <1>3, <1>4 DEF CoreInv

(* The steps of an Agent. *)
LEMMA AgentKeepsInv ==
    ASSUME TypeOK, CoreInv, NEW a \in Agent, AgentStep(a)
    PROVE  CoreInv'
<1> USE DEF runVars, attVars, reqVars, sessVars, recVars, thrVars, supVars
<1>1. CASE \/ StartAgent(a) \/ HeartbeatAgent(a) \/ RefreshQueued(a)
           \/ ScanExpired(a) \/ ListStale(a) \/ EndRecovery(a) \/ NothingToClaim(a)
           \/ \E j \in Job : ReadRun(a, j) \/ ConsultWitness(a, j)
  <2>1. apc' = apc \/ \E s \in {"beat", "refresh", "ended", "scan", "stale", "recover", "retire", "wait"} :
                        apc' = [apc EXCEPT ![a] = s]
    BY <1>1 DEF StartAgent, HeartbeatAgent, RefreshQueued, ScanExpired, ListStale, EndRecovery,
       NothingToClaim, ReadRun, ConsultWitness, Goto
  <2>2. UNCHANGED <<run, att, leased, claim, owner, reqVars, child, tpc, tagent, spc, sjob>>
    BY <1>1 DEF StartAgent, HeartbeatAgent, RefreshQueued, ScanExpired, ListStale, EndRecovery,
       NothingToClaim, ReadRun, ConsultWitness
  <2>3. Started
    BY <2>1 DEF Started, TypeOK
  <2> QED
    BY <2>2, <2>3, LessToDo
<1>2. CASE CountActive(a) \/ CollectFutures(a)
  <2>1. apc' = apc \/ \E s \in {"beat", "claim", "wait", "ended"} : apc' = [apc EXCEPT ![a] = s]
    BY <1>2 DEF CountActive, CollectFutures, Goto
  <2>2. \E S : tpc' = tpc \/ tpc' = Collected(S)
    BY <1>2 DEF CountActive, CollectFutures
  <2>3. UNCHANGED <<run, att, leased, claim, owner, reqVars, child, tagent, spc, sjob>>
    BY <1>2 DEF CountActive, CollectFutures
  <2>4. Started
    BY <2>1 DEF Started, TypeOK
  <2>5. \A i \in Job : tpc'[i] \in {tpc[i], "none"}
    BY <2>2 DEF Collected
  <2> QED
    BY <2>3, <2>4, <2>5, LessToDo
<1> QED
  BY <1>1, <1>2, AgentWritesKeepInv, RetirementKeepsInv DEF AgentStep

(* A request is taken once, by a Supervisor that had none. *)
LEMMA ClaimRequestKeepsInv ==
    ASSUME TypeOK, CoreInv, NEW v \in Supervisor, NEW j \in Job, ClaimRequest(v, j)
    PROVE  CoreInv'
<1> USE DEF runVars, attVars, reqVars, sessVars, recVars, thrVars, supVars
<1>1. /\ JobInv(j) /\ req[j] = "QUEUED"
      /\ req' = [req EXCEPT ![j] = "CLAIMED"]
      /\ sjob' = [sjob EXCEPT ![v] = j] /\ spc' = [spc EXCEPT ![v] = "spawn"]
      /\ UNCHANGED <<runVars, attVars, witness, sessVars, child, crashes, apc, recVars, thrVars>>
  BY DEF ClaimRequest, Deliverable, SupGoto, CoreInv
<1>2. \A w \in Supervisor : ~Working(w, j)
  BY <1>1 DEF JobInv, RowInv
<1>3. child[j] = "none" /\ witness[j] = "NONE" /\ att[j] \in {"RUNNING", "ABANDONED"}
  BY <1>1 DEF JobInv, RowInv, DeliveryAgrees, ActiveRequest, TypeOK
<1>4. JobInv(j)'
  BY <1>1, <1>3 DEF TypeOK, JobInv, ThreadInv, RowInv, DeliveryAgrees, ActiveRequest
<1>5. SupervisorInv(v)'
  BY <1>1, <1>3 DEF TypeOK, SupervisorInv
<1>6. /\ \A i \in Job \ {j} : SameRows(i)
      /\ \A w \in Supervisor \ {v} : spc'[w] = spc[w] /\ sjob'[w] = sjob[w]
      /\ sjob'[v] = j
  BY <1>1 DEF SameRows, TypeOK
<1> QED
  BY <1>1, <1>2, <1>4, <1>5, <1>6, DeliveryStep

(* The steps of a Supervisor on the request it has taken. *)
LEMMA SupervisorKeepsInv ==
    ASSUME TypeOK, CoreInv, NEW v \in Supervisor, SupervisorStep(v)
    PROVE  CoreInv'
<1> USE DEF runVars, attVars, reqVars, sessVars, recVars, thrVars, supVars, SupGoto
<1> DEFINE j == sjob[v]
<1>1. JobInv(j) /\ SupervisorInv(v) /\ j \in Job
  BY DEF CoreInv, TypeOK
<1>2. ASSUME spc[v] \notin {"idle", "down"} PROVE Working(v, j) /\ req[j] \notin {"NONE", "QUEUED"}
  BY <1>1, <1>2 DEF Working, JobInv, RowInv
<1>3. ASSUME spc[v] \notin {"idle", "down"}, JobInv(j)', SupervisorInv(v)',
             UNCHANGED <<leased, claim, owner, apc, tpc, tagent, sjob>>,
             \A i \in Job \ {j} : SameRows(i),
             \A w \in Supervisor \ {v} : spc'[w] = spc[w]
      PROVE  CoreInv'
  BY <1>1, <1>2, <1>3, DeliveryStep
<1>4. CASE SpawnChild(v)
  <2>1. spc[v] = "spawn" /\ child' = [child EXCEPT ![j] = "alive"] /\ spc' = [spc EXCEPT ![v] = "observe"]
        /\ UNCHANGED <<runVars, attVars, reqVars, sessVars, apc, thrVars, sjob>>
    BY <1>4 DEF SpawnChild
  <2>2. witness[j] = "NONE" /\ req[j] \in {"CLAIMED", "UNAVAILABLE"}
    BY <1>1, <2>1 DEF SupervisorInv
  <2>3. JobInv(j)' /\ SupervisorInv(v)'
    BY <1>1, <1>2, <2>1, <2>2
    DEF TypeOK, JobInv, ThreadInv, RowInv, DeliveryAgrees, SupervisorInv
  <2> QED
    BY <1>3, <2>1, <2>3 DEF SameRows, TypeOK
<1>5. CASE FailToSpawn(v) \/ ChildCollected(v)
  <2>1. /\ \/ spc[v] = "spawn" /\ spc' = [spc EXCEPT ![v] = "fail"]
           \/ spc[v] = "wait" /\ child[j] = "dead" /\ spc' = [spc EXCEPT ![v] = "exit"]
        /\ UNCHANGED <<runVars, attVars, reqVars, sessVars, child, apc, thrVars, sjob>>
    BY <1>5 DEF FailToSpawn, ChildCollected
  <2>2. JobInv(j)' /\ SupervisorInv(v)'
    BY <1>1, <1>2, <2>1
    DEF TypeOK, JobInv, ThreadInv, RowInv, DeliveryAgrees, SupervisorInv
  <2> QED
    BY <1>3, <2>1, <2>2 DEF SameRows, TypeOK
<1>6. CASE RecordStarted(v)
  <2>1. /\ spc[v] = "observe"
        /\ \/ req[j] = "CLAIMED" /\ req' = [req EXCEPT ![j] = "RUNNING"]
                                /\ spc' = [spc EXCEPT ![v] = "wait"]
           \/ req' = req /\ spc' = [spc EXCEPT ![v] = "fail"]
        /\ UNCHANGED <<runVars, attVars, witness, sessVars, child, apc, thrVars, sjob>>
    BY <1>6 DEF RecordStarted
  <2>2. JobInv(j)'
    BY <1>1, <1>2, <2>1 DEF TypeOK, JobInv, ThreadInv, RowInv, DeliveryAgrees, ActiveRequest
  <2>3. SupervisorInv(v)'
    BY <1>1, <2>1 DEF TypeOK, SupervisorInv
  <2> QED
    BY <1>3, <2>1, <2>2, <2>3 DEF SameRows, TypeOK
<1>7. CASE ChildTimesOut(v)
  <2>1. /\ spc[v] = "wait" /\ child' = [child EXCEPT ![j] = "dead"] /\ spc' = [spc EXCEPT ![v] = "fail"]
        /\ UNCHANGED <<runVars, attVars, reqVars, sessVars, apc, thrVars, sjob>>
    BY <1>7 DEF ChildTimesOut
  <2>2. JobInv(j)' /\ SupervisorInv(v)'
    BY <1>1, <1>2, <2>1
    DEF TypeOK, JobInv, ThreadInv, RowInv, DeliveryAgrees, SupervisorInv
  <2> QED
    BY <1>3, <2>1, <2>2 DEF SameRows, TypeOK
<1>8. CASE WitnessExit(v) \/ WitnessFailure(v)
  <2>1. PICK kind \in {"PROCESS_EXITED", "RUNTIME_TERMINATED"} :
          /\ RecordWitness(j, kind)
          /\ \/ spc[v] = "exit" /\ kind = "PROCESS_EXITED" /\ spc' = [spc EXCEPT ![v] = "finalize"]
             \/ spc[v] = "fail" /\ spc' = [spc EXCEPT ![v] = "down"]
          /\ UNCHANGED <<runVars, attVars, sessVars, child, apc, thrVars, sjob>>
    BY <1>8 DEF WitnessExit, WitnessFailure
  <2>2. witness[j] = "NONE"
    BY <1>1, <2>1 DEF SupervisorInv
  <2>3. /\ witness' = [witness EXCEPT ![j] = kind]
        /\ \/ req[j] \in {"CLAIMED", "RUNNING"} /\ req' = [req EXCEPT ![j] = "COMPLETED"]
           \/ req[j] \notin {"CLAIMED", "RUNNING"} /\ req' = req
    BY <2>1, <2>2 DEF RecordWitness
  <2>4. req[j] \notin {"NONE", "QUEUED"}
    BY <1>2, <2>1
  <2>5. JobInv(j)'
    BY <1>1, <2>1, <2>2, <2>3, <2>4
    DEF TypeOK, JobInv, ThreadInv, RowInv, DeliveryAgrees, ActiveRequest
  <2>6. SupervisorInv(v)'
    BY <1>1, <2>1, <2>3 DEF TypeOK, SupervisorInv
  <2> QED
    BY <1>3, <2>1, <2>3, <2>5, <2>6 DEF SameRows, TypeOK
<1>9. CASE Finalize(v)
  <2>1. /\ spc[v] = "finalize"
        /\ \E s \in {"idle", "down"} : spc' = [spc EXCEPT ![v] = s]
        /\ UNCHANGED <<leased, leaseLeft, claim, claimLeft, owner, reqVars, sessVars,
                       child, crashes, apc, recVars, thrVars, sjob>>
    BY <1>9 DEF Finalize
  <2>2. CASE AcceptedFrom(j, owner[j])
    <3>1. PICK r \in {"SUCCEEDED", "FAILED"} : CloseBoth(j, r, r)
      BY <1>9, <2>2 DEF Finalize
    <3>2. /\ att[j] = "RUNNING" /\ leased[j]
          /\ witness[j] = "PROCESS_EXITED" /\ child[j] = "dead"
      BY <1>1, <2>1, <2>2 DEF AcceptedFrom, LeaseHeld, SupervisorInv
    <3>3. req[j] = "COMPLETED"
      BY <1>1, <1>2, <2>1, <3>2 DEF JobInv, RowInv, DeliveryAgrees
    <3>4. /\ att' = [att EXCEPT ![j] = r]
          /\ \/ run[j] = "RUNNING" /\ run' = [run EXCEPT ![j] = r]
             \/ run[j] # "RUNNING" /\ run' = run
      BY <3>1 DEF CloseBoth
    <3>5. JobInv(j)'
      BY <1>1, <2>1, <3>2, <3>3, <3>4 DEF TypeOK, JobInv, ThreadInv, RowInv, DeliveryAgrees, ActiveRequest
    <3>6. SupervisorInv(v)'
      BY <1>1, <2>1 DEF TypeOK, SupervisorInv
    <3> QED
      BY <1>3, <2>1, <3>4, <3>5, <3>6 DEF SameRows, TypeOK
  <2>3. CASE ~AcceptedFrom(j, owner[j])
    <3>1. UNCHANGED <<att, runVars>>
      BY <1>9, <2>3 DEF Finalize
    <3>2. \A w \in Supervisor : spc'[w] \in {spc[w], "idle", "down"}
      BY <2>1 DEF TypeOK
    <3> QED
      BY <2>1, <3>1, <3>2, LessToDo DEF Started
  <2> QED
    BY <2>2, <2>3
<1> QED
  BY <1>4, <1>5, <1>6, <1>7, <1>8, <1>9, ClaimRequestKeepsInv DEF SupervisorStep

(* The environment. *)
LEMMA EnvironmentKeepsInv ==
    ASSUME TypeOK, CoreInv,
           \/ \E j \in Job : ChildExits(j)
           \/ \E a \in Agent : CrashAgent(a)
           \/ \E v \in Supervisor : \/ BeatSession(v) \/ BeatAttempt(v)
                                    \/ CrashSupervisor(v) \/ RestartSupervisor(v)
           \/ Tick
    PROVE  CoreInv'
<1> USE DEF runVars, attVars, reqVars, sessVars, recVars, thrVars, supVars, Goto, SupGoto
<1>1. ASSUME NEW j \in Job, ChildExits(j) PROVE CoreInv'
  <2>1. /\ child[j] = "alive" /\ child' = [child EXCEPT ![j] = "dead"]
        /\ UNCHANGED <<runVars, attVars, reqVars, sessVars, crashes, apc, recVars, thrVars, supVars>>
    BY <1>1 DEF ChildExits
  <2>2. ASSUME NEW i \in Job PROVE JobInv(i)'
    BY <2>1 DEF CoreInv, TypeOK, JobInv, ThreadInv, RowInv, DeliveryAgrees, Working
  <2>3. ASSUME NEW v \in Supervisor PROVE AloneInv(v)' /\ SupervisorInv(v)'
    BY <2>1 DEF CoreInv, TypeOK, AloneInv, SupervisorInv, Working
  <2> QED
    BY <2>2, <2>3 DEF CoreInv
<1>2. ASSUME NEW a \in Agent, CrashAgent(a) PROVE CoreInv'
  <2>1. /\ tpc' = Collected(Futures(a)) /\ apc' = [apc EXCEPT ![a] = "ended"]
        /\ UNCHANGED <<runVars, attVars, reqVars, sessVars, child, tagent, supVars>>
    BY <1>2 DEF CrashAgent
  <2>2. Started
    BY <2>1 DEF Started, TypeOK
  <2>3. \A i \in Job : tpc'[i] \in {tpc[i], "none"}
    BY <2>1 DEF Collected
  <2> QED
    BY <2>1, <2>2, <2>3, LessToDo
<1>3. CASE \/ \E v \in Supervisor : BeatSession(v) \/ BeatAttempt(v)
           \/ Tick
  <2>1. UNCHANGED <<run, att, leased, claim, owner, reqVars, child, apc, tpc, tagent, spc, sjob>>
    BY <1>3 DEF BeatSession, BeatAttempt, Tick
  <2> QED
    BY <2>1, LessToDo DEF Started
<1>4. ASSUME NEW v \in Supervisor, CrashSupervisor(v) \/ RestartSupervisor(v) PROVE CoreInv'
  <2>1. /\ \E s \in {"idle", "down"} : spc' = [spc EXCEPT ![v] = s]
        /\ UNCHANGED <<runVars, attVars, reqVars, child, apc, tpc, tagent, sjob>>
    BY <1>4 DEF CrashSupervisor, RestartSupervisor
  <2>2. \A w \in Supervisor : spc'[w] \in {spc[w], "idle", "down"}
    BY <2>1 DEF TypeOK
  <2> QED
    BY <2>1, <2>2, LessToDo DEF Started
<1> QED
  BY <1>1, <1>2, <1>3, <1>4

LEMMA StepKeepsInv == SupervisedInv /\ [Next]_vars => SupervisedInv'
<1> SUFFICES ASSUME TypeOK, CoreInv, [Next]_vars PROVE CoreInv'
  BY InvParts, StepTypeOK DEF SupervisedInv, CoreInv, JobInv, DeliveriesAgree
<1>1. CASE UNCHANGED vars
  BY <1>1, LessToDo DEF vars, runVars, attVars, reqVars, thrVars, supVars, Started
<1>2. CASE Next
  BY <1>2, ThreadKeepsInv, AgentKeepsInv, SupervisorKeepsInv, EnvironmentKeepsInv DEF Next
<1> QED
  BY <1>1, <1>2

(* Every state of a behaviour satisfies the invariant: types, how far the  *)
(* rows of a job have come, what its thread relies on, and that one        *)
(* Supervisor at most works on a request, which finds it as it left it.    *)
THEOREM Supervised == Spec => []SupervisedInv
<1>1. Init => SupervisedInv
  BY InitTypeOK, CoreInit, InvParts
<1> QED
  BY <1>1, StepKeepsInv, PTL DEF Spec

(* No success is inferred: a Run that reads SUCCEEDED has a collected tool, *)
(* a witness of its exit and a completed delivery, whichever Agents and    *)
(* Supervisors crashed (execution_supervisor.py run_once, finalize).       *)
THEOREM SuccessNeedsWitness == Spec => []AcceptedIsWitnessed
<1>1. SupervisedInv => AcceptedIsWitnessed
  BY DEF SupervisedInv, RowInv, AcceptedIsWitnessed
<1> QED
  BY <1>1, Supervised, PTL

(* The status of a delivery can be trusted by the recovery: COMPLETED has  *)
(* a witness, UNAVAILABLE an abandoned Attempt, an active one no verdict.  *)
THEOREM DeliveriesKeepTheirMeaning == Spec => []DeliveriesAgree
<1>1. SupervisedInv => DeliveriesAgree
  BY DEF SupervisedInv
<1> QED
  BY <1>1, Supervised, PTL

-----------------------------------------------------------------------------
(* What a step does to the Attempt and the tool of a job.                  *)

Unmoved(j) == att'[j] = att[j] /\ child'[j] = child[j]

Opened(j) == att[j] = "NONE" /\ att'[j] = "RUNNING" /\ child'[j] = child[j]

Launched(j) ==
    /\ att[j] \in {"RUNNING", "ABANDONED"} /\ att'[j] = att[j]
    /\ child[j] = "none" /\ child'[j] = "alive"

Finished(j) == att'[j] = att[j] /\ child[j] = "alive" /\ child'[j] = "dead"

Abandoned(j) == att[j] = "RUNNING" /\ att'[j] = "ABANDONED" /\ child'[j] = child[j]

Accepted(j) ==
    /\ AcceptedFrom(j, owner[j])
    /\ att[j] = "RUNNING" /\ att'[j] \in {"SUCCEEDED", "FAILED"}
    /\ child[j] = "dead" /\ child'[j] = child[j]

Moved(j) ==
    Unmoved(j) \/ Opened(j) \/ Launched(j) \/ Finished(j) \/ Abandoned(j) \/ Accepted(j)

(* An execution thread opens the Attempt; it never closes one, since what  *)
(* it gives up is not registered in its session's name.                    *)
LEMMA ThreadMoves ==
    ASSUME TypeOK, CoreInv, NEW i \in Job, ThreadStep(i), NEW j \in Job
    PROVE  Moved(j)
<1> USE DEF runVars, attVars, reqVars, sessVars, recVars, thrVars, supVars
<1>1. JobInv(i) /\ child' = child
  BY DEF CoreInv, ThreadStep, Start, RecordAttempt, AcquireLease, Register, Enqueue, GiveUp
<1>2. CASE RecordAttempt(i)
  <2>1. att[i] = "NONE" /\ att' = [att EXCEPT ![i] = "RUNNING"]
    BY <1>1, <1>2 DEF RecordAttempt, JobInv, ThreadInv
  <2> QED
    BY <1>1, <2>1 DEF Moved, Unmoved, Opened, TypeOK
<1>3. CASE GiveUp(i)
  <2>1. ~AcceptedFrom(i, tagent[i])
    BY <1>1, <1>3, NullAssumption DEF GiveUp, AcceptedFrom, JobInv, ThreadInv
  <2> QED
    BY <1>1, <1>3, <2>1 DEF GiveUp, Moved, Unmoved
<1>4. CASE Start(i) \/ AcquireLease(i) \/ Register(i) \/ Enqueue(i)
  BY <1>1, <1>4 DEF Start, AcquireLease, Register, Enqueue, Moved, Unmoved
<1> QED
  BY <1>2, <1>3, <1>4 DEF ThreadStep

(* An Agent closes an Attempt only as ABANDONED. *)
LEMMA AgentMoves ==
    ASSUME TypeOK, CoreInv, NEW a \in Agent, AgentStep(a), NEW j \in Job
    PROVE  Moved(j)
<1> USE DEF runVars, attVars, reqVars, sessVars, recVars, thrVars, supVars
<1>1. ASSUME NEW i \in Job, AbandonAttempt(a, i) PROVE Moved(j)
  <2>1. /\ child' = child
        /\ \/ att' = att
           \/ att[i] = "RUNNING" /\ att' = [att EXCEPT ![i] = "ABANDONED"]
    BY <1>1 DEF AbandonAttempt, RecoveryFence, CloseBoth
  <2> QED
    BY <2>1 DEF Moved, Unmoved, Abandoned, TypeOK
<1>2. CASE UNCHANGED <<att, child>>
  BY <1>2 DEF Moved, Unmoved
<1>3. UNCHANGED <<att, child>> \/ \E i \in Job : AbandonAttempt(a, i)
  BY DEF AgentStep, StartAgent, HeartbeatAgent, RefreshQueued, ScanExpired, ListStale, EndRecovery,
     RetireDeliveries, CountActive, NothingToClaim, CollectFutures, ReadRun, FailRunWithoutAttempt,
     ConsultWitness, ClaimRecovery, ClaimNextRun
<1> QED
  BY <1>1, <1>2, <1>3

(* A Supervisor launches and collects the tool, then finalizes. *)
LEMMA SupervisorMoves ==
    ASSUME TypeOK, CoreInv, NEW v \in Supervisor, SupervisorStep(v), NEW j \in Job
    PROVE  Moved(j)
<1> USE DEF runVars, attVars, reqVars, sessVars, recVars, thrVars, supVars
<1>1. sjob[v] \in Job /\ JobInv(sjob[v]) /\ SupervisorInv(v)
  BY DEF TypeOK, CoreInv
<1>2. CASE SpawnChild(v)
  <2>1. spc[v] = "spawn" /\ att' = att /\ child' = [child EXCEPT ![sjob[v]] = "alive"]
    BY <1>2 DEF SpawnChild
  <2>2. child[sjob[v]] = "none" /\ req[sjob[v]] \in {"CLAIMED", "UNAVAILABLE"}
    BY <1>1, <2>1 DEF SupervisorInv
  <2>3. att[sjob[v]] \in {"RUNNING", "ABANDONED"}
    BY <1>1, <2>2 DEF JobInv, DeliveryAgrees, ActiveRequest
  <2> QED
    BY <2>1, <2>2, <2>3 DEF Moved, Unmoved, Launched, TypeOK
<1>3. CASE ChildTimesOut(v)
  <2>1. /\ att' = att /\ child[sjob[v]] = "alive"
        /\ child' = [child EXCEPT ![sjob[v]] = "dead"]
    BY <1>3 DEF ChildTimesOut
  <2> QED
    BY <2>1 DEF Moved, Unmoved, Finished, TypeOK
<1>4. CASE Finalize(v)
  <2>1. /\ spc[v] = "finalize" /\ child' = child
        /\ \/ att' = att
           \/ /\ AcceptedFrom(sjob[v], owner[sjob[v]])
              /\ \E r \in {"SUCCEEDED", "FAILED"} : att' = [att EXCEPT ![sjob[v]] = r]
    BY <1>4 DEF Finalize, CloseBoth
  <2>2. child[sjob[v]] = "dead"
    BY <1>1, <2>1 DEF SupervisorInv
  <2>3. AcceptedFrom(sjob[v], owner[sjob[v]]) => att[sjob[v]] = "RUNNING"
    BY DEF AcceptedFrom, LeaseHeld
  <2>4. CASE j = sjob[v]
    BY <2>1, <2>2, <2>3, <2>4 DEF Moved, Unmoved, Accepted, TypeOK
  <2>5. CASE j # sjob[v]
    BY <2>1, <2>5 DEF Moved, Unmoved, TypeOK
  <2> QED
    BY <2>4, <2>5
<1>5. UNCHANGED <<att, child>> \/ SpawnChild(v) \/ ChildTimesOut(v) \/ Finalize(v)
  BY DEF SupervisorStep, FailToSpawn, RecordStarted, ChildCollected, WitnessExit, WitnessFailure,
     ClaimRequest
<1>6. CASE UNCHANGED <<att, child>>
  BY <1>6 DEF Moved, Unmoved
<1> QED
  BY <1>2, <1>3, <1>4, <1>5, <1>6

LEMMA StepMoves ==
    ASSUME SupervisedInv, [Next]_vars, NEW j \in Job
    PROVE  Moved(j)
<1> USE DEF runVars, attVars, reqVars, sessVars, recVars, thrVars, supVars
<1>1. TypeOK /\ CoreInv
  BY InvParts
<1>2. ASSUME NEW i \in Job, ChildExits(i) PROVE Moved(j)
  <2>1. att' = att /\ child[i] = "alive" /\ child' = [child EXCEPT ![i] = "dead"]
    BY <1>2 DEF ChildExits
  <2> QED
    BY <1>1, <2>1 DEF Moved, Unmoved, Finished, TypeOK
<1>3. CASE \/ UNCHANGED vars \/ Tick
           \/ \E a \in Agent : CrashAgent(a)
           \/ \E v \in Supervisor : \/ BeatSession(v) \/ BeatAttempt(v)
                                    \/ CrashSupervisor(v) \/ RestartSupervisor(v)
  <2>1. UNCHANGED <<att, child>>
    BY <1>3 DEF vars, Tick, CrashAgent, BeatSession, BeatAttempt, CrashSupervisor, RestartSupervisor
  <2> QED
    BY <2>1 DEF Moved, Unmoved
<1> QED
  BY <1>1, <1>2, <1>3, ThreadMoves, AgentMoves, SupervisorMoves DEF Next

(* The detailed protocol implements the ledger of each Attempt. *)
LEMMA InitLedgers == Init => \A j \in Job : Ledger(j)!Init
  BY DEF Init, Ledger!Init, Execution

LEMMA MovesAreLedgerSteps ==
    ASSUME NEW j \in Job, Moved(j), att[j] \in {"NONE", "RUNNING", "SUCCEEDED", "FAILED", "ABANDONED"}
    PROVE  [Ledger(j)!Next]_<<att[j], child[j]>>
<1>1. CASE Unmoved(j)
  BY <1>1 DEF Unmoved
<1>2. CASE Opened(j)
  <2>1. Ledger(j)!Open(1)
    BY <1>2 DEF Opened, Ledger!Open, Execution
  <2> QED
    BY <2>1 DEF Ledger!Next
<1>3. CASE Launched(j)
  <2>1. Ledger(j)!Launch(1)
    BY <1>3 DEF Launched, Ledger!Launch, Execution
  <2> QED
    BY <2>1 DEF Ledger!Next
<1>4. CASE Finished(j)
  <2>1. Ledger(j)!Finish(1)
    BY <1>4 DEF Finished, Ledger!Finish, Execution
  <2> QED
    BY <2>1 DEF Ledger!Next
<1>5. CASE Abandoned(j)
  <2>1. Ledger(j)!Close(1, "ABANDONED")
    BY <1>5 DEF Abandoned, Ledger!Close, Ledger!Observed, Execution
  <2> QED
    BY <2>1 DEF Ledger!Next, Ledger!Verdicts
<1>6. CASE Accepted(j)
  <2>1. PICK r \in {"SUCCEEDED", "FAILED"} : att'[j] = r
    BY <1>6 DEF Accepted
  <2>2. Ledger(j)!Close(1, r)
    BY <1>6, <2>1 DEF Accepted, Ledger!Close, Ledger!Observed, Execution
  <2> QED
    BY <2>2 DEF Ledger!Next, Ledger!Verdicts
<1> QED
  BY <1>1, <1>2, <1>3, <1>4, <1>5, <1>6 DEF Moved

(* Each job is a ledger of one Attempt, whatever crashes: its tool is      *)
(* started at most once, its verdict is final, and success needs a tool    *)
(* that ended.                                                             *)
THEOREM Refinement == Spec => ImplementsLedgers
<1>1. SupervisedInv /\ [Next]_vars => [\A j \in Job : [Ledger(j)!Next]_<<att[j], child[j]>>]_vars
  <2> SUFFICES ASSUME SupervisedInv, [Next]_vars, NEW j \in Job
               PROVE  [Ledger(j)!Next]_<<att[j], child[j]>>
    OBVIOUS
  <2>1. att[j] \in {"NONE", "RUNNING", "SUCCEEDED", "FAILED", "ABANDONED"}
    BY DEF SupervisedInv, TypeOK
  <2> QED
    BY <2>1, StepMoves, MovesAreLedgerSteps
<1>2. Spec => [][\A j \in Job : [Ledger(j)!Next]_<<att[j], child[j]>>]_vars
  BY <1>1, Supervised, PTL DEF Spec
<1> QED
  BY <1>2, InitLedgers DEF Spec, ImplementsLedgers

-----------------------------------------------------------------------------
(* Sessions. *)

(* Two statements write a registration or a host's current session. *)
LEMMA SessionWrites ==
    ASSUME [Next]_vars
    PROVE  /\ owner' = owner \/ \E j \in Job : Register(j)
           /\ current' = current \/ \E a \in Agent : StartAgent(a)
<1> USE DEF runVars, attVars, reqVars, sessVars, recVars, thrVars, supVars
<1>1. ASSUME NEW j \in Job, ThreadStep(j)
      PROVE  current' = current /\ (owner' = owner \/ Register(j))
  BY <1>1 DEF ThreadStep, Start, RecordAttempt, AcquireLease, Register, Enqueue, GiveUp
<1>2. ASSUME NEW a \in Agent, AgentStep(a)
      PROVE  owner' = owner /\ (current' = current \/ StartAgent(a))
  BY <1>2
  DEF AgentStep, StartAgent, HeartbeatAgent, RefreshQueued, ScanExpired, ListStale, EndRecovery,
      RetireDeliveries, CountActive, NothingToClaim, CollectFutures, ReadRun, FailRunWithoutAttempt,
      ConsultWitness, ClaimRecovery, AbandonAttempt, ClaimNextRun
<1>3. ASSUME NEW v \in Supervisor, SupervisorStep(v)
      PROVE  owner' = owner /\ current' = current
  BY <1>3
  DEF SupervisorStep, SpawnChild, FailToSpawn, RecordStarted, ChildCollected, ChildTimesOut,
      WitnessExit, WitnessFailure, Finalize, ClaimRequest
<1>4. CASE \/ UNCHANGED vars \/ Tick
           \/ \E j \in Job : ChildExits(j)
           \/ \E a \in Agent : CrashAgent(a)
           \/ \E v \in Supervisor : \/ BeatSession(v) \/ BeatAttempt(v)
                                    \/ CrashSupervisor(v) \/ RestartSupervisor(v)
  BY <1>4 DEF vars, Tick, ChildExits, CrashAgent, BeatSession, BeatAttempt, CrashSupervisor,
              RestartSupervisor
<1> QED
  BY <1>1, <1>2, <1>3, <1>4 DEF Next

(* A registration is kept, *)
LEMMA OwnerKept ==
    ASSUME SupervisedInv, [Next]_vars, NEW j \in Job, owner[j] # NoAgent
    PROVE  owner'[j] = owner[j]
<1>1. ASSUME NEW i \in Job, Register(i) PROVE owner'[j] = owner[j]
  <2>1. owner[i] = NoAgent
    BY <1>1, InvParts DEF CoreInv, JobInv, ThreadInv, Register
  <2>2. owner' = owner \/ owner' = [owner EXCEPT ![i] = tagent[i]]
    BY <1>1 DEF Register
  <2> QED
    BY <2>1, <2>2, InvParts DEF TypeOK
<1> QED
  BY <1>1, SessionWrites

(* and a host's current session is replaced only by one that starts. *)
LEMMA CurrentMoves ==
    ASSUME [Next]_vars
    PROVE  \/ current' = current
           \/ \E a \in Agent : apc[a] = "off" /\ current' = [current EXCEPT ![HostOf(a)] = a]
  BY SessionWrites DEF StartAgent

(* The Attempts of a session that was replaced stay superseded, and none   *)
(* of them becomes SUCCEEDED any more (host_agent.py restart,              *)
(* finalize_attempt_and_run with an execution_owner).                      *)
THEOREM ReplacedSessionsAreFenced == Spec => SupersededNeverAccepted
<1>1. ASSUME SupervisedInv, [Next]_vars, NEW j \in Job, Superseded(j)
      PROVE  Superseded(j)' /\ (att'[j] = "SUCCEEDED" => att[j] = "SUCCEEDED")
  <2>1. /\ owner[j] \in Agent /\ owner[j] # NoAgent /\ apc[owner[j]] # "off"
        /\ current[HostOf(owner[j])] # owner[j]
        /\ current \in [Host -> Agent \cup {NoAgent}]
    BY <1>1, InvParts DEF Superseded, TypeOK, CoreInv, JobInv, RowInv
  <2>2. owner'[j] = owner[j]
    BY <1>1, <2>1, OwnerKept
  <2>3. current'[HostOf(owner[j])] # owner[j]
    BY <1>1, <2>1, CurrentMoves, HostsOfProcesses
  <2>4. Superseded(j)'
    BY <2>1, <2>2, <2>3 DEF Superseded
  <2>5. ~AcceptedFrom(j, owner[j])
    BY <2>1 DEF AcceptedFrom, SessionLive
  <2>6. att'[j] = "SUCCEEDED" => att[j] = "SUCCEEDED"
    BY <1>1, <2>5, StepMoves
    DEF Moved, Unmoved, Opened, Launched, Finished, Abandoned, Accepted
  <2> QED
    BY <2>4, <2>6
<1>2. SupervisedInv /\ [Next]_vars =>
        [\A j \in Job : Superseded(j) =>
            /\ Superseded(j)'
            /\ att'[j] = "SUCCEEDED" => att[j] = "SUCCEEDED"]_vars
  BY <1>1
<1> QED
  BY <1>2, Supervised, PTL DEF Spec, SupersededNeverAccepted
-----------------------------------------------------------------------------
(* Capacity: one Agent of a host that dispatches one job after another.    *)

Sequential == AgentsPerHost = 1 /\ Concurrency = 1 /\ IsFiniteSet(Job)

Deliveries(h) == {j \in Job : req[j] \in ActiveRequest /\ HostOf(owner[j]) = h}

(* The slot a thread will take is free from the count to the enqueue,      *)
(* because the Agent has no second thread.                                 *)
SlotKept(a) ==
    /\ \A i, j \in Futures(a) : i = j
    /\ apc[a] = "claim" => Futures(a) = {} /\ Room(a)
    /\ \A j \in Futures(a) : Done(j) \/ Room(a)

DispatchInv ==
    /\ \A j \in Job : owner[j] # NoAgent => owner[j] = tagent[j]
    /\ \A a \in Agent : SlotKept(a)
    /\ CapacityRespected

LEMMA DeliveriesFinite ==
    ASSUME Sequential, NEW h
    PROVE  /\ IsFiniteSet(Deliveries(h)) /\ IsFiniteSet(Deliveries(h)')
           /\ InFlight(h) = Cardinality(Deliveries(h)) /\ InFlight(h) \in Nat
           /\ InFlight(h)' = Cardinality(Deliveries(h)') /\ InFlight(h)' \in Nat
<1>1. IsFiniteSet(Deliveries(h)) /\ IsFiniteSet(Deliveries(h)')
  <2>1. Deliveries(h) \in SUBSET Job /\ Deliveries(h)' \in SUBSET Job
    BY DEF Deliveries
  <2> QED
    BY <2>1, FS_Subset DEF Sequential
<1> QED
  BY <1>1, FS_CardinalityType DEF InFlight, Deliveries

(* No delivery is added. *)
LEMMA FewerDeliveries ==
    ASSUME Sequential, NEW h, Deliveries(h)' \subseteq Deliveries(h)
    PROVE  InFlight(h)' <= InFlight(h)
  BY DeliveriesFinite, FS_Subset

(* Of two Agents each has a host of its own. *)
LEMMA OneAgentPerHost ==
    ASSUME Sequential, NEW a \in Agent, NEW b \in Agent, HostOf(a) = HostOf(b)
    PROVE  a = b
<1>1. Agent = Host \X {1}
  BY SMT DEF Agent, Sequential
<1> QED
  BY <1>1 DEF HostOf

(* Steps that add no delivery and no thread, and start a claim only after  *)
(* a count that found room.                                                *)
LEMMA QuietStep ==
    ASSUME Sequential, DispatchInv, SupervisedInv,
           \A j \in Job : req'[j] \in ActiveRequest => req[j] \in ActiveRequest,
           \A j \in Job : owner'[j] \in {owner[j], tagent[j]},
           \A j \in Job : owner[j] # NoAgent => owner'[j] = owner[j],
           tagent' = tagent,
           \A j \in Job : tpc'[j] # "none" => tpc[j] # "none",
           \A j \in Job : tpc[j] \in {"returned", "raised"} => tpc'[j] \in {tpc[j], "none"},
           \A a \in Agent : apc'[a] = "claim" => apc[a] = "claim" \/ (Futures(a) = {} /\ Room(a))
    PROVE  DispatchInv'
<1>1. \A h : Deliveries(h)' \subseteq Deliveries(h)
  BY DEF SupervisedInv, RowInv, Deliveries, ActiveRequest
<1>2. MaxInFlight \in Nat
  BY SupervisedBounds
<1>3. \A h : InFlight(h)' <= InFlight(h) /\ InFlight(h) \in Nat /\ InFlight(h)' \in Nat
  BY <1>1, FewerDeliveries, DeliveriesFinite
<1>4. \A a : Room(a) => Room(a)'
  BY <1>2, <1>3 DEF Room
<1>5. ASSUME NEW a \in Agent PROVE SlotKept(a)'
  <2>1. SlotKept(a) /\ Futures(a)' \subseteq Futures(a)
    BY DEF DispatchInv, Futures
  <2>2. ASSUME NEW j \in Futures(a)' PROVE Done(j)' \/ Room(a)'
    <3>1. j \in Futures(a) /\ tpc'[j] # "none" /\ j \in Job
      BY <2>1, <2>2 DEF Futures
    <3>2. Done(j) => Done(j)'
      BY <3>1 DEF Done
    <3> QED
      BY <1>4, <2>1, <3>1, <3>2 DEF SlotKept
  <2> QED
    BY <1>4, <2>1, <2>2 DEF SlotKept
<1>6. CapacityRespected'
  BY <1>2, <1>3 DEF DispatchInv, CapacityRespected
<1>7. \A j \in Job : owner'[j] # NoAgent => owner'[j] = tagent'[j]
  BY DEF DispatchInv
<1> QED
  BY <1>5, <1>6, <1>7 DEF DispatchInv

(* The request that a thread enqueues takes the slot that was kept for it. *)
LEMMA EnqueueKeepsCapacity ==
    ASSUME Sequential, DispatchInv, SupervisedInv, NEW j \in Job, Enqueue(j)
    PROVE  DispatchInv'
<1>1. /\ tpc[j] = "enqueue" /\ tpc' = [tpc EXCEPT ![j] = "returned"]
      /\ req' = [req EXCEPT ![j] = "QUEUED"]
      /\ owner' = owner /\ tagent' = tagent /\ apc' = apc
  BY DEF Enqueue, attVars
<1>2. PICK a \in Agent : a = tagent[j] /\ owner[j] = a /\ j \in Futures(a) /\ ~Done(j)
  BY <1>1 DEF SupervisedInv, ThreadInv, DispatchInv, Futures, Done
<1>3. SlotKept(a) /\ Room(a) /\ apc[a] # "claim" /\ Futures(a) = {j}
  BY <1>2 DEF DispatchInv, SlotKept
<1>4. MaxInFlight \in Nat /\ HostOf(a) \in Host
  BY <1>2, SupervisedBounds, HostsOfProcesses
<1>5. \A h : h # HostOf(a) => Deliveries(h)' \subseteq Deliveries(h)
  BY <1>1, <1>2 DEF Deliveries, SupervisedInv, TypeOK
<1>6. \A h : h # HostOf(a) => InFlight(h)' <= InFlight(h)
  BY <1>5, FewerDeliveries
<1>7. InFlight(HostOf(a))' <= MaxInFlight
  <2>1. Deliveries(HostOf(a))' \subseteq Deliveries(HostOf(a)) \cup {j}
    BY <1>1, <1>2 DEF Deliveries, SupervisedInv, TypeOK
  <2>2. /\ IsFiniteSet(Deliveries(HostOf(a)) \cup {j})
        /\ Cardinality(Deliveries(HostOf(a)) \cup {j}) <= InFlight(HostOf(a)) + 1
    <3>1. IsFiniteSet(Deliveries(HostOf(a))) /\ InFlight(HostOf(a)) = Cardinality(Deliveries(HostOf(a)))
      BY DeliveriesFinite
    <3>2. InFlight(HostOf(a)) \in Nat
      BY DeliveriesFinite
    <3>3. Cardinality(Deliveries(HostOf(a)) \cup {j}) \in {InFlight(HostOf(a)), InFlight(HostOf(a)) + 1}
      BY <3>1, FS_AddElement
    <3>4. IsFiniteSet(Deliveries(HostOf(a)) \cup {j})
      BY <3>1, FS_AddElement
    <3> QED
      BY <3>2, <3>3, <3>4
  <2>3. InFlight(HostOf(a))' <= Cardinality(Deliveries(HostOf(a)) \cup {j})
    BY <2>1, <2>2, DeliveriesFinite, FS_Subset
  <2>4. Cardinality(Deliveries(HostOf(a)) \cup {j}) \in Nat
    BY <2>2, FS_CardinalityType
  <2> QED
    BY <1>3, <1>4, <2>2, <2>3, <2>4, DeliveriesFinite DEF Room
<1>8. CapacityRespected'
  <2>1. ASSUME NEW h \in Host, h # HostOf(a) PROVE InFlight(h)' <= MaxInFlight
    <3>1. InFlight(h)' <= InFlight(h) /\ InFlight(h) <= MaxInFlight
      BY <1>6, <2>1 DEF DispatchInv, CapacityRespected
    <3>2. InFlight(h) \in Nat /\ InFlight(h)' \in Nat
      BY DeliveriesFinite
    <3> QED
      BY <1>4, <3>1, <3>2
  <2> QED
    BY <1>7, <2>1 DEF CapacityRespected
<1>9. ASSUME NEW b \in Agent PROVE Futures(b)' = Futures(b)
  BY <1>1 DEF Futures, SupervisedInv, TypeOK
<1>10. ASSUME NEW b \in Agent PROVE SlotKept(b)'
  <2>1. CASE b = a
    <3>1. Done(j)'
      BY <1>1 DEF Done, SupervisedInv, TypeOK
    <3> QED
      BY <1>1, <1>3, <1>9, <2>1, <3>1 DEF SlotKept
  <2>2. CASE b # a
    <3>1. HostOf(b) # HostOf(a)
      BY <1>2, <2>2, OneAgentPerHost
    <3>2. Room(b) => Room(b)'
      BY <1>4, <1>6, <3>1, DeliveriesFinite DEF Room
    <3>3. ASSUME NEW i \in Futures(b) PROVE Done(i)' = Done(i)
      BY <1>1, <1>2, <2>2, <3>3 DEF Futures, Done, SupervisedInv, TypeOK
    <3>4. SlotKept(b) /\ Futures(b)' = Futures(b) /\ apc'[b] = apc[b]
      BY <1>1, <1>9 DEF DispatchInv
    <3> QED
      BY <3>2, <3>3, <3>4 DEF SlotKept
  <2> QED
    BY <2>1, <2>2
<1> QED
  BY <1>1, <1>8, <1>10 DEF DispatchInv

(* A Run is claimed after a count that found room and no thread. *)
LEMMA ClaimKeepsCapacity ==
    ASSUME Sequential, DispatchInv, SupervisedInv, NEW a \in Agent, NEW j \in Job, ClaimNextRun(a, j)
    PROVE  DispatchInv'
<1>1. /\ apc[a] = "claim" /\ run[j] = "QUEUED"
      /\ tpc' = [tpc EXCEPT ![j] = "start"] /\ tagent' = [tagent EXCEPT ![j] = a]
      /\ apc' = [apc EXCEPT ![a] = "count"]
      /\ owner' = owner /\ req' = req
  BY DEF ClaimNextRun, Goto, attVars, reqVars
<1>2. owner[j] = NoAgent /\ tpc[j] = "none" /\ Futures(a) = {} /\ Room(a)
  BY <1>1 DEF SupervisedInv, ThreadInv, RowInv, DispatchInv, SlotKept
<1>3. \A h : Deliveries(h)' = Deliveries(h)
  BY <1>1 DEF Deliveries
<1>4. \A h : InFlight(h)' = InFlight(h)
  BY <1>3, DeliveriesFinite
<1>5. CapacityRespected' /\ \A b : Room(b)' = Room(b)
  BY <1>4 DEF DispatchInv, CapacityRespected, Room
<1>6. ASSUME NEW b \in Agent PROVE SlotKept(b)'
  <2>1. CASE b = a
    <3>1. Futures(a)' = {j} /\ apc'[a] = "count"
      BY <1>1, <1>2 DEF Futures, SupervisedInv, TypeOK
    <3> QED
      BY <1>2, <1>5, <2>1, <3>1 DEF SlotKept
  <2>2. CASE b # a
    <3>1. Futures(b)' = Futures(b) /\ j \notin Futures(b) /\ apc'[b] = apc[b]
      BY <1>1, <1>2, <2>2 DEF Futures, SupervisedInv, TypeOK
    <3>2. ASSUME NEW i \in Futures(b) PROVE Done(i)' = Done(i)
      BY <1>1, <3>1, <3>2 DEF Futures, Done, SupervisedInv, TypeOK
    <3>3. SlotKept(b)
      BY DEF DispatchInv
    <3> QED
      BY <1>5, <3>1, <3>2, <3>3 DEF SlotKept
  <2> QED
    BY <2>1, <2>2
<1>7. \A i \in Job : owner'[i] # NoAgent => owner'[i] = tagent'[i]
  BY <1>1, <1>2 DEF DispatchInv, SupervisedInv, TypeOK
<1> QED
  BY <1>5, <1>6, <1>7 DEF DispatchInv

(* With one thread the count that precedes a claim finds no future. *)
LEMMA CountFindsNone ==
    ASSUME Sequential, NEW a \in Agent, Cardinality(Futures(a)) < Concurrency
    PROVE  Futures(a) = {}
<1>1. IsFiniteSet(Futures(a))
  <2>1. Futures(a) \in SUBSET Job
    BY DEF Futures
  <2> QED
    BY <2>1, FS_Subset DEF Sequential
<1>2. Cardinality(Futures(a)) \in Nat
  BY <1>1, FS_CardinalityType
<1>3. Cardinality(Futures(a)) = 0
  BY <1>2 DEF Sequential
<1> QED
  BY <1>1, <1>3, FS_EmptySet

LEMMA ThreadKeepsCapacity ==
    ASSUME Sequential, DispatchInv, SupervisedInv, NEW i \in Job, ThreadStep(i)
    PROVE  DispatchInv'
<1> USE DEF runVars, attVars, reqVars, sessVars, recVars, thrVars, supVars
<1>1. CASE Enqueue(i)
  BY <1>1, EnqueueKeepsCapacity
<1>2. CASE ~Enqueue(i)
  <2>1. /\ req' = req /\ tagent' = tagent /\ apc' = apc
        /\ tpc[i] \notin {"none", "returned", "raised"} /\ \E s : tpc' = [tpc EXCEPT ![i] = s]
    BY <1>2 DEF ThreadStep, Start, RecordAttempt, AcquireLease, Register, GiveUp
  <2>2. \/ owner' = owner
        \/ owner[i] = NoAgent /\ owner' = [owner EXCEPT ![i] = tagent[i]]
    BY <1>2 DEF ThreadStep, Start, RecordAttempt, AcquireLease, Register, GiveUp, SupervisedInv,
                ThreadInv
  <2>3. tpc \in [Job -> {"none", "start", "record", "lease", "register", "enqueue",
                         "giveup", "returned", "raised"}]
        /\ owner \in [Job -> Agent \cup {NoAgent}]
    BY DEF SupervisedInv, TypeOK
  <2> HIDE DEF runVars, attVars, reqVars, sessVars, recVars, thrVars, supVars
  <2>4. \A j \in Job : /\ owner'[j] \in {owner[j], tagent[j]}
                       /\ owner[j] # NoAgent => owner'[j] = owner[j]
    BY <2>2, <2>3
  <2>5. \A j \in Job : /\ tpc'[j] # "none" => tpc[j] # "none"
                       /\ tpc[j] \in {"returned", "raised"} => tpc'[j] \in {tpc[j], "none"}
    BY <2>1, <2>3
  <2> QED
    BY <2>1, <2>4, <2>5, QuietStep
<1> QED
  BY <1>1, <1>2

LEMMA AgentKeepsCapacity ==
    ASSUME Sequential, DispatchInv, SupervisedInv, NEW a \in Agent, AgentStep(a) \/ CrashAgent(a)
    PROVE  DispatchInv'
<1> USE DEF runVars, attVars, reqVars, sessVars, recVars, thrVars, supVars
<1>1. CASE \E j \in Job : ClaimNextRun(a, j)
  BY <1>1, ClaimKeepsCapacity
<1>2. CASE ~\E j \in Job : ClaimNextRun(a, j)
  <2>1. owner' = owner /\ tagent' = tagent
    BY <1>2
    DEF AgentStep, CrashAgent, StartAgent, HeartbeatAgent, RefreshQueued, ScanExpired, ListStale,
        EndRecovery, RetireDeliveries, CountActive, NothingToClaim, CollectFutures, ReadRun,
        FailRunWithoutAttempt, ConsultWitness, ClaimRecovery, AbandonAttempt
  <2>2. \A j \in Job : req'[j] \in {req[j], "UNAVAILABLE"}
    BY <1>2
    DEF AgentStep, CrashAgent, StartAgent, HeartbeatAgent, RefreshQueued, ScanExpired, ListStale,
        EndRecovery, RetireDeliveries, CountActive, NothingToClaim, CollectFutures, ReadRun,
        FailRunWithoutAttempt, ConsultWitness, ClaimRecovery, AbandonAttempt, RetiredDelivery,
        SupervisedInv, TypeOK
  <2>3. tpc' = tpc \/ \E S : tpc' = Collected(S)
    BY <1>2
    DEF AgentStep, CrashAgent, StartAgent, HeartbeatAgent, RefreshQueued, ScanExpired, ListStale,
        EndRecovery, RetireDeliveries, CountActive, NothingToClaim, CollectFutures, ReadRun,
        FailRunWithoutAttempt, ConsultWitness, ClaimRecovery, AbandonAttempt
  <2>4. \/ apc' = apc
        \/ \E s \in {"beat", "refresh", "ended", "scan", "stale", "recover", "retire", "count", "wait"} :
             apc' = [apc EXCEPT ![a] = s]
        \/ /\ apc' = [apc EXCEPT ![a] = "claim"]
           /\ Room(a) /\ Cardinality(Futures(a)) < Concurrency
    BY <1>2
    DEF AgentStep, CrashAgent, StartAgent, HeartbeatAgent, RefreshQueued, ScanExpired, ListStale,
        EndRecovery, RetireDeliveries, CountActive, NothingToClaim, CollectFutures, ReadRun,
        FailRunWithoutAttempt, ConsultWitness, ClaimRecovery, AbandonAttempt, Goto
  <2> HIDE DEF runVars, attVars, reqVars, sessVars, recVars, thrVars, supVars
  <2>5. \A j \in Job : tpc'[j] \in {tpc[j], "none"}
    BY <2>3 DEF Collected
  <2>6. \A b \in Agent : apc'[b] = "claim" => apc[b] = "claim" \/ (Futures(b) = {} /\ Room(b))
    BY <2>4, CountFindsNone DEF SupervisedInv, TypeOK
  <2>7. \A j \in Job : req'[j] \in ActiveRequest => req[j] \in ActiveRequest
    BY <2>2 DEF ActiveRequest
  <2> QED
    BY <2>1, <2>5, <2>6, <2>7, QuietStep
<1> QED
  BY <1>1, <1>2

LEMMA StepKeepsCapacity ==
    ASSUME Sequential, DispatchInv, SupervisedInv, [Next]_vars
    PROVE  DispatchInv'
<1> USE DEF runVars, attVars, reqVars, sessVars, recVars, thrVars, supVars
<1>1. ASSUME UNCHANGED <<owner, tagent, tpc, apc>>,
             \A j \in Job : req'[j] \in ActiveRequest => req[j] \in ActiveRequest
      PROVE  DispatchInv'
  BY <1>1, QuietStep
<1>2. ASSUME NEW v \in Supervisor, SupervisorStep(v) PROVE DispatchInv'
  <2>1. UNCHANGED <<owner, tagent, tpc, apc>>
    BY <1>2
    DEF SupervisorStep, SpawnChild, FailToSpawn, RecordStarted, ChildCollected, ChildTimesOut,
        WitnessExit, WitnessFailure, Finalize, ClaimRequest
  <2>2. \/ req' = req
        \/ \E j : req[j] \in ActiveRequest /\ \E s : req' = [req EXCEPT ![j] = s]
    BY <1>2
    DEF SupervisorStep, SpawnChild, FailToSpawn, RecordStarted, ChildCollected, ChildTimesOut,
        WitnessExit, WitnessFailure, Finalize, ClaimRequest, Deliverable, RecordWitness, ActiveRequest
  <2> QED
    BY <1>1, <2>1, <2>2 DEF SupervisedInv, TypeOK
<1>3. CASE \/ UNCHANGED vars \/ Tick
           \/ \E j \in Job : ChildExits(j)
           \/ \E v \in Supervisor : \/ BeatSession(v) \/ BeatAttempt(v)
                                    \/ CrashSupervisor(v) \/ RestartSupervisor(v)
  <2>1. UNCHANGED <<owner, tagent, tpc, apc, req>>
    BY <1>3 DEF vars, Tick, ChildExits, BeatSession, BeatAttempt, CrashSupervisor, RestartSupervisor
  <2> QED
    BY <1>1, <2>1
<1> QED
  BY <1>2, <1>3, ThreadKeepsCapacity, AgentKeepsCapacity DEF Next

LEMMA InitDispatch ==
    ASSUME Sequential, Init
    PROVE  DispatchInv
<1>1. /\ \A a \in Agent : Futures(a) = {} /\ apc[a] # "claim"
      /\ \A j \in Job : owner[j] = NoAgent
  BY DEF Init, Futures
<1>2. ASSUME NEW h \in Host PROVE InFlight(h) <= MaxInFlight
  <2>1. Deliveries(h) = {}
    BY DEF Init, Deliveries, ActiveRequest
  <2>2. InFlight(h) = 0
    BY <2>1, DeliveriesFinite, FS_EmptySet
  <2> QED
    BY <2>2, SupervisedBounds
<1> QED
  BY <1>1, <1>2 DEF DispatchInv, SlotKept, CapacityRespected

(* A host whose single Agent dispatches one job after another never has    *)
(* more deliveries in flight than its capacity, for any number of jobs,    *)
(* Supervisors and crashes (worker.py drain); with several threads it may. *)
THEOREM SequentialDispatchRespectsCapacity ==
    ASSUME AgentsPerHost = 1, Concurrency = 1, IsFiniteSet(Job)
    PROVE  Spec => []CapacityRespected
<1>1. Sequential
  BY DEF Sequential
<1>2. Init => DispatchInv
  BY <1>1, InitDispatch
<1>3. DispatchInv /\ SupervisedInv /\ [Next]_vars => DispatchInv'
  BY <1>1, StepKeepsCapacity
<1>4. DispatchInv => CapacityRespected
  BY DEF DispatchInv
<1> QED
  BY <1>2, <1>3, <1>4, Supervised, PTL DEF Spec
=============================================================================
