------------------------ MODULE SupervisedExecution ------------------------
(***************************************************************************)
(* The supervised mode on PostgreSQL.  A Host Agent claims queued Runs,    *)
(* leases their Attempts in its session's name and enqueues an execution   *)
(* request for each; a Supervisor of the same host claims the request,     *)
(* runs the tool, witnesses its end and finalizes; an Agent's recovery     *)
(* pass closes what was lost: host_agent.py, worker.py,                    *)
(* execution_supervisor.py, JobService._execute up to its enqueue, and     *)
(* recover_stale_runs.  In this mode _execute returns after one Attempt,   *)
(* so a Run is identified with its Attempt and both with a job.            *)
(*                                                                         *)
(* An Agent is one operating-system process from start to end and thereby  *)
(* one session; a restarted Agent is another one of the same host.  Stored *)
(* deadlines are kept as in ExecutionOwnership.                            *)
(***************************************************************************)
EXTENDS Integers, FiniteSets

CONSTANTS
    Host,                \* host_id
    AgentsPerHost,       \* bound on the Agents a host starts, one after another or not
    SupervisorsPerHost,
    Job,
    NoAgent,             \* NULL in a column that names a session or a claim
    MaxInFlight,         \* JobService.max_in_flight
    Concurrency,         \* concurrency of drain
    LeaseTicks,          \* lease_seconds of attempts and sessions, age of a stale Run
    ClaimTicks,          \* recovery_lease_seconds
    MaxCrashes           \* bound on the crashes a behaviour contains

Agent == Host \X (1..AgentsPerHost)
Supervisor == Host \X (1..SupervisorsPerHost)
HostOf(p) == p[1]

ASSUME NullAssumption == NoAgent \notin Agent
ASSUME SupervisedBounds ==
    /\ {AgentsPerHost, SupervisorsPerHost, MaxInFlight, Concurrency,
        LeaseTicks, ClaimTicks} \subseteq Nat \ {0}
    /\ MaxCrashes \in Nat

VARIABLES
    \* the rows of each job: runs, attempts, execution_requests, execution_witnesses
    run, runLeft,        \* status; time until updated_at + lease_seconds
    att,                 \* status, "NONE" when there is no row
    leased, leaseLeft,   \* lease_token is set; lease_expires_at - now
    claim, claimLeft,    \* recovery_token, named by its drawer; recovery_expires_at - now
    owner,               \* execution_host_session
    req,                 \* status of the request, "NONE" when there is no row
    witness,             \* kind of the witness, "NONE" when there is no row
    \* the rows of hosts and sessions
    current,             \* current_session_id of a host
    sessLeft,            \* lease_expires_at - now of that session; no statement reads another's
    \* the operating system
    child,               \* the tool process of a job
    crashes,
    \* the Agents: their main thread, and one execution thread per claimed job
    apc,                 \* where drain is
    view,                \* what the recovery pass holds of each job
    expired,             \* list_expired_leased_attempts() of the pass
    tpc, tagent,         \* where the job's _execute is, and whose it is
    \* the Supervisors
    spc, sjob,           \* where run_once is, and the job of its request
    beat                 \* its heartbeat thread

runVars  == <<run, runLeft>>
attVars  == <<att, leased, leaseLeft, claim, claimLeft, owner>>
reqVars  == <<req, witness>>
sessVars == <<current, sessLeft>>
recVars  == <<view, expired>>
thrVars  == <<tpc, tagent>>
supVars  == <<spc, sjob, beat>>
vars == <<runVars, attVars, reqVars, sessVars, child, crashes,
          apc, recVars, thrVars, supVars>>

ActiveRequest == {"QUEUED", "CLAIMED", "RUNNING"}

TypeOK ==
    /\ run \in [Job -> {"QUEUED", "RUNNING", "SUCCEEDED", "FAILED"}]
    /\ runLeft \in [Job -> 0..LeaseTicks]
    /\ att \in [Job -> {"NONE", "RUNNING", "SUCCEEDED", "FAILED", "ABANDONED"}]
    /\ leased \in [Job -> BOOLEAN]
    /\ leaseLeft \in [Job -> -1..LeaseTicks]
    /\ claim \in [Job -> Agent \cup {NoAgent}]
    /\ claimLeft \in [Job -> -1..ClaimTicks]
    /\ owner \in [Job -> Agent \cup {NoAgent}]
    /\ req \in [Job -> {"NONE", "COMPLETED", "UNAVAILABLE"} \cup ActiveRequest]
    /\ witness \in [Job -> {"NONE", "PROCESS_EXITED", "RUNTIME_TERMINATED"}]
    /\ current \in [Host -> Agent \cup {NoAgent}]
    /\ sessLeft \in [Host -> -1..LeaseTicks]
    /\ child \in [Job -> {"none", "alive", "dead"}]
    /\ crashes \in 0..MaxCrashes
    /\ apc \in [Agent -> {"off", "beat", "refresh", "scan", "stale", "recover",
                          "retire", "count", "claim", "wait", "ended"}]
    /\ view \in [Agent -> [Job -> {"skip", "listed", "fail", "foreign", "claim", "held"}]]
    /\ expired \in [Agent -> SUBSET Job]
    /\ tpc \in [Job -> {"none", "start", "record", "lease", "register", "enqueue",
                        "giveup", "returned", "raised"}]
    /\ tagent \in [Job -> Agent \cup {NoAgent}]
    /\ spc \in [Supervisor -> {"idle", "spawn", "observe", "wait", "exit",
                               "finalize", "fail", "down"}]
    /\ sjob \in [Supervisor -> Job]
    /\ beat \in [Supervisor -> {"off", "session", "attempt"}]

Init ==
    /\ run = [j \in Job |-> "QUEUED"]
    /\ runLeft = [j \in Job |-> LeaseTicks]
    /\ att = [j \in Job |-> "NONE"]
    /\ leased = [j \in Job |-> FALSE]
    /\ leaseLeft = [j \in Job |-> -1]
    /\ claim = [j \in Job |-> NoAgent]
    /\ claimLeft = [j \in Job |-> -1]
    /\ owner = [j \in Job |-> NoAgent]
    /\ req = [j \in Job |-> "NONE"]
    /\ witness = [j \in Job |-> "NONE"]
    /\ current = [h \in Host |-> NoAgent]
    /\ sessLeft = [h \in Host |-> -1]
    /\ child = [j \in Job |-> "none"]
    /\ crashes = 0
    /\ apc = [a \in Agent |-> "off"]
    /\ view = [a \in Agent |-> [j \in Job |-> "skip"]]
    /\ expired = [a \in Agent |-> {}]
    /\ tpc = [j \in Job |-> "none"]
    /\ tagent = [j \in Job |-> NoAgent]
    /\ spc = [v \in Supervisor |-> "idle"]
    /\ sjob \in [Supervisor -> Job]
    /\ \A v, w \in Supervisor : sjob[v] = sjob[w]
    /\ beat = [v \in Supervisor |-> "off"]

-----------------------------------------------------------------------------
(* The conditions and updates of the statements.  "Faulty:" as in          *)
(* ExecutionOwnership: a variant no step uses.                             *)

(* The session is its host's current one and its lease has not expired. *)
SessionLive(a) == current[HostOf(a)] = a /\ sessLeft[HostOf(a)] >= 0

LeaseHeld(j) == att[j] = "RUNNING" /\ leased[j] /\ leaseLeft[j] >= 0
LeaseExpired(j) == att[j] = "RUNNING" /\ leased[j] /\ leaseLeft[j] < 0
NoLiveClaim(j) == claim[j] = NoAgent \/ claimLeft[j] < 0

(* Faulty: a completion is accepted from a session that was replaced. *)
AcceptedFromAnySession(j, a) == LeaseHeld(j) /\ NoLiveClaim(j) /\ owner[j] = a

(* What finalize_attempt_and_run requires with an execution_owner. *)
AcceptedFrom(j, a) ==
    /\ LeaseHeld(j)
    /\ NoLiveClaim(j)
    /\ owner[j] = a
    /\ SessionLive(a)

(* Faulty: the two statuses are exchanged. *)
CloseBothSwapped(j, v, r) ==
    /\ att' = [att EXCEPT ![j] = r]
    /\ run' = [run EXCEPT ![j] = IF run[j] = "RUNNING" THEN v ELSE run[j]]
    /\ runLeft' = [runLeft EXCEPT ![j] = LeaseTicks]

(* Both rows are closed, or the Attempt's alone when the Run is not RUNNING. *)
CloseBoth(j, v, r) ==
    /\ att' = [att EXCEPT ![j] = v]
    /\ IF run[j] = "RUNNING"
       THEN /\ run' = [run EXCEPT ![j] = r]
            /\ runLeft' = [runLeft EXCEPT ![j] = LeaseTicks]
       ELSE UNCHANGED runVars

(* count_active_execution_requests *)
InFlight(h) == Cardinality({j \in Job : req[j] \in ActiveRequest /\ HostOf(owner[j]) = h})

-----------------------------------------------------------------------------
(* An execution thread: _execute of a claimed job until its enqueue. *)

Start(j) ==
    /\ tpc[j] = "start"
    /\ run' = [run EXCEPT ![j] = "RUNNING"]
    /\ runLeft' = [runLeft EXCEPT ![j] = LeaseTicks]
    /\ tpc' = [tpc EXCEPT ![j] = "record"]
    /\ UNCHANGED <<attVars, reqVars, sessVars, child, crashes, apc, recVars, tagent, supVars>>

RecordAttempt(j) ==
    /\ tpc[j] = "record"
    /\ att' = [att EXCEPT ![j] = "RUNNING"]
    /\ tpc' = [tpc EXCEPT ![j] = "lease"]
    /\ UNCHANGED <<runVars, leased, leaseLeft, claim, claimLeft, owner, reqVars,
                   sessVars, child, crashes, apc, recVars, tagent, supVars>>

AcquireLease(j) ==
    /\ tpc[j] = "lease"
    /\ IF att[j] = "RUNNING" /\ (leased[j] => leaseLeft[j] < 0)
       THEN /\ leased' = [leased EXCEPT ![j] = TRUE]
            /\ leaseLeft' = [leaseLeft EXCEPT ![j] = LeaseTicks]
            /\ tpc' = [tpc EXCEPT ![j] = "register"]
       ELSE /\ tpc' = [tpc EXCEPT ![j] = "giveup"]
            /\ UNCHANGED <<leased, leaseLeft>>
    /\ UNCHANGED <<runVars, att, claim, claimLeft, owner, reqVars, sessVars,
                   child, crashes, apc, recVars, tagent, supVars>>

(* record_attempt_execution, which does not look at the lease's deadline. *)
Register(j) ==
    LET a == tagent[j] IN
    /\ tpc[j] = "register"
    /\ IF att[j] = "RUNNING" /\ leased[j] /\ SessionLive(a)
       THEN /\ owner' = [owner EXCEPT ![j] = a]
            /\ tpc' = [tpc EXCEPT ![j] = "enqueue"]
       ELSE /\ tpc' = [tpc EXCEPT ![j] = "giveup"]
            /\ UNCHANGED owner
    /\ UNCHANGED <<runVars, att, leased, leaseLeft, claim, claimLeft, reqVars,
                   sessVars, child, crashes, apc, recVars, tagent, supVars>>

(* enqueue_execution_request under a fresh execution_id, and return. *)
Enqueue(j) ==
    /\ tpc[j] = "enqueue"
    /\ req' = [req EXCEPT ![j] = "QUEUED"]
    /\ tpc' = [tpc EXCEPT ![j] = "returned"]
    /\ UNCHANGED <<runVars, attVars, witness, sessVars, child, crashes,
                   apc, recVars, tagent, supVars>>

(* The last handler of _execute; its own refusal leaves the thread. *)
GiveUp(j) ==
    LET accepted == AcceptedFrom(j, tagent[j]) IN
    /\ tpc[j] = "giveup"
    /\ IF accepted
       THEN CloseBoth(j, "FAILED", "FAILED")
       ELSE UNCHANGED <<att, runVars>>
    /\ tpc' = [tpc EXCEPT ![j] =
                 IF accepted /\ run[j] = "RUNNING" THEN "returned" ELSE "raised"]
    /\ UNCHANGED <<leased, leaseLeft, claim, claimLeft, owner, reqVars, sessVars,
                   child, crashes, apc, recVars, tagent, supVars>>

ThreadStep(j) ==
    \/ Start(j) \/ RecordAttempt(j) \/ AcquireLease(j)
    \/ Register(j) \/ Enqueue(j) \/ GiveUp(j)

-----------------------------------------------------------------------------
(* The main thread of an Agent: heartbeat, recovery, dispatch.  Recovery   *)
(* runs while none of the Agent's futures is open, so that skipped_live    *)
(* never applies.                                                          *)

Goto(a, step) == apc' = [apc EXCEPT ![a] = step]

(* start_host_session.  Agents of a host are numbered as they start. *)
StartAgent(a) ==
    /\ apc[a] = "off"
    /\ \A n \in 1..AgentsPerHost : n < a[2] => apc[<<a[1], n>>] # "off"
    /\ current' = [current EXCEPT ![HostOf(a)] = a]
    /\ sessLeft' = [sessLeft EXCEPT ![HostOf(a)] = LeaseTicks]
    /\ Goto(a, "beat")
    /\ UNCHANGED <<runVars, attVars, reqVars, child, crashes, recVars, thrVars, supVars>>

(* heartbeat_host_session asks only whether the session is current; drain  *)
(* of a replaced one raises.                                               *)
HeartbeatAgent(a) ==
    /\ apc[a] = "beat"
    /\ IF current[HostOf(a)] = a
       THEN /\ sessLeft' = [sessLeft EXCEPT ![HostOf(a)] = LeaseTicks]
            /\ Goto(a, "refresh")
       ELSE /\ Goto(a, "ended")
            /\ UNCHANGED sessLeft
    /\ UNCHANGED <<runVars, attVars, reqVars, current, child, crashes,
                   recVars, thrVars, supVars>>

(* Faulty: every open delivery is refreshed, claimed ones too. *)
RefreshAll(a) ==
    {j \in Job : att[j] = "RUNNING" /\ owner[j] = a /\ SessionLive(a)
                 /\ req[j] \in ActiveRequest}

(* The attempts heartbeat_queued_execution_attempts renews, expired or not. *)
Refreshed(a) ==
    {j \in Job : att[j] = "RUNNING" /\ owner[j] = a /\ SessionLive(a)
                 /\ req[j] = "QUEUED"}

RefreshQueued(a) ==
    /\ apc[a] = "refresh"
    /\ leaseLeft' = [j \in Job |-> IF j \in Refreshed(a) THEN LeaseTicks ELSE leaseLeft[j]]
    /\ Goto(a, "scan")
    /\ UNCHANGED <<runVars, att, leased, claim, claimLeft, owner, reqVars, sessVars,
                   child, crashes, recVars, thrVars, supVars>>

ScanExpired(a) ==
    /\ apc[a] = "scan"
    /\ expired' = [expired EXCEPT ![a] = {j \in Job : LeaseExpired(j)}]
    /\ Goto(a, "stale")
    /\ UNCHANGED <<runVars, attVars, reqVars, sessVars, child, crashes, view, thrVars, supVars>>

(* The first query of list_stale_running. *)
ListStale(a) ==
    /\ apc[a] = "stale"
    /\ view' = [view EXCEPT ![a] =
                  [j \in Job |-> IF run[j] = "RUNNING" /\ runLeft[j] = 0
                                 THEN "listed" ELSE "skip"]]
    /\ Goto(a, "recover")
    /\ UNCHANGED <<runVars, attVars, reqVars, sessVars, child, crashes,
                   expired, thrVars, supVars>>

(* How recover_stale_runs will treat the rows get_run returned now. *)
Treatment(a, j) ==
    IF att[j] = "NONE" THEN "fail"
    ELSE IF leased[j] /\ j \notin expired[a] THEN "skip"
    ELSE IF owner[j] \notin {NoAgent, a} THEN "foreign"
    ELSE "claim"

Look(a, j, v) == view' = [view EXCEPT ![a][j] = v]

(* list_stale_running reads every listed Run before the first is treated. *)
ReadRun(a, j) ==
    /\ apc[a] = "recover"
    /\ view[a][j] = "listed"
    /\ Look(a, j, Treatment(a, j))
    /\ UNCHANGED <<runVars, attVars, reqVars, sessVars, child, crashes,
                   apc, expired, thrVars, supVars>>

(* The Runs are treated one by one. *)
Turn(a, j) ==
    /\ apc[a] = "recover"
    /\ \A i \in Job : view[a][i] # "listed" /\ (i # j => view[a][i] # "held")

FailRunWithoutAttempt(a, j) ==
    /\ Turn(a, j)
    /\ view[a][j] = "fail"
    /\ run' = [run EXCEPT ![j] = "FAILED"]
    /\ runLeft' = [runLeft EXCEPT ![j] = LeaseTicks]
    /\ Look(a, j, "skip")
    /\ UNCHANGED <<attVars, reqVars, sessVars, child, crashes, apc, expired, thrVars, supVars>>

(* Another session's Attempt is deferred unless its end was witnessed. *)
ConsultWitness(a, j) ==
    /\ Turn(a, j)
    /\ view[a][j] = "foreign"
    /\ Look(a, j, IF witness[j] = "NONE" THEN "skip" ELSE "claim")
    /\ UNCHANGED <<runVars, attVars, reqVars, sessVars, child, crashes,
                   apc, expired, thrVars, supVars>>

ClaimRecovery(a, j) ==
    /\ Turn(a, j)
    /\ view[a][j] = "claim"
    /\ IF LeaseExpired(j) /\ NoLiveClaim(j)
       THEN /\ claim' = [claim EXCEPT ![j] = a]
            /\ claimLeft' = [claimLeft EXCEPT ![j] = ClaimTicks]
            /\ Look(a, j, "held")
       ELSE /\ Look(a, j, "skip")
            /\ UNCHANGED <<claim, claimLeft>>
    /\ UNCHANGED <<runVars, att, leased, leaseLeft, owner, reqVars, sessVars,
                   child, crashes, apc, expired, thrVars, supVars>>

(* The delivery is retired in the transaction that closes both rows. *)
RetiredDelivery(j) ==
    IF run[j] = "RUNNING" /\ req[j] \in ActiveRequest
    THEN [req EXCEPT ![j] = "UNAVAILABLE"] ELSE req

(* Faulty: the claim is enough, whatever became of the Attempt. *)
RecoveryFenceOfClaim(a, j) == claim[j] = a

(* What finalize_recovery requires; the claim's deadline is not looked at. *)
RecoveryFence(a, j) == att[j] = "RUNNING" /\ claim[j] = a

(* finalize_recovery; a supervised Attempt has no process_pid to look at. *)
AbandonAttempt(a, j) ==
    /\ Turn(a, j)
    /\ view[a][j] = "held"
    /\ Look(a, j, "skip")
    /\ IF RecoveryFence(a, j)
       THEN /\ CloseBoth(j, "ABANDONED", "FAILED")
            /\ req' = RetiredDelivery(j)
       ELSE UNCHANGED <<att, runVars, req>>
    /\ UNCHANGED <<leased, leaseLeft, claim, claimLeft, owner, witness, sessVars,
                   child, crashes, apc, expired, thrVars, supVars>>

EndRecovery(a) ==
    /\ apc[a] = "recover"
    /\ \A j \in Job : view[a][j] = "skip"
    /\ expired' = [expired EXCEPT ![a] = {}]
    /\ Goto(a, "retire")
    /\ UNCHANGED <<runVars, attVars, reqVars, sessVars, child, crashes,
                   view, thrVars, supVars>>

(* release_terminal_execution_requests *)
RetireDeliveries(a) ==
    /\ apc[a] = "retire"
    /\ req' = [j \in Job |->
                 IF req[j] \in ActiveRequest /\ att[j] = "ABANDONED" /\ witness[j] = "NONE"
                 THEN "UNAVAILABLE" ELSE req[j]]
    /\ Goto(a, "count")
    /\ UNCHANGED <<runVars, attVars, witness, sessVars, child, crashes,
                   recVars, thrVars, supVars>>

(* The futures in drain's "active", done or not. *)
Futures(a) == {j \in Job : tagent[j] = a /\ tpc[j] # "none"}
Done(j) == tpc[j] \in {"returned", "raised"}
Collected(S) == [j \in Job |-> IF j \in S THEN "none" ELSE tpc[j]]

(* Faulty: the count is compared one too late. *)
RoomForOneMore(a) == InFlight(HostOf(a)) <= MaxInFlight

Room(a) == InFlight(HostOf(a)) < MaxInFlight

(* One turn of the dispatch loop before its claim: stop at the capacity,   *)
(* or wait for a future to end when all slots are taken.                   *)
CountActive(a) ==
    LET finished == {j \in Futures(a) : Done(j)} IN
    /\ apc[a] = "count"
    /\ \/ ~Room(a) /\ Goto(a, "wait") /\ UNCHANGED tpc
       \/ Room(a) /\ Cardinality(Futures(a)) < Concurrency /\ Goto(a, "claim") /\ UNCHANGED tpc
       \/ /\ Room(a) /\ Cardinality(Futures(a)) >= Concurrency
          /\ finished # {}
          /\ tpc' = Collected(finished)
          /\ UNCHANGED apc
    /\ UNCHANGED <<runVars, attVars, reqVars, sessVars, child, crashes,
                   recVars, tagent, supVars>>

(* claim_next_run, and the job's thread. *)
ClaimNextRun(a, j) ==
    /\ apc[a] = "claim"
    /\ run[j] = "QUEUED"
    /\ run' = [run EXCEPT ![j] = "RUNNING"]
    /\ runLeft' = [runLeft EXCEPT ![j] = LeaseTicks]
    /\ tpc' = [tpc EXCEPT ![j] = "start"]
    /\ tagent' = [tagent EXCEPT ![j] = a]
    /\ Goto(a, "count")
    /\ UNCHANGED <<attVars, reqVars, sessVars, child, crashes, recVars, supVars>>

NothingToClaim(a) ==
    /\ apc[a] = "claim"
    /\ \A j \in Job : run[j] # "QUEUED"
    /\ Goto(a, "wait")
    /\ UNCHANGED <<runVars, attVars, reqVars, sessVars, child, crashes,
                   recVars, thrVars, supVars>>

(* drain waits for its futures; the exception of one ends the process. *)
CollectFutures(a) ==
    /\ apc[a] = "wait"
    /\ \/ /\ \A j \in Futures(a) : tpc[j] = "returned"
          /\ tpc' = Collected(Futures(a))
          /\ Goto(a, "beat")
       \/ /\ \E j \in Futures(a) : tpc[j] = "raised"
          /\ Goto(a, "ended")
          /\ UNCHANGED tpc
    /\ UNCHANGED <<runVars, attVars, reqVars, sessVars, child, crashes,
                   recVars, tagent, supVars>>

AgentStep(a) ==
    \/ StartAgent(a) \/ HeartbeatAgent(a) \/ RefreshQueued(a)
    \/ ScanExpired(a) \/ ListStale(a) \/ EndRecovery(a)
    \/ RetireDeliveries(a) \/ CountActive(a) \/ NothingToClaim(a) \/ CollectFutures(a)
    \/ \E j \in Job : \/ ReadRun(a, j) \/ FailRunWithoutAttempt(a, j)
                      \/ ConsultWitness(a, j) \/ ClaimRecovery(a, j)
                      \/ AbandonAttempt(a, j) \/ ClaimNextRun(a, j)

-----------------------------------------------------------------------------
(* A Supervisor: run_once and its heartbeat thread. *)

SupGoto(v, step) == spc' = [spc EXCEPT ![v] = step]

(* Faulty: a request another Supervisor holds is delivered again. *)
DeliverableAgain(v, j) == req[j] \in {"QUEUED", "CLAIMED"} /\ HostOf(owner[j]) = HostOf(v)

Deliverable(v, j) == req[j] = "QUEUED" /\ HostOf(owner[j]) = HostOf(v)

(* claim_execution_request *)
ClaimRequest(v, j) ==
    /\ spc[v] = "idle"
    /\ Deliverable(v, j)
    /\ req' = [req EXCEPT ![j] = "CLAIMED"]
    /\ sjob' = [sjob EXCEPT ![v] = j]
    /\ beat' = [beat EXCEPT ![v] = "session"]
    /\ SupGoto(v, "spawn")
    /\ UNCHANGED <<runVars, attVars, witness, sessVars, child, crashes, apc, recVars, thrVars>>

SpawnChild(v) ==
    /\ spc[v] = "spawn"
    /\ child' = [child EXCEPT ![sjob[v]] = "alive"]
    /\ SupGoto(v, "observe")
    /\ UNCHANGED <<runVars, attVars, reqVars, sessVars, crashes, apc, recVars, thrVars,
                   sjob, beat>>

FailToSpawn(v) ==
    /\ spc[v] = "spawn"
    /\ SupGoto(v, "fail")
    /\ UNCHANGED <<runVars, attVars, reqVars, sessVars, child, crashes, apc, recVars,
                   thrVars, sjob, beat>>

(* The observer raises when the request is no longer CLAIMED; the adapter  *)
(* has no handler for that and leaves the child as it is.                  *)
RecordStarted(v) ==
    LET j == sjob[v] IN
    /\ spc[v] = "observe"
    /\ IF req[j] = "CLAIMED"
       THEN /\ req' = [req EXCEPT ![j] = "RUNNING"]
            /\ SupGoto(v, "wait")
       ELSE /\ SupGoto(v, "fail")
            /\ UNCHANGED req
    /\ UNCHANGED <<runVars, attVars, witness, sessVars, child, crashes, apc, recVars,
                   thrVars, sjob, beat>>

ChildCollected(v) ==
    /\ spc[v] = "wait"
    /\ child[sjob[v]] = "dead"
    /\ SupGoto(v, "exit")
    /\ UNCHANGED <<runVars, attVars, reqVars, sessVars, child, crashes, apc, recVars,
                   thrVars, sjob, beat>>

ChildTimesOut(v) ==
    /\ spc[v] = "wait"
    /\ child[sjob[v]] = "alive"
    /\ child' = [child EXCEPT ![sjob[v]] = "dead"]
    /\ SupGoto(v, "fail")
    /\ UNCHANGED <<runVars, attVars, reqVars, sessVars, crashes, apc, recVars,
                   thrVars, sjob, beat>>

(* Faulty: the request is not completed with its witness. *)
RecordWitnessAlone(j, kind) ==
    /\ witness' = [witness EXCEPT ![j] = IF witness[j] = "NONE" THEN kind ELSE witness[j]]
    /\ UNCHANGED req

(* record_termination_witness *)
RecordWitness(j, kind) ==
    IF witness[j] = "NONE"
    THEN /\ witness' = [witness EXCEPT ![j] = kind]
         /\ req' = IF req[j] \in {"CLAIMED", "RUNNING"}
                   THEN [req EXCEPT ![j] = "COMPLETED"] ELSE req
    ELSE UNCHANGED reqVars

WitnessExit(v) ==
    /\ spc[v] = "exit"
    /\ RecordWitness(sjob[v], "PROCESS_EXITED")
    /\ SupGoto(v, "finalize")
    /\ UNCHANGED <<runVars, attVars, sessVars, child, crashes, apc, recVars, thrVars,
                   sjob, beat>>

(* The adapter's exception is witnessed and ends the process. *)
WitnessFailure(v) ==
    /\ spc[v] = "fail"
    /\ RecordWitness(sjob[v], "RUNTIME_TERMINATED")
    /\ SupGoto(v, "down")
    /\ beat' = [beat EXCEPT ![v] = "off"]
    /\ UNCHANGED <<runVars, attVars, sessVars, child, crashes, apc, recVars, thrVars, sjob>>

(* The report is valid and the exit code zero, or not; a refused           *)
(* finalization raises, which ends the process.                            *)
Finalize(v) ==
    LET j == sjob[v]
        accepted == AcceptedFrom(j, owner[j])
    IN
    /\ spc[v] = "finalize"
    /\ IF accepted
       THEN \E verdict \in {"SUCCEEDED", "FAILED"} : CloseBoth(j, verdict, verdict)
       ELSE UNCHANGED <<att, runVars>>
    /\ SupGoto(v, IF accepted /\ run[j] = "RUNNING" THEN "idle" ELSE "down")
    /\ beat' = [beat EXCEPT ![v] = "off"]
    /\ UNCHANGED <<leased, leaseLeft, claim, claimLeft, owner, reqVars, sessVars,
                   child, crashes, apc, recVars, thrVars, sjob>>

(* A turn of _heartbeat_loop: the session in whose name the Attempt runs,  *)
(* then the Attempt.                                                       *)
BeatSession(v) ==
    LET a == owner[sjob[v]] IN
    /\ beat[v] = "session"
    /\ IF current[HostOf(a)] = a
       THEN /\ sessLeft' = [sessLeft EXCEPT ![HostOf(a)] = LeaseTicks]
            /\ beat' = [beat EXCEPT ![v] = "attempt"]
       ELSE /\ beat' = [beat EXCEPT ![v] = "off"]
            /\ UNCHANGED sessLeft
    /\ UNCHANGED <<runVars, attVars, reqVars, current, child, crashes, apc, recVars,
                   thrVars, spc, sjob>>

BeatAttempt(v) ==
    LET j == sjob[v] IN
    /\ beat[v] = "attempt"
    /\ IF LeaseHeld(j)
       THEN /\ leaseLeft' = [leaseLeft EXCEPT ![j] = LeaseTicks]
            /\ beat' = [beat EXCEPT ![v] = "session"]
       ELSE /\ beat' = [beat EXCEPT ![v] = "off"]
            /\ UNCHANGED leaseLeft
    /\ UNCHANGED <<runVars, att, leased, claim, claimLeft, owner, reqVars, sessVars,
                   child, crashes, apc, recVars, thrVars, spc, sjob>>

SupervisorStep(v) ==
    \/ SpawnChild(v) \/ FailToSpawn(v) \/ RecordStarted(v)
    \/ ChildCollected(v) \/ ChildTimesOut(v)
    \/ WitnessExit(v) \/ WitnessFailure(v) \/ Finalize(v)
    \/ \E j \in Job : ClaimRequest(v, j)

-----------------------------------------------------------------------------
(* The environment. *)

ChildExits(j) ==
    /\ child[j] = "alive"
    /\ child' = [child EXCEPT ![j] = "dead"]
    /\ UNCHANGED <<runVars, attVars, reqVars, sessVars, crashes, apc, recVars, thrVars, supVars>>

(* An Agent is killed with its threads. *)
CrashAgent(a) ==
    /\ apc[a] # "off"
    /\ apc[a] # "ended" \/ \E j \in Futures(a) : ~Done(j)
    /\ crashes < MaxCrashes
    /\ crashes' = crashes + 1
    /\ Goto(a, "ended")
    /\ tpc' = Collected(Futures(a))
    /\ view' = [view EXCEPT ![a] = [j \in Job |-> "skip"]]
    /\ expired' = [expired EXCEPT ![a] = {}]
    /\ UNCHANGED <<runVars, attVars, reqVars, sessVars, child, tagent, supVars>>

(* A Supervisor is killed; the tool runs on in its own session. *)
CrashSupervisor(v) ==
    /\ spc[v] # "down"
    /\ crashes < MaxCrashes
    /\ crashes' = crashes + 1
    /\ SupGoto(v, "down")
    /\ beat' = [beat EXCEPT ![v] = "off"]
    /\ UNCHANGED <<runVars, attVars, reqVars, sessVars, child, apc, recVars, thrVars, sjob>>

RestartSupervisor(v) ==
    /\ spc[v] = "down"
    /\ SupGoto(v, "idle")
    /\ UNCHANGED <<runVars, attVars, reqVars, sessVars, child, crashes, apc, recVars,
                   thrVars, sjob, beat>>

Less(t, floor) == IF t > floor THEN t - 1 ELSE floor

(* One more unit of time.  The deadlines of a closed row are read by no    *)
(* condition and stand still.                                              *)
Tick ==
    LET runsOn(j) == run[j] = "RUNNING"
        open(j) == att[j] = "RUNNING"
    IN
    /\ \/ \E j \in Job : \/ runsOn(j) /\ runLeft[j] > 0
                         \/ open(j) /\ (leaseLeft[j] > -1 \/ claimLeft[j] > -1)
       \/ \E h \in Host : sessLeft[h] > -1
    /\ runLeft' = [j \in Job |-> IF runsOn(j) THEN Less(runLeft[j], 0) ELSE runLeft[j]]
    /\ leaseLeft' = [j \in Job |-> IF open(j) THEN Less(leaseLeft[j], -1) ELSE leaseLeft[j]]
    /\ claimLeft' = [j \in Job |-> IF open(j) THEN Less(claimLeft[j], -1) ELSE claimLeft[j]]
    /\ sessLeft' = [h \in Host |-> Less(sessLeft[h], -1)]
    /\ UNCHANGED <<run, att, leased, claim, owner, reqVars, current, child, crashes,
                   apc, recVars, thrVars, supVars>>

Next ==
    \/ \E j \in Job : ThreadStep(j) \/ ChildExits(j)
    \/ \E a \in Agent : AgentStep(a) \/ CrashAgent(a)
    \/ \E v \in Supervisor : \/ SupervisorStep(v)
                             \/ BeatSession(v) \/ BeatAttempt(v)
                             \/ CrashSupervisor(v) \/ RestartSupervisor(v)
    \/ Tick

Spec == Init /\ [][Next]_vars

(* Threads and processes are scheduled, time passes, a process that ended  *)
(* is started again, a host's Agents as long as the bound lasts.  A tool   *)
(* that hangs meets the adapter's timeout.  No heartbeat of a Supervisor   *)
(* is assumed to arrive, and nothing crashes of necessity.                 *)
Fairness ==
    /\ \A j \in Job : WF_vars(ThreadStep(j))
    /\ \A a \in Agent : WF_vars(AgentStep(a))
    /\ \A v \in Supervisor : WF_vars(SupervisorStep(v)) /\ WF_vars(RestartSupervisor(v))
    /\ WF_vars(Tick)

FairSpec == Spec /\ Fairness

-----------------------------------------------------------------------------
(* Properties. *)

(* A Run reads SUCCEEDED only when its tool was collected, its exit was    *)
(* witnessed and its delivery completed: neither a lost Supervisor nor a   *)
(* recovery that came late lets a success be inferred.                     *)
AcceptedIsWitnessed ==
    \A j \in Job : run[j] = "SUCCEEDED" =>
        /\ att[j] = "SUCCEEDED"
        /\ witness[j] = "PROCESS_EXITED"
        /\ req[j] = "COMPLETED"
        /\ child[j] = "dead"

(* The states of a delivery keep the meanings the recovery relies on:      *)
(* COMPLETED needs a witness, UNAVAILABLE an abandoned Attempt, and a slot *)
(* of the host is held only by an Attempt that nobody accepted.            *)
DeliveryAgrees(j) ==
    /\ req[j] = "COMPLETED" => witness[j] # "NONE"
    /\ req[j] = "UNAVAILABLE" => att[j] = "ABANDONED"
    /\ req[j] \in ActiveRequest => att[j] \in {"RUNNING", "ABANDONED"}

DeliveriesAgree == \A j \in Job : DeliveryAgrees(j)

(* What the ledger sees of a job's tool. *)
Execution(j) ==
    IF child[j] = "none" THEN "idle" ELSE IF child[j] = "alive" THEN "live" ELSE "ended"

(* The single Attempt of each job, as a ledger of one entry: the tool is   *)
(* started at most once whatever Supervisors crash and restart, a verdict  *)
(* is final, and success needs an execution that ended.                    *)
Ledger(j) == INSTANCE AttemptLedger
               WITH Attempt <- {1},
                    ledger <- [n \in {1} |-> att[j]],
                    execution <- [n \in {1} |-> Execution(j)]

ImplementsLedgers ==
    /\ \A j \in Job : Ledger(j)!Init
    /\ [][\A j \in Job : [Ledger(j)!Next]_<<att[j], child[j]>>]_vars

Superseded(j) == owner[j] # NoAgent /\ current[HostOf(owner[j])] # owner[j]

(* Once a newer session of the host is current the Attempts of the old one *)
(* stay superseded and never become SUCCEEDED, although their Supervisor   *)
(* lives, heartbeats and finalizes in the old session's name.              *)
SupersededNeverAccepted ==
    [][\A j \in Job : Superseded(j) =>
          /\ Superseded(j)'
          /\ att'[j] = "SUCCEEDED" => att[j] = "SUCCEEDED"]_vars

(* A host never has more deliveries in flight than its capacity. *)
CapacityRespected == \A h \in Host : InFlight(h) <= MaxInFlight

(* An Attempt of another session is closed only on the evidence of a       *)
(* witness that its tool has ended.                                        *)
ForeignNeedsWitness ==
    [][\A j \in Job :
          att[j] = "RUNNING" /\ att'[j] = "ABANDONED"
              /\ owner[j] \notin {NoAgent, claim[j]}
                  => witness[j] # "NONE"]_vars

(* The Run was closed without its Attempt: a pass that read it before the  *)
(* Attempt was recorded has written FAILED without a fence since.          *)
Hidden(j) == att[j] = "RUNNING" /\ run[j] # "RUNNING"

(* A delivery does not hold its slot for ever while the Agent that sent it *)
(* runs: a Supervisor completes it, or its lease runs out and the Agent    *)
(* retires it, whichever Supervisors crash.  A pass lists RUNNING Runs     *)
(* only, so a hidden one whose Supervisor crashed is never found again.    *)
DeliveryEnds ==
    \A j \in Job :
        req[j] \in ActiveRequest
            ~> (req[j] \notin ActiveRequest \/ apc[owner[j]] = "ended" \/ Hidden(j))

-----------------------------------------------------------------------------
(* The inductive invariant behind the safety properties.                   *)

Working(v, j) == sjob[v] = j /\ spc[v] \notin {"idle", "down"}

(* What an execution thread may rely on at each point of _execute.         *)
ThreadInv(j) ==
    /\ run[j] = "QUEUED" => tpc[j] = "none" /\ att[j] = "NONE"
    /\ tpc[j] \in {"start", "record"} => att[j] = "NONE"
    /\ tpc[j] = "lease" => att[j] = "RUNNING" /\ ~leased[j]
    /\ tpc[j] \in {"register", "giveup"} => leased[j] /\ owner[j] = NoAgent
    /\ tpc[j] = "enqueue" => owner[j] # NoAgent /\ req[j] = "NONE"
    /\ tpc[j] # "none" => tagent[j] \in Agent /\ apc[tagent[j]] # "off"

(* How far the four rows of a job have come: Attempt, lease, registration, *)
(* request, witness, verdict, in this order.                               *)
RowInv(j) ==
    /\ att[j] = "NONE" => ~leased[j]
    /\ ~leased[j] => att[j] \in {"NONE", "RUNNING"} /\ claim[j] = NoAgent /\ owner[j] = NoAgent
    /\ IF owner[j] = NoAgent THEN req[j] = "NONE" ELSE apc[owner[j]] # "off"
    /\ req[j] \in {"NONE", "QUEUED"} =>
          child[j] = "none" /\ \A v \in Supervisor : ~Working(v, j)
    /\ witness[j] # "NONE" => req[j] \in {"COMPLETED", "UNAVAILABLE"}
    /\ att[j] \in {"SUCCEEDED", "FAILED"} =>
          req[j] = "COMPLETED" /\ witness[j] = "PROCESS_EXITED" /\ child[j] = "dead"
    /\ run[j] = "SUCCEEDED" => att[j] = "SUCCEEDED"

(* A request has one Supervisor, *)
AloneInv(v) == \A w \in Supervisor : Working(v, sjob[v]) /\ Working(w, sjob[v]) => v = w

(* which finds the rows and the tool as it left them. *)
SupervisorInv(v) ==
    LET j == sjob[v] IN
    /\ spc[v] = "spawn" => child[j] = "none" /\ req[j] \in {"CLAIMED", "UNAVAILABLE"}
    /\ spc[v] = "observe" => req[j] \in {"CLAIMED", "UNAVAILABLE"}
    /\ spc[v] \in {"wait", "exit"} => req[j] \in {"RUNNING", "UNAVAILABLE"}
    /\ spc[v] \in {"spawn", "observe", "wait", "exit", "fail"} => witness[j] = "NONE"
    /\ spc[v] \in {"exit", "finalize"} => child[j] = "dead"
    /\ spc[v] = "finalize" => witness[j] = "PROCESS_EXITED"

(* What the rows, the threads, the Supervisors and the tool agree on in    *)
(* every state: a request is worked on by one Supervisor, which finds it   *)
(* unwitnessed and its tool not started twice, an Attempt is registered    *)
(* before its request exists and closed with a verdict only after its      *)
(* witness (worker.py, host_agent.py, execution_supervisor.py run_once).   *)
SupervisedInv ==
    /\ TypeOK
    /\ \A j \in Job : ThreadInv(j) /\ RowInv(j)
    /\ DeliveriesAgree
    /\ \A v \in Supervisor : AloneInv(v) /\ SupervisorInv(v)
=============================================================================
