---------------------------- MODULE RunAdmission ----------------------------
(***************************************************************************)
(* Submission: clients that retry (client.py) reach the handlers of API    *)
(* processes (api.py), whose JobService.submit decides under the service's *)
(* lock, in several statements, on a store that other processes share      *)
(* (create_run of store.py and postgres_store.py).                         *)
(*                                                                         *)
(* mode is fixed by a deployment: in "local" mode a process executes what  *)
(* it accepts (SQLite), in "external" mode workers do (PostgreSQL).        *)
(***************************************************************************)
EXTENDS Naturals, FiniteSets

CONSTANTS
    Proc,          \* API processes
    Thread,        \* handler threads, of whichever process
    Client, Job,
    Body,          \* what a JobSpec says besides its job_id; its spec_hash tells them apart
    Wants,         \* the JobSpec of each client
    NoBody, Nobody,
    MaxInFlight,
    MaxRetries,    \* max_backpressure_retries
    MaxFaults      \* bound on lost responses, crashes and unfenced writes of other workers

ASSUME WantsAssumption == Wants \in [Client -> [job : Job, body : Body]]
ASSUME NullAssumption == NoBody \notin Body /\ Nobody \notin Proc \cup Thread \cup Client
ASSUME AdmissionBounds ==
    /\ IsFiniteSet(Job)
    /\ MaxInFlight \in Nat \ {0}
    /\ {MaxRetries, MaxFaults} \subseteq Nat

VARIABLES
    mode,
    run, hash,      \* status and spec_hash of each Run
    futures,        \* per process, the jobs whose local future is not done
    pc, host, peer, \* per thread: where submit is, in which process, for which client
    verdict,        \* what the thread is going to answer
    known,          \* the Run was stored when the thread's request arrived
    line,           \* the thread whose response a client waits for
    tries,          \* the client's retries in its present call of submit
    told,           \* the outcome of the client's last answered call
    faults, reopened

rowVars == <<run, hash>>
threadVars == <<pc, host, peer, verdict, known>>
clientVars == <<line, tries, told>>
vars == <<mode, rowVars, futures, threadVars, clientVars,
          faults, reopened>>

InFlightStatus == {"QUEUED", "RUNNING"}
InFlight == {j \in Job : run[j] \in InFlightStatus}
Locked(p) == \E t \in Thread : host[t] = p /\ pc[t] \in {"create", "reread", "schedule"}
Key(t) == Wants[peer[t]].job

TypeOK ==
    /\ mode \in {"local", "external"}
    /\ run \in [Job -> {"NONE", "ENDED"} \cup InFlightStatus]
    /\ hash \in [Job -> Body \cup {NoBody}]
    /\ futures \in [Proc -> SUBSET Job]
    /\ pc \in [Thread -> {"idle", "lookup", "create", "reread", "schedule", "reply"}]
    /\ host \in [Thread -> Proc \cup {Nobody}]
    /\ peer \in [Thread -> Client \cup {Nobody}]
    /\ verdict \in [Thread -> {"none", "accepted", "conflict", "busy"}]
    /\ known \in [Thread -> BOOLEAN]
    /\ line \in [Client -> Thread \cup {Nobody}]
    /\ tries \in [Client -> 0..MaxRetries]
    /\ told \in [Client -> {"nothing", "accepted", "conflict", "exhausted"}]
    /\ faults \in 0..MaxFaults
    /\ reopened \in 0..faults

Init ==
    /\ mode \in {"local", "external"}
    /\ run = [j \in Job |-> "NONE"]
    /\ hash = [j \in Job |-> NoBody]
    /\ futures = [p \in Proc |-> {}]
    /\ pc = [t \in Thread |-> "idle"]
    /\ host = [t \in Thread |-> Nobody]
    /\ peer = [t \in Thread |-> Nobody]
    /\ verdict = [t \in Thread |-> "none"]
    /\ known = [t \in Thread |-> FALSE]
    /\ line = [c \in Client |-> Nobody]
    /\ tries = [c \in Client |-> 0]
    /\ told = [c \in Client |-> "nothing"]
    /\ faults = 0
    /\ reopened = 0

Fault == faults < MaxFaults /\ faults' = faults + 1

-----------------------------------------------------------------------------
(* Clients.                                                                *)

(* A POST reaches a process: the first one, a retry after a 429, or the    *)
(* caller's repetition of a call that got no answer.                      *)
Post(c, t, p) ==
    /\ line[c] = Nobody
    /\ told[c] = "nothing"
    /\ pc[t] = "idle"
    /\ line' = [line EXCEPT ![c] = t]
    /\ pc' = [pc EXCEPT ![t] = "lookup"]
    /\ host' = [host EXCEPT ![t] = p]
    /\ peer' = [peer EXCEPT ![t] = c]
    /\ known' = [known EXCEPT ![t] = run[Wants[c].job] # "NONE"]
    /\ UNCHANGED <<mode, rowVars, futures, verdict, tries, told, faults, reopened>>

(* The response is lost or late: urlopen raises, which submit does not     *)
(* retry; the caller may call submit again with the same JobSpec.          *)
LoseResponse(c) ==
    /\ line[c] # Nobody
    /\ Fault
    /\ line' = [line EXCEPT ![c] = Nobody]
    /\ tries' = [tries EXCEPT ![c] = 0]
    /\ UNCHANGED <<mode, rowVars, futures, threadVars, told, reopened>>

(* Mutant of Hear: one retry more than the client's loop allows.           *)
HearOneMore(c, answer) ==
    /\ line' = [line EXCEPT ![c] = Nobody]
    /\ tries' = [tries EXCEPT ![c] = IF answer = "busy" /\ @ <= MaxRetries THEN @ + 1 ELSE 0]
    /\ told' = IF answer = "busy" THEN told ELSE [told EXCEPT ![c] = answer]

(* What the waiting client makes of a response: only 429 is retried.       *)
Hear(c, answer) ==
    /\ line' = [line EXCEPT ![c] = Nobody]
    /\ tries' = [tries EXCEPT ![c] = IF answer = "busy" /\ @ < MaxRetries THEN @ + 1 ELSE 0]
    /\ told' = IF answer # "busy" THEN [told EXCEPT ![c] = answer]
               ELSE IF tries[c] < MaxRetries THEN told
               ELSE [told EXCEPT ![c] = "exhausted"]

Respond(t) ==
    /\ pc[t] = "reply"
    /\ IF line[peer[t]] = t THEN Hear(peer[t], verdict[t]) ELSE UNCHANGED clientVars
    /\ pc' = [pc EXCEPT ![t] = "idle"]
    /\ host' = [host EXCEPT ![t] = Nobody]
    /\ peer' = [peer EXCEPT ![t] = Nobody]
    /\ verdict' = [verdict EXCEPT ![t] = "none"]
    /\ known' = [known EXCEPT ![t] = FALSE]
    /\ UNCHANGED <<mode, rowVars, futures, faults, reopened>>

-----------------------------------------------------------------------------
(* JobService.submit, under the lock of its process.                       *)

Decide(t, answer) ==
    /\ verdict' = [verdict EXCEPT ![t] = answer]
    /\ pc' = [pc EXCEPT ![t] = "reply"]

Continue(t, step) ==
    /\ pc' = [pc EXCEPT ![t] = step]
    /\ UNCHANGED verdict

(* Mutant of ExistingAnswer: a known key is accepted whatever its spec_hash. *)
ExistingAnswerUnchecked(t) == "accepted"

ExistingAnswer(t) == IF hash[Key(t)] = Wants[peer[t]].body THEN "accepted" ELSE "conflict"

(* Mutant of LookUp: the local futures are counted before the key is looked up. *)
LookUpCountFirst(t) ==
    /\ pc[t] = "lookup"
    /\ ~Locked(host[t])
    /\ IF Cardinality(futures[host[t]]) >= MaxInFlight THEN Decide(t, "busy")
       ELSE IF run[Key(t)] # "NONE" THEN Decide(t, ExistingAnswer(t))
       ELSE Continue(t, "create")
    /\ UNCHANGED <<mode, rowVars, futures, host, peer, known, clientVars, faults, reopened>>

LookUp(t) ==
    /\ pc[t] = "lookup"
    /\ ~Locked(host[t])
    /\ IF run[Key(t)] # "NONE" THEN Decide(t, ExistingAnswer(t))
       ELSE IF Cardinality(futures[host[t]]) >= MaxInFlight THEN Decide(t, "busy")
       ELSE Continue(t, "create")
    /\ UNCHANGED <<mode, rowVars, futures, host, peer, known, clientVars, faults, reopened>>

(* Mutant of CreateRun: the Runs in flight are not counted in the transaction. *)
CreateRunUncounted(t) ==
    /\ pc[t] = "create"
    /\ IF run[Key(t)] # "NONE"
       THEN Continue(t, "reread") /\ UNCHANGED rowVars
       ELSE /\ run' = [run EXCEPT ![Key(t)] = "QUEUED"]
            /\ hash' = [hash EXCEPT ![Key(t)] = Wants[peer[t]].body]
            /\ Continue(t, "schedule")
    /\ UNCHANGED <<mode, futures, host, peer, known, clientVars, faults, reopened>>

(* One transaction, under the write lock of SQLite or an advisory lock.    *)
CreateRun(t) ==
    /\ pc[t] = "create"
    /\ \/ /\ run[Key(t)] # "NONE"
          /\ Continue(t, "reread")
          /\ UNCHANGED rowVars
       \/ /\ run[Key(t)] = "NONE"
          /\ Cardinality(InFlight) >= MaxInFlight
          /\ Decide(t, "busy")
          /\ UNCHANGED rowVars
       \/ /\ run[Key(t)] = "NONE"
          /\ Cardinality(InFlight) < MaxInFlight
          /\ run' = [run EXCEPT ![Key(t)] = "QUEUED"]
          /\ hash' = [hash EXCEPT ![Key(t)] = Wants[peer[t]].body]
          /\ Continue(t, "schedule")
    /\ UNCHANGED <<mode, futures, host, peer, known, clientVars, faults, reopened>>

(* Mutant of Reread: who lost the race to insert goes on to schedule, too. *)
RereadSchedules(t) ==
    /\ pc[t] = "reread"
    /\ IF ExistingAnswer(t) = "accepted" THEN Continue(t, "schedule") ELSE Decide(t, "conflict")
    /\ UNCHANGED <<mode, rowVars, futures, host, peer, known, clientVars, faults, reopened>>

Reread(t) ==
    /\ pc[t] = "reread"
    /\ Decide(t, ExistingAnswer(t))
    /\ UNCHANGED <<mode, rowVars, futures, host, peer, known, clientVars, faults, reopened>>

Schedule(t) ==
    /\ pc[t] = "schedule"
    /\ futures' = IF mode = "local"
                  THEN [futures EXCEPT ![host[t]] = @ \cup {Key(t)}] ELSE futures
    /\ Decide(t, "accepted")
    /\ UNCHANGED <<mode, rowVars, host, peer, known, clientVars, faults, reopened>>

Handle(t) == LookUp(t) \/ CreateRun(t) \/ Reread(t) \/ Schedule(t) \/ Respond(t)

-----------------------------------------------------------------------------
(* Execution, as far as admission sees it.                                 *)

Move(j, from, to) ==
    /\ run[j] = from
    /\ run' = [run EXCEPT ![j] = to]
    /\ UNCHANGED <<mode, hash, threadVars, clientVars>>

(* The executor thread of a local future; its last step outlives the       *)
(* finalization by the metrics and the finally clause.                     *)
StartLocal(p, j) == j \in futures[p] /\ Move(j, "QUEUED", "RUNNING") /\ UNCHANGED <<futures, faults, reopened>>
EndLocal(p, j)   == j \in futures[p] /\ Move(j, "RUNNING", "ENDED") /\ UNCHANGED <<futures, faults, reopened>>
FutureDone(p, j) ==
    /\ j \in futures[p]
    /\ run[j] = "ENDED"
    /\ futures' = [futures EXCEPT ![p] = @ \ {j}]
    /\ UNCHANGED <<mode, rowVars, threadVars, clientVars, faults, reopened>>

(* Mutant of CancelQueued: the future is cancelled, the Run's row forgotten. *)
CancelQueuedSilently(p, j) ==
    /\ j \in futures[p]
    /\ ~Locked(p)
    /\ run[j] = "QUEUED"
    /\ futures' = [futures EXCEPT ![p] = @ \ {j}]
    /\ UNCHANGED <<mode, rowVars, threadVars, clientVars, faults, reopened>>

(* future.cancel() succeeds on a future that has not started.              *)
CancelQueued(p, j) ==
    /\ j \in futures[p]
    /\ ~Locked(p)
    /\ Move(j, "QUEUED", "ENDED")
    /\ futures' = [futures EXCEPT ![p] = @ \ {j}]
    /\ UNCHANGED <<faults, reopened>>

Claim(j)     == mode = "external" /\ Move(j, "QUEUED", "RUNNING") /\ UNCHANGED <<futures, faults, reopened>>
EndClaim(j)  == mode = "external" /\ Move(j, "RUNNING", "ENDED") /\ UNCHANGED <<futures, faults, reopened>>

(* recover_stale_runs closes a RUNNING Run of which its own process holds  *)
(* no future, whatever others hold; a QUEUED one is in no list it reads.   *)
Orphan(p, j) == mode = "local" /\ j \notin futures[p]
Recover(p, j) == Orphan(p, j) /\ Move(j, "RUNNING", "ENDED") /\ UNCHANGED <<futures, faults, reopened>>

(* An unfenced write of RUNNING by another worker.                         *)
Reopen(j) ==
    /\ mode = "external"
    /\ Move(j, "ENDED", "RUNNING")
    /\ Fault
    /\ reopened' = reopened + 1
    /\ UNCHANGED futures

Crash(p) ==
    /\ Fault
    /\ LET Dead(t) == host[t] = p IN
       /\ pc' = [t \in Thread |-> IF Dead(t) THEN "idle" ELSE pc[t]]
       /\ host' = [t \in Thread |-> IF Dead(t) THEN Nobody ELSE host[t]]
       /\ peer' = [t \in Thread |-> IF Dead(t) THEN Nobody ELSE peer[t]]
       /\ verdict' = [t \in Thread |-> IF Dead(t) THEN "none" ELSE verdict[t]]
       /\ known' = [t \in Thread |-> IF Dead(t) THEN FALSE ELSE known[t]]
       /\ line' = [c \in Client |-> IF line[c] # Nobody /\ Dead(line[c]) THEN Nobody ELSE line[c]]
       /\ tries' = [c \in Client |-> IF line[c] # Nobody /\ Dead(line[c]) THEN 0 ELSE tries[c]]
    /\ futures' = [futures EXCEPT ![p] = {}]
    /\ UNCHANGED <<mode, rowVars, told, reopened>>

ExecuteLocal(p, j) ==
    StartLocal(p, j) \/ EndLocal(p, j) \/ FutureDone(p, j)

Work(j) == Claim(j) \/ EndClaim(j)

Next ==
    \/ \E c \in Client, t \in Thread, p \in Proc : Post(c, t, p)
    \/ \E c \in Client : LoseResponse(c)
    \/ \E t \in Thread : Handle(t)
    \/ \E p \in Proc, j \in Job : ExecuteLocal(p, j) \/ CancelQueued(p, j) \/ Recover(p, j)
    \/ \E j \in Job : Work(j) \/ Reopen(j)
    \/ \E p \in Proc : Crash(p)

Spec == Init /\ [][Next]_vars

(* Handler threads are scheduled, and a pool that has a thread for each    *)
(* Run of the budget starts the futures it is given.  Clients owe nothing, *)
(* neither do executions, which need not end, nor workers, which may all   *)
(* be dead.                                                                *)
FairSpec ==
    /\ Spec
    /\ \A t \in Thread : WF_vars(Handle(t))
    /\ \A p \in Proc, j \in Job : WF_vars(StartLocal(p, j))

-----------------------------------------------------------------------------
(* Properties.                                                             *)

(* However many processes admit at a time, the Runs in flight exceed the   *)
(* budget by no more than the Runs that were reopened by an unfenced write *)
(* (create_run counts and inserts in one transaction, store.py:150).       *)
BudgetRespected == Cardinality(InFlight) <= MaxInFlight + reopened

(* A repeated key is recognised before the budget is looked at: a request  *)
(* that arrives after its Run was stored, for instance because the first   *)
(* response was lost, is never answered with backpressure (store.py:152).  *)
RepeatIsNotRefused == \A t \in Thread : verdict[t] = "busy" => ~known[t]

(* In local mode a Run gets an executor from the process that inserted it, *)
(* once, while it is QUEUED and no process holds a future of it, whatever  *)
(* submissions of its key race (service.py:183).                           *)
ScheduledOnce ==
    [][\A p \in Proc, j \in Job :
          j \in futures'[p] \ futures[p] =>
              run[j] = "QUEUED" /\ \A q \in Proc : j \notin futures[q]]_vars

(* In local mode a stored Run does not stay QUEUED: whichever thread won   *)
(* the race to insert it, and whoever cancels its future, it is started or *)
(* cancelled.  Nobody else executes what a process has accepted, so there  *)
(* is no such promise once a process died (service.py:193, 199-202).       *)
AcceptedRunIsTaken ==
    \A j \in Job : (mode = "local" /\ run[j] = "QUEUED") ~> (run[j] # "QUEUED" \/ faults > 0)

(* Submission implements the budget's contract: one admission per key and  *)
(* specification, and answers that agree with it.                          *)
Phase == [j \in Job |-> IF run[j] \in InFlightStatus THEN "LIVE" ELSE run[j]]
Heard == [c \in Client |-> IF told[c] = "exhausted" THEN "nothing" ELSE told[c]]
Budget == INSTANCE RunBudget WITH state <- Phase, admitted <- hash, told <- Heard

ImplementsBudget == Budget!Spec

-----------------------------------------------------------------------------
(* The inductive invariant behind the safety properties.                   *)

(* What a thread has established about its key when it takes the next step. *)
ThreadInv(t) ==
    /\ (pc[t] = "idle") = (peer[t] = Nobody)
    /\ (pc[t] = "reply") = (verdict[t] # "none")
    /\ known[t] => pc[t] \notin {"idle", "create"} /\ verdict[t] # "busy" /\ run[Key(t)] # "NONE"
    /\ pc[t] \in {"reread", "schedule"} \/ verdict[t] \in {"accepted", "conflict"} =>
          run[Key(t)] # "NONE"
    /\ pc[t] = "schedule" => ExistingAnswer(t) = "accepted"
    /\ verdict[t] \in {"accepted", "conflict"} => verdict[t] = ExistingAnswer(t)

(* Between its insertion and its future a Run has nobody but the thread that inserted it. *)
ScheduleInv(t) ==
    mode = "local" /\ pc[t] = "schedule" =>
        /\ run[Key(t)] = "QUEUED"
        /\ \A p \in Proc : Key(t) \notin futures[p]
        /\ \A u \in Thread : pc[u] = "schedule" /\ Key(u) = Key(t) => u = t

FutureInv == \A p \in Proc : \A j \in futures[p] : run[j] # "NONE"

(* A client waits for a thread that works for it, and has no answer yet.   *)
ClientInv(c) == line[c] # Nobody => told[c] = "nothing" /\ peer[line[c]] = c

(* Requests, rows, futures and waiting clients agree with each other.      *)
AdmissionInv ==
    /\ TypeOK
    /\ \A t \in Thread : ThreadInv(t) /\ ScheduleInv(t)
    /\ FutureInv
    /\ \A c \in Client : ClientInv(c)
=============================================================================
