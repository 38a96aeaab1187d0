----------------------------- MODULE RunOutcome -----------------------------
(***************************************************************************)
(* One Run inside the process that executes it: the attempts of            *)
(* JobService._execute, the adapter that runs the tool as a child process, *)
(* cancellations that reach the adapter from other threads, the judgement  *)
(* of the report, and what is stored and published of it.  Who may write   *)
(* the rows is the subject of ExecutionOwnership: here, fence says whether *)
(* the attempt's row still lets this executor close it, and blind what a   *)
(* reconciler does that read the Run before its first Attempt was recorded.*)
(***************************************************************************)
EXTENDS ReportParser

CONSTANTS
    Attempts,        \* max_attempts
    ToolOutput,      \* what the tool may write: [slack, lines], slack being the analysis's
    SyntheticOutput, \* what SyntheticTimingAdapter writes
    MaxFaults        \* bound on crashes, lost leases, and calls that raise

ASSUME OutcomeBounds == Attempts \in Nat \ {0} /\ MaxFaults \in Nat
ASSUME OutputAssumption ==
    /\ ToolOutput # {} /\ SyntheticOutput # {}
    /\ \A o \in ToolOutput \cup SyntheticOutput : o.slack \in Int

VARIABLES
    adapter,         \* "opensta" or "synthetic"
    pc, attempt, verdict,
    child, code,
    measured,        \* the true slack of the analysis whose report was read
    registered,      \* the child is in _processes
    mark,            \* the job is in _cancelled_jobs
    acked,           \* a cancellation was answered with True
    row, fence,      \* the Run's row; the attempt's row is RUNNING under our lease
    metrics, event,  \* the metrics row; the last progress event delivered
    blind,           \* a reconciler has "read" the Run without an Attempt, or
                     \* since "wrote" its unfenced FAILED
    faults

childVars == <<child, code, measured>>
cancelVars == <<registered, mark, acked>>
rowVars == <<row, fence, metrics, event, blind>>
vars == <<adapter, pc, attempt, verdict, childVars, cancelVars, rowVars, faults>>

Terminal == {"SUCCEEDED", "FAILED", "CANCELLED", "TIMED_OUT"}
Field == {"status", "parse", "check", "trust"}
Alive == child \in {"running", "killed"}
NoVerdict == [fields |-> [status |-> "FAILED"], metrics |-> {}, raised |-> FALSE]

ControlTypes ==
    /\ adapter \in {"opensta", "synthetic"}
    /\ pc \in {"start", "announce", "record", "begin", "observe", "waiting", "grace", "reap",
               "timed_out", "collected", "check", "result", "timeout", "transport", "failing",
               "finalize", "publish", "metrics", "done", "dead"}
    /\ attempt \in 0..Attempts
    /\ "status" \in DOMAIN verdict.fields /\ DOMAIN verdict.fields \subseteq Field
    /\ verdict.fields.status \in Terminal
    /\ verdict.raised \in BOOLEAN

ChildTypes ==
    /\ child \in {"none", "running", "killed", "exited"}
    /\ code \in {"none", "zero", "nonzero"}
    /\ measured \in Int
    /\ registered \in BOOLEAN /\ mark \in BOOLEAN /\ acked \in BOOLEAN

StoreTypes ==
    /\ DOMAIN row = Field /\ row.status \in Terminal \cup {"QUEUED", "RUNNING"}
    /\ row.trust \in {"UNKNOWN", "INVALID", "TRUSTED"}
    /\ fence \in BOOLEAN
    /\ event \in Terminal \cup {"none", "RUNNING"}
    /\ blind \in {"none", "read", "wrote"}
    /\ faults \in 0..MaxFaults

TypeOK == ControlTypes /\ ChildTypes /\ StoreTypes

Init ==
    /\ adapter \in {"opensta", "synthetic"}
    /\ pc = "start"
    /\ attempt = 0
    /\ verdict = NoVerdict
    /\ child = "none" /\ code = "none"
    /\ measured = 0
    /\ registered = FALSE /\ mark = FALSE /\ acked = FALSE
    /\ \E s \in {"QUEUED", "RUNNING"} :   \* accepted here, or claimed by a worker
          row = [status |-> s, parse |-> "NOT_STARTED", check |-> "UNKNOWN", trust |-> "UNKNOWN"]
    /\ fence = FALSE
    /\ metrics = {} /\ event = "none" /\ blind = "none"
    /\ faults = 0

Fault == faults < MaxFaults /\ faults' = faults + 1
Step(from, to) == pc = from /\ pc' = to

(* Leave with a verdict for the finalization; raised: from an except clause. *)
Conclude(fields, found, raised) ==
    /\ verdict' = [fields |-> fields, metrics |-> found, raised |-> raised]
    /\ pc' = "finalize"

-----------------------------------------------------------------------------
(* JobService._execute, up to the adapter.                                 *)

(* Whatever the status is by now. *)
Start ==
    /\ Step("start", "announce")
    /\ row' = [row EXCEPT !.status = "RUNNING"]
    /\ blind' = IF blind = "wrote" THEN "none" ELSE blind
    /\ UNCHANGED <<adapter, attempt, verdict, childVars, cancelVars, fence, metrics, event, faults>>

(* Published after the commit; an event that cannot be sent is dropped.    *)
Publish ==
    LET said == IF pc = "announce" THEN "RUNNING" ELSE verdict.fields.status IN
    /\ \/ Step("announce", "record")
       \/ Step("publish", IF verdict.metrics = {} THEN "done" ELSE "metrics")
    /\ event' \in {said, event}
    /\ UNCHANGED <<adapter, attempt, verdict, childVars, cancelVars, row, fence, metrics, blind, faults>>

RecordAttempt ==
    /\ Step("record", "begin")
    /\ attempt' = attempt + 1
    /\ fence' = TRUE
    /\ UNCHANGED <<adapter, verdict, childVars, cancelVars, row, metrics, event, blind, faults>>

RunSynthetic ==
    /\ adapter = "synthetic"
    /\ \/ /\ \E to \in {"timeout", "transport", "failing"} : Step("begin", to)
          /\ UNCHANGED code
       \/ Step("begin", "result") /\ code' \in {"zero", "none"}
    /\ UNCHANGED <<adapter, attempt, verdict, child, measured, cancelVars, rowVars, faults>>

-----------------------------------------------------------------------------
(* OpenStaSubprocessAdapter.run                                            *)

FailToSpawn ==
    /\ adapter = "opensta"
    /\ Step("begin", "failing")
    /\ UNCHANGED <<adapter, attempt, verdict, childVars, cancelVars, rowVars, faults>>

Popen ==
    /\ adapter = "opensta"
    /\ Step("begin", "observe")
    /\ child' = "running"
    /\ UNCHANGED <<adapter, attempt, verdict, code, measured, cancelVars, rowVars, faults>>

Register ==
    /\ Step("observe", "waiting")
    /\ registered' = TRUE
    /\ UNCHANGED <<adapter, attempt, verdict, childVars, mark, acked, rowVars, faults>>

(* An observer raises before the child is registered: nobody waits for it. *)
ObserverRaises ==
    /\ Step("observe", "failing")
    /\ Fault
    /\ UNCHANGED <<adapter, attempt, verdict, childVars, cancelVars, rowVars>>

(* communicate() returns, at once or in the grace period after a timeout,  *)
(* or after SIGKILL.                                                       *)
Communicate ==
    /\ child = "exited"
    /\ Step("waiting", "collected") \/ Step("grace", "timed_out") \/ Step("reap", "timed_out")
    /\ UNCHANGED <<adapter, attempt, verdict, childVars, cancelVars, rowVars, faults>>

(* Mutant of Timeout: TimeoutError is raised as soon as SIGTERM was sent.  *)
TimeoutAtOnce ==
    /\ Step("waiting", "timed_out")
    /\ UNCHANGED <<adapter, attempt, verdict, childVars, cancelVars, rowVars, faults>>

Timeout ==
    /\ Step("waiting", "grace")
    /\ UNCHANGED <<adapter, attempt, verdict, childVars, cancelVars, rowVars, faults>>

(* Mutant of GraceEnds: a child that ignores SIGTERM is not killed.        *)
GraceEndsUnkilled ==
    /\ Alive
    /\ Step("grace", "reap")
    /\ UNCHANGED <<adapter, attempt, verdict, childVars, cancelVars, rowVars, faults>>

GraceEnds ==
    /\ Alive
    /\ Step("grace", "reap")
    /\ child' = "killed"
    /\ UNCHANGED <<adapter, attempt, verdict, code, measured, cancelVars, rowVars, faults>>

Unregister ==
    /\ Step("collected", "check") \/ Step("timed_out", "timeout")
    /\ registered' = FALSE
    /\ UNCHANGED <<adapter, attempt, verdict, childVars, mark, acked, rowVars, faults>>

(* Mutant of CheckMark: a child that ended with exit code 0 is not taken for cancelled. *)
CheckMarkOfFailures ==
    /\ pc = "check"
    /\ mark' = FALSE
    /\ IF mark /\ code # "zero"
       THEN Conclude([status |-> "CANCELLED", trust |-> "INVALID"], {}, TRUE)
       ELSE pc' = "result" /\ UNCHANGED verdict
    /\ UNCHANGED <<adapter, attempt, childVars, registered, acked, rowVars, faults>>

CheckMark ==
    /\ pc = "check"
    /\ mark' = FALSE
    /\ IF mark
       THEN Conclude([status |-> "CANCELLED", trust |-> "INVALID"], {}, TRUE)
       ELSE pc' = "result" /\ UNCHANGED verdict
    /\ UNCHANGED <<adapter, attempt, childVars, registered, acked, rowVars, faults>>

(* OpenStaSubprocessAdapter.cancel, where it returns True.                 *)
Cancel ==
    /\ pc # "dead"
    /\ registered
    /\ Alive
    /\ mark' = TRUE
    /\ acked' = TRUE
    /\ UNCHANGED <<adapter, pc, attempt, verdict, childVars, registered, rowVars, faults>>

(* The tool ends on its own, by SIGTERM (which it may ignore) or SIGKILL.  *)
ChildExits ==
    /\ Alive
    /\ child' = "exited"
    /\ code' \in IF child = "killed" THEN {"nonzero"} ELSE {"zero", "nonzero"}
    /\ UNCHANGED <<adapter, pc, attempt, verdict, measured, cancelVars, rowVars, faults>>

-----------------------------------------------------------------------------
(* JobService._execute, from the adapter's return.                         *)

Judged(result) ==
    [status |-> IF Succeeds(result, code) THEN "SUCCEEDED" ELSE "FAILED",
     parse |-> result.parse, check |-> result.check, trust |-> TrustStatus(result, code)]

Written == IF adapter = "opensta" THEN ToolOutput ELSE SyntheticOutput

(* Mutant of ReadResult: the metrics are stored before the finalization.   *)
ReadResultStores ==
    /\ pc = "result"
    /\ fence
    /\ \E o \in Written :
          LET result == parse_report(o.lines) IN
          /\ Conclude(Judged(result), result.metrics, FALSE)
          /\ measured' = o.slack
          /\ metrics' = result.metrics
    /\ UNCHANGED <<adapter, attempt, child, code, cancelVars, row, fence, event, blind, faults>>

ReadResult ==
    /\ pc = "result"
    /\ fence
    /\ \E o \in Written :
          LET result == parse_report(o.lines) IN
          /\ Conclude(Judged(result), result.metrics, FALSE)
          /\ measured' = o.slack
    /\ UNCHANGED <<adapter, attempt, child, code, cancelVars, rowVars, faults>>

LeaseLost ==
    /\ ~fence
    /\ Step("result", "failing")
    /\ UNCHANGED <<adapter, attempt, verdict, childVars, cancelVars, rowVars, faults>>

Fail ==
    /\ pc = "failing"
    /\ Conclude([status |-> "FAILED"], {}, TRUE)
    /\ UNCHANGED <<adapter, attempt, childVars, cancelVars, rowVars, faults>>

(* Mutant of Retry: one attempt too many.                                   *)
RetryOnceMore ==
    /\ pc \in {"timeout", "transport"}
    /\ attempt <= Attempts
    /\ pc' = IF fence THEN "record" ELSE "done"
    /\ fence' = FALSE
    /\ UNCHANGED <<adapter, attempt, verdict, childVars, cancelVars, row, metrics, event, blind, faults>>

(* After a timeout or a transport error: another attempt, or the end.      *)
Retry ==
    /\ pc \in {"timeout", "transport"}
    /\ IF attempt < Attempts
       THEN /\ pc' = IF fence THEN "record" ELSE "done"
            /\ fence' = FALSE
            /\ UNCHANGED verdict
       ELSE /\ Conclude([status |-> IF pc = "timeout" THEN "TIMED_OUT" ELSE "FAILED",
                         trust |-> "INVALID"], {}, TRUE)
            /\ UNCHANGED fence
    /\ UNCHANGED <<adapter, attempt, childVars, cancelVars, row, metrics, event, blind, faults>>

(* What a finalization writes, of the executor or of a reconciler: both    *)
(* rows, or, where the Run is not RUNNING, nothing (SQLite rolls back) or  *)
(* the Attempt's alone (PostgreSQL).                                       *)
Accepted == fence /\ row.status = "RUNNING"

CloseRows(fields) ==
    IF Accepted
    THEN /\ row' = [f \in Field |-> IF f \in DOMAIN fields THEN fields[f] ELSE row[f]]
         /\ fence' = FALSE
    ELSE fence' \in {fence, FALSE} /\ UNCHANGED row

(* Mutant of Finalize: a refused verdict is published all the same.        *)
FinalizePublishes ==
    /\ Step("finalize", "publish")
    /\ CloseRows(verdict.fields)
    /\ UNCHANGED <<adapter, attempt, verdict, childVars, cancelVars, metrics, event, blind, faults>>

(* _finalize_attempt_and_run: Attempt and Run in one transaction, or an    *)
(* error that the last handler turns into a FAILED verdict, refused again. *)
Finalize ==
    /\ pc = "finalize"
    /\ CloseRows(verdict.fields)
    /\ pc' = IF Accepted THEN "publish" ELSE IF verdict.raised THEN "done" ELSE "failing"
    /\ UNCHANGED <<adapter, attempt, verdict, childVars, cancelVars, metrics, event, blind, faults>>

(* Mutant of SaveMetrics: the row of the metrics is forgotten.             *)
SaveMetricsNot ==
    /\ Step("metrics", "done")
    /\ UNCHANGED <<adapter, attempt, verdict, childVars, cancelVars, rowVars, faults>>

SaveMetrics ==
    /\ Step("metrics", "done")
    /\ metrics' = verdict.metrics
    /\ UNCHANGED <<adapter, attempt, verdict, childVars, cancelVars, row, fence, event, blind, faults>>

SaveMetricsRaises ==
    /\ Step("metrics", "failing")
    /\ Fault
    /\ UNCHANGED <<adapter, attempt, verdict, childVars, cancelVars, rowVars>>

-----------------------------------------------------------------------------
(* The executor's process is killed; its child goes on.                    *)
Crash ==
    /\ pc \notin {"done", "dead"}
    /\ pc' = "dead"
    /\ Fault
    /\ UNCHANGED <<adapter, attempt, verdict, childVars, cancelVars, rowVars>>

(* A reconciler abandons the attempt: of a dead executor once its child is *)
(* gone, of a live one only where its lease has run out.                   *)
Abandon ==
    /\ fence
    /\ \/ pc = "dead" /\ ~Alive /\ UNCHANGED faults
       \/ pc # "dead" /\ Fault
    /\ CloseRows([status |-> "FAILED"])
    /\ UNCHANGED <<adapter, pc, attempt, verdict, childVars, cancelVars, metrics, event, blind>>

(* A reconciler reads the RUNNING Run before its first Attempt is there ... *)
ReadBlind ==
    /\ attempt = 0
    /\ row.status = "RUNNING"
    /\ blind = "none"
    /\ blind' = "read"
    /\ UNCHANGED <<adapter, pc, attempt, verdict, childVars, cancelVars, row, fence, metrics, event, faults>>

(* ... and fails it any time later, whatever it has become: update_run     *)
(* writes the status without a fence, and no other field of the result.    *)
FailBlind ==
    /\ blind = "read"
    /\ blind' = "wrote"
    /\ row' = [row EXCEPT !.status = "FAILED"]
    /\ UNCHANGED <<adapter, pc, attempt, verdict, childVars, cancelVars, fence, metrics, event, faults>>

Executor ==
    \/ Start \/ Publish \/ RecordAttempt \/ RunSynthetic
    \/ FailToSpawn \/ Popen \/ Register \/ Communicate \/ Timeout \/ GraceEnds
    \/ Unregister \/ CheckMark
    \/ ReadResult \/ LeaseLost \/ Fail \/ Retry \/ Finalize \/ SaveMetrics

Next ==
    \/ Executor
    \/ Cancel \/ ChildExits
    \/ ObserverRaises \/ SaveMetricsRaises \/ Crash
    \/ Abandon \/ ReadBlind \/ FailBlind

Spec == Init /\ [][Next]_vars

(* The executor's thread is scheduled and SIGKILL cannot be ignored; the   *)
(* tool owes nothing before.                                               *)
FairSpec ==
    /\ Spec
    /\ WF_vars(Executor)
    /\ WF_vars(child = "killed" /\ ChildExits)

-----------------------------------------------------------------------------
(* Properties.                                                             *)

(* Each Run that succeeded is trusted, and only what succeeded is, although *)
(* the unfenced FAILED may take the status of a trusted Run afterwards     *)
(* (_trust_status and the chain of returns in _execute decide apart,       *)
(* service.py:139, 293).                                                   *)
TrustFollowsSuccess ==
    /\ row.status = "SUCCEEDED" => row.trust = "TRUSTED"
    /\ row.trust = "TRUSTED" => row.status = "SUCCEEDED" \/ blind = "wrote"

(* Whatever lines of a report are lost, repeated, changed or cut off, a    *)
(* trusted verdict says PASS only of a slack the tool computed, and the    *)
(* metrics beside it are the tool's (parser.py:118).                       *)
TrustedSlackIsTheTools ==
    row.trust = "TRUSTED" =>
        /\ row.check = IF measured >= 0 THEN "PASS" ELSE "FAIL"
        /\ metrics \subseteq {measured}

(* Metrics are stored of a result that closed the Run, never of one that   *)
(* was refused (service.py:313, a transaction of its own).                 *)
MetricsBelongToVerdict == metrics # {} => row.status \in {"SUCCEEDED", "FAILED"} /\ row.parse = "OK"

(* An acknowledged cancellation is never followed by a success, whatever   *)
(* timeouts, retries and exit codes come between (runner.py:92, 208).      *)
CancelledNeverSucceeds == acked => row.status # "SUCCEEDED"

(* A closed Run has no live child, unless its executor died, lost its      *)
(* lease, or an observer raised (runner.py:191), or it was closed by the   *)
(* unfenced FAILED, which waits for no one.                                *)
EndedRunHasNoChild == row.status \in Terminal /\ faults = 0 /\ blind # "wrote" => ~Alive

(* A terminal event that reached the channel named a committed status      *)
(* (service.py:235), which nothing but the unfenced FAILED replaces.       *)
TerminalEventIsTrue == event \in Terminal => row.status = event \/ blind = "wrote"

(* A started Run ends, although the tool may hang and ignore SIGTERM.      *)
RunEnds == row.status = "RUNNING" ~> (row.status \in Terminal \/ faults > 0)

(* The metrics of a success follow it, unless the process dies or the      *)
(* statement raises (service.py:315).                                      *)
MetricsFollow == row.status = "SUCCEEDED" ~> (metrics # {} \/ faults > 0)

-----------------------------------------------------------------------------
(* The inductive invariant behind the safety properties.                   *)

Inside == {"begin", "observe", "waiting", "grace", "reap", "timed_out", "collected", "check",
           "result", "timeout", "transport"}

(* The fence goes with an open row, the first Attempt comes last, and the  *)
(* unfenced FAILED stays unless the execution only then begins.            *)
RowInv ==
    /\ blind = "wrote" => row.status = "FAILED"
    /\ pc = "start" => /\ ~fence /\ event = "none" /\ metrics = {}
                       /\ row.trust # "TRUSTED" /\ row.status # "SUCCEEDED"
    /\ pc \in {"announce", "record"} =>
          /\ ~fence /\ row.trust # "TRUSTED"
          /\ row.status = "RUNNING" \/ blind = "wrote"
    /\ fence => row.trust # "TRUSTED" /\ (row.status = "RUNNING" \/ blind = "wrote")
    /\ pc \in Inside =>
          row.status = "RUNNING" \/ (row.status = "FAILED" /\ (faults > 0 \/ blind = "wrote"))
    /\ pc \in {"start", "announce", "record"} => attempt < Attempts

(* A verdict agrees with itself before the finalization and with the row after it. *)
VerdictInv ==
    /\ "trust" \in DOMAIN verdict.fields => verdict.fields.trust \in {"UNKNOWN", "INVALID", "TRUSTED"}
    /\ pc = "finalize" =>
          /\ verdict.fields.status = "SUCCEEDED" <=>
                "trust" \in DOMAIN verdict.fields /\ verdict.fields.trust = "TRUSTED"
          /\ verdict.metrics # {} =>
                /\ verdict.fields.status \in {"SUCCEEDED", "FAILED"}
                /\ "parse" \in DOMAIN verdict.fields /\ verdict.fields.parse = "OK"
    /\ pc \in {"publish", "metrics"} =>
          /\ ~fence /\ (row.status = verdict.fields.status \/ blind = "wrote")
          /\ verdict.metrics # {} => row.status \in {"SUCCEEDED", "FAILED"} /\ row.parse = "OK"

(* A cancellation leaves its mark until it becomes the verdict.            *)
CancelInv ==
    /\ registered \/ acked \/ pc = "observe" => adapter = "opensta"
    /\ registered => pc \in {"waiting", "grace", "reap", "timed_out", "collected", "dead"}
    /\ acked /\ ~mark =>
          /\ pc \in {"finalize", "publish", "done", "dead"}
          /\ pc = "finalize" => verdict.raised
          /\ pc \in {"finalize", "publish"} => verdict.metrics = {}
    /\ acked => pc # "result" /\ (pc = "finalize" => verdict.fields.status # "SUCCEEDED")

ChildInv == Alive /\ faults = 0 => pc \in {"observe", "waiting", "grace", "reap"}

(* The Run's row, the verdict, the cancellation mark and the child agree   *)
(* at each point of _execute and of the adapter it waits for.              *)
OutcomeInv ==
    /\ TypeOK
    /\ RowInv /\ VerdictInv /\ CancelInv /\ ChildInv
    /\ TrustFollowsSuccess /\ MetricsBelongToVerdict /\ CancelledNeverSucceeds /\ TerminalEventIsTrue
=============================================================================
