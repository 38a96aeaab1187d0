--------------------------- MODULE RunOutcomeProofs ---------------------------
(* Proofs about RunOutcome and ReportParser, for any number of attempts    *)
(* and faults and any reports a tool or the synthetic adapter may write.   *)
EXTENDS RunOutcome, FiniteSetTheorems, TLAPS

(* What a parsed report can say: one that was not parsed has no metrics,   *)
(* one that was has a semantic verdict and known provenance.               *)
LEMMA ParseResults ==
    ASSUME NEW report
    PROVE  LET result == parse_report(report) IN
           /\ result.parse \in {"OK", "INVALID"}
           /\ result.parse = "INVALID" => result.metrics = {}
           /\ result.parse = "OK" =>
                result.semantic \in {"VALID", "INVALID"} /\ result.provenance = "VALID"
  <1>1. \A x, a, b, c, d : /\ Result(x, a, b, c, d).parse = x
                           /\ Result(x, a, b, c, d).check = a
                           /\ Result(x, a, b, c, d).semantic = b
                           /\ Result(x, a, b, c, d).provenance = c
                           /\ Result(x, a, b, c, d).metrics = d
    BY DEF Result
  <1>2. \/ parse_report(report) = Invalid
        \/ \E a, d : parse_report(report) = Result("OK", a, "VALID", "VALID", d)
        \/ \E d : parse_report(report) = Result("OK", "UNKNOWN", "INVALID", "VALID", d)
    BY Zenon DEF parse_report, ParseSynthetic, ParseOpenSta
  <1> QED  BY <1>1, <1>2 DEF Invalid

(* The three places that judge a report agree for every report and exit    *)
(* code: the chain of returns in _execute, _trust_status (service.py:139,  *)
(* 293) and the Supervisor's condition (execution_supervisor.py).          *)
THEOREM VerdictsAgree ==
    ASSUME NEW report, NEW exit \in {"none", "zero", "nonzero"}
    PROVE  LET result == parse_report(report) IN
           /\ Succeeds(result, exit) <=> SupervisorAccepts(result, exit)
           /\ Succeeds(result, exit) <=> TrustStatus(result, exit) = "TRUSTED"
           /\ TrustStatus(result, exit) \in {"UNKNOWN", "INVALID", "TRUSTED"}
  <1> DEFINE result == parse_report(report)
  <1>1. /\ result.parse \in {"OK", "INVALID"}
        /\ result.parse = "OK" =>
             result.semantic \in {"VALID", "INVALID"} /\ result.provenance = "VALID"
    BY ParseResults
  <1> HIDE DEF result
  <1> QED  BY <1>1 DEF Succeeds, SupervisorAccepts, TrustStatus, result

(* The steps of _execute that need no case analysis. *)
LEMMA ServiceSteps ==
    ASSUME OutcomeInv,
          Start \/ Publish \/ RecordAttempt \/ RunSynthetic \/ LeaseLost
          \/ Fail \/ SaveMetrics \/ SaveMetricsRaises
    PROVE  OutcomeInv'
  <1> USE OutcomeBounds DEF OutcomeInv, TypeOK, ControlTypes, ChildTypes, StoreTypes,
      RowInv, VerdictInv, CancelInv, ChildInv, TrustFollowsSuccess,
      MetricsBelongToVerdict, CancelledNeverSucceeds, TerminalEventIsTrue,
      Step, Conclude, Fault, Alive, Terminal, Field, Inside,
      childVars, cancelVars, rowVars
  <1>1. CASE Start
    BY <1>1, SMTT(30) DEF Start
  <1>2. CASE Publish
    BY <1>2, SMTT(30) DEF Publish
  <1>3. CASE RecordAttempt
    BY <1>3, SMTT(30) DEF RecordAttempt
  <1>4. CASE RunSynthetic
    BY <1>4, SMTT(30) DEF RunSynthetic
  <1>5. CASE LeaseLost
    BY <1>5, SMTT(30) DEF LeaseLost
  <1>6. CASE Fail
    BY <1>6, SMTT(30) DEF Fail
  <1>7. CASE SaveMetrics
    BY <1>7, SMTT(30) DEF SaveMetrics
  <1>8. CASE SaveMetricsRaises
    BY <1>8, SMTT(30) DEF SaveMetricsRaises
  <1> QED  BY <1>1, <1>2, <1>3, <1>4, <1>5, <1>6, <1>7, <1>8

(* Those of the adapter. *)
LEMMA AdapterSteps ==
    ASSUME OutcomeInv,
          FailToSpawn \/ Popen \/ Register \/ ObserverRaises \/ Communicate
          \/ Timeout \/ GraceEnds
    PROVE  OutcomeInv'
  <1> USE OutcomeBounds DEF OutcomeInv, TypeOK, ControlTypes, ChildTypes, StoreTypes,
      RowInv, VerdictInv, CancelInv, ChildInv, TrustFollowsSuccess,
      MetricsBelongToVerdict, CancelledNeverSucceeds, TerminalEventIsTrue,
      Step, Conclude, Fault, Alive, Terminal, Field, Inside,
      childVars, cancelVars, rowVars
  <1>1. CASE FailToSpawn
    BY <1>1, SMTT(30) DEF FailToSpawn
  <1>2. CASE Popen
    BY <1>2, SMTT(30) DEF Popen
  <1>3. CASE Register
    BY <1>3, SMTT(30) DEF Register
  <1>4. CASE ObserverRaises
    BY <1>4, SMTT(30) DEF ObserverRaises
  <1>5. CASE Communicate
    BY <1>5, SMTT(30) DEF Communicate
  <1>6. CASE Timeout
    BY <1>6, SMTT(30) DEF Timeout
  <1>7. CASE GraceEnds
    BY <1>7, SMTT(30) DEF GraceEnds
  <1> QED  BY <1>1, <1>2, <1>3, <1>4, <1>5, <1>6, <1>7

(* Those of other threads, of the child, and the death of the process. *)
LEMMA OtherSteps ==
    ASSUME OutcomeInv,
          Cancel \/ ChildExits \/ Crash
    PROVE  OutcomeInv'
  <1> USE OutcomeBounds DEF OutcomeInv, TypeOK, ControlTypes, ChildTypes, StoreTypes,
      RowInv, VerdictInv, CancelInv, ChildInv, TrustFollowsSuccess,
      MetricsBelongToVerdict, CancelledNeverSucceeds, TerminalEventIsTrue,
      Step, Conclude, Fault, Alive, Terminal, Field, Inside,
      childVars, cancelVars, rowVars
  <1>1. CASE Cancel
    BY <1>1, SMTT(30) DEF Cancel
  <1>2. CASE ChildExits
    BY <1>2, SMTT(30) DEF ChildExits
  <1>3. CASE Crash
    BY <1>3, SMTT(30) DEF Crash
  <1> QED  BY <1>1, <1>2, <1>3

(* The adapter forgets its child, which has ended. *)
LEMMA UnregisterStep == OutcomeInv /\ Unregister => OutcomeInv'
  <1> SUFFICES ASSUME OutcomeInv, Unregister PROVE OutcomeInv'
    OBVIOUS
  <1>1. /\ pc \in {"collected", "timed_out"}
        /\ pc' = IF pc = "collected" THEN "check" ELSE "timeout"
        /\ registered' = FALSE
        /\ UNCHANGED <<adapter, attempt, verdict, child, code, measured, mark, acked,
                       row, fence, metrics, event, blind, faults>>
    BY DEF Unregister, Step, childVars, rowVars
  <1>2. TypeOK'
    <2>1. ControlTypes'  BY <1>1, SMTT(30) DEF OutcomeInv, TypeOK, ControlTypes
    <2>2. ChildTypes'  BY <1>1, ZenonT(60) DEF OutcomeInv, TypeOK, ChildTypes
    <2>3. StoreTypes'  BY <1>1, SMTT(30) DEF OutcomeInv, TypeOK, StoreTypes
    <2> QED  BY <2>1, <2>2, <2>3 DEF TypeOK
  <1> QED
    BY <1>1, <1>2, SMTT(60)
    DEF OutcomeInv, RowInv, VerdictInv, CancelInv, ChildInv, TrustFollowsSuccess,
         MetricsBelongToVerdict, CancelledNeverSucceeds, TerminalEventIsTrue, Alive,
         Terminal, Field, Inside

(* A mark becomes the verdict, or there is none. *)
LEMMA CheckMarkStep == OutcomeInv /\ CheckMark => OutcomeInv'
  <1> SUFFICES ASSUME OutcomeInv, CheckMark PROVE OutcomeInv'
    OBVIOUS
  <1> DEFINE found == [status |-> "CANCELLED", trust |-> "INVALID"]
  <1>1. /\ pc = "check" /\ mark' = FALSE
        /\ UNCHANGED <<adapter, attempt, child, code, measured, registered, acked,
                       row, fence, metrics, event, blind, faults>>
    BY DEF CheckMark, childVars, rowVars
  <1>2. ChildTypes' /\ StoreTypes'
    <2>1. ChildTypes'  BY <1>1, ZenonT(60) DEF OutcomeInv, TypeOK, ChildTypes
    <2>2. StoreTypes'  BY <1>1, SMTT(30) DEF OutcomeInv, TypeOK, StoreTypes
    <2> QED  BY <2>1, <2>2
  <1>3. CASE mark
    <2>1. /\ verdict'.fields = found /\ verdict'.metrics = {} /\ verdict'.raised = TRUE
          /\ pc' = "finalize"
      BY <1>3 DEF CheckMark, Conclude
    <2>2. /\ DOMAIN found = {"status", "trust"}
          /\ found.status = "CANCELLED" /\ found.trust = "INVALID"
      OBVIOUS
    <2> HIDE DEF found
    <2>3. ControlTypes'
      BY <1>1, <2>1, <2>2, ZenonT(60) DEF OutcomeInv, TypeOK, ControlTypes, Field, Terminal
    <2> QED
      BY <1>1, <1>2, <2>1, <2>2, <2>3, SMTT(30)
    DEF OutcomeInv, TypeOK, RowInv, VerdictInv, CancelInv, ChildInv, TrustFollowsSuccess,
         MetricsBelongToVerdict, CancelledNeverSucceeds, TerminalEventIsTrue, Alive,
         Terminal, Field, Inside
  <1>4. CASE ~mark
    <2>1. pc' = "result" /\ UNCHANGED verdict
      BY <1>4 DEF CheckMark
    <2>2. ControlTypes'
      BY <1>1, <2>1, SMTT(30) DEF OutcomeInv, TypeOK, ControlTypes
    <2> QED
      BY <1>1, <1>2, <1>4, <2>1, <2>2, SMTT(30)
    DEF OutcomeInv, TypeOK, RowInv, VerdictInv, CancelInv, ChildInv, TrustFollowsSuccess,
         MetricsBelongToVerdict, CancelledNeverSucceeds, TerminalEventIsTrue, Alive,
         Terminal, Field, Inside
  <1> QED  BY <1>3, <1>4

(* What a report is judged to be is consistent, whatever the report says. *)
LEMMA ReadResultStep == OutcomeInv /\ ReadResult => OutcomeInv'
  <1> SUFFICES ASSUME OutcomeInv, ReadResult PROVE OutcomeInv'
    OBVIOUS
  <1>1. PICK o \in Written :
           /\ Conclude(Judged(parse_report(o.lines)), parse_report(o.lines).metrics, FALSE)
           /\ measured' = o.slack
    BY DEF ReadResult
  <1> DEFINE result == parse_report(o.lines)
             judged == Judged(result)
  <1>2. o.slack \in Int
    BY OutputAssumption DEF Written
  <1>3. /\ DOMAIN judged = Field
        /\ judged.status \in {"SUCCEEDED", "FAILED"}
        /\ judged.status = "SUCCEEDED" <=> Succeeds(result, code)
        /\ judged.trust = TrustStatus(result, code)
        /\ judged.parse = result.parse
    BY DEF Judged, Field
  <1>4. /\ Succeeds(result, code) <=> TrustStatus(result, code) = "TRUSTED"
        /\ TrustStatus(result, code) \in {"UNKNOWN", "INVALID", "TRUSTED"}
    BY VerdictsAgree DEF OutcomeInv, TypeOK, ChildTypes
  <1>5. result.metrics # {} => result.parse = "OK"
    BY ParseResults
  <1>6. /\ verdict'.fields = judged /\ verdict'.metrics = result.metrics
        /\ verdict'.raised = FALSE
        /\ pc' = "finalize"
    BY <1>1 DEF Conclude
  <1>7. /\ pc = "result" /\ fence
        /\ UNCHANGED <<adapter, attempt, child, code, registered, mark, acked,
                       row, fence, metrics, event, blind, faults>>
    BY DEF ReadResult, cancelVars, rowVars
  <1> HIDE DEF result, judged
  <1>8. TypeOK'
    <2>1. ControlTypes'
      BY <1>3, <1>6, <1>7, ZenonT(60) DEF OutcomeInv, TypeOK, ControlTypes, Terminal
    <2>2. ChildTypes'  BY <1>1, <1>2, <1>7, SMTT(30) DEF OutcomeInv, TypeOK, ChildTypes
    <2>3. StoreTypes'  BY <1>7, SMTT(30) DEF OutcomeInv, TypeOK, StoreTypes
    <2> QED  BY <2>1, <2>2, <2>3 DEF TypeOK
  <1>9. VerdictInv'
    BY <1>3, <1>4, <1>5, <1>6 DEF VerdictInv, Field
  <1> QED
    BY <1>6, <1>7, <1>8, <1>9, SMTT(30)
    DEF OutcomeInv, RowInv, VerdictInv, CancelInv, ChildInv, TrustFollowsSuccess,
         MetricsBelongToVerdict, CancelledNeverSucceeds, TerminalEventIsTrue, Alive,
         Terminal, Field, Inside

(* The next attempt opens behind a closed one; the last one's verdict has no metrics. *)
LEMMA RetryStep == OutcomeInv /\ Retry => OutcomeInv'
  <1> SUFFICES ASSUME OutcomeInv, Retry PROVE OutcomeInv'
    OBVIOUS
  <1>1. /\ pc \in {"timeout", "transport"}
        /\ UNCHANGED <<adapter, attempt, child, code, measured, registered, mark, acked,
                       row, metrics, event, blind, faults>>
    BY DEF Retry, childVars, cancelVars
  <1>2. ChildTypes'
    BY <1>1, SMTT(30) DEF OutcomeInv, TypeOK, ChildTypes
  <1>3. CASE attempt < Attempts
    <2>1. /\ pc' = IF fence THEN "record" ELSE "done"
          /\ fence' = FALSE
          /\ UNCHANGED verdict
      BY <1>3 DEF Retry
    <2>2. ControlTypes'
      BY <1>1, <2>1, SMTT(30) DEF OutcomeInv, TypeOK, ControlTypes
    <2>3. StoreTypes'
      BY <1>1, <2>1, ZenonT(60) DEF OutcomeInv, TypeOK, StoreTypes
    <2> QED
      BY <1>1, <1>2, <1>3, <2>1, <2>2, <2>3, SMTT(30)
    DEF OutcomeInv, TypeOK, RowInv, VerdictInv, CancelInv, ChildInv, TrustFollowsSuccess,
         MetricsBelongToVerdict, CancelledNeverSucceeds, TerminalEventIsTrue, Alive,
         Terminal, Field, Inside
  <1>4. CASE ~(attempt < Attempts)
    <2> DEFINE found == [status |-> IF pc = "timeout" THEN "TIMED_OUT" ELSE "FAILED", trust |-> "INVALID"]
    <2>1. /\ verdict'.fields = found /\ verdict'.metrics = {} /\ verdict'.raised = TRUE
          /\ pc' = "finalize" /\ fence' = fence
      BY <1>4 DEF Retry, Conclude
    <2>2. /\ DOMAIN found = {"status", "trust"}
          /\ found.status \in {"TIMED_OUT", "FAILED"} /\ found.trust = "INVALID"
      OBVIOUS
    <2> HIDE DEF found
    <2>3. ControlTypes'
      BY <1>1, <2>1, <2>2, ZenonT(60) DEF OutcomeInv, TypeOK, ControlTypes, Field, Terminal
    <2>4. StoreTypes'
      BY <1>1, <2>1, SMTT(30) DEF OutcomeInv, TypeOK, StoreTypes
    <2> QED
      BY <1>1, <1>2, <2>1, <2>2, <2>3, <2>4, SMTT(30)
    DEF OutcomeInv, TypeOK, RowInv, VerdictInv, CancelInv, ChildInv, TrustFollowsSuccess,
         MetricsBelongToVerdict, CancelledNeverSucceeds, TerminalEventIsTrue, Alive,
         Terminal, Field, Inside
  <1> QED  BY <1>3, <1>4

(* An open Run has nothing yet that a verdict would contradict. *)
LEMMA OpenRow ==
    ASSUME OutcomeInv, Accepted
    PROVE  /\ fence /\ row.status = "RUNNING" /\ row.trust # "TRUSTED"
           /\ metrics = {} /\ event \notin Terminal /\ blind # "wrote"
  <1>1. fence /\ row.status = "RUNNING"
    BY DEF Accepted
  <1>2. blind # "wrote"
    BY <1>1 DEF OutcomeInv, RowInv
  <1>3. row.trust # "TRUSTED" /\ metrics = {} /\ event \notin Terminal
    BY <1>1, <1>2 DEF OutcomeInv, RowInv, MetricsBelongToVerdict, TerminalEventIsTrue, Terminal
  <1> QED  BY <1>1, <1>2, <1>3

(* A verdict that is written takes the place of an open Run's fields. *)
LEMMA FinalizeStep == OutcomeInv /\ Finalize => OutcomeInv'
  <1> SUFFICES ASSUME OutcomeInv, Finalize PROVE OutcomeInv'
    OBVIOUS
  <1>1. /\ pc = "finalize"
        /\ UNCHANGED <<adapter, attempt, verdict, child, code, measured, registered, mark, acked,
                       metrics, event, blind, faults>>
    BY DEF Finalize, childVars, cancelVars
  <1>2. ChildTypes'
    BY <1>1, SMTT(30) DEF OutcomeInv, TypeOK, ChildTypes
  <1>3. CASE Accepted
    <2>1. /\ row' = [f \in Field |-> IF f \in DOMAIN verdict.fields THEN verdict.fields[f] ELSE row[f]]
          /\ fence' = FALSE /\ pc' = "publish"
      BY <1>3 DEF Finalize, CloseRows
    <2>2. /\ DOMAIN row' = Field
          /\ row'["status"] = IF "status" \in DOMAIN verdict.fields
                              THEN verdict.fields["status"] ELSE row["status"]
          /\ row'["trust"] = IF "trust" \in DOMAIN verdict.fields
                             THEN verdict.fields["trust"] ELSE row["trust"]
          /\ row'["parse"] = IF "parse" \in DOMAIN verdict.fields
                             THEN verdict.fields["parse"] ELSE row["parse"]
      BY <2>1 DEF Field
    <2>3. /\ row.status = "RUNNING" /\ row.trust # "TRUSTED" /\ metrics = {}
          /\ event \notin Terminal /\ blind # "wrote"
      BY <1>3, OpenRow
    <2>4. "status" \in DOMAIN verdict.fields
      BY DEF OutcomeInv, TypeOK, ControlTypes
    <2>5. ControlTypes'
      BY <1>1, <2>1, SMTT(30) DEF OutcomeInv, TypeOK, ControlTypes
    <2>6. StoreTypes'
      BY <1>1, <2>1, <2>2, <2>4, ZenonT(60) DEF OutcomeInv, TypeOK, ControlTypes, StoreTypes, VerdictInv
    <2> QED
      BY <1>1, <1>2, <2>1, <2>2, <2>3, <2>4, <2>5, <2>6, SMTT(30)
    DEF OutcomeInv, TypeOK, RowInv, VerdictInv, CancelInv, ChildInv, TrustFollowsSuccess,
         MetricsBelongToVerdict, CancelledNeverSucceeds, TerminalEventIsTrue, Alive,
         Terminal, Field, Inside
  <1>4. CASE ~Accepted
    <2>1. /\ pc' = IF verdict.raised THEN "done" ELSE "failing"
          /\ row' = row /\ fence' \in BOOLEAN /\ (fence' => fence)
      <3>1. row' = row /\ (fence' = fence \/ fence' = FALSE)
        BY <1>4 DEF Finalize, CloseRows
      <3>2. fence' \in BOOLEAN /\ (fence' => fence)
        <4>1. fence \in BOOLEAN
          BY DEF OutcomeInv, TypeOK, StoreTypes
        <4>2. CASE fence' = fence
          BY <4>1, <4>2, Zenon
        <4>3. CASE fence' = FALSE
          BY <4>3, Zenon
        <4> QED  BY <3>1, <4>2, <4>3
      <3> QED  BY <1>4, <3>1, <3>2 DEF Finalize
    <2>2. ControlTypes'
      BY <1>1, <2>1, SMTT(30) DEF OutcomeInv, TypeOK, ControlTypes
    <2>3. StoreTypes'
      BY <1>1, <2>1, SMTT(30) DEF OutcomeInv, TypeOK, StoreTypes
    <2> QED
      BY <1>1, <1>2, <1>4, <2>1, <2>2, <2>3, SMTT(30)
    DEF OutcomeInv, TypeOK, RowInv, VerdictInv, CancelInv, ChildInv, TrustFollowsSuccess,
         MetricsBelongToVerdict, CancelledNeverSucceeds, TerminalEventIsTrue, Alive,
         Terminal, Field, Inside
  <1> QED  BY <1>3, <1>4

(* A reconciler closes an open Run, and only one whose executor is dead or at fault. *)
LEMMA AbandonStep == OutcomeInv /\ Abandon => OutcomeInv'
  <1> SUFFICES ASSUME OutcomeInv, Abandon PROVE OutcomeInv'
    OBVIOUS
  <1>1. /\ fence /\ fence' \in BOOLEAN
        /\ UNCHANGED <<adapter, pc, attempt, verdict, child, code, measured, registered, mark, acked,
                       metrics, event, blind>>
    BY DEF Abandon, CloseRows, childVars, cancelVars, OutcomeInv, TypeOK, StoreTypes
  <1>2. \/ /\ Accepted /\ fence' = FALSE /\ row'.status = "FAILED"
           /\ DOMAIN row' = Field /\ row'.parse = row.parse /\ row'.trust = row.trust
        \/ ~Accepted /\ row' = row
    BY DEF Abandon, CloseRows, OutcomeInv, TypeOK, StoreTypes, Field
  <1>3. pc = "dead" \/ faults' > 0
    BY DEF Abandon, Fault, OutcomeInv, TypeOK, StoreTypes
  <1>4. (faults' = 0 => faults = 0) /\ (faults > 0 => faults' > 0)
    BY OutcomeBounds DEF Abandon, Fault, OutcomeInv, TypeOK, StoreTypes
  <1>5. TypeOK'
    <2>1. ControlTypes'  BY <1>1, SMTT(30) DEF OutcomeInv, TypeOK, ControlTypes
    <2>2. ChildTypes'  BY <1>1, SMTT(30) DEF OutcomeInv, TypeOK, ChildTypes
    <2>3. faults' \in 0..MaxFaults
      BY OutcomeBounds DEF Abandon, Fault, OutcomeInv, TypeOK, StoreTypes
    <2>4. StoreTypes'
      BY <1>1, <1>2, <2>3, SMTT(30) DEF OutcomeInv, TypeOK, StoreTypes, Terminal
    <2> QED  BY <2>1, <2>2, <2>4 DEF TypeOK
  <1>6. CASE Accepted
    <2>1. /\ row.status = "RUNNING" /\ row.trust # "TRUSTED" /\ metrics = {}
          /\ event \notin Terminal /\ blind # "wrote"
      BY <1>6, OpenRow
    <2>2. fence' = FALSE /\ row'.status = "FAILED" /\ row'.trust = row.trust
      BY <1>2, <1>6
    <2>3. RowInv'
      BY <1>1, <1>3, <2>1, <2>2 DEF OutcomeInv, RowInv, Inside
    <2>4. VerdictInv'
      BY <1>1, <2>2 DEF OutcomeInv, VerdictInv
    <2>5. CancelInv' /\ ChildInv'
      BY <1>1, <1>4 DEF OutcomeInv, CancelInv, ChildInv, Alive
    <2> QED
      BY <1>1, <1>5, <2>1, <2>2, <2>3, <2>4, <2>5
      DEF OutcomeInv, TrustFollowsSuccess, MetricsBelongToVerdict, CancelledNeverSucceeds,
          TerminalEventIsTrue
  <1>7. CASE ~Accepted
    BY <1>1, <1>2, <1>4, <1>5, <1>7, SMTT(30)
    DEF OutcomeInv, RowInv, VerdictInv, CancelInv, ChildInv, TrustFollowsSuccess,
         MetricsBelongToVerdict, CancelledNeverSucceeds, TerminalEventIsTrue, Alive,
         Terminal, Field, Inside
  <1> QED  BY <1>6, <1>7

(* The reconciler that read no Attempt takes the status alone. *)
LEMMA BlindSteps == OutcomeInv /\ (ReadBlind \/ FailBlind) => OutcomeInv'
  <1> SUFFICES ASSUME OutcomeInv, ReadBlind \/ FailBlind PROVE OutcomeInv'
    OBVIOUS
  <1>1. UNCHANGED <<adapter, pc, attempt, verdict, child, code, measured, registered, mark, acked,
                    fence, metrics, event, faults>>
    BY DEF ReadBlind, FailBlind, childVars, cancelVars
  <1>2. \/ blind' = "read" /\ blind = "none" /\ row' = row
        \/ /\ blind' = "wrote" /\ row'.status = "FAILED"
           /\ DOMAIN row' = Field /\ row'.parse = row.parse /\ row'.trust = row.trust
    BY DEF ReadBlind, FailBlind, OutcomeInv, TypeOK, StoreTypes, Field
  <1>3. TypeOK'
    <2>1. ControlTypes'  BY <1>1, SMTT(30) DEF OutcomeInv, TypeOK, ControlTypes
    <2>2. ChildTypes'  BY <1>1, SMTT(30) DEF OutcomeInv, TypeOK, ChildTypes
    <2>3. StoreTypes'
      BY <1>1, <1>2, SMTT(30) DEF OutcomeInv, TypeOK, StoreTypes, Terminal
    <2> QED  BY <2>1, <2>2, <2>3 DEF TypeOK
  <1> QED
    BY <1>1, <1>2, <1>3, SMTT(30)
    DEF OutcomeInv, RowInv, VerdictInv, CancelInv, ChildInv, TrustFollowsSuccess,
         MetricsBelongToVerdict, CancelledNeverSucceeds, TerminalEventIsTrue, Alive,
         Terminal, Field, Inside

(* A Run that was accepted or claimed satisfies the invariant. *)
LEMMA OutcomeInit == Init => OutcomeInv
  <1> SUFFICES ASSUME Init PROVE OutcomeInv
    OBVIOUS
  <1>1. TypeOK
    <2>1. ControlTypes
      <3>1. /\ DOMAIN verdict.fields = {"status"} /\ verdict.fields.status = "FAILED"
            /\ verdict.raised = FALSE
        BY DEF Init, NoVerdict
      <3>2. pc = "start" /\ attempt \in 0..Attempts /\ adapter \in {"opensta", "synthetic"}
        BY OutcomeBounds DEF Init
      <3> QED  BY <3>1, <3>2 DEF ControlTypes, Field, Terminal
    <2>2. ChildTypes
      <3>1. /\ child = "none" /\ code = "none" /\ measured = 0
            /\ registered = FALSE /\ mark = FALSE /\ acked = FALSE
        BY Zenon DEF Init
      <3>2. registered \in BOOLEAN /\ mark \in BOOLEAN /\ acked \in BOOLEAN
        BY <3>1, Zenon
      <3>3. measured \in Int
        BY <3>1
      <3> QED  BY <3>1, <3>2, <3>3, Zenon DEF ChildTypes
    <2>3. StoreTypes
      <3>1. DOMAIN row = Field /\ row.status \in {"QUEUED", "RUNNING"} /\ row.trust = "UNKNOWN"
        BY DEF Init, Field
      <3>2. fence = FALSE /\ event = "none" /\ blind = "none" /\ faults \in 0..MaxFaults
        BY OutcomeBounds DEF Init
      <3> QED  BY <3>1, <3>2 DEF StoreTypes
    <2> QED  BY <2>1, <2>2, <2>3 DEF TypeOK
  <1>2. /\ pc = "start" /\ attempt = 0 /\ child = "none" /\ faults = 0
        /\ ~registered /\ ~mark /\ ~acked /\ ~fence
        /\ row.status \in {"QUEUED", "RUNNING"} /\ row.trust = "UNKNOWN"
        /\ metrics = {} /\ event = "none" /\ blind = "none"
        /\ DOMAIN verdict.fields = {"status"}
    BY DEF Init, NoVerdict
  <1>3. RowInv
    BY <1>2, OutcomeBounds DEF RowInv, Inside
  <1>4. VerdictInv
    BY <1>2 DEF VerdictInv
  <1>5. CancelInv /\ ChildInv
    BY <1>2 DEF CancelInv, ChildInv, Alive
  <1> QED
    BY <1>1, <1>2, <1>3, <1>4, <1>5 DEF OutcomeInv, TrustFollowsSuccess,
       MetricsBelongToVerdict, CancelledNeverSucceeds, TerminalEventIsTrue, Terminal

(* Every step preserves it. *)
LEMMA OutcomeStep == OutcomeInv /\ [Next]_vars => OutcomeInv'
  <1> SUFFICES ASSUME OutcomeInv, [Next]_vars PROVE OutcomeInv'
    OBVIOUS
  <1>1. CASE UNCHANGED vars
    <2>1. TypeOK'
      BY <1>1 DEF vars, childVars, cancelVars, rowVars, OutcomeInv, TypeOK, ControlTypes,
          ChildTypes, StoreTypes
    <2> QED
      BY <1>1, <2>1 DEF vars, childVars, cancelVars, rowVars, OutcomeInv, RowInv,
          VerdictInv, CancelInv, ChildInv, TrustFollowsSuccess,
         MetricsBelongToVerdict, CancelledNeverSucceeds, TerminalEventIsTrue, Alive,
         Terminal, Field, Inside
  <1>2. CASE Executor
    BY <1>2, ServiceSteps, AdapterSteps, UnregisterStep, CheckMarkStep, ReadResultStep,
        RetryStep,
       FinalizeStep, Zenon DEF Executor
  <1>3. CASE Cancel \/ ChildExits \/ Crash \/ Abandon \/ ReadBlind \/ FailBlind
    BY <1>3, OtherSteps, AbandonStep, BlindSteps
  <1>4. CASE ObserverRaises \/ SaveMetricsRaises
    BY <1>4, ServiceSteps, AdapterSteps
  <1> QED  BY <1>1, <1>2, <1>3, <1>4 DEF Next

(* The Run's row, the verdict, the cancellation mark and the child agree   *)
(* at each point of _execute and of the adapter, in every state.           *)
THEOREM OutcomeInvariant == Spec => []OutcomeInv
  BY OutcomeInit, OutcomeStep, PTL DEF Spec

(* A Run that succeeded is trusted, and a trusted one succeeded, although  *)
(* the unfenced FAILED may have come since: _trust_status and the chain of *)
(* returns in _execute never disagree on what is stored.                   *)
THEOREM TrustMatchesSuccess == Spec => []TrustFollowsSuccess
  <1>1. OutcomeInv => TrustFollowsSuccess
    BY DEF OutcomeInv
  <1> QED  BY <1>1, OutcomeInvariant, PTL

(* Metrics are stored only of a result that closed the Run. *)
THEOREM MetricsMatchVerdict == Spec => []MetricsBelongToVerdict
  <1>1. OutcomeInv => MetricsBelongToVerdict
    BY DEF OutcomeInv
  <1> QED  BY <1>1, OutcomeInvariant, PTL

(* A cancellation answered with True is never followed by a success. *)
THEOREM CancellationHolds == Spec => []CancelledNeverSucceeds
  <1>1. OutcomeInv => CancelledNeverSucceeds
    BY DEF OutcomeInv
  <1> QED  BY <1>1, OutcomeInvariant, PTL

(* A terminal event that was delivered names the committed status, until   *)
(* the unfenced FAILED takes its place.                                    *)
THEOREM EventsAreTrue == Spec => []TerminalEventIsTrue
  <1>1. OutcomeInv => TerminalEventIsTrue
    BY DEF OutcomeInv
  <1> QED  BY <1>1, OutcomeInvariant, PTL

(* A Run that was closed without a fault has no live child: a live child   *)
(* of a fault-free executor is one the adapter still waits for.            *)
THEOREM NoChildOutlivesItsRun == Spec => []EndedRunHasNoChild
  <1>1. OutcomeInv => EndedRunHasNoChild
    BY OutcomeBounds DEF OutcomeInv, RowInv, ChildInv, EndedRunHasNoChild, Inside, Terminal
  <1> QED  BY <1>1, OutcomeInvariant, PTL

-----------------------------------------------------------------------------
(* What OpenSTA says of a path that is required at one time and arrives at *)
(* another: the slack twice, and the arrival time before its negation.     *)
Line == [is : STRING, text : STRING, num : Int]

ReportsPath(lines, required, arrival) ==
    /\ lines \in Seq(Line)
    /\ \A i \in DOMAIN lines :
          /\ lines[i].is \notin SYNTHETIC_REQUIRED
          /\ lines[i].is \in {"slack", "worst"} => lines[i].num = required - arrival
          /\ lines[i].is = "required" => lines[i].num = required
          /\ lines[i].is = "arrival" => lines[i].num \in {arrival, -arrival}
    /\ \A i, k \in DOMAIN lines :
          i < k /\ lines[i].is = "arrival" /\ lines[k].is = "arrival" /\ lines[i].num = -arrival
              => lines[k].num = -arrival

(* Any lines of a report are lost, any are repeated where they stand, and  *)
(* at most two, at x and y, are others than those written.                 *)
DamageOf(report, lines) ==
    /\ report \in Seq(Line)
    /\ \E x, y \in Nat, from \in [DOMAIN report -> DOMAIN lines] :
          /\ \A i \in DOMAIN report \ {x, y} : report[i] = lines[from[i]]
          /\ \A i, k \in DOMAIN report \ {x, y} : i <= k => from[i] <= from[k]

(* The lines the parser takes its numbers from, where it accepts them. *)
LEMMA LinesFound ==
    ASSUME NEW report \in Seq(Line), OpenStaWhole(report)
    PROVE  LET s == Summary(report)
               f == FirstArrival(report)
           IN  /\ s \in DOMAIN report /\ s + 1 \in DOMAIN report /\ s + 2 \in DOMAIN report
               /\ report[s].is = "required" /\ report[s+1].is = "arrival" /\ report[s+2].is = "slack"
               /\ f \in DOMAIN report /\ report[f].is = "arrival" /\ f <= s + 1
               /\ \E w \in DOMAIN report : report[w].is = "worst" /\ The(report, "worst") = report[w]
  <1> DEFINE arrivals == Lines(report, "arrival")
             worsts == Lines(report, "worst")
             places == Summaries(report)
  <1>0. Len(report) \in Nat /\ DOMAIN report = 1..Len(report) /\ IsFiniteSet(DOMAIN report)
    BY FS_Interval
  <1>1. /\ arrivals \in SUBSET DOMAIN report /\ worsts \in SUBSET DOMAIN report
        /\ \A i \in arrivals : report[i].is = "arrival"
        /\ \A i \in DOMAIN report : report[i].is = "arrival" => i \in arrivals
        /\ \A i \in worsts : report[i].is = "worst"
    BY DEF Lines
  <1>2. /\ places \in SUBSET DOMAIN report
        /\ \A i \in places : /\ i + 1 \in DOMAIN report /\ i + 2 \in DOMAIN report
                             /\ report[i].is = "required" /\ report[i+1].is = "arrival"
                             /\ report[i+2].is = "slack"
    BY <1>0 DEF Summaries
  <1>3. Cardinality(worsts) = 1 /\ Cardinality(places) = 1 /\ Cardinality(arrivals) = 2
    BY DEF OpenStaWhole, One
  <1> HIDE DEF arrivals, worsts, places
  <1>4. IsFiniteSet(arrivals) /\ IsFiniteSet(worsts) /\ IsFiniteSet(places)
    BY <1>0, <1>1, <1>2, FS_Subset
  <1>5. worsts # {} /\ places # {}
    BY <1>3, <1>4, FS_EmptySet
  <1>6. Summary(report) \in places
    BY <1>5 DEF Summary, places
  <1>7. PICK w \in worsts : The(report, "worst") = report[w]
    <2>1. (CHOOSE i \in worsts : TRUE) \in worsts
      BY <1>5
    <2> QED  BY <2>1 DEF The, worsts
  <1>8. PICK p \in arrivals, q \in arrivals : arrivals = {p, q}
    <2>1. PICK p \in arrivals : TRUE
      BY <1>3, <1>4, FS_EmptySet
    <2>2. IsFiniteSet(arrivals \ {p}) /\ Cardinality(arrivals \ {p}) = 1
      BY <1>3, <1>4, <2>1, FS_RemoveElement
    <2>3. PICK q : arrivals \ {p} = {q}
      BY <2>2, FS_Singleton
    <2> QED  BY <2>1, <2>3
  <1>9. \E i \in arrivals : \A k \in arrivals : i <= k
    <2>1. p \in Nat /\ q \in Nat
      BY <1>0, <1>1, <1>8
    <2> QED  BY <1>8, <2>1
  <1>10. FirstArrival(report) \in arrivals /\ \A k \in arrivals : FirstArrival(report) <= k
    BY <1>9 DEF FirstArrival, arrivals
  <1> QED  BY <1>1, <1>2, <1>6, <1>7, <1>10

(* No report of OpenSTA becomes a synthetic one by two changes: too many of *)
(* the fields would be missing.                                             *)
LEMMA NoSyntheticField ==
    ASSUME NEW required, NEW arrival, NEW lines, ReportsPath(lines, required, arrival),
           NEW report, DamageOf(report, lines)
    PROVE  ParseSynthetic(report) = Invalid
  <1>1. PICK x \in Nat, y \in Nat, from \in [DOMAIN report -> DOMAIN lines] :
           \A i \in DOMAIN report \ {x, y} : report[i] = lines[from[i]]
    BY DEF DamageOf
  <1>2. \A i \in DOMAIN report \ {x, y} : report[i].is \notin SYNTHETIC_REQUIRED
    BY <1>1 DEF ReportsPath
  <1> DEFINE kinds == {report[i].is : i \in DOMAIN report} \ {"marker"}
  <1>3. ASSUME SYNTHETIC_REQUIRED \subseteq kinds PROVE FALSE
    <2>1. \A kind \in {"version", "run_id", "stage"} : kind \in SYNTHETIC_REQUIRED /\ kind \in kinds
      BY <1>3 DEF SYNTHETIC_REQUIRED
    <2>2. PICK i \in DOMAIN report : report[i].is = "version"
      BY <2>1
    <2>3. PICK k \in DOMAIN report : report[k].is = "run_id"
      BY <2>1
    <2>4. PICK m \in DOMAIN report : report[m].is = "stage"
      BY <2>1
    <2>5. i \in {x, y} /\ k \in {x, y} /\ m \in {x, y}
      BY <1>2, <2>1, <2>2, <2>3, <2>4
    <2> QED  BY <2>2, <2>3, <2>4, <2>5
  <1> QED  BY <1>3 DEF ParseSynthetic

(* A report of OpenSTA that was damaged and is accepted says the slack of  *)
(* the analysis: what was lost or repeated leaves a gap in the form, and    *)
(* two wrong lines cannot make the three sums agree on another slack.      *)
THEOREM DamagedReportsAreTrue ==
    ASSUME NEW required \in Int, NEW arrival \in Int, NEW lines, ReportsPath(lines, required, arrival),
           NEW report, DamageOf(report, lines),
           parse_report(report).parse = "OK", parse_report(report).semantic = "VALID"
    PROVE  LET slack == 1000 * (required - arrival) IN
           /\ parse_report(report).metrics = {slack}
           /\ parse_report(report).check = IF slack >= 0 THEN "PASS" ELSE "FAIL"
  <1> DEFINE s == Summary(report)
             f == FirstArrival(report)
             worst == The(report, "worst").num
             label == report[s + 2].text
  <1>0. \A parse, check, semantic, provenance, found :
           LET result == Result(parse, check, semantic, provenance, found) IN
           /\ result.parse = parse /\ result.check = check /\ result.semantic = semantic
           /\ result.metrics = found
    BY DEF Result
  <1>1. /\ OpenStaWhole(report) /\ OpenStaAgrees(report)
        /\ parse_report(report).metrics = {Picoseconds(worst, "ns")}
        /\ parse_report(report).check = IF label = "MET" THEN "PASS" ELSE "FAIL"
    <2>1. parse_report(report) = ParseOpenSta(report)
      <3>1. ~(parse_report(report) = Invalid)
        BY <1>0 DEF Invalid
      <3> QED  BY <3>1, NoSyntheticField DEF parse_report
    <2>2. OpenStaWhole(report)
      BY <1>0, <2>1 DEF ParseOpenSta, Invalid
    <2>3. OpenStaAgrees(report)
      BY <1>0, <2>1, <2>2 DEF ParseOpenSta
    <2>4. ParseOpenSta(report) = Result("OK", IF label = "MET" THEN "PASS" ELSE "FAIL",
                                        "VALID", "VALID", {Picoseconds(worst, "ns")})
      BY <2>2, <2>3 DEF ParseOpenSta
    <2> QED  BY <1>0, <2>1, <2>2, <2>3, <2>4
  <1>2. report \in Seq(Line)
    BY DEF DamageOf
  <1>3. /\ report[s].num + report[s+1].num = report[s+2].num
        /\ report[s+1].num + report[f].num = 0
        /\ worst = report[s+2].num
        /\ (label = "MET") <=> (report[s+2].num >= 0)
    BY <1>1 DEF OpenStaAgrees
  <1> HIDE DEF s, f, worst, label
  <1>4. /\ s \in DOMAIN report /\ s + 1 \in DOMAIN report /\ s + 2 \in DOMAIN report
        /\ report[s].is = "required" /\ report[s+1].is = "arrival" /\ report[s+2].is = "slack"
        /\ f \in DOMAIN report /\ report[f].is = "arrival" /\ f <= s + 1
    BY <1>1, <1>2, LinesFound DEF s, f
  <1>5. PICK w \in DOMAIN report : report[w].is = "worst" /\ worst = report[w].num
    BY <1>1, <1>2, LinesFound DEF worst
  <1>6. \A i \in DOMAIN report : report[i].num \in Int /\ i \in Nat
    <2> TAKE i \in DOMAIN report
    <2>1. report[i] \in Line
      BY <1>2
    <2>2. DOMAIN report = 1..Len(report) /\ Len(report) \in Nat
      BY <1>2
    <2> QED  BY <2>1, <2>2 DEF Line
  <1>7. PICK x \in Nat, y \in Nat, from \in [DOMAIN report -> DOMAIN lines] :
           /\ \A i \in DOMAIN report \ {x, y} : report[i] = lines[from[i]]
           /\ \A i, k \in DOMAIN report \ {x, y} : i <= k => from[i] <= from[k]
    BY DEF DamageOf
  <1>8. \A i \in DOMAIN report \ {x, y} :
           /\ report[i].is \in {"slack", "worst"} => report[i].num = required - arrival
           /\ report[i].is = "required" => report[i].num = required
           /\ report[i].is = "arrival" => report[i].num \in {arrival, -arrival}
    BY <1>7 DEF ReportsPath
  <1>9. worst = required - arrival
    <2>1. CASE s + 2 \notin {x, y}
      BY <1>3, <1>4, <1>8, <2>1
    <2>2. CASE w \notin {x, y}
      BY <1>5, <1>8, <2>2
    <2>3. CASE s + 2 \in {x, y} /\ w \in {x, y}
      <3>1. s \notin {x, y} /\ s + 1 \notin {x, y} /\ f \notin {x, y}
        BY <1>4, <1>5, <2>3
      <3>2. report[s].num = required /\ report[s+1].num \in {arrival, -arrival}
            /\ report[f].num \in {arrival, -arrival}
        BY <1>4, <1>8, <3>1
      <3>3. report[f].num = -arrival => report[s+1].num = -arrival
        <4>1. from[f] <= from[s+1] /\ report[f] = lines[from[f]] /\ report[s+1] = lines[from[s+1]]
              /\ from[f] \in DOMAIN lines /\ from[s+1] \in DOMAIN lines
          BY <1>4, <1>7, <3>1
        <4>2. from[f] \in Nat /\ from[s+1] \in Nat
          BY <4>1 DEF ReportsPath
        <4>3. CASE from[f] = from[s+1]
          BY <4>1, <4>3
        <4>4. CASE from[f] < from[s+1]
          BY <1>4, <4>1, <4>4 DEF ReportsPath
        <4> QED  BY <4>1, <4>2, <4>3, <4>4
      <3>4. \A a \in Int, b \in {arrival, -arrival}, c \in {arrival, -arrival} :
               b + c = 0 /\ (c = -arrival => b = -arrival) /\ required + b = a
                   => a = required - arrival
        OBVIOUS
      <3>5. worst \in Int
        BY <1>5, <1>6
      <3> QED  BY <1>3, <3>2, <3>3, <3>4, <3>5
    <2> QED  BY <2>1, <2>2, <2>3
  <1>10. Picoseconds(worst, "ns") = 1000 * (required - arrival)
    BY <1>9 DEF Picoseconds
  <1>11. (worst >= 0) = (1000 * (required - arrival) >= 0)
    BY <1>9
  <1> QED  BY <1>1, <1>3, <1>10, <1>11

(* The outputs that are run on: OpenSTA's with such damage, and those of   *)
(* the synthetic adapter, whose slack is the one it was told to write.     *)
ToolIsTrue ==
    \A o \in ToolOutput : \E required, arrival \in Int, lines \in Seq(Line) :
        /\ ReportsPath(lines, required, arrival)
        /\ DamageOf(o.lines, lines)
        /\ o.slack = 1000 * (required - arrival)

SyntheticIsTrue ==
    \A o \in SyntheticOutput :
        /\ o.lines \in Seq(Line) \ {<<>>} /\ o.lines[1].is = "marker"
        /\ \A i \in DOMAIN o.lines :
              o.lines[i].is = "worst_slack" => o.slack = Picoseconds(o.lines[i].num, o.lines[i].text)

(* An accepted synthetic report says the slack of its one line. *)
LEMMA SyntheticReportsAreTrue ==
    ASSUME SyntheticIsTrue, NEW o \in SyntheticOutput, parse_report(o.lines).parse = "OK"
    PROVE  /\ parse_report(o.lines).metrics = {o.slack}
           /\ parse_report(o.lines).check = IF o.slack >= 0 THEN "PASS" ELSE "FAIL"
  <1> DEFINE report == o.lines
             slack == The(report, "worst_slack")
             slacks == Lines(report, "worst_slack")
  <1>1. \A parse, check, semantic, provenance, found :
           LET result == Result(parse, check, semantic, provenance, found) IN
           /\ result.parse = parse /\ result.check = check /\ result.metrics = found
    BY DEF Result
  <1>2. /\ report \in Seq(Line) /\ report # <<>> /\ report[1].is = "marker"
        /\ \A i \in slacks : o.slack = Picoseconds(report[i].num, report[i].text)
    BY DEF SyntheticIsTrue, Lines
  <1>3. parse_report(report) = ParseSynthetic(report)
    BY <1>2 DEF parse_report
  <1>4. ParseSynthetic(report) # Invalid
    BY <1>1, <1>3 DEF Invalid
  <1>5. ParseSynthetic(report) = Result("OK", IF slack.num >= 0 THEN "PASS" ELSE "FAIL", "VALID", "VALID",
                                        {Picoseconds(slack.num, slack.text)})
    BY <1>4 DEF ParseSynthetic
  <1>6. \E i \in DOMAIN report : report[i].is = "worst_slack"
    <2>1. SYNTHETIC_REQUIRED \subseteq {report[i].is : i \in DOMAIN report} \ {"marker"}
      BY <1>4 DEF ParseSynthetic
    <2> QED  BY <2>1 DEF SYNTHETIC_REQUIRED
  <1>7. PICK i \in slacks : slack = report[i]
    <2>1. slacks # {}
      BY <1>6 DEF Lines
    <2>2. (CHOOSE i \in slacks : TRUE) \in slacks
      BY <2>1
    <2> QED  BY <2>2 DEF The
  <1>8. slack.num \in Int /\ o.slack = Picoseconds(slack.num, slack.text)
    <2>1. report[i] \in Line
      BY <1>2, <1>7 DEF Lines
    <2> QED  BY <1>2, <1>7, <2>1 DEF Line
  <1>9. (o.slack >= 0) = (slack.num >= 0)
    BY <1>8 DEF Picoseconds
  <1> QED  BY <1>1, <1>3, <1>5, <1>8, <1>9

(* What a trusted verdict says, before it is written, while its metrics    *)
(* are still to be stored, and from the Run's row on.                      *)
SlackInv ==
    /\ pc = "finalize" /\ "trust" \in DOMAIN verdict.fields /\ verdict.fields.trust = "TRUSTED" =>
          /\ "check" \in DOMAIN verdict.fields
          /\ verdict.fields.check = IF measured >= 0 THEN "PASS" ELSE "FAIL"
          /\ verdict.metrics \subseteq {measured}
    /\ pc \in {"publish", "metrics"} /\ row.trust = "TRUSTED" => verdict.metrics \subseteq {measured}
    /\ TrustedSlackIsTheTools

(* A verdict that is trusted is one of an accepted report. *)
LEMMA ReadTrue ==
    ASSUME ToolIsTrue, SyntheticIsTrue, OutcomeInv, SlackInv, ReadResult
    PROVE  SlackInv'
  <1>1. PICK o \in Written :
           /\ Conclude(Judged(parse_report(o.lines)), parse_report(o.lines).metrics, FALSE)
           /\ measured' = o.slack
    BY DEF ReadResult
  <1> DEFINE result == parse_report(o.lines)
             judged == Judged(result)
  <1>2. /\ DOMAIN judged = Field
        /\ judged.trust = TrustStatus(result, code) /\ judged.check = result.check
    BY DEF Judged, Field
  <1>3. TrustStatus(result, code) = "TRUSTED" => result.parse = "OK" /\ result.semantic = "VALID"
    BY ParseResults, Zenon DEF TrustStatus
  <1>4. result.parse = "OK" /\ result.semantic = "VALID" =>
           /\ result.metrics = {o.slack}
           /\ result.check = IF o.slack >= 0 THEN "PASS" ELSE "FAIL"
    <2>1. CASE o \in SyntheticOutput
      BY <2>1, SyntheticReportsAreTrue
    <2>2. CASE o \in ToolOutput
      <3>1. PICK required \in Int, arrival \in Int, lines \in Seq(Line) :
               /\ ReportsPath(lines, required, arrival) /\ DamageOf(o.lines, lines)
               /\ o.slack = 1000 * (required - arrival)
        BY <2>2 DEF ToolIsTrue
      <3> QED  BY <3>1, DamagedReportsAreTrue
    <2> QED  BY <2>1, <2>2 DEF Written
  <1>5. /\ verdict'.fields = judged /\ verdict'.metrics = result.metrics /\ pc' = "finalize"
    BY <1>1 DEF Conclude
  <1>6. fence /\ row' = row
    BY DEF ReadResult, rowVars
  <1>7. row'.trust # "TRUSTED"
    BY <1>6 DEF OutcomeInv, RowInv
  <1> HIDE DEF result, judged
  <1>8. "trust" \in DOMAIN judged /\ "check" \in DOMAIN judged
    BY <1>2 DEF Field
  <1> QED  BY <1>1, <1>2, <1>3, <1>4, <1>5, <1>7, <1>8 DEF SlackInv, TrustedSlackIsTheTools

(* The Run's row takes the verdict's fields, all of them where it is trusted. *)
LEMMA FinalizeTrue ==
    ASSUME OutcomeInv, SlackInv, Finalize
    PROVE  SlackInv'
  <1>1. pc = "finalize" /\ UNCHANGED <<verdict, measured, metrics>>
    BY DEF Finalize, childVars
  <1>2. CASE Accepted
    <2>1. /\ row' = [g \in Field |-> IF g \in DOMAIN verdict.fields THEN verdict.fields[g] ELSE row[g]]
          /\ pc' = "publish"
      BY <1>2 DEF Finalize, CloseRows
    <2>2. /\ row'["trust"] = IF "trust" \in DOMAIN verdict.fields
                             THEN verdict.fields["trust"] ELSE row["trust"]
          /\ row'["check"] = IF "check" \in DOMAIN verdict.fields
                             THEN verdict.fields["check"] ELSE row["check"]
      BY <2>1 DEF Field
    <2>3. row.trust # "TRUSTED" /\ metrics = {}
      BY <1>2, OpenRow
    <2> QED  BY <1>1, <2>1, <2>2, <2>3 DEF SlackInv, TrustedSlackIsTheTools
  <1>3. CASE ~Accepted
    <2>1. pc' \in {"done", "failing"} /\ row' = row
      BY <1>3 DEF Finalize, CloseRows
    <2> QED  BY <1>1, <2>1 DEF SlackInv, TrustedSlackIsTheTools
  <1> QED  BY <1>2, <1>3

(* Every other step leaves the slack and the trust of the row alone. *)
LEMMA OthersTrue ==
    ASSUME OutcomeInv, SlackInv, [Next]_vars, ~ReadResult, ~Finalize
    PROVE  SlackInv'
  <1> USE DEF SlackInv, TrustedSlackIsTheTools
  <1>1. ASSUME UNCHANGED <<measured, row, metrics, verdict>>,
               pc' = pc \/ pc' \notin {"finalize", "publish", "metrics"} \/ (pc = "publish" /\ pc' = "metrics")
        PROVE  SlackInv'
    BY <1>1
  <1>2. CASE UNCHANGED vars \/ Publish \/ RecordAttempt \/ RunSynthetic \/ FailToSpawn \/ Popen \/ Register
             \/ Communicate \/ Timeout \/ GraceEnds \/ Unregister \/ LeaseLost
             \/ Cancel \/ ChildExits \/ ObserverRaises \/ SaveMetricsRaises \/ Crash
    BY <1>1, <1>2, SMTT(30)
    DEF vars, childVars, cancelVars, rowVars, Publish, RecordAttempt, RunSynthetic, FailToSpawn, Popen, Register,
        Communicate, Timeout, GraceEnds, Unregister, LeaseLost, Cancel, ChildExits,
        ObserverRaises, SaveMetricsRaises, Crash, Step
  <1>3. CASE Start \/ Abandon \/ ReadBlind \/ FailBlind
    <2>1. row'.trust = row.trust /\ row'.check = row.check
      BY <1>3 DEF Start, Abandon, ReadBlind, FailBlind, CloseRows, OutcomeInv, TypeOK, StoreTypes, Field
    <2>2. /\ UNCHANGED <<measured, metrics, verdict>>
          /\ pc' = pc \/ pc' = "announce"
      BY <1>3 DEF Start, Abandon, ReadBlind, FailBlind, Step, childVars
    <2> QED  BY <2>1, <2>2
  <1>4. CASE CheckMark \/ Fail \/ Retry
    <2>1. UNCHANGED <<measured, row, metrics>>
      BY <1>4 DEF CheckMark, Fail, Retry, childVars, rowVars
    <2>2. \/ verdict' = verdict /\ pc' \in {"result", "record", "done"}
          \/ /\ pc' = "finalize"
             /\ "trust" \in DOMAIN verdict'.fields => verdict'.fields.trust = "INVALID"
      BY <1>4 DEF CheckMark, Fail, Retry, Conclude
    <2> QED  BY <2>1, <2>2
  <1>5. CASE SaveMetrics
    <2>1. pc = "metrics" /\ pc' = "done" /\ metrics' = verdict.metrics /\ UNCHANGED <<measured, row, verdict>>
      BY <1>5 DEF SaveMetrics, Step, childVars
    <2> QED  BY <2>1
  <1> QED  BY <1>2, <1>3, <1>4, <1>5 DEF Next, Executor

(* A trusted Run passed if and only if the slack the tool computed is not  *)
(* negative, and has no other metrics, for every path, any lost and        *)
(* repeated lines, and any two lines that were changed or put in.          *)
THEOREM TrustedSlackIsTrue ==
    ASSUME ToolIsTrue, SyntheticIsTrue
    PROVE  Spec => []TrustedSlackIsTheTools
  <1>1. Init => SlackInv
    BY DEF Init, SlackInv, TrustedSlackIsTheTools
  <1>2. OutcomeInv /\ SlackInv /\ [Next]_vars => SlackInv'
    BY ReadTrue, FinalizeTrue, OthersTrue
  <1>3. SlackInv => TrustedSlackIsTheTools
    BY DEF SlackInv
  <1> QED  BY <1>1, <1>2, <1>3, OutcomeInvariant, PTL DEF Spec
===============================================================================
