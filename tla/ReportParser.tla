---------------------------- MODULE ReportParser ----------------------------
(***************************************************************************)
(* Which timing reports are accepted (parser.py), and what follows from    *)
(* one for the Run's row (service.py, execution_supervisor.py). A report   *)
(* is the sequence of the lines the parser looks for: line.is names the    *)
(* kind, text its word (a version, a unit, a label), num its number.  What *)
(* no pattern looks for, rulers and path rows, is left out, and numbers    *)
(* are integers far apart from each other against the code's tolerance.    *)
(***************************************************************************)
EXTENDS Integers, Sequences, FiniteSets

Lines(report, kind) == {i \in DOMAIN report : report[i].is = kind}
One(report, kind) == Cardinality(Lines(report, kind)) = 1
The(report, kind) == report[CHOOSE i \in Lines(report, kind) : TRUE]
Picoseconds(num, unit) == IF unit = "ps" THEN num ELSE 1000 * num

Result(parse, check, semantic, provenance, metrics) ==
    [parse |-> parse, check |-> check, semantic |-> semantic,
     provenance |-> provenance, metrics |-> metrics]

Invalid == Result("INVALID", "UNKNOWN", "UNKNOWN", "UNKNOWN", {})

-----------------------------------------------------------------------------
SYNTHETIC_REQUIRED == {"version", "run_id", "stage", "corner", "exit_code", "worst_slack"}

ParseSynthetic(report) ==
    LET kinds == {report[i].is : i \in DOMAIN report} \ {"marker"}
        slack == The(report, "worst_slack")
        wellFormed ==
            /\ SYNTHETIC_REQUIRED \subseteq kinds
            /\ \A kind \in kinds : One(report, kind)
            /\ The(report, "version").text = "1"
            /\ slack.text \in {"ns", "ps"}
    IN  IF ~wellFormed THEN Invalid
        ELSE Result("OK", IF slack.num >= 0 THEN "PASS" ELSE "FAIL", "VALID", "VALID",
                    {Picoseconds(slack.num, slack.text)})

-----------------------------------------------------------------------------
Summaries(report) ==
    {i \in 1..(Len(report) - 2) : /\ report[i].is = "required"
                                  /\ report[i+1].is = "arrival"
                                  /\ report[i+2].is = "slack"
                                  /\ report[i+2].text \in {"MET", "VIOLATED"}}

Summary(report) == CHOOSE i \in Summaries(report) : TRUE

FirstArrival(report) ==
    CHOOSE i \in Lines(report, "arrival") : \A k \in Lines(report, "arrival") : i <= k

OpenStaWhole(report) ==
    /\ \A kind \in {"banner", "unit", "startpoint", "endpoint", "group", "type", "worst", "end"} :
          One(report, kind)
    /\ The(report, "banner").text = "3.1.0"
    /\ The(report, "unit").text = "1ns"
    /\ Lines(report, "error") = {}
    /\ Cardinality(Summaries(report)) = 1
    /\ Cardinality(Lines(report, "arrival")) = 2

(* Mutant of OpenStaAgrees: the worst slack is not compared with the path's. *)
OpenStaAgreesButWorst(report) ==
    LET s == Summary(report)
    IN  /\ The(report, "type").text = "max"
        /\ report[s].num + report[s+1].num = report[s+2].num
        /\ report[s+1].num + report[FirstArrival(report)].num = 0
        /\ (report[s+2].text = "MET") <=> (report[s+2].num >= 0)

OpenStaAgrees(report) ==
    LET s == Summary(report)
    IN  /\ The(report, "type").text = "max"
        /\ report[s].num + report[s+1].num = report[s+2].num
        /\ report[s+1].num + report[FirstArrival(report)].num = 0
        /\ The(report, "worst").num = report[s+2].num
        /\ (report[s+2].text = "MET") <=> (report[s+2].num >= 0)

ParseOpenSta(report) ==
    LET worst == {Picoseconds(The(report, "worst").num, "ns")}
    IN  IF ~OpenStaWhole(report) THEN Invalid
        ELSE IF ~OpenStaAgrees(report) THEN Result("OK", "UNKNOWN", "INVALID", "VALID", worst)
        ELSE Result("OK", IF report[Summary(report) + 2].text = "MET" THEN "PASS" ELSE "FAIL",
                    "VALID", "VALID", worst)

parse_report(report) ==
    IF report = <<>> THEN Invalid
    ELSE IF report[1].is = "marker" THEN ParseSynthetic(report)
    ELSE IF report[1].is = "banner" THEN ParseOpenSta(report)
    ELSE Invalid

-----------------------------------------------------------------------------
(* Exit codes are "zero", "nonzero", or "none" where an adapter saw none.  *)

(* Mutant of TrustStatus: the exit code is not looked at.                  *)
TrustStatusOfReport(result, code) ==
    IF result.parse = "INVALID" \/ result.semantic = "INVALID" THEN "INVALID"
    ELSE IF result.provenance = "VALID" THEN "TRUSTED" ELSE "UNKNOWN"

TrustStatus(result, code) ==
    IF result.parse = "INVALID" \/ result.semantic = "INVALID" THEN "INVALID"
    ELSE IF code = "none" THEN "UNKNOWN"
    ELSE IF code = "nonzero" THEN "INVALID"
    ELSE IF <<result.parse, result.semantic, result.provenance>> = <<"OK", "VALID", "VALID">>
         THEN "TRUSTED"
    ELSE "UNKNOWN"

Succeeds(result, code) ==
    ~(result.parse = "INVALID" \/ result.semantic = "INVALID" \/ code = "none" \/ code = "nonzero")

SupervisorAccepts(result, code) ==
    result.parse = "OK" /\ result.semantic = "VALID" /\ code = "zero"
=============================================================================
