---------------------------- MODULE MCRunOutcome ----------------------------
(* RunOutcome for TLC: reports of a passing and of a violated path, whole  *)
(* and with up to MaxDamage edits; synthetic ones as the adapter's         *)
(* profiles write them.                                                    *)
EXTENDS RunOutcome, SequencesExt

CONSTANT MaxDamage

Line(is, text, num) == [is |-> is, text |-> text, num |-> num]

OpenStaReport(arrival, required) ==
    LET slack == required - arrival IN
    << Line("banner", "3.1.0", 0), Line("unit", "1ns", 0), Line("startpoint", "-", 0),
       Line("endpoint", "-", 0), Line("group", "-", 0), Line("type", "max", 0),
       Line("arrival", "-", arrival), Line("required", "-", required), Line("arrival", "-", -arrival),
       Line("slack", IF slack >= 0 THEN "MET" ELSE "VIOLATED", slack),
       Line("worst", "-", slack), Line("end", "-", 0) >>

Edits(report) ==
    {SubSeq(report, 1, n) : n \in 0..Len(report)}
    \cup {RemoveAt(report, i) : i \in DOMAIN report}
    \cup {InsertAt(report, i, report[i]) : i \in DOMAIN report}
    \cup {[report EXCEPT ![i].num = @ + d] :
              i \in {k \in DOMAIN report : report[k].is \in {"arrival", "required", "slack", "worst"}},
              d \in {-1, 1}}
    \cup {[report EXCEPT ![i].text = w] :
              i \in {k \in DOMAIN report : report[k].text # "-"}, w \in {"MET", "VIOLATED", "other"}}
    \cup {Append(report, Line("error", "-", 0))}

Damaged == [n \in {0, 1, 2} |-> [r \in {<<2, 2>>, <<2, 1>>} |->
    LET once == Edits(OpenStaReport(r[1], r[2])) IN
    CASE n = 0 -> {OpenStaReport(r[1], r[2])}
      [] n = 1 -> once
      [] n = 2 -> UNION {Edits(s) : s \in once}]]

MCToolOutput ==
    UNION {{[slack |-> 1000 * (r[2] - r[1]), lines |-> lines] : lines \in Damaged[MaxDamage][r]} :
              r \in {<<2, 2>>, <<2, 1>>}}

SyntheticReport(num, unit) ==
    << Line("marker", "-", 0), Line("source", "-", 0), Line("version", "1", 0), Line("run_id", "-", 0),
       Line("stage", "-", 0), Line("corner", "-", 0), Line("exit_code", "-", 0),
       Line("worst_slack", unit, num) >>

MCSyntheticOutput ==
    {[slack |-> Picoseconds(num, unit), lines |-> SyntheticReport(num, unit)] :
        num \in {-1, 1}, unit \in {"ns", "ps", "cycles"}}
    \cup {[slack |-> 0, lines |-> RemoveAt(SyntheticReport(0, "ns"), 8)]}
=============================================================================
