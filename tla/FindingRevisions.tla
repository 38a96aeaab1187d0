-------------------------- MODULE FindingRevisions --------------------------
(***************************************************************************)
(* Revisions and their findings, and the question which violations are new *)
(* in a candidate (create_revision, save_findings, new_violations of       *)
(* store.py and postgres_store.py).  The findings of a revision are stored *)
(* after its row, in one transaction; the question reads the rows of both  *)
(* revisions and then their findings, in two statements.                   *)
(***************************************************************************)
EXTENDS Integers, FiniteSets

CONSTANTS
    Revision,
    Meta,      \* [design, conditions, tool] of each revision
    Findings,  \* of each revision: records [path, n, slack], path being the identity
    NoRevision

ASSUME RevisionsAssumption ==
    \A r \in Revision :
        /\ Meta[r] = [design |-> Meta[r].design, conditions |-> Meta[r].conditions, tool |-> Meta[r].tool]
        /\ IsFiniteSet(Findings[r])
        /\ \A f \in Findings[r] : f.slack \in Int

VARIABLES
    stored,         \* "absent", "created" or "saved"
    found,          \* the finding rows of each revision
    base, cand,     \* the question
    settled,        \* which of the two had its findings when it was asked
    answer          \* [kind, new]

revisionVars == <<stored, found, base, cand, settled, answer>>

Open == [kind |-> "none", new |-> {}]

RevisionsTypeOK ==
    /\ stored \in [Revision -> {"absent", "created", "saved"}]
    /\ \A r \in Revision : found[r] \subseteq Findings[r]
    /\ {base, cand} \subseteq Revision \cup {NoRevision}
    /\ settled \subseteq Revision
    /\ answer.kind \in {"none", "asked", "unknown", "INCOMPARABLE", "CONDITION_CHANGED",
                        "TOOL_CHANGED", "COMPARABLE"}

RevisionsInit ==
    /\ stored = [r \in Revision |-> "absent"]
    /\ found = [r \in Revision |-> {}]
    /\ base = NoRevision /\ cand = NoRevision
    /\ settled = {}
    /\ answer = Open

CreateRevision(r) ==
    /\ stored[r] = "absent"
    /\ stored' = [stored EXCEPT ![r] = "created"]
    /\ UNCHANGED <<found, base, cand, settled, answer>>

SaveFindings(r) ==
    /\ stored[r] = "created"
    /\ stored' = [stored EXCEPT ![r] = "saved"]
    /\ found' = [found EXCEPT ![r] = Findings[r]]
    /\ UNCHANGED <<base, cand, settled, answer>>

Comparability(b, c) ==
    IF Meta[b].design # Meta[c].design THEN "INCOMPARABLE"
    ELSE IF Meta[b].conditions # Meta[c].conditions THEN "CONDITION_CHANGED"
    ELSE IF Meta[b].tool # Meta[c].tool THEN "TOOL_CHANGED"
    ELSE "asked"

Ask(b, c) ==
    /\ answer.kind # "asked"
    /\ base' = b /\ cand' = c
    /\ settled' = {r \in {b, c} : stored[r] = "saved"}
    /\ answer' = [Open EXCEPT !.kind = IF "absent" \in {stored[b], stored[c]} THEN "unknown"
                                       ELSE Comparability(b, c)]
    /\ UNCHANGED <<stored, found>>

(* Mutant of NewViolations: a path that met its timing hides the violation. *)
NewViolationsOfNewPaths(b, c) ==
    {f \in found[c] : f.slack < 0 /\ ~\E g \in found[b] : g.path = f.path}

NewViolations(b, c) ==
    {f \in found[c] : f.slack < 0 /\ ~\E g \in found[b] : g.path = f.path /\ g.slack < 0}

Compare ==
    /\ answer.kind = "asked"
    /\ answer' = [kind |-> "COMPARABLE", new |-> NewViolations(base, cand)]
    /\ UNCHANGED <<stored, found, base, cand, settled>>

RevisionsNext ==
    \/ \E r \in Revision : CreateRevision(r) \/ SaveFindings(r)
    \/ \E b, c \in Revision : Ask(b, c)
    \/ Compare

RevisionsSpec == RevisionsInit /\ [][RevisionsNext]_revisionVars

(* The worst slack of a path in a revision, 0 where it was not reported.   *)
Worst(r, path) ==
    LET slacks == {f.slack : f \in {g \in Findings[r] : g.path = path}} \cup {0}
    IN  CHOOSE s \in slacks : \A t \in slacks : s <= t

(* Only revisions of one design under the same conditions, tool and parser *)
(* are compared, and a violation is reported only of a path whose worst    *)
(* slack is negative in the candidate.  Where the findings of the baseline *)
(* were stored when the question was asked, every path reported has turned *)
(* negative; where those of the candidate were, every path that turned     *)
(* negative is reported: an answer over a revision whose findings are not  *)
(* yet stored errs to one side only (store.py:582).                        *)
AnswerErrsToOneSide ==
    LET reported == {f.path : f \in answer.new}
        paths == {f.path : f \in UNION {Findings[r] : r \in Revision}}
        turned == {p \in paths : Worst(base, p) = 0 /\ Worst(cand, p) < 0}
    IN  IF answer.kind # "COMPARABLE" THEN reported = {}
        ELSE /\ Meta[base] = Meta[cand]
             /\ \A p \in reported : Worst(cand, p) < 0
             /\ base \in settled => reported \subseteq turned
             /\ cand \in settled => turned \subseteq reported

(* The findings are stored or not with the revision, what is being         *)
(* compared is comparable, and a violation is reported that the candidate  *)
(* has and a settled baseline has not, and each such one of a settled      *)
(* candidate.                                                              *)
RevisionsInv ==
    /\ RevisionsTypeOK
    /\ found = [r \in Revision |-> IF stored[r] = "saved" THEN Findings[r] ELSE {}]
    /\ answer.kind \in {"asked", "COMPARABLE"} =>
          /\ base \in Revision /\ cand \in Revision /\ Meta[base] = Meta[cand]
          /\ \A r \in settled : stored[r] = "saved"
    /\ answer.kind # "COMPARABLE" => answer.new = {}
    /\ answer.kind = "COMPARABLE" =>
          LET old == {g.path : g \in {h \in Findings[base] : h.slack < 0}}
          IN  /\ answer.new \subseteq {f \in Findings[cand] : f.slack < 0}
              /\ base \in settled => \A f \in answer.new : f.path \notin old
              /\ cand \in settled =>
                    \A f \in Findings[cand] : f.slack < 0 /\ f.path \notin old => f \in answer.new
=============================================================================
