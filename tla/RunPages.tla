------------------------------ MODULE RunPages ------------------------------
(***************************************************************************)
(* GET /runs (api.py) over list_runs (store.py, postgres_store.py): a page *)
(* selects job_ids by their keys, then reads each Run by a statement of    *)
(* its own, and the next page starts below the last row as it was read.    *)
(* Runs are updated meanwhile.  Jobs are numbers, compared as job_ids are. *)
(***************************************************************************)
EXTENDS Naturals, Sequences, FiniteSets

CONSTANTS
    Job, Status,
    AnyStatus,  \* the absent status parameter
    Limit,
    MaxClock, MaxWrites  \* bounds on the time stamps and on the writes

ASSUME PagesAssumption ==
    /\ Job \subseteq Nat /\ IsFiniteSet(Job)
    /\ Limit \in Nat \ {0}
    /\ MaxClock \in Nat \ {0} /\ MaxWrites \in Nat

VARIABLES
    runs,       \* stored Runs: updated_at and status, by job_id
    clock,
    filter, cursor,
    ids, page,  \* the ids selected for the page being built, its rows so far
    step,       \* "select", "read" or "end"
    shown,      \* the Runs of the pages sent
    touched,    \* the Runs inserted or updated since the listing began
    receded,    \* an update has moved the stamp of a Run back
    writes

pageVars == <<runs, clock, filter, cursor, ids, page, step, shown, touched, receded, writes>>
readerVars == <<filter, cursor, ids, page, step, shown>>

Key == [at : 0..MaxClock, job : Job]
NoCursor == [at |-> MaxClock + 1, job |-> 0]

PagesTypeOK ==
    /\ runs \in UNION {[J -> [at : 0..MaxClock, status : Status]] : J \in SUBSET Job}
    /\ clock \in 0..MaxClock
    /\ filter \in Status \cup {AnyStatus}
    /\ cursor \in Key \cup {NoCursor}
    /\ Len(ids) <= Limit + 1 /\ Len(page) <= Len(ids)
    /\ step \in {"select", "read", "end"}
    /\ shown \subseteq DOMAIN runs /\ touched \subseteq DOMAIN runs
    /\ receded \in BOOLEAN /\ writes \in 0..MaxWrites

PagesInit ==
    /\ \E J \in SUBSET Job : runs \in [J -> [at : {0, 1}, status : Status]]
    /\ clock = 1
    /\ filter \in Status \cup {AnyStatus}
    /\ cursor = NoCursor
    /\ ids = <<>> /\ page = <<>>
    /\ step = "select"
    /\ shown = {} /\ touched = {} /\ receded = FALSE /\ writes = 0

Below(k, l) == k.at < l.at \/ (k.at = l.at /\ k.job < l.job)

KeyOf(j) == [at |-> runs[j].at, job |-> j]

(* Mutant of Newest: no LIMIT.                                             *)
NewestUnlimited(jobs, n) ==
    LET above(j) == Cardinality({k \in jobs : Below(KeyOf(j), KeyOf(k)) })
    IN  [i \in 1..Cardinality(jobs) |-> CHOOSE j \in jobs : above(j) = i - 1]

(* ORDER BY updated_at DESC, job_id DESC LIMIT n                           *)
Newest(jobs, n) ==
    LET above(j) == Cardinality({k \in jobs : Below(KeyOf(j), KeyOf(k)) })
        size == IF Cardinality(jobs) < n THEN Cardinality(jobs) ELSE n
    IN  [i \in 1..size |-> CHOOSE j \in jobs : above(j) = i - 1]

SelectIds ==
    /\ step = "select"
    /\ LET matching == {j \in DOMAIN runs : /\ filter \in {AnyStatus, runs[j].status}
                                            /\ Below(KeyOf(j), cursor)}
       IN  ids' = Newest(matching, Limit + 1)
    /\ page' = <<>>
    /\ step' = "read"
    /\ UNCHANGED <<runs, clock, filter, cursor, shown, touched, receded, writes>>

ReadRun ==
    /\ step = "read"
    /\ Len(page) < Len(ids)
    /\ page' = Append(page, KeyOf(ids[Len(page) + 1]))
    /\ UNCHANGED <<runs, clock, filter, cursor, ids, step, shown, touched, receded, writes>>

(* Mutant of SendPage: the next page starts below the row that showed its existence. *)
SendPageSkipping ==
    /\ step = "read"
    /\ Len(page) = Len(ids)
    /\ shown' = shown \cup {page[i].job : i \in 1..(IF Len(page) > Limit THEN Limit ELSE Len(page))}
    /\ IF Len(page) > Limit
       THEN cursor' = page[Len(page)] /\ step' = "select"
       ELSE step' = "end" /\ UNCHANGED cursor
    /\ UNCHANGED <<runs, clock, filter, ids, page, touched, receded, writes>>

(* limit + 1 rows were asked for, to know whether another page follows.    *)
SendPage ==
    /\ step = "read"
    /\ Len(page) = Len(ids)
    /\ shown' = shown \cup {page[i].job : i \in 1..(IF Len(page) > Limit THEN Limit ELSE Len(page))}
    /\ IF Len(page) > Limit
       THEN cursor' = page[Limit] /\ step' = "select"
       ELSE step' = "end" /\ UNCHANGED cursor
    /\ UNCHANGED <<runs, clock, filter, ids, page, touched, receded, writes>>

(* update_run or create_run: the stamp is taken before the statement waits *)
(* for its turn.                                                           *)
WriteRun(j, s, at) ==
    /\ writes < MaxWrites
    /\ writes' = writes + 1
    /\ runs' = [k \in DOMAIN runs \cup {j} |->
                   IF k = j THEN [at |-> at, status |-> s] ELSE runs[k]]
    /\ touched' = touched \cup {j}
    /\ receded' = (receded \/ (j \in DOMAIN runs /\ at < runs[j].at))
    /\ UNCHANGED <<clock, readerVars>>

PagesTick ==
    /\ clock < MaxClock
    /\ clock' = clock + 1
    /\ UNCHANGED <<runs, readerVars, touched, receded, writes>>

PagesNext ==
    \/ SelectIds \/ ReadRun \/ SendPage
    \/ \E j \in Job, s \in Status, at \in 0..clock : WriteRun(j, s, at)
    \/ PagesTick

PagesSpec == PagesInit /\ [][PagesNext]_pageVars

(* A listing misses no Run that matches the filter and stays as it is,     *)
(* although its pages are cut at rows that move and that were read again   *)
(* after the selection, and although stamps may be equal, unless a late    *)
(* statement moved the stamp of some Run back (store.py:247).              *)
UnchangedRunIsListed ==
    step = "end" /\ ~receded =>
        \A j \in DOMAIN runs \ touched : filter \in {AnyStatus, runs[j].status} => j \in shown

(* The key at which the next page will start, if one follows: the last row *)
(* shown, as it was read, or as it is while it was not read.               *)
Boundary == IF Len(page) < Limit THEN KeyOf(ids[Limit]) ELSE page[Limit]

(* The listing has shown the Run, or is on its way to it. *)
Reached(j) ==
    \/ j \in shown
    \/ step = "select" /\ Below(KeyOf(j), cursor)
    \/ step = "read" /\ \E i \in 1..Len(ids) : i <= Limit /\ ids[i] = j
    \/ step = "read" /\ Len(ids) = Limit + 1 /\ Below(KeyOf(j), Boundary)

(* While no stamp went back, the Runs that match and were not written are  *)
(* all reached, whatever became of the rows around them.                   *)
PagesInv ==
    /\ PagesTypeOK
    /\ ids \in Seq(DOMAIN runs) /\ page \in Seq(Key)
    /\ \A i \in 1..Len(page) : page[i].job = ids[i]
    /\ ~receded =>
          \A j \in DOMAIN runs \ touched : filter \in {AnyStatus, runs[j].status} => Reached(j)
=============================================================================
