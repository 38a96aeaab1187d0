--------------------------- MODULE StoreMigration ---------------------------
(***************************************************************************)
(* Opening a store of an older schema.  SQLite's Store checks and adds one *)
(* column after the other, each ALTER committing by itself (store.py 81 to *)
(* 134); PostgresStore migrates in one transaction that locks the attempts *)
(* and then the requests (postgres_store.py 29), or not at all where       *)
(* EDA_POSTGRES_AUTO_MIGRATE is off (__main__.py), while the processes     *)
(* that are open lock the same tables the other way round (186).           *)
(***************************************************************************)
EXTENDS Naturals

CONSTANTS
    Process,
    Api,      \* the processes that construct their store by api.py, which always migrates
    Columns   \* the columns to add are 1..Columns, the last one being the requests'

ASSUME ColumnsAssumption == Columns \in Nat \ {0}

VARIABLES
    engine,   \* "sqlite" or "postgres"
    auto,     \* EDA_POSTGRES_AUTO_MIGRATE
    cols,     \* the columns the schema has
    stage,    \* where the constructor of each process is, or its operation
    next      \* the column a SQLite constructor has come to

schemaVars == <<engine, auto, cols, stage, next>>

All == 1..Columns
Migrates(p) == engine = "sqlite" \/ auto \/ p \in Api
Usable == {"open", "operating"}

MigrationTypeOK ==
    /\ engine \in {"sqlite", "postgres"} /\ auto \in BOOLEAN
    /\ cols \subseteq All
    /\ stage \in [Process -> {"closed", "check", "alter", "lock_attempts", "lock_requests",
                              "commit"} \cup Usable]
    /\ next \in [Process -> All \cup {Columns + 1}]

MigrationInit ==
    /\ engine \in {"sqlite", "postgres"} /\ auto \in BOOLEAN
    /\ cols \in {1..n : n \in 0..Columns}
    /\ stage = [p \in Process |-> "closed"]
    /\ next = [p \in Process |-> 1]

Enter(p, from, to) == stage[p] = from /\ stage' = [stage EXCEPT ![p] = to]
Holders(s) == {p \in Process : stage[p] \in s}

Construct(p) ==
    /\ Enter(p, "closed", IF engine = "sqlite" THEN "check"
                          ELSE IF Migrates(p) THEN "lock_attempts" ELSE "open")
    /\ next' = [next EXCEPT ![p] = 1]
    /\ UNCHANGED <<engine, auto, cols>>

(* Mutant of CheckColumn: a schema that has the first column has them all. *)
CheckFirstColumn(p) ==
    /\ \/ 1 \in cols /\ Enter(p, "check", "open")
       \/ 1 \notin cols /\ Enter(p, "check", "alter")
    /\ UNCHANGED <<engine, auto, cols, next>>

(* PRAGMA table_info                                                       *)
CheckColumn(p) ==
    /\ IF next[p] > Columns THEN Enter(p, "check", "open") /\ UNCHANGED next
       ELSE IF next[p] \in cols
       THEN Enter(p, "check", "check") /\ next' = [next EXCEPT ![p] = @ + 1]
       ELSE Enter(p, "check", "alter") /\ UNCHANGED next
    /\ UNCHANGED <<engine, auto, cols>>

(* ALTER TABLE raises where another process was faster; the caller may     *)
(* construct the store again.                                              *)
AddColumn(p) ==
    /\ Enter(p, "alter", IF next[p] \in cols THEN "closed" ELSE "check")
    /\ cols' = cols \cup {next[p]}
    /\ next' = [next EXCEPT ![p] = IF @ \in cols THEN @ ELSE @ + 1]
    /\ UNCHANGED <<engine, auto>>

(* Mutant of LockAttempts: no transaction, so that each ALTER commits by    *)
(* itself and gives its lock back.                                         *)
LockAttemptsAutocommit(p) ==
    /\ Enter(p, "lock_attempts", "lock_requests")
    /\ UNCHANGED <<engine, auto, cols, next>>

LockAttempts(p) ==
    /\ Enter(p, "lock_attempts", "lock_requests")
    /\ Holders({"lock_requests", "commit"}) = {}
    /\ UNCHANGED <<engine, auto, cols, next>>

LockRequests(p) ==
    /\ Enter(p, "lock_requests", "commit")
    /\ Holders({"operating"}) = {}
    /\ UNCHANGED <<engine, auto, cols, next>>

Commit(p) ==
    /\ Enter(p, "commit", "open")
    /\ cols' = All
    /\ UNCHANGED <<engine, auto, next>>

(* A worker's release_terminal_execution_requests: the requests first, the  *)
(* attempts with the end of the statement.                                 *)
Operate(p) ==
    /\ engine = "postgres" /\ p \notin Api
    /\ \/ Enter(p, "open", "operating") /\ Holders({"commit"}) = {}
       \/ Enter(p, "operating", "open") /\ Holders({"lock_requests", "commit"}) = {}
    /\ UNCHANGED <<engine, auto, cols, next>>

(* A migration that waits for an operation that waits for it.              *)
Deadlocked == Holders({"operating"}) # {} /\ Holders({"lock_requests"}) # {}

(* PostgreSQL rolls one of the two back.  It raises, and neither the       *)
(* constructor nor the worker's loop catches it.                           *)
BreakDeadlock(p) ==
    /\ Deadlocked
    /\ Enter(p, "operating", "closed") \/ Enter(p, "lock_requests", "closed")
    /\ UNCHANGED <<engine, auto, cols, next>>

Die(p) ==
    /\ stage[p] # "closed"
    /\ stage' = [stage EXCEPT ![p] = "closed"]
    /\ UNCHANGED <<engine, auto, cols, next>>

MigrationNext ==
    \E p \in Process :
        \/ Construct(p) \/ CheckColumn(p) \/ AddColumn(p)
        \/ LockAttempts(p) \/ LockRequests(p) \/ Commit(p)
        \/ Operate(p) \/ BreakDeadlock(p) \/ Die(p)

MigrationSpec == MigrationInit /\ [][MigrationNext]_schemaVars

(* A process whose constructor migrates uses a store that has every        *)
(* column, although others migrate at the same time and some of them died  *)
(* on the way (store.py:131).                                              *)
OpenedIsComplete == \A p \in Process : stage[p] \in Usable /\ Migrates(p) => cols = All

(* PostgreSQL's tables are altered by one process at a time, one that is   *)
(* told to migrate, and never under a running operation: a deadlock has    *)
(* one migration in it, and to roll that back ends it                      *)
(* (postgres_store.py:60).                                                 *)
MigrationIsAlone ==
    \A p \in Holders({"lock_requests", "commit"}) :
        /\ Migrates(p) /\ Holders({"lock_requests", "commit"}) = {p}
        /\ stage[p] = "commit" => Holders({"operating"}) = {}
=============================================================================
