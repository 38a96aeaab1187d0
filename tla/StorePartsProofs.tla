--------------------------- MODULE StorePartsProofs ---------------------------
(* Proofs about ResourceSlots, for any callers, adapters and resources, and *)
(* about StoreMigration, for any processes and any number of columns.      *)
EXTENDS ResourceSlots, StoreMigration, TLAPS

(* Who is inside run() holds the resource of its adapter, and a resource   *)
(* that is held, is held by somebody inside.                               *)
Holding(c) ==
    /\ (at[c] = "out") = (on[c] = Nobody)
    /\ at[c] # "out" => lock[ResourceOf[on[c]]] = c
    /\ at[c] = "acquired" => on[c] \in Real

SlotsInv == SlotsTypeOK /\ (\A c \in Caller : Holding(c)) /\ SlotReturned /\ UserIsUndisturbed

(* The adapter a caller is on, and its resource. *)
LEMMA Inside ==
    ASSUME SlotsInv, NEW c \in Caller, at[c] # "out"
    PROVE  on[c] \in Adapter /\ ResourceOf[on[c]] \in Resource /\ lock[ResourceOf[on[c]]] = c
  BY SlotsAssumption DEF SlotsInv, SlotsTypeOK, Holding

(* A caller moves on inside run(), opening or closing at most its own client. *)
LEMMA MovesInside ==
    ASSUME SlotsInv, NEW c \in Caller, NEW to \in {"executing", "collecting", "releasing", "closed"},
           at[c] # "out", at' = [at EXCEPT ![c] = to], UNCHANGED <<lock, on>>,
           opened' \subseteq Real,
           \A a \in opened : a # on[c] => a \in opened',
           to # "closed" /\ on[c] \in Real => on[c] \in opened'
    PROVE  SlotsInv'
  <1>1. SlotsTypeOK'
    BY DEF SlotsInv, SlotsTypeOK
  <1>2. \A d \in Caller : Holding(d)'
    BY DEF SlotsInv, SlotsTypeOK, Holding
  <1>3. SlotReturned'
    BY DEF SlotsInv, SlotsTypeOK, SlotReturned
  <1>4. ASSUME NEW d \in Caller, at'[d] \in {"executing", "collecting", "releasing"}
        PROVE  lock'[ResourceOf[on'[d]]] = d /\ (on'[d] \in Real => on'[d] \in opened')
    <2>1. CASE d = c
      BY <1>4, <2>1, Inside DEF SlotsInv, SlotsTypeOK
    <2>2. CASE d # c
      <3>1. at'[d] = at[d]
        BY <2>2 DEF SlotsInv, SlotsTypeOK
      <3>2. on[d] # on[c]
        BY <1>4, <2>2, <3>1, Inside
      <3> QED  BY <1>4, <3>1, <3>2 DEF SlotsInv, UserIsUndisturbed
    <2> QED  BY <2>1, <2>2
  <1> QED  BY <1>1, <1>2, <1>3, <1>4 DEF SlotsInv, UserIsUndisturbed

(* A caller leaves run() and returns the resource. *)
LEMMA Leaves ==
    ASSUME SlotsInv, NEW c \in Caller, at[c] # "out", at' = [at EXCEPT ![c] = "out"],
           Unlock(c), UNCHANGED opened
    PROVE  SlotsInv'
  <1>0. on[c] \in Adapter /\ ResourceOf[on[c]] \in Resource /\ lock[ResourceOf[on[c]]] = c
    BY Inside
  <1>1. SlotsTypeOK'
    BY <1>0 DEF Unlock, SlotsInv, SlotsTypeOK
  <1>2. ASSUME NEW d \in Caller, d # c
        PROVE  /\ at'[d] = at[d] /\ on'[d] = on[d]
               /\ at[d] # "out" => lock'[ResourceOf[on[d]]] = d
    <2>1. at[d] # "out" => ResourceOf[on[d]] # ResourceOf[on[c]] /\ lock[ResourceOf[on[d]]] = d
                           /\ ResourceOf[on[d]] \in Resource
      BY <1>0, <1>2, Inside
    <2> QED  BY <1>2, <2>1 DEF Unlock, SlotsInv, SlotsTypeOK
  <1>3. at'[c] = "out" /\ on'[c] = Nobody
    BY DEF Unlock, SlotsInv, SlotsTypeOK
  <1>4. \A d \in Caller : Holding(d)'
    BY <1>2, <1>3 DEF SlotsInv, Holding
  <1>5. SlotReturned'
    <2>1. SUFFICES ASSUME NEW r \in Resource, NEW d \in Caller, lock'[r] = d
                   PROVE  at'[d] # "out" /\ ResourceOf[on'[d]] = r
      BY DEF SlotReturned
    <2>2. lock[r] = d /\ r # ResourceOf[on[c]]
      BY <1>0, <2>1, SlotsAssumption DEF Unlock, SlotsInv, SlotsTypeOK
    <2>3. at[d] # "out" /\ ResourceOf[on[d]] = r
      BY <2>2 DEF SlotsInv, SlotReturned
    <2> QED  BY <1>2, <2>2, <2>3
  <1>6. UserIsUndisturbed'
    BY <1>2, <1>3 DEF SlotsInv, UserIsUndisturbed
  <1> QED  BY <1>1, <1>4, <1>5, <1>6 DEF SlotsInv

(* A caller enters run() where nobody holds the resource. *)
LEMMA Enters ==
    ASSUME SlotsInv, NEW c \in Caller, NEW a \in Adapter, Acquire(c, a)
    PROVE  SlotsInv'
  <1>0. ResourceOf[a] \in Resource /\ at[c] = "out" /\ lock[ResourceOf[a]] = Nobody
    BY SlotsAssumption DEF Acquire, Go
  <1>1. SlotsTypeOK'
    BY <1>0 DEF Acquire, Go, SlotsInv, SlotsTypeOK
  <1>2. /\ at'[c] = (IF a \in Real THEN "acquired" ELSE "executing") /\ on'[c] = a
        /\ lock'[ResourceOf[a]] = c /\ UNCHANGED opened
    BY <1>0 DEF Acquire, Go, SlotsInv, SlotsTypeOK
  <1>3. ASSUME NEW d \in Caller, d # c
        PROVE  /\ at'[d] = at[d] /\ on'[d] = on[d]
               /\ at[d] # "out" => lock'[ResourceOf[on[d]]] = d
    <2>1. at[d] # "out" => ResourceOf[on[d]] # ResourceOf[a] /\ lock[ResourceOf[on[d]]] = d
      BY <1>0, Inside, SlotsAssumption
    <2> QED  BY <1>3, <2>1 DEF Acquire, Go, SlotsInv, SlotsTypeOK
  <1>4. \A d \in Caller : Holding(d)'
    BY <1>2, <1>3, SlotsAssumption DEF SlotsInv, Holding
  <1>5. SlotReturned'
    <2>1. SUFFICES ASSUME NEW r \in Resource, NEW d \in Caller, lock'[r] = d
                   PROVE  at'[d] # "out" /\ ResourceOf[on'[d]] = r
      BY DEF SlotReturned
    <2>2. CASE r = ResourceOf[a]
      BY <1>2, <2>1, <2>2
    <2>3. CASE r # ResourceOf[a]
      <3>1. lock[r] = d
        BY <2>1, <2>3 DEF Acquire, SlotsInv, SlotsTypeOK
      <3>2. at[d] # "out" /\ ResourceOf[on[d]] = r
        BY <3>1 DEF SlotsInv, SlotReturned
      <3> QED  BY <1>0, <1>3, <3>2
    <2> QED  BY <2>2, <2>3
  <1>6. UserIsUndisturbed'
    BY <1>2, <1>3 DEF SlotsInv, UserIsUndisturbed
  <1> QED  BY <1>1, <1>4, <1>5, <1>6 DEF SlotsInv

(* The two properties of the slots are part of an invariant of every step. *)
LEMMA SlotsStep == SlotsInv /\ [SlotsNext]_slotVars => SlotsInv'
  <1> SUFFICES ASSUME SlotsInv, [SlotsNext]_slotVars PROVE SlotsInv'
    OBVIOUS
  <1>1. CASE UNCHANGED slotVars
    BY <1>1 DEF slotVars, SlotsInv, SlotsTypeOK, Holding, SlotReturned, UserIsUndisturbed
  <1>2. ASSUME NEW c \in Caller, OpenClient(c) PROVE SlotsInv'
    <2>1. on[c] \in Real /\ at[c] = "acquired"
      BY <1>2 DEF OpenClient, Go, SlotsInv, Holding
    <2> QED  BY <1>2, <2>1, MovesInside DEF OpenClient, Go, SlotsInv, SlotsTypeOK
  <1>3. ASSUME NEW c \in Caller, Execute(c) \/ Collect(c) PROVE SlotsInv'
    <2>1. PICK to \in {"collecting", "releasing"} : at' = [at EXCEPT ![c] = to]
      BY <1>3 DEF Execute, Collect, Go
    <2>2. at[c] \in {"executing", "collecting"} /\ UNCHANGED <<lock, on, opened>>
      BY <1>3 DEF Execute, Collect, Go
    <2>3. on[c] \in Real => on[c] \in opened
      BY <2>2 DEF SlotsInv, UserIsUndisturbed
    <2> QED  BY <2>1, <2>2, <2>3, MovesInside DEF SlotsInv, SlotsTypeOK
  <1>4. ASSUME NEW c \in Caller, Close(c) PROVE SlotsInv'
    <2>1. /\ at[c] = "releasing" /\ at' = [at EXCEPT ![c] = "closed"]
          /\ UNCHANGED <<lock, on>> /\ opened' \in {opened, opened \ {on[c]}}
      BY <1>4 DEF Close, Go
    <2> QED  BY <2>1, MovesInside DEF SlotsInv, SlotsTypeOK
  <1>5. ASSUME NEW c \in Caller, OpenFails(c) \/ Release(c) PROVE SlotsInv'
    BY <1>5, Leaves DEF OpenFails, Release, Go
  <1> QED
    BY <1>1, <1>2, <1>3, <1>4, <1>5, Enters DEF SlotsNext

(* Nobody is inside at first. *)
LEMMA SlotsStart == SlotsInit => SlotsInv
  <1> SUFFICES ASSUME SlotsInit PROVE SlotsInv
    OBVIOUS
  <1>1. SlotsTypeOK
    BY DEF SlotsInit, SlotsTypeOK
  <1> QED
    BY <1>1, SlotsAssumption
    DEF SlotsInit, SlotsInv, Holding, SlotReturned, UserIsUndisturbed

(* No path out of run(), with an error or without, keeps a device's lock.  *)
THEOREM SlotsAreReturned == SlotsSpec => []SlotReturned
  <1>1. SlotsInv => SlotReturned
    BY DEF SlotsInv
  <1> QED  BY <1>1, SlotsStart, SlotsStep, PTL DEF SlotsSpec

(* A caller that uses a device holds it alone, with its client connected.  *)
THEOREM UsersAreUndisturbed == SlotsSpec => []UserIsUndisturbed
  <1>1. SlotsInv => UserIsUndisturbed
    BY DEF SlotsInv
  <1> QED  BY <1>1, SlotsStart, SlotsStep, PTL DEF SlotsSpec

-----------------------------------------------------------------------------
(* A constructor of SQLite's store has seen the columns before next; one   *)
(* of PostgreSQL's that locks tables was told to migrate.                  *)
Progress(p) ==
    /\ stage[p] \in {"check", "alter"} => engine = "sqlite" /\ \A i \in All : i < next[p] => i \in cols
    /\ stage[p] = "alter" => next[p] \in All
    /\ stage[p] \in {"lock_attempts", "lock_requests", "commit"} => engine = "postgres" /\ Migrates(p)
    /\ stage[p] \in Usable /\ Migrates(p) => cols = All

MigrationInv == MigrationTypeOK /\ (\A p \in Process : Progress(p)) /\ MigrationIsAlone

(* One column after the other. *)
LEMMA Columnwise ==
    /\ \A n \in All : n + 1 \in All \cup {Columns + 1}
    /\ \A n \in All \cup {Columns + 1} : (n > Columns) = (n \notin All)
    /\ \A i, n \in All : i < n + 1 => i < n \/ i = n
    /\ \A i \in All : i < Columns + 1
    /\ 1 \in All /\ \A i \in All : ~(i < 1)
  BY ColumnsAssumption DEF All

(* A process moves on; the schema it leaves behind has all that the others *)
(* saw, and what it locks was free.                                        *)
LEMMA ProcessMoves ==
    ASSUME MigrationInv, NEW p \in Process, NEW to,
           stage' = [stage EXCEPT ![p] = to], UNCHANGED <<engine, auto>>,
           to \in {"closed", "check", "alter", "lock_attempts", "lock_requests", "commit"} \cup Usable,
           cols \subseteq cols', cols' \subseteq All,
           next' \in [Process -> All \cup {Columns + 1}],
           \A q \in Process : q # p => next'[q] = next[q],
           to = "lock_requests" => Holders({"lock_requests", "commit"}) = {},
           to = "commit" => stage[p] = "lock_requests" /\ Holders({"operating"}) = {},
           to = "operating" => Holders({"commit"}) = {},
           Progress(p)'
    PROVE  MigrationInv'
  <1>1. MigrationTypeOK'
    BY DEF MigrationInv, MigrationTypeOK
  <1>2. ASSUME NEW q \in Process, q # p PROVE Progress(q)'
    BY <1>2 DEF MigrationInv, MigrationTypeOK, Progress, Migrates
  <1>3. \A q \in Process : stage'[q] = IF q = p THEN to ELSE stage[q]
    BY DEF MigrationInv, MigrationTypeOK
  <1>4. ASSUME NEW q \in Process, stage'[q] \in {"lock_requests", "commit"}
        PROVE  /\ Migrates(q)' /\ Holders({"lock_requests", "commit"})' = {q}
               /\ stage'[q] = "commit" => Holders({"operating"})' = {}
    <2>1. Migrates(q)'
      BY <1>2, <1>4 DEF Progress
    <2>2. CASE q # p
      BY <1>3, <1>4, <2>1, <2>2 DEF MigrationInv, MigrationIsAlone, Holders
    <2>3. CASE q = p
      BY <1>3, <1>4, <2>1, <2>3 DEF MigrationInv, MigrationIsAlone, Holders
    <2> QED  BY <2>2, <2>3
  <1>5. MigrationIsAlone'
    BY <1>4 DEF MigrationIsAlone, Holders
  <1> QED  BY <1>1, <1>2, <1>5 DEF MigrationInv

(* Every step of a constructor, and of the processes beside it, preserves the invariant. *)
LEMMA MigrationStep == MigrationInv /\ [MigrationNext]_schemaVars => MigrationInv'
  <1> SUFFICES ASSUME MigrationInv, [MigrationNext]_schemaVars PROVE MigrationInv'
    OBVIOUS
  <1>0. MigrationTypeOK
    BY DEF MigrationInv
  <1>1. CASE UNCHANGED schemaVars
    BY <1>1 DEF schemaVars, MigrationInv, MigrationTypeOK, Progress, MigrationIsAlone, Holders, Migrates
  <1>2. ASSUME NEW p \in Process, Construct(p) PROVE MigrationInv'
    <2>1. PICK to \in {"check", "lock_attempts", "open"} : stage' = [stage EXCEPT ![p] = to]
      BY <1>2 DEF Construct, Enter
    <2>2. stage'[p] = to /\ next'[p] = 1 /\ UNCHANGED <<engine, auto, cols>>
      BY <1>0, <1>2, <2>1 DEF Construct, Enter, MigrationTypeOK
    <2>3. /\ to = "check" => engine = "sqlite"
          /\ to = "lock_attempts" => engine = "postgres" /\ Migrates(p)
          /\ to = "open" => ~Migrates(p)
      BY <1>0, <1>2, <2>1, <2>2 DEF Construct, Enter, Migrates, MigrationTypeOK
    <2>4. Progress(p)'
      BY <2>2, <2>3, Columnwise DEF Progress, Usable, Migrates
    <2> QED
      BY <1>0, <1>2, <2>1, <2>2, <2>4, Columnwise, ProcessMoves DEF Construct, MigrationTypeOK, Usable
  <1>3. ASSUME NEW p \in Process, CheckColumn(p) PROVE MigrationInv'
    <2>1. stage[p] = "check" /\ Progress(p) /\ next[p] \in All \cup {Columns + 1}
      BY <1>0, <1>3 DEF CheckColumn, Enter, MigrationInv, MigrationTypeOK
    <2>2. UNCHANGED <<engine, auto, cols>>
      BY <1>3 DEF CheckColumn
    <2>3. CASE next[p] \notin All
      <3>1. stage' = [stage EXCEPT ![p] = "open"] /\ UNCHANGED next
        BY <1>3, <2>1, <2>3, Columnwise DEF CheckColumn, Enter
      <3>2. cols = All
        BY <1>0, <2>1, <2>3, Columnwise DEF Progress, MigrationTypeOK
      <3>3. Progress(p)'
        BY <1>0, <2>2, <3>1, <3>2 DEF Progress, Usable, MigrationTypeOK
      <3> QED  BY <1>0, <2>2, <3>1, <3>3, ProcessMoves DEF MigrationTypeOK, Usable
    <2>4. CASE next[p] \in cols
      <3>1. stage' = [stage EXCEPT ![p] = "check"] /\ next' = [next EXCEPT ![p] = @ + 1]
        BY <1>0, <1>3, <2>1, <2>4, Columnwise DEF CheckColumn, Enter, MigrationTypeOK
      <3>2. next[p] \in All /\ next'[p] = next[p] + 1 /\ stage'[p] = "check"
        BY <1>0, <2>4, <3>1 DEF MigrationTypeOK
      <3>3. \A i \in All : i < next'[p] => i \in cols
        BY <2>1, <2>4, <3>2, Columnwise DEF Progress
      <3>4. Progress(p)'
        BY <2>1, <2>2, <3>2, <3>3 DEF Progress, Usable
      <3>5. next' \in [Process -> All \cup {Columns + 1}]
        BY <1>0, <3>1, <3>2, Columnwise DEF MigrationTypeOK
      <3> QED  BY <1>0, <2>2, <3>1, <3>4, <3>5, ProcessMoves DEF MigrationTypeOK, Usable
    <2>5. CASE next[p] \in All \ cols
      <3>1. stage' = [stage EXCEPT ![p] = "alter"] /\ UNCHANGED next
        BY <1>3, <2>1, <2>5, Columnwise DEF CheckColumn, Enter
      <3>2. Progress(p)'
        BY <1>0, <2>1, <2>2, <2>5, <3>1 DEF Progress, Usable, MigrationTypeOK
      <3> QED  BY <1>0, <2>2, <3>1, <3>2, ProcessMoves DEF MigrationTypeOK, Usable
    <2> QED  BY <2>1, <2>3, <2>4, <2>5
  <1>4. ASSUME NEW p \in Process, AddColumn(p) PROVE MigrationInv'
    <2>1. /\ stage[p] = "alter" /\ Progress(p) /\ next[p] \in All
          /\ cols' = cols \cup {next[p]} /\ UNCHANGED <<engine, auto>>
          /\ engine = "sqlite" /\ \A i \in All : i < next[p] => i \in cols
      BY <1>4 DEF AddColumn, Enter, MigrationInv, Progress
    <2>2. CASE next[p] \in cols
      <3>1. stage' = [stage EXCEPT ![p] = "closed"] /\ next' = [next EXCEPT ![p] = @] /\ cols' = cols
        BY <1>4, <2>1, <2>2 DEF AddColumn, Enter
      <3>2. next' = next /\ stage'[p] = "closed"
        BY <1>0, <3>1 DEF MigrationTypeOK
      <3>3. Progress(p)'
        BY <3>2 DEF Progress, Usable
      <3> QED  BY <1>0, <2>1, <3>1, <3>2, <3>3, ProcessMoves DEF MigrationTypeOK
    <2>3. CASE next[p] \notin cols
      <3>1. stage' = [stage EXCEPT ![p] = "check"] /\ next' = [next EXCEPT ![p] = @ + 1]
        BY <1>4, <2>3 DEF AddColumn, Enter
      <3>2. next'[p] = next[p] + 1 /\ stage'[p] = "check"
        BY <1>0, <3>1 DEF MigrationTypeOK
      <3>3. \A i \in All : i < next'[p] => i \in cols'
        BY <2>1, <3>2, Columnwise
      <3>4. Progress(p)'
        BY <2>1, <3>2, <3>3 DEF Progress, Usable
      <3>5. next' \in [Process -> All \cup {Columns + 1}]
        BY <1>0, <2>1, <3>1, Columnwise DEF MigrationTypeOK
      <3> QED  BY <1>0, <2>1, <3>1, <3>4, <3>5, ProcessMoves DEF MigrationTypeOK
    <2> QED  BY <2>2, <2>3
  <1>5. ASSUME NEW p \in Process, LockAttempts(p) \/ LockRequests(p) PROVE MigrationInv'
    <2>1. PICK to \in {"lock_requests", "commit"} :
            /\ stage' = [stage EXCEPT ![p] = to]
            /\ to = "lock_requests" => Holders({"lock_requests", "commit"}) = {}
            /\ to = "commit" => stage[p] = "lock_requests" /\ Holders({"operating"}) = {}
      BY <1>5 DEF LockAttempts, LockRequests, Enter
    <2>2. /\ stage[p] \in {"lock_attempts", "lock_requests"}
          /\ UNCHANGED <<engine, auto, cols, next>>
      BY <1>5 DEF LockAttempts, LockRequests, Enter
    <2>3. Progress(p)'
      BY <1>0, <2>1, <2>2 DEF Progress, Usable, Migrates, MigrationInv, MigrationTypeOK
    <2> QED  BY <1>0, <2>1, <2>2, <2>3, ProcessMoves DEF MigrationTypeOK
  <1>6. ASSUME NEW p \in Process, Commit(p) PROVE MigrationInv'
    <2>1. /\ stage' = [stage EXCEPT ![p] = "open"] /\ cols' = All /\ UNCHANGED <<engine, auto, next>>
          /\ engine = "postgres"
      BY <1>6 DEF Commit, Enter, MigrationInv, Progress
    <2>2. Progress(p)'
      BY <1>0, <2>1 DEF Progress, Usable, MigrationTypeOK
    <2> QED  BY <1>0, <2>1, <2>2, ProcessMoves DEF MigrationTypeOK, Usable
  <1>7. ASSUME NEW p \in Process, Operate(p) \/ BreakDeadlock(p) \/ Die(p) PROVE MigrationInv'
    <2>1. PICK to \in {"closed", "open", "operating"} :
            /\ stage' = [stage EXCEPT ![p] = to]
            /\ to = "operating" => Holders({"commit"}) = {}
      BY <1>7 DEF Operate, BreakDeadlock, Die, Enter
    <2>2. /\ to # "closed" => stage[p] \in Usable
          /\ UNCHANGED <<engine, auto, cols, next>>
      BY <1>0, <1>7, <2>1 DEF Operate, BreakDeadlock, Die, Enter, Usable, MigrationTypeOK
    <2>3. Progress(p)'
      BY <1>0, <2>1, <2>2 DEF Progress, Usable, MigrationInv, MigrationTypeOK, Migrates
    <2> QED  BY <1>0, <2>1, <2>2, <2>3, ProcessMoves DEF MigrationTypeOK, Usable
  <1> QED  BY <1>1, <1>2, <1>3, <1>4, <1>5, <1>6, <1>7 DEF MigrationNext

(* A closed store satisfies it, whatever its schema. *)
LEMMA MigrationStart == MigrationInit => MigrationInv
  BY ColumnsAssumption, SMTT(30) DEF MigrationInit, MigrationInv, MigrationTypeOK, Progress,
     MigrationIsAlone, Holders, Usable, All

(* Whoever opened a store whose constructor migrates, has every column,    *)
(* however many constructors raced and died.                               *)
THEOREM OpenedStoreIsComplete == MigrationSpec => []OpenedIsComplete
  <1>1. MigrationInv => OpenedIsComplete
    BY DEF MigrationInv, Progress, OpenedIsComplete
  <1> QED  BY <1>1, MigrationStart, MigrationStep, PTL DEF MigrationSpec

(* PostgreSQL's tables are altered by one process at a time, one that is   *)
(* told to migrate, and never under a running operation, for any number of *)
(* processes that start, operate, die and are rolled back.                 *)
THEOREM MigrationExcludesOperations == MigrationSpec => []MigrationIsAlone
  <1>1. MigrationInv => MigrationIsAlone
    BY DEF MigrationInv
  <1> QED  BY <1>1, MigrationStart, MigrationStep, PTL DEF MigrationSpec
===============================================================================
