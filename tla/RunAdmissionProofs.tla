-------------------------- MODULE RunAdmissionProofs --------------------------
(* Proofs about RunAdmission, for any numbers of processes, handler        *)
(* threads, clients, keys and specifications, and any budget.              *)
EXTENDS RunAdmission, FiniteSetTheorems, TLAPS

(* A thread that is not idle works for a client, on that client's key. *)
LEMMA BusyThread ==
    ASSUME TypeOK, NEW t \in Thread, ThreadInv(t), pc[t] # "idle"
    PROVE  peer[t] \in Client /\ Key(t) \in Job /\ Wants[peer[t]].body \in Body
  <1>1. peer[t] \in Client
    BY DEF TypeOK, ThreadInv
  <1> QED  BY <1>1, WantsAssumption DEF Key

(* The columns, threads and clients hold values of their domains at first, *)
LEMMA InitTypeOK == Init => TypeOK
  BY AdmissionBounds, SMTT(30) DEF Init, TypeOK

(* and after a step of a handler, *)
LEMMA HandleTypeOK ==
    ASSUME AdmissionInv, NEW t \in Thread, Handle(t)
    PROVE  TypeOK'
  <1>1. TypeOK /\ ThreadInv(t)
    BY DEF AdmissionInv
  <1>2. pc[t] # "idle" => peer[t] \in Client /\ Key(t) \in Job /\ Wants[peer[t]].body \in Body
    BY <1>1, BusyThread
  <1>3. ExistingAnswer(t) \in {"accepted", "conflict"}
    BY DEF ExistingAnswer
  <1>4. CASE LookUp(t)
    BY <1>1, <1>3, <1>4, SMTT(30)
    DEF LookUp, Decide, Continue, TypeOK, rowVars, clientVars
  <1>5. CASE CreateRun(t)
    BY <1>1, <1>2, <1>5, SMTT(30)
    DEF CreateRun, Decide, Continue, TypeOK, rowVars, clientVars, InFlightStatus
  <1>6. CASE Reread(t)
    BY <1>1, <1>3, <1>6, SMTT(30)
    DEF Reread, Decide, TypeOK, rowVars, clientVars
  <1>7. CASE Schedule(t)
    <2>1. CASE mode = "local"
      <3>1. futures' = [futures EXCEPT ![host[t]] = @ \cup {Key(t)}]
        BY <1>7, <2>1 DEF Schedule
      <3>2. Key(t) \in Job
        BY <1>2, <1>7 DEF Schedule
      <3>3. futures \in [Proc -> SUBSET Job]
        BY <1>1 DEF TypeOK
      <3>4. \A p \in Proc : futures[p] \cup {Key(t)} \in SUBSET Job
        BY <3>2, <3>3
      <3>5. futures' \in [Proc -> SUBSET Job]
        BY <3>1, <3>3, <3>4
      <3> QED
        BY <1>1, <1>7, <3>5, SMTT(30) DEF Schedule, Decide, TypeOK, rowVars, clientVars
    <2>2. CASE mode # "local"
      BY <1>1, <1>7, <2>2, SMTT(30) DEF Schedule, Decide, TypeOK, rowVars, clientVars
    <2> QED  BY <2>1, <2>2
  <1>8. CASE Respond(t)
    <2>1. /\ line' \in [Client -> Thread \cup {Nobody}]
          /\ tries' \in [Client -> 0..MaxRetries]
          /\ told' \in [Client -> {"nothing", "accepted", "conflict", "exhausted"}]
      <3>1. peer[t] \in Client /\ verdict[t] \in {"accepted", "conflict", "busy"}
        BY <1>1, <1>2, <1>8 DEF Respond, ThreadInv, TypeOK
      <3>2. CASE line[peer[t]] # t
        BY <1>1, <1>8, <3>2 DEF Respond, TypeOK, clientVars
      <3>3. CASE line[peer[t]] = t /\ verdict[t] # "busy"
        BY <1>1, <1>8, <3>1, <3>3, AdmissionBounds, SMTT(30) DEF Respond, Hear, TypeOK
      <3>4. CASE line[peer[t]] = t /\ verdict[t] = "busy"
        BY <1>1, <1>8, <3>1, <3>4, AdmissionBounds, SMTT(30) DEF Respond, Hear, TypeOK
      <3> QED  BY <3>1, <3>2, <3>3, <3>4
    <2>2. /\ pc' = [pc EXCEPT ![t] = "idle"]
          /\ host' = [host EXCEPT ![t] = Nobody]
          /\ peer' = [peer EXCEPT ![t] = Nobody]
          /\ verdict' = [verdict EXCEPT ![t] = "none"]
          /\ known' = [known EXCEPT ![t] = FALSE]
          /\ UNCHANGED <<mode, run, hash, futures, faults, reopened>>
      BY <1>8 DEF Respond, rowVars
    <2> QED
      BY <1>1, <2>1, <2>2, SMTT(30) DEF TypeOK
  <1> QED  BY <1>4, <1>5, <1>6, <1>7, <1>8 DEF Handle

(* of a client, an executor or a process that dies. *)
LEMMA OtherTypeOK ==
    ASSUME AdmissionInv, [Next]_vars, ~\E t \in Thread : Handle(t)
    PROVE  TypeOK'
  <1> USE DEF AdmissionInv, TypeOK, rowVars, clientVars, threadVars, Fault
  <1>1. CASE \E c \in Client, t \in Thread, p \in Proc : Post(c, t, p)
    BY <1>1, SMTT(30) DEF Post
  <1>2. CASE \E c \in Client : LoseResponse(c)
    BY <1>2, AdmissionBounds, SMTT(30) DEF LoseResponse
  <1>3. CASE \E p \in Proc, j \in Job : ExecuteLocal(p, j) \/ CancelQueued(p, j) \/ Recover(p, j)
    BY <1>3, SMTT(30)
    DEF ExecuteLocal, CancelQueued, StartLocal, EndLocal, FutureDone, Recover, Move, InFlightStatus
  <1>4. CASE \E j \in Job : Work(j) \/ Reopen(j)
    BY <1>4, AdmissionBounds, SMTT(30) DEF Work, Claim, EndClaim, Reopen, Move, InFlightStatus
  <1>5. CASE \E p \in Proc : Crash(p)
    <2>1. PICK p \in Proc : Crash(p)
      BY <1>5
    <2>2. /\ pc' \in [Thread -> {"idle", "lookup", "create", "reread", "schedule", "reply"}]
          /\ host' \in [Thread -> Proc \cup {Nobody}]
          /\ peer' \in [Thread -> Client \cup {Nobody}]
          /\ verdict' \in [Thread -> {"none", "accepted", "conflict", "busy"}]
      BY <2>1, SMTT(30) DEF Crash
    <2>3. known' \in [Thread -> BOOLEAN]
      <3>1. known' = [u \in Thread |-> IF host[u] = p THEN FALSE ELSE known[u]]
        BY <2>1, Zenon DEF Crash
      <3>2. \A u \in Thread : known[u] \in BOOLEAN
        BY Zenon
      <3>3. \A u \in Thread : (IF host[u] = p THEN FALSE ELSE known[u]) \in BOOLEAN
        BY <3>2, Zenon
      <3> QED  BY <3>1, <3>3, Zenon
    <2>4. /\ line' \in [Client -> Thread \cup {Nobody}]
          /\ tries' \in [Client -> 0..MaxRetries]
      BY <2>1, AdmissionBounds, SMTT(30) DEF Crash
    <2>5. /\ futures' \in [Proc -> SUBSET Job]
          /\ faults' \in 0..MaxFaults /\ reopened' \in 0..faults'
          /\ UNCHANGED <<mode, run, hash, told>>
      BY <2>1, AdmissionBounds, SMTT(30) DEF Crash
    <2> QED
      BY <2>2, <2>3, <2>4, <2>5
  <1>6. CASE UNCHANGED vars
    BY <1>6 DEF vars
  <1> QED  BY <1>1, <1>2, <1>3, <1>4, <1>5, <1>6 DEF Next

(* Runs are never forgotten, and keep the specification they came with. *)
RowsKept == \A j \in Job : run[j] # "NONE" => run'[j] # "NONE" /\ hash'[j] = hash[j]

(* What a thread has established stays true while others move. *)
LEMMA ThreadKept ==
    ASSUME TypeOK, RowsKept, NEW t \in Thread, ThreadInv(t),
           pc'[t] = pc[t], peer'[t] = peer[t], verdict'[t] = verdict[t], known'[t] = known[t]
    PROVE  ThreadInv(t)'
  <1>1. Key(t)' = Key(t)
    BY DEF Key
  <1>2. CASE pc[t] = "idle"
    <2>1. verdict[t] = "none" /\ ~known[t]
      BY <1>2 DEF ThreadInv
    <2> QED  BY <1>2, <2>1 DEF ThreadInv
  <1>3. CASE pc[t] # "idle"
    <2>1. Key(t) \in Job
      BY <1>3, BusyThread
    <2>2. run[Key(t)] # "NONE" =>
             run'[Key(t)] # "NONE" /\ ExistingAnswer(t)' = ExistingAnswer(t)
      BY <1>1, <2>1 DEF RowsKept, ExistingAnswer
    <2> QED  BY <1>1, <2>2 DEF ThreadInv
  <1> QED  BY <1>2, <1>3

(* So does what the threads about to schedule have established. *)
LEMMA ScheduleKept ==
    ASSUME TypeOK, \A t \in Thread : ThreadInv(t) /\ ScheduleInv(t), mode' = mode,
           \A t \in Thread : pc'[t] = "schedule" => pc[t] = "schedule" /\ peer'[t] = peer[t],
           \A j \in Job :
              mode = "local" /\ run[j] = "QUEUED" /\ (\A p \in Proc : j \notin futures[p]) =>
                 run'[j] = "QUEUED" /\ \A p \in Proc : j \notin futures'[p]
    PROVE  \A t \in Thread : ScheduleInv(t)'
  <1> SUFFICES ASSUME NEW t \in Thread, mode = "local", pc'[t] = "schedule"
               PROVE  /\ run'[Key(t)'] = "QUEUED"
                      /\ \A p \in Proc : Key(t)' \notin futures'[p]
                      /\ \A u \in Thread : pc'[u] = "schedule" /\ Key(u)' = Key(t)' => u = t
    BY DEF ScheduleInv
  <1>1. \A u \in Thread : pc'[u] = "schedule" => pc[u] = "schedule" /\ Key(u)' = Key(u)
    BY DEF Key
  <1>2. Key(t) \in Job
    BY <1>1, BusyThread
  <1> QED  BY <1>1, <1>2 DEF ScheduleInv

(* A thread moves on in submit without touching the rows. *)
LEMMA DecisionKeepsInv ==
    ASSUME AdmissionInv, TypeOK', NEW t \in Thread, NEW step, NEW answer,
           pc[t] # "idle", step # "schedule", step # "idle",
           pc' = [pc EXCEPT ![t] = step], verdict' = [verdict EXCEPT ![t] = answer],
           ThreadInv(t)',
           UNCHANGED <<mode, run, hash, futures, host, peer, known, line, tries, told>>
    PROVE  AdmissionInv'
  <1>1. \A u \in Thread : ThreadInv(u)'
    <2>1. ASSUME NEW u \in Thread, u # t PROVE ThreadInv(u)'
      BY <2>1, ThreadKept DEF AdmissionInv, TypeOK, RowsKept
    <2> QED  BY <2>1
  <1>2. \A u \in Thread : ScheduleInv(u)'
    BY ScheduleKept DEF AdmissionInv, TypeOK
  <1>3. FutureInv' /\ \A c \in Client : ClientInv(c)'
    BY DEF AdmissionInv, FutureInv, ClientInv
  <1> QED  BY <1>1, <1>2, <1>3 DEF AdmissionInv

(* The lookup before the transaction, and the one after it. *)
LEMMA LookUpKeepsInv ==
    ASSUME AdmissionInv, NEW t \in Thread, LookUp(t) \/ Reread(t)
    PROVE  AdmissionInv'
  <1>1. TypeOK'
    BY HandleTypeOK DEF Handle
  <1>2. /\ pc[t] \in {"lookup", "reread"}
        /\ UNCHANGED <<mode, run, hash, futures, host, peer, known, line, tries, told>>
    BY DEF LookUp, Reread, rowVars, clientVars
  <1>3. UNCHANGED <<Key(t), ExistingAnswer(t), Wants[peer[t]]>>
    BY <1>2 DEF Key, ExistingAnswer
  <1>4. ExistingAnswer(t) \in {"accepted", "conflict"}
    BY DEF ExistingAnswer
  <1>5. ThreadInv(t) /\ TypeOK
    BY DEF AdmissionInv
  <1>6. PICK step \in {"reply", "create"}, answer \in {"none", "accepted", "conflict", "busy"} :
           /\ pc' = [pc EXCEPT ![t] = step] /\ verdict' = [verdict EXCEPT ![t] = answer]
           /\ \/ step = "reply" /\ answer = ExistingAnswer(t) /\ run[Key(t)] # "NONE"
              \/ step = "reply" /\ answer = "busy" /\ run[Key(t)] = "NONE"
              \/ step = "create" /\ answer = "none" /\ run[Key(t)] = "NONE"
    <2>1. verdict[t] = "none" /\ (pc[t] = "reread" => run[Key(t)] # "NONE")
      BY <1>2, <1>5 DEF ThreadInv, TypeOK
    <2>2. verdict = [verdict EXCEPT ![t] = "none"]
      BY <1>5, <2>1 DEF TypeOK
    <2>3. CASE Reread(t)
      BY <1>4, <2>1, <2>3 DEF Reread, Decide
    <2>4. CASE LookUp(t) /\ run[Key(t)] # "NONE"
      BY <1>4, <2>4 DEF LookUp, Decide
    <2>5. CASE LookUp(t) /\ run[Key(t)] = "NONE"
      BY <2>2, <2>5 DEF LookUp, Decide, Continue
    <2> QED  BY <2>3, <2>4, <2>5
  <1>7. pc'[t] = step /\ verdict'[t] = answer
    BY <1>5, <1>6 DEF TypeOK
  <1>8. ThreadInv(t)'
    BY <1>2, <1>3, <1>4, <1>5, <1>6, <1>7 DEF ThreadInv
  <1> QED
    BY <1>1, <1>2, <1>6, <1>8, DecisionKeepsInv

(* The Runs in flight can be counted. *)
LEMMA InFlightIsFinite == IsFiniteSet(InFlight) /\ Cardinality(InFlight) \in Nat
  <1>1. InFlight \subseteq Job
    BY DEF InFlight
  <1> QED  BY <1>1, AdmissionBounds, FS_Subset, FS_CardinalityType

(* The transaction finds the key, finds the budget used up, or inserts. *)
LEMMA CreateRunKeepsInv ==
    ASSUME AdmissionInv, NEW t \in Thread, CreateRun(t)
    PROVE  AdmissionInv'
  <1> DEFINE k == Key(t)
  <1>1. TypeOK'
    BY HandleTypeOK DEF Handle
  <1>2. /\ pc[t] = "create"
        /\ UNCHANGED <<mode, futures, host, peer, known, line, tries, told>>
    BY DEF CreateRun, clientVars
  <1>3. TypeOK /\ ThreadInv(t) /\ k \in Job /\ peer[t] \in Client
    BY <1>2, BusyThread DEF AdmissionInv
  <1>4. verdict[t] = "none" /\ ~known[t]
    BY <1>2, <1>3 DEF ThreadInv, TypeOK
  <1>5. UNCHANGED <<Key(t), Wants[peer[t]]>>
    BY <1>2 DEF Key
  <1>6. verdict = [verdict EXCEPT ![t] = "none"]
    BY <1>3, <1>4 DEF TypeOK
  <1>7. CASE run[k] # "NONE" \/ Cardinality(InFlight) >= MaxInFlight
    <2>1. PICK step \in {"reply", "reread"}, answer \in {"none", "busy"} :
             /\ pc' = [pc EXCEPT ![t] = step] /\ verdict' = [verdict EXCEPT ![t] = answer]
             /\ UNCHANGED <<run, hash>>
             /\ \/ step = "reply" /\ answer = "busy"
                \/ step = "reread" /\ answer = "none" /\ run[k] # "NONE"
      <3>1. CASE run[k] # "NONE"
        BY <1>6, <3>1 DEF CreateRun, Continue, rowVars
      <3>2. CASE run[k] = "NONE"
        <4>1. pc' = [pc EXCEPT ![t] = "reply"] /\ verdict' = [verdict EXCEPT ![t] = "busy"]
              /\ UNCHANGED <<run, hash>>
          BY <1>7, <3>2, AdmissionBounds, InFlightIsFinite, SMTT(30)
          DEF CreateRun, Decide, rowVars
        <4> QED  BY <4>1
      <3> QED  BY <3>1, <3>2
    <2>2. pc'[t] = step /\ verdict'[t] = answer
      BY <1>3, <2>1 DEF TypeOK
    <2>3. ThreadInv(t)'
      BY <1>2, <1>3, <1>4, <1>5, <2>1, <2>2 DEF ThreadInv
    <2> QED
      BY <1>1, <1>2, <2>1, <2>3, DecisionKeepsInv
  <1>8. CASE run[k] = "NONE" /\ Cardinality(InFlight) < MaxInFlight
    <2>1. /\ run' = [run EXCEPT ![k] = "QUEUED"]
          /\ hash' = [hash EXCEPT ![k] = Wants[peer[t]].body]
          /\ pc' = [pc EXCEPT ![t] = "schedule"]
          /\ verdict' = verdict
      BY <1>8, AdmissionBounds, InFlightIsFinite, SMTT(30) DEF CreateRun, Continue
    <2>2. RowsKept /\ run'[k] = "QUEUED" /\ hash'[k] = Wants[peer[t]].body /\ pc'[t] = "schedule"
      BY <1>3, <1>8, <2>1 DEF RowsKept, TypeOK
    <2>3. ThreadInv(t)'
      BY <1>2, <1>3, <1>4, <1>5, <2>1, <2>2 DEF ThreadInv, ExistingAnswer, TypeOK
    <2>4. ASSUME NEW u \in Thread, u # t PROVE ThreadInv(u)'
      BY <1>2, <2>1, <2>2, <2>4, ThreadKept DEF AdmissionInv, TypeOK
    <2>5. FutureInv'
      BY <1>2, <1>3, <2>2 DEF AdmissionInv, FutureInv, RowsKept, TypeOK
    <2>6. ASSUME NEW u \in Thread PROVE ScheduleInv(u)'
      <3>1. \A p \in Proc : k \notin futures'[p]
        BY <1>2, <1>8 DEF AdmissionInv, FutureInv
      <3>2. \A v \in Thread : v # t /\ pc'[v] = "schedule" =>
               pc[v] = "schedule" /\ Key(v)' = Key(v) /\ Key(v) \in Job /\ Key(v) # k
        <4>1. SUFFICES ASSUME NEW v \in Thread, v # t, pc'[v] = "schedule"
                       PROVE  pc[v] = "schedule" /\ Key(v)' = Key(v) /\ Key(v) \in Job /\ Key(v) # k
          OBVIOUS
        <4>2. pc[v] = "schedule" /\ Key(v)' = Key(v)
          BY <1>2, <1>3, <2>1, <4>1 DEF Key, TypeOK
        <4>3. ThreadInv(v)
          BY DEF AdmissionInv
        <4>4. Key(v) \in Job
          BY <1>3, <4>2, <4>3, BusyThread
        <4>5. run[Key(v)] # "NONE"
          BY <4>2, <4>3 DEF ThreadInv
        <4> QED  BY <1>8, <4>2, <4>4, <4>5
      <3>3. CASE u = t
        BY <1>5, <2>2, <3>1, <3>2, <3>3 DEF ScheduleInv
      <3>4. CASE u # t
        <4>1. ScheduleInv(u)
          BY DEF AdmissionInv
        <4>2. SUFFICES ASSUME mode = "local", pc'[u] = "schedule"
                       PROVE  /\ run'[Key(u)'] = "QUEUED"
                              /\ \A p \in Proc : Key(u)' \notin futures'[p]
                              /\ \A v \in Thread : pc'[v] = "schedule" /\ Key(v)' = Key(u)' => v = u
          BY <1>2 DEF ScheduleInv
        <4>3. pc[u] = "schedule" /\ Key(u)' = Key(u) /\ Key(u) \in Job /\ Key(u) # k
          BY <3>2, <3>4, <4>2
        <4>4. run'[Key(u)'] = "QUEUED" /\ \A p \in Proc : Key(u)' \notin futures'[p]
          BY <1>2, <1>3, <2>1, <4>1, <4>2, <4>3 DEF ScheduleInv, TypeOK
        <4>5. ASSUME NEW v \in Thread, pc'[v] = "schedule", Key(v)' = Key(u)' PROVE v = u
          <5>1. v # t
            BY <1>5, <4>3, <4>5
          <5>2. pc[v] = "schedule" /\ Key(v) = Key(u)
            BY <3>2, <4>3, <4>5, <5>1
          <5> QED  BY <4>1, <4>2, <4>3, <5>2 DEF ScheduleInv
        <4> QED  BY <4>4, <4>5
      <3> QED  BY <3>3, <3>4
    <2>7. \A c \in Client : ClientInv(c)'
      BY <1>2 DEF AdmissionInv, ClientInv
    <2> QED
      BY <1>1, <2>3, <2>4, <2>5, <2>6, <2>7 DEF AdmissionInv
  <1>9. run[k] # "NONE" \/ Cardinality(InFlight) >= MaxInFlight \/ Cardinality(InFlight) < MaxInFlight
    BY DEF CreateRun
  <1> QED  BY <1>7, <1>8, <1>9

(* The local future is created for the Run that was inserted. *)
LEMMA ScheduleKeepsInv ==
    ASSUME AdmissionInv, NEW t \in Thread, Schedule(t)
    PROVE  AdmissionInv'
  <1>1. TypeOK'
    BY HandleTypeOK DEF Handle
  <1>2. /\ pc[t] = "schedule"
        /\ pc' = [pc EXCEPT ![t] = "reply"] /\ verdict' = [verdict EXCEPT ![t] = "accepted"]
        /\ UNCHANGED <<mode, run, hash, host, peer, known, line, tries, told>>
    BY DEF Schedule, Decide, rowVars, clientVars
  <1>3. TypeOK /\ ThreadInv(t) /\ Key(t) \in Job
    BY <1>2, BusyThread DEF AdmissionInv
  <1>4. UNCHANGED <<Key(t), ExistingAnswer(t)>>
    BY <1>2 DEF Key, ExistingAnswer
  <1>5. pc'[t] = "reply" /\ verdict'[t] = "accepted"
    BY <1>2, <1>3 DEF TypeOK
  <1>6. ThreadInv(t)'
    BY <1>2, <1>3, <1>4, <1>5 DEF ThreadInv
  <1>7. ASSUME NEW u \in Thread, u # t PROVE ThreadInv(u)'
    BY <1>2, <1>7, ThreadKept DEF AdmissionInv, TypeOK, RowsKept
  <1>8. \A p \in Proc : futures'[p] \subseteq futures[p] \cup {Key(t)}
    BY <1>3 DEF Schedule, TypeOK
  <1>9. FutureInv'
    BY <1>2, <1>3, <1>8 DEF AdmissionInv, FutureInv, ThreadInv
  <1>10. ASSUME NEW u \in Thread PROVE ScheduleInv(u)'
    <2>1. SUFFICES ASSUME mode = "local", pc'[u] = "schedule"
                   PROVE  /\ run[Key(u)] = "QUEUED"
                          /\ \A p \in Proc : Key(u) \notin futures'[p]
                          /\ \A v \in Thread : pc'[v] = "schedule" /\ Key(v) = Key(u) => v = u
      BY <1>2 DEF ScheduleInv, Key
    <2>2. u # t /\ pc[u] = "schedule" /\ \A v \in Thread : pc'[v] = "schedule" => pc[v] = "schedule"
      BY <1>2, <1>3, <2>1 DEF TypeOK
    <2>3. ScheduleInv(u)
      BY DEF AdmissionInv
    <2>4. Key(u) # Key(t)
      BY <1>2, <2>1, <2>2, <2>3 DEF ScheduleInv
    <2> QED  BY <1>8, <2>1, <2>2, <2>3, <2>4 DEF ScheduleInv
  <1>11. \A c \in Client : ClientInv(c)'
    BY <1>2 DEF AdmissionInv, ClientInv
  <1> QED
    BY <1>1, <1>6, <1>7, <1>9, <1>10, <1>11 DEF AdmissionInv

(* A response ends its thread's request, and the wait of the client it still reaches. *)
LEMMA RespondKeepsInv ==
    ASSUME AdmissionInv, NEW t \in Thread, Respond(t)
    PROVE  AdmissionInv'
  <1>1. TypeOK'
    BY HandleTypeOK DEF Handle
  <1>2. TypeOK /\ ThreadInv(t) /\ pc[t] = "reply" /\ peer[t] \in Client
    BY BusyThread DEF AdmissionInv, Respond
  <1>3. /\ pc' = [pc EXCEPT ![t] = "idle"] /\ peer' = [peer EXCEPT ![t] = Nobody]
        /\ verdict' = [verdict EXCEPT ![t] = "none"] /\ known' = [known EXCEPT ![t] = FALSE]
        /\ UNCHANGED <<mode, run, hash, futures>>
    BY DEF Respond, rowVars
  <1>4. ThreadInv(t)'
    BY <1>2, <1>3 DEF ThreadInv, TypeOK
  <1>5. ASSUME NEW u \in Thread, u # t PROVE ThreadInv(u)'
    BY <1>3, <1>5, ThreadKept DEF AdmissionInv, TypeOK, RowsKept
  <1>6. \A u \in Thread : ScheduleInv(u)'
    BY <1>3, ScheduleKept DEF AdmissionInv, TypeOK
  <1>7. FutureInv'
    BY <1>3 DEF AdmissionInv, FutureInv
  <1>8. ASSUME NEW c \in Client PROVE ClientInv(c)'
    <2>1. ClientInv(c)
      BY DEF AdmissionInv
    <2>2. CASE line[c] = t
      <3>1. c = peer[t]
        BY <1>2, <2>1, <2>2, NullAssumption DEF ClientInv
      <3>2. line' = [line EXCEPT ![c] = Nobody]
        BY <2>2, <3>1 DEF Respond, Hear
      <3> QED  BY <1>2, <3>2 DEF ClientInv, TypeOK
    <2>3. CASE line[c] # t
      <3>1. line'[c] = line[c] /\ told'[c] = told[c]
        <4>1. CASE line[peer[t]] # t
          BY <4>1 DEF Respond, clientVars
        <4>2. CASE line[peer[t]] = t
          <5>1. /\ line' = [line EXCEPT ![peer[t]] = Nobody]
                /\ told' = told \/ \E x : told' = [told EXCEPT ![peer[t]] = x]
            BY <4>2 DEF Respond, Hear
          <5> QED  BY <1>2, <2>3, <4>2, <5>1 DEF TypeOK
        <4> QED  BY <4>1, <4>2
      <3>2. line[c] # Nobody => peer'[line[c]] = peer[line[c]]
        BY <1>2, <1>3, <2>3 DEF TypeOK
      <3> QED  BY <2>1, <3>1, <3>2 DEF ClientInv
    <2> QED  BY <2>2, <2>3
  <1> QED
    BY <1>1, <1>4, <1>5, <1>6, <1>7, <1>8 DEF AdmissionInv

(* A request finds a thread that works for nobody. *)
LEMMA PostKeepsInv ==
    ASSUME AdmissionInv, TypeOK', NEW c \in Client, NEW t \in Thread, NEW p \in Proc, Post(c, t, p)
    PROVE  AdmissionInv'
  <1>1. /\ TypeOK /\ ThreadInv(t) /\ pc[t] = "idle" /\ peer[t] = Nobody /\ verdict[t] = "none"
        /\ line[c] = Nobody /\ told[c] = "nothing"
    BY DEF AdmissionInv, Post, ThreadInv, TypeOK
  <1>2. /\ line' = [line EXCEPT ![c] = t] /\ pc' = [pc EXCEPT ![t] = "lookup"]
        /\ peer' = [peer EXCEPT ![t] = c]
        /\ known' = [known EXCEPT ![t] = run[Wants[c].job] # "NONE"]
        /\ UNCHANGED <<mode, run, hash, futures, verdict, told>>
    BY DEF Post, rowVars
  <1>3. ThreadInv(t)'
    <2>1. pc'[t] = "lookup" /\ peer'[t] = c /\ verdict'[t] = "none"
      BY <1>1, <1>2 DEF TypeOK
    <2>2. known'[t] => run'[Key(t)'] # "NONE"
      BY <1>1, <1>2, <2>1, ZenonT(40) DEF TypeOK, Key
    <2> QED  BY <2>1, <2>2, NullAssumption DEF ThreadInv
  <1>4. ASSUME NEW u \in Thread, u # t PROVE ThreadInv(u)'
    BY <1>2, <1>4, ThreadKept DEF AdmissionInv, TypeOK, RowsKept
  <1>5. \A u \in Thread : ScheduleInv(u)'
    BY <1>1, <1>2, ScheduleKept DEF AdmissionInv, TypeOK
  <1>6. FutureInv'
    BY <1>2 DEF AdmissionInv, FutureInv
  <1>7. ASSUME NEW d \in Client PROVE ClientInv(d)'
    <2>1. CASE d = c
      BY <1>1, <1>2, <2>1 DEF ClientInv, TypeOK
    <2>2. CASE d # c
      <3>1. line[d] # Nobody => line[d] # t
        BY <1>1, NullAssumption DEF AdmissionInv, ClientInv
      <3> QED  BY <1>1, <1>2, <2>2, <3>1 DEF AdmissionInv, ClientInv, TypeOK
    <2> QED  BY <2>1, <2>2
  <1> QED
    BY <1>3, <1>4, <1>5, <1>6, <1>7 DEF AdmissionInv

(* Executions move their Runs on behind the threads' backs, but take none  *)
(* that a thread is about to schedule.                                     *)
LEMMA MoveKeepsInv ==
    ASSUME AdmissionInv, TypeOK', UNCHANGED <<mode, hash, threadVars, clientVars>>,
           \A j \in Job : run[j] # "NONE" => run'[j] # "NONE",
           \A p \in Proc : futures'[p] \subseteq futures[p],
           \A j \in Job :
              mode = "local" /\ run[j] = "QUEUED" /\ (\A p \in Proc : j \notin futures[p]) =>
                 run'[j] = "QUEUED"
    PROVE  AdmissionInv'
  <1>1. \A t \in Thread : ThreadInv(t)'
    BY ThreadKept DEF AdmissionInv, RowsKept, threadVars
  <1>2. \A t \in Thread : ScheduleInv(t)'
    BY ScheduleKept DEF AdmissionInv, threadVars
  <1>3. FutureInv'
    BY DEF AdmissionInv, FutureInv, TypeOK
  <1>4. \A c \in Client : ClientInv(c)'
    BY DEF AdmissionInv, ClientInv, threadVars, clientVars
  <1> QED  BY <1>1, <1>2, <1>3, <1>4 DEF AdmissionInv

(* A process dies with its threads, its futures and the answers they owe.  *)
LEMMA CrashKeepsInv ==
    ASSUME AdmissionInv, TypeOK', NEW p \in Proc, Crash(p)
    PROVE  AdmissionInv'
  <1>1. TypeOK
    BY DEF AdmissionInv
  <1>2. /\ \A t \in Thread : host[t] = p =>
              pc'[t] = "idle" /\ peer'[t] = Nobody /\ verdict'[t] = "none" /\ ~known'[t]
        /\ \A t \in Thread : host[t] # p =>
              pc'[t] = pc[t] /\ peer'[t] = peer[t] /\ verdict'[t] = verdict[t] /\ known'[t] = known[t]
        /\ UNCHANGED <<mode, run, hash, told>>
    BY DEF Crash, rowVars
  <1>3. \A q \in Proc : futures'[q] \subseteq futures[q]
    BY <1>1 DEF Crash, TypeOK
  <1>4. ASSUME NEW t \in Thread PROVE ThreadInv(t)'
    <2>1. CASE host[t] = p
      BY <1>2, <2>1 DEF ThreadInv
    <2>2. CASE host[t] # p
      BY <1>1, <1>2, <2>2, ThreadKept DEF AdmissionInv, RowsKept
    <2> QED  BY <2>1, <2>2
  <1>5. \A t \in Thread : ScheduleInv(t)'
    BY <1>1, <1>2, <1>3, ScheduleKept DEF AdmissionInv
  <1>6. FutureInv'
    BY <1>1, <1>2, <1>3 DEF AdmissionInv, FutureInv
  <1>7. ASSUME NEW c \in Client PROVE ClientInv(c)'
    <2>1. line'[c] = IF line[c] # Nobody /\ host[line[c]] = p THEN Nobody ELSE line[c]
      BY DEF Crash
    <2> QED  BY <1>1, <1>2, <2>1 DEF AdmissionInv, ClientInv, TypeOK
  <1> QED  BY <1>4, <1>5, <1>6, <1>7 DEF AdmissionInv

(* The initial state satisfies the invariant, *)
LEMMA AdmissionInit == Init => AdmissionInv
  <1> SUFFICES ASSUME Init PROVE AdmissionInv
    OBVIOUS
  <1>1. \A t \in Thread : ThreadInv(t) /\ ScheduleInv(t)
    BY DEF Init, ThreadInv, ScheduleInv
  <1>2. FutureInv /\ \A c \in Client : ClientInv(c)
    BY DEF Init, FutureInv, ClientInv
  <1> QED  BY <1>1, <1>2, InitTypeOK DEF AdmissionInv

(* and every step preserves it. *)
LEMMA AdmissionStep == AdmissionInv /\ [Next]_vars => AdmissionInv'
  <1> SUFFICES ASSUME AdmissionInv, [Next]_vars PROVE AdmissionInv'
    OBVIOUS
  <1>1. CASE \E t \in Thread : Handle(t)
    BY <1>1, LookUpKeepsInv, CreateRunKeepsInv, ScheduleKeepsInv, RespondKeepsInv DEF Handle
  <1>2. CASE ~\E t \in Thread : Handle(t)
    <2>1. TypeOK'
      BY <1>2, OtherTypeOK
    <2>2. CASE \E c \in Client, t \in Thread, p \in Proc : Post(c, t, p)
      BY <2>1, <2>2, PostKeepsInv
    <2>3. CASE \E c \in Client : LoseResponse(c)
      <3>1. PICK c \in Client : LoseResponse(c)
        BY <2>3
      <3>2. /\ \A t \in Thread : ThreadInv(t)'
        BY <3>1, ThreadKept DEF AdmissionInv, LoseResponse, RowsKept, rowVars, threadVars
      <3>3. \A t \in Thread : ScheduleInv(t)'
        BY <3>1, ScheduleKept DEF AdmissionInv, LoseResponse, rowVars, threadVars
      <3>4. FutureInv'
        BY <3>1 DEF AdmissionInv, LoseResponse, FutureInv, rowVars
      <3>5. \A d \in Client : ClientInv(d)'
        BY <3>1 DEF AdmissionInv, LoseResponse, ClientInv, TypeOK, threadVars
      <3> QED  BY <2>1, <3>2, <3>3, <3>4, <3>5 DEF AdmissionInv
    <2>4. CASE \E p \in Proc, j \in Job : ExecuteLocal(p, j) \/ CancelQueued(p, j)
      <3>1. PICK p \in Proc, j \in Job : ExecuteLocal(p, j) \/ CancelQueued(p, j)
        BY <2>4
      <3>2. /\ UNCHANGED <<mode, hash, threadVars, clientVars>>
            /\ \A i \in Job : i # j => run'[i] = run[i]
            /\ run[j] # "NONE" => run'[j] # "NONE"
            /\ \A q \in Proc : futures'[q] \subseteq futures[q]
            /\ j \in futures[p]
        BY <3>1 DEF ExecuteLocal, CancelQueued, StartLocal, EndLocal, FutureDone, Move,
           AdmissionInv, TypeOK, rowVars
      <3> QED  BY <2>1, <3>2, MoveKeepsInv
    <2>5. CASE \E p \in Proc, j \in Job : Recover(p, j)
      <3>1. PICK p \in Proc, j \in Job : Recover(p, j)
        BY <2>5
      <3>2. /\ UNCHANGED <<mode, hash, futures, threadVars, clientVars>>
            /\ \A i \in Job : i # j => run'[i] = run[i]
            /\ run'[j] # "NONE"
            /\ mode = "local" => run[j] # "QUEUED"
        BY <3>1 DEF Recover, Move, AdmissionInv, TypeOK
      <3> QED  BY <2>1, <3>2, MoveKeepsInv
    <2>6. CASE \E p \in Proc : Crash(p)
      BY <2>1, <2>6, CrashKeepsInv
    <2>7. CASE UNCHANGED vars
      BY <2>1, <2>7, MoveKeepsInv DEF vars, rowVars
    <2>8. CASE \E j \in Job : Work(j) \/ Reopen(j)
      <3>1. PICK j \in Job : Work(j) \/ Reopen(j)
        BY <2>8
      <3>2. /\ UNCHANGED <<mode, hash, futures, threadVars, clientVars>>
            /\ \A i \in Job : i # j => run'[i] = run[i]
            /\ run'[j] # "NONE"
            /\ mode = "local" => run[j] # "QUEUED"
        BY <3>1 DEF Work, Claim, EndClaim, Reopen, Move, AdmissionInv, TypeOK
      <3> QED  BY <2>1, <3>2, MoveKeepsInv
    <2> QED  BY <1>2, <2>2, <2>3, <2>4, <2>5, <2>6, <2>7, <2>8 DEF Next
  <1> QED  BY <1>1, <1>2

(* Requests, rows, futures and waiting clients agree in every state. *)
THEOREM Admission == Spec => []AdmissionInv
  BY AdmissionInit, AdmissionStep, PTL DEF Spec

(* A request that arrives after its Run was stored is never refused for    *)
(* the budget: submit looks the key up before it counts.                   *)
THEOREM RepeatsAreRecognised == Spec => []RepeatIsNotRefused
  <1>1. AdmissionInv => RepeatIsNotRefused
    BY DEF AdmissionInv, ThreadInv, RepeatIsNotRefused
  <1> QED  BY <1>1, Admission, PTL

(* Steps that write the rows: the insertion of a Run below the budget, and *)
(* a status that moves on.                                                 *)
Inserts(t) ==
    /\ CreateRun(t) /\ pc[t] = "create" /\ run[Key(t)] = "NONE" /\ Cardinality(InFlight) < MaxInFlight
    /\ run' = [run EXCEPT ![Key(t)] = "QUEUED"]
    /\ hash' = [hash EXCEPT ![Key(t)] = Wants[peer[t]].body]
    /\ UNCHANGED <<told, reopened>>
MovesOn(j) ==
    /\ run[j] \in InFlightStatus
    /\ \E to \in {"RUNNING", "ENDED"} : run' = [run EXCEPT ![j] = to]
    /\ UNCHANGED <<hash, told, reopened>>

(* Every other step leaves the rows and what clients were told alone, but *)
(* for the responses.                                                      *)
LEMMA RowSteps ==
    ASSUME AdmissionInv, [Next]_vars
    PROVE  \/ UNCHANGED <<run, hash, told, reopened>>
           \/ \E t \in Thread : Inserts(t)
           \/ \E t \in Thread : Respond(t)
           \/ \E j \in Job : MovesOn(j) \/ Reopen(j)
  <1>1. CASE \E t \in Thread : Handle(t)
    <2>1. PICK t \in Thread : Handle(t)
      BY <1>1
    <2>2. CASE CreateRun(t)
      <3>1. CASE run[Key(t)] = "NONE" /\ Cardinality(InFlight) < MaxInFlight
        <4>1. Inserts(t)
          BY <2>2, <3>1, AdmissionBounds, InFlightIsFinite, SMTT(30)
          DEF Inserts, CreateRun, clientVars
        <4> QED  BY <4>1
      <3>2. CASE ~(run[Key(t)] = "NONE" /\ Cardinality(InFlight) < MaxInFlight)
        BY <2>2, <3>2, Zenon DEF CreateRun, rowVars, clientVars
      <3> QED  BY <3>1, <3>2
    <2>3. CASE LookUp(t) \/ Reread(t) \/ Schedule(t)
      BY <2>3 DEF LookUp, Reread, Schedule, rowVars, clientVars
    <2> QED  BY <2>1, <2>2, <2>3 DEF Handle
  <1>2. CASE \E p \in Proc, j \in Job : ExecuteLocal(p, j) \/ CancelQueued(p, j)
    <2>1. PICK p \in Proc, j \in Job : ExecuteLocal(p, j) \/ CancelQueued(p, j)
      BY <1>2
    <2>2. CASE FutureDone(p, j)
      BY <2>2 DEF FutureDone, rowVars, clientVars
    <2>3. CASE ~FutureDone(p, j)
      <3>1. MovesOn(j)
        BY <2>1, <2>3 DEF MovesOn, ExecuteLocal, StartLocal, EndLocal, CancelQueued, Move,
           InFlightStatus, clientVars
      <3> QED  BY <3>1
    <2> QED  BY <2>2, <2>3
  <1>3. CASE \E j \in Job : Work(j)
    <2>1. PICK j \in Job : Work(j)
      BY <1>3
    <2>2. MovesOn(j)
      BY <2>1 DEF MovesOn, Work, Claim, EndClaim, Move, InFlightStatus, clientVars
    <2> QED  BY <2>2
  <1>8. CASE \E p \in Proc, j \in Job : Recover(p, j)
    <2>1. PICK p \in Proc, j \in Job : Recover(p, j)
      BY <1>8
    <2>2. MovesOn(j)
      BY <2>1 DEF MovesOn, Recover, Move, InFlightStatus, clientVars
    <2> QED  BY <2>2
  <1>4. CASE \E c \in Client : LoseResponse(c) \/ \E t \in Thread, p \in Proc : Post(c, t, p)
    BY <1>4 DEF LoseResponse, Post, rowVars
  <1>5. CASE \E p \in Proc : Crash(p)
    BY <1>5 DEF Crash, rowVars
  <1>6. CASE UNCHANGED vars
    BY <1>6 DEF vars, rowVars, clientVars
  <1>7. CASE \E j \in Job : Reopen(j)
    BY <1>7
  <1> QED  BY <1>1, <1>2, <1>3, <1>4, <1>5, <1>6, <1>7, <1>8 DEF Next

(* The budget survives every step. *)
LEMMA BudgetStep == AdmissionInv /\ BudgetRespected /\ [Next]_vars => BudgetRespected'
  <1> SUFFICES ASSUME AdmissionInv, BudgetRespected, [Next]_vars PROVE BudgetRespected'
    OBVIOUS
  <1>1. /\ IsFiniteSet(InFlight) /\ Cardinality(InFlight) \in Nat
        /\ reopened \in Nat /\ MaxInFlight \in Nat
        /\ run \in [Job -> {"NONE", "ENDED"} \cup InFlightStatus]
    BY InFlightIsFinite, AdmissionBounds DEF AdmissionInv, TypeOK
  <1>2. CASE UNCHANGED <<run, reopened>>
    BY <1>2 DEF BudgetRespected, InFlight
  <1>3. CASE \E t \in Thread : Inserts(t)
    <2>1. PICK t \in Thread : Inserts(t)
      BY <1>3
    <2>2. Key(t) \in Job
      BY <2>1, BusyThread DEF Inserts, AdmissionInv
    <2>3. InFlight' = InFlight \cup {Key(t)} /\ Key(t) \notin InFlight
      BY <1>1, <2>1, <2>2 DEF Inserts, InFlight, InFlightStatus
    <2>4. Cardinality(InFlight') = Cardinality(InFlight) + 1
      BY <1>1, <2>3, FS_AddElement
    <2> QED  BY <1>1, <2>1, <2>4 DEF Inserts, BudgetRespected
  <1>4. CASE \E t \in Thread : Respond(t)
    BY <1>4, <1>2 DEF Respond, rowVars
  <1>5. CASE \E j \in Job : MovesOn(j)
    <2>1. InFlight' \subseteq InFlight /\ reopened' = reopened
      BY <1>1, <1>5 DEF MovesOn, InFlight
    <2>2. Cardinality(InFlight') <= Cardinality(InFlight) /\ Cardinality(InFlight') \in Nat
      BY <1>1, <2>1, FS_Subset, FS_CardinalityType
    <2> QED  BY <1>1, <2>1, <2>2 DEF BudgetRespected
  <1>6. CASE \E j \in Job : Reopen(j)
    <2>1. PICK j \in Job : Reopen(j)
      BY <1>6
    <2>2. InFlight' = InFlight \cup {j} /\ j \notin InFlight /\ reopened' = reopened + 1
      BY <1>1, <2>1 DEF Reopen, Move, InFlight, InFlightStatus
    <2>3. Cardinality(InFlight') = Cardinality(InFlight) + 1
      BY <1>1, <2>2, FS_AddElement
    <2> QED  BY <1>1, <2>2, <2>3 DEF BudgetRespected
  <1> QED  BY <1>2, <1>3, <1>4, <1>5, <1>6, RowSteps

(* Whatever processes admit at a time, the Runs in flight stay within the  *)
(* budget, but for those an unfenced write reopened: create_run counts and *)
(* inserts in one transaction.                                             *)
THEOREM BudgetHolds == Spec => []BudgetRespected
  <1>1. Init => BudgetRespected
    <2>1. Init => InFlight = {} /\ reopened = 0
      BY DEF Init, InFlight, InFlightStatus
    <2> QED  BY <2>1, FS_EmptySet, AdmissionBounds DEF BudgetRespected
  <1> QED  BY <1>1, BudgetStep, Admission, PTL DEF Spec

(* A Run gets its one local executor while it is QUEUED and no process     *)
(* holds a future of it.                                                   *)
THEOREM SchedulingIsExclusive == Spec => ScheduledOnce
  <1>1. ASSUME AdmissionInv, [Next]_vars
        PROVE  [\A p \in Proc, j \in Job :
                   j \in futures'[p] \ futures[p] =>
                       run[j] = "QUEUED" /\ \A q \in Proc : j \notin futures[q]]_vars
    <2>1. SUFFICES ASSUME NEW p \in Proc, NEW j \in Job, j \in futures'[p], j \notin futures[p]
                   PROVE  run[j] = "QUEUED" /\ \A q \in Proc : j \notin futures[q]
      OBVIOUS
    <2>2. PICK t \in Thread : Schedule(t)
      <3>1. CASE \E t \in Thread : Handle(t)
        BY <2>1, <3>1 DEF Handle, LookUp, CreateRun, Reread, Respond
      <3>2. CASE ~\E t \in Thread : Handle(t)
        <4>1. \A q \in Proc : futures'[q] \subseteq futures[q]
          BY <1>1, <3>2 DEF Next, AdmissionInv, TypeOK, Post, LoseResponse, ExecuteLocal, StartLocal,
             EndLocal, FutureDone, CancelQueued, Work, Claim, EndClaim, Recover, Reopen, Crash, vars
        <4> QED  BY <2>1, <4>1
      <3> QED  BY <3>1, <3>2
    <2>3. mode = "local" /\ j = Key(t) /\ pc[t] = "schedule"
      BY <1>1, <2>1, <2>2 DEF Schedule, AdmissionInv, TypeOK
    <2> QED  BY <1>1, <2>3 DEF AdmissionInv, ScheduleInv
  <1> QED  BY <1>1, Admission, PTL DEF Spec, ScheduledOnce

(* A step of submission or execution is one of the budget's contract, or none. *)
LEMMA StepImplementsBudget ==
    ASSUME AdmissionInv, [Next]_vars
    PROVE  [Budget!Next]_(Budget!vars)
  <1>1. TypeOK
    BY DEF AdmissionInv
  <1>0. \A S : Budget!Cardinality(S) = Cardinality(S)
    BY Zenon DEF Cardinality, Budget!Cardinality
  <1>2. Budget!Live = InFlight
    BY <1>1 DEF Budget!Live, Phase, InFlight, TypeOK, InFlightStatus
  <1>3. CASE UNCHANGED <<run, hash, told, reopened>>
    BY <1>3 DEF Phase, Heard, Budget!vars
  <1>4. CASE \E t \in Thread : Inserts(t)
    <2>1. PICK t \in Thread : Inserts(t)
      BY <1>4
    <2>2. Key(t) \in Job /\ peer[t] \in Client
      BY <2>1, BusyThread DEF Inserts, AdmissionInv
    <2>3. Phase[Key(t)] = "NONE" /\ Phase' = [Phase EXCEPT ![Key(t)] = "LIVE"]
      BY <1>1, <2>1, <2>2 DEF Phase, Inserts, TypeOK, InFlightStatus
    <2>4. UNCHANGED Heard
      BY <2>1 DEF Inserts, Heard
    <2>5. Budget!Admit(peer[t])
      BY <1>0, <1>2, <2>1, <2>3, <2>4 DEF Budget!Admit, Inserts, Key
    <2> QED  BY <2>2, <2>5 DEF Budget!Next
  <1>5. CASE \E j \in Job : MovesOn(j)
    <2>1. PICK j \in Job, to \in {"RUNNING", "ENDED"} :
             run[j] \in InFlightStatus /\ run' = [run EXCEPT ![j] = to] /\ UNCHANGED <<hash, told>>
      BY <1>5 DEF MovesOn
    <2>2. CASE to = "RUNNING"
      BY <1>1, <2>1, <2>2 DEF TypeOK, InFlightStatus, Phase, Heard, Budget!vars
    <2>3. CASE to = "ENDED"
      <3>1. Phase[j] = "LIVE" /\ Phase' = [Phase EXCEPT ![j] = "ENDED"] /\ UNCHANGED Heard
        BY <1>1, <2>1, <2>3 DEF TypeOK, InFlightStatus, Phase, Heard
      <3>2. Budget!End(j)
        BY <2>1, <3>1 DEF Budget!End
      <3> QED  BY <3>2 DEF Budget!Next
    <2> QED  BY <2>2, <2>3
  <1>6. CASE \E j \in Job : Reopen(j)
    <2>1. PICK j \in Job : Reopen(j)
      BY <1>6
    <2>2. Phase[j] = "ENDED" /\ Phase' = [Phase EXCEPT ![j] = "LIVE"] /\ UNCHANGED Heard
      BY <1>1, <2>1 DEF Phase, Heard, Reopen, Move, TypeOK, InFlightStatus, clientVars
    <2>3. Budget!Reopen(j)
      BY <2>1, <2>2 DEF Budget!Reopen, Reopen, Move
    <2> QED  BY <2>3 DEF Budget!Next
  <1>7. CASE \E t \in Thread : Respond(t)
    <2>1. PICK t \in Thread : Respond(t)
      BY <1>7
    <2>2. pc[t] = "reply" /\ UNCHANGED <<run, hash>>
      BY <2>1 DEF Respond, rowVars
    <2>3. peer[t] \in Client /\ Key(t) \in Job
      BY <2>2, BusyThread DEF AdmissionInv
    <2>4. CASE line[peer[t]] # t
      BY <2>1, <2>2, <2>4 DEF Respond, clientVars, Phase, Heard, Budget!vars
    <2>5. CASE line[peer[t]] = t /\ verdict[t] = "busy"
      <3>1. told[peer[t]] = "nothing"
        BY <2>3, <2>5, NullAssumption DEF AdmissionInv, ClientInv
      <3>2. UNCHANGED Heard
        BY <1>1, <2>1, <2>3, <2>5, <3>1 DEF Heard, Respond, Hear, TypeOK
      <3> QED  BY <2>2, <3>2 DEF Phase, Budget!vars
    <2>6. CASE line[peer[t]] = t /\ verdict[t] # "busy"
      <3>1. verdict[t] \in {"accepted", "conflict"} /\ run[Key(t)] # "NONE"
            /\ verdict[t] = ExistingAnswer(t)
        BY <1>1, <2>2, <2>6 DEF AdmissionInv, ThreadInv, TypeOK
      <3>2. told' = [told EXCEPT ![peer[t]] = verdict[t]]
        BY <2>1, <2>6 DEF Respond, Hear
      <3>3. Heard' = [Heard EXCEPT ![peer[t]] = verdict[t]]
        BY <1>1, <2>3, <3>1, <3>2 DEF Heard, TypeOK
      <3>4. Phase[Key(t)] # "NONE" /\ UNCHANGED Phase
        BY <1>1, <2>2, <2>3, <3>1 DEF Phase, TypeOK, InFlightStatus
      <3>5. Budget!Tell(peer[t], verdict[t])
        BY <2>2, <3>1, <3>3, <3>4 DEF Budget!Tell, Key, ExistingAnswer
      <3> QED  BY <2>3, <3>1, <3>5 DEF Budget!Next
    <2> QED  BY <2>4, <2>5, <2>6
  <1> QED  BY <1>3, <1>4, <1>5, <1>6, <1>7, RowSteps

(* Submission implements the budget's contract: a key is admitted once,    *)
(* for one specification, below the budget, and every answer agrees.       *)
THEOREM BudgetImplemented == Spec => ImplementsBudget
  <1>1. Init => Budget!Init
    BY DEF Init, Budget!Init, Phase, Heard, InFlightStatus
  <1> QED
    BY <1>1, StepImplementsBudget, Admission, PTL DEF Spec, ImplementsBudget, Budget!Spec
===============================================================================
