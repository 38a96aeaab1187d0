-------------------------- MODULE StoreQueriesProofs --------------------------
(* Proofs about RunPages, for any number of Runs, any page size and any    *)
(* writes beside a listing; about FindingRevisions, for any revisions and  *)
(* findings; and about StoreParts, which TLC runs them in.                 *)
EXTENDS StoreParts, StorePartsProofs, FiniteSetTheorems, TLAPS

(* How many elements of a set are above each, R being an order of it.      *)
Place(S, R) == [x \in S |-> Cardinality({y \in S : <<x, y>> \in R})]

StrictlyOrders(R, S) ==
    /\ \A x \in S : <<x, x>> \notin R
    /\ \A x, y \in S : x # y => <<x, y>> \in R \/ <<y, x>> \in R
    /\ \A x, y, z \in S : <<x, y>> \in R /\ <<y, z>> \in R => <<x, z>> \in R

(* Every place of a finite set in a strict total order is taken, by one    *)
(* element.                                                                *)
LEMMA Places ==
    ASSUME NEW S, IsFiniteSet(S), NEW R, StrictlyOrders(R, S)
    PROVE  /\ \A x \in S : Place(S, R)[x] \in 0..(Cardinality(S) - 1)
           /\ \A x, y \in S : <<x, y>> \in R => Place(S, R)[y] < Place(S, R)[x]
           /\ \A i \in Nat : i < Cardinality(S) => \E x \in S : Place(S, R)[x] = i
  <1> DEFINE place == Place(S, R)
             Above(x) == {y \in S : <<x, y>> \in R}
             last == Cardinality(S) - 1
  <1>1. Cardinality(S) \in Nat /\ last \in Int /\ last = Cardinality(S) - 1
    BY FS_CardinalityType
  <1>2. /\ \A x \in S : place[x] = Cardinality(Above(x))
        /\ \A x \in S : Above(x) \in SUBSET (S \ {x})
        /\ \A x, y \in S : <<x, y>> \in R => y \in Above(x) /\ Above(y) \in SUBSET (Above(x) \ {y})
        /\ place = [x \in S |-> place[x]]
    BY DEF Place, StrictlyOrders
  <1> HIDE DEF Above, last, place
  <1>3. \A x \in S : /\ IsFiniteSet(Above(x)) /\ Cardinality(Above(x)) \in Nat
                     /\ Cardinality(Above(x)) <= last
    <2> TAKE x \in S
    <2>1. /\ IsFiniteSet(S \ {x}) /\ Cardinality(S \ {x}) = last
      BY <1>1, FS_RemoveElement
    <2>2. IsFiniteSet(Above(x)) /\ Cardinality(Above(x)) <= Cardinality(S \ {x})
      <3>1. Above(x) \in SUBSET (S \ {x})
        BY <1>2
      <3> QED  BY <2>1, <3>1, FS_Subset
    <2> QED  BY <2>1, <2>2, FS_CardinalityType
  <1>4. \A x \in S : place[x] \in 0..last
    BY <1>1, <1>2, <1>3
  <1>5. ASSUME NEW x \in S, NEW y \in S, <<x, y>> \in R PROVE place[y] < place[x]
    <2>1. y \in Above(x) /\ Above(y) \in SUBSET (Above(x) \ {y})
      BY <1>2, <1>5
    <2>2. /\ IsFiniteSet(Above(x) \ {y}) /\ Cardinality(Above(x) \ {y}) = Cardinality(Above(x)) - 1
      BY <1>3, <2>1, FS_RemoveElement
    <2>3. Cardinality(Above(y)) <= Cardinality(Above(x) \ {y})
      BY <2>1, <2>2, FS_Subset
    <2> QED  BY <1>2, <1>3, <2>2, <2>3
  <1>6. \A i \in 0..last : \E x \in S : place[x] = i
    <2>1. IsFiniteSet(0..last) /\ Cardinality(0..last) = Cardinality(S)
      BY <1>1, FS_Interval
    <2>2. \A x, y \in S : place[x] = place[y] => x = y
      <3> SUFFICES ASSUME NEW x \in S, NEW y \in S, x # y PROVE place[x] # place[y]
        OBVIOUS
      <3>1. place[x] < place[y] \/ place[y] < place[x]
        BY <1>5 DEF StrictlyOrders
      <3> QED  BY <1>1, <1>4, <3>1
    <2>3. place \in Injection(S, 0..last)
      <3>1. place \in [S -> 0..last]
        BY <1>2, <1>4
      <3> QED  BY <2>2, <3>1 DEF Injection, IsInjective
    <2>4. place \in Surjection(S, 0..last)
      BY <2>1, <2>3, FS_Injection
    <2> QED  BY <2>4 DEF Surjection
  <1> QED  BY <1>1, <1>4, <1>5, <1>6 DEF last, place

(* A finite set in a strict total order has a greatest element. *)
LEMMA Greatest ==
    ASSUME NEW S, IsFiniteSet(S), S # {}, NEW R, StrictlyOrders(R, S)
    PROVE  \E m \in S : \A n \in S : <<m, n>> \notin R
  <1>1. Cardinality(S) \in Nat /\ Cardinality(S) # 0
    BY FS_CardinalityType, FS_EmptySet
  <1>2. PICK m \in S : Place(S, R)[m] = 0
    BY <1>1, Places
  <1> DEFINE Above == {n \in S : <<m, n>> \in R}
  <1>3. Cardinality(Above) = 0 /\ Above \in SUBSET S
    BY <1>2 DEF Place
  <1>4. Above = {}
    <2> HIDE DEF Above
    <2> QED  BY <1>3, FS_Subset, FS_EmptySet
  <1> QED  BY <1>4

(* A finite set of integers has a least element. *)
LEMMA LeastInteger ==
    ASSUME NEW S \in SUBSET Int, IsFiniteSet(S), S # {}
    PROVE  \E m \in S : \A n \in S : m <= n
  <1> DEFINE R == {p \in S \X S : p[2] < p[1]}
  <1>1. \A x, y \in S : <<x, y>> \in R <=> y < x
    OBVIOUS
  <1> HIDE DEF R
  <1>2. StrictlyOrders(R, S)
    BY <1>1 DEF StrictlyOrders
  <1>3. PICK m \in S : \A n \in S : <<m, n>> \notin R
    BY <1>2, Greatest
  <1>4. \A n \in S : m <= n
    <2> TAKE n \in S
    <2>1. m \in Int /\ n \in Int /\ ~(n < m)
      BY <1>1, <1>3
    <2> QED  BY <2>1
  <1> QED  BY <1>4

-----------------------------------------------------------------------------
(* The keys of the Runs are ordered. *)
LEMMA KeysOrder ==
    ASSUME PagesTypeOK, NEW jobs \in SUBSET DOMAIN runs,
           NEW R, R = {p \in jobs \X jobs : Below(KeyOf(p[1]), KeyOf(p[2]))}
    PROVE  StrictlyOrders(R, jobs) /\ IsFiniteSet(jobs)
  <1>1. jobs \in SUBSET Job /\ \A j \in jobs : j \in Nat /\ runs[j].at \in Nat
    <2>1. PICK J \in SUBSET Job : runs \in [J -> [at : 0..MaxClock, status : Status]]
      BY DEF PagesTypeOK
    <2>2. jobs \in SUBSET J
      BY <2>1
    <2> QED  BY <2>1, <2>2, PagesAssumption
  <1>2. \A j, k \in jobs : <<j, k>> \in R <=>
            runs[j].at < runs[k].at \/ (runs[j].at = runs[k].at /\ j < k)
    BY DEF Below, KeyOf
  <1>3. StrictlyOrders(R, jobs)
    <2>1. \A x \in jobs : <<x, x>> \notin R
      BY <1>1, <1>2
    <2>2. \A x, y \in jobs : x # y => <<x, y>> \in R \/ <<y, x>> \in R
      BY <1>1, <1>2
    <2>3. \A x, y, z \in jobs : <<x, y>> \in R /\ <<y, z>> \in R => <<x, z>> \in R
      BY <1>1, <1>2
    <2> QED  BY <2>1, <2>2, <2>3 DEF StrictlyOrders
  <1>4. IsFiniteSet(jobs)
    BY <1>1, PagesAssumption, FS_Subset
  <1> QED  BY <1>3, <1>4

(* ORDER BY ... LIMIT n gives all the rows, or the n greatest of them, in  *)
(* descending order.                                                       *)
LEMMA NewestRows ==
    ASSUME PagesTypeOK, NEW jobs \in SUBSET DOMAIN runs, NEW n \in Nat,
           NEW rows, rows = Newest(jobs, n)
    PROVE  /\ rows \in Seq(jobs) /\ Len(rows) <= n
           /\ \A i, k \in 1..Len(rows) : i < k => Below(KeyOf(rows[k]), KeyOf(rows[i]))
           /\ \A j \in jobs :
                 \/ \E i \in 1..Len(rows) : rows[i] = j
                 \/ Len(rows) = n /\ \A i \in 1..n : Below(KeyOf(j), KeyOf(rows[i]))
  <1> DEFINE R == {p \in jobs \X jobs : Below(KeyOf(p[1]), KeyOf(p[2]))}
             place == Place(jobs, R)
             above(j) == Cardinality({k \in jobs : Below(KeyOf(j), KeyOf(k))})
             size == IF Cardinality(jobs) < n THEN Cardinality(jobs) ELSE n
  <1>1. \A j \in jobs : place[j] = above(j)
    <2> TAKE j \in jobs
    <2>1. {k \in jobs : <<j, k>> \in R} = {k \in jobs : Below(KeyOf(j), KeyOf(k))}
      OBVIOUS
    <2> QED  BY <2>1 DEF Place
  <1>2. \A j, k \in jobs : <<j, k>> \in R <=> Below(KeyOf(j), KeyOf(k))
    OBVIOUS
  <1>3. StrictlyOrders(R, jobs) /\ IsFiniteSet(jobs)
    BY KeysOrder
  <1>4. rows = [i \in 1..size |-> CHOOSE j \in jobs : above(j) = i - 1]
    BY DEF Newest
  <1> HIDE DEF R, above
  <1>5. /\ \A j \in jobs : place[j] \in 0..(Cardinality(jobs) - 1)
        /\ \A j, k \in jobs : <<j, k>> \in R => place[k] < place[j]
        /\ \A i \in Nat : i < Cardinality(jobs) => \E j \in jobs : place[j] = i
    BY <1>3, Places
  <1>6. Cardinality(jobs) \in Nat /\ size \in Nat /\ size <= n /\ size <= Cardinality(jobs)
    BY <1>3, FS_CardinalityType
  <1> HIDE DEF place, size
  <1>7. /\ DOMAIN rows = 1..size
        /\ \A i \in 1..size : rows[i] \in jobs /\ place[rows[i]] = i - 1
    <2>1. ASSUME NEW i \in 1..size PROVE rows[i] \in jobs /\ place[rows[i]] = i - 1
      <3>1. i - 1 \in Nat /\ i - 1 < Cardinality(jobs)
        BY <1>6
      <3>2. \E j \in jobs : above(j) = i - 1
        BY <1>1, <1>5, <3>1
      <3>3. rows[i] = CHOOSE j \in jobs : above(j) = i - 1
        BY <1>4
      <3> QED  BY <1>1, <3>2, <3>3
    <2> QED  BY <1>4, <2>1
  <1>8. rows \in Seq(jobs) /\ Len(rows) = size
    BY <1>4, <1>6, <1>7
  <1>9. ASSUME NEW j \in jobs, NEW k \in jobs, place[k] < place[j]
        PROVE  Below(KeyOf(j), KeyOf(k))
    <2>1. <<k, j>> \notin R /\ j # k
      BY <1>5, <1>9
    <2> QED  BY <1>2, <1>3, <2>1 DEF StrictlyOrders
  <1>10. ASSUME NEW i \in 1..size, NEW k \in 1..size, i < k
         PROVE  Below(KeyOf(rows[k]), KeyOf(rows[i]))
    BY <1>6, <1>7, <1>9, <1>10
  <1>11. ASSUME NEW j \in jobs, \A i \in 1..size : rows[i] # j
         PROVE  size = n /\ \A i \in 1..n : Below(KeyOf(j), KeyOf(rows[i]))
    <2>1. place[j] \in Nat /\ place[j] < Cardinality(jobs)
      BY <1>5, <1>6
    <2>2. ASSUME place[j] < size PROVE FALSE
      <3>1. place[j] + 1 \in 1..size
        BY <1>6, <2>1, <2>2
      <3>2. rows[place[j] + 1] \in jobs /\ place[rows[place[j] + 1]] = place[j]
        BY <1>7, <2>1, <3>1
      <3>3. \A k \in jobs : k # j => place[k] # place[j]
        <4> TAKE k \in jobs
        <4>1. k # j => place[k] < place[j] \/ place[j] < place[k]
          BY <1>3, <1>5 DEF StrictlyOrders
        <4>2. place[k] \in Int
          BY <1>5
        <4> QED  BY <2>1, <4>1, <4>2
      <3> QED  BY <1>11, <3>1, <3>2, <3>3
    <2>3. size = n /\ \A i \in 1..size : place[rows[i]] < place[j]
      BY <1>6, <1>7, <2>1, <2>2 DEF size
    <2> QED  BY <1>7, <1>9, <2>3
  <1> QED  BY <1>6, <1>8, <1>10, <1>11

(* Selecting the ids of a page leaves no Run below the cursor behind. *)
LEMMA SelectStep == PagesInv /\ SelectIds => PagesInv'
  <1> SUFFICES ASSUME PagesInv, SelectIds PROVE PagesInv'
    OBVIOUS
  <1> DEFINE matching == {j \in DOMAIN runs : /\ filter \in {AnyStatus, runs[j].status}
                                              /\ Below(KeyOf(j), cursor)}
  <1>0. PagesTypeOK /\ step = "select" /\ Limit \in Nat \ {0}
    BY PagesAssumption DEF PagesInv, SelectIds
  <1>1. /\ ids' = Newest(matching, Limit + 1) /\ page' = <<>> /\ step' = "read"
        /\ UNCHANGED <<runs, clock, filter, cursor, shown, touched, receded, writes>>
    BY DEF SelectIds
  <1>2. matching \in SUBSET DOMAIN runs
    OBVIOUS
  <1>3. \A j \in DOMAIN runs : filter \in {AnyStatus, runs[j].status} /\ Below(KeyOf(j), cursor)
                               => j \in matching
    OBVIOUS
  <1> HIDE DEF matching
  <1>4. /\ ids' \in Seq(matching) /\ Len(ids') <= Limit + 1
        /\ \A i, k \in 1..Len(ids') : i < k => Below(KeyOf(ids'[k]), KeyOf(ids'[i]))
        /\ \A j \in matching :
              \/ \E i \in 1..Len(ids') : ids'[i] = j
              \/ Len(ids') = Limit + 1 /\ \A i \in 1..(Limit + 1) : Below(KeyOf(j), KeyOf(ids'[i]))
    <2> DEFINE n == Limit + 1
               rows == ids'
    <2>1. n \in Nat /\ rows = Newest(matching, n)
      BY <1>0, <1>1
    <2> HIDE DEF n, rows
    <2>2. /\ rows \in Seq(matching) /\ Len(rows) <= n
          /\ \A i, k \in 1..Len(rows) : i < k => Below(KeyOf(rows[k]), KeyOf(rows[i]))
          /\ \A j \in matching :
                \/ \E i \in 1..Len(rows) : rows[i] = j
                \/ Len(rows) = n /\ \A i \in 1..n : Below(KeyOf(j), KeyOf(rows[i]))
      BY <1>0, <1>2, <2>1, NewestRows
    <2> QED  BY <2>2 DEF n, rows
  <1>5. ids' \in Seq(DOMAIN runs) /\ Len(ids') \in Nat /\ Len(page') = 0
    BY <1>1, <1>2, <1>4
  <1>6. PagesTypeOK'
    BY <1>0, <1>1, <1>4, <1>5 DEF PagesTypeOK
  <1>7. ASSUME NEW j \in DOMAIN runs \ touched, ~receded, filter \in {AnyStatus, runs[j].status}
        PROVE  Reached(j)'
    <2>1. j \in shown \/ j \in matching
      BY <1>0, <1>3, <1>7 DEF PagesInv, Reached
    <2>2. CASE j \in shown
      BY <1>1, <2>2 DEF Reached
    <2>3. ASSUME NEW i \in 1..Len(ids'), ids'[i] = j PROVE Reached(j)'
      <3>1. CASE i <= Limit
        BY <1>1, <2>3, <3>1 DEF Reached
      <3>2. CASE ~(i <= Limit)
        <4>1. i = Limit + 1 /\ Len(ids') = Limit + 1 /\ Limit \in 1..Len(ids') /\ Limit < i
          BY <1>0, <1>4, <1>5, <3>2
        <4>2. Below(KeyOf(j), KeyOf(ids'[Limit]))
          BY <1>4, <2>3, <4>1
        <4>3. Boundary' = KeyOf(ids'[Limit]) /\ KeyOf(j)' = KeyOf(j)
          BY <1>0, <1>1, <1>5 DEF Boundary, KeyOf
        <4> QED  BY <1>1, <4>1, <4>2, <4>3 DEF Reached, Below
      <3> QED  BY <3>1, <3>2
    <2>4. ASSUME Len(ids') = Limit + 1, Below(KeyOf(j), KeyOf(ids'[Limit])) PROVE Reached(j)'
      <3>1. Boundary' = KeyOf(ids'[Limit]) /\ KeyOf(j)' = KeyOf(j)
        BY <1>0, <1>1, <1>5 DEF Boundary, KeyOf
      <3> QED  BY <1>1, <2>4, <3>1 DEF Reached, Below
    <2> QED  BY <1>0, <1>4, <2>1, <2>2, <2>3, <2>4
  <1>8. \A i \in 1..Len(page') : page'[i].job = ids'[i]
    BY <1>5
  <1>9. page' \in Seq(Key)
    BY <1>1
  <1> QED  BY <1>1, <1>5, <1>6, <1>7, <1>8, <1>9 DEF PagesInv

(* The key of a stored Run. *)
LEMMA KeyTypes ==
    ASSUME PagesTypeOK, NEW j \in DOMAIN runs
    PROVE  /\ KeyOf(j) \in Key /\ KeyOf(j).job = j /\ KeyOf(j).at = runs[j].at
           /\ runs[j].at \in Nat /\ j \in Job /\ j \in Nat
  <1>1. PICK J \in SUBSET Job : runs \in [J -> [at : 0..MaxClock, status : Status]]
    BY DEF PagesTypeOK
  <1>2. j \in Job /\ runs[j] \in [at : 0..MaxClock, status : Status]
    BY <1>1
  <1> QED  BY <1>2, PagesAssumption DEF KeyOf, Key

(* A row is read as it is by then, and the boundary stays where it is. *)
LEMMA ReadStep == PagesInv /\ ReadRun => PagesInv'
  <1> SUFFICES ASSUME PagesInv, ReadRun PROVE PagesInv'
    OBVIOUS
  <1> DEFINE n == Len(page) + 1
  <1>0. PagesTypeOK /\ Limit \in Nat \ {0} /\ ids \in Seq(DOMAIN runs) /\ page \in Seq(Key)
    BY PagesAssumption DEF PagesInv
  <1>1. /\ step = "read" /\ page' = Append(page, KeyOf(ids[n])) /\ n \in 1..Len(ids)
        /\ UNCHANGED <<runs, clock, filter, cursor, ids, step, shown, touched, receded, writes>>
    BY <1>0 DEF ReadRun
  <1>2. ids[n] \in DOMAIN runs /\ KeyOf(ids[n]) \in Key /\ KeyOf(ids[n]).job = ids[n]
    BY <1>0, <1>1, KeyTypes
  <1>3. /\ page' \in Seq(Key) /\ Len(page') = n /\ page'[n] = KeyOf(ids[n])
        /\ \A i \in 1..Len(page) : page'[i] = page[i]
    BY <1>0, <1>1, <1>2
  <1>4. PagesTypeOK'
    BY <1>0, <1>1, <1>3 DEF PagesTypeOK
  <1>5. \A i \in 1..Len(page') : page'[i].job = ids'[i]
    BY <1>0, <1>1, <1>2, <1>3 DEF PagesInv
  <1>6. Boundary' = Boundary
    <2>1. CASE n < Limit
      BY <1>0, <1>1, <1>3, <2>1 DEF Boundary, KeyOf
    <2>2. CASE n = Limit
      BY <1>0, <1>1, <1>3, <2>2 DEF Boundary
    <2>3. CASE n > Limit
      BY <1>0, <1>1, <1>3, <2>3 DEF Boundary
    <2> QED  BY <1>0, <2>1, <2>2, <2>3
  <1>7. \A j \in DOMAIN runs : Reached(j) => Reached(j)'
    <2> HIDE DEF n
    <2>1. \A j \in DOMAIN runs : KeyOf(j)' = KeyOf(j)
      BY <1>1 DEF KeyOf
    <2> QED  BY <1>1, <1>6, <2>1 DEF Reached, Below
  <1> QED  BY <1>0, <1>1, <1>3, <1>4, <1>5, <1>7 DEF PagesInv

(* A page that is sent shows what it selected, up to the next cursor. *)
LEMMA SendStep == PagesInv /\ SendPage => PagesInv'
  <1> SUFFICES ASSUME PagesInv, SendPage PROVE PagesInv'
    OBVIOUS
  <1> DEFINE count == IF Len(page) > Limit THEN Limit ELSE Len(page)
  <1>0. /\ PagesTypeOK /\ Limit \in Nat \ {0} /\ ids \in Seq(DOMAIN runs) /\ page \in Seq(Key)
        /\ \A i \in 1..Len(page) : page[i].job = ids[i]
    BY PagesAssumption DEF PagesInv
  <1>1. /\ step = "read" /\ Len(page) = Len(ids)
        /\ shown' = shown \cup {page[i].job : i \in 1..count}
        /\ Len(page) > Limit => cursor' = page[Limit] /\ step' = "select"
        /\ Len(page) <= Limit => cursor' = cursor /\ step' = "end"
        /\ UNCHANGED <<runs, clock, filter, ids, page, touched, receded, writes>>
    BY <1>0 DEF SendPage
  <1>2. count \in Nat /\ count <= Len(page) /\ count <= Limit /\ Len(page) \in Nat
    BY <1>0
  <1>3. \A i \in 1..count : page[i].job = ids[i] /\ ids[i] \in DOMAIN runs
    BY <1>0, <1>1, <1>2
  <1>4. \A i \in 1..Len(ids) : i <= Limit => ids[i] \in shown'
    BY <1>0, <1>1, <1>3
  <1> HIDE DEF count
  <1>5. PagesTypeOK'
    <2>1. shown' \subseteq DOMAIN runs'
      BY <1>0, <1>1, <1>3 DEF PagesTypeOK
    <2>2. cursor' \in Key \cup {NoCursor}
      BY <1>0, <1>1 DEF PagesTypeOK
    <2>3. step' \in {"select", "read", "end"}
      BY <1>0, <1>1
    <2> QED  BY <1>0, <1>1, <2>1, <2>2, <2>3 DEF PagesTypeOK
  <1>6. ASSUME NEW j \in DOMAIN runs, Reached(j) PROVE Reached(j)'
    <2>1. CASE j \in shown \/ \E i \in 1..Len(ids) : i <= Limit /\ ids[i] = j
      BY <1>1, <1>4, <2>1 DEF Reached
    <2>2. CASE Len(ids) = Limit + 1 /\ Below(KeyOf(j), Boundary)
      <3>1. cursor' = Boundary /\ step' = "select" /\ KeyOf(j)' = KeyOf(j)
        BY <1>0, <1>1, <2>2 DEF Boundary, KeyOf
      <3> QED  BY <2>2, <3>1 DEF Reached, Below
    <2> QED  BY <1>1, <1>6, <2>1, <2>2 DEF Reached
  <1> QED  BY <1>0, <1>1, <1>5, <1>6 DEF PagesInv

(* A write moves the boundary of a page up, if it moves it, unless a stamp *)
(* went back.                                                              *)
LEMMA WriteStep ==
    ASSUME PagesInv, NEW k \in Job, NEW s \in Status, NEW stamp \in 0..clock,
           WriteRun(k, s, stamp)
    PROVE  PagesInv'
  <1>0. /\ PagesTypeOK /\ Limit \in Nat \ {0} /\ ids \in Seq(DOMAIN runs) /\ page \in Seq(Key)
        /\ clock \in 0..MaxClock /\ MaxClock \in Nat /\ writes \in 0..MaxWrites /\ MaxWrites \in Nat
        /\ stamp \in 0..MaxClock
    BY PagesAssumption DEF PagesInv, PagesTypeOK
  <1>1. /\ writes < MaxWrites /\ writes' = writes + 1
        /\ runs' = [j \in DOMAIN runs \cup {k} |->
                       IF j = k THEN [at |-> stamp, status |-> s] ELSE runs[j]]
        /\ touched' = touched \cup {k}
        /\ receded' = (receded \/ (k \in DOMAIN runs /\ stamp < runs[k].at))
        /\ UNCHANGED <<clock, filter, cursor, ids, page, step, shown>>
    BY DEF WriteRun, readerVars
  <1>2. /\ DOMAIN runs' = DOMAIN runs \cup {k}
        /\ \A j \in DOMAIN runs \ {k} : runs'[j] = runs[j]
        /\ runs'[k].at = stamp
    BY <1>1
  <1>3. PagesTypeOK'
    <2>1. PICK J \in SUBSET Job : runs \in [J -> [at : 0..MaxClock, status : Status]]
      BY <1>0 DEF PagesTypeOK
    <2>2. runs' \in [J \cup {k} -> [at : 0..MaxClock, status : Status]]
      BY <1>0, <1>1, <2>1
    <2>3. runs' \in UNION {[I -> [at : 0..MaxClock, status : Status]] : I \in SUBSET Job}
      BY <2>2
    <2>4. receded' \in BOOLEAN /\ writes' \in 0..MaxWrites
      BY <1>0, <1>1 DEF PagesTypeOK
    <2> QED  BY <1>0, <1>1, <1>2, <2>3, <2>4 DEF PagesTypeOK
  <1>4. ids' \in Seq(DOMAIN runs')
    BY <1>0, <1>1, <1>2
  <1>5. ASSUME NEW j \in DOMAIN runs' \ touched', ~receded', filter \in {AnyStatus, runs'[j].status}
        PROVE  Reached(j)'
    <2>1. /\ j \in DOMAIN runs \ touched /\ j # k /\ ~receded /\ runs'[j] = runs[j]
          /\ k \in DOMAIN runs => ~(stamp < runs[k].at)
      BY <1>1, <1>2, <1>5 DEF PagesInv, PagesTypeOK
    <2>2. Reached(j) /\ KeyOf(j)' = KeyOf(j)
      BY <1>5, <2>1 DEF PagesInv, KeyOf
    <2>3. ASSUME step = "read", Len(ids) = Limit + 1, Below(KeyOf(j), Boundary)
          PROVE  Below(KeyOf(j), Boundary')
      <3>1. CASE Len(page) < Limit
        <4> DEFINE b == ids[Limit]
        <4>1. b \in DOMAIN runs /\ ids'[Limit] = b
          BY <1>0, <1>1, <2>3
        <4>2. Boundary = KeyOf(b) /\ Boundary' = [at |-> runs'[b].at, job |-> b]
          BY <1>1, <3>1 DEF Boundary, KeyOf
        <4>3. runs[b].at \in Nat /\ runs[j].at \in Nat /\ b \in Nat /\ j \in Nat
          BY <1>0, <2>1, <4>1, KeyTypes
        <4> HIDE DEF b
        <4>4. runs'[b].at \in Nat /\ runs[b].at <= runs'[b].at
          BY <1>0, <1>2, <2>1, <4>1, <4>3
        <4> QED  BY <2>3, <4>2, <4>3, <4>4 DEF Below, KeyOf
      <3>2. CASE ~(Len(page) < Limit)
        BY <1>1, <2>3, <3>2 DEF Boundary
      <3> QED  BY <3>1, <3>2
    <2> QED  BY <1>1, <2>2, <2>3 DEF Reached, Below
  <1> QED  BY <1>0, <1>1, <1>3, <1>4, <1>5 DEF PagesInv

(* A step that leaves the Runs and the listing alone. *)
LEMMA PagesUntouched ==
    ASSUME PagesInv, UNCHANGED <<runs, readerVars, touched, receded, writes>>, clock' \in 0..MaxClock
    PROVE  PagesInv'
  <1>1. UNCHANGED <<runs, filter, cursor, ids, page, step, shown, touched, receded, writes>>
    BY DEF readerVars
  <1>2. PagesTypeOK'
    BY <1>1 DEF PagesInv, PagesTypeOK
  <1>3. \A j : Reached(j) => Reached(j)'
    BY <1>1 DEF Reached, Below, KeyOf, Boundary
  <1> QED  BY <1>1, <1>2, <1>3 DEF PagesInv

LEMMA PagesStep == PagesInv /\ [PagesNext]_pageVars => PagesInv'
  <1> SUFFICES ASSUME PagesInv, [PagesNext]_pageVars PROVE PagesInv'
    OBVIOUS
  <1>0. clock \in 0..MaxClock /\ MaxClock \in Nat
    BY PagesAssumption DEF PagesInv, PagesTypeOK
  <1>1. CASE UNCHANGED pageVars
    BY <1>0, <1>1, PagesUntouched DEF pageVars, readerVars
  <1>2. CASE PagesTick
    <2>1. clock' \in 0..MaxClock /\ UNCHANGED <<runs, readerVars, touched, receded, writes>>
      BY <1>0, <1>2 DEF PagesTick
    <2> QED  BY <2>1, PagesUntouched
  <1> QED  BY <1>1, <1>2, SelectStep, ReadStep, SendStep, WriteStep DEF PagesNext

(* The listing starts above every key. *)
LEMMA PagesStart == PagesInit => PagesInv
  <1> SUFFICES ASSUME PagesInit PROVE PagesInv
    OBVIOUS
  <1>1. /\ 0 \in 0..MaxClock /\ 1 \in 0..MaxClock /\ MaxClock \in Nat /\ Limit \in Nat
        /\ 0 \in 0..MaxWrites
    BY PagesAssumption
  <1>2. PICK J \in SUBSET Job : runs \in [J -> [at : {0, 1}, status : Status]]
    BY DEF PagesInit
  <1>3. runs \in [J -> [at : 0..MaxClock, status : Status]]
    BY <1>1, <1>2
  <1>4. PagesTypeOK
    <2>1. runs \in UNION {[I -> [at : 0..MaxClock, status : Status]] : I \in SUBSET Job}
      BY <1>3
    <2>2. clock \in 0..MaxClock /\ writes \in 0..MaxWrites /\ Len(ids) <= Limit + 1 /\ Len(page) <= Len(ids)
      BY <1>1 DEF PagesInit
    <2> QED  BY <2>1, <2>2 DEF PagesInit, PagesTypeOK
  <1>5. \A j \in DOMAIN runs : runs[j].at < MaxClock + 1
    BY <1>1, <1>3
  <1>6. \A j \in DOMAIN runs : Reached(j)
    BY <1>5 DEF PagesInit, Reached, Below, KeyOf, NoCursor
  <1> QED  BY <1>4, <1>6 DEF PagesInit, PagesInv

(* A listing of any number of Runs, in pages of any size, shows every Run  *)
(* that matches and stays as it is, whatever is inserted and updated       *)
(* beside it, while no stamp goes back (store.py:247).                     *)
THEOREM ListingIsComplete == PagesSpec => []UnchangedRunIsListed
  <1>1. PagesInv => UnchangedRunIsListed
    BY DEF PagesInv, UnchangedRunIsListed, Reached
  <1> QED  BY <1>1, PagesStart, PagesStep, PTL DEF PagesSpec

-----------------------------------------------------------------------------
(* The worst slack of a path is below 0 if it has a violation, and else 0. *)
LEMMA WorstSlack ==
    ASSUME NEW r \in Revision, NEW path
    PROVE  /\ (\E f \in Findings[r] : f.path = path /\ f.slack < 0) => Worst(r, path) < 0
           /\ (~\E f \in Findings[r] : f.path = path /\ f.slack < 0) => Worst(r, path) = 0
  <1> DEFINE F == {f \in Findings[r] : f.path = path}
             slack == [f \in F |-> f.slack]
             S == {f.slack : f \in F}
             slacks == S \cup {0}
  <1>1. F \in SUBSET Findings[r] /\ IsFiniteSet(Findings[r]) /\ \A f \in F : f.slack \in Int
    BY RevisionsAssumption
  <1>2. IsFiniteSet(F)
    BY <1>1, FS_Subset
  <1>3. slack \in Surjection(F, S)
    BY DEF Surjection
  <1>4. IsFiniteSet(S)
    BY <1>2, <1>3, FS_Surjection
  <1>5. IsFiniteSet(slacks) /\ slacks # {} /\ slacks \in SUBSET Int
    BY <1>1, <1>4, FS_AddElement
  <1>6. Worst(r, path) = CHOOSE s \in slacks : \A t \in slacks : s <= t
    BY DEF Worst
  <1>7. \A s \in slacks : s = 0 \/ \E f \in F : s = f.slack
    OBVIOUS
  <1>8. 0 \in slacks /\ \A f \in F : f.slack \in slacks
    OBVIOUS
  <1> HIDE DEF slacks
  <1>9. PICK s \in slacks : \A t \in slacks : s <= t
    BY <1>5, LeastInteger
  <1>10. Worst(r, path) \in slacks /\ \A t \in slacks : Worst(r, path) <= t
    BY <1>6, <1>9
  <1>11. ASSUME NEW f \in Findings[r], f.path = path, f.slack < 0 PROVE Worst(r, path) < 0
    <2>1. f \in F /\ f.slack \in Int
      BY <1>1, <1>11
    <2>2. Worst(r, path) \in Int /\ Worst(r, path) <= f.slack
      BY <1>5, <1>8, <1>10, <2>1
    <2> QED  BY <1>11, <2>1, <2>2
  <1>12. ASSUME ~\E f \in Findings[r] : f.path = path /\ f.slack < 0 PROVE Worst(r, path) = 0
    <2>1. \A s1 \in slacks : ~(s1 < 0)
      BY <1>7, <1>12
    <2>2. Worst(r, path) \in Int /\ Worst(r, path) <= 0 /\ ~(Worst(r, path) < 0)
      BY <1>5, <1>8, <1>10, <2>1
    <2> QED  BY <2>2
  <1> QED  BY <1>11, <1>12

(* A revision moves on; those whose findings are stored keep them. *)
LEMMA StoreStep ==
    ASSUME RevisionsInv, NEW r \in Revision, CreateRevision(r) \/ SaveFindings(r)
    PROVE  RevisionsInv'
  <1>0. RevisionsTypeOK /\ UNCHANGED <<base, cand, settled, answer>>
    BY DEF RevisionsInv, CreateRevision, SaveFindings
  <1>1. PICK to \in {"created", "saved"} :
           /\ stored' = [stored EXCEPT ![r] = to]
           /\ stored[r] # "saved"
           /\ found' = IF to = "saved" THEN [found EXCEPT ![r] = Findings[r]] ELSE found
    BY DEF CreateRevision, SaveFindings
  <1>2. stored' \in [Revision -> {"absent", "created", "saved"}]
    BY <1>0, <1>1 DEF RevisionsTypeOK
  <1>3. found' = [q \in Revision |-> IF stored'[q] = "saved" THEN Findings[q] ELSE {}]
    BY <1>0, <1>1 DEF RevisionsInv, RevisionsTypeOK
  <1>4. \A q \in Revision : stored[q] = "saved" => stored'[q] = "saved" /\ found'[q] = found[q]
    BY <1>0, <1>1 DEF RevisionsInv, RevisionsTypeOK
  <1>5. RevisionsTypeOK'
    BY <1>0, <1>2, <1>3 DEF RevisionsTypeOK
  <1> QED  BY <1>0, <1>3, <1>4, <1>5 DEF RevisionsInv, RevisionsTypeOK

(* A question is compared only where the three conditions are the same. *)
LEMMA AskStep ==
    ASSUME RevisionsInv, NEW b \in Revision, NEW c \in Revision, Ask(b, c)
    PROVE  RevisionsInv'
  <1> DEFINE kind == IF "absent" \in {stored[b], stored[c]} THEN "unknown" ELSE Comparability(b, c)
  <1>1. /\ base' = b /\ cand' = c /\ settled' = {r \in {b, c} : stored[r] = "saved"}
        /\ answer' = [kind |-> kind, new |-> {}] /\ UNCHANGED <<stored, found>>
    BY DEF Ask, Open
  <1>2. kind \in {"unknown", "asked", "INCOMPARABLE", "CONDITION_CHANGED", "TOOL_CHANGED"}
    BY DEF Comparability
  <1>3. kind = "asked" => Meta[b] = Meta[c]
    <2>1. kind = "asked" => /\ Meta[b].design = Meta[c].design
                            /\ Meta[b].conditions = Meta[c].conditions
                            /\ Meta[b].tool = Meta[c].tool
      BY DEF Comparability
    <2> QED  BY <2>1, RevisionsAssumption
  <1> HIDE DEF kind
  <1>4. answer'.kind = kind /\ answer'.new = {} /\ kind # "COMPARABLE"
    BY <1>1, <1>2
  <1>5. RevisionsTypeOK'
    BY <1>1, <1>2, <1>4 DEF RevisionsInv, RevisionsTypeOK
  <1> QED  BY <1>1, <1>3, <1>4, <1>5 DEF RevisionsInv

(* The answer is taken from the findings as they are stored by then. *)
LEMMA CompareStep == RevisionsInv /\ Compare => RevisionsInv'
  <1> SUFFICES ASSUME RevisionsInv, Compare PROVE RevisionsInv'
    OBVIOUS
  <1>1. /\ answer.kind = "asked"
        /\ answer'.kind = "COMPARABLE" /\ answer'.new = NewViolations(base, cand)
        /\ UNCHANGED <<stored, found, base, cand, settled>>
    BY DEF Compare
  <1>2. /\ base \in Revision /\ cand \in Revision
        /\ \A r \in settled : stored[r] = "saved"
        /\ \A r \in Revision : found[r] = IF stored[r] = "saved" THEN Findings[r] ELSE {}
    BY <1>1 DEF RevisionsInv
  <1>3. RevisionsTypeOK'
    BY <1>1 DEF RevisionsInv, RevisionsTypeOK
  <1> DEFINE old == {g.path : g \in {h \in Findings[base] : h.slack < 0}}
  <1>4. answer'.new \subseteq {f \in Findings[cand] : f.slack < 0}
    BY <1>1, <1>2 DEF NewViolations
  <1>5. ASSUME base \in settled, NEW f \in answer'.new PROVE f.path \notin old
    <2>1. found[base] = Findings[base]
      BY <1>2, <1>5
    <2> QED  BY <1>1, <1>5, <2>1 DEF NewViolations
  <1>6. ASSUME cand \in settled, NEW f \in Findings[cand], f.slack < 0, f.path \notin old
        PROVE  f \in answer'.new
    <2>1. f \in found[cand]
      BY <1>2, <1>6
    <2>2. \A g \in found[base] : g \in Findings[base]
      BY <1>2
    <2> QED  BY <1>1, <1>6, <2>1, <2>2 DEF NewViolations
  <1> QED  BY <1>1, <1>2, <1>3, <1>4, <1>5, <1>6 DEF RevisionsInv

LEMMA RevisionsStep == RevisionsInv /\ [RevisionsNext]_revisionVars => RevisionsInv'
  <1> SUFFICES ASSUME RevisionsInv, [RevisionsNext]_revisionVars PROVE RevisionsInv'
    OBVIOUS
  <1>1. CASE UNCHANGED revisionVars
    <2>1. UNCHANGED <<stored, found, base, cand, settled, answer>>
      BY <1>1 DEF revisionVars
    <2> QED  BY <2>1 DEF RevisionsInv, RevisionsTypeOK
  <1> QED  BY <1>1, StoreStep, AskStep, CompareStep DEF RevisionsNext

LEMMA RevisionsStart == RevisionsInit => RevisionsInv
  <1> SUFFICES ASSUME RevisionsInit PROVE RevisionsInv
    OBVIOUS
  <1>1. RevisionsTypeOK
    BY DEF RevisionsInit, RevisionsTypeOK, Open
  <1>2. found = [r \in Revision |-> IF stored[r] = "saved" THEN Findings[r] ELSE {}]
    BY DEF RevisionsInit
  <1> QED  BY <1>1, <1>2 DEF RevisionsInit, RevisionsInv, Open

(* An answer reports violations of the candidate, only new ones where the  *)
(* baseline's findings are stored, all of them where the candidate's are,  *)
(* and nothing of revisions that are not comparable, for any findings      *)
(* (store.py:582).                                                         *)
THEOREM ComparisonErrsToOneSide == RevisionsSpec => []AnswerErrsToOneSide
  <1>1. ASSUME RevisionsInv PROVE AnswerErrsToOneSide
    <2> DEFINE reported == {f.path : f \in answer.new}
               paths == {f.path : f \in UNION {Findings[r] : r \in Revision}}
               turned == {p \in paths : Worst(base, p) = 0 /\ Worst(cand, p) < 0}
               old == {g.path : g \in {h \in Findings[base] : h.slack < 0}}
    <2>1. answer.kind # "COMPARABLE" => reported = {}
      BY <1>1 DEF RevisionsInv
    <2>2. ASSUME answer.kind = "COMPARABLE"
          PROVE  /\ Meta[base] = Meta[cand]
                 /\ \A p \in reported : Worst(cand, p) < 0
                 /\ base \in settled => reported \subseteq turned
                 /\ cand \in settled => turned \subseteq reported
      <3>1. /\ base \in Revision /\ cand \in Revision /\ Meta[base] = Meta[cand]
            /\ answer.new \subseteq {f \in Findings[cand] : f.slack < 0}
            /\ base \in settled => \A f \in answer.new : f.path \notin old
            /\ cand \in settled =>
                  \A f \in Findings[cand] : f.slack < 0 /\ f.path \notin old => f \in answer.new
        BY <1>1, <2>2 DEF RevisionsInv
      <3>2. ASSUME NEW f \in answer.new PROVE f.path \in paths /\ Worst(cand, f.path) < 0
        BY <3>1, <3>2, WorstSlack
      <3>3. ASSUME base \in settled, NEW f \in answer.new PROVE f.path \in turned
        <4>1. ~\E g \in Findings[base] : g.path = f.path /\ g.slack < 0
          BY <3>1, <3>3
        <4>2. Worst(base, f.path) = 0
          BY <3>1, <4>1, WorstSlack
        <4> QED  BY <3>2, <3>3, <4>2
      <3>4. ASSUME cand \in settled, NEW p \in turned PROVE p \in reported
        <4>1. PICK f \in Findings[cand] : f.path = p /\ f.slack < 0
          BY <3>1, <3>4, WorstSlack
        <4>2. ~\E g \in Findings[base] : g.path = p /\ g.slack < 0
          BY <3>1, <3>4, WorstSlack
        <4>3. f \in answer.new
          BY <3>1, <3>4, <4>1, <4>2
        <4> QED  BY <4>1, <4>3
      <3> QED  BY <3>1, <3>2, <3>3, <3>4
    <2> QED  BY <2>1, <2>2 DEF AnswerErrsToOneSide
  <1> QED  BY <1>1, RevisionsStart, RevisionsStep, PTL DEF RevisionsSpec

-----------------------------------------------------------------------------
(* The components run side by side, one of which steps: what holds of each *)
(* holds of StoreParts, the specification TLC checks.                      *)
Whole == PartsInv /\ SlotsInv /\ MigrationInv

LEMMA PartsStep == Whole /\ [Next]_partVars => Whole'
  <1> SUFFICES ASSUME Whole, [Next]_partVars PROVE Whole'
    OBVIOUS
  <1>1. PagesInv' /\ RevisionsInv' /\ SlotsInv' /\ MigrationInv'
    <2>1. /\ [PagesNext]_pageVars /\ [RevisionsNext]_revisionVars
          /\ [SlotsNext]_slotVars /\ [MigrationNext]_schemaVars
      BY DEF Next, partVars
    <2> QED  BY <2>1, PagesStep, RevisionsStep, SlotsStep, MigrationStep DEF Whole, PartsInv
  <1>2. TypeOK'
    BY <1>1 DEF TypeOK, PagesInv, RevisionsInv, SlotsInv, MigrationInv
  <1> QED  BY <1>1, <1>2 DEF Whole, PartsInv

LEMMA PartsStart == Init => Whole
  <1> SUFFICES ASSUME Init PROVE Whole
    OBVIOUS
  <1>1. PagesInv /\ RevisionsInv /\ SlotsInv /\ MigrationInv
    BY PagesStart, RevisionsStart, SlotsStart, MigrationStart DEF Init
  <1> QED  BY <1>1 DEF Whole, PartsInv, TypeOK, PagesInv, RevisionsInv, SlotsInv, MigrationInv

(* The types of the four components, and the invariants of a listing and   *)
(* of a comparison from which the theorems above follow.                   *)
THEOREM PartsAreInvariant == Spec => []PartsInv
  <1>1. Whole => PartsInv
    BY DEF Whole
  <1> QED  BY <1>1, PartsStart, PartsStep, PTL DEF Spec

(* A behaviour of StoreParts is one of each component, so that what the    *)
(* runs check of the four is what the theorems about the four state.       *)
THEOREM PartsAreIndependent ==
    Spec => PagesSpec /\ RevisionsSpec /\ SlotsSpec /\ MigrationSpec
  <1>1. Init => PagesInit /\ RevisionsInit /\ SlotsInit /\ MigrationInit
    BY DEF Init
  <1>2. [Next]_partVars => /\ [PagesNext]_pageVars /\ [RevisionsNext]_revisionVars
                           /\ [SlotsNext]_slotVars /\ [MigrationNext]_schemaVars
    BY DEF Next, partVars
  <1> QED  BY <1>1, <1>2, PTL DEF Spec, PagesSpec, RevisionsSpec, SlotsSpec, MigrationSpec
===============================================================================
