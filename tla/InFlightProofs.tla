---------------------------- MODULE InFlightProofs ----------------------------
(***************************************************************************)
(* The counters of InFlight hold their promises for any number of          *)
(* requests, threads and addresses and for every cap.                      *)
(***************************************************************************)
EXTENDS InFlight, FiniteSetTheorems, WellFoundedInduction, TLAPS

\* The two halves of TypeOK: the types themselves, and the store of 0 to come.
Shapes ==
  /\ cnt \in [Ips -> Int \cup {None}]
  /\ sub \in [Subnets -> Nat \cup {None}]
  /\ pc \in [Requests -> PCs]
  /\ addr \in [Requests -> Ips]
  /\ at \in [Requests -> 0 .. Len(Order)]
  /\ sum \in [Requests -> Int]
  /\ admitted \subseteq Requests
  /\ spilled \subseteq Requests
Credit(ip) == cnt[ip] \in Nat \cup {None} \/ Locked(ip)

\* A request that moves, but not out of dec's second step, leaves the locks as they are.
LEMMA LocksStay ==
  ASSUME NEW r \in Requests, NEW p, Shapes, pc[r] # "zero", pc' = [pc EXCEPT ![r] = p],
         addr' = addr, NEW ip \in Ips, Locked(ip)
  PROVE  Locked(ip)'
<1>1. PICK q \in Requests : pc[q] = "zero" /\ addr[q] = ip
  BY DEF Locked
<1>2. q # r /\ pc'[q] = "zero" /\ addr'[q] = ip
  BY <1>1 DEF Shapes
<1>3. QED
  BY <1>2 DEF Locked

\* Steps that write no counter leave every address as it was.
LEMMA CreditStays ==
  ASSUME NEW r \in Requests, NEW p, TypeOK, pc[r] # "zero", pc' = [pc EXCEPT ![r] = p],
         addr' = addr, cnt' = cnt
  PROVE  \A ip \in Ips : Credit(ip)'
<1>1. Shapes /\ \A ip \in Ips : Credit(ip)
  BY DEF TypeOK, Shapes, Credit
<1>2. \A ip \in Ips : Locked(ip) => Locked(ip)'
  BY <1>1, LocksStay
<1>3. QED
  BY <1>1, <1>2 DEF Credit

\* Steps that write one counter, and leave it above zero or with the store to come.
LEMMA CreditKept ==
  ASSUME NEW r \in Requests, NEW p, NEW n, TypeOK, pc[r] # "zero", pc' = [pc EXCEPT ![r] = p],
         addr' = addr, cnt' = [cnt EXCEPT ![addr[r]] = n],
         n \in Nat \/ Locked(addr[r]) \/ p = "zero"
  PROVE  \A ip \in Ips : Credit(ip)'
<1>1. Shapes /\ \A ip \in Ips : Credit(ip)
  BY DEF TypeOK, Shapes, Credit
<1>2. \A ip \in Ips : Locked(ip) => Locked(ip)'
  BY <1>1, LocksStay
<1>3. p = "zero" => Locked(addr[r])'
  BY <1>1 DEF Shapes, Locked
<1>4. addr[r] \in Ips /\ cnt'[addr[r]] = n /\ \A ip \in Ips : ip # addr[r] => cnt'[ip] = cnt[ip]
  BY <1>1 DEF Shapes
<1>5. ASSUME NEW ip \in Ips PROVE Credit(ip)'
  BY <1>1, <1>2, <1>3, <1>4 DEF Credit
<1>6. QED
  BY <1>5

\* The variables have their types and a counter below zero has its store of 0 still to
\* come, whatever the interleaving of at_capacity, inc, dec (connections.rs:26-33) and gc.
THEOREM Typing == Spec => []TypeOK
<1>1. Init => TypeOK
  BY NetAssumption, CapAssumption DEF Init, TypeOK, PCs
<1>2. Shapes /\ [Next]_vars => Shapes'
  <2> SUFFICES ASSUME Shapes, [Next]_vars PROVE Shapes'
    OBVIOUS
  <2> USE DEF Shapes, PCs, Go, door
  <2>1. CASE UNCHANGED vars
    BY <2>1 DEF vars
  <2>2. ASSUME NEW r \in Requests, Arrive(r) PROVE Shapes'
    BY <2>2 DEF Arrive
  <2>3. ASSUME NEW r \in Requests, Scan(r) PROVE Shapes'
    <3>1. Order[at[r] + 1] \in Ips /\ at[r] + 1 \in 0 .. Len(Order)
      BY <2>3, NetAssumption DEF Scan
    <3>2. current(Order[at[r] + 1]) \in Int
      BY <3>1 DEF current
    <3>3. QED
      BY <2>3, <3>1, <3>2 DEF Scan
  <2>4. ASSUME NEW r \in Requests, Door(r) PROVE Shapes'
    BY <2>4, NetAssumption DEF Door
  <2>5. ASSUME NEW r \in Requests, IncGet(r) PROVE Shapes'
    <3>1. CASE addr[r] \in Tracked
      <4>1. cnt[addr[r]] + 1 \in Int
        BY <3>1 DEF Tracked
      <4>2. QED
        BY <2>5, <3>1, <4>1 DEF IncGet
    <3>2. CASE addr[r] \notin Tracked
      BY <2>5, <3>2 DEF IncGet
    <3>3. QED
      BY <3>1, <3>2
  <2>6. ASSUME NEW r \in Requests, IncLen(r) PROVE Shapes'
    BY <2>6 DEF IncLen
  <2>7. ASSUME NEW r \in Requests, IncInsert(r) PROVE Shapes'
    BY <2>7, CapAssumption DEF IncInsert, Inserted, current
  <2>8. ASSUME NEW r \in Requests, SubInc(r) PROVE Shapes'
    <3> DEFINE s == SubnetOf[addr[r]]
    <3>1. s \in Subnets
      BY NetAssumption
    <3>2. (IF sub[s] = None THEN 1 ELSE sub[s] + 1) \in Nat
      BY <3>1
    <3>3. sub' \in [Subnets -> Nat \cup {None}]
      BY <2>8, <3>1, <3>2 DEF SubInc
    <3>4. QED
      BY <2>8, <3>3 DEF SubInc
  <2>9. ASSUME NEW r \in Requests, Evaluate(r) PROVE Shapes'
    BY <2>9 DEF Evaluate
  <2>10. ASSUME NEW r \in Requests, Finish(r) PROVE Shapes'
    BY <2>10 DEF Finish
  <2>11. ASSUME NEW r \in Requests, Dec(r) PROVE Shapes'
    <3>1. CASE addr[r] \in Tracked
      <4>1. cnt[addr[r]] - 1 \in Int
        BY <3>1 DEF Tracked
      <4>2. QED
        BY <2>11, <3>1, <4>1 DEF Dec
    <3>2. CASE addr[r] \notin Tracked
      BY <2>11, <3>2 DEF Dec
    <3>3. QED
      BY <3>1, <3>2
  <2>12. ASSUME NEW r \in Requests, DecStore(r) PROVE Shapes'
    BY <2>12 DEF DecStore
  <2>13. ASSUME NEW r \in Requests, SubDec(r) PROVE Shapes'
    <3> DEFINE s == SubnetOf[addr[r]]
    <3>1. s \in Subnets
      BY NetAssumption
    <3>2. (IF sub[s] = None THEN None ELSE IF sub[s] > 0 THEN sub[s] - 1 ELSE 0) \in Nat \cup {None}
      BY <3>1
    <3>3. sub' \in [Subnets -> Nat \cup {None}]
      BY <2>13, <3>1, <3>2 DEF SubDec
    <3>4. QED
      BY <2>13, <3>3 DEF SubDec
  <2>14. ASSUME NEW ip \in Ips, Gc(ip) PROVE Shapes'
    BY <2>14 DEF Gc
  <2>15. ASSUME NEW s \in Subnets, SubGc(s) PROVE Shapes'
    BY <2>15 DEF SubGc
  <2>16. QED
    BY <2>1, <2>2, <2>3, <2>4, <2>5, <2>6, <2>7, <2>8, <2>9, <2>10, <2>11, <2>12,
       <2>13, <2>14, <2>15 DEF Next
<1>3. TypeOK /\ [Next]_vars => \A ip \in Ips : Credit(ip)'
  <2> SUFFICES ASSUME TypeOK, [Next]_vars PROVE \A ip \in Ips : Credit(ip)'
    OBVIOUS
  <2> DEFINE InCredit == \A ip \in Ips : Credit(ip)
  <2>0. Shapes /\ InCredit
    BY DEF TypeOK, Shapes, Credit
  <2>1. CASE UNCHANGED <<cnt, pc, addr>>
    BY <2>0, <2>1 DEF Credit, Locked
  <2>2. ASSUME NEW r \in Requests,
               Arrive(r) \/ Scan(r) \/ Door(r) \/ IncLen(r) \/ SubInc(r) \/ Evaluate(r) \/ Finish(r)
                 \/ SubDec(r)
        PROVE  InCredit'
    <3>1. /\ cnt' = cnt /\ addr' = addr /\ pc[r] # "zero"
          /\ \E p \in PCs : pc' = [pc EXCEPT ![r] = p]
      BY <2>2 DEF Arrive, Scan, Door, IncLen, SubInc, Evaluate, Finish, SubDec, Go, PCs
    <3>2. QED
      BY <3>1, CreditStays
  <2>3. ASSUME NEW r \in Requests, IncGet(r) PROVE InCredit'
    <3>1. CASE addr[r] \in Tracked
      <4>1. cnt' = [cnt EXCEPT ![addr[r]] = cnt[addr[r]] + 1] /\ Go(r, "get", "subinc")
        BY <2>3, <3>1 DEF IncGet
      <4>2. cnt[addr[r]] + 1 \in Nat \/ Locked(addr[r])
        BY <2>0, <3>1 DEF Tracked, Credit, Shapes
      <4>3. QED
        BY <4>1, <4>2, CreditKept DEF Go
    <3>2. CASE addr[r] \notin Tracked
      BY <2>3, <3>2, CreditStays DEF IncGet, Go
    <3>3. QED
      BY <3>1, <3>2
  <2>4. ASSUME NEW r \in Requests, IncInsert(r) PROVE InCredit'
    <3>1. Inserted(addr[r]) \in Nat
      BY <2>0, <2>4, CapAssumption DEF IncInsert, Inserted, current, Credit, Shapes
    <3>2. QED
      BY <2>4, <3>1, CreditKept DEF IncInsert, Go
  <2>5. ASSUME NEW r \in Requests, Dec(r) PROVE InCredit'
    <3>1. CASE addr[r] \in Tracked
      <4>1. cnt' = [cnt EXCEPT ![addr[r]] = cnt[addr[r]] - 1]
        BY <2>5, <3>1 DEF Dec
      <4>2. cnt[addr[r]] \in Int
        BY <2>0, <3>1 DEF Tracked, Shapes
      <4>3. CASE cnt[addr[r]] <= 0
        <5>1. Go(r, "dec", "zero")
          BY <2>5, <3>1, <4>3 DEF Dec
        <5>2. QED
          BY <4>1, <5>1, CreditKept DEF Go
      <4>4. CASE cnt[addr[r]] > 0
        <5>1. cnt[addr[r]] - 1 \in Nat /\ Go(r, "dec", "subdec")
          BY <2>5, <3>1, <4>2, <4>4 DEF Dec
        <5>2. QED
          BY <4>1, <5>1, CreditKept DEF Go
      <4>5. QED
        BY <4>2, <4>3, <4>4
    <3>2. CASE addr[r] \notin Tracked
      BY <2>5, <3>2, CreditStays DEF Dec, Go
    <3>3. QED
      BY <3>1, <3>2
  <2>6. ASSUME NEW r \in Requests, DecStore(r) PROVE InCredit'
    <3> SUFFICES ASSUME NEW ip \in Ips PROVE Credit(ip)'
      OBVIOUS
    <3>1. CASE ip = addr[r]
      BY <2>0, <2>6, <3>1 DEF DecStore, Credit, Shapes
    <3>2. CASE ip # addr[r]
      <4>1. cnt'[ip] = cnt[ip]
        BY <2>0, <2>6, <3>2 DEF DecStore, Shapes
      <4>2. Locked(ip) => Locked(ip)'
        BY <2>0, <2>6, <3>2 DEF DecStore, Go, Locked, Shapes
      <4>3. QED
        BY <2>0, <4>1, <4>2 DEF Credit
    <3>3. QED
      BY <3>1, <3>2
  <2>7. ASSUME NEW i \in Ips, Gc(i) PROVE InCredit'
    BY <2>0, <2>7 DEF Gc, Credit, Locked, Shapes
  <2>8. QED
    BY <2>1, <2>2, <2>3, <2>4, <2>5, <2>6, <2>7 DEF Next, vars, SubGc
<1>4. TypeOK /\ [Next]_vars => TypeOK'
  BY <1>2, <1>3 DEF TypeOK, Shapes, Credit
<1>5. QED
  BY <1>1, <1>4, PTL DEF Spec
-----------------------------------------------------------------------------
(* How a request's move changes the set of requests counted at an address.  *)

InsidePCs == {"subinc", "eval", "flight", "dec"}
N(ip)     == Cardinality(InsideOf(ip))

\* The requests counted at an address are finitely many.
LEMMA CountedFinite ==
  ASSUME NEW ip PROVE IsFiniteSet(InsideOf(ip)) /\ N(ip) \in Nat
<1>1. IsFiniteSet(InsideOf(ip))
  BY RequestAssumption, FS_Subset DEF InsideOf
<1>2. QED
  BY <1>1, FS_CardinalityType DEF N

\* inc counts one request more at its address and none elsewhere.
LEMMA Join ==
  ASSUME TypeOK, NEW r \in Requests, NEW from, from \notin InsidePCs,
         Go(r, from, "subinc"), NEW ip \in Ips
  PROVE  N(ip)' = IF ip = addr[r] THEN N(ip) + 1 ELSE N(ip)
<1>1. CASE ip = addr[r]
  <2>1. InsideOf(ip)' = InsideOf(ip) \cup {r} /\ r \notin InsideOf(ip)
    BY <1>1 DEF TypeOK, Go, InsideOf, Inside, InsidePCs
  <2>2. QED
    BY <1>1, <2>1, CountedFinite, FS_AddElement DEF N
<1>2. CASE ip # addr[r]
  <2>1. InsideOf(ip)' = InsideOf(ip)
    BY <1>2 DEF TypeOK, Go, InsideOf, Inside
  <2>2. QED
    BY <1>2, <2>1 DEF N
<1>3. QED
  BY <1>1, <1>2

\* dec counts one request less at its address and none elsewhere.
LEMMA Leave ==
  ASSUME TypeOK, NEW r \in Requests, NEW to, to \notin InsidePCs,
         Go(r, "dec", to), NEW ip \in Ips
  PROVE  /\ N(ip)' = IF ip = addr[r] THEN N(ip) - 1 ELSE N(ip)
         /\ N(addr[r]) >= 1
<1>1. r \in InsideOf(addr[r])
  BY DEF Go, InsideOf, Inside
<1>2. N(addr[r]) >= 1
  BY <1>1, CountedFinite, FS_EmptySet DEF N
<1>3. CASE ip = addr[r]
  <2>1. InsideOf(ip)' = InsideOf(ip) \ {r} /\ r \in InsideOf(ip)
    BY <1>1, <1>3 DEF TypeOK, Go, InsideOf, Inside, InsidePCs
  <2>2. QED
    BY <1>2, <1>3, <2>1, CountedFinite, FS_RemoveElement DEF N
<1>4. CASE ip # addr[r]
  <2>1. InsideOf(ip)' = InsideOf(ip)
    BY <1>4 DEF TypeOK, Go, InsideOf, Inside
  <2>2. QED
    BY <1>2, <1>4, <2>1 DEF N
<1>5. QED
  BY <1>3, <1>4

\* Any other move leaves every count of requests alone.
LEMMA Stay ==
  ASSUME TypeOK, NEW r \in Requests, NEW from, NEW to, Go(r, from, to),
         from \in InsidePCs <=> to \in InsidePCs, NEW ip \in Ips
  PROVE  N(ip)' = N(ip)
<1>1. InsideOf(ip)' = InsideOf(ip)
  BY DEF TypeOK, Go, InsideOf, Inside, InsidePCs
<1>2. QED
  BY <1>1 DEF N
-----------------------------------------------------------------------------
(* The counters of ConnTracker.  CountExact is inductive once it is known   *)
(* that, as long as nothing went uncounted, no count is ever found not      *)
(* positive by dec, so that its second step, the store of 0, never runs.    *)

NoStore  == spilled = {} => \A q \in Requests : pc[q] # "zero"
CountInv == CountExact /\ NoPhantom /\ NoStore

\* Both sides of CountExact are numbers.
LEMMA Numbers ==
  ASSUME TypeOK, NEW ip \in Ips PROVE N(ip) \in Nat /\ current(ip) \in Int
<1>1. current(ip) \in Int
  BY DEF TypeOK, current
<1>2. QED
  BY <1>1, CountedFinite

\* A request's move that touches no counter.
LEMMA CountsUntouched ==
  ASSUME TypeOK, CountInv, NEW r \in Requests, NEW from, NEW to, Go(r, from, to),
         from \in InsidePCs <=> to \in InsidePCs, to # "zero",
         UNCHANGED <<cnt, spilled>>
  PROVE  CountInv'
<1>1. \A ip \in Ips : N(ip)' = N(ip) /\ current(ip)' = current(ip)
  BY Stay DEF current
<1>2. NoStore'
  BY DEF TypeOK, CountInv, NoStore, Go
<1>3. QED
  BY <1>1, <1>2 DEF CountInv, CountExact, NoPhantom, N

\* Housekeeping, which moves no request.
LEMMA CountsSwept ==
  ASSUME TypeOK, CountInv, UNCHANGED <<pc, addr, spilled>>,
         \A ip \in Ips : \/ current(ip)' = current(ip)
                         \/ current(ip) <= 0 /\ current(ip)' = 0
  PROVE  CountInv'
<1>1. ASSUME NEW ip \in Ips PROVE N(ip)' = N(ip) /\ N(ip) \in Nat /\ current(ip) \in Int
  <2>1. InsideOf(ip)' = InsideOf(ip)
    BY DEF InsideOf, Inside
  <2>2. N(ip)' = N(ip)
    BY <2>1 DEF N
  <2>3. N(ip) \in Nat
    BY CountedFinite
  <2>4. current(ip) \in Int
    BY DEF TypeOK, current
  <2>5. QED
    BY <2>2, <2>3, <2>4
<1>2. CountExact' /\ NoPhantom'
  BY <1>1 DEF CountInv, CountExact, NoPhantom, N
<1>3. QED
  BY <1>2 DEF CountInv, NoStore

LEMMA CountStep == TypeOK /\ CountInv /\ [Next]_vars => CountInv'
<1> SUFFICES ASSUME TypeOK, CountInv, [Next]_vars PROVE CountInv'
  OBVIOUS
<1> USE DEF InsidePCs
<1>1. CASE UNCHANGED vars
  BY <1>1 DEF vars, CountInv, CountExact, NoPhantom, NoStore, current, InsideOf, Inside
<1>2. ASSUME NEW r \in Requests, Arrive(r) PROVE CountInv'
  BY <1>2, CountsUntouched DEF Arrive
<1>3. ASSUME NEW r \in Requests, Scan(r) PROVE CountInv'
  BY <1>3, CountsUntouched DEF Scan
<1>4. ASSUME NEW r \in Requests, Door(r) PROVE CountInv'
  BY <1>4, CountsUntouched DEF Door
<1>5. ASSUME NEW r \in Requests, IncGet(r) PROVE CountInv'
  <2>1. CASE addr[r] \in Tracked
    <3>1. Go(r, "get", "subinc") /\ cnt' = [cnt EXCEPT ![addr[r]] = @ + 1] /\ spilled' = spilled
      BY <1>5, <2>1 DEF IncGet
    <3>2. ASSUME NEW ip \in Ips
          PROVE  /\ N(ip)' = IF ip = addr[r] THEN N(ip) + 1 ELSE N(ip)
                 /\ current(ip)' = IF ip = addr[r] THEN current(ip) + 1 ELSE current(ip)
                 /\ current(ip) \in Int /\ N(ip) \in Nat
      <4>1. cnt[addr[r]] \in Int /\ addr[r] \in Ips /\ cnt[addr[r]] + 1 # None
        BY <2>1, CapAssumption DEF TypeOK, Tracked
      <4>2. current(ip)' = IF ip = addr[r] THEN current(ip) + 1 ELSE current(ip)
        BY <2>1, <3>1, <4>1 DEF TypeOK, current, Tracked
      <4>3. N(ip)' = IF ip = addr[r] THEN N(ip) + 1 ELSE N(ip)
        BY <3>1, Join
      <4>4. QED
        BY <4>2, <4>3, Numbers
    <3>3. CountExact' /\ NoPhantom'
      BY <3>1, <3>2 DEF CountInv, CountExact, NoPhantom, N
    <3>4. QED
      BY <3>1, <3>3 DEF TypeOK, CountInv, NoStore, Go
  <2>2. CASE addr[r] \notin Tracked
    BY <1>5, <2>2, CountsUntouched DEF IncGet
  <2>3. QED
    BY <2>1, <2>2
<1>6. ASSUME NEW r \in Requests, IncLen(r) PROVE CountInv'
  <2>1. CASE Cardinality(Tracked) > MaxEntries
    <3>1. Go(r, "len", "subinc") /\ cnt' = cnt /\ r \in spilled'
      BY <1>6, <2>1 DEF IncLen
    <3>2. ASSUME NEW ip \in Ips
          PROVE  /\ N(ip)' = IF ip = addr[r] THEN N(ip) + 1 ELSE N(ip)
                 /\ current(ip)' = current(ip)
                 /\ current(ip) \in Int /\ N(ip) \in Nat
      <4>1. N(ip)' = IF ip = addr[r] THEN N(ip) + 1 ELSE N(ip)
        BY <3>1, Join
      <4>2. current(ip)' = current(ip)
        BY <3>1 DEF current
      <4>3. QED
        BY <4>1, <4>2, Numbers
    <3>3. NoPhantom'
      BY <3>2 DEF CountInv, NoPhantom, N
    <3>4. QED
      BY <3>1, <3>3 DEF CountInv, CountExact, NoStore
  <2>2. CASE ~(Cardinality(Tracked) > MaxEntries)
    BY <1>6, <2>2, CountsUntouched DEF IncLen
  <2>3. QED
    BY <2>1, <2>2
<1>7. ASSUME NEW r \in Requests, IncInsert(r) PROVE CountInv'
  <2>1. Go(r, "insert", "subinc") /\ spilled' = spilled
    BY <1>7 DEF IncInsert
  <2>2. ASSUME NEW ip \in Ips
        PROVE  /\ N(ip)' = IF ip = addr[r] THEN N(ip) + 1 ELSE N(ip)
               /\ current(ip)' = IF ip = addr[r] THEN current(ip) + 1 ELSE current(ip)
               /\ current(ip) \in Int /\ N(ip) \in Nat
    <3>1. current(addr[r]) + 1 \in Int /\ addr[r] \in Ips
      BY DEF TypeOK, current
    <3>2. cnt' = [cnt EXCEPT ![addr[r]] = current(addr[r]) + 1]
      BY <1>7 DEF IncInsert, Inserted
    <3>3. current(ip)' = IF ip = addr[r] THEN current(ip) + 1 ELSE current(ip)
      BY <3>1, <3>2, CapAssumption DEF TypeOK, current
    <3>4. N(ip)' = IF ip = addr[r] THEN N(ip) + 1 ELSE N(ip)
      BY <2>1, Join
    <3>5. QED
      BY <3>3, <3>4, Numbers
  <2>3. CountExact' /\ NoPhantom'
    BY <2>1, <2>2 DEF CountInv, CountExact, NoPhantom, N
  <2>4. QED
    BY <2>1, <2>3 DEF TypeOK, CountInv, NoStore, Go
<1>8. ASSUME NEW r \in Requests, SubInc(r) PROVE CountInv'
  BY <1>8, CountsUntouched DEF SubInc
<1>9. ASSUME NEW r \in Requests, Evaluate(r) PROVE CountInv'
  BY <1>9, CountsUntouched DEF Evaluate
<1>10. ASSUME NEW r \in Requests, Finish(r) PROVE CountInv'
  BY <1>10, CountsUntouched DEF Finish
<1>11. ASSUME NEW r \in Requests, Dec(r) PROVE CountInv'
  <2>1. CASE addr[r] \in Tracked
    <3> DEFINE to == IF cnt[addr[r]] <= 0 THEN "zero" ELSE "subdec"
    <3>1. Go(r, "dec", to) /\ cnt' = [cnt EXCEPT ![addr[r]] = @ - 1] /\ spilled' = spilled
      BY <1>11, <2>1 DEF Dec
    <3>2. cnt[addr[r]] \in Int /\ addr[r] \in Ips /\ current(addr[r]) = cnt[addr[r]]
      BY <2>1 DEF TypeOK, Tracked, current
    <3>3. ASSUME NEW ip \in Ips
          PROVE  /\ N(ip)' = IF ip = addr[r] THEN N(ip) - 1 ELSE N(ip)
                 /\ current(ip)' = IF ip = addr[r] THEN current(ip) - 1 ELSE current(ip)
                 /\ current(ip) \in Int /\ N(ip) \in Nat
      <4>1. current(ip)' = IF ip = addr[r] THEN current(ip) - 1 ELSE current(ip)
        BY <3>1, <3>2, CapAssumption DEF TypeOK, current
      <4>2. N(ip)' = IF ip = addr[r] THEN N(ip) - 1 ELSE N(ip)
        BY <3>1, Leave
      <4>3. QED
        BY <4>1, <4>2, Numbers
    <3>4. CountExact' /\ NoPhantom'
      BY <3>1, <3>3 DEF CountInv, CountExact, NoPhantom, N
    <3>5. spilled = {} => cnt[addr[r]] >= 1
      BY <3>1, <3>2, Leave DEF CountInv, CountExact, N
    <3>6. NoStore'
      BY <3>1, <3>2, <3>5 DEF TypeOK, CountInv, NoStore, Go
    <3>7. QED
      BY <3>4, <3>6 DEF CountInv
  <2>2. CASE addr[r] \notin Tracked
    <3>1. Go(r, "dec", "subdec") /\ cnt' = cnt /\ spilled' = spilled
      BY <1>11, <2>2 DEF Dec
    <3>2. ASSUME NEW ip \in Ips
          PROVE  /\ N(ip)' = IF ip = addr[r] THEN N(ip) - 1 ELSE N(ip)
                 /\ N(addr[r]) >= 1 /\ current(addr[r]) = 0 /\ current(ip)' = current(ip)
                 /\ N(ip) \in Nat /\ current(ip) \in Int /\ addr[r] \in Ips
      <4>1. /\ N(ip)' = IF ip = addr[r] THEN N(ip) - 1 ELSE N(ip)
            /\ N(addr[r]) >= 1
        BY <3>1, Leave
      <4>2. current(addr[r]) = 0 /\ addr[r] \in Ips
        BY <2>2 DEF TypeOK, Tracked, current
      <4>3. current(ip)' = current(ip)
        BY <3>1 DEF current
      <4>4. QED
        BY <4>1, <4>2, <4>3, Numbers
    <3>3. CountExact' /\ NoPhantom'
      BY <3>1, <3>2 DEF CountInv, CountExact, NoPhantom, N
    <3>4. QED
      BY <3>1, <3>3 DEF TypeOK, CountInv, NoStore, Go
  <2>3. QED
    BY <2>1, <2>2
<1>12. ASSUME NEW r \in Requests, DecStore(r) PROVE CountInv'
  <2>1. Go(r, "zero", "subdec") /\ cnt' = [cnt EXCEPT ![addr[r]] = 0] /\ spilled' = spilled
    BY <1>12 DEF DecStore
  <2>2. spilled # {}
    BY <2>1 DEF CountInv, NoStore, Go
  <2>3. ASSUME NEW ip \in Ips
        PROVE  /\ N(ip)' = N(ip) /\ N(ip) \in Nat
               /\ current(ip)' = current(ip) \/ current(ip)' = 0
    <3>1. N(ip)' = N(ip)
      BY <2>1, Stay
    <3>2. current(ip)' = current(ip) \/ current(ip)' = 0
      BY <2>1, CapAssumption DEF TypeOK, current
    <3>3. QED
      BY <3>1, <3>2, Numbers
  <2>4. NoPhantom'
    BY <2>3 DEF CountInv, NoPhantom, N
  <2>5. QED
    BY <2>1, <2>2, <2>4 DEF CountInv, CountExact, NoStore
<1>13. ASSUME NEW r \in Requests, SubDec(r) PROVE CountInv'
  BY <1>13, CountsUntouched DEF SubDec
<1>14. ASSUME NEW ip \in Ips, Gc(ip) PROVE CountInv'
  <2>1. \A i \in Ips : \/ current(i)' = current(i)
                       \/ current(i) <= 0 /\ current(i)' = 0
    BY <1>14 DEF Gc, Idle, TypeOK, current, Tracked
  <2>2. QED
    BY <1>14, <2>1, CountsSwept DEF Gc
<1>15. ASSUME NEW s \in Subnets, SubGc(s) PROVE CountInv'
  BY <1>15, CountsSwept DEF SubGc, current
<1>16. QED
  BY <1>1, <1>2, <1>3, <1>4, <1>5, <1>6, <1>7, <1>8, <1>9, <1>10, <1>11, <1>12,
     <1>13, <1>14, <1>15 DEF Next

LEMMA Counting == Spec => []CountInv
<1>1. Init => CountInv
  <2> SUFFICES ASSUME Init PROVE CountInv
    OBVIOUS
  <2>1. ASSUME NEW ip \in Ips PROVE N(ip) = 0 /\ current(ip) = 0
    <3>1. InsideOf(ip) = {}
      BY DEF Init, InsideOf, Inside
    <3>2. QED
      BY <3>1, FS_EmptySet DEF Init, N, current
  <2>2. QED
    BY <2>1 DEF Init, CountInv, CountExact, NoPhantom, NoStore, N
<1>2. QED
  BY <1>1, CountStep, Typing, PTL DEF Spec

\* While the table has room ConnTracker's counts are exact: inc's get, len and insert,
\* dec's two steps and gc never lose or invent a request between them.
THEOREM CountsAreExact == Spec => []CountExact
<1>1. CountInv => CountExact
  BY DEF CountInv
<1>2. QED
  BY <1>1, Counting, PTL

\* Whether or not requests went uncounted, no count exceeds the requests in flight.
THEOREM NoPhantomRequests == Spec => []NoPhantom
<1>1. CountInv => NoPhantom
  BY DEF CountInv
<1>2. QED
  BY <1>1, Counting, PTL
-----------------------------------------------------------------------------
(* The per-address cap: what evaluate reads is at least the number of       *)
(* requests of the address that are in flight, its own included.            *)

AdmittedInside == \A r \in admitted : pc[r] \in {"flight", "dec"}
CapInv == AdmittedInside /\ AdmittedWithinCap

\* Fewer admitted requests keep the cap.
LEMMA CapShrinks ==
  ASSUME CapInv, TypeOK, admitted' \subseteq admitted, UNCHANGED addr, spilled \subseteq spilled'
  PROVE  AdmittedWithinCap'
<1>1. ASSUME NEW ip \in Ips
      PROVE  /\ Cardinality(AdmittedOf(ip))' <= Cardinality(AdmittedOf(ip))
             /\ Cardinality(AdmittedOf(ip)) \in Nat /\ Cardinality(AdmittedOf(ip))' \in Nat
  <2>1. AdmittedOf(ip)' \subseteq AdmittedOf(ip) /\ AdmittedOf(ip) \subseteq Requests
    BY DEF AdmittedOf, TypeOK
  <2>2. QED
    BY <2>1, RequestAssumption, FS_Subset, FS_CardinalityType
<1>2. QED
  BY <1>1, CapAssumption DEF CapInv, AdmittedWithinCap

\* Evaluate admits a request only when the count allows it.
LEMMA CapEvaluate ==
  ASSUME TypeOK, CountInv, CapInv, NEW r \in Requests, Evaluate(r)
  PROVE  CapInv'
<1>1. AdmittedInside'
  BY DEF TypeOK, CapInv, AdmittedInside, Evaluate, Go
<1>2. CASE admitted' = admitted
  BY <1>1, <1>2, CapShrinks DEF CapInv, Evaluate, Go
<1>3. CASE admitted' = admitted \cup {r} /\ ~OverIpCap(addr[r])
  <2> SUFFICES ASSUME spilled = {}, IpCap > 0, NEW ip \in Ips
               PROVE  Cardinality(AdmittedOf(ip))' <= IpCap
    BY <1>1 DEF CapInv, AdmittedWithinCap, Evaluate
  <2>1. CASE ip = addr[r]
    <3>1. N(ip) <= IpCap
      BY <1>3, <2>1, Numbers, CapAssumption DEF OverIpCap, CountInv, CountExact, N
    <3>2. AdmittedOf(ip)' \subseteq InsideOf(ip)
      BY <1>3, <2>1 DEF CapInv, AdmittedInside, AdmittedOf, InsideOf, Inside, Evaluate, Go,
                        TypeOK
    <3>3. Cardinality(AdmittedOf(ip)') <= N(ip) /\ Cardinality(AdmittedOf(ip)') \in Nat
      BY <3>2, CountedFinite, FS_Subset, FS_CardinalityType DEF N
    <3>4. QED
      BY <3>1, <3>3, Numbers, CapAssumption
  <2>2. CASE ip # addr[r]
    <3>1. AdmittedOf(ip)' = AdmittedOf(ip)
      BY <1>3, <2>2 DEF AdmittedOf, Evaluate, Go
    <3>2. QED
      BY <3>1 DEF CapInv, AdmittedWithinCap
  <2>3. QED
    BY <2>1, <2>2
<1>4. QED
  BY <1>2, <1>3 DEF Evaluate

LEMMA CapStep == TypeOK /\ CountInv /\ CapInv /\ [Next]_vars => CapInv'
<1> SUFFICES ASSUME TypeOK, CountInv, CapInv, [Next]_vars PROVE CapInv'
  OBVIOUS
<1>1. CASE UNCHANGED vars
  BY <1>1, CapShrinks DEF vars, CapInv, AdmittedInside
<1>2. ASSUME NEW r \in Requests, Evaluate(r) PROVE CapInv'
  BY <1>2, CapEvaluate
<1>3. ASSUME NEW r \in Requests, NEW from, NEW to, Go(r, from, to), to # "flight",
             admitted' = (IF from = "dec" THEN admitted \ {r} ELSE admitted),
             from # "flight" \/ to = "dec", spilled \subseteq spilled'
      PROVE  CapInv'
  <2>1. AdmittedInside'
    BY <1>3 DEF TypeOK, CapInv, AdmittedInside, Go
  <2>2. QED
    BY <1>3, <2>1, CapShrinks DEF CapInv, Go
<1>4. ASSUME NEW r \in Requests,
             \/ Arrive(r) \/ Scan(r) \/ Door(r) \/ IncGet(r) \/ IncLen(r) \/ IncInsert(r)
             \/ SubInc(r) \/ Finish(r) \/ DecStore(r) \/ SubDec(r)
      PROVE  CapInv'
  BY <1>3, <1>4 DEF Arrive, Scan, Door, IncGet, IncLen, IncInsert, SubInc, Finish,
                    DecStore, SubDec
<1>5. ASSUME NEW r \in Requests, Dec(r) PROVE CapInv'
  BY <1>3, <1>5 DEF Dec
<1>6. ASSUME UNCHANGED <<pc, addr, admitted, spilled>> PROVE CapInv'
  BY <1>6, CapShrinks DEF CapInv, AdmittedInside
<1>7. QED
  BY <1>1, <1>2, <1>4, <1>5, <1>6 DEF Next, Gc, SubGc

\* Because a request is counted in before it is judged, no interleaving admits more
\* requests of one address at a time than max_concurrent_per_ip.
THEOREM CapHolds == Spec => []AdmittedWithinCap
<1>1. Init => CapInv
  <2> SUFFICES ASSUME Init PROVE CapInv
    OBVIOUS
  <2>1. \A ip \in Ips : AdmittedOf(ip) = {}
    BY DEF Init, AdmittedOf
  <2>2. QED
    BY <2>1, FS_EmptySet, CapAssumption DEF Init, CapInv, AdmittedInside, AdmittedWithinCap
<1>2. CapInv => AdmittedWithinCap
  BY DEF CapInv
<1>3. QED
  BY <1>1, <1>2, CapStep, Typing, Counting, PTL DEF Spec
-----------------------------------------------------------------------------
(* The subnet counters.                                                     *)

SubPCs  == {"eval", "flight", "dec", "zero", "subdec"}
S(s)    == Cardinality(SubInside(s))
Shown(s) == IF sub[s] = None THEN 0 ELSE sub[s]

LEMMA SubNumbers ==
  ASSUME TypeOK, NEW s \in Subnets
  PROVE  S(s) \in Nat /\ Shown(s) \in Int /\ IsFiniteSet(SubInside(s))
<1>1. IsFiniteSet(SubInside(s))
  BY RequestAssumption, FS_Subset DEF SubInside
<1>2. Shown(s) \in Int
  BY DEF TypeOK, Shown
<1>3. QED
  BY <1>1, <1>2, FS_CardinalityType DEF S

\* A move that touches no subnet counter.
LEMMA SubUntouched ==
  ASSUME TypeOK, SubnetExact, NEW r \in Requests, NEW from, NEW to, Go(r, from, to),
         from \in SubPCs <=> to \in SubPCs, UNCHANGED sub
  PROVE  SubnetExact'
<1>1. ASSUME NEW s \in Subnets PROVE SubInside(s)' = SubInside(s)
  BY DEF TypeOK, Go, SubInside, SubPCs
<1>2. QED
  BY <1>1 DEF SubnetExact

\* inc_inflight counts the request in ...
LEMMA SubJoin ==
  ASSUME TypeOK, SubnetExact, NEW r \in Requests, SubInc(r)
  PROVE  SubnetExact'
<1> DEFINE n == SubnetOf[addr[r]]
<1>1. n \in Subnets /\ Go(r, "subinc", "eval")
  BY NetAssumption DEF TypeOK, SubInc
<1>2. sub' = [sub EXCEPT ![n] = Shown(n) + 1] /\ Shown(n) + 1 \in Int
  BY <1>1, SubNumbers DEF SubInc, Shown, TypeOK
<1> SUFFICES ASSUME NEW s \in Subnets PROVE Shown(s)' = S(s)'
  BY DEF SubnetExact, Shown, S
<1>3. Shown(s) = S(s)
  BY DEF SubnetExact, Shown, S
<1>4. CASE s = n
  <2>1. SubInside(s)' = SubInside(s) \cup {r} /\ r \notin SubInside(s)
    BY <1>1, <1>4 DEF TypeOK, Go, SubInside
  <2>2. S(s)' = S(s) + 1
    BY <2>1, SubNumbers, FS_AddElement DEF S
  <2>3. Shown(s)' = Shown(s) + 1
    BY <1>1, <1>2, <1>4, CapAssumption DEF TypeOK, Shown
  <2>4. QED
    BY <1>3, <2>2, <2>3
<1>5. CASE s # n
  <2>1. SubInside(s)' = SubInside(s)
    BY <1>1, <1>5 DEF TypeOK, Go, SubInside
  <2>2. Shown(s)' = Shown(s)
    BY <1>1, <1>2, <1>5 DEF TypeOK, Shown
  <2>3. QED
    BY <1>3, <2>1, <2>2 DEF S
<1>6. QED
  BY <1>4, <1>5

\* ... and dec_inflight out: it always finds a positive count.
LEMMA SubLeave ==
  ASSUME TypeOK, SubnetExact, NEW r \in Requests, SubDec(r)
  PROVE  SubnetExact'
<1> DEFINE n == SubnetOf[addr[r]]
<1>1. n \in Subnets /\ Go(r, "subdec", "done")
  BY NetAssumption DEF TypeOK, SubDec
<1>2. r \in SubInside(n)
  BY <1>1 DEF Go, SubInside
<1>3. S(n) >= 1
  BY <1>1, <1>2, SubNumbers, FS_EmptySet DEF S
<1>4. Shown(n) = S(n) /\ sub[n] # None /\ sub[n] > 0 /\ sub[n] \in Int
  BY <1>1, <1>3, SubNumbers DEF SubnetExact, Shown, S, TypeOK
<1>5. sub' = [sub EXCEPT ![n] = sub[n] - 1] /\ sub[n] - 1 \in Int
  <2>1. (IF sub[n] = None THEN None ELSE IF sub[n] > 0 THEN sub[n] - 1 ELSE 0) = sub[n] - 1
    BY <1>4
  <2>2. sub' = [sub EXCEPT ![n] =
                  IF sub[n] = None THEN None ELSE IF sub[n] > 0 THEN sub[n] - 1 ELSE 0]
    BY DEF SubDec
  <2>3. sub' = [sub EXCEPT ![n] = sub[n] - 1]
    BY <2>1, <2>2, Zenon
  <2>4. sub[n] - 1 \in Int
    BY <1>4
  <2>5. QED
    BY <2>3, <2>4
<1> SUFFICES ASSUME NEW s \in Subnets PROVE Shown(s)' = S(s)'
  BY DEF SubnetExact, Shown, S
<1>6. CASE s = n
  <2>1. SubInside(s)' = SubInside(s) \ {r}
    BY <1>1, <1>6 DEF TypeOK, Go, SubInside
  <2>2. S(s)' = S(s) - 1
    BY <1>2, <1>6, <2>1, SubNumbers, FS_RemoveElement DEF S
  <2>3. Shown(s)' = Shown(s) - 1
    BY <1>1, <1>4, <1>5, <1>6, CapAssumption DEF TypeOK, Shown
  <2>4. QED
    BY <1>4, <1>6, <2>2, <2>3
<1>7. CASE s # n
  <2>1. SubInside(s)' = SubInside(s)
    BY <1>1, <1>7 DEF TypeOK, Go, SubInside
  <2>2. Shown(s)' = Shown(s) /\ Shown(s) = S(s)
    BY <1>1, <1>5, <1>7 DEF TypeOK, Shown, SubnetExact, S
  <2>3. QED
    BY <2>1, <2>2 DEF S
<1>8. QED
  BY <1>6, <1>7

LEMMA SubStep == TypeOK /\ SubnetExact /\ [Next]_vars => SubnetExact'
<1> SUFFICES ASSUME TypeOK, SubnetExact, [Next]_vars PROVE SubnetExact'
  OBVIOUS
<1>1. CASE UNCHANGED vars
  BY <1>1 DEF vars, SubnetExact, SubInside
<1>2. ASSUME NEW r \in Requests, SubInc(r) \/ SubDec(r) PROVE SubnetExact'
  BY <1>2, SubJoin, SubLeave
<1>3. ASSUME NEW r \in Requests,
             \/ Arrive(r) \/ Scan(r) \/ Door(r) \/ IncGet(r) \/ IncLen(r) \/ IncInsert(r)
             \/ Evaluate(r) \/ Finish(r) \/ Dec(r) \/ DecStore(r)
      PROVE  SubnetExact'
  BY <1>3, SubUntouched DEF SubPCs, Arrive, Scan, Door, IncGet, IncLen, IncInsert,
                            Evaluate, Finish, Dec, DecStore
<1>4. ASSUME NEW ip \in Ips, Gc(ip) PROVE SubnetExact'
  BY <1>4 DEF Gc, SubnetExact, SubInside
<1>5. ASSUME NEW n \in Subnets, SubGc(n) PROVE SubnetExact'
  <2> SUFFICES ASSUME NEW s \in Subnets PROVE Shown(s)' = S(s)'
    BY DEF SubnetExact, Shown, S
  <2>1. S(s)' = S(s) /\ S(s) \in Nat /\ Shown(s) = S(s)
    BY <1>5, SubNumbers DEF SubGc, S, SubInside, SubnetExact, Shown
  <2>2. Shown(s)' = IF s = n THEN 0 ELSE Shown(s)
    BY <1>5 DEF SubGc, Shown, TypeOK
  <2>3. Shown(n) <= 0
    BY <1>5 DEF SubGc, Idle, Shown
  <2>4. QED
    BY <2>1, <2>2, <2>3
<1>6. QED
  BY <1>1, <1>2, <1>3, <1>4, <1>5 DEF Next

\* A subnet's counter is exactly the number of its requests in flight: the store of 0 in
\* dec_inflight never erases a request that another thread counted in.
THEOREM SubnetsAreExact == Spec => []SubnetExact
<1>1. Init => SubnetExact
  <2> SUFFICES ASSUME Init, NEW s \in Subnets PROVE Shown(s) = S(s)
    BY DEF SubnetExact, Shown, S
  <2>1. SubInside(s) = {}
    BY DEF Init, SubInside
  <2>2. QED
    BY <2>1, FS_EmptySet DEF Init, S, Shown
<1>2. QED
  BY <1>1, SubStep, Typing, PTL DEF Spec
-----------------------------------------------------------------------------
(* The global cap.  total() adds up counters that it reads at different     *)
(* moments, so its sum says nothing of any one moment; but a request that   *)
(* was inside when the scan began, and still is, was counted by it.  Of     *)
(* those inside at any time look at the one that arrived last: the others   *)
(* were inside when it arrived, or were then at the door on a thread.       *)

Before(q)  == pc[q] \in {"scan", "get", "len", "insert"}
Through(q) == pc[q] \in {"get", "len", "insert"} \/ Inside(q)
Still(b)   == { q \in b : Inside(q) }
Read(b, n) == { q \in b : Inside(q) /\ \E i \in 1 .. n : addr[q] = Order[i] }

\* What the arrival of r, the k[r]-th, met: b was inside and u, with r, on the way.
Met(r, k, b, u) ==
  /\ Cardinality(u) <= Threads
  /\ \A q \in b : ~Before(q) /\ pc[q] # "new"
  /\ \A q \in Requests :
       pc[q] # "new" /\ k[q] <= k[r] => /\ Inside(q) => q \in b \cup u
                                        /\ Before(q) => q \in u
  /\ spilled = {} => /\ pc[r] = "scan" => Cardinality(Read(b, at[r])) <= sum[r]
                     /\ Through(r) => Cardinality(Still(b)) < GlobalCap

Story(m, k, B, U) == \A r \in Requests : pc[r] # "new" => Met(r, k, B[r], U[r])
DoorInv == \E m \in Nat : \E k \in [Requests -> 0 .. m] :
             \E B, U \in [Requests -> SUBSET Requests] : Story(m, k, B, U)
\* A scan starts from nothing.
Unread  == \A r \in Requests : pc[r] # "scan" => at[r] = 0 /\ sum[r] = 0

\* What every step but an arrival leaves true: nobody turns back to the door.
Onward ==
  /\ addr' = addr /\ spilled \subseteq spilled'
  /\ \A q \in Requests : /\ pc'[q] = "new" <=> pc[q] = "new"
                         /\ Before(q)' => Before(q)
                         /\ Inside(q)' => Inside(q) \/ Before(q)

LEMMA SetsFinite ==
  ASSUME NEW b \in SUBSET Requests, NEW n
  PROVE  /\ IsFiniteSet(b) /\ IsFiniteSet(Still(b)) /\ Cardinality(Still(b)) \in Nat
         /\ IsFiniteSet(Read(b, n)) /\ Cardinality(Read(b, n)) \in Nat
<1>1. Still(b) \in SUBSET Requests /\ Read(b, n) \in SUBSET Requests
  BY DEF Still, Read
<1> QED BY <1>1, RequestAssumption, FS_Subset, FS_CardinalityType

\* Those who were inside only leave.
LEMMA StillShrinks ==
  ASSUME NEW b \in SUBSET Requests, \A q \in b : ~Before(q), Onward
  PROVE  /\ Still(b)' \subseteq Still(b)
         /\ Cardinality(Still(b)') <= Cardinality(Still(b)) /\ Cardinality(Still(b)') \in Nat
<1>1. Still(b)' \subseteq Still(b)
  BY DEF Onward, Still
<1>2. Still(b) \in SUBSET Requests /\ IsFiniteSet(Still(b))
  BY SetsFinite DEF Still
<1> QED BY <1>1, <1>2, FS_Subset, FS_CardinalityType

LEMMA MetPeople ==
  ASSUME NEW r \in Requests, NEW k, NEW b, NEW u, Met(r, k, b, u), Onward, b \subseteq Requests
  PROVE  /\ Cardinality(u) <= Threads
         /\ \A q \in b : ~Before(q)' /\ pc'[q] # "new"
         /\ \A q \in Requests :
              pc'[q] # "new" /\ k[q] <= k[r] => /\ Inside(q)' => q \in b \cup u
                                                /\ Before(q)' => q \in u
BY DEF Met, Onward

\* Other requests' steps, and the request's own outside the door.
LEMMA MetKept ==
  ASSUME NEW r \in Requests, NEW k, NEW b \in SUBSET Requests, NEW u,
         Met(r, k, b, u), TypeOK, Onward,
         Through(r)' => Through(r),
         pc'[r] = "scan" => pc[r] = "scan" /\ at'[r] = at[r] /\ sum'[r] = sum[r]
  PROVE  Met(r, k, b, u)'
<1>1. ASSUME spilled' = {}, pc'[r] = "scan" PROVE Cardinality(Read(b, at[r])') <= sum'[r]
  <2>1. Read(b, at[r])' \subseteq Read(b, at[r])
    <3>1. addr' = addr /\ at'[r] = at[r] /\ \A q \in b : Inside(q)' => Inside(q)
      BY <1>1 DEF Onward, Met
    <3> QED BY <3>1 DEF Read
  <2>2. Cardinality(Read(b, at[r])) <= sum[r] /\ sum[r] \in Int
    BY <1>1 DEF Met, Onward, TypeOK
  <2> DEFINE new == Read(b, at[r])'
             old == Read(b, at[r])
  <2>3. IsFiniteSet(old) /\ Cardinality(old) \in Nat
    BY SetsFinite
  <2> HIDE DEF new, old
  <2>4. Cardinality(new) <= Cardinality(old) /\ Cardinality(new) \in Nat
    BY <2>1, <2>3, FS_Subset, FS_CardinalityType DEF new, old
  <2>5. Cardinality(new) <= sum[r]
    BY <2>2, <2>3, <2>4 DEF old
  <2> QED BY <1>1, <2>5 DEF new
<1>2. ASSUME spilled' = {}, Through(r)' PROVE Cardinality(Still(b)') < GlobalCap
  <2>1. Cardinality(Still(b)) < GlobalCap
    BY <1>2 DEF Met, Onward
  <2>2. Cardinality(Still(b)') <= Cardinality(Still(b)) /\ Cardinality(Still(b)') \in Nat
        /\ Cardinality(Still(b)) \in Nat
    BY StillShrinks, SetsFinite DEF Met
  <2> QED BY <2>1, <2>2, CapAssumption
<1> QED BY <1>1, <1>2, MetPeople DEF Met

\* The scan has read one address more, whose counter is exact.
LEMMA MetScan ==
  ASSUME NEW r \in Requests, NEW k, NEW b \in SUBSET Requests, NEW u,
         Met(r, k, b, u), TypeOK, CountInv, Onward, Scan(r)
  PROVE  Met(r, k, b, u)'
<1> DEFINE ip == Order[at[r] + 1]
           old == Read(b, at[r])
           here == InsideOf(ip)
           new == Read(b, at[r])'
<1>1. /\ pc[r] = "scan" /\ pc'[r] = "scan" /\ spilled' = spilled /\ ip \in Ips
      /\ at'[r] = at[r] + 1 /\ sum'[r] = sum[r] + current(ip) /\ at[r] \in Nat
      /\ addr' = addr /\ pc' = pc
  <2>1. at[r] \in 0 .. Len(Order) /\ Len(Order) \in Nat
    BY NetAssumption DEF TypeOK
  <2>2. at[r] + 1 \in 1 .. Len(Order)
    BY <2>1 DEF Scan
  <2>3. ip \in Ips
    BY <2>2, NetAssumption
  <2> QED BY <2>1, <2>3 DEF Scan, Go, TypeOK
<1>2. ASSUME spilled = {} PROVE Cardinality(new) <= sum'[r]
  <2>1. 1 .. at'[r] = (1 .. at[r]) \cup {at[r] + 1}
    BY <1>1
  <2>2. new \subseteq old \cup here
    BY <1>1, <2>1 DEF Read, InsideOf, Inside
  <2>3. IsFiniteSet(old) /\ Cardinality(old) \in Nat
    BY SetsFinite
  <2>4. IsFiniteSet(here) /\ Cardinality(here) \in Nat /\ current(ip) = Cardinality(here)
    BY <1>1, <1>2, CountedFinite DEF CountInv, CountExact, N
  <2>5. Cardinality(old) <= sum[r] /\ sum[r] \in Int
    BY <1>1, <1>2 DEF Met, TypeOK
  <2> HIDE DEF new, old, here, ip
  <2>6. /\ IsFiniteSet(old \cup here) /\ Cardinality(old \cup here) \in Nat
        /\ Cardinality(old \cup here) <= Cardinality(old) + Cardinality(here)
    <3>1. IsFiniteSet(old \cap here) /\ Cardinality(old \cap here) \in Nat
      BY <2>3, FS_Intersection, FS_CardinalityType
    <3>2. /\ IsFiniteSet(old \cup here)
          /\ Cardinality(old \cup here)
               = Cardinality(old) + Cardinality(here) - Cardinality(old \cap here)
      BY <2>3, <2>4, FS_Union
    <3> QED BY <2>3, <2>4, <3>1, <3>2, FS_CardinalityType
  <2>7. Cardinality(new) <= Cardinality(old \cup here) /\ Cardinality(new) \in Nat
    BY <2>2, <2>6, FS_Subset, FS_CardinalityType
  <2> DEFINE c == sum'[r]
  <2>8. c = sum[r] + current(ip)
    BY <1>1
  <2> HIDE DEF c
  <2>9. Cardinality(new) <= c
    BY <2>3, <2>4, <2>5, <2>6, <2>7, <2>8
  <2> QED BY <2>9 DEF c
<1>3. ~(Through(r)')
  BY <1>1 DEF Through, Inside
<1> QED BY <1>1, <1>2, <1>3, MetPeople DEF Met

\* The door opens to r only if fewer than the cap of those it met are still inside.
LEMMA MetDoor ==
  ASSUME NEW r \in Requests, NEW k, NEW b \in SUBSET Requests, NEW u,
         Met(r, k, b, u), TypeOK, Onward, Door(r)
  PROVE  Met(r, k, b, u)'
<1>1. /\ pc[r] = "scan" /\ at[r] = Len(Order) /\ spilled' = spilled /\ pc'[r] # "scan"
      /\ pc'[r] = (IF sum[r] < GlobalCap THEN "get" ELSE "done")
  BY DEF Door, DoorOpen, Go, TypeOK
<1>2. ASSUME spilled = {}, Through(r)' PROVE Cardinality(Still(b)') < GlobalCap
  <2>1. sum[r] < GlobalCap /\ sum[r] \in Int
    BY <1>1, <1>2 DEF Through, Inside, TypeOK
  <2>2. \A q \in b : addr[q] \in Ips
    BY DEF TypeOK
  <2>3. Read(b, at[r]) = Still(b)
    BY <1>1, <2>2, OrderAssumption DEF Read, Still
  <2>4. Cardinality(Still(b)) <= sum[r]
    BY <1>1, <1>2, <2>3 DEF Met
  <2>5. Cardinality(Still(b)') <= Cardinality(Still(b)) /\ Cardinality(Still(b)') \in Nat
        /\ Cardinality(Still(b)) \in Nat
    BY StillShrinks, SetsFinite DEF Met
  <2> QED BY <2>1, <2>4, <2>5, CapAssumption
<1> QED BY <1>1, <1>2, MetPeople DEF Met

\* Every step but an arrival.
LEMMA StepsOnward ==
  ASSUME TypeOK, [Next]_vars, \A r \in Requests : ~Arrive(r)
  PROVE  Onward
<1>1. ASSUME NEW r \in Requests, NEW from, NEW to, Go(r, from, to), spilled \subseteq spilled',
             from # "new", to # "new",
             to \in {"scan", "get", "len", "insert"} => from \in {"scan", "get", "len", "insert"},
             to \in InsidePCs => from \in InsidePCs \cup {"get", "len", "insert"}
      PROVE  Onward
  BY <1>1 DEF Onward, Go, TypeOK, Before, Inside, InsidePCs
<1>2. CASE UNCHANGED vars
  BY <1>2 DEF vars, Onward, Before, Inside
<1>3. ASSUME NEW r \in Requests, Scan(r) \/ Door(r) \/ IncGet(r) \/ IncLen(r) \/ IncInsert(r)
      PROVE  Onward
  BY <1>1, <1>3 DEF Scan, Door, IncGet, IncLen, IncInsert, InsidePCs
<1>4. ASSUME NEW r \in Requests,
             SubInc(r) \/ Evaluate(r) \/ Finish(r) \/ Dec(r) \/ DecStore(r) \/ SubDec(r)
      PROVE  Onward
  BY <1>1, <1>4 DEF SubInc, Evaluate, Finish, Dec, DecStore, SubDec, InsidePCs
<1>5. ASSUME UNCHANGED <<pc, addr, spilled>> PROVE Onward
  BY <1>5 DEF Onward, Before, Inside
<1> QED BY <1>2, <1>3, <1>4, <1>5 DEF Next, Gc, SubGc

\* Only a scan and the door touch what total() has so far.
LEMMA ScanAlone ==
  ASSUME TypeOK, [Next]_vars, NEW r \in Requests, ~Arrive(r), ~Scan(r), ~Door(r)
  PROVE  /\ Through(r)' => Through(r)
         /\ pc'[r] = "scan" => pc[r] = "scan" /\ at'[r] = at[r] /\ sum'[r] = sum[r]
         /\ at'[r] = at[r] /\ sum'[r] = sum[r] /\ (pc[r] = "scan" => pc'[r] = "scan")
<1>1. ASSUME NEW q \in Requests, q # r,
             \/ Arrive(q) \/ Scan(q) \/ Door(q) \/ IncGet(q) \/ IncLen(q) \/ IncInsert(q)
             \/ SubInc(q) \/ Evaluate(q) \/ Finish(q) \/ Dec(q) \/ DecStore(q) \/ SubDec(q)
      PROVE  pc'[r] = pc[r] /\ at'[r] = at[r] /\ sum'[r] = sum[r]
  BY <1>1 DEF Arrive, Scan, Door, IncGet, IncLen, IncInsert, SubInc, Evaluate, Finish, Dec,
              DecStore, SubDec, Go, door, TypeOK
<1>2. ASSUME \/ IncGet(r) \/ IncLen(r) \/ IncInsert(r)
             \/ SubInc(r) \/ Evaluate(r) \/ Finish(r) \/ Dec(r) \/ DecStore(r) \/ SubDec(r)
      PROVE  /\ at'[r] = at[r] /\ sum'[r] = sum[r] /\ pc[r] # "scan" /\ pc'[r] # "scan"
             /\ Through(r)' => Through(r)
  BY <1>2 DEF IncGet, IncLen, IncInsert, SubInc, Evaluate, Finish, Dec,
              DecStore, SubDec, Go, door, TypeOK, Through, Inside
<1>3. ASSUME UNCHANGED <<pc, at, sum>>
      PROVE  pc'[r] = pc[r] /\ at'[r] = at[r] /\ sum'[r] = sum[r]
  BY <1>3
<1>4. pc'[r] = pc[r] => (Through(r)' => Through(r))
  BY DEF Through, Inside
<1> QED BY <1>1, <1>2, <1>3, <1>4 DEF Next, Gc, SubGc, vars, door

\* A request arrives: it meets those who are inside and those on their way in.
LEMMA ArrivalMeets ==
  ASSUME TypeOK, GlobalCap > 0, NEW r \in Requests, Arrive(r)
  PROVE  /\ Cardinality({ q \in Requests : Before(q) } \cup {r}) <= Threads
         /\ pc[r] = "new" /\ pc' = [pc EXCEPT ![r] = "scan"]
         /\ UNCHANGED <<addr, at, sum, spilled>>
         /\ \A q \in Requests : Inside(q)' <=> Inside(q)
         /\ \A q \in Requests \ {r} : Before(q)' <=> Before(q)
         /\ pc'[r] = "scan" /\ Before(r)' /\ ~(Inside(r)') /\ ~(Through(r)')
<1> DEFINE u == { q \in Requests : Before(q) } \cup {r}
<1>1. /\ pc[r] = "new" /\ pc' = [pc EXCEPT ![r] = "scan"]
      /\ UNCHANGED <<addr, at, sum, spilled>> /\ Cardinality(OnThread) < Threads
  <2>1. GlobalCap # 0
    BY CapAssumption
  <2> QED BY <2>1 DEF Arrive, Go, door
<1>2. /\ \A q \in Requests : Inside(q)' <=> Inside(q)
      /\ \A q \in Requests \ {r} : Before(q)' <=> Before(q)
      /\ pc'[r] = "scan" /\ Before(r)' /\ ~(Inside(r)') /\ ~(Through(r)')
  BY <1>1 DEF Inside, Before, Through, TypeOK
<1>3. Cardinality(u) <= Threads
  <2>1. u \subseteq OnThread \cup {r} /\ r \notin OnThread
    BY <1>1 DEF Before, OnThread
  <2>2. IsFiniteSet(OnThread) /\ Cardinality(OnThread) \in Nat
    BY RequestAssumption, FS_Subset, FS_CardinalityType DEF OnThread
  <2>3. /\ Cardinality(OnThread \cup {r}) = Cardinality(OnThread) + 1
        /\ IsFiniteSet(OnThread \cup {r})
    BY <2>1, <2>2, FS_AddElement
  <2> HIDE DEF u
  <2>4. Cardinality(u) <= Cardinality(OnThread \cup {r}) /\ Cardinality(u) \in Nat
    BY <2>1, <2>3, FS_Subset, FS_CardinalityType
  <2> QED BY <1>1, <2>2, <2>3, <2>4, CapAssumption
<1> QED BY <1>1, <1>2, <1>3

LEMMA MetNewcomer ==
  ASSUME TypeOK, Unread, GlobalCap > 0, NEW r \in Requests, Arrive(r), NEW k,
         NEW b, b = { q \in Requests : Inside(q) },
         NEW u, u = { q \in Requests : Before(q) } \cup {r}
  PROVE  Met(r, k, b, u)'
<1>1. \A q \in Requests : /\ Inside(q)' => q \in b \cup u
                          /\ Before(q)' => q \in u
  BY ArrivalMeets
<1>2. \A q \in b : ~(Before(q)') /\ pc'[q] # "new"
  BY ArrivalMeets DEF Inside, Before, TypeOK
<1>3. at[r] = 0 /\ sum[r] = 0 /\ at' = at /\ sum' = sum
  BY ArrivalMeets DEF Unread
<1>4. Read(b, at[r])' = {}
  BY <1>3 DEF Read
<1>5. Cardinality(Read(b, at[r])') <= sum'[r]
  BY <1>3, <1>4, FS_EmptySet
<1> QED BY ArrivalMeets, <1>1, <1>2, <1>5 DEF Met

LEMMA MetEarlier ==
  ASSUME TypeOK, GlobalCap > 0, NEW r \in Requests, Arrive(r), NEW x \in Requests \ {r},
         NEW m \in Nat, NEW k \in [Requests -> 0 .. m], NEW kk, kk = [k EXCEPT ![r] = m + 1],
         NEW b \in SUBSET Requests, NEW u, Met(x, k, b, u)
  PROVE  Met(x, kk, b, u)'
<1>1. pc'[x] = pc[x] /\ kk[x] = k[x] /\ k[x] \in 0 .. m /\ kk[r] = m + 1
  BY ArrivalMeets DEF TypeOK
<1>2. ~(kk[r] <= kk[x])
  BY <1>1
<1>3. \A q \in Requests \ {r} : kk[q] = k[q] /\ pc'[q] = pc[q]
  BY ArrivalMeets DEF TypeOK
<1>4. \A q \in b : q # r
  BY ArrivalMeets DEF Met
<1>5. \A q \in b : (Before(q)' <=> Before(q)) /\ (Inside(q)' <=> Inside(q)) /\ pc'[q] = pc[q]
  <2>1. \A q \in Requests \ {r} : (Before(q)' <=> Before(q)) /\ (Inside(q)' <=> Inside(q))
    BY ArrivalMeets
  <2> HIDE DEF Before, Inside
  <2> QED BY <1>3, <1>4, <2>1
<1>6. /\ \A q \in b : ~(Before(q)') /\ pc'[q] # "new"
      /\ \A q \in Requests :
           pc'[q] # "new" /\ kk[q] <= kk[x] => /\ Inside(q)' => q \in b \cup u
                                               /\ Before(q)' => q \in u
  BY ArrivalMeets, <1>1, <1>2, <1>3, <1>5 DEF Met
<1>7. Read(b, at[x])' = Read(b, at[x]) /\ Still(b)' = Still(b)
  BY <1>5, ArrivalMeets DEF Read, Still
<1>8. (Through(x)' <=> Through(x)) /\ sum'[x] = sum[x] /\ spilled' = spilled
  BY <1>1, ArrivalMeets DEF Through, Inside
<1> QED BY <1>1, <1>6, <1>7, <1>8 DEF Met

\* An arrival is the last of the story so far.
LEMMA StoryGrows ==
  ASSUME TypeOK, Unread, GlobalCap > 0, NEW r \in Requests, Arrive(r), DoorInv
  PROVE  DoorInv'
<1>1. PICK m \in Nat : \E k \in [Requests -> 0 .. m] :
        \E B, U \in [Requests -> SUBSET Requests] : Story(m, k, B, U)
  BY DEF DoorInv
<1>2. PICK k \in [Requests -> 0 .. m] :
        \E B, U \in [Requests -> SUBSET Requests] : Story(m, k, B, U)
  BY <1>1
<1>3. PICK B \in [Requests -> SUBSET Requests], U \in [Requests -> SUBSET Requests] :
        Story(m, k, B, U)
  BY <1>2
<1>4. PICK b \in SUBSET Requests : b = { q \in Requests : Inside(q) }
  OBVIOUS
<1>5. PICK u \in SUBSET Requests : u = { q \in Requests : Before(q) } \cup {r}
  OBVIOUS
<1>6. PICK kk \in [Requests -> 0 .. m + 1] : kk = [k EXCEPT ![r] = m + 1]
  <2> DEFINE n == m + 1
  <2>1. 0 .. m \subseteq 0 .. n /\ n \in 0 .. n
    OBVIOUS
  <2> HIDE DEF n
  <2>2. [k EXCEPT ![r] = n] \in [Requests -> 0 .. n]
    BY <2>1
  <2> QED BY <2>2 DEF n
<1>7. PICK BB \in [Requests -> SUBSET Requests] : BB = [B EXCEPT ![r] = b]
  OBVIOUS
<1>8. PICK UU \in [Requests -> SUBSET Requests] : UU = [U EXCEPT ![r] = u]
  OBVIOUS
<1>9. ASSUME NEW x \in Requests, pc'[x] # "new" PROVE Met(x, kk, BB[x], UU[x])'
  <2>1. CASE x = r
    <3>1. Met(r, kk, b, u)'
      BY MetNewcomer, <1>4, <1>5
    <3>2. BB[x] = b /\ UU[x] = u
      BY <1>7, <1>8, <2>1
    <3> QED BY <2>1, <3>1, <3>2
  <2>2. CASE x # r
    <3>1. pc'[x] = pc[x] /\ BB[x] = B[x] /\ UU[x] = U[x]
      <4>1. pc' = [pc EXCEPT ![r] = "scan"]
        BY ArrivalMeets
      <4>2. pc'[x] = pc[x]
        BY <2>2, <4>1 DEF TypeOK
      <4>3. BB[x] = B[x] /\ UU[x] = U[x]
        BY <1>7, <1>8, <2>2
      <4> QED BY <4>2, <4>3
    <3>2. Met(x, k, B[x], U[x])
      BY <1>3, <1>9, <3>1 DEF Story
    <3>3. Met(x, kk, B[x], U[x])'
      BY MetEarlier, <1>6, <2>2, <3>2
    <3> QED BY <3>1, <3>3
  <2> QED BY <2>1, <2>2
<1>10. Story(m + 1, kk, BB, UU)'
  BY <1>9 DEF Story
<1>11. m + 1 \in Nat
  OBVIOUS
<1> QED BY <1>10, <1>11 DEF DoorInv

LEMMA UnreadStep == TypeOK /\ Unread /\ [Next]_vars => Unread'
<1> SUFFICES ASSUME TypeOK, Unread, [Next]_vars, NEW r \in Requests, pc'[r] # "scan"
             PROVE  at'[r] = 0 /\ sum'[r] = 0
  BY DEF Unread
<1>1. CASE Arrive(r)
  BY <1>1 DEF Arrive, Go, door, Unread
<1>2. CASE Scan(r)
  BY <1>2 DEF Scan, Go, TypeOK
<1>3. CASE Door(r)
  BY <1>3 DEF Door, TypeOK
<1>4. CASE ~Arrive(r) /\ ~Scan(r) /\ ~Door(r)
  BY <1>4, ScanAlone DEF Unread
<1> QED BY <1>1, <1>2, <1>3, <1>4

LEMMA DoorStep ==
  ASSUME TypeOK, CountInv, Unread, GlobalCap > 0, DoorInv, [Next]_vars
  PROVE  DoorInv'
<1>1. CASE \E r \in Requests : Arrive(r)
  BY <1>1, StoryGrows
<1>2. CASE \A r \in Requests : ~Arrive(r)
  <2>1. Onward
    BY <1>2, StepsOnward
  <2>2. PICK m \in Nat : \E k \in [Requests -> 0 .. m] :
          \E B, U \in [Requests -> SUBSET Requests] : Story(m, k, B, U)
    BY DEF DoorInv
  <2>3. PICK k \in [Requests -> 0 .. m] :
          \E B, U \in [Requests -> SUBSET Requests] : Story(m, k, B, U)
    BY <2>2
  <2>4. PICK B \in [Requests -> SUBSET Requests], U \in [Requests -> SUBSET Requests] :
          Story(m, k, B, U)
    BY <2>3
  <2>5. ASSUME NEW x \in Requests, pc'[x] # "new" PROVE Met(x, k, B[x], U[x])'
    <3>1. Met(x, k, B[x], U[x]) /\ B[x] \in SUBSET Requests
      BY <2>1, <2>4, <2>5 DEF Story, Onward
    <3>2. PICK b \in SUBSET Requests : b = B[x]
      BY <3>1
    <3>3. PICK u : u = U[x]
      OBVIOUS
    <3>4. Met(x, k, b, u)
      BY <3>1, <3>2, <3>3
    <3>5. CASE Scan(x)
      BY <2>1, <3>2, <3>3, <3>4, <3>5, MetScan
    <3>6. CASE Door(x)
      BY <2>1, <3>2, <3>3, <3>4, <3>6, MetDoor
    <3>7. CASE ~Scan(x) /\ ~Door(x)
      <4>1. /\ Through(x)' => Through(x)
            /\ pc'[x] = "scan" => pc[x] = "scan" /\ at'[x] = at[x] /\ sum'[x] = sum[x]
        BY <1>2, <3>7, ScanAlone
      <4>2. Met(x, k, b, u)'
        BY <2>1, <3>4, <4>1, MetKept
      <4> QED BY <3>2, <3>3, <4>2
    <3> QED BY <3>5, <3>6, <3>7
  <2>6. Story(m, k, B, U)'
    BY <2>5 DEF Story
  <2> QED BY <2>6 DEF DoorInv
<1> QED BY <1>1, <1>2

\* The last arrival of those inside met all the others: either they were inside, and
\* fewer than the cap still are, or they were on a thread at the door.
LEMMA LastArrival ==
  ASSUME TypeOK, DoorInv, GlobalCap > 0, spilled = {}
  PROVE  Cardinality({ r \in Requests : Inside(r) }) <= GlobalCap - 1 + Threads
<1> DEFINE I == { r \in Requests : Inside(r) }
<1>1. CASE I = {}
  BY <1>1, FS_EmptySet, CapAssumption
<1>2. CASE I # {}
  <2>1. PICK m \in Nat : \E k \in [Requests -> 0 .. m] :
          \E B, U \in [Requests -> SUBSET Requests] : Story(m, k, B, U)
    BY DEF DoorInv
  <2>2. PICK k \in [Requests -> 0 .. m] :
          \E B, U \in [Requests -> SUBSET Requests] : Story(m, k, B, U)
    BY <2>1
  <2>3. PICK B \in [Requests -> SUBSET Requests], U \in [Requests -> SUBSET Requests] :
          Story(m, k, B, U)
    BY <2>2
  <2> DEFINE ages == { m - k[q] : q \in I }
  <2>4. PICK x \in I : \A q \in I : k[q] <= k[x]
    <3>1. ages \subseteq Nat /\ ages # {}
      BY <1>2
    <3>2. PICK a \in ages : \A n \in ages : <<n, a>> \notin OpToRel(<, Nat)
      BY <3>1, NatLessThanWellFounded, WFMin
    <3>3. PICK x \in I : a = m - k[x]
      BY <3>2
    <3>4. ASSUME NEW q \in I PROVE k[q] <= k[x]
      <4>1. m - k[q] \in ages /\ k[q] \in 0 .. m /\ k[x] \in 0 .. m
        OBVIOUS
      <4>2. ~(m - k[q] < a)
        BY <3>1, <3>2, <4>1 DEF OpToRel
      <4> QED BY <3>3, <4>1, <4>2
    <3> QED BY <3>4
  <2>5. Met(x, k, B[x], U[x]) /\ x \in Requests /\ Inside(x)
    BY <2>3, <2>4 DEF Story, Inside
  <2>6. I \subseteq Still(B[x]) \cup U[x]
    BY <2>4, <2>5 DEF Met, Still, Inside
  <2>7. /\ Cardinality(Still(B[x])) < GlobalCap /\ Cardinality(U[x]) <= Threads
    BY <2>5 DEF Met, Through
  <2> DEFINE old == Still(B[x])
             way == U[x]
  <2>8. IsFiniteSet(old) /\ Cardinality(old) \in Nat /\ IsFiniteSet(way) /\ Cardinality(way) \in Nat
    <3>1. old \in SUBSET Requests /\ way \in SUBSET Requests
      BY <2>5 DEF Still
    <3> HIDE DEF old, way
    <3> QED BY <3>1, RequestAssumption, FS_Subset, FS_CardinalityType
  <2> HIDE DEF I, old, way
  <2>9. /\ IsFiniteSet(old \cup way)
        /\ Cardinality(old \cup way) <= Cardinality(old) + Cardinality(way)
        /\ Cardinality(old \cup way) \in Nat
    <3>1. IsFiniteSet(old \cap way) /\ Cardinality(old \cap way) \in Nat
      BY <2>8, FS_Intersection, FS_CardinalityType
    <3>2. /\ IsFiniteSet(old \cup way)
          /\ Cardinality(old \cup way)
               = Cardinality(old) + Cardinality(way) - Cardinality(old \cap way)
      BY <2>8, FS_Union
    <3> QED BY <2>8, <3>1, <3>2, FS_CardinalityType
  <2>10. Cardinality(I) <= Cardinality(old \cup way) /\ Cardinality(I) \in Nat
    BY <2>6, <2>9, FS_Subset, FS_CardinalityType DEF old, way
  <2>11. Cardinality(old) < GlobalCap /\ Cardinality(way) <= Threads
    BY <2>7 DEF old, way
  <2>12. Cardinality(I) <= GlobalCap - 1 + Threads
    BY <2>8, <2>9, <2>10, <2>11, CapAssumption
  <2> QED BY <2>12 DEF I
<1> QED BY <1>1, <1>2

\* The global cap holds for any number of requests, threads and addresses, although
\* at_capacity adds up counters read one after the other (connections.rs, total()) and
\* nothing is locked between its answer and inc: as long as the table has room, no more
\* requests are in flight than the cap and the threads at the door allow.
THEOREM CeilingHolds == Spec => []GlobalCeiling
<1> DEFINE Walk == GlobalCap > 0 => DoorInv
<1>1. Init => Unread /\ Walk
  <2> SUFFICES ASSUME Init PROVE Unread /\ DoorInv
    OBVIOUS
  <2>1. Unread
    BY DEF Init, Unread
  <2>2. \A k, B, U : Story(0, k, B, U)
    BY DEF Init, Story
  <2>3. /\ [r \in Requests |-> 0] \in [Requests -> 0 .. 0]
        /\ [r \in Requests |-> {}] \in [Requests -> SUBSET Requests]
        /\ 0 \in Nat
    OBVIOUS
  <2> QED BY <2>1, <2>2, <2>3 DEF DoorInv
<1>2. TypeOK /\ CountInv /\ Unread /\ Walk /\ [Next]_vars => (Unread /\ Walk)'
  BY UnreadStep, DoorStep
<1>3. TypeOK /\ Walk => GlobalCeiling
  BY LastArrival DEF GlobalCeiling
<1> HIDE DEF Walk
<1> QED BY <1>1, <1>2, <1>3, Typing, Counting, PTL DEF Spec
==============================================================================
