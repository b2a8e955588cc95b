-------------------------- MODULE RateLimiterProofs --------------------------
(***************************************************************************)
(* Proofs about RateLimiter.  The types and the bound on the table come    *)
(* first.  The rest is about what the counters count.  Two facts carry it: *)
(* no slot of any counter holds more hits than were charged in the buckets *)
(* it stands for (Owed), late threads included, which gives NoFalseLimit;  *)
(* and a key charged only by threads that nothing has overtaken has a      *)
(* counter that is exact (Exactness), which with the first gives the rest. *)
(***************************************************************************)
EXTENDS RateLimiter, Sums, TLAPS

\* A thread at work knows its client.
Addressed == \A t \in Threads : Busy(t) => thr[t].ip \in Ips
Typed == TypeOK /\ Addressed

\* Keys in the table, or about to be put there by a thread past the capacity test.
Inserting == { Key(thr[t]) : t \in { u \in Threads : thr[u].pc = "clone" } }
Reserved  == Tracked \cup Inserting
ReservedBounded == Cardinality(Reserved) <= MaxEntries + Cardinality(Threads)

Inv == Typed /\ ReservedBounded
-----------------------------------------------------------------------------
(* Types.                                                                  *)

LEMMA KeyIsKey ==
  ASSUME TypeOK, NEW t \in Threads, thr[t].ip \in Ips
  PROVE  Key(thr[t]) \in Keys
  BY DEF TypeOK, Request, Key, Keys

LEMMA IdleTyped ==
  ASSUME NEW v \in Verdicts
  PROVE  Idle(v) \in Request /\ Idle(v).pc \in Verdicts
  BY DEF Idle, Request, Verdicts

\* After a bump a thread has a verdict, or goes on with the same client.
LEMMA AfterBumpTyped ==
  ASSUME NEW r \in Request, NEW n
  PROVE  /\ AfterBump(r, n) \in Request
         /\ \/ AfterBump(r, n).pc \in Verdicts
            \/ AfterBump(r, n).pc = "probe" /\ AfterBump(r, n).ip = r.ip
<1>1. "limited" \in Verdicts /\ "ok" \in Verdicts
  BY DEF Verdicts
<1>2. [r EXCEPT !.pc = "probe", !.id = None, !.route = NoRoute] \in Request
  BY DEF Request
<1>3. /\ [r EXCEPT !.pc = "probe", !.id = None, !.route = NoRoute].pc = "probe"
      /\ [r EXCEPT !.pc = "probe", !.id = None, !.route = NoRoute].ip = r.ip
  BY DEF Request
<1> QED BY <1>1, <1>2, <1>3, IdleTyped DEF AfterBump

LEMMA MarkLateTyped ==
  ASSUME TypeOK, NEW u \in Threads, NEW k \in Keys
  PROVE  /\ MarkLate(u, k) \in Request
         /\ MarkLate(u, k).pc = thr[u].pc /\ MarkLate(u, k).ip = thr[u].ip
         /\ MarkLate(u, k).route = thr[u].route
  BY DEF TypeOK, Request, MarkLate

LEMMA CounterTyped ==
  ASSUME NEW c \in Counter, NEW now \in Nat
  PROVE  HitCounter(c, now) \in Counter
<1>1. \A i \in Slots : c.buckets[i] \in Nat
  BY DEF Counter
<1>2. \A i \in Slots : Charged(c, now, i) \in Nat
  BY <1>1 DEF Charged
<1> QED BY <1>2 DEF HitCounter, Counter

LEMMA ReclaimTyped ==
  ASSUME NEW h \in [Ids -> Counter], NEW e, NEW th
  PROVE  Reclaim(h, e, th) \in [Ids -> Counter]
<1>1. NewCounter \in Counter
  BY DEF NewCounter, Counter
<1> QED BY <1>1 DEF Reclaim

LEMMA HitTyped ==
  ASSUME Typed, NEW t \in Threads, Hit(t)
  PROVE  Typed'
<1> DEFINE r == thr[t]
           k == Key(r)
           c == HitCounter(heap[r.id], r.now)
           th == [u \in Threads |->
                    IF u = t THEN AfterBump(r, Count(c))
                    ELSE IF Outrun(u, r.now) THEN MarkLate(u, k) ELSE thr[u]]
<1>1. r \in Request /\ r.ip \in Ips /\ k \in Keys
  BY KeyIsKey DEF Typed, TypeOK, Addressed, Hit, Busy, Verdicts
<1>2. /\ hits' = [hits EXCEPT ![k][BucketOf(r.now)] = @ + 1]
      /\ clean' = [clean EXCEPT ![k] = @ /\ k \notin r.late]
      /\ thr' = th
      /\ heap' = Reclaim([heap EXCEPT ![r.id] = c], entry, th)
      /\ UNCHANGED <<clock, entry, issued>>
  BY DEF Hit
<1>3. ASSUME NEW u \in Threads
      PROVE  th[u] \in Request /\ (th[u].pc \notin Verdicts => th[u].ip \in Ips)
  <2>1. CASE u = t
    <3>1. th[u] = AfterBump(r, Count(c))
      BY <2>1
    <3> HIDE DEF th, r, c
    <3> QED BY <1>1, <3>1, AfterBumpTyped
  <2>2. CASE u # t
    <3>1. th[u] = MarkLate(u, k) \/ th[u] = thr[u]
      BY <2>2
    <3>2. thr[u] \in Request /\ (thr[u].pc \notin Verdicts => thr[u].ip \in Ips)
      BY DEF Typed, TypeOK, Addressed, Busy
    <3> HIDE DEF th, k, r
    <3> QED BY <1>1, <3>1, <3>2, MarkLateTyped DEF Typed
  <2> QED BY <2>1, <2>2
<1>4. th \in [Threads -> Request]
  BY <1>3
<1>5. heap' \in [Ids -> Counter]
  <2>1. [heap EXCEPT ![r.id] = c] \in [Ids -> Counter]
    <3>1. CASE r.id \in Ids
      <4>1. heap[r.id] \in Counter /\ r.now \in Nat
        BY <1>1, <3>1 DEF Typed, TypeOK, Request
      <4>2. c \in Counter
        BY <4>1, CounterTyped
      <4> HIDE DEF c, r
      <4> QED BY <3>1, <4>2 DEF Typed, TypeOK
    <3>2. CASE r.id \notin Ids
      <4> HIDE DEF c, r
      <4> QED BY <3>2 DEF Typed, TypeOK
    <3> QED BY <3>1, <3>2
  <2> HIDE DEF c, th, r
  <2> QED BY <1>2, <2>1, ReclaimTyped
<1>6. hits' \in [Keys -> [Epochs -> Nat]] /\ clean' \in [Keys -> BOOLEAN]
  <2> HIDE DEF k, r, c, th
  <2>1. hits[k] \in [Epochs -> Nat]
    BY <1>1 DEF Typed, TypeOK
  <2>2. ASSUME NEW b PROVE [hits[k] EXCEPT ![b] = hits[k][b] + 1] \in [Epochs -> Nat]
    <3>1. CASE b \in Epochs
      BY <2>1, <3>1
    <3>2. CASE b \notin Epochs
      BY <2>1, <3>2
    <3> QED BY <3>1, <3>2
  <2> QED BY <1>1, <1>2, <2>2 DEF Typed, TypeOK
<1> HIDE DEF th, c, k, r
<1>7. TypeOK'
  BY <1>2, <1>4, <1>5, <1>6 DEF Typed, TypeOK
<1>8. Addressed'
  BY <1>2, <1>3 DEF Addressed, Busy
<1> QED BY <1>7, <1>8 DEF Typed

LEMMA Typing ==
  ASSUME Typed, [Next]_vars
  PROVE  Typed'
<1>t. /\ thr \in [Threads -> Request] /\ entry \in [Keys -> Ids \cup {None}]
      /\ clock \in Seconds /\ clock \in Nat /\ issued \in Nat
      /\ heap \in [Ids -> Counter]
      /\ hits \in [Keys -> [Epochs -> Nat]] /\ clean \in [Keys -> BOOLEAN]
  BY ClockAssumption DEF Typed, TypeOK
<1>m. ASSUME NEW t \in Threads, NEW r \in Request, thr' = [thr EXCEPT ![t] = r],
             r.pc \notin Verdicts => r.ip \in Ips
      PROVE  thr' \in [Threads -> Request] /\ Addressed'
  <2>1. thr' \in [Threads -> Request]
    BY <1>t, <1>m
  <2>2. \A u \in Threads : thr'[u] = IF u = t THEN r ELSE thr[u]
    BY <1>t, <1>m
  <2> QED BY <1>m, <2>1, <2>2 DEF Typed, Addressed, Busy
<1>1. CASE Advance
  BY <1>1 DEF Advance, Typed, TypeOK, Addressed, Busy
<1>2. ASSUME NEW t \in Threads, Arrive(t) PROVE Typed'
  <2>1. PICK ip \in Ips, route \in Routes \cup {NoRoute}, bps \in Scales :
          thr' = [thr EXCEPT ![t] =
            [pc |-> "probe", route |-> route, ip |-> ip, now |-> clock, id |-> None,
             scale |-> IF bps < 100 THEN 100 ELSE bps, late |-> {}]]
    BY <1>2 DEF Arrive
  <2> DEFINE r == [pc |-> "probe", route |-> route, ip |-> ip, now |-> clock, id |-> None,
                   scale |-> IF bps < 100 THEN 100 ELSE bps, late |-> {}]
  <2>2. (IF bps < 100 THEN 100 ELSE bps) \in Nat
    BY SizeAssumption
  <2>3. r \in Request /\ r.ip \in Ips
    BY <1>t, <2>2 DEF Request
  <2> HIDE DEF r
  <2>4. thr' \in [Threads -> Request] /\ Addressed'
    BY <1>m, <2>1, <2>3 DEF r
  <2>5. issued' \in Nat
    BY <1>2, <1>t DEF Arrive
  <2> QED BY <1>2, <1>t, <2>4, <2>5 DEF Arrive, Typed, TypeOK
<1>3. ASSUME NEW t \in Threads, Probe(t) PROVE Typed'
  <2>1. thr[t] \in Request /\ thr[t].pc = "probe" /\ thr[t].ip \in Ips
    BY <1>3, <1>t DEF Probe, Typed, Addressed, Busy, Verdicts
  <2>2. PICK r \in Request : thr' = [thr EXCEPT ![t] = r] /\ (r.pc \notin Verdicts => r.ip \in Ips)
    <3>1. CASE thr' = [thr EXCEPT ![t] = AfterBump(@, FULL_COUNT)]
      BY <2>1, <3>1, AfterBumpTyped
    <3>2. CASE thr' = [thr EXCEPT ![t].pc = "clone"]
      <4> DEFINE r == [thr[t] EXCEPT !.pc = "clone"]
      <4>1. r \in Request /\ r.ip \in Ips
        BY <2>1 DEF Request
      <4>2. thr' = [thr EXCEPT ![t] = r]
        BY <3>2
      <4> HIDE DEF r
      <4> QED BY <4>1, <4>2
    <3> QED BY <1>3, <3>1, <3>2 DEF Probe
  <2>3. thr' \in [Threads -> Request] /\ Addressed'
    BY <1>m, <2>2
  <2> QED BY <1>3, <1>t, <2>3 DEF Probe, Typed, TypeOK
<1>4. ASSUME NEW t \in Threads, Clone(t) PROVE Typed'
  <2> DEFINE k == Key(thr[t])
  <2>1. thr[t] \in Request /\ thr[t].pc = "clone" /\ thr[t].ip \in Ips
    BY <1>4, <1>t DEF Clone, Typed, Addressed, Busy, Verdicts
  <2>2. k \in Keys
    BY <2>1, KeyIsKey DEF Typed
  <2>3. PICK id \in Ids : /\ thr' = [thr EXCEPT ![t].pc = "hit", ![t].id = id]
                          /\ entry' = entry \/ entry' = [entry EXCEPT ![k] = id]
    <3> HIDE DEF k
    <3>1. CASE entry[k] # None
      <4>1. entry[k] \in Ids
        BY <1>t, <2>2, <3>1
      <4> QED BY <1>4, <3>1, <4>1 DEF Clone, k
    <3>2. CASE entry[k] = None
      <4>1. (CHOOSE i \in Free : TRUE) \in Ids
        BY <1>4, <3>2 DEF Clone, Free, k
      <4> QED BY <1>4, <3>2, <4>1 DEF Clone, k
    <3> QED BY <3>1, <3>2
  <2> DEFINE r == [thr[t] EXCEPT !.pc = "hit", !.id = id]
  <2>4. r \in Request /\ r.ip \in Ips
    BY <2>1 DEF Request
  <2>5. thr' = [thr EXCEPT ![t] = r]
    BY <1>t, <2>3
  <2>6. entry' \in [Keys -> Ids \cup {None}]
    BY <1>t, <2>3
  <2> HIDE DEF r, k
  <2>7. thr' \in [Threads -> Request] /\ Addressed'
    BY <1>m, <2>4, <2>5
  <2> QED BY <1>4, <1>t, <2>6, <2>7 DEF Clone, Typed, TypeOK
<1>5. ASSUME NEW t \in Threads, Hit(t) PROVE Typed'
  BY <1>5, HitTyped
<1>6. ASSUME NEW k \in Keys, Gc(k) PROVE Typed'
  <2>1. \A u \in Threads : thr'[u] = MarkLate(u, k) \/ thr'[u] = thr[u]
    BY <1>6 DEF Gc
  <2>2. \A u \in Threads : thr'[u] \in Request /\ thr'[u].pc = thr[u].pc /\ thr'[u].ip = thr[u].ip
    BY <1>t, <2>1, MarkLateTyped DEF Typed
  <2>3. thr' \in [Threads -> Request]
    BY <1>6, <2>2 DEF Gc
  <2>4. Addressed'
    BY <2>2 DEF Typed, Addressed, Busy
  <2>5. heap' \in [Ids -> Counter]
    BY <1>6, <1>t, ReclaimTyped DEF Gc
  <2>6. entry' \in [Keys -> Ids \cup {None}]
    BY <1>6, <1>t DEF Gc
  <2> QED BY <1>6, <1>t, <2>3, <2>4, <2>5, <2>6 DEF Gc, Typed, TypeOK
<1>7. CASE UNCHANGED vars
  BY <1>7 DEF vars, Typed, TypeOK, Addressed, Busy
<1> QED BY <1>1, <1>2, <1>3, <1>4, <1>5, <1>6, <1>7 DEF Next

LEMMA TypedInit ==
  ASSUME Init
  PROVE  Typed
<1>1. NewCounter \in Counter
  BY DEF NewCounter, Counter
<1>2. Idle("ok") \in Request /\ Idle("ok").pc \in Verdicts
  BY IdleTyped DEF Verdicts
<1> QED BY <1>1, <1>2 DEF Init, Typed, TypeOK, Addressed, Busy

\* Types of the limiter's state (ratelimit.rs:19-33), under any interleaving.
THEOREM RateLimiterTypeOK == Spec => []TypeOK
<1>1. Init => Typed
  BY TypedInit
<1>2. Typed /\ [Next]_vars => Typed'
  BY Typing
<1>3. Typed => TypeOK
  BY DEF Typed
<1> QED BY <1>1, <1>2, <1>3, PTL DEF Spec
-----------------------------------------------------------------------------
(* The bound.                                                              *)

LEMMA KeysFinite == IsFiniteSet(Keys)
<1>1. IsFiniteSet(Routes \cup {Global})
  BY SizeAssumption, FS_AddElement
<1> QED BY <1>1, SizeAssumption, FS_Product DEF Keys

\* Threads work on no more keys than there are threads.
LEMMA KeysOf ==
  ASSUME NEW th, NEW C \in SUBSET Threads
  PROVE  LET K == { Key(th[t]) : t \in C } IN
           /\ IsFiniteSet(K) /\ Cardinality(K) \in Nat /\ Cardinality(Threads) \in Nat
           /\ Cardinality(K) <= Cardinality(Threads)
<1> DEFINE K == { Key(th[t]) : t \in C }
           f == [t \in C |-> Key(th[t])]
<1>1. IsFiniteSet(C) /\ Cardinality(C) <= Cardinality(Threads)
  BY SizeAssumption, FS_Subset
<1>2. f \in [C -> K] /\ \A y \in K : \E t \in C : f[t] = y
  OBVIOUS
<1>3. f \in Surjection(C, K)
  BY <1>2 DEF Surjection
<1> HIDE DEF f, K
<1>4. IsFiniteSet(K) /\ Cardinality(K) <= Cardinality(C)
  BY <1>1, <1>3, FS_Surjection
<1>5. Cardinality(K) \in Nat /\ Cardinality(C) \in Nat /\ Cardinality(Threads) \in Nat
  BY <1>1, <1>4, SizeAssumption, FS_CardinalityType
<1>6. /\ IsFiniteSet(K) /\ Cardinality(K) \in Nat /\ Cardinality(Threads) \in Nat
      /\ Cardinality(K) <= Cardinality(Threads)
  BY <1>1, <1>4, <1>5
<1> QED BY <1>6 DEF K

LEMMA Sizes ==
  ASSUME Typed
  PROVE  /\ Tracked \in SUBSET Keys /\ Reserved \in SUBSET Keys
         /\ IsFiniteSet(Tracked) /\ IsFiniteSet(Reserved) /\ IsFiniteSet(Inserting)
         /\ Cardinality(Tracked) \in Nat /\ Cardinality(Reserved) \in Nat
         /\ Cardinality(Inserting) \in Nat /\ Cardinality(Threads) \in Nat
         /\ Cardinality(Inserting) <= Cardinality(Threads)
<1>1. Inserting \in SUBSET Keys
  BY KeyIsKey DEF Typed, Addressed, Busy, Verdicts, Inserting
<1>3. /\ IsFiniteSet(Inserting) /\ Cardinality(Inserting) \in Nat /\ Cardinality(Threads) \in Nat
      /\ Cardinality(Inserting) <= Cardinality(Threads)
  BY KeysOf DEF Inserting
<1>4. Tracked \in SUBSET Keys /\ Reserved \in SUBSET Keys
  BY <1>1 DEF Tracked, Reserved
<1>5. IsFiniteSet(Tracked) /\ IsFiniteSet(Reserved)
  BY <1>4, KeysFinite, FS_Subset
<1>6. Cardinality(Tracked) \in Nat /\ Cardinality(Reserved) \in Nat
  BY <1>5, FS_CardinalityType
<1> QED BY <1>3, <1>4, <1>5, <1>6

\* Reservations only ever lapse: every step but a successful test of an unknown key.
LEMMA Lapsed ==
  ASSUME Typed, Typed', ReservedBounded, Reserved' \subseteq Reserved
  PROVE  ReservedBounded'
<1>1. Cardinality(Reserved') <= Cardinality(Reserved)
  BY Sizes, FS_Subset
<1>2. Cardinality(Reserved') \in Nat
  <2>1. IsFiniteSet(Reserved')
    BY Sizes, FS_Subset
  <2> QED BY <2>1, FS_CardinalityType
<1> QED BY <1>1, <1>2, Sizes, SizeAssumption DEF ReservedBounded

LEMMA BoundKept ==
  ASSUME Typed, Typed', ReservedBounded, [Next]_vars
  PROVE  ReservedBounded'
<1>t. thr \in [Threads -> Request] /\ entry \in [Keys -> Ids \cup {None}]
  BY DEF Typed, TypeOK
<1>p. ASSUME NEW t \in Threads, thr'[t].pc # "clone",
             \A u \in Threads \ {t} : /\ thr'[u].pc = thr[u].pc
                                      /\ thr'[u].route = thr[u].route /\ thr'[u].ip = thr[u].ip
      PROVE  Inserting' \subseteq Inserting
  <2>1. ASSUME NEW u \in Threads, thr'[u].pc = "clone"
        PROVE  u # t /\ thr[u].pc = "clone" /\ Key(thr'[u]) = Key(thr[u])
    BY <1>p, <2>1 DEF Key
  <2>2. ASSUME NEW x \in Inserting' PROVE x \in Inserting
    <3>1. PICK u \in Threads : thr'[u].pc = "clone" /\ x = Key(thr'[u])
      BY <2>2 DEF Inserting
    <3> QED BY <2>1, <3>1 DEF Inserting
  <2> QED BY <2>2
<1>1. CASE Advance \/ UNCHANGED vars
  <2>1. Reserved' = Reserved
    BY <1>1 DEF Advance, vars, Reserved, Tracked, Inserting
  <2> QED BY <2>1, Lapsed
<1>2. ASSUME NEW t \in Threads, Arrive(t) PROVE ReservedBounded'
  <2>1. thr'[t].pc = "probe" /\ \A u \in Threads \ {t} : thr'[u] = thr[u]
    BY <1>2, <1>t DEF Arrive
  <2>2. Inserting' \subseteq Inserting
    BY <1>p, <2>1
  <2>3. Tracked' = Tracked
    BY <1>2 DEF Arrive, Tracked
  <2> QED BY <2>2, <2>3, Lapsed DEF Reserved
<1>3. ASSUME NEW t \in Threads, Probe(t) PROVE ReservedBounded'
  <2>1. Tracked' = Tracked /\ \A u \in Threads \ {t} : thr'[u] = thr[u]
    BY <1>3, <1>t DEF Probe, Tracked
  <2>2. CASE Key(thr[t]) \notin Tracked /\ Cardinality(Tracked) > MaxEntries
    <3>1. thr'[t] = AfterBump(thr[t], FULL_COUNT)
      BY <1>3, <1>t, <2>2 DEF Probe
    <3>2. thr'[t].pc # "clone"
      BY <1>t, <3>1, AfterBumpTyped DEF Verdicts
    <3>3. Inserting' \subseteq Inserting
      BY <1>p, <2>1, <3>2
    <3> QED BY <2>1, <3>3, Lapsed DEF Reserved
  <2>3. CASE ~(Key(thr[t]) \notin Tracked /\ Cardinality(Tracked) > MaxEntries)
    <3>1. thr' = [thr EXCEPT ![t].pc = "clone"]
      BY <1>3, <2>3 DEF Probe
    <3>2. thr'[t] = [thr[t] EXCEPT !.pc = "clone"] /\ thr[t] \in Request
      BY <1>t, <3>1
    <3>3. Key(thr'[t]) = Key(thr[t])
      BY <3>2 DEF Key, Request
    <3>4. CASE Key(thr[t]) \in Tracked
      <4>1. ASSUME NEW x \in Inserting' PROVE x \in Reserved
        <5>1. PICK u \in Threads : thr'[u].pc = "clone" /\ x = Key(thr'[u])
          BY <4>1 DEF Inserting
        <5>2. CASE u = t
          BY <3>3, <3>4, <5>1, <5>2 DEF Reserved
        <5>3. CASE u # t
          BY <2>1, <5>1, <5>3 DEF Reserved, Inserting
        <5> QED BY <5>2, <5>3
      <4>2. Reserved' \subseteq Reserved
        BY <2>1, <4>1 DEF Reserved
      <4> QED BY <4>2, Lapsed
    <3>5. CASE Cardinality(Tracked) <= MaxEntries
      <4>1. /\ IsFiniteSet(Tracked) /\ IsFiniteSet(Inserting)' /\ Cardinality(Tracked) \in Nat
            /\ Cardinality(Inserting)' \in Nat /\ Cardinality(Inserting)' <= Cardinality(Threads)
            /\ Cardinality(Threads) \in Nat /\ MaxEntries \in Nat
        <5>1. IsFiniteSet(Tracked) /\ Cardinality(Tracked) \in Nat /\ Cardinality(Threads) \in Nat
          BY Sizes
        <5>2. /\ IsFiniteSet(Inserting)' /\ Cardinality(Inserting)' \in Nat
              /\ Cardinality(Inserting)' <= Cardinality(Threads)
          BY KeysOf DEF Inserting
        <5> QED BY <5>1, <5>2, SizeAssumption
      <4>2. Reserved' = Tracked \cup Inserting'
        BY <2>1 DEF Reserved
      <4>3. /\ Cardinality(Tracked \cup Inserting')
                 = Cardinality(Tracked) + Cardinality(Inserting') - Cardinality(Tracked \cap Inserting')
            /\ Cardinality(Tracked \cap Inserting') \in Nat
        BY <4>1, FS_Union, FS_Intersection, FS_CardinalityType
      <4> QED BY <3>5, <4>1, <4>2, <4>3 DEF ReservedBounded
    <3>6. Cardinality(Tracked) <= MaxEntries \/ Cardinality(Tracked) > MaxEntries
      BY Sizes, SizeAssumption
    <3> QED BY <2>3, <3>4, <3>5, <3>6
  <2> QED BY <2>2, <2>3
<1>4. ASSUME NEW t \in Threads, Clone(t) PROVE ReservedBounded'
  <2> DEFINE k == Key(thr[t])
  <2>1. thr'[t].pc = "hit" /\ \A u \in Threads \ {t} : thr'[u] = thr[u]
    <3>1. PICK id : thr' = [thr EXCEPT ![t].pc = "hit", ![t].id = id]
      BY <1>4 DEF Clone
    <3>2. thr[t] \in Request
      BY <1>t
    <3> QED BY <1>t, <3>1, <3>2 DEF Request
  <2>2. Inserting' \subseteq Inserting
    BY <1>p, <2>1
  <2>3. k \in Inserting
    BY <1>4 DEF Clone, Inserting
  <2>4. \A x \in Keys : x # k => entry'[x] = entry[x]
    BY <1>4, <1>t DEF Clone
  <2>5. Tracked' \subseteq Tracked \cup {k}
    BY <2>4 DEF Tracked
  <2>6. Reserved' \subseteq Reserved
    BY <2>2, <2>3, <2>5 DEF Reserved
  <2> QED BY <2>6, Lapsed
<1>5. ASSUME NEW t \in Threads, Hit(t) PROVE ReservedBounded'
  <2> DEFINE r == thr[t]
             n == Count(HitCounter(heap[r.id], r.now))
  <2>1. thr'[t] = AfterBump(r, n) /\ r \in Request
    BY <1>5, <1>t DEF Hit
  <2>2. thr'[t].pc # "clone"
    <3> HIDE DEF r, n
    <3> QED BY <2>1, AfterBumpTyped DEF Verdicts
  <2>3. Key(r) \in Keys
    BY <1>5, KeyIsKey DEF Hit, Typed, Addressed, Busy, Verdicts
  <2>4. \A u \in Threads \ {t} : thr'[u] = MarkLate(u, Key(r)) \/ thr'[u] = thr[u]
    BY <1>5 DEF Hit
  <2>5. \A u \in Threads \ {t} : /\ thr'[u].pc = thr[u].pc
                                 /\ thr'[u].route = thr[u].route /\ thr'[u].ip = thr[u].ip
    <3> HIDE DEF r
    <3> QED BY <2>3, <2>4, MarkLateTyped DEF Typed
  <2>6. Inserting' \subseteq Inserting
    BY <1>p, <2>2, <2>5
  <2>7. Tracked' = Tracked
    BY <1>5 DEF Hit, Tracked
  <2> QED BY <2>6, <2>7, Lapsed DEF Reserved
<1>6. ASSUME NEW k \in Keys, Gc(k) PROVE ReservedBounded'
  <2>1. \A u \in Threads : thr'[u] = MarkLate(u, k) \/ thr'[u] = thr[u]
    BY <1>6 DEF Gc
  <2>2. \A u \in Threads : /\ thr'[u].pc = thr[u].pc
                           /\ thr'[u].route = thr[u].route /\ thr'[u].ip = thr[u].ip
    BY <2>1, MarkLateTyped DEF Typed
  <2>3. \A u \in Threads : Key(thr'[u]) = Key(thr[u])
    BY <2>2 DEF Key
  <2>4. Inserting' \subseteq Inserting
    BY <2>2, <2>3 DEF Inserting
  <2>5. Tracked' \subseteq Tracked
    BY <1>6, <1>t DEF Gc, Tracked
  <2> QED BY <2>4, <2>5, Lapsed DEF Reserved
<1> QED BY <1>1, <1>2, <1>3, <1>4, <1>5, <1>6 DEF Next

LEMMA BoundInit ==
  ASSUME Init, Typed
  PROVE  ReservedBounded
<1>1. Idle("ok").pc # "clone"
  BY DEF Idle
<1>2. Reserved = {}
  BY <1>1 DEF Init, Reserved, Tracked, Inserting
<1> QED BY <1>2, FS_EmptySet, Sizes, SizeAssumption DEF ReservedBounded

\* The capacity test and the insertion are two steps (ratelimit.rs:110 and :113), and gc
\* may take a key away in between; still the table never outgrows its cap by more than
\* the number of threads.
THEOREM RateLimiterTableBounded == Spec => []TableBounded
<1>1. Init => Inv
  BY TypedInit, BoundInit DEF Inv
<1>2. Inv /\ [Next]_vars => Inv'
  BY Typing, BoundKept DEF Inv
<1>3. Inv => TableBounded
  <2> SUFFICES ASSUME Inv PROVE TableBounded
    OBVIOUS
  <2>1. Typed /\ Tracked \subseteq Reserved /\ ReservedBounded
    BY DEF Inv, Reserved
  <2>2. Cardinality(Tracked) <= Cardinality(Reserved)
    BY <2>1, Sizes, FS_Subset
  <2> QED BY <2>1, <2>2, Sizes, SizeAssumption DEF ReservedBounded, TableBounded
<1> QED BY <1>1, <1>2, <1>3, PTL DEF Spec
-----------------------------------------------------------------------------
(* What the counters count.                                                *)

\* Counter i is the one the table has for key k, or one a thread is about to charge for k.
Owns(k, i) == \/ entry[k] = i
              \/ \E t \in Threads : thr[t].pc = "hit" /\ Key(thr[t]) = k /\ thr[t].id = i

\* Nobody charges another key's counter, and a counter nobody can reach is a new one.
Handles ==
  /\ \A t \in Threads : thr[t].id = None <=> thr[t].pc # "hit"
  /\ \A i \in Ids, k1, k2 \in Keys : Owns(k1, i) /\ Owns(k2, i) => k1 = k2
  /\ \A i \in Free : heap[i] = NewCounter

\* No reading of the clock is ahead of the clock.
Dated ==
  /\ \A t \in Threads : Busy(t) => thr[t].now \in Seconds /\ thr[t].now <= clock
  /\ \A i \in Ids : heap[i] = NewCounter \/ heap[i].head \in Seconds
  /\ \A k \in Keys, b \in Epochs : hits[k][b] > 0 => b <= BucketOf(clock)

\* A slot never holds more hits than were charged in the buckets it stands for, from the
\* oldest of the counter's window on.
From(j, head) == { b \in Epochs : b % BUCKETS = j /\ b > BucketOf(head) - BUCKETS }
Covered(h, c) == \A j \in Slots : c.buckets[j] <= SumOf(h, From(j, c.head))
Owed == \A i \in Ids, k \in Keys : Owns(k, i) => Covered(hits[k], heap[i])

\* What a thread that is not late on a key knows of it: no later hit, the counter in the
\* table, and a key without hits where the counter is missing or new.
Unknown(k) == entry[k] = None \/ heap[entry[k]].head = 0
OnTime ==
  \A t \in Threads, k \in Keys : Busy(t) /\ k \notin thr[t].late =>
    /\ \A b \in Epochs : b > BucketOf(thr[t].now) => hits[k][b] = 0
    /\ thr[t].pc = "hit" /\ k = Key(thr[t]) => thr[t].id = entry[k]
    /\ clean[k] /\ Unknown(k) => ColdSince(k, thr[t].now)

\* The head of a counter is the time of a hit.
Headed ==
  \A k \in Keys : clean[k] /\ ~Unknown(k) => hits[k][BucketOf(heap[entry[k]].head)] > 0

Exactness == WindowExact /\ ForgottenIsCold /\ Headed /\ OnTime
Counting  == Handles /\ Dated /\ Owed /\ Exactness
-----------------------------------------------------------------------------
(* Buckets, slots and their sums.                                          *)

LEMMA Buckets ==
  ASSUME NEW s \in Nat, NEW u \in Nat
  PROVE  /\ BucketOf(s) \in Nat
         /\ s <= u => BucketOf(s) <= BucketOf(u)
         /\ s + 120 <= u => BucketOf(s) + BUCKETS <= BucketOf(u)
  BY DEF BucketOf, BUCKETS, BUCKET_SECS

LEMMA EpochTyped ==
  /\ \A s \in Seconds : s \in Nat /\ s > 0 /\ BucketOf(s) \in Epochs
  /\ \A b \in Epochs : b \in Nat /\ b > BUCKETS /\ b % BUCKETS \in Slots
  /\ IsFiniteSet(Epochs) /\ IsFiniteSet(Slots)
<1>1. \A s \in Seconds : s \in Nat /\ s >= 180 /\ BucketOf(s) \in Epochs
  BY ClockAssumption DEF Epochs
<1>2. \A b \in Epochs : b \in Nat /\ b > BUCKETS
  BY <1>1 DEF Epochs, BucketOf, BUCKETS, BUCKET_SECS
<1>3. \A b \in Nat : b % BUCKETS \in Slots
  BY DEF Slots, BUCKETS
<1> DEFINE bucket == [s \in Seconds |-> BucketOf(s)]
<1>4. bucket \in Surjection(Seconds, Epochs)
  BY DEF Surjection, Epochs
<1>5. IsFiniteSet(Epochs)
  BY <1>4, ClockAssumption, FS_Surjection
<1>6. IsFiniteSet(Slots)
  <2>1. BUCKETS - 1 \in Int
    BY DEF BUCKETS
  <2> QED BY <2>1, FS_Interval DEF Slots
<1> QED BY <1>1, <1>2, <1>3, <1>5, <1>6

LEMMA SlotTurns ==
  ASSUME NEW a \in Nat, NEW b \in Nat
  PROVE  /\ (a + BUCKETS) % BUCKETS = a % BUCKETS
         /\ a % BUCKETS = b % BUCKETS /\ a < b => a + BUCKETS <= b
  BY DEF BUCKETS

\* A hit clears the slots of the buckets it passes, and no slot the window keeps.
LEMMA PassedSlots ==
  ASSUME NEW c \in Counter, NEW now \in Nat, NEW b \in Nat
  PROVE  /\ BucketOf(c.head) < b /\ b <= BucketOf(now) => Passed(c, now, b % BUCKETS)
         /\ b <= BucketOf(c.head) /\ b > BucketOf(now) - BUCKETS => ~Passed(c, now, b % BUCKETS)
<1> DEFINE H == BucketOf(c.head)
           N == BucketOf(now)
<1>1. H \in Nat /\ N \in Nat
  BY Buckets DEF Counter
<1>2. Drift(c, now) = IF N > H THEN N - H ELSE 0
  BY DEF Drift
<1> HIDE DEF H, N
<1>3. ASSUME H < b, b <= N PROVE Passed(c, now, b % BUCKETS)
  <2>1. b - H \in 1 .. Drift(c, now) /\ H + (b - H) = b
    BY <1>1, <1>2, <1>3
  <2> QED BY <2>1 DEF Passed, H
<1>4. ASSUME b <= H, b > N - BUCKETS PROVE ~Passed(c, now, b % BUCKETS)
  <2>1. Drift(c, now) < BUCKETS
    BY <1>1, <1>2, <1>4 DEF BUCKETS
  <2>2. ASSUME NEW d \in 1 .. Drift(c, now), (H + d) % BUCKETS = b % BUCKETS PROVE FALSE
    <3>1. H + d \in Nat /\ b < H + d /\ H + d < b + BUCKETS
      BY <1>1, <1>2, <1>4, <2>2 DEF BUCKETS
    <3> QED BY <2>2, <3>1, SlotTurns DEF BUCKETS
  <2> QED BY <1>1, <1>2, <2>1, <2>2 DEF Passed, H, BUCKETS
<1> QED BY <1>3, <1>4 DEF H, N

LEMMA FromPart ==
  ASSUME NEW j, NEW head
  PROVE  From(j, head) \subseteq Epochs /\ IsFiniteSet(From(j, head))
<1>1. From(j, head) \subseteq Epochs
  BY DEF From
<1> QED BY <1>1, EpochTyped, FS_Subset

\* More hits cover no less.
LEMMA CoveredGrows ==
  ASSUME NEW c, NEW h \in [Epochs -> Nat], NEW g \in [Epochs -> Nat],
         \A b \in Epochs : h[b] <= g[b], \A j \in Slots : c.buckets[j] \in Nat, Covered(h, c)
  PROVE  Covered(g, c)
<1> SUFFICES ASSUME NEW j \in Slots PROVE c.buckets[j] <= SumOf(g, From(j, c.head))
  BY DEF Covered
<1> DEFINE F == From(j, c.head)
<1>1. F \subseteq Epochs /\ IsFiniteSet(F)
  BY FromPart
<1>2. c.buckets[j] <= SumOf(h, F)
  BY DEF Covered
<1> HIDE DEF F
<1>3. SumOf(h, F) <= SumOf(g, F) /\ SumOf(h, F) \in Nat /\ SumOf(g, F) \in Nat
  BY <1>1, SumGrows
<1> QED BY <1>2, <1>3 DEF F

\* The history after one more hit in bucket b.
Charge(h, b) == [h EXCEPT ![b] = @ + 1]

\* A hit adds one to a slot that stands for the bucket of the hit.
LEMMA CoveredHit ==
  ASSUME NEW c \in Counter, NEW h \in [Epochs -> Nat], NEW now \in Seconds, Covered(h, c)
  PROVE  Covered(Charge(h, BucketOf(now)), HitCounter(c, now))
<1> DEFINE B == BucketOf(now)
           g == Charge(h, B)
<1>1. now \in Nat /\ B \in Epochs /\ B \in Nat
  BY EpochTyped
<1>2. HitCounter(c, now).head = now
  BY DEF HitCounter
<1> HIDE DEF B
<1>3. g \in [Epochs -> Nat] /\ g[B] = h[B] + 1 /\ \A b \in Epochs \ {B} : g[b] = h[b]
  BY <1>1 DEF Charge
<1> SUFFICES ASSUME NEW j \in Slots
             PROVE  HitCounter(c, now).buckets[j] <= SumOf(g, From(j, now))
  BY <1>2 DEF Covered, B
<1> DEFINE F == From(j, now)
           kept == IF Passed(c, now, j) THEN 0 ELSE c.buckets[j]
<1>4. F \subseteq Epochs /\ IsFiniteSet(F)
  BY FromPart
<1>5. HitCounter(c, now).buckets[j] = kept + (IF j = B % BUCKETS THEN 1 ELSE 0)
  BY DEF HitCounter, Charged, B
<1>6. kept <= SumOf(h, F) /\ kept \in Nat /\ SumOf(h, F) \in Nat
  <2> HIDE DEF F
  <2>1. SumOf(h, F) \in Nat
    BY <1>4, SumTyped
  <2>2. CASE Passed(c, now, j)
    BY <2>1, <2>2
  <2>3. CASE ~Passed(c, now, j)
    <3> DEFINE G == From(j, c.head)
    <3>1. c.buckets[j] \in Nat /\ c.buckets[j] <= SumOf(h, G)
      BY DEF Covered, Counter
    <3>2. G \subseteq F
      <4> SUFFICES ASSUME NEW b \in G PROVE b \in F
        OBVIOUS
      <4>1. b \in Epochs /\ b \in Nat /\ b % BUCKETS = j /\ b > BucketOf(c.head) - BUCKETS
        BY EpochTyped DEF From
      <4>2. BucketOf(c.head) \in Nat /\ B \in Nat
        BY <1>1, Buckets DEF Counter
      <4>3. ASSUME b <= B - BUCKETS PROVE FALSE
        <5>1. /\ b + BUCKETS \in Nat /\ BucketOf(c.head) < b + BUCKETS /\ b + BUCKETS <= B
              /\ (b + BUCKETS) % BUCKETS = j
          BY <4>1, <4>2, <4>3, SlotTurns DEF BUCKETS
        <5> QED BY <1>1, <2>3, <5>1, PassedSlots DEF B
      <4> QED BY <4>1, <4>2, <4>3 DEF F, From, B, BUCKETS
    <3> HIDE DEF G
    <3>3. SumOf(h, G) <= SumOf(h, F) /\ SumOf(h, G) \in Nat
      BY <1>4, <3>2, SumGrows
    <3> QED BY <2>1, <2>3, <3>1, <3>3
  <2> QED BY <2>2, <2>3
<1>7. CASE j = B % BUCKETS
  <2>1. B \in F
    BY <1>1, <1>7 DEF From, B, BUCKETS
  <2> HIDE DEF F, kept
  <2>2. SumOf(g, F) = SumOf(h, F) + 1
    BY <1>3, <1>4, <2>1, SumBumped
  <2> QED BY <1>5, <1>6, <1>7, <2>2 DEF F
<1>8. CASE j # B % BUCKETS
  <2>1. B \notin F
    BY <1>8 DEF From
  <2> HIDE DEF F, kept
  <2>2. SumOf(g, F) = SumOf(h, F)
    BY <1>3, <1>4, <2>1, SumSame
  <2> QED BY <1>5, <1>6, <1>8, <2>2 DEF F
<1> QED BY <1>7, <1>8

Reached(head) == { b \in Epochs : b > BucketOf(head) - BUCKETS }
Window(head)  == { b \in Epochs : InWindow(b, BucketOf(head)) }

\* A covered counter never counts more than was charged since its window opened.
LEMMA CountCovered ==
  ASSUME NEW c \in Counter, NEW h \in [Epochs -> Nat], Covered(h, c)
  PROVE  /\ Count(c) <= SumOf(h, Reached(c.head))
         /\ Count(c) \in Nat /\ SumOf(h, Reached(c.head)) \in Nat
<1> DEFINE T == Reached(c.head)
           f == c.buckets
           part == [j \in Slots |-> From(j, c.head)]
<1>1. T \subseteq Epochs /\ IsFiniteSet(T)
  <2>1. T \subseteq Epochs
    BY DEF Reached
  <2> QED BY <2>1, EpochTyped, FS_Subset
<1>2. \A j \in Slots : f[j] \in Nat /\ part[j] \subseteq T
                       /\ f[j] <= SumOf(h, part[j])
  BY DEF Counter, Covered, From, Reached
<1>3. \A j, i \in Slots : j # i => part[j] \cap part[i] = {}
  BY DEF From
<1>4. Count(c) = SumOf(f, Slots)
  BY DEF Count, SumOf
<1>5. IsFiniteSet(Slots) /\ IsFiniteSet(T) /\ \A b \in T : h[b] \in Nat
  BY <1>1, EpochTyped
<1> HIDE DEF part, T, f
<1>6. SumOf(f, Slots) <= SumOf(h, T)
      /\ SumOf(f, Slots) \in Nat /\ SumOf(h, T) \in Nat
  <2>1. /\ \A j \in Slots : f[j] \in Nat
        /\ \A j \in Slots : part[j] \subseteq T /\ f[j] <= SumOf(h, part[j])
    BY <1>2
  <2> QED BY <1>3, <1>5, <2>1, SumParted
<1> QED BY <1>4, <1>6 DEF T

ExactFor(h, c) ==
  \A b \in Epochs :
    /\ InWindow(b, BucketOf(c.head)) => c.buckets[b % BUCKETS] = h[b]
    /\ b > BucketOf(c.head) => h[b] = 0

\* An exact counter counts the hits of its window.
LEMMA CountExact ==
  ASSUME NEW c \in Counter, NEW h \in [Epochs -> Nat], Covered(h, c), ExactFor(h, c)
  PROVE  Count(c) = SumOf(h, Window(c.head))
<1> DEFINE T == Reached(c.head)
           W == Window(c.head)
           f == c.buckets
           slot == [b \in W |-> b % BUCKETS]
<1>0. BucketOf(c.head) \in Nat /\ \A b \in Epochs : b \in Nat /\ b % BUCKETS \in Slots
  BY Buckets, EpochTyped DEF Counter
<1>1. T \subseteq Epochs /\ IsFiniteSet(T) /\ W \subseteq T /\ IsFiniteSet(W)
  <2>1. T \subseteq Epochs
    BY DEF Reached
  <2>2. W \subseteq T
    BY <1>0 DEF Reached, Window, InWindow, BUCKETS
  <2> QED BY <2>1, <2>2, EpochTyped, FS_Subset
<1>2. \A b \in T : h[b] \in Nat /\ (h[b] > 0 => b \in W)
  BY <1>0 DEF ExactFor, Reached, Window, InWindow
<1>3. \A b \in W : /\ h[b] \in Nat /\ slot[b] \in Slots /\ f[slot[b]] = h[b]
  BY <1>0 DEF ExactFor, Window
<1>4. \A a, b \in W : slot[a] = slot[b] => a = b
  <2> SUFFICES ASSUME NEW a \in W, NEW b \in W, a % BUCKETS = b % BUCKETS, a < b PROVE FALSE
    BY <1>0 DEF Window
  <2>1. a \in Nat /\ b \in Nat /\ a > BucketOf(c.head) - BUCKETS /\ b <= BucketOf(c.head)
    BY <1>0 DEF Window, InWindow, BUCKETS
  <2>2. a + BUCKETS <= b
    BY <2>1, SlotTurns
  <2> QED BY <1>0, <2>1, <2>2 DEF BUCKETS
<1>5. \A j \in Slots : f[j] \in Nat
  BY DEF Counter
<1> HIDE DEF slot, W, T, f
<1>6. SumOf(h, T) = SumOf(h, W)
  BY <1>1, <1>2, <1>3, SumSame
<1>7. SumOf(h, W) <= SumOf(f, Slots) /\ SumOf(h, W) \in Nat
  <2>1. /\ \A b \in W : h[b] \in Nat
        /\ \A b \in W : h[b] > 0 => slot[b] \in Slots /\ h[b] <= f[slot[b]]
        /\ \A a, b \in W : h[a] > 0 /\ h[b] > 0 /\ slot[a] = slot[b] => a = b
        /\ IsFiniteSet(Slots)
    BY <1>3, <1>4, EpochTyped
  <2> QED BY <1>1, <1>5, <2>1, SumMatched
<1>8. Count(c) = SumOf(f, Slots)
  BY DEF Count, SumOf, f
<1>9. Count(c) <= SumOf(h, T) /\ Count(c) \in Nat
  BY CountCovered DEF T
<1> QED BY <1>6, <1>7, <1>8, <1>9 DEF W

\* A hit that nothing has overtaken keeps an exact counter exact, and makes one of a new
\* counter whose key was not charged in the window.
LEMMA ExactHit ==
  ASSUME NEW c \in Counter, NEW h \in [Epochs -> Nat], NEW now \in Seconds,
         \A b \in Epochs : b > BucketOf(now) => h[b] = 0,
         \/ c.head = 0 /\ \A b \in Epochs : h[b] > 0 => b <= BucketOf(now) - BUCKETS
         \/ BucketOf(c.head) <= BucketOf(now) /\ ExactFor(h, c)
  PROVE  ExactFor(Charge(h, BucketOf(now)), HitCounter(c, now))
<1> DEFINE H == BucketOf(c.head)
           B == BucketOf(now)
           g == Charge(h, B)
<1>1. now \in Nat /\ B \in Epochs /\ B \in Nat /\ H \in Nat
  BY EpochTyped, Buckets DEF Counter
<1>2. HitCounter(c, now).head = now
  BY DEF HitCounter
<1>3. g[B] = h[B] + 1 /\ \A b \in Epochs \ {B} : g[b] = h[b]
  <2> HIDE DEF B
  <2> QED BY <1>1 DEF Charge
<1> HIDE DEF g
<1>4. ASSUME NEW b \in Epochs, b > B PROVE g[b] = 0
  BY <1>1, <1>3, <1>4
<1>5. ASSUME NEW b \in Epochs, InWindow(b, B) PROVE HitCounter(c, now).buckets[b % BUCKETS] = g[b]
  <2>1. b \in Nat /\ b % BUCKETS \in Slots /\ b > BUCKETS /\ b > B - BUCKETS /\ b <= B
    BY <1>5, EpochTyped DEF InWindow, BUCKETS
  <2>2. b % BUCKETS = B % BUCKETS <=> b = B
    <3>1. ASSUME b % BUCKETS = B % BUCKETS, b < B PROVE FALSE
      <4>1. b + BUCKETS <= B
        BY <1>1, <2>1, <3>1, SlotTurns
      <4> QED BY <1>1, <2>1, <4>1 DEF BUCKETS
    <3> QED BY <1>1, <2>1, <3>1
  <2>3. h[b] \in Nat /\ c.buckets[b % BUCKETS] \in Nat
    BY <2>1 DEF Counter
  <2>4. (IF Passed(c, now, b % BUCKETS) THEN 0 ELSE c.buckets[b % BUCKETS]) = h[b]
    <3>1. CASE c.head = 0 /\ \A e \in Epochs : h[e] > 0 => e <= B - BUCKETS
      <4>1. H = 0
        BY <3>1 DEF BucketOf, BUCKET_SECS
      <4>2. Passed(c, now, b % BUCKETS)
        BY <1>1, <2>1, <4>1, PassedSlots DEF BUCKETS
      <4>3. h[b] = 0
        BY <1>1, <2>1, <2>3, <3>1 DEF BUCKETS
      <4> QED BY <4>2, <4>3
    <3>2. CASE H <= B /\ ExactFor(h, c)
      <4>1. CASE b > H
        <5>1. Passed(c, now, b % BUCKETS) /\ h[b] = 0
          BY <1>1, <2>1, <3>2, <4>1, PassedSlots DEF ExactFor
        <5> QED BY <5>1
      <4>2. CASE b <= H
        <5>1. ~Passed(c, now, b % BUCKETS)
          BY <1>1, <2>1, <4>2, PassedSlots
        <5>2. InWindow(b, H)
          BY <1>1, <2>1, <3>2, <4>2 DEF InWindow, BUCKETS
        <5> QED BY <3>2, <5>1, <5>2 DEF ExactFor
      <4> QED BY <1>1, <2>1, <4>1, <4>2
    <3> QED BY <3>1, <3>2
  <2>5. HitCounter(c, now).buckets[b % BUCKETS] = h[b] + (IF b = B THEN 1 ELSE 0)
    BY <2>1, <2>2, <2>4 DEF HitCounter, Charged
  <2> QED BY <1>3, <2>3, <2>5
<1> QED BY <1>2, <1>4, <1>5 DEF ExactFor, g, B
-----------------------------------------------------------------------------
(* The steps.                                                              *)

\* A counter finds no new owner where no thread comes to hold one.
LEMMA Owners ==
  ASSUME \A u \in Threads : thr'[u].pc = "hit" =>
           thr[u].pc = "hit" /\ Key(thr'[u]) = Key(thr[u]) /\ thr'[u].id = thr[u].id,
         \A x \in Keys : entry'[x] = entry[x] \/ entry'[x] = None,
         NEW k \in Keys, NEW i \in Ids, Owns(k, i)'
  PROVE  Owns(k, i)
<1>1. i # None
  BY NameAssumption
<1>2. CASE entry'[k] = i
  BY <1>1, <1>2 DEF Owns
<1>3. CASE \E t \in Threads : thr'[t].pc = "hit" /\ Key(thr'[t]) = k /\ thr'[t].id = i
  BY <1>3 DEF Owns
<1> QED BY <1>2, <1>3 DEF Owns

LEMMA OwnedHeld ==
  ASSUME NEW k \in Keys, NEW i, Owns(k, i)
  PROVE  i \in Held(entry, thr)
  BY DEF Owns, Held

\* A request begins, or passes the capacity test.
LEMMA QuietStep ==
  ASSUME Typed, Counting, NEW t \in Threads,
         UNCHANGED <<clock, entry, heap, hits, clean>>,
         \A u \in Threads \ {t} : thr'[u] = thr[u],
         thr[t].pc # "hit", thr'[t].pc # "hit", thr'[t].id = None,
         Busy(t)' => \/ thr'[t].now = clock
                     \/ Busy(t) /\ thr'[t].now = thr[t].now /\ thr'[t].late = thr[t].late
  PROVE  Counting'
<1>1. thr[t].id = None
  BY DEF Counting, Handles
<1>2. \A u \in Threads : thr'[u].id = thr[u].id
  BY <1>1
<1>3. Free' = Free
  BY <1>2 DEF Free, Held
<1>4. ASSUME NEW k \in Keys, NEW i \in Ids, Owns(k, i)' PROVE Owns(k, i)
  <2>1. \A u \in Threads : thr'[u].pc = "hit" =>
           thr[u].pc = "hit" /\ Key(thr'[u]) = Key(thr[u]) /\ thr'[u].id = thr[u].id
    OBVIOUS
  <2>2. \A x \in Keys : entry'[x] = entry[x]
    OBVIOUS
  <2> QED BY <1>4, <2>1, <2>2, Owners
<1>5. Handles'
  BY <1>3, <1>4 DEF Counting, Handles
<1>6. Dated'
  <2>1. clock \in Seconds /\ clock <= clock
    BY EpochTyped DEF Typed, TypeOK
  <2>2. ASSUME NEW u \in Threads, Busy(u)' PROVE thr'[u].now \in Seconds /\ thr'[u].now <= clock
    BY <2>1, <2>2 DEF Counting, Dated, Busy
  <2> QED BY <2>2 DEF Counting, Dated
<1>7. Owed'
  BY <1>4 DEF Counting, Owed, Covered, From
<1>8. WindowExact' /\ ForgottenIsCold' /\ Headed'
  BY DEF Counting, Exactness, WindowExact, Exact, ForgottenIsCold, ColdSince, Headed, Unknown
<1>9. OnTime'
  <2>1. \A k \in Keys : Unknown(k)' <=> Unknown(k)
    BY DEF Unknown
  <2>2. SUFFICES ASSUME NEW u \in Threads, NEW k \in Keys, Busy(u)', k \notin thr'[u].late
                 PROVE  /\ \A b \in Epochs : b > BucketOf(thr'[u].now) => hits[k][b] = 0
                        /\ thr'[u].pc = "hit" /\ k = Key(thr'[u]) => thr'[u].id = entry[k]
                        /\ clean[k] /\ Unknown(k) => ColdSince(k, thr'[u].now)
    BY <2>1 DEF OnTime, ColdSince
  <2>3. CASE \/ u # t
             \/ Busy(t) /\ thr'[t].now = thr[t].now /\ thr'[t].late = thr[t].late
    BY <2>2, <2>3 DEF Counting, Exactness, OnTime, Busy
  <2>4. CASE u = t /\ thr'[t].now = clock
    <3>1. ASSUME NEW b \in Epochs, b > BucketOf(clock) PROVE hits[k][b] = 0
      <4>1. b \in Nat /\ BucketOf(clock) \in Nat /\ hits[k][b] \in Nat
        BY EpochTyped, Buckets DEF Typed, TypeOK
      <4> QED BY <3>1, <4>1 DEF Counting, Dated
    <3>2. clean[k] /\ Unknown(k) => ColdSince(k, clock)
      BY DEF Counting, Exactness, ForgottenIsCold, Unknown
    <3> QED BY <2>4, <3>1, <3>2
  <2>5. u = t => Busy(t)'
    BY <2>2 DEF Busy
  <2> QED BY <2>3, <2>4, <2>5
<1> QED BY <1>5, <1>6, <1>7, <1>8, <1>9 DEF Counting, Exactness

LEMMA ArriveCounts ==
  ASSUME Typed, Counting, NEW t \in Threads, Arrive(t)
  PROVE  Counting'
<1>1. thr \in [Threads -> Request]
  BY DEF Typed, TypeOK
<1>2. /\ thr'[t].pc = "probe" /\ thr'[t].id = None /\ thr'[t].now = clock
      /\ \A u \in Threads \ {t} : thr'[u] = thr[u]
  BY <1>1 DEF Arrive
<1>3. thr[t].pc # "hit"
  BY DEF Arrive, Busy, Verdicts
<1>4. UNCHANGED <<clock, entry, heap, hits, clean>>
  BY DEF Arrive
<1> QED BY <1>2, <1>3, <1>4, QuietStep

LEMMA AfterBumpKeeps ==
  ASSUME NEW r \in Request, NEW n
  PROVE  /\ AfterBump(r, n).id = None /\ AfterBump(r, n).pc # "hit"
         /\ AfterBump(r, n).pc \in Verdicts \/ AfterBump(r, n).pc = "probe"
         /\ AfterBump(r, n).pc \notin Verdicts =>
              AfterBump(r, n).now = r.now /\ AfterBump(r, n).late = r.late
         /\ AfterBump(r, n).pc = "limited" <=> exceeds(n, Key(r), r.scale)
<1> DEFINE q == [r EXCEPT !.pc = "probe", !.id = None, !.route = NoRoute]
<1>1. q.pc = "probe" /\ q.id = None /\ q.now = r.now /\ q.late = r.late
  BY DEF Request
<1>2. \A v \in Verdicts : Idle(v).pc = v /\ Idle(v).id = None
  BY DEF Idle
<1>3. AfterBump(r, n) = IF exceeds(n, Key(r), r.scale) THEN Idle("limited")
                        ELSE IF r.route = NoRoute THEN Idle("ok") ELSE q
  BY DEF AfterBump
<1> HIDE DEF q
<1> QED BY <1>1, <1>2, <1>3 DEF Verdicts

LEMMA ProbeCounts ==
  ASSUME Typed, Counting, NEW t \in Threads, Probe(t)
  PROVE  Counting'
<1>1. thr \in [Threads -> Request] /\ thr[t] \in Request /\ thr[t].pc = "probe"
  BY DEF Typed, TypeOK, Probe
<1>2. thr[t].id = None /\ Busy(t)
  BY <1>1 DEF Counting, Handles, Busy, Verdicts
<1>3. \A u \in Threads \ {t} : thr'[u] = thr[u]
  BY <1>1 DEF Probe
<1>4. UNCHANGED <<clock, entry, heap, hits, clean>>
  BY DEF Probe
<1>5. /\ thr'[t].id = None /\ thr'[t].pc # "hit"
      /\ Busy(t)' => thr'[t].now = thr[t].now /\ thr'[t].late = thr[t].late
  <2>1. CASE thr' = [thr EXCEPT ![t] = AfterBump(@, FULL_COUNT)]
    <3>1. thr'[t] = AfterBump(thr[t], FULL_COUNT)
      BY <1>1, <2>1
    <3> QED BY <1>1, <3>1, AfterBumpKeeps DEF Busy
  <2>2. CASE thr' = [thr EXCEPT ![t].pc = "clone"]
    <3>1. thr'[t] = [thr[t] EXCEPT !.pc = "clone"]
      BY <1>1, <2>2
    <3> QED BY <1>1, <1>2, <3>1 DEF Request
  <2> QED BY <2>1, <2>2 DEF Probe
<1> QED BY <1>1, <1>2, <1>3, <1>4, <1>5, QuietStep

\* A new counter holds nothing.
LEMMA NewIsEmpty ==
  /\ NewCounter \in Counter /\ NewCounter.head = 0
  /\ \A h \in [Epochs -> Nat] : Covered(h, NewCounter)
<1>1. NewCounter \in Counter /\ NewCounter.head = 0 /\ \A j \in Slots : NewCounter.buckets[j] = 0
  BY DEF NewCounter, Counter
<1>2. ASSUME NEW h \in [Epochs -> Nat], NEW j \in Slots
      PROVE  NewCounter.buckets[j] <= SumOf(h, From(j, NewCounter.head))
  <2> DEFINE F == From(j, NewCounter.head)
  <2>1. IsFiniteSet(F) /\ \A b \in F : h[b] \in Nat
    BY FromPart
  <2> HIDE DEF F
  <2>2. SumOf(h, F) \in Nat
    BY <2>1, SumTyped
  <2> QED BY <1>1, <2>2 DEF F
<1> QED BY <1>1, <1>2 DEF Covered

\* The counter is looked up, or put into the table.
LEMMA CloneCounts ==
  ASSUME Typed, Counting, NEW t \in Threads, Clone(t)
  PROVE  Counting'
<1> DEFINE k == Key(thr[t])
<1>1. /\ thr \in [Threads -> Request] /\ thr[t] \in Request /\ thr[t].pc = "clone"
      /\ entry \in [Keys -> Ids \cup {None}] /\ thr[t].ip \in Ips
  BY DEF Typed, TypeOK, Clone, Addressed, Busy, Verdicts
<1>2. k \in Keys /\ thr[t].id = None
  BY <1>1, KeyIsKey DEF Typed, Counting, Handles
<1>3. UNCHANGED <<clock, heap, hits, clean>>
  BY DEF Clone
<1>4. PICK id \in Ids :
        /\ thr' = [thr EXCEPT ![t].pc = "hit", ![t].id = id]
        /\ \/ entry[k] = id /\ entry' = entry
           \/ entry[k] = None /\ id \in Free /\ entry' = [entry EXCEPT ![k] = id]
  <2> HIDE DEF k
  <2>1. CASE entry[k] # None
    <3>1. entry[k] \in Ids
      BY <1>1, <1>2, <2>1
    <3> QED BY <2>1, <3>1 DEF Clone, k
  <2>2. CASE entry[k] = None
    <3> DEFINE i == CHOOSE i \in Free : TRUE
    <3>1. Free # {} /\ entry' = [entry EXCEPT ![k] = i]
          /\ thr' = [thr EXCEPT ![t].pc = "hit", ![t].id = i]
      BY <2>2 DEF Clone, k
    <3>2. i \in Free /\ i \in Ids
      BY <3>1 DEF Free
    <3> HIDE DEF i
    <3> QED BY <2>2, <3>1, <3>2
  <2> QED BY <2>1, <2>2
<1>5. /\ thr'[t].pc = "hit" /\ thr'[t].id = id /\ Key(thr'[t]) = k
      /\ thr'[t].now = thr[t].now /\ thr'[t].late = thr[t].late
      /\ \A u \in Threads \ {t} : thr'[u] = thr[u]
  <2>1. thr'[t] = [thr[t] EXCEPT !.pc = "hit", !.id = id]
    BY <1>1, <1>4
  <2> QED BY <1>1, <1>4, <2>1 DEF Request, Key
<1> HIDE DEF k
<1>6. /\ entry'[k] = id /\ \A x \in Keys \ {k} : entry'[x] = entry[x]
      /\ entry[k] = id \/ (entry[k] = None /\ id \in Free)
  BY <1>1, <1>2, <1>4
<1>7. id # None /\ Busy(t)
  BY <1>1, NameAssumption DEF Busy, Verdicts
<1>8. ASSUME NEW x \in Keys, NEW i \in Ids, Owns(x, i)'
      PROVE  Owns(x, i) \/ (x = k /\ i = id /\ id \in Free)
  <2>1. CASE entry'[x] = i
    BY <1>6, <2>1 DEF Owns
  <2>2. ASSUME NEW u \in Threads, thr'[u].pc = "hit", Key(thr'[u]) = x, thr'[u].id = i
        PROVE  Owns(x, i) \/ (x = k /\ i = id /\ id \in Free)
    BY <1>5, <1>6, <2>2 DEF Owns
  <2> QED BY <1>8, <2>1, <2>2 DEF Owns
<1>9. ASSUME NEW x \in Keys PROVE ~Owns(x, id) \/ id \notin Free
  BY OwnedHeld DEF Free
<1>10. \A i \in Free' : i \in Free
  <2> SUFFICES ASSUME NEW i \in Ids, i \in Held(entry, thr) PROVE i \in Held(entry, thr)'
    BY DEF Free
  <2>1. i # None
    BY NameAssumption
  <2>2. ASSUME NEW x \in Keys, i = entry[x] PROVE i \in Held(entry, thr)'
    <3>1. entry'[x] = i
      BY <1>6, <2>1, <2>2
    <3> QED BY <3>1 DEF Held
  <2>3. ASSUME NEW u \in Threads, i = thr[u].id PROVE i \in Held(entry, thr)'
    <3>1. u # t /\ thr'[u].id = i
      BY <1>2, <1>5, <2>1, <2>3
    <3> QED BY <3>1 DEF Held
  <2> QED BY <2>2, <2>3 DEF Held
<1>11. Handles'
  <2>1. ASSUME NEW u \in Threads PROVE thr'[u].id = None <=> thr'[u].pc # "hit"
    BY <1>5, <1>7 DEF Counting, Handles
  <2>2. ASSUME NEW i \in Ids, NEW x \in Keys, NEW y \in Keys, Owns(x, i)', Owns(y, i)' PROVE x = y
    BY <1>8, <1>9, <2>2 DEF Counting, Handles
  <2>3. \A i \in Free' : heap'[i] = NewCounter
    BY <1>3, <1>10 DEF Counting, Handles
  <2> QED BY <2>1, <2>2, <2>3 DEF Handles
<1>12. Dated'
  <2>1. ASSUME NEW u \in Threads, Busy(u)' PROVE thr'[u].now \in Seconds /\ thr'[u].now <= clock
    BY <1>5, <1>7, <2>1 DEF Counting, Dated, Busy
  <2> QED BY <1>3, <2>1 DEF Counting, Dated
<1>13. Owed'
  <2>1. ASSUME NEW x \in Keys, NEW i \in Ids, Owns(x, i)' PROVE Covered(hits[x], heap[i])
    <3>1. CASE Owns(x, i)
      BY <3>1 DEF Counting, Owed
    <3>2. CASE x = k /\ i = id /\ id \in Free
      <4>1. heap[i] = NewCounter /\ hits[x] \in [Epochs -> Nat]
        BY <3>2 DEF Counting, Handles, Typed, TypeOK
      <4> QED BY <4>1, NewIsEmpty
    <3> QED BY <1>8, <2>1, <3>1, <3>2
  <2> QED BY <1>3, <2>1 DEF Owed, Covered, From
<1>14. \A x \in Keys : Unknown(x)' <=> Unknown(x)
  <2>1. ASSUME id \in Free PROVE heap[id].head = 0
    BY <2>1, NewIsEmpty DEF Counting, Handles
  <2> QED BY <1>3, <1>6, <1>7, <2>1 DEF Unknown
<1>15. ASSUME NEW x \in Keys, ~Unknown(x) PROVE entry[x] # None /\ entry'[x] = entry[x]
  BY <1>6, <1>15, <1>14, NewIsEmpty DEF Unknown, Counting, Handles
<1>16. WindowExact'
  <2> SUFFICES ASSUME NEW x \in Keys, clean[x], entry'[x] # None
               PROVE  Exact(x, heap[entry'[x]])
    BY <1>3 DEF WindowExact, Exact
  <2>1. CASE entry'[x] = entry[x]
    BY <2>1 DEF Counting, Exactness, WindowExact
  <2>2. CASE x = k /\ entry'[x] = id /\ id \in Free
    <3>1. heap[entry'[x]].head = 0
      BY <2>2, NewIsEmpty DEF Counting, Handles
    <3>2. BucketOf(0) = 0
      BY DEF BucketOf, BUCKET_SECS
    <3>3. \A b \in Epochs : ~InWindow(b, 0)
      BY EpochTyped DEF InWindow, BUCKETS
    <3> QED BY <3>1, <3>2, <3>3 DEF Exact
  <2> QED BY <1>6, <2>1, <2>2
<1>17. ForgottenIsCold'
  BY <1>3, <1>14 DEF Counting, Exactness, ForgottenIsCold, Unknown, ColdSince
<1>18. Headed'
  BY <1>3, <1>14, <1>15 DEF Counting, Exactness, Headed
<1>19. OnTime'
  <2>1. SUFFICES ASSUME NEW u \in Threads, NEW x \in Keys, Busy(u)', x \notin thr'[u].late
                 PROVE  /\ \A b \in Epochs : b > BucketOf(thr'[u].now) => hits[x][b] = 0
                        /\ thr'[u].pc = "hit" /\ x = Key(thr'[u]) => thr'[u].id = entry'[x]
                        /\ clean[x] /\ Unknown(x) => ColdSince(x, thr'[u].now)
    BY <1>3, <1>14 DEF OnTime, ColdSince
  <2>2. Busy(u) /\ x \notin thr[u].late /\ thr'[u].now = thr[u].now
    BY <1>5, <1>7, <2>1 DEF Busy
  <2>3. thr'[u].pc = "hit" /\ x = Key(thr'[u]) => thr'[u].id = entry'[x]
    <3>1. CASE u = t
      BY <1>5, <1>6, <3>1
    <3>2. CASE u # t
      <4>1. ASSUME thr[u].pc = "hit", x = Key(thr[u]) PROVE thr[u].id = entry[x] /\ thr[u].id # None
        BY <2>2, <4>1 DEF Counting, Exactness, OnTime, Handles
      <4> QED BY <1>5, <1>6, <3>2, <4>1
    <3> QED BY <3>1, <3>2
  <2> QED BY <2>2, <2>3 DEF Counting, Exactness, OnTime
<1> QED BY <1>11, <1>12, <1>13, <1>16, <1>17, <1>18, <1>19 DEF Counting, Exactness

\* What a table row and its counter are worth to a key depends on that row alone.
LEMMA RowKept ==
  ASSUME NEW x \in Keys, entry'[x] = entry[x], hits'[x] = hits[x], clean'[x] => clean[x],
         entry[x] # None => heap'[entry[x]] = heap[entry[x]], clock' = clock,
         Exactness, clean'[x]
  PROVE  /\ Unknown(x)' <=> Unknown(x)
         /\ entry'[x] # None => Exact(x, heap[entry[x]])'
         /\ Unknown(x)' => ColdSince(x, clock)'
         /\ ~Unknown(x)' => hits'[x][BucketOf(heap'[entry'[x]].head)] > 0
<1>1. Unknown(x)' <=> Unknown(x)
  BY DEF Unknown
<1>2. entry'[x] # None => Exact(x, heap[entry[x]])'
  BY DEF Exactness, WindowExact, Exact
<1>3. Unknown(x)' => ColdSince(x, clock)'
  BY <1>1 DEF Exactness, ForgottenIsCold, Unknown, ColdSince
<1>4. ~Unknown(x)' => hits'[x][BucketOf(heap'[entry'[x]].head)] > 0
  BY <1>1 DEF Exactness, Headed, Unknown
<1> QED BY <1>1, <1>2, <1>3, <1>4

\* A cold counter leaves the table.
LEMMA GcCounts ==
  ASSUME Typed, Counting, NEW k \in Keys, Gc(k)
  PROVE  Counting'
<1>1. /\ thr \in [Threads -> Request] /\ entry \in [Keys -> Ids \cup {None}]
      /\ entry[k] \in Ids /\ Cold(k) /\ clock \in Nat /\ clock \in Seconds
      /\ UNCHANGED <<clock, hits, clean>>
      /\ heap' = Reclaim(heap, entry', thr)
  BY EpochTyped DEF Typed, TypeOK, Gc
<1>2. entry'[k] = None /\ \A x \in Keys \ {k} : entry'[x] = entry[x]
  BY <1>1 DEF Gc
<1>3. ASSUME NEW u \in Threads
      PROVE  /\ thr'[u].pc = thr[u].pc /\ Key(thr'[u]) = Key(thr[u]) /\ thr'[u].id = thr[u].id
             /\ thr'[u].now = thr[u].now /\ thr[u].late \subseteq thr'[u].late
             /\ Busy(u) => k \in thr'[u].late
             /\ Busy(u)' <=> Busy(u)
  <2>1. thr[u] \in Request
    BY <1>1
  <2>2. thr'[u] = IF Busy(u) THEN MarkLate(u, k) ELSE thr[u]
    BY DEF Gc
  <2>3. /\ MarkLate(u, k).pc = thr[u].pc /\ MarkLate(u, k).route = thr[u].route
        /\ MarkLate(u, k).ip = thr[u].ip /\ MarkLate(u, k).id = thr[u].id
        /\ MarkLate(u, k).now = thr[u].now /\ MarkLate(u, k).late = thr[u].late \cup {k}
    BY <2>1 DEF MarkLate, Request
  <2> QED BY <2>2, <2>3 DEF Key, Busy
<1>4. ASSUME NEW x \in Keys, NEW i \in Ids, Owns(x, i)' PROVE Owns(x, i) /\ i \in Held(entry', thr)
  <2>1. \A u \in Threads : thr'[u].pc = "hit" =>
           thr[u].pc = "hit" /\ Key(thr'[u]) = Key(thr[u]) /\ thr'[u].id = thr[u].id
    BY <1>3
  <2>2. \A y \in Keys : entry'[y] = entry[y] \/ entry'[y] = None
    BY <1>2
  <2>3. i \in Held(entry', thr)
    BY <1>3, <1>4 DEF Owns, Held
  <2> QED BY <1>4, <2>1, <2>2, <2>3, Owners
<1>5. /\ \A i \in Ids : i \in Held(entry', thr) => heap'[i] = heap[i]
      /\ \A i \in Ids : i \notin Held(entry', thr) => heap'[i] = NewCounter
  BY <1>1 DEF Reclaim
<1>6. Held(entry', thr) = Held(entry', thr')
  BY <1>3 DEF Held
<1>7. Handles'
  <2>1. \A u \in Threads : thr'[u].id = None <=> thr'[u].pc # "hit"
    BY <1>3 DEF Counting, Handles
  <2>2. \A i \in Ids, x, y \in Keys : Owns(x, i)' /\ Owns(y, i)' => x = y
    BY <1>4 DEF Counting, Handles
  <2>3. \A i \in Free' : heap'[i] = NewCounter
    BY <1>5, <1>6 DEF Free
  <2> QED BY <2>1, <2>2, <2>3 DEF Handles
<1>8. Dated'
  <2>1. \A i \in Ids : heap'[i] = NewCounter \/ heap'[i].head \in Seconds
    BY <1>5 DEF Counting, Dated
  <2> QED BY <1>1, <1>3, <2>1 DEF Counting, Dated
<1>9. Owed'
  <2>1. ASSUME NEW x \in Keys, NEW i \in Ids, Owns(x, i)' PROVE Covered(hits[x], heap'[i])
    BY <1>4, <1>5, <2>1 DEF Counting, Owed
  <2> QED BY <1>1, <2>1 DEF Owed, Covered, From
<1>10. ASSUME NEW x \in Keys \ {k}, clean[x]
       PROVE  /\ Unknown(x)' <=> Unknown(x)
              /\ entry'[x] # None => Exact(x, heap[entry[x]])'
              /\ Unknown(x)' => ColdSince(x, clock)'
              /\ ~Unknown(x)' => hits'[x][BucketOf(heap'[entry'[x]].head)] > 0
  <2>1. entry[x] # None => heap'[entry[x]] = heap[entry[x]]
    <3>1. ASSUME entry[x] # None PROVE entry[x] \in Ids /\ entry[x] \in Held(entry', thr)
      BY <1>1, <1>2, <3>1 DEF Held
    <3> QED BY <1>5, <3>1
  <2>2. clean'[x] /\ hits'[x] = hits[x] /\ clock' = clock /\ entry'[x] = entry[x]
    BY <1>1, <1>2, <1>10
  <2>3. x \in Keys /\ Exactness /\ (clean'[x] => clean[x])
    BY <1>10 DEF Counting
  <2> QED BY <2>1, <2>2, <2>3, RowKept
<1>11. clean[k] => ColdSince(k, clock)
  <2> SUFFICES ASSUME clean[k], NEW b \in Epochs, hits[k][b] > 0
               PROVE  b <= BucketOf(clock) - BUCKETS
    BY DEF ColdSince
  <2> DEFINE c == heap[entry[k]]
  <2>1. c \in Counter /\ entry[k] # None /\ b \in Nat
    BY <1>1, NameAssumption, EpochTyped DEF Typed, TypeOK
  <2>2. CASE c.head = 0
    BY <2>1, <2>2 DEF Counting, Exactness, ForgottenIsCold, ColdSince
  <2>3. CASE c.head # 0
    <3>1. b <= BucketOf(c.head)
      <4>1. Exact(k, c)
        BY <2>1 DEF Counting, Exactness, WindowExact
      <4>2. BucketOf(c.head) \in Nat
        BY <2>1, Buckets DEF Counter
      <4> QED BY <2>1, <2>3, <4>1, <4>2 DEF Exact
    <3>2. c.head + 120 <= clock
      BY <1>1, <2>1, ClockAssumption DEF Cold, Counter
    <3>3. /\ BucketOf(c.head) \in Nat /\ BucketOf(clock) \in Nat
          /\ BucketOf(c.head) + BUCKETS <= BucketOf(clock)
      <4>1. c.head \in Nat
        BY <2>1 DEF Counter
      <4> HIDE DEF c
      <4> QED BY <1>1, <3>2, <4>1, Buckets
    <3> QED BY <2>1, <3>1, <3>3 DEF BUCKETS
  <2> QED BY <2>2, <2>3
<1>12. WindowExact'
  <2> SUFFICES ASSUME NEW x \in Keys, clean'[x], entry'[x] # None
               PROVE  Exact(x, heap[entry[x]])'
    BY DEF WindowExact
  <2> QED BY <1>1, <1>2, <1>10
<1>13. ForgottenIsCold'
  <2> SUFFICES ASSUME NEW x \in Keys, clean'[x], Unknown(x)' PROVE ColdSince(x, clock)'
    BY DEF ForgottenIsCold, Unknown
  <2>1. CASE x = k
    BY <1>1, <1>11, <2>1 DEF ColdSince
  <2> QED BY <1>1, <1>10, <2>1
<1>14. Headed'
  <2> SUFFICES ASSUME NEW x \in Keys, clean'[x], ~Unknown(x)'
               PROVE  hits'[x][BucketOf(heap'[entry'[x]].head)] > 0
    BY DEF Headed
  <2>1. x # k
    BY <1>2 DEF Unknown
  <2> QED BY <1>1, <1>10, <2>1
<1>15. OnTime'
  <2> SUFFICES ASSUME NEW u \in Threads, NEW x \in Keys, Busy(u)', x \notin thr'[u].late
               PROVE  /\ \A b \in Epochs : b > BucketOf(thr'[u].now) => hits'[x][b] = 0
                      /\ thr'[u].pc = "hit" /\ x = Key(thr'[u]) => thr'[u].id = entry'[x]
                      /\ clean'[x] /\ Unknown(x)' => ColdSince(x, thr[u].now)'
    BY DEF OnTime
  <2>1. Busy(u) /\ x # k /\ x \notin thr[u].late
    BY <1>3
  <2>2. /\ \A b \in Epochs : b > BucketOf(thr[u].now) => hits[x][b] = 0
        /\ thr[u].pc = "hit" /\ x = Key(thr[u]) => thr[u].id = entry[x]
        /\ clean[x] /\ Unknown(x) => ColdSince(x, thr[u].now)
    BY <2>1 DEF Counting, Exactness, OnTime
  <2>3. clean'[x] /\ Unknown(x)' => ColdSince(x, thr[u].now)
    BY <1>1, <1>10, <2>1, <2>2
  <2> QED BY <1>1, <1>2, <1>3, <2>1, <2>2, <2>3 DEF ColdSince
<1> QED BY <1>7, <1>8, <1>9, <1>12, <1>13, <1>14, <1>15 DEF Counting, Exactness

\* What Counter::hit does to the state.
LEMMA HitFacts ==
  ASSUME Typed, Counting, NEW t \in Threads, Hit(t)
  PROVE  LET r == thr[t]
             k == Key(r)
             c == heap[r.id]
             d == HitCounter(c, r.now) IN
           /\ r \in Request /\ k \in Keys /\ r.id \in Ids /\ r.now \in Seconds /\ r.now <= clock
           /\ c \in Counter /\ d \in Counter /\ d.head = r.now /\ Owns(k, r.id) /\ Busy(t)
           /\ hits'[k] = Charge(hits[k], BucketOf(r.now))
           /\ \A x \in Keys \ {k} : hits'[x] = hits[x] /\ clean'[x] = clean[x]
           /\ clean'[k] = (clean[k] /\ k \notin r.late)
           /\ thr'[t] = AfterBump(r, Count(d))
           /\ \A i \in Ids : i \in Held(entry, thr') => heap'[i] = IF i = r.id THEN d ELSE heap[i]
           /\ \A i \in Ids : i \notin Held(entry, thr') => heap'[i] = NewCounter
           /\ UNCHANGED <<clock, entry>>
<1> DEFINE r == thr[t]
           k == Key(r)
           c == heap[r.id]
           d == HitCounter(c, r.now)
<1>1. r \in Request /\ r.pc = "hit" /\ r.ip \in Ips /\ Busy(t)
  BY DEF Typed, TypeOK, Hit, Addressed, Busy, Verdicts
<1>2. k \in Keys /\ r.id \in Ids /\ r.now \in Seconds /\ r.now <= clock
  <2>1. r.id # None
    BY <1>1 DEF Counting, Handles
  <2> QED BY <1>1, <2>1, KeyIsKey DEF Typed, Request, Counting, Dated
<1>3. Owns(k, r.id)
  BY <1>1 DEF Owns
<1>4. c \in Counter /\ r.now \in Nat
  BY <1>1, <1>2 DEF Typed, TypeOK, Request
<1>5. d \in Counter /\ d.head = r.now
  <2>1. HitCounter(c, r.now).head = r.now
    BY DEF HitCounter
  <2> QED BY <1>4, <2>1, CounterTyped
<1>6. /\ hits' = [hits EXCEPT ![k][BucketOf(r.now)] = @ + 1]
      /\ clean' = [clean EXCEPT ![k] = @ /\ k \notin r.late]
      /\ thr' = [u \in Threads |-> IF u = t THEN AfterBump(r, Count(d))
                                   ELSE IF Outrun(u, r.now) THEN MarkLate(u, k) ELSE thr[u]]
      /\ heap' = Reclaim([heap EXCEPT ![r.id] = d], entry, thr')
      /\ UNCHANGED <<clock, entry>>
  BY DEF Hit
<1> HIDE DEF d, c, k, r
<1>7. /\ hits'[k] = Charge(hits[k], BucketOf(r.now))
      /\ \A x \in Keys \ {k} : hits'[x] = hits[x] /\ clean'[x] = clean[x]
      /\ clean'[k] = (clean[k] /\ k \notin r.late)
  BY <1>2, <1>6 DEF Typed, TypeOK, Charge
<1>8. thr'[t] = AfterBump(r, Count(d))
  BY <1>6
<1>9. heap \in [Ids -> Counter]
  BY DEF Typed, TypeOK
<1>10. /\ \A i \in Ids : i \in Held(entry, thr') => heap'[i] = IF i = r.id THEN d ELSE heap[i]
       /\ \A i \in Ids : i \notin Held(entry, thr') => heap'[i] = NewCounter
  BY <1>2, <1>6, <1>9 DEF Reclaim
<1>11. UNCHANGED <<clock, entry>>
  BY <1>6
<1> QED BY <1>1, <1>2, <1>3, <1>4, <1>5, <1>7, <1>8, <1>10, <1>11 DEF r, k, c, d

\* What it does to the threads.
LEMMA HitThreads ==
  ASSUME Typed, Counting, NEW t \in Threads, Hit(t)
  PROVE  LET r == thr[t] IN
           /\ thr'[t].id = None /\ thr'[t].pc # "hit"
           /\ Busy(t)' => thr'[t].now = r.now /\ thr'[t].late = r.late
           /\ \A u \in Threads \ {t} :
                /\ thr'[u].pc = thr[u].pc /\ Key(thr'[u]) = Key(thr[u]) /\ thr'[u].id = thr[u].id
                /\ thr'[u].now = thr[u].now /\ thr[u].late \subseteq thr'[u].late
                /\ Busy(u) /\ BucketOf(thr[u].now) < BucketOf(r.now) => Key(r) \in thr'[u].late
                /\ Busy(u)' <=> Busy(u)
<1> DEFINE r == thr[t]
<1>1. /\ thr'[t].id = None /\ thr'[t].pc # "hit"
      /\ Busy(t)' => thr'[t].now = r.now /\ thr'[t].late = r.late
  BY HitFacts, AfterBumpKeeps DEF Busy
<1>2. ASSUME NEW u \in Threads \ {t}
      PROVE  /\ thr'[u].pc = thr[u].pc /\ Key(thr'[u]) = Key(thr[u]) /\ thr'[u].id = thr[u].id
             /\ thr'[u].now = thr[u].now /\ thr[u].late \subseteq thr'[u].late
             /\ Busy(u) /\ BucketOf(thr[u].now) < BucketOf(r.now) => Key(r) \in thr'[u].late
             /\ Busy(u)' <=> Busy(u)
  <2>1. thr[u] \in Request
    BY DEF Typed, TypeOK
  <2>2. thr'[u] = IF Outrun(u, r.now) THEN MarkLate(u, Key(r)) ELSE thr[u]
    BY DEF Hit
  <2>3. /\ MarkLate(u, Key(r)).pc = thr[u].pc /\ MarkLate(u, Key(r)).route = thr[u].route
        /\ MarkLate(u, Key(r)).ip = thr[u].ip /\ MarkLate(u, Key(r)).id = thr[u].id
        /\ MarkLate(u, Key(r)).now = thr[u].now
        /\ MarkLate(u, Key(r)).late = thr[u].late \cup {Key(r)}
    BY <2>1 DEF MarkLate, Request
  <2> HIDE DEF r
  <2> QED BY <2>2, <2>3 DEF Key, Busy, Outrun
<1> QED BY <1>1, <1>2

\* A hit that is not late finds the counter in the table, and leaves it exact.
LEMMA HitOnTime ==
  ASSUME Typed, Counting, NEW t \in Threads, Hit(t), clean'[Key(thr[t])]
  PROVE  LET r == thr[t]
             k == Key(r) IN
           /\ r.id = entry[k] /\ k \notin r.late
           /\ ExactFor(hits'[k], HitCounter(heap[r.id], r.now))
<1> DEFINE r == thr[t]
           k == Key(r)
           c == heap[r.id]
           h == hits[k]
<1>1. /\ r \in Request /\ k \in Keys /\ r.id \in Ids /\ r.now \in Seconds /\ Busy(t)
      /\ c \in Counter /\ h \in [Epochs -> Nat] /\ r.pc = "hit"
      /\ hits'[k] = Charge(h, BucketOf(r.now))
      /\ clean[k] /\ k \notin r.late
  BY HitFacts DEF Typed, TypeOK, Hit
<1>2. /\ \A b \in Epochs : b > BucketOf(r.now) => h[b] = 0
      /\ r.id = entry[k]
      /\ Unknown(k) => ColdSince(k, r.now)
  BY <1>1 DEF Counting, Exactness, OnTime
<1>3. entry[k] # None
  BY <1>1, <1>2, NameAssumption
<1>4. CASE c.head = 0
  <2>1. ColdSince(k, r.now)
    BY <1>2, <1>4 DEF Unknown
  <2>2. \A b \in Epochs : h[b] > 0 => b <= BucketOf(r.now) - BUCKETS
    BY <2>1 DEF ColdSince
  <2> HIDE DEF r, k, c, h
  <2>3. ExactFor(Charge(h, BucketOf(r.now)), HitCounter(c, r.now))
    BY <1>1, <1>2, <1>4, <2>2, ExactHit
  <2> QED BY <1>1, <1>2, <2>3 DEF r, k, c, h
<1>5. CASE c.head # 0
  <2>1. ~Unknown(k)
    BY <1>2, <1>3, <1>5 DEF Unknown
  <2>2. h[BucketOf(c.head)] > 0
    BY <1>1, <1>2, <2>1 DEF Counting, Exactness, Headed
  <2>3. c.head \in Seconds
    BY <1>1, <1>5, NewIsEmpty DEF Counting, Dated
  <2>4. BucketOf(c.head) \in Epochs /\ BucketOf(c.head) \in Nat /\ BucketOf(r.now) \in Nat
    BY <1>1, <2>3, EpochTyped
  <2>5. BucketOf(c.head) <= BucketOf(r.now)
    <3>1. ~(BucketOf(c.head) > BucketOf(r.now))
      BY <1>2, <2>2, <2>4
    <3> QED BY <2>4, <3>1
  <2>6. ExactFor(h, c)
    <3>1. Exact(k, c)
      BY <1>1, <1>2, <1>3 DEF Counting, Exactness, WindowExact
    <3> QED BY <1>5, <3>1 DEF Exact, ExactFor
  <2> HIDE DEF r, k, c, h
  <2>7. ExactFor(Charge(h, BucketOf(r.now)), HitCounter(c, r.now))
    BY <1>1, <1>2, <2>5, <2>6, ExactHit
  <2> QED BY <1>1, <1>2, <2>7 DEF r, k, c, h
<1> QED BY <1>4, <1>5

\* The charged counter, on time or not, holds no hit that was not charged.
LEMMA HitCovered ==
  ASSUME Typed, Counting, NEW t \in Threads, Hit(t)
  PROVE  LET r == thr[t] IN Covered(hits'[Key(r)], HitCounter(heap[r.id], r.now))
<1> DEFINE r == thr[t]
           k == Key(r)
           c == heap[r.id]
<1>1. /\ k \in Keys /\ r.id \in Ids /\ r.now \in Seconds /\ c \in Counter /\ Owns(k, r.id)
      /\ hits[k] \in [Epochs -> Nat] /\ hits'[k] = Charge(hits[k], BucketOf(r.now))
  BY HitFacts DEF Typed, TypeOK
<1>2. Covered(hits[k], c)
  BY <1>1 DEF Counting, Owed
<1> HIDE DEF r, k, c
<1> QED BY <1>1, <1>2, CoveredHit DEF r, k, c

LEMMA HitCounts ==
  ASSUME Typed, Typed', Counting, NEW t \in Threads, Hit(t)
  PROVE  Counting'
<1> DEFINE r == thr[t]
           k == Key(r)
           d == HitCounter(heap[r.id], r.now)
           B == BucketOf(r.now)
<1>1. /\ r \in Request /\ k \in Keys /\ r.id \in Ids /\ r.now \in Seconds /\ r.now <= clock
      /\ d \in Counter /\ d.head = r.now /\ Owns(k, r.id) /\ Busy(t)
      /\ hits'[k] = Charge(hits[k], B)
      /\ \A x \in Keys \ {k} : hits'[x] = hits[x] /\ clean'[x] = clean[x]
      /\ clean'[k] = (clean[k] /\ k \notin r.late)
      /\ \A i \in Ids : i \in Held(entry, thr') => heap'[i] = IF i = r.id THEN d ELSE heap[i]
      /\ \A i \in Ids : i \notin Held(entry, thr') => heap'[i] = NewCounter
      /\ UNCHANGED <<clock, entry>>
  BY HitFacts
<1>2. /\ thr'[t].id = None /\ thr'[t].pc # "hit"
      /\ Busy(t)' => thr'[t].now = r.now /\ thr'[t].late = r.late
      /\ \A u \in Threads \ {t} :
           /\ thr'[u].pc = thr[u].pc /\ Key(thr'[u]) = Key(thr[u]) /\ thr'[u].id = thr[u].id
           /\ thr'[u].now = thr[u].now /\ thr[u].late \subseteq thr'[u].late
           /\ Busy(u) /\ BucketOf(thr[u].now) < B => k \in thr'[u].late
           /\ Busy(u)' <=> Busy(u)
  BY HitThreads
<1>3. clean'[k] => r.id = entry[k] /\ k \notin r.late /\ ExactFor(hits'[k], d)
  BY HitOnTime
<1>4. Covered(hits'[k], d)
  BY HitCovered
<1>5. /\ hits \in [Keys -> [Epochs -> Nat]] /\ hits' \in [Keys -> [Epochs -> Nat]]
      /\ heap \in [Ids -> Counter] /\ entry \in [Keys -> Ids \cup {None}] /\ clock \in Nat
      /\ B \in Epochs /\ B \in Nat /\ r.now \in Nat /\ r.now # 0 /\ None \notin Ids
  BY <1>1, EpochTyped, NameAssumption DEF Typed, TypeOK
<1> HIDE DEF B, d, k, r
<1>6. hits'[k][B] = hits[k][B] + 1 /\ \A b \in Epochs \ {B} : hits'[k][b] = hits[k][b]
  BY <1>1, <1>5 DEF Charge
<1>7. ASSUME NEW x \in Keys, NEW i \in Ids, Owns(x, i)'
      PROVE  /\ Owns(x, i) /\ heap'[i] = IF i = r.id THEN d ELSE heap[i]
             /\ i = r.id => x = k
  <2>1. \A u \in Threads : thr'[u].pc = "hit" =>
           thr[u].pc = "hit" /\ Key(thr'[u]) = Key(thr[u]) /\ thr'[u].id = thr[u].id
    BY <1>2
  <2>2. \A y \in Keys : entry'[y] = entry[y]
    BY <1>1
  <2>3. Owns(x, i)
    BY <1>7, <2>1, <2>2, Owners
  <2>4. i \in Held(entry, thr')
    BY <1>1, <1>7 DEF Owns, Held
  <2>5. i = r.id => x = k
    BY <1>1, <2>3 DEF Counting, Handles
  <2> QED BY <1>1, <2>3, <2>4, <2>5
<1>8. Handles'
  <2>1. \A u \in Threads : thr'[u].id = None <=> thr'[u].pc # "hit"
    BY <1>2 DEF Counting, Handles
  <2>2. \A i \in Ids, x, y \in Keys : Owns(x, i)' /\ Owns(y, i)' => x = y
    BY <1>7 DEF Counting, Handles
  <2>3. \A i \in Free' : heap'[i] = NewCounter
    BY <1>1 DEF Free
  <2> QED BY <2>1, <2>2, <2>3 DEF Handles
<1>9. Dated'
  <2>1. \A i \in Ids : heap'[i] = NewCounter \/ heap'[i].head \in Seconds
    BY <1>1 DEF Counting, Dated
  <2>2. ASSUME NEW u \in Threads, Busy(u)' PROVE thr'[u].now \in Seconds /\ thr'[u].now <= clock
    <3>1. CASE u = t
      <4>1. Busy(t)'
        BY <2>2, <3>1 DEF Busy
      <4> QED BY <1>1, <1>2, <3>1, <4>1
    <3>2. CASE u # t
      BY <1>2, <2>2, <3>2 DEF Counting, Dated
    <3> QED BY <3>1, <3>2
  <2>3. ASSUME NEW x \in Keys, NEW b \in Epochs, hits'[x][b] > 0 PROVE b <= BucketOf(clock)
    <3>1. B <= BucketOf(clock)
      BY <1>1, <1>5, Buckets DEF B
    <3> QED BY <1>1, <1>6, <2>3, <3>1 DEF Counting, Dated
  <2> QED BY <1>1, <2>1, <2>2, <2>3 DEF Dated
<1>10. Owed'
  <2>1. ASSUME NEW x \in Keys, NEW i \in Ids, Owns(x, i)' PROVE Covered(hits'[x], heap'[i])
    <3>1. CASE i = r.id
      BY <1>4, <1>7, <2>1, <3>1
    <3>2. CASE i # r.id
      <4>1. Covered(hits[x], heap[i]) /\ heap'[i] = heap[i]
        BY <1>7, <2>1, <3>2 DEF Counting, Owed
      <4>2. \A b \in Epochs : hits[x][b] <= hits'[x][b]
        <5>1. \A b \in Epochs : hits[x][b] \in Nat
          BY <1>5
        <5> QED BY <1>1, <1>6, <5>1
      <4>3. \A j \in Slots : heap[i].buckets[j] \in Nat
        BY <1>5 DEF Counter
      <4>4. hits[x] \in [Epochs -> Nat] /\ hits'[x] \in [Epochs -> Nat]
        BY <1>5
      <4> QED BY <4>1, <4>2, <4>3, <4>4, CoveredGrows
    <3> QED BY <3>1, <3>2
  <2> QED BY <2>1 DEF Owed, Covered, From
<1>11. ASSUME NEW x \in Keys, entry[x] # None
       PROVE  heap'[entry[x]] = IF entry[x] = r.id THEN d ELSE heap[entry[x]]
  <2>1. PICK i \in Ids : i = entry[x]
    BY <1>5, <1>11
  <2>2. Owns(x, i)'
    BY <1>1, <2>1 DEF Owns
  <2> QED BY <1>7, <2>1, <2>2
<1>12. ASSUME NEW x \in Keys \ {k}, clean'[x]
       PROVE  /\ Unknown(x)' <=> Unknown(x)
              /\ entry'[x] # None => Exact(x, heap[entry[x]])'
              /\ Unknown(x)' => ColdSince(x, clock)'
              /\ ~Unknown(x)' => hits'[x][BucketOf(heap'[entry'[x]].head)] > 0
  <2>1. ASSUME entry[x] # None PROVE heap'[entry[x]] = heap[entry[x]]
    <3>1. entry[x] \in Ids /\ Owns(x, entry[x])
      BY <1>5, <2>1 DEF Owns
    <3>2. entry[x] # r.id
      BY <1>1, <1>12, <3>1 DEF Counting, Handles
    <3> QED BY <1>11, <2>1, <3>2
  <2>2. hits'[x] = hits[x] /\ clock' = clock /\ entry'[x] = entry[x]
    BY <1>1, <1>12
  <2>3. x \in Keys /\ Exactness /\ (clean'[x] => clean[x])
    BY <1>1, <1>12 DEF Counting
  <2> QED BY <1>12, <2>1, <2>2, <2>3, RowKept
<1>13. ASSUME NEW x \in Keys, x = k, clean'[x]
       PROVE  entry'[x] = r.id /\ heap'[r.id] = d /\ ~Unknown(x)'
  <2>1. entry[x] = r.id /\ entry[x] # None /\ entry' = entry
    BY <1>1, <1>3, <1>5, <1>13
  <2>2. heap'[r.id] = d
    BY <1>1, <1>11, <2>1
  <2> QED BY <1>1, <1>5, <2>1, <2>2 DEF Unknown
<1>14. WindowExact'
  <2> SUFFICES ASSUME NEW x \in Keys, clean'[x], entry'[x] # None
               PROVE  Exact(x, heap[entry[x]])'
    BY DEF WindowExact
  <2>1. CASE x = k
    BY <1>3, <1>13, <2>1 DEF Exact, ExactFor
  <2> QED BY <1>12, <2>1
<1>15. ForgottenIsCold'
  <2> SUFFICES ASSUME NEW x \in Keys, clean'[x], Unknown(x)' PROVE ColdSince(x, clock)'
    BY DEF ForgottenIsCold, Unknown
  <2>1. CASE x = k
    BY <1>13, <2>1
  <2> QED BY <1>12, <2>1
<1>16. Headed'
  <2> SUFFICES ASSUME NEW x \in Keys, clean'[x], ~Unknown(x)'
               PROVE  hits'[x][BucketOf(heap'[entry'[x]].head)] > 0
    BY DEF Headed
  <2>1. CASE x = k
    <3>1. hits[k][B] \in Nat
      BY <1>1, <1>5
    <3>2. BucketOf(heap'[entry'[x]].head) = B
      BY <1>1, <1>13, <2>1 DEF B
    <3> QED BY <1>6, <2>1, <3>1, <3>2
  <2> QED BY <1>12, <2>1
<1>17. OnTime'
  <2> SUFFICES ASSUME NEW u \in Threads, NEW x \in Keys, Busy(u)', x \notin thr'[u].late
               PROVE  /\ \A b \in Epochs : b > BucketOf(thr'[u].now) => hits'[x][b] = 0
                      /\ thr'[u].pc = "hit" /\ x = Key(thr'[u]) => thr'[u].id = entry'[x]
                      /\ clean'[x] /\ Unknown(x)' => ColdSince(x, thr[u].now)'
    BY DEF OnTime
  <2>1. /\ Busy(u) /\ x \notin thr[u].late /\ thr'[u].now = thr[u].now
        /\ x = k => ~(BucketOf(thr[u].now) < B)
        /\ u = t => thr'[u].pc # "hit"
        /\ u # t => thr'[u].pc = thr[u].pc /\ Key(thr'[u]) = Key(thr[u]) /\ thr'[u].id = thr[u].id
    <3>1. CASE u = t
      <4>1. Busy(t)'
        BY <3>1 DEF Busy
      <4>2. thr'[t].now = r.now /\ thr'[t].late = r.late
        BY <1>2, <4>1
      <4> QED BY <1>1, <1>2, <1>5, <3>1, <4>2 DEF r, B
    <3>2. CASE u # t
      BY <1>2, <3>2
    <3> QED BY <3>1, <3>2
  <2>2. /\ \A b \in Epochs : b > BucketOf(thr[u].now) => hits[x][b] = 0
        /\ thr[u].pc = "hit" /\ x = Key(thr[u]) => thr[u].id = entry[x]
        /\ clean[x] /\ Unknown(x) => ColdSince(x, thr[u].now)
    BY <2>1 DEF Counting, Exactness, OnTime
  <2>3. \A b \in Epochs : b > BucketOf(thr[u].now) => hits'[x][b] = 0
    BY <1>1, <1>6, <2>1, <2>2
  <2>4. ASSUME clean'[x], Unknown(x)' PROVE ColdSince(x, thr[u].now)'
    <3>1. x # k
      BY <1>13, <2>4
    <3>2. Unknown(x) /\ clean[x] /\ hits'[x] = hits[x]
      BY <1>1, <1>12, <2>4, <3>1
    <3> QED BY <2>1, <2>2, <3>2 DEF ColdSince
  <2> QED BY <1>1, <2>1, <2>2, <2>3, <2>4
<1> QED BY <1>8, <1>9, <1>10, <1>14, <1>15, <1>16, <1>17 DEF Counting, Exactness

\* The passing of time alone.
LEMMA TimePasses ==
  ASSUME Counting, UNCHANGED <<entry, heap, thr, hits, clean>>
  PROVE  Handles' /\ Owed' /\ WindowExact' /\ Headed' /\ OnTime'
<1>1. \A k \in Keys, i \in Ids : Owns(k, i)' <=> Owns(k, i)
  BY DEF Owns
<1>2. Free' = Free
  BY DEF Free, Held
<1>3. Handles'
  BY <1>1, <1>2 DEF Counting, Handles
<1>4. Owed'
  BY <1>1 DEF Counting, Owed, Covered, From
<1>5. WindowExact'
  BY DEF Counting, Exactness, WindowExact, Exact
<1>6. \A k \in Keys : Unknown(k)' <=> Unknown(k)
  BY DEF Unknown
<1>7. Headed'
  BY <1>6 DEF Counting, Exactness, Headed
<1>8. OnTime'
  BY <1>6 DEF Counting, Exactness, OnTime, ColdSince, Busy
<1> QED BY <1>3, <1>4, <1>5, <1>7, <1>8

LEMMA CountingKept ==
  ASSUME Typed, Typed', Counting, [Next]_vars
  PROVE  Counting'
<1>1. CASE Advance
  <2>1. UNCHANGED <<entry, heap, thr, hits, clean>> /\ clock' \in Seconds /\ clock < clock'
    BY <1>1 DEF Advance
  <2>2. /\ clock \in Nat /\ clock' \in Nat /\ BucketOf(clock) \in Nat /\ BucketOf(clock') \in Nat
        /\ BucketOf(clock) <= BucketOf(clock')
    <3>1. clock \in Nat /\ clock' \in Nat /\ clock <= clock'
      BY <2>1, EpochTyped DEF Typed, TypeOK
    <3> QED BY <3>1, Buckets
  <2>3. Handles' /\ Owed' /\ WindowExact' /\ Headed' /\ OnTime'
    BY <2>1, TimePasses
  <2>4. Dated'
    <3>1. ASSUME NEW u \in Threads, Busy(u)' PROVE thr'[u].now \in Seconds /\ thr'[u].now <= clock'
      <4>1. thr'[u].now \in Seconds /\ thr'[u].now <= clock
        BY <2>1, <3>1 DEF Counting, Dated, Busy
      <4> DEFINE n == thr'[u].now
                 c == clock'
      <4>2. n \in Nat /\ c \in Nat /\ n <= clock /\ clock < c
        BY <2>1, <2>2, <4>1, EpochTyped
      <4> HIDE DEF n, c
      <4>3. n <= c
        BY <2>2, <4>2
      <4> QED BY <4>1, <4>3 DEF n, c
    <3>2. ASSUME NEW k \in Keys, NEW b \in Epochs, hits'[k][b] > 0 PROVE b <= BucketOf(clock')
      <4>1. b <= BucketOf(clock) /\ b \in Nat
        BY <2>1, <3>2, EpochTyped DEF Counting, Dated
      <4> QED BY <2>2, <4>1
    <3>3. \A i \in Ids : heap'[i] = NewCounter \/ heap'[i].head \in Seconds
      BY <2>1 DEF Counting, Dated
    <3> QED BY <3>1, <3>2, <3>3 DEF Dated
  <2>5. ForgottenIsCold'
    <3> SUFFICES ASSUME NEW k \in Keys, clean[k], Unknown(k), NEW b \in Epochs, hits[k][b] > 0
                 PROVE  b <= BucketOf(clock') - BUCKETS
      BY <2>1 DEF ForgottenIsCold, ColdSince, Unknown
    <3>1. b <= BucketOf(clock) - BUCKETS /\ b \in Nat
      BY EpochTyped DEF Counting, Exactness, ForgottenIsCold, ColdSince, Unknown
    <3> QED BY <2>2, <3>1 DEF BUCKETS
  <2> QED BY <2>3, <2>4, <2>5 DEF Counting, Exactness
<1>2. CASE UNCHANGED vars
  <2>1. UNCHANGED <<clock, entry, heap, thr, hits, clean>>
    BY <1>2 DEF vars
  <2>2. Dated' /\ ForgottenIsCold'
    BY <2>1 DEF Counting, Exactness, Dated, ForgottenIsCold, ColdSince, Busy
  <2> QED BY <2>1, <2>2, TimePasses DEF Counting, Exactness
<1> QED BY <1>1, <1>2, ArriveCounts, ProbeCounts, CloneCounts, HitCounts, GcCounts DEF Next

LEMMA CountingInit ==
  ASSUME Init
  PROVE  Counting
<1>1. /\ entry = [k \in Keys |-> None] /\ heap = [i \in Ids |-> NewCounter]
      /\ hits = [k \in Keys |-> [b \in Epochs |-> 0]]
  BY DEF Init
<1>2. \A t \in Threads : thr[t].id = None /\ thr[t].pc # "hit" /\ ~Busy(t)
  BY DEF Init, Idle, Busy, Verdicts
<1>3. \A i \in Ids, k \in Keys : ~Owns(k, i)
  BY <1>1, <1>2, NameAssumption DEF Owns
<1>4. Handles
  BY <1>1, <1>2, <1>3 DEF Handles, Free
<1>5. Dated /\ Owed
  BY <1>1, <1>2, <1>3 DEF Dated, Owed
<1>6. WindowExact /\ ForgottenIsCold /\ Headed /\ OnTime
  BY <1>1, <1>2 DEF WindowExact, ForgottenIsCold, ColdSince, Headed, Unknown, OnTime
<1> QED BY <1>4, <1>5, <1>6 DEF Counting, Exactness

LEMMA CountingInvariant == Spec => [](Typed /\ Counting)
<1>1. Init => Typed /\ Counting
  BY TypedInit, CountingInit
<1>2. Typed /\ Counting /\ [Next]_vars => (Typed /\ Counting)'
  BY Typing, CountingKept
<1> QED BY <1>1, <1>2, PTL DEF Spec

\* Counter::hit's clearing on drift (ratelimit.rs:35-49), the head a new counter starts
\* with and gc's retain never cost a counter a hit, and never leave it one too many, as
\* long as no request charges it that another has overtaken.
THEOREM WindowsAreExact == Spec => []WindowExact
<1>1. Typed /\ Counting => WindowExact
  BY DEF Counting, Exactness
<1> QED BY <1>1, CountingInvariant, PTL

\* What gc drops (ratelimit.rs:122-129) no limit could see any more, even though it reads
\* the clock before it takes the key and a thread may be about to charge the counter.
THEOREM OnlyColdIsForgotten == Spec => []ForgottenIsCold
<1>1. Typed /\ Counting => ForgottenIsCold
  BY DEF Counting, Exactness
<1> QED BY <1>1, CountingInvariant, PTL
-----------------------------------------------------------------------------
(* The verdicts.                                                           *)

\* Only a thread's own hit takes it on from there.
LEMMA ChargedByHit ==
  ASSUME Typed, [Next]_vars, NEW t \in Threads, Charges(t)
  PROVE  Hit(t)
<1>t. thr \in [Threads -> Request] /\ thr[t].pc = "hit" /\ thr'[t].pc # "hit"
  BY DEF Typed, TypeOK, Charges
<1>1. CASE Advance \/ UNCHANGED vars
  BY <1>t, <1>1 DEF Advance, vars
<1>2. ASSUME NEW u \in Threads, Arrive(u) \/ Probe(u) \/ Clone(u) PROVE FALSE
  <2>1. u # t
    BY <1>t, <1>2 DEF Arrive, Probe, Clone, Busy, Verdicts
  <2>2. thr'[t] = thr[t]
    BY <1>t, <1>2, <2>1 DEF Arrive, Probe, Clone
  <2> QED BY <1>t, <2>2
<1>3. ASSUME NEW u \in Threads, Hit(u), u # t PROVE FALSE
  <2>1. Key(thr[u]) \in Keys
    BY <1>3, KeyIsKey DEF Hit, Typed, Addressed, Busy, Verdicts
  <2>2. thr'[t] = MarkLate(t, Key(thr[u])) \/ thr'[t] = thr[t]
    BY <1>3 DEF Hit
  <2> QED BY <1>t, <2>1, <2>2, MarkLateTyped DEF Typed
<1>4. ASSUME NEW k \in Keys, Gc(k) PROVE FALSE
  <2>1. thr'[t] = MarkLate(t, k) \/ thr'[t] = thr[t]
    BY <1>4 DEF Gc
  <2> QED BY <1>t, <2>1, MarkLateTyped DEF Typed
<1> QED BY <1>1, <1>2, <1>3, <1>4 DEF Next

\* A ceiling is a number.
LEMMA CeilingTyped ==
  ASSUME NEW k \in Keys, NEW scale \in Nat
  PROVE  Ceiling(k, scale) \in Nat
<1>1. Rpm[k[1]] \in Nat /\ Burst[k[1]] \in Nat /\ U32Max \in Nat
  BY CeilingAssumption DEF Keys
<1>2. Rpm[k[1]] * scale \in Nat
  BY <1>1
<1>3. (Rpm[k[1]] * scale) \div 10000 \in Nat
  BY <1>2
<1>4. scale_rpm(Rpm[k[1]], scale) \in Nat
  BY <1>1, <1>3 DEF scale_rpm
<1> QED BY <1>1, <1>4 DEF Ceiling, SatAdd

\* What a charging thread goes by.
LEMMA Reckoned ==
  ASSUME Typed, Typed', Counting, NEW t \in Threads, Hit(t)
  PROVE  LET r == thr[t]
             k == Key(r)
             n == Count(HitCounter(heap[r.id], r.now)) IN
           /\ Refused(t) <=> exceeds(n, k, r.scale)
           /\ Ceiling(k, r.scale) \in Nat
           /\ n \in Nat /\ SinceWindow(hits', k, r.now) \in Nat
           /\ n <= SinceWindow(hits', k, r.now)
           /\ clean'[k] => n = Recent(hits', k, r.now)
<1> DEFINE r == thr[t]
           k == Key(r)
           d == HitCounter(heap[r.id], r.now)
           h == hits'[k]
<1>1. /\ r \in Request /\ k \in Keys /\ d \in Counter /\ d.head = r.now
      /\ thr'[t] = AfterBump(r, Count(d))
  BY HitFacts
<1>2. h \in [Epochs -> Nat]
  BY <1>1 DEF Typed, TypeOK
<1>3. Covered(h, d)
  BY HitCovered
<1>4. clean'[k] => ExactFor(h, d)
  BY HitOnTime
<1>5. SinceWindow(hits', k, r.now) = SumOf(h, Reached(r.now))
  <2>1. { b \in Epochs : b \in { e \in Epochs : e > BucketOf(r.now) - BUCKETS } } = Reached(r.now)
    BY DEF Reached
  <2> QED BY <2>1 DEF SinceWindow, HitsIn, SumOf
<1>6. Recent(hits', k, r.now) = SumOf(h, Window(r.now))
  <2>1. { b \in Epochs : b \in { e \in Epochs : InWindow(e, BucketOf(r.now)) } } = Window(r.now)
    BY DEF Window
  <2> QED BY <2>1 DEF Recent, HitsIn, SumOf
<1>7. Refused(t) <=> exceeds(Count(d), k, r.scale)
  <2> HIDE DEF d
  <2> QED BY <1>1, AfterBumpKeeps DEF Refused
<1>8. Ceiling(k, r.scale) \in Nat
  BY <1>1, CeilingTyped DEF Request
<1> HIDE DEF d, h, k, r
<1>9. /\ Count(d) <= SumOf(h, Reached(r.now))
      /\ Count(d) \in Nat /\ SumOf(h, Reached(r.now)) \in Nat
  BY <1>1, <1>2, <1>3, CountCovered
<1>10. clean'[k] => Count(d) = SumOf(h, Window(r.now))
  BY <1>1, <1>2, <1>3, <1>4, CountExact
<1> QED BY <1>5, <1>6, <1>7, <1>8, <1>9, <1>10 DEF d, h, k, r

\* Between the capacity test, the clone and the hit (ratelimit.rs:110-118) anything may
\* happen, gc and later requests included: what a refused client is charged with it did
\* request since the refused request's window opened.
THEOREM LimitsAreDeserved == Spec => NoFalseLimit
<1>1. ASSUME Typed, Typed', Counting, [Next]_vars, NEW t \in Threads, Charges(t), Refused(t)
      PROVE  exceeds(SinceWindow(hits', Key(thr[t]), thr[t].now), Key(thr[t]), thr[t].scale)
  <2>1. Hit(t)
    BY <1>1, ChargedByHit
  <2> DEFINE s == SinceWindow(hits', Key(thr[t]), thr[t].now)
             n == Count(HitCounter(heap[thr[t].id], thr[t].now))
             top == Ceiling(Key(thr[t]), thr[t].scale)
  <2>2. n > top /\ top \in Nat /\ n \in Nat /\ s \in Nat /\ n <= s
    BY <1>1, <2>1, Reckoned DEF exceeds
  <2> HIDE DEF s, n, top
  <2>3. s > top
    BY <2>2
  <2> QED BY <2>3 DEF s, top, exceeds
<1>2. Typed /\ Typed' /\ Counting /\ [Next]_vars =>
        [\A t \in Threads : Charges(t) /\ Refused(t) =>
           LET r == thr[t] k == Key(thr[t]) IN
             exceeds(SinceWindow(hits', k, r.now), k, r.scale)]_vars
  BY <1>1
<1> QED BY <1>2, CountingInvariant, PTL DEF Spec, NoFalseLimit

\* A request no other has overtaken between its reading of the clock
\* (ratelimit.rs:75) and its hit is refused exactly when the ceiling says so.
THEOREM VerdictsAreExact == Spec => VerdictExact
<1>1. ASSUME Typed, Typed', Counting, [Next]_vars, NEW t \in Threads, Charges(t),
             clean'[Key(thr[t])]
      PROVE  Refused(t) <=> exceeds(Recent(hits', Key(thr[t]), thr[t].now), Key(thr[t]), thr[t].scale)
  <2>1. Hit(t)
    BY <1>1, ChargedByHit
  <2> QED BY <1>1, <2>1, Reckoned
<1>2. Typed /\ Typed' /\ Counting /\ [Next]_vars =>
        [\A t \in Threads :
           LET r == thr[t] k == Key(thr[t]) IN
             Charges(t) /\ clean'[k] =>
               (Refused(t) <=> exceeds(Recent(hits', k, r.now), k, r.scale))]_vars
  BY <1>1
<1> QED BY <1>2, CountingInvariant, PTL DEF Spec, VerdictExact
=============================================================================
