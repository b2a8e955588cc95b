----------------------------- MODULE RateLimiter -----------------------------
(***************************************************************************)
(* waf-core/src/ratelimit.rs: a per-client sliding window of six ten-      *)
(* second buckets, shared by the proxy's worker threads.                   *)
(*                                                                         *)
(* `check_scaled` reads the wall clock once, then charges the counter of   *)
(* the first matching route and the client's global counter.  Charging a   *)
(* counter takes three steps that other threads can separate: the capacity *)
(* test, the lookup that clones the counter's Arc out of the table, and    *)
(* the hit under the counter's mutex.  The housekeeping thread drops cold  *)
(* counters from the table meanwhile; a thread that already cloned one     *)
(* then charges a counter nobody will look up again.                       *)
(***************************************************************************)
EXTENDS Integers, FiniteSets, FiniteSetsExt

CONSTANTS
  Threads,      \* worker threads that run check_scaled
  Ips,          \* client addresses
  Routes,       \* indices of rate_limit.routes whose pattern a path can match
  Ids,          \* heap addresses of counters
  Seconds,      \* the wall-clock seconds at which something happens
  Scales,       \* the basis points the engine asks for
  Rpm, Burst,   \* [Routes \cup {Global} -> Nat]: ceilings of the configuration
  MaxEntries,   \* 150_000: a larger table takes no new key
  MaxAge,       \* 120: what the housekeeping passes to gc
  U32Max,       \* largest value of a u32
  MaxRequests,  \* model bound: requests in a behaviour
  Global, NoRoute, None

BUCKETS     == 6
BUCKET_SECS == 10
FULL_COUNT  == 999999    \* what bump answers under memory pressure

BucketOf(s) == s \div BUCKET_SECS
Epochs      == { BucketOf(s) : s \in Seconds }
Keys        == (Routes \cup {Global}) \X Ips
Slots       == 0 .. BUCKETS - 1
Counter     == [buckets : [Slots -> Nat], head : Nat]
NewCounter  == [buckets |-> [i \in Slots |-> 0], head |-> 0]

\* The unix epoch is long past, and gc never drops a counter whose window is open.
ASSUME ClockAssumption == /\ Seconds \subseteq Nat /\ Seconds # {} /\ IsFiniteSet(Seconds)
                          /\ \A s \in Seconds : s >= MaxAge + 60
                          /\ MaxAge \in Nat /\ MaxAge >= 120
ASSUME NameAssumption == /\ None \notin Ids /\ Global \notin Routes
                         /\ NoRoute \notin Routes
ASSUME SizeAssumption == /\ IsFiniteSet(Threads) /\ IsFiniteSet(Ips)
                         /\ IsFiniteSet(Routes) /\ MaxEntries \in Nat
                         /\ MaxRequests \in Nat /\ Scales \subseteq Nat
ASSUME CeilingAssumption == /\ Rpm \in [Routes \cup {Global} -> Nat]
                            /\ Burst \in [Routes \cup {Global} -> Nat]
                            /\ U32Max \in Nat

VARIABLES
  clock,   \* SystemTime::now(), in seconds
  entry,   \* the DashMap: which counter a key maps to
  heap,    \* the counters behind the Arcs
  thr,     \* the request each thread works on
  issued,  \* requests begun so far
  hits,    \* history: hits[k][b] = hits charged for key k with a clock reading in bucket b
  clean    \* history: no overtaken request has been charged to this key

vars == <<clock, entry, heap, thr, issued, hits, clean>>

\* Between requests a thread's pc is the verdict of the last one.
Verdicts   == {"ok", "limited"}
Idle(v)    == [pc |-> v, route |-> NoRoute, ip |-> None, scale |-> 0, now |-> 0,
               id |-> None, late |-> {}]
Busy(t)    == thr[t].pc \notin Verdicts

Key(r)     == IF r.route = NoRoute THEN <<Global, r.ip>> ELSE <<r.route, r.ip>>
Tracked    == { k \in Keys : entry[k] # None }
Held(e, th) == { e[k] : k \in Keys } \cup { th[t].id : t \in Threads }
Free       == Ids \ Held(entry, thr)
\* Dropping the last Arc of a counter frees it.
Reclaim(h, e, th) == [i \in Ids |-> IF i \in Held(e, th) THEN h[i] ELSE NewCounter]
Count(c)   == MapThenSumSet(LAMBDA i : c.buckets[i], Slots)

SatAdd(a, b)      == IF a + b > U32Max THEN U32Max ELSE a + b
scale_rpm(rpm, s) == ((rpm * s) \div 10000) % (U32Max + 1)
Ceiling(k, scale) == SatAdd(scale_rpm(Rpm[k[1]], scale), Burst[k[1]])
exceeds(n, k, scale) == n > Ceiling(k, scale)
-----------------------------------------------------------------------------
(* Counter::hit.  Slots of the buckets between the head and now are cleared; *)
(* a now behind the head clears nothing and moves the head back.             *)

Drift(c, now) == IF BucketOf(now) > BucketOf(c.head)
                 THEN BucketOf(now) - BucketOf(c.head) ELSE 0
\* Mutants: the loop stops one bucket short; nothing is cleared; any drift clears all.
PassedShort(c, now, i) == \E d \in 1 .. Drift(c, now) - 1 : (BucketOf(c.head) + d) % BUCKETS = i
PassedNever(c, now, i) == FALSE
PassedAll(c, now, i) == Drift(c, now) > 0

Passed(c, now, i) == \/ Drift(c, now) >= BUCKETS
                     \/ \E d \in 1 .. Drift(c, now) : (BucketOf(c.head) + d) % BUCKETS = i
\* Mutant: a passed slot decays by one instead of being cleared.
ChargedDecay(c, now, i) == c.buckets[i] + (IF i = BucketOf(now) % BUCKETS THEN 1 ELSE 0)
                                        - (IF Passed(c, now, i) THEN 1 ELSE 0)

Charged(c, now, i) == (IF Passed(c, now, i) THEN 0 ELSE c.buckets[i])
                      + (IF i = BucketOf(now) % BUCKETS THEN 1 ELSE 0)
HitCounter(c, now) == [buckets |-> [i \in Slots |-> Charged(c, now, i)], head |-> now]
-----------------------------------------------------------------------------
Init ==
  /\ clock \in Seconds
  /\ entry = [k \in Keys |-> None]
  /\ heap = [i \in Ids |-> NewCounter]
  /\ thr = [t \in Threads |-> Idle("ok")]
  /\ issued = 0
  /\ hits = [k \in Keys |-> [b \in Epochs |-> 0]]
  /\ clean = [k \in Keys |-> TRUE]

Advance ==
  /\ clock' \in { s \in Seconds : s > clock }
  /\ UNCHANGED <<entry, heap, thr, issued, hits, clean>>

\* check_scaled up to the first bump: the clock is read here, once.
Arrive(t) ==
  /\ ~Busy(t) /\ issued < MaxRequests
  /\ \E ip \in Ips, route \in Routes \cup {NoRoute}, bps \in Scales :
       thr' = [thr EXCEPT ![t] =
         [pc |-> "probe", route |-> route, ip |-> ip, now |-> clock, id |-> None,
          scale |-> IF bps < 100 THEN 100 ELSE bps, late |-> {}]]
  /\ issued' = issued + 1
  /\ UNCHANGED <<clock, entry, heap, hits, clean>>

\* After a bump that counted n: the verdict of check_scaled, or its next bump.
AfterBump(r, n) ==
  IF exceeds(n, Key(r), r.scale)
  THEN Idle("limited")
  ELSE IF r.route = NoRoute
       THEN Idle("ok")
       ELSE [r EXCEPT !.pc = "probe", !.id = None, !.route = NoRoute]

\* Mutant: the capacity test is dropped.
ProbeUncapped(t) ==
  /\ thr[t].pc = "probe"
  /\ thr' = [thr EXCEPT ![t].pc = "clone"]
  /\ UNCHANGED <<clock, entry, heap, issued, hits, clean>>

\* bump's capacity test: contains_key, then len.
Probe(t) ==
  /\ thr[t].pc = "probe"
  /\ IF Key(thr[t]) \notin Tracked /\ Cardinality(Tracked) > MaxEntries
     THEN thr' = [thr EXCEPT ![t] = AfterBump(@, FULL_COUNT)]
     ELSE thr' = [thr EXCEPT ![t].pc = "clone"]
  /\ UNCHANGED <<clock, entry, heap, issued, hits, clean>>

\* entry().or_insert_with().clone(), atomic under the shard's lock.
Clone(t) ==
  /\ thr[t].pc = "clone"
  /\ LET k == Key(thr[t]) IN
       \/ /\ entry[k] # None
          /\ thr' = [thr EXCEPT ![t].pc = "hit", ![t].id = entry[k]]
          /\ UNCHANGED entry
       \/ /\ entry[k] = None
          /\ Free # {}
          /\ LET id == CHOOSE i \in Free : TRUE IN
               /\ entry' = [entry EXCEPT ![k] = id]
               /\ thr' = [thr EXCEPT ![t].pc = "hit", ![t].id = id]
  /\ UNCHANGED <<clock, heap, issued, hits, clean>>

\* History: thread u is late on key k once k was charged in a later bucket than
\* u's clock reading, or dropped, since that reading.
Outrun(u, now) == Busy(u) /\ BucketOf(thr[u].now) < BucketOf(now)
MarkLate(u, k) == [thr[u] EXCEPT !.late = @ \cup {k}]

\* Counter::hit under the mutex, and what check_scaled makes of the count.
Hit(t) ==
  /\ thr[t].pc = "hit"
  /\ LET r == thr[t]
         k == Key(r)
         c == HitCounter(heap[r.id], r.now) IN
       /\ hits' = [hits EXCEPT ![k][BucketOf(r.now)] = @ + 1]
       /\ clean' = [clean EXCEPT ![k] = @ /\ k \notin r.late]
       /\ thr' = [u \in Threads |->
            IF u = t THEN AfterBump(r, Count(c))
            ELSE IF Outrun(u, r.now) THEN MarkLate(u, k) ELSE thr[u]]
       /\ heap' = Reclaim([heap EXCEPT ![r.id] = c], entry, thr')
  /\ UNCHANGED <<clock, entry, issued>>

\* gc's retain on one key.  A clone taken before stays charged by its holder alone.
\* Mutant: gc drops a counter whose window is still open.
ColdEarly(k) == clock - heap[entry[k]].head >= 50

Cold(k) == clock - heap[entry[k]].head >= MaxAge
Gc(k) ==
  /\ entry[k] # None /\ Cold(k)
  /\ entry' = [entry EXCEPT ![k] = None]
  /\ thr' = [u \in Threads |-> IF Busy(u) THEN MarkLate(u, k) ELSE thr[u]]
  /\ heap' = Reclaim(heap, entry', thr)
  /\ UNCHANGED <<clock, issued, hits, clean>>

Next ==
  \/ Advance
  \/ \E t \in Threads : Arrive(t) \/ Probe(t) \/ Clone(t) \/ Hit(t)
  \/ \E k \in Keys : Gc(k)

Spec == Init /\ [][Next]_vars
-----------------------------------------------------------------------------
Request == [pc : Verdicts \cup {"probe", "clone", "hit"}, route : Routes \cup {NoRoute},
            ip : Ips \cup {None}, scale : Nat, now : Nat, id : Ids \cup {None},
            late : SUBSET Keys]

\* Types of the state.
TypeOK ==
  /\ clock \in Seconds
  /\ entry \in [Keys -> Ids \cup {None}]
  /\ heap \in [Ids -> Counter]
  /\ thr \in [Threads -> Request]
  /\ issued \in Nat
  /\ hits \in [Keys -> [Epochs -> Nat]]
  /\ clean \in [Keys -> BOOLEAN]

InWindow(b, head) == head - BUCKETS < b /\ b <= head

\* A counter that was only ever charged by requests that were not overtaken holds,
\* slot by slot, the hits of its key in the current bucket and the five before it
\* (the window the module comment, ratelimit.rs:3-5, promises), and forgets none:
\* clearing on drift, the default head of a new counter and gc never cost it a hit.
Exact(k, c) ==
  \A b \in Epochs :
    /\ InWindow(b, BucketOf(c.head)) => c.buckets[b % BUCKETS] = hits[k][b]
    /\ b > BucketOf(c.head) => hits[k][b] = 0 \/ c.head = 0
WindowExact == \A k \in Keys : clean[k] /\ entry[k] # None => Exact(k, heap[entry[k]])

\* A key with no counter, or a new one, has no hit in the window that is open now:
\* gc only forgets what a limit could no longer see (ratelimit.rs:122-129).
ColdSince(k, s) == \A b \in Epochs : hits[k][b] > 0 => b <= BucketOf(s) - BUCKETS
ForgottenIsCold ==
  \A k \in Keys :
    clean[k] /\ (entry[k] = None \/ heap[entry[k]].head = 0) => ColdSince(k, clock)

\* The table outgrows its cap only by the threads that passed the capacity test
\* before it filled (ratelimit.rs:110 tests, ratelimit.rs:113 inserts).
TableBounded == Cardinality(Tracked) <= MaxEntries + Cardinality(Threads)

\* What really was requested: hits of k in the buckets of from, counted from the
\* request's own hit.
HitsIn(h, k, from) == MapThenSumSet(LAMBDA b : h[k][b], { b \in Epochs : b \in from })
Recent(h, k, now)  == HitsIn(h, k, { b \in Epochs : InWindow(b, BucketOf(now)) })
SinceWindow(h, k, now) == HitsIn(h, k, { b \in Epochs : b > BucketOf(now) - BUCKETS })
Charges(t) == thr[t].pc = "hit" /\ thr'[t].pc # "hit"
Refused(t) == thr'[t].pc = "limited"

\* Whatever the interleaving, a counted refusal is deserved: the key really was
\* charged more often than its ceiling since the request's window opened.
NoFalseLimit ==
  [][\A t \in Threads : Charges(t) /\ Refused(t) =>
       LET r == thr[t] k == Key(thr[t]) IN
         exceeds(SinceWindow(hits', k, r.now), k, r.scale)]_vars

\* A request that was not overtaken is refused exactly when its key's last six
\* buckets exceed the ceiling: neither gc nor a concurrent request lets it slip.
VerdictExact ==
  [][\A t \in Threads :
       LET r == thr[t] k == Key(thr[t]) IN
         Charges(t) /\ clean'[k] =>
           (Refused(t) <=> exceeds(Recent(hits', k, r.now), k, r.scale))]_vars
==============================================================================
