------------------------------- MODULE InFlight -------------------------------
(***************************************************************************)
(* Requests in flight: waf-core/src/connections.rs (per address), the      *)
(* in-flight half of waf-core/src/subnet.rs, the door and the per-address  *)
(* cap of waf-core/src/engine.rs, and the places in waf-proxy/src/proxy.rs *)
(* that count a request in and out.                                        *)
(*                                                                         *)
(* A request is worked on by one of the proxy's threads from the door to   *)
(* the verdict and again in `logging`; in between it waits for the client  *)
(* or the upstream and occupies no thread.  Pingora calls `logging` once   *)
(* for every request.                                                      *)
(***************************************************************************)
EXTENDS Integers, Sequences, FiniteSets

CONSTANTS
  Requests,    \* requests of a behaviour (model bound)
  Ips, Subnets,
  SubnetOf,    \* [Ips -> Subnets]: subnet_key
  Order,       \* a sequence of all Ips: the order in which total() walks the table
  Threads,     \* number of worker threads
  GlobalCap,   \* global_inflight_cap, 0 when off
  IpCap,       \* max_concurrent_per_ip, 0 when off
  MaxEntries,  \* 150_000: a larger table takes no new address
  None

ASSUME RequestAssumption == IsFiniteSet(Requests)
ASSUME NetAssumption     == SubnetOf \in [Ips -> Subnets] /\ Order \in Seq(Ips) \ {<<>>}
ASSUME OrderAssumption   == \A ip \in Ips : \E i \in 1 .. Len(Order) : Order[i] = ip
ASSUME CapAssumption     == /\ GlobalCap \in Nat /\ IpCap \in Nat /\ None \notin Int
                            /\ Threads \in Nat

VARIABLES
  cnt,       \* ConnTracker.inner: [Ips -> Int, or None when untracked]
  sub,       \* SubnetTracker.in_flight: [Subnets -> Int, or None when untracked]
  pc,        \* where each request is
  addr,      \* each request's client address
  at, sum,   \* total(): counters read so far and their sum
  admitted,  \* the requests in flight that the connection cap let through
  spilled    \* history: requests that went uncounted because the table was full

door == <<at, sum>>
vars == <<cnt, sub, pc, addr, at, sum, admitted, spilled>>

OnThread    == { r \in Requests : pc[r] \notin {"new", "flight", "done"} }
Go(r, from, to) == pc[r] = from /\ pc' = [pc EXCEPT ![r] = to] /\ UNCHANGED addr
Tracked     == { ip \in Ips : cnt[ip] # None }
current(ip) == IF cnt[ip] = None THEN 0 ELSE cnt[ip]
\* A store of 0 is still to come for this address; its shard is locked until then.
Locked(ip)  == \E q \in Requests : pc[q] = "zero" /\ addr[q] = ip
-----------------------------------------------------------------------------
Init ==
  /\ cnt = [ip \in Ips |-> None]
  /\ sub = [s \in Subnets |-> None]
  /\ pc = [r \in Requests |-> "new"]
  /\ addr \in [Requests -> Ips]
  /\ at = [r \in Requests |-> 0] /\ sum = [r \in Requests |-> 0]
  /\ admitted = {} /\ spilled = {}

\* A thread takes up a request; at_capacity starts, unless the cap is off.
Arrive(r) ==
  /\ Cardinality(OnThread) < Threads
  /\ Go(r, "new", IF GlobalCap = 0 THEN "get" ELSE "scan")
  /\ UNCHANGED <<cnt, sub, door, admitted, spilled>>

\* Mutant: an off-by-one at the door.
DoorOpenWide(n) == n <= GlobalCap

DoorOpen(n) == n < GlobalCap

\* total() reads one counter after the other while others move on ...
Scan(r) ==
  /\ at[r] < Len(Order)
  /\ at' = [at EXCEPT ![r] = @ + 1]
  /\ sum' = [sum EXCEPT ![r] = @ + current(Order[at[r] + 1])]
  /\ Go(r, "scan", "scan")
  /\ UNCHANGED <<cnt, sub, admitted, spilled>>

\* ... and the door opens or not: 503.
Door(r) ==
  /\ at[r] = Len(Order)
  /\ Go(r, "scan", IF DoorOpen(sum[r]) THEN "get" ELSE "done")
  /\ at' = [at EXCEPT ![r] = 0] /\ sum' = [sum EXCEPT ![r] = 0]
  /\ UNCHANGED <<cnt, sub, admitted, spilled>>

\* ConnTracker::inc: the address is in the table ...
IncGet(r) ==
  /\ IF addr[r] \in Tracked
     THEN cnt' = [cnt EXCEPT ![addr[r]] = @ + 1] /\ Go(r, "get", "subinc")
     ELSE UNCHANGED cnt /\ Go(r, "get", "len")
  /\ UNCHANGED <<sub, door, admitted, spilled>>

\* ... or the table may have room for it; the caller ignores what inc returns ...
IncLen(r) ==
  /\ IF Cardinality(Tracked) > MaxEntries
     THEN Go(r, "len", "subinc") /\ spilled' = spilled \cup {r}
     ELSE Go(r, "len", "insert") /\ UNCHANGED spilled
  /\ UNCHANGED <<cnt, sub, door, admitted>>

\* Mutant: the entry starts anew although another thread inserted it meanwhile.
InsertedAnew(ip) == 1

Inserted(ip) == current(ip) + 1

\* ... and goes in.
IncInsert(r) ==
  /\ ~Locked(addr[r])
  /\ cnt' = [cnt EXCEPT ![addr[r]] = Inserted(addr[r])]
  /\ Go(r, "insert", "subinc")
  /\ UNCHANGED <<sub, door, admitted, spilled>>

SubInc(r) ==
  /\ sub' = [sub EXCEPT ![SubnetOf[addr[r]]] = IF @ = None THEN 1 ELSE @ + 1]
  /\ Go(r, "subinc", "eval")
  /\ UNCHANGED <<cnt, door, admitted, spilled>>

\* Mutant: an off-by-one in the per-address cap.
OverIpCapLate(ip) == IpCap > 0 /\ current(ip) > IpCap + 1

OverIpCap(ip) == IpCap > 0 /\ current(ip) > IpCap

\* The connection cap of evaluate.  Reserved endpoints and allow-listed clients
\* return before it and are served without being admitted through it.
Evaluate(r) ==
  /\ Go(r, "eval", "flight")
  /\ admitted' \in {admitted, IF OverIpCap(addr[r]) THEN admitted ELSE admitted \cup {r}}
  /\ UNCHANGED <<cnt, sub, door, spilled>>

\* The exchange is over, however it ended: pingora calls logging.
Finish(r) ==
  /\ Cardinality(OnThread) < Threads
  /\ Go(r, "flight", "dec")
  /\ UNCHANGED <<cnt, sub, door, admitted, spilled>>

\* Mutant: a request is not counted out.
DecNoop(r) ==
  /\ Go(r, "dec", "subdec") /\ admitted' = admitted \ {r}
  /\ UNCHANGED <<cnt, sub, door, spilled>>

\* Mutant: a count below zero is not corrected.
DecUnsaturated(r) ==
  /\ IF addr[r] \in Tracked THEN cnt' = [cnt EXCEPT ![addr[r]] = @ - 1] ELSE UNCHANGED cnt
  /\ Go(r, "dec", "subdec") /\ admitted' = admitted \ {r}
  /\ UNCHANGED <<sub, door, spilled>>

\* ConnTracker::dec: fetch_sub, then a separate store when the count was not positive.
Dec(r) ==
  /\ IF addr[r] \in Tracked
     THEN /\ cnt' = [cnt EXCEPT ![addr[r]] = @ - 1]
          /\ Go(r, "dec", IF cnt[addr[r]] <= 0 THEN "zero" ELSE "subdec")
     ELSE UNCHANGED cnt /\ Go(r, "dec", "subdec")
  /\ admitted' = admitted \ {r}
  /\ UNCHANGED <<sub, door, spilled>>

DecStore(r) ==
  /\ cnt' = [cnt EXCEPT ![addr[r]] = 0]
  /\ Go(r, "zero", "subdec")
  /\ UNCHANGED <<sub, door, admitted, spilled>>

\* Mutant: a request is counted out of its address only.
SubDecForgotten(r) ==
  Go(r, "subdec", "done") /\ UNCHANGED <<cnt, sub, door, admitted, spilled>>

\* dec_inflight; its store of 0 would only follow a count that was not positive.
SubDec(r) ==
  /\ sub' = [sub EXCEPT ![SubnetOf[addr[r]]] =
               IF @ = None THEN None ELSE IF @ > 0 THEN @ - 1 ELSE 0]
  /\ Go(r, "subdec", "done")
  /\ UNCHANGED <<cnt, door, admitted, spilled>>

Idle(n) == n <= 0

\* The housekeeping sweeps of the two tables.
Gc(ip) ==
  /\ ip \in Tracked /\ Idle(cnt[ip]) /\ ~Locked(ip)
  /\ cnt' = [cnt EXCEPT ![ip] = None]
  /\ UNCHANGED <<sub, pc, addr, door, admitted, spilled>>
SubGc(s) ==
  /\ sub[s] # None /\ Idle(sub[s])
  /\ sub' = [sub EXCEPT ![s] = None]
  /\ UNCHANGED <<cnt, pc, addr, door, admitted, spilled>>

Next ==
  \/ \E r \in Requests :
       \/ Arrive(r) \/ Scan(r) \/ Door(r) \/ IncGet(r) \/ IncLen(r) \/ IncInsert(r)
       \/ SubInc(r) \/ Evaluate(r) \/ Finish(r) \/ Dec(r) \/ DecStore(r) \/ SubDec(r)
  \/ \E ip \in Ips : Gc(ip)
  \/ \E s \in Subnets : SubGc(s)

Spec == Init /\ [][Next]_vars
-----------------------------------------------------------------------------
PCs == {"new", "scan", "get", "len", "insert", "subinc", "eval", "flight", "dec", "zero",
        "subdec", "done"}
\* Types of the state.  A counter may be below zero between dec's two steps, and then a
\* store of 0 is always still to come for it (connections.rs:30-31): no interleaving of
\* inc, dec and gc leaves an address with requests to its credit.
TypeOK ==
  /\ cnt \in [Ips -> Int \cup {None}]
  /\ \A ip \in Ips : cnt[ip] \in Nat \cup {None} \/ Locked(ip)
  /\ sub \in [Subnets -> Nat \cup {None}]
  /\ pc \in [Requests -> PCs]
  /\ addr \in [Requests -> Ips]
  /\ at \in [Requests -> 0 .. Len(Order)]
  /\ sum \in [Requests -> Int]
  /\ admitted \subseteq Requests
  /\ spilled \subseteq Requests

Inside(r)      == pc[r] \in {"subinc", "eval", "flight", "dec"}
InsideOf(ip)   == { r \in Requests : Inside(r) /\ addr[r] = ip }
SubInside(s)   == { r \in Requests : /\ pc[r] \in {"eval", "flight", "dec", "zero", "subdec"}
                                     /\ SubnetOf[addr[r]] = s }
AdmittedOf(ip) == { r \in admitted : addr[r] = ip }

\* As long as the table had room, every address is counted exactly: no interleaving of
\* inc's three steps, dec's two and gc loses a request or leaves a phantom.
CountExact == spilled = {} => \A ip \in Ips : current(ip) = Cardinality(InsideOf(ip))

\* Even when requests went uncounted, no counter shows more than is in flight: a client
\* is never turned away because of requests that are long over (connections.rs:26-33).
NoPhantom == \A ip \in Ips : current(ip) <= Cardinality(InsideOf(ip))

\* The subnet counters, which have no cap on their table, are always exact.
SubnetExact == \A s \in Subnets :
  (IF sub[s] = None THEN 0 ELSE sub[s]) = Cardinality(SubInside(s))

\* Counting in before the cap is read (proxy.rs:62, engine.rs:228) makes the cap hold:
\* never are more requests of one address admitted through it at a time.
AdmittedWithinCap ==
  spilled = {} /\ IpCap > 0 => \A ip \in Ips : Cardinality(AdmittedOf(ip)) <= IpCap

\* "Hard upper bound on global in-flight requests" (runtime.rs:31-33): the door is read
\* before the request is counted, so the threads at the door come on top.
GlobalCeiling ==
  spilled = {} /\ GlobalCap > 0 =>
    Cardinality({ r \in Requests : Inside(r) }) <= GlobalCap - 1 + Threads

\* "Map is full; fail-closed to protect memory" (connections.rs:20): a request the table
\* has no room for is not admitted through the cap.
FullTableFailsClosed == IpCap > 0 => admitted \cap spilled = {}
==============================================================================
