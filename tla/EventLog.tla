------------------------------ MODULE EventLog ------------------------------
(***************************************************************************)
(* waf-core/src/events.rs: the ring of recent decisions, and the live      *)
(* stream that reads it (waf-proxy/src/admin.rs, stream_events).  A thread *)
(* takes its timestamp before it takes the ring's lock, so events may lie  *)
(* in the ring in another order than their timestamps say; the stream asks *)
(* once a second for what is newer than the last timestamp it was given.   *)
(***************************************************************************)
EXTENDS Naturals, Sequences, FiniteSets

CONSTANTS
  Workers,   \* the proxy's threads
  Ids,       \* events; each is recorded once
  Cap,       \* DEFAULT_CAP
  Batch,     \* how many events a round of the stream sends: 200
  MaxTime,   \* model bound: the last clock reading
  None

Times == 1 .. MaxTime
Event == [id : Ids, ts : Times]

EventLogAssumption == Cap \in Nat \ {0} /\ Batch \in Nat \ {0} /\ None \notin Event

VARIABLES
  now,      \* the clock, in milliseconds
  built,    \* the event each thread has stamped and not yet recorded
  ring,     \* inner: oldest first
  evicted,  \* history: what the ring held before
  open,     \* is a dashboard connected?
  last,     \* last_event_ts of its stream
  sent      \* history: how often an event went down this stream

vars == <<now, built, ring, evicted, open, last, sent>>

Log      == evicted \o ring      \* all that was ever recorded, in that order
Recorded == { Log[p].id : p \in DOMAIN Log }
Held     == { built[w].id : w \in { v \in Workers : built[v] # None } }

Init ==
  /\ now = 1 /\ built = [w \in Workers |-> None]
  /\ ring = <<>> /\ evicted = <<>>
  /\ open = FALSE /\ last = 0 /\ sent = [i \in Ids |-> 0]

\* EventLog::record: the stamp ...
Stamp(w, id) ==
  /\ built[w] = None /\ id \notin Recorded \cup Held
  /\ built' = [built EXCEPT ![w] = [id |-> id, ts |-> now]]
  /\ UNCHANGED <<now, ring, evicted, open, last, sent>>

RingFullLate == Len(ring) > Cap       \* mutant: room is made when there was none
RingFull     == Len(ring) = Cap

\* ... and the push, under the lock.
Push(w) ==
  /\ built[w] # None
  /\ ring' = Append(IF RingFull THEN Tail(ring) ELSE ring, built[w])
  /\ evicted' = IF RingFull THEN Append(evicted, Head(ring)) ELSE evicted
  /\ built' = [built EXCEPT ![w] = None]
  /\ UNCHANGED <<now, open, last, sent>>

\* The places of the ring whose events are newer, and the first n of them.
Newer(ts)  == { p \in DOMAIN ring : ring[p].ts > ts }
Upto(S, n) == { p \in S : Cardinality({ q \in S : q <= p }) <= n }
sinceOrAt(ts, n) ==        \* mutant: the last timestamp is asked for again
  Upto({ p \in DOMAIN ring : ring[p].ts >= ts }, n)
since(ts, n) == Upto(Newer(ts), n)

Connect ==
  /\ ~open /\ open' = TRUE
  /\ last' = 0 /\ sent' = [i \in Ids |-> 0]
  /\ UNCHANGED <<now, built, ring, evicted>>

\* One round of stream_events.  The events are sent or the connection is over.
Round ==
  /\ open
  /\ LET evs == since(last, Batch) IN
       /\ \/ evs = {} /\ UNCHANGED last
          \/ \E p \in evs : (\A q \in evs : q <= p) /\ last' = ring[p].ts
       /\ sent' = [i \in Ids |-> sent[i] + Cardinality({ p \in evs : ring[p].id = i })]
  /\ UNCHANGED <<now, built, ring, evicted, open>>

\* The connection is over, and what its task knew is gone.
Disconnect == /\ open /\ open' = FALSE /\ last' = 0 /\ sent' = [i \in Ids |-> 0]
              /\ UNCHANGED <<now, built, ring, evicted>>

\* The process ends and starts again.
Restart ==
  /\ built' = [w \in Workers |-> None] /\ ring' = <<>> /\ evicted' = <<>>
  /\ open' = FALSE /\ last' = 0 /\ sent' = [i \in Ids |-> 0]
  /\ UNCHANGED now

TimePasses == now < MaxTime /\ now' = now + 1
              /\ UNCHANGED <<built, ring, evicted, open, last, sent>>

Next == \/ \E w \in Workers : Push(w) \/ \E id \in Ids : Stamp(w, id)
        \/ Connect \/ Round \/ Disconnect \/ Restart \/ TimePasses
Spec == Init /\ [][Next]_vars
-----------------------------------------------------------------------------
TypeOK ==
  /\ now \in Times /\ built \in [Workers -> Event \cup {None}]
  /\ ring \in Seq(Event) /\ Len(ring) <= Cap /\ evicted \in Seq(Event)
  /\ open \in BOOLEAN /\ last \in 0 .. MaxTime /\ sent \in [Ids -> Nat]

(* events.rs:100-104, admin.rs:617-623: the stream shows an event twice    *)
(* only when another one, stamped earlier, was recorded after it; and it   *)
(* passes over an event of the ring only when one recorded before it had   *)
(* as late a stamp.  All other events are shown once, however slow, full   *)
(* or cut in batches the rounds are.                                       *)
StreamExact ==
  \A p \in DOMAIN Log :
    /\ sent[Log[p].id] > 1 => \E q \in p + 1 .. Len(Log) : Log[q].ts < Log[p].ts
    /\ open /\ p > Len(evicted) /\ Log[p].ts <= last /\ sent[Log[p].id] = 0
         => \E q \in 1 .. p - 1 : Log[q].ts >= Log[p].ts
=============================================================================
