------------------------------- MODULE Storage -------------------------------
(***************************************************************************)
(* waf-core/src/storage.rs: the persistent event store.  Proxy threads     *)
(* hand events to a channel that has no bound of its own, one writer task  *)
(* takes them out and commits them in batches.  The length of the line is  *)
(* estimated from two counters that every thread loads one after the other *)
(* and adds to in a third step, so several may see the last place free.    *)
(*                                                                         *)
(* The counters are relaxed atomics; a load is modelled as a read of the   *)
(* latest value.  Nobody sees a flush in the middle: it is one step.       *)
(***************************************************************************)
EXTENDS Naturals, Sequences, FiniteSets

CONSTANTS
  Workers,      \* the proxy's threads
  Ids,          \* events; each is handed over once
  MaxQueue,     \* MAX_QUEUE
  FlushBatch,   \* FLUSH_BATCH
  Retention,    \* how long a row is kept
  MaxTime,      \* model bound: the last clock reading
  None

Times  == 1 .. MaxTime
Events == [id : Ids, ts : Times]

StorageAssumption ==
  /\ IsFiniteSet(Workers) /\ None \notin Events
  /\ MaxQueue \in Nat /\ FlushBatch \in Nat \ {0} /\ Retention \in Nat /\ MaxTime \in Nat \ {0}

VARIABLES
  now,       \* the clock
  sink,      \* "off": not attached, "up", "down": attached, its writer has ended
  at,        \* where each thread is in submit
  ev,        \* the event it has built
  saw,       \* what it loaded of queued
  queued, drained,   \* Sink's estimate of the line
  written, dropped,  \* StorageStats
  queue,     \* the channel
  buf,       \* the writer's batch
  rows,      \* the table, on disk
  given      \* history: events handed over

counters == <<queued, drained, written, dropped>>
thread   == <<at, ev, saw>>
task     == <<sink, queue, buf, rows>>
vars     == <<now, thread, counters, task, given>>

Elems(s) == { s[i] : i \in DOMAIN s }

Init ==
  /\ now = 1 /\ sink = "off"
  /\ at = [w \in Workers |-> "idle"] /\ ev = [w \in Workers |-> None]
  /\ saw = [w \in Workers |-> 0]
  /\ queued = 0 /\ drained = 0 /\ written = 0 /\ dropped = 0
  /\ queue = <<>> /\ buf = <<>> /\ rows = {} /\ given = {}
-----------------------------------------------------------------------------
(* The threads: the second half of Engine::finalize, then Sink::submit.    *)

\* The event gets a stamp of its own, then the length of the line is loaded ...
Submit(w, id) ==
  /\ at[w] = "idle" /\ id \in Ids \ given
  /\ given' = given \cup {id}
  /\ IF sink = "off" THEN UNCHANGED thread
     ELSE /\ at' = [at EXCEPT ![w] = "loaded"]
          /\ ev' = [ev EXCEPT ![w] = [id |-> id, ts |-> now]]
          /\ saw' = [saw EXCEPT ![w] = queued]
  /\ UNCHANGED <<now, counters, task>>

Finished(w) == /\ at' = [at EXCEPT ![w] = "idle"] /\ ev' = [ev EXCEPT ![w] = None]
               /\ saw' = [saw EXCEPT ![w] = 0]

\* ... against what has been drained of it ...
FullLate(n) == n > drained + MaxQueue + 1    \* mutant
Full(n) == n > drained /\ n - drained > MaxQueue
Judge(w) ==
  /\ at[w] = "loaded"
  /\ IF Full(saw[w]) THEN Finished(w) /\ dropped' = dropped + 1
     ELSE at' = [at EXCEPT ![w] = "add"] /\ UNCHANGED <<ev, saw, dropped>>
  /\ UNCHANGED <<now, queued, drained, written, task, given>>

\* ... then it is added to ...
Add(w) ==
  /\ at[w] = "add"
  /\ queued' = queued + 1
  /\ at' = [at EXCEPT ![w] = "send"]
  /\ UNCHANGED <<now, ev, saw, drained, written, dropped, task, given>>

\* ... and the event sent, unless nobody receives any more.
Send(w) ==
  /\ at[w] = "send" /\ Finished(w)
  /\ IF sink = "up" THEN queue' = Append(queue, ev[w]) /\ UNCHANGED dropped
                    ELSE dropped' = dropped + 1 /\ UNCHANGED queue
  /\ UNCHANGED <<now, queued, drained, written, sink, buf, rows, given>>
-----------------------------------------------------------------------------
(* The writer task.                                                        *)

\* StorageService opens the database, spawns the writer and attaches the sink.  A
\* writer that cannot open it once more ends at once.
Open == sink = "off" /\ sink' \in {"up", "down"} /\ UNCHANGED <<now, thread, counters, queue, buf, rows, given>>

\* Mutant: only the rows that were stored are taken off the estimate.
FlushKept(b, q) ==
  \E kept \in SUBSET Elems(b) :
    /\ rows' = rows \cup kept
    /\ written' = written + Len(b) /\ drained' = drained + Cardinality(kept)
    /\ buf' = <<>> /\ queue' = q /\ UNCHANGED sink

\* A batch b is written while q waits.  A row that fails is skipped and counted as
\* written; a transaction that fails ends the task, and with it the channel.
Flush(b, q) ==
  \/ /\ \E kept \in SUBSET Elems(b) : rows' = rows \cup kept
     /\ written' = written + Len(b) /\ drained' = drained + Len(b)
     /\ buf' = <<>> /\ queue' = q
     /\ UNCHANGED sink
  \/ /\ sink' = "down" /\ buf' = <<>> /\ queue' = <<>>
     /\ UNCHANGED <<rows, written, drained>>

Receive ==
  /\ sink = "up" /\ queue # <<>>
  /\ LET b == Append(buf, Head(queue)) IN
       IF Len(b) >= FlushBatch THEN Flush(b, Tail(queue))
       ELSE buf' = b /\ queue' = Tail(queue) /\ UNCHANGED <<sink, rows, written, drained>>
  /\ UNCHANGED <<now, thread, queued, dropped, given>>

FlushTick ==
  /\ sink = "up" /\ buf # <<>> /\ Flush(buf, queue)
  /\ UNCHANGED <<now, thread, queued, dropped, given>>

\* The retention sweep, whose errors are ignored.
Purge ==
  /\ sink = "up"
  /\ rows' = { r \in rows : r.ts + Retention >= now }
  /\ UNCHANGED <<now, thread, counters, sink, queue, buf, given>>

\* The process ends, in whatever order, and starts again: only the file is left.
Restart ==
  /\ sink' = "off" /\ at' = [w \in Workers |-> "idle"]
  /\ ev' = [w \in Workers |-> None] /\ saw' = [w \in Workers |-> 0]
  /\ queued' = 0 /\ drained' = 0 /\ written' = 0 /\ dropped' = 0
  /\ queue' = <<>> /\ buf' = <<>>
  /\ UNCHANGED <<now, rows, given>>

TimePasses == now < MaxTime /\ now' = now + 1 /\ UNCHANGED <<thread, counters, task, given>>

Step(w) == Judge(w) \/ Add(w) \/ Send(w)
Write   == Receive \/ FlushTick
Next == \/ \E w \in Workers : Step(w) \/ \E id \in Ids : Submit(w, id)
        \/ Open \/ Write \/ Purge \/ Restart \/ TimePasses
Spec == Init /\ [][Next]_vars
-----------------------------------------------------------------------------
TypeOK ==
  /\ now \in Times /\ sink \in {"off", "up", "down"}
  /\ at \in [Workers -> {"idle", "loaded", "add", "send"}]
  /\ ev \in [Workers -> Events \cup {None}] /\ saw \in [Workers -> Nat]
  /\ \A w \in Workers : at[w] # "idle" => ev[w] \in Events
  /\ queued \in Nat /\ drained \in Nat /\ written \in Nat /\ dropped \in Nat
  /\ queue \in Seq(Events) /\ buf \in Seq(Events)
  /\ rows \subseteq Events /\ given \subseteq Ids

(* storage.rs:1-13: the store is a line in which no more events wait than  *)
(* the bound and one for each thread, written in order and none twice.     *)
Abstract == INSTANCE LossyLog WITH
  Limit <- MaxQueue + Cardinality(Workers), open <- sink = "up",
  waiting <- buf \o queue, stored <- rows, refused <- dropped
KeepsPromise == Abstract!Spec
=============================================================================
