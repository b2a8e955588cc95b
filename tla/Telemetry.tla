------------------------------ MODULE Telemetry ------------------------------
(***************************************************************************)
(* What is kept of a request: Engine::finalize (waf-core/src/engine.rs)    *)
(* records it in the ring of recent decisions and then hands a second copy *)
(* to the event store.  The composition of EventLog and Storage, which     *)
(* share the clock and the threads and end with the same process.          *)
(***************************************************************************)
EXTENDS Naturals, Sequences, FiniteSets

CONSTANTS Workers, Ids, Cap, Batch, MaxQueue, FlushBatch, Retention, MaxTime, None

VARIABLES
  now,
  built, ring, evicted, open, last, sent,             \* EventLog
  sink, at, ev, saw, queued, drained, written, dropped,
  queue, buf, rows, given,                            \* Storage
  copy       \* the event each thread has still to hand to the store

Log   == INSTANCE EventLog
Store == INSTANCE Storage

ASSUME TelemetryAssumption == Log!EventLogAssumption /\ Store!StorageAssumption

logVars   == <<built, ring, evicted, open, last, sent>>
storeVars == <<sink, at, ev, saw, queued, drained, written, dropped, queue, buf, rows, given>>
vars      == <<now, logVars, storeVars, copy>>

Init == Log!Init /\ Store!Init /\ copy = [w \in Workers |-> None]

Free(w) == built[w] = None /\ copy[w] = None /\ at[w] = "idle"

\* EventLog::record, by a thread that has reached a verdict on a new request.  Events
\* are told apart by their names and by nothing else: which one is next is of no account.
Unused == Ids \ (Log!Recorded \cup Log!Held \cup given \cup { copy[v] : v \in Workers })
Finalize(w, id) == /\ Free(w) /\ id \in Unused /\ id = (CHOOSE i \in Unused : TRUE)
                   /\ Log!Stamp(w, id)
                   /\ UNCHANGED <<storeVars, copy>>
Record(w) == /\ Log!Push(w) /\ copy' = [copy EXCEPT ![w] = built[w].id]
             /\ UNCHANGED storeVars
\* Then the sink, if one is attached.
Mirror(w) == /\ copy[w] # None /\ Store!Submit(w, copy[w])
             /\ copy' = [copy EXCEPT ![w] = None]
             /\ UNCHANGED logVars
SinkStep(w) == Store!Step(w) /\ UNCHANGED <<logVars, copy>>

StreamStep == (Log!Connect \/ Log!Round \/ Log!Disconnect) /\ UNCHANGED <<storeVars, copy>>
WriterStep == (Store!Open \/ Store!Write \/ Store!Purge) /\ UNCHANGED <<logVars, copy>>
Restart    == Log!Restart /\ Store!Restart /\ copy' = [w \in Workers |-> None]
TimePasses == Log!TimePasses /\ UNCHANGED <<storeVars, copy>>

Next == \/ \E w \in Workers : \/ \E id \in Ids : Finalize(w, id)
                              \/ Record(w) \/ Mirror(w) \/ SinkStep(w)
        \/ StreamStep \/ WriterStep \/ Restart \/ TimePasses

\* Threads and the writer's task are scheduled; so are the intervals of one second.
Fairness ==
  /\ \A w \in Workers : WF_vars(Record(w) \/ Mirror(w) \/ SinkStep(w))
  /\ WF_vars(Store!Write /\ UNCHANGED <<logVars, copy>>)
  /\ WF_vars(Log!Round /\ UNCHANGED <<storeVars, copy>>)
Spec == Init /\ [][Next]_vars /\ Fairness
-----------------------------------------------------------------------------
(* The state of both components and of the threads between them.           *)
TypeOK == /\ Log!TypeOK /\ Store!TypeOK
          /\ copy \in [Workers -> Ids \cup {None}]
          /\ \A w \in Workers : Cardinality({ x \in {built[w], copy[w], ev[w]} : x # None }) <= 1

(* events.rs:100-104: what the live stream repeats or leaves out.          *)
StreamExact == Log!StreamExact

(* storage.rs:1-13: the store as a bounded line that may lose events.      *)
KeepsPromise == Store!KeepsPromise

(* While the writer's task lives, what was accepted gets to it however the *)
(* threads raced: the line empties and the estimate of its length returns  *)
(* to zero, so that no event counted twice or never makes the store refuse *)
(* later ones.  A dashboard that stays connected is sent what the ring     *)
(* holds, up to the last timestamp in it.                                  *)
CatchesUp ==
  /\ <>[](sink = "up") => <>[](queue = <<>> /\ buf = <<>> /\ queued = drained)
  /\ <>[]open => <>[](\A i \in DOMAIN ring : ring[i].ts <= last \/ sent[ring[i].id] > 0)
=============================================================================
