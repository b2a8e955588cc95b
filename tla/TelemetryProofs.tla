--------------------------- MODULE TelemetryProofs ---------------------------
(* Proofs about Telemetry and its two parts, the live stream's EventLog and *)
(* the event store's Storage, for any number of threads and events and any  *)
(* bounds.                                                                  *)
EXTENDS Telemetry, TLAPS, SequenceTheorems, FiniteSetTheorems

Waiting == buf \o queue
Sending == { w \in Workers : at[w] = "send" }

\* The threads that will add to the line although v events were ever queued.
Committed(v) == { w \in Workers : at[w] = "add" \/ (at[w] = "loaded" /\ saw[w] <= v) }

\* Without a writer there is nothing in flight, without the service nobody in submit.
Quiet ==
  /\ sink = "off" => queued = 0 /\ drained = 0 /\ \A w \in Workers : at[w] = "idle"
  /\ sink # "up" => buf = <<>> /\ queue = <<>>

\* The two counters measure the line and the threads about to lengthen it.
Counted == sink = "up" => Len(Waiting) + Cardinality(Sending) + drained = queued

\* Whatever length a thread has seen, no more follow it than there are threads.
Bounded ==
  \A v \in Nat : drained + MaxQueue <= v /\ v <= queued =>
    Cardinality(Committed(v)) + queued <= Cardinality(Workers) + v

\* An event is in one place.
Fresh ==
  /\ \A r \in rows : r.id \in given
  /\ \A i \in 1 .. Len(Waiting) : Waiting[i].id \in given
  /\ \A w \in Workers : at[w] # "idle" =>
       /\ ev[w].id \in given
       /\ \A r \in rows : r.id # ev[w].id
       /\ \A i \in 1 .. Len(Waiting) : Waiting[i].id # ev[w].id
       /\ \A x \in Workers \ {w} : at[x] # "idle" => ev[x].id # ev[w].id

StoreInv == Store!TypeOK /\ Quiet /\ Counted /\ Bounded /\ Fresh
-----------------------------------------------------------------------------
(* Sequences and finite sets.                                              *)

LEMMA Joined ==
  ASSUME NEW S, NEW b \in Seq(S), NEW q \in Seq(S)
  PROVE  /\ b \o q \in Seq(S) /\ Len(b \o q) = Len(b) + Len(q)
         /\ \A i \in 1 .. Len(b) : (b \o q)[i] = b[i]
         /\ \A i \in 1 .. Len(q) : (b \o q)[Len(b) + i] = q[i]
  BY ConcatProperties

LEMMA EmptyJoined ==
  ASSUME NEW S, NEW q \in Seq(S)
  PROVE  <<>> \o q = q
  BY ConcatEmptySeq

\* Taking the head of the channel into the batch leaves the line as it was.
LEMMA Moved ==
  ASSUME NEW S, NEW b \in Seq(S), NEW q \in Seq(S), q # <<>>
  PROVE  /\ Append(b, Head(q)) \in Seq(S) /\ Tail(q) \in Seq(S)
         /\ Append(b, Head(q)) \o Tail(q) = b \o q
<1>1. Head(q) \in S /\ Tail(q) \in Seq(S) /\ q = <<Head(q)>> \o Tail(q)
  BY HeadTailProperties, ConcatProperties
<1>2. Append(b, Head(q)) = b \o <<Head(q)>> /\ Append(b, Head(q)) \in Seq(S)
  BY <1>1, AppendIsConcat, AppendProperties
<1>3. <<Head(q)>> \in Seq(S)
  BY <1>1
<1> QED BY <1>1, <1>2, <1>3, ConcatAssociative

LEMMA Appended ==
  ASSUME NEW S, NEW b \in Seq(S), NEW q \in Seq(S), NEW e \in S
  PROVE  b \o Append(q, e) = Append(b \o q, e)
<1>1. Append(q, e) = q \o <<e>> /\ Append(b \o q, e) = (b \o q) \o <<e>> /\ <<e>> \in Seq(S)
  BY AppendIsConcat, Joined
<1> QED BY <1>1, ConcatAssociative

\* What is left when the batch is gone.
LEMMA Remaining ==
  ASSUME NEW S, NEW b \in Seq(S), NEW q \in Seq(S)
  PROVE  SubSeq(b \o q, Len(b) + 1, Len(b \o q)) = q
<1> DEFINE s == b \o q
           t == SubSeq(s, Len(b) + 1, Len(s))
<1>1. s \in Seq(S) /\ Len(s) = Len(b) + Len(q) /\ Len(b) \in Nat /\ Len(q) \in Nat
  BY Joined, LenProperties
<1>2. /\ t \in Seq(S) /\ Len(t) = Len(q)
      /\ \A i \in 1 .. Len(q) : t[i] = s[Len(b) + i]
  <2>1. CASE q = <<>>
    BY <2>1, <1>1, SubSeqProperties
  <2>2. CASE q # <<>>
    BY <2>2, <1>1, SubSeqProperties, EmptySeq
  <2> QED BY <2>1, <2>2
<1>3. \A i \in 1 .. Len(q) : t[i] = q[i]
  BY <1>2, Joined
<1> QED BY <1>2, <1>3, SeqEqual

\* What the parts say of finite sets is what is said here.
LEMMA SameSets ==
  /\ \A S : (Store!IsFiniteSet(S) <=> IsFiniteSet(S)) /\ Store!Cardinality(S) = Cardinality(S)
  /\ \A S : Log!Cardinality(S) = Cardinality(S)
<1>1. \A S : Store!IsFiniteSet(S) <=> IsFiniteSet(S)
  BY DEF Store!IsFiniteSet, IsFiniteSet
<1>2. \A S : Store!Cardinality(S) = Cardinality(S)
  BY DEF Store!Cardinality, Cardinality
<1>3. \A S : Log!Cardinality(S) = Cardinality(S)
  BY DEF Log!Cardinality, Cardinality
<1> QED BY <1>1, <1>2, <1>3

LEMMA Parts ==
  ASSUME Store!StorageAssumption, NEW S \in SUBSET Workers
  PROVE  IsFiniteSet(S) /\ Cardinality(S) \in Nat /\ Cardinality(S) <= Cardinality(Workers)
                        /\ Cardinality(Workers) \in Nat
<1>1. IsFiniteSet(Workers)
  BY SameSets DEF Store!StorageAssumption
<1> QED BY <1>1, FS_Subset, FS_CardinalityType

LEMMA OneLess ==
  ASSUME Store!StorageAssumption, NEW S \in SUBSET Workers, NEW w \in S
  PROVE  Cardinality(S \ {w}) = Cardinality(S) - 1
  BY Parts, FS_RemoveElement

LEMMA OneMore ==
  ASSUME Store!StorageAssumption, NEW S \in SUBSET Workers, NEW w \in Workers \ S
  PROVE  Cardinality(S \cup {w}) = Cardinality(S) + 1
  BY Parts, FS_AddElement
-----------------------------------------------------------------------------
(* Types.                                                                  *)

LEMMA FlushTyped ==
  ASSUME NEW b \in Seq(Store!Events), NEW q \in Seq(Store!Events), Store!TypeOK, Store!Flush(b, q)
  PROVE  /\ sink' \in {"off", "up", "down"} /\ rows' \in SUBSET Store!Events
         /\ buf' \in Seq(Store!Events) /\ queue' \in Seq(Store!Events)
         /\ written' \in Nat /\ drained' \in Nat
<1>1. Store!Elems(b) \in SUBSET Store!Events /\ Len(b) \in Nat /\ <<>> \in Seq(Store!Events)
  BY LenProperties, EmptySeq DEF Store!Elems
<1>2. CASE sink' = "down" /\ buf' = <<>> /\ queue' = <<>> /\ UNCHANGED <<rows, written, drained>>
  BY <1>1, <1>2 DEF Store!TypeOK
<1>3. ASSUME NEW kept \in SUBSET Store!Elems(b), rows' = rows \cup kept,
             written' = written + Len(b), drained' = drained + Len(b),
             buf' = <<>>, queue' = q, UNCHANGED sink
      PROVE  /\ sink' \in {"off", "up", "down"} /\ rows' \in SUBSET Store!Events
             /\ buf' \in Seq(Store!Events) /\ queue' \in Seq(Store!Events)
             /\ written' \in Nat /\ drained' \in Nat
  <2>1. rows' \in SUBSET Store!Events
    BY <1>1, <1>3 DEF Store!TypeOK
  <2> QED BY <1>1, <1>3, <2>1 DEF Store!TypeOK
<1> QED BY <1>2, <1>3 DEF Store!Flush

ThreadsTyped ==
  /\ at \in [Workers -> {"idle", "loaded", "add", "send"}]
  /\ ev \in [Workers -> Store!Events \cup {None}] /\ saw \in [Workers -> Nat]
  /\ \A w \in Workers : at[w] # "idle" => ev[w] \in Store!Events

LEMMA FinishedTyped ==
  ASSUME Store!TypeOK, NEW w \in Workers, Store!Finished(w)
  PROVE  ThreadsTyped'
<1>1. at' \in [Workers -> {"idle", "loaded", "add", "send"}] /\ saw' \in [Workers -> Nat]
  BY DEF Store!TypeOK, Store!Finished
<1>2. ev' \in [Workers -> Store!Events \cup {None}]
  BY DEF Store!TypeOK, Store!Finished
<1>3. ASSUME NEW x \in Workers, at'[x] # "idle" PROVE ev'[x] \in Store!Events
  BY <1>3 DEF Store!TypeOK, Store!Finished
<1> QED BY <1>1, <1>2, <1>3 DEF ThreadsTyped

LEMMA Typing ==
  ASSUME Store!StorageAssumption, Store!TypeOK, [Store!Next]_(Store!vars)
  PROVE  Store!TypeOK'
<1> USE DEF Store!Times
<1>1. ASSUME NEW w \in Workers, NEW id \in Ids, Store!Submit(w, id) PROVE Store!TypeOK'
  <2>1. [id |-> id, ts |-> now] \in Store!Events
    BY DEF Store!TypeOK, Store!Events
  <2>2. ThreadsTyped'
    <3>1. CASE sink = "off"
      BY <1>1, <3>1 DEF Store!TypeOK, Store!Submit, Store!thread, ThreadsTyped
    <3>2. CASE sink # "off"
      <4>1. at' \in [Workers -> {"idle", "loaded", "add", "send"}] /\ saw' \in [Workers -> Nat]
        BY <1>1, <3>2 DEF Store!TypeOK, Store!Submit
      <4>2. ev' \in [Workers -> Store!Events \cup {None}]
        BY <1>1, <3>2, <2>1 DEF Store!TypeOK, Store!Submit
      <4>3. ASSUME NEW x \in Workers, at'[x] # "idle" PROVE ev'[x] \in Store!Events
        BY <1>1, <3>2, <4>3, <2>1 DEF Store!TypeOK, Store!Submit
      <4> QED BY <4>1, <4>2, <4>3 DEF ThreadsTyped
    <3> QED BY <3>1, <3>2
  <2> QED BY <1>1, <2>2 DEF Store!TypeOK, ThreadsTyped, Store!Submit, Store!counters, Store!task
<1>2. ASSUME NEW w \in Workers, Store!Judge(w) PROVE Store!TypeOK'
  <2>1. ThreadsTyped'
    <3>1. CASE Store!Full(saw[w])
      BY <1>2, <3>1, FinishedTyped DEF Store!Judge
    <3>2. CASE ~Store!Full(saw[w])
      BY <1>2, <3>2 DEF Store!TypeOK, Store!Judge, ThreadsTyped
    <3> QED BY <3>1, <3>2
  <2>2. dropped' \in Nat
    BY <1>2 DEF Store!TypeOK, Store!Judge
  <2> QED BY <1>2, <2>1, <2>2 DEF Store!TypeOK, ThreadsTyped, Store!Judge, Store!task
<1>3. ASSUME NEW w \in Workers, Store!Add(w) PROVE Store!TypeOK'
  BY <1>3 DEF Store!TypeOK, Store!Add, Store!task
<1>4. ASSUME NEW w \in Workers, Store!Send(w) PROVE Store!TypeOK'
  <2>1. ev[w] \in Store!Events /\ Append(queue, ev[w]) \in Seq(Store!Events)
    BY <1>4, AppendProperties DEF Store!Send, Store!TypeOK
  <2>2. ThreadsTyped'
    BY <1>4, FinishedTyped DEF Store!Send
  <2>3. dropped' \in Nat /\ queue' \in Seq(Store!Events)
    <3>1. CASE sink = "up"
      BY <1>4, <2>1, <3>1 DEF Store!TypeOK, Store!Send
    <3>2. CASE sink # "up"
      BY <1>4, <3>2 DEF Store!TypeOK, Store!Send
    <3> QED BY <3>1, <3>2
  <2> QED BY <1>4, <2>2, <2>3 DEF Store!TypeOK, ThreadsTyped, Store!Send
<1>5. CASE Store!Open
  BY <1>5 DEF Store!TypeOK, Store!Open, Store!thread, Store!counters
<1>6. CASE Store!Receive
  <2> DEFINE b == Append(buf, Head(queue))
  <2>1. b \in Seq(Store!Events) /\ Tail(queue) \in Seq(Store!Events)
    BY <1>6, Moved DEF Store!Receive, Store!TypeOK
  <2>2. CASE Store!Flush(b, Tail(queue))
    <3> HIDE DEF b
    <3>1. /\ sink' \in {"off", "up", "down"} /\ rows' \in SUBSET Store!Events
          /\ buf' \in Seq(Store!Events) /\ queue' \in Seq(Store!Events)
          /\ written' \in Nat /\ drained' \in Nat
      BY <2>1, <2>2, FlushTyped
    <3> QED BY <1>6, <3>1 DEF Store!TypeOK, Store!Receive, Store!thread
  <2>3. CASE ~Store!Flush(b, Tail(queue))
    BY <1>6, <2>1, <2>3 DEF Store!TypeOK, Store!Receive, Store!thread
  <2> QED BY <2>2, <2>3
<1>7. CASE Store!FlushTick
  <2>1. /\ sink' \in {"off", "up", "down"} /\ rows' \in SUBSET Store!Events
        /\ buf' \in Seq(Store!Events) /\ queue' \in Seq(Store!Events)
        /\ written' \in Nat /\ drained' \in Nat
    BY <1>7, FlushTyped DEF Store!FlushTick, Store!TypeOK
  <2> QED BY <1>7, <2>1 DEF Store!TypeOK, Store!FlushTick, Store!thread
<1>8. CASE Store!Purge
  BY <1>8 DEF Store!TypeOK, Store!Purge, Store!thread, Store!counters
<1>9. CASE Store!Restart
  BY <1>9, EmptySeq DEF Store!TypeOK, Store!Restart
<1>10. CASE Store!TimePasses
  BY <1>10 DEF Store!TypeOK, Store!TimePasses, Store!thread, Store!counters, Store!task, Store!StorageAssumption
<1>11. CASE UNCHANGED Store!vars
  BY <1>11 DEF Store!TypeOK, Store!vars, Store!thread, Store!counters, Store!task
<1> QED BY <1>1, <1>2, <1>3, <1>4, <1>5, <1>6, <1>7, <1>8, <1>9, <1>10, <1>11
        DEF Store!Next, Store!Step, Store!Write

LEMMA TypedInit ==
  ASSUME Store!StorageAssumption, Store!Init
  PROVE  Store!TypeOK
  BY EmptySeq DEF Store!StorageAssumption, Store!Init, Store!TypeOK, Store!Times

\* The store's state is what its declarations say (storage.rs:109-121, :196-206).
THEOREM StorageTypeOK ==
  ASSUME Store!StorageAssumption
  PROVE  Store!Spec => []Store!TypeOK
  BY TypedInit, Typing, PTL DEF Store!Spec
-----------------------------------------------------------------------------
(* What the writer does to the line: nothing, take some off, or end it.    *)

Taken(n) ==
  /\ n \in 1 .. Len(Waiting)
  /\ \E kept \in SUBSET { Waiting[i] : i \in 1 .. n } : rows' = rows \cup kept
  /\ Waiting' = SubSeq(Waiting, n + 1, Len(Waiting))
  /\ written' = written + n /\ drained' = drained + n /\ UNCHANGED sink
Lost == sink' = "down" /\ buf' = <<>> /\ queue' = <<>> /\ UNCHANGED <<rows, written, drained>>
Same == Waiting' = Waiting /\ UNCHANGED <<sink, rows, written, drained>>

LEMMA Flushed ==
  ASSUME Store!TypeOK, NEW b \in Seq(Store!Events), NEW q \in Seq(Store!Events),
         b # <<>>, b \o q = Waiting, Store!Flush(b, q)
  PROVE  Lost \/ \E n \in Nat : Taken(n)
<1>1. ASSUME NEW kept \in SUBSET Store!Elems(b), rows' = rows \cup kept,
             written' = written + Len(b), drained' = drained + Len(b),
             buf' = <<>>, queue' = q, UNCHANGED sink
      PROVE  \E n \in Nat : Taken(n)
  <2> DEFINE n == Len(b)
  <2>1. n \in Nat /\ n # 0 /\ Len(q) \in Nat /\ Len(Waiting) = n + Len(q)
    BY LenProperties, EmptySeq, Joined
  <2>2. \A i \in 1 .. n : Waiting[i] = b[i]
    BY Joined
  <2>3. Store!Elems(b) \in SUBSET { Waiting[i] : i \in 1 .. n }
    BY <2>1, <2>2, LenProperties DEF Store!Elems
  <2>4. Waiting' = SubSeq(Waiting, n + 1, Len(Waiting))
    BY <1>1, EmptyJoined, Remaining DEF Waiting
  <2> HIDE DEF n
  <2>5. n \in 1 .. Len(Waiting)
    BY <2>1
  <2>6. kept \in SUBSET { Waiting[i] : i \in 1 .. n }
    BY <1>1, <2>3
  <2>7. written' = written + n /\ drained' = drained + n
    BY <1>1 DEF n
  <2>8. Taken(n)
    BY <1>1, <2>4, <2>5, <2>6, <2>7 DEF Taken
  <2> QED BY <2>1, <2>8
<1> QED BY <1>1 DEF Store!Flush, Lost

LEMMA WriteEffect ==
  ASSUME Store!TypeOK, Store!Write
  PROVE  /\ sink = "up" /\ UNCHANGED <<now, at, ev, saw, queued, dropped, given>>
         /\ Same \/ Lost \/ \E n \in Nat : Taken(n)
<1>1. CASE Store!Receive
  <2> DEFINE b == Append(buf, Head(queue))
             q == Tail(queue)
  <2>1. b \in Seq(Store!Events) /\ q \in Seq(Store!Events) /\ b \o q = Waiting
    BY <1>1, Moved DEF Store!Receive, Store!TypeOK, Waiting
  <2>2. b # <<>>
    <3>1. Len(b) = Len(buf) + 1 /\ Len(buf) \in Nat
      BY <1>1, AppendProperties, HeadTailProperties, LenProperties DEF Store!Receive, Store!TypeOK
    <3> QED BY <3>1, EmptySeq
  <2>3. Store!Flush(b, q) \/ (buf' = b /\ queue' = q /\ UNCHANGED <<sink, rows, written, drained>>)
    BY <1>1 DEF Store!Receive
  <2> HIDE DEF b, q
  <2>4. Same \/ Lost \/ \E n \in Nat : Taken(n)
    BY <2>1, <2>2, <2>3, Flushed DEF Same, Waiting
  <2> QED BY <1>1, <2>4 DEF Store!Receive, Store!thread
<1>2. CASE Store!FlushTick
  BY <1>2, Flushed DEF Store!FlushTick, Store!TypeOK, Waiting, Store!thread
<1> QED BY <1>1, <1>2 DEF Store!Write

LEMMA LineTyped ==
  ASSUME Store!TypeOK
  PROVE  Waiting \in Seq(Store!Events) /\ Len(Waiting) \in Nat
  BY Joined, LenProperties DEF Store!TypeOK, Waiting

\* A line from which n events are taken is shorter by n, the others keep their order.
LEMMA Shortened ==
  ASSUME Store!TypeOK, NEW n \in Nat, Taken(n)
  PROVE  /\ Len(Waiting') = Len(Waiting) - n
         /\ \A i \in 1 .. Len(Waiting') : n + i \in 1 .. Len(Waiting) /\ Waiting'[i] = Waiting[n + i]
<1>1. /\ n \in 1 .. Len(Waiting) /\ Len(Waiting) \in Nat
      /\ Waiting' = SubSeq(Waiting, n + 1, Len(Waiting))
      /\ \A i \in 1 .. Len(Waiting) : Waiting[i] \in Store!Events
  BY LineTyped, LenProperties DEF Taken
<1>2. /\ Len(Waiting') = IF n + 1 <= Len(Waiting) THEN Len(Waiting) - (n + 1) + 1 ELSE 0
      /\ \A i \in 1 .. Len(Waiting) - (n + 1) + 1 : Waiting'[i] = Waiting[(n + 1) + i - 1]
  BY <1>1, SubSeqProperties
<1> QED BY <1>1, <1>2

\* Every other step leaves the line alone, or makes one event longer.
LEMMA Sent ==
  ASSUME Store!TypeOK, NEW w \in Workers, Store!Send(w), sink = "up"
  PROVE  /\ ev[w] \in Store!Events /\ Waiting' = Append(Waiting, ev[w])
         /\ Len(Waiting') = Len(Waiting) + 1
         /\ \A i \in 1 .. Len(Waiting') :
              Waiting'[i] = IF i = Len(Waiting) + 1 THEN ev[w] ELSE Waiting[i]
<1>1. ev[w] \in Store!Events /\ queue' = Append(queue, ev[w]) /\ buf' = buf
  BY DEF Store!Send, Store!TypeOK
<1>2. Waiting' = Append(Waiting, ev[w])
  BY <1>1, Appended DEF Store!TypeOK, Waiting
<1> QED BY <1>1, <1>2, LineTyped, AppendProperties
-----------------------------------------------------------------------------
(* The inductive invariant.                                                *)

LEMMA QuietKept ==
  ASSUME Store!StorageAssumption, Store!TypeOK, Quiet, [Store!Next]_(Store!vars)
  PROVE  Quiet'
<1>1. ASSUME NEW w \in Workers, NEW id \in Ids, Store!Submit(w, id) PROVE Quiet'
  BY <1>1 DEF Quiet, Store!TypeOK, Store!Submit, Store!thread, Store!counters, Store!task
<1>2. ASSUME NEW w \in Workers, Store!Step(w) PROVE Quiet'
  <2>1. at[w] # "idle"
    BY <1>2 DEF Store!Step, Store!Judge, Store!Add, Store!Send
  <2>2. sink # "off"
    BY <2>1 DEF Quiet
  <2>3. sink' = sink /\ (sink # "up" => UNCHANGED <<buf, queue>>)
    BY <1>2 DEF Store!Step, Store!Judge, Store!Add, Store!Send, Store!task
  <2> QED BY <2>2, <2>3 DEF Quiet
<1>3. CASE Store!Open
  BY <1>3 DEF Store!Open, Quiet
<1>4. CASE Store!Write
  BY <1>4, WriteEffect DEF Quiet, Same, Taken, Lost
<1>5. CASE Store!Purge
  BY <1>5 DEF Store!Purge, Quiet, Store!thread, Store!counters
<1>6. CASE Store!Restart
  BY <1>6 DEF Store!Restart, Quiet
<1>7. CASE Store!TimePasses \/ UNCHANGED Store!vars
  BY <1>7 DEF Store!TimePasses, Quiet, Store!vars, Store!thread, Store!counters, Store!task
<1> QED BY <1>1, <1>2, <1>3, <1>4, <1>5, <1>6, <1>7 DEF Store!Next

LEMMA CountedKept ==
  ASSUME Store!StorageAssumption, Store!TypeOK, Quiet, Counted, [Store!Next]_(Store!vars)
  PROVE  Counted'
<1> USE DEF Store!TypeOK
<1>n. Sending \in SUBSET Workers /\ Cardinality(Sending) \in Nat /\ Len(Waiting) \in Nat
  BY Parts, LineTyped DEF Sending
<1>1. ASSUME NEW w \in Workers, NEW id \in Ids, Store!Submit(w, id) PROVE Counted'
  <2>1. Sending' = Sending
    BY <1>1 DEF Store!Submit, Store!thread, Sending
  <2> QED BY <1>1, <2>1 DEF Store!Submit, Counted, Waiting, Store!counters, Store!task
<1>2. ASSUME NEW w \in Workers, Store!Judge(w) PROVE Counted'
  <2>1. Sending' = Sending
    BY <1>2 DEF Store!Judge, Store!Finished, Sending
  <2> QED BY <1>2, <2>1 DEF Store!Judge, Counted, Waiting, Store!task
<1>3. ASSUME NEW w \in Workers, Store!Add(w) PROVE Counted'
  <2>1. Sending' = Sending \cup {w} /\ w \notin Sending
    BY <1>3 DEF Store!Add, Sending
  <2>2. Cardinality(Sending') = Cardinality(Sending) + 1
    BY <1>n, <2>1, OneMore
  <2>3. sink' = sink /\ Waiting' = Waiting /\ drained' = drained /\ queued' = queued + 1
    BY <1>3 DEF Store!Add, Store!task, Waiting
  <2> QED BY <1>n, <2>2, <2>3 DEF Counted
<1>4. ASSUME NEW w \in Workers, Store!Send(w), sink = "up" PROVE Counted'
  <2>1. Sending' = Sending \ {w} /\ w \in Sending
    BY <1>4 DEF Store!Send, Store!Finished, Sending
  <2>2. Cardinality(Sending') = Cardinality(Sending) - 1
    BY <1>n, <2>1, OneLess
  <2>3. Len(Waiting') = Len(Waiting) + 1
    BY <1>4, Sent
  <2>4. drained' = drained /\ queued' = queued
    BY <1>4 DEF Store!Send
  <2> QED BY <1>n, <1>4, <2>2, <2>3, <2>4 DEF Counted
<1>5. ASSUME NEW w \in Workers, Store!Send(w), sink # "up" PROVE Counted'
  BY <1>5 DEF Counted, Store!Send
<1>6. CASE Store!Open
  <2>1. Len(Waiting) = 0 /\ Waiting' = Waiting
    BY <1>6, EmptyJoined, EmptySeq DEF Store!Open, Quiet, Waiting
  <2>2. Sending' = {} /\ Cardinality({}) = 0
    BY <1>6, FS_EmptySet DEF Store!Open, Quiet, Sending, Store!thread
  <2>3. queued' = 0 /\ drained' = 0
    BY <1>6 DEF Store!Open, Quiet, Store!counters
  <2> QED BY <2>1, <2>2, <2>3 DEF Counted
<1>7. CASE Store!Write
  <2>1. Sending' = Sending /\ queued' = queued /\ sink = "up"
    BY <1>7, WriteEffect DEF Sending
  <2>2. CASE Same
    BY <2>1, <2>2 DEF Same, Counted
  <2>3. CASE Lost
    BY <2>3 DEF Lost, Counted
  <2>4. ASSUME NEW n \in Nat, Taken(n) PROVE Counted'
    <3>1. Len(Waiting') = Len(Waiting) - n
      BY <2>4, Shortened
    <3>2. drained' = drained + n /\ sink' = sink
      BY <2>4 DEF Taken
    <3> QED BY <1>n, <2>1, <3>1, <3>2 DEF Counted
  <2> QED BY <1>7, <2>2, <2>3, <2>4, WriteEffect
<1>8. CASE Store!Purge
  BY <1>8 DEF Store!Purge, Counted, Waiting, Sending, Store!thread, Store!counters
<1>9. CASE Store!Restart
  BY <1>9 DEF Store!Restart, Counted
<1>10. CASE Store!TimePasses \/ UNCHANGED Store!vars
  BY <1>10 DEF Store!TimePasses, Counted, Waiting, Sending, Store!vars, Store!thread, Store!counters, Store!task
<1> QED BY <1>1, <1>2, <1>3, <1>4, <1>5, <1>6, <1>7, <1>8, <1>9, <1>10 DEF Store!Next, Store!Step

LEMMA BoundedKept ==
  ASSUME Store!StorageAssumption, Store!TypeOK, Bounded, [Store!Next]_(Store!vars)
  PROVE  Bounded'
<1>n. MaxQueue \in Nat /\ queued \in Nat /\ drained \in Nat
  BY DEF Store!StorageAssumption, Store!TypeOK
<1>m. ASSUME NEW S \in SUBSET Workers
      PROVE  Cardinality(S) \in Nat /\ Cardinality(Workers) \in Nat /\ Cardinality(S) <= Cardinality(Workers)
  BY Parts
<1>c. \A v \in Nat : Committed(v) \in SUBSET Workers /\ Committed(v)' \in SUBSET Workers
  BY DEF Committed
<1>s. ASSUME drained' \in Nat, drained' >= drained, queued' = queued,
             \A v \in Nat : drained + MaxQueue <= v /\ v < queued =>
                              Committed(v)' \in SUBSET Committed(v)
      PROVE  Bounded'
  <2> SUFFICES ASSUME NEW v \in Nat, drained' + MaxQueue <= v, v <= queued
               PROVE  Cardinality(Committed(v)') + queued <= Cardinality(Workers) + v
    BY <1>s DEF Bounded
  <2>1. CASE v = queued
    BY <1>n, <1>c, <1>m, <2>1
  <2>2. CASE v < queued
    <3>1. drained + MaxQueue <= v
      <4> DEFINE later == drained'
      <4>1. later \in Nat /\ later >= drained /\ later + MaxQueue <= v
        BY <1>s
      <4> HIDE DEF later
      <4> QED BY <1>n, <4>1
    <3>2. Cardinality(Committed(v)) + queued <= Cardinality(Workers) + v
      BY <3>1 DEF Bounded
    <3>3. Committed(v)' \in SUBSET Committed(v) /\ IsFiniteSet(Committed(v))
      BY <1>c, <1>s, <2>2, <3>1, Parts
    <3>4. Cardinality(Committed(v)') <= Cardinality(Committed(v))
      BY <3>3, FS_Subset
    <3> QED BY <1>n, <1>c, <1>m, <3>2, <3>4
  <2> QED BY <1>n, <2>1, <2>2
<1>1. ASSUME NEW w \in Workers, NEW id \in Ids, Store!Submit(w, id) PROVE Bounded'
  <2>1. \A v \in Nat : v < queued => Committed(v)' \in SUBSET Committed(v)
    BY <1>1, <1>n DEF Store!Submit, Store!thread, Committed, Store!TypeOK
  <2> QED BY <1>n, <1>1, <1>s, <2>1 DEF Store!Submit, Store!counters
<1>2. ASSUME NEW w \in Workers, Store!Judge(w) PROVE Bounded'
  <2>1. CASE Store!Full(saw[w])
    <3>1. \A v \in Nat : Committed(v)' \in SUBSET Committed(v)
      BY <1>2, <2>1 DEF Store!Judge, Store!Finished, Committed, Store!TypeOK
    <3> QED BY <1>n, <1>2, <1>s, <3>1 DEF Store!Judge
  <2>2. CASE ~Store!Full(saw[w])
    <3>1. saw[w] <= drained + MaxQueue
      BY <2>2, <1>n DEF Store!Full, Store!TypeOK
    <3>2. \A v \in Nat : drained + MaxQueue <= v => Committed(v)' \in SUBSET Committed(v)
      BY <1>2, <1>n, <2>2, <3>1 DEF Store!Judge, Committed, Store!TypeOK
    <3> QED BY <1>n, <1>2, <1>s, <3>2 DEF Store!Judge
  <2> QED BY <2>1, <2>2
<1>3. ASSUME NEW w \in Workers, Store!Add(w) PROVE Bounded'
  <2> SUFFICES ASSUME NEW v \in Nat, drained + MaxQueue <= v, v <= queued + 1
               PROVE  Cardinality(Committed(v)') + (queued + 1) <= Cardinality(Workers) + v
    BY <1>3 DEF Store!Add, Bounded
  <2>1. CASE v = queued + 1
    BY <1>n, <1>c, <1>m, <2>1
  <2>2. CASE v <= queued
    <3>1. Cardinality(Committed(v)) + queued <= Cardinality(Workers) + v
      BY <2>2 DEF Bounded
    <3>2. w \in Committed(v) /\ Committed(v)' = Committed(v) \ {w}
      BY <1>3 DEF Store!Add, Committed, Store!TypeOK
    <3>3. Cardinality(Committed(v)') = Cardinality(Committed(v)) - 1
      BY <1>c, <3>2, OneLess
    <3> QED BY <1>n, <1>c, <1>m, <3>1, <3>3
  <2> QED BY <1>n, <2>1, <2>2
<1>4. ASSUME NEW w \in Workers, Store!Send(w) PROVE Bounded'
  <2>1. \A v \in Nat : Committed(v)' \in SUBSET Committed(v)
    BY <1>4 DEF Store!Send, Store!Finished, Committed, Store!TypeOK
  <2> QED BY <1>n, <1>4, <1>s, <2>1 DEF Store!Send
<1>5. CASE Store!Write
  <2>1. \A v \in Nat : Committed(v)' = Committed(v)
    BY <1>5, WriteEffect DEF Committed
  <2>2. drained' \in Nat /\ drained' >= drained
    BY <1>n, <1>5, WriteEffect DEF Same, Lost, Taken
  <2> QED BY <1>5, <1>s, <2>1, <2>2, WriteEffect
<1>6. CASE Store!Restart
  <2>1. queued' = 0 /\ drained' = 0
    BY <1>6 DEF Store!Restart
  <2> SUFFICES ASSUME NEW v \in Nat, drained' + MaxQueue <= v, v <= queued'
               PROVE  Cardinality(Committed(v)') + queued' <= Cardinality(Workers) + v
    BY DEF Bounded
  <2> QED BY <1>c, <1>m, <2>1
<1>7. CASE Store!Open \/ Store!Purge \/ Store!TimePasses \/ UNCHANGED Store!vars
  <2>1. UNCHANGED <<at, saw, queued, drained>>
    BY <1>7 DEF Store!Open, Store!Purge, Store!TimePasses, Store!vars, Store!thread, Store!counters
  <2>2. \A v \in Nat : Committed(v)' = Committed(v)
    BY <2>1 DEF Committed
  <2> QED BY <1>n, <1>s, <2>1, <2>2
<1> QED BY <1>1, <1>2, <1>3, <1>4, <1>5, <1>6, <1>7 DEF Store!Next, Store!Step

\* A step that hands nothing over, lets no thread enter and adds nothing to the line.
LEMMA NothingNew ==
  ASSUME Store!TypeOK, Fresh, given' = given,
         \A w \in Workers : at'[w] # "idle" => at[w] # "idle" /\ ev'[w] = ev[w],
         \A r \in rows' : r \in rows \/ \E i \in 1 .. Len(Waiting) : r = Waiting[i],
         \A i \in 1 .. Len(Waiting') : \E j \in 1 .. Len(Waiting) : Waiting'[i] = Waiting[j]
  PROVE  Fresh'
<1>1. \A r \in rows' : r.id \in given'
  BY DEF Fresh
<1>2. \A i \in 1 .. Len(Waiting') : Waiting'[i].id \in given'
  BY DEF Fresh
<1>3. ASSUME NEW w \in Workers, at'[w] # "idle"
      PROVE  /\ ev'[w].id \in given'
             /\ \A r \in rows' : r.id # ev'[w].id
             /\ \A i \in 1 .. Len(Waiting') : Waiting'[i].id # ev'[w].id
             /\ \A x \in Workers \ {w} : at'[x] # "idle" => ev'[x].id # ev'[w].id
  <2>1. /\ ev'[w] = ev[w] /\ ev[w].id \in given
        /\ \A r \in rows : r.id # ev[w].id
        /\ \A i \in 1 .. Len(Waiting) : Waiting[i].id # ev[w].id
        /\ \A x \in Workers \ {w} : at[x] # "idle" => ev[x].id # ev[w].id
    BY <1>3 DEF Fresh
  <2> QED BY <2>1
<1> QED BY <1>1, <1>2, <1>3 DEF Fresh

LEMMA FreshKept ==
  ASSUME Store!StorageAssumption, Store!TypeOK, Fresh, [Store!Next]_(Store!vars)
  PROVE  Fresh'
<1>n. Waiting \in Seq(Store!Events) /\ Len(Waiting) \in Nat
  BY LineTyped
<1>1. ASSUME NEW w \in Workers, NEW id \in Ids, Store!Submit(w, id) PROVE Fresh'
  <2>1. UNCHANGED <<rows, Waiting>> /\ given' = given \cup {id} /\ id \notin given /\ at[w] = "idle"
    BY <1>1 DEF Store!Submit, Store!task, Waiting
  <2>2. CASE sink = "off"
    BY <1>1, <2>1, <2>2 DEF Store!Submit, Store!thread, Fresh
  <2>3. CASE sink # "off"
    <3>1. /\ ev'[w].id = id
          /\ \A x \in Workers \ {w} : at'[x] = at[x] /\ ev'[x] = ev[x]
      BY <1>1, <2>3 DEF Store!Submit, Store!TypeOK
    <3>2. (\A r \in rows' : r.id \in given') /\ \A i \in 1 .. Len(Waiting') : Waiting'[i].id \in given'
      BY <2>1 DEF Fresh
    <3>3. ASSUME NEW x \in Workers, at'[x] # "idle"
          PROVE  /\ ev'[x].id \in given'
                 /\ \A r \in rows' : r.id # ev'[x].id
                 /\ \A i \in 1 .. Len(Waiting') : Waiting'[i].id # ev'[x].id
                 /\ \A y \in Workers \ {x} : at'[y] # "idle" => ev'[y].id # ev'[x].id
      <4>1. CASE x = w
        BY <2>1, <3>1, <3>3, <4>1 DEF Fresh
      <4>2. CASE x # w
        BY <2>1, <3>1, <3>3, <4>2 DEF Fresh
      <4> QED BY <4>1, <4>2
    <3> QED BY <3>2, <3>3 DEF Fresh
  <2> QED BY <2>2, <2>3
<1>2. ASSUME NEW w \in Workers, Store!Judge(w) \/ Store!Add(w) PROVE Fresh'
  <2>1. UNCHANGED <<rows, Waiting, given>>
    BY <1>2 DEF Store!Judge, Store!Add, Store!task, Waiting
  <2>2. \A x \in Workers : at'[x] # "idle" => at[x] # "idle" /\ ev'[x] = ev[x]
    BY <1>2 DEF Store!Judge, Store!Add, Store!Finished, Store!TypeOK
  <2> QED BY <2>1, <2>2, NothingNew
<1>3. ASSUME NEW w \in Workers, Store!Send(w), sink # "up" PROVE Fresh'
  <2>1. UNCHANGED <<rows, Waiting, given>>
    BY <1>3 DEF Store!Send, Waiting
  <2>2. \A x \in Workers : at'[x] # "idle" => at[x] # "idle" /\ ev'[x] = ev[x]
    BY <1>3 DEF Store!Send, Store!Finished, Store!TypeOK
  <2> QED BY <2>1, <2>2, NothingNew
<1>4. ASSUME NEW w \in Workers, Store!Send(w), sink = "up" PROVE Fresh'
  <2>1. /\ at[w] = "send" /\ at'[w] = "idle" /\ UNCHANGED <<rows, given>>
        /\ \A x \in Workers \ {w} : at'[x] = at[x] /\ ev'[x] = ev[x]
    BY <1>4 DEF Store!Send, Store!Finished, Store!TypeOK
  <2>2. \A i \in 1 .. Len(Waiting') :
          Waiting'[i] = ev[w] \/ \E j \in 1 .. Len(Waiting) : Waiting'[i] = Waiting[j]
    BY <1>4, <1>n, Sent
  <2>3. \A r \in rows' : r.id \in given'
    BY <2>1 DEF Fresh
  <2>4. \A i \in 1 .. Len(Waiting') : Waiting'[i].id \in given'
    BY <2>1, <2>2 DEF Fresh
  <2>5. ASSUME NEW x \in Workers, at'[x] # "idle"
        PROVE  /\ ev'[x].id \in given'
               /\ \A r \in rows' : r.id # ev'[x].id
               /\ \A i \in 1 .. Len(Waiting') : Waiting'[i].id # ev'[x].id
               /\ \A y \in Workers \ {x} : at'[y] # "idle" => ev'[y].id # ev'[x].id
    <3>1. x # w /\ at[x] # "idle" /\ ev'[x] = ev[x]
      BY <2>1, <2>5
    <3>2. /\ ev[x].id \in given
          /\ \A r \in rows : r.id # ev[x].id
          /\ \A i \in 1 .. Len(Waiting) : Waiting[i].id # ev[x].id
          /\ \A y \in Workers \ {x} : at[y] # "idle" => ev[y].id # ev[x].id
      BY <3>1 DEF Fresh
    <3>3. ev[w].id # ev[x].id
      BY <2>1, <3>1, <3>2
    <3> QED BY <2>1, <2>2, <3>1, <3>2, <3>3
  <2> QED BY <2>3, <2>4, <2>5 DEF Fresh
<1>5. CASE Store!Write
  <2>1. UNCHANGED <<at, ev, given>>
    BY <1>5, WriteEffect
  <2>2. CASE Same
    BY <2>1, <2>2, NothingNew DEF Same
  <2>3. CASE Lost
    <3>1. Len(Waiting') = 0
      BY <2>3, EmptyJoined, EmptySeq DEF Lost, Waiting
    <3> QED BY <2>1, <2>3, <3>1, NothingNew DEF Lost
  <2>4. ASSUME NEW n \in Nat, Taken(n) PROVE Fresh'
    <3>1. \A i \in 1 .. Len(Waiting') : \E j \in 1 .. Len(Waiting) : Waiting'[i] = Waiting[j]
      BY <2>4, Shortened
    <3>2. \A r \in rows' : r \in rows \/ \E i \in 1 .. Len(Waiting) : r = Waiting[i]
      BY <2>4, <1>n DEF Taken
    <3> QED BY <2>1, <3>1, <3>2, NothingNew
  <2> QED BY <1>5, <2>2, <2>3, <2>4, WriteEffect
<1>6. CASE Store!Purge
  <2>1. UNCHANGED <<at, ev, Waiting, given>> /\ rows' \in SUBSET rows
    BY <1>6 DEF Store!Purge, Store!thread, Waiting
  <2> QED BY <2>1, NothingNew
<1>7. CASE Store!Restart
  <2>1. /\ Len(Waiting') = 0 /\ UNCHANGED <<rows, given>>
        /\ \A w \in Workers : at'[w] = "idle"
    BY <1>7, EmptyJoined, EmptySeq DEF Store!Restart, Waiting
  <2> QED BY <2>1, NothingNew
<1>8. CASE Store!Open \/ Store!TimePasses \/ UNCHANGED Store!vars
  <2>1. UNCHANGED <<at, ev, rows, Waiting, given>>
    BY <1>8 DEF Store!Open, Store!TimePasses, Store!vars, Store!thread, Store!task, Waiting
  <2> QED BY <2>1, NothingNew
<1> QED BY <1>1, <1>2, <1>3, <1>4, <1>5, <1>6, <1>7, <1>8 DEF Store!Next, Store!Step

LEMMA StoreInvInit ==
  ASSUME Store!StorageAssumption, Store!Init
  PROVE  StoreInv
<1>1. Store!TypeOK
  BY TypedInit
<1>2. Quiet /\ Counted
  BY DEF Store!Init, Quiet, Counted
<1>3. Bounded
  <2> SUFFICES ASSUME NEW v \in Nat
               PROVE  Cardinality(Committed(v)) + queued <= Cardinality(Workers) + v
    BY DEF Bounded
  <2>1. Committed(v) \in SUBSET Workers /\ queued = 0
    BY DEF Committed, Store!Init
  <2> QED BY <2>1, Parts
<1>4. Fresh
  <2>1. Len(Waiting) = 0
    BY EmptyJoined, EmptySeq DEF Store!Init, Waiting
  <2> QED BY <2>1 DEF Store!Init, Fresh
<1> QED BY <1>1, <1>2, <1>3, <1>4 DEF StoreInv

LEMMA StoreInvKept ==
  ASSUME Store!StorageAssumption
  PROVE  StoreInv /\ [Store!Next]_(Store!vars) => StoreInv'
  BY Typing, QuietKept, CountedKept, BoundedKept, FreshKept DEF StoreInv
-----------------------------------------------------------------------------
(* The refinement.                                                         *)

\* There is room in the line whenever a thread is about to send.
LEMMA Room ==
  ASSUME Store!StorageAssumption, StoreInv, NEW w \in Workers, at[w] = "send", sink = "up"
  PROVE  Len(Waiting) < MaxQueue + Cardinality(Workers)
<1>1. /\ queued \in Nat /\ drained \in Nat /\ MaxQueue \in Nat /\ Len(Waiting) \in Nat
      /\ Cardinality(Workers) \in Nat
  BY LineTyped, Parts DEF StoreInv, Store!TypeOK, Store!StorageAssumption
<1>2. Cardinality(Sending) \in Nat /\ Cardinality(Sending) >= 1
  <2>1. Sending \in SUBSET Workers /\ w \in Sending
    BY DEF Sending
  <2>2. IsFiniteSet(Sending) /\ Cardinality(Sending) \in Nat
    BY <2>1, Parts
  <2>3. Cardinality(Sending) # 0
    BY <2>1, <2>2, FS_EmptySet
  <2> QED BY <2>2, <2>3
<1>3. Len(Waiting) + Cardinality(Sending) + drained = queued
  BY DEF StoreInv, Counted
<1>4. CASE queued < drained + MaxQueue
  BY <1>1, <1>2, <1>3, <1>4
<1>5. CASE queued >= drained + MaxQueue
  <2> DEFINE v == drained + MaxQueue
  <2>1. v \in Nat /\ v <= queued
    BY <1>1, <1>5
  <2>2. Cardinality(Committed(v)) + queued <= Cardinality(Workers) + v
    BY <2>1 DEF StoreInv, Bounded
  <2>3. Cardinality(Committed(v)) \in Nat
    BY Parts DEF Committed
  <2> QED BY <1>1, <1>2, <1>3, <2>2, <2>3
<1> QED BY <1>1, <1>4, <1>5

LEMMA Starts ==
  ASSUME Store!Init
  PROVE  Store!Abstract!Init
  BY EmptyJoined, EmptySeq DEF Store!Init, Store!Abstract!Init

LEMMA Implements ==
  ASSUME Store!StorageAssumption, StoreInv, [Store!Next]_(Store!vars)
  PROVE  [Store!Abstract!Next]_(Store!Abstract!vars)
<1> USE DEF Waiting, Store!Abstract!vars
<1>n. Waiting \in Seq(Store!Events) /\ Len(Waiting) \in Nat
  BY LineTyped DEF StoreInv
<1>1. ASSUME NEW w \in Workers, NEW id \in Ids, Store!Submit(w, id) PROVE UNCHANGED Store!Abstract!vars
  BY <1>1 DEF Store!Submit, Store!counters, Store!task
<1>2. ASSUME NEW w \in Workers, Store!Judge(w) PROVE [Store!Abstract!Next]_(Store!Abstract!vars)
  BY <1>2 DEF Store!Judge, Store!task, Store!Abstract!Next, Store!Abstract!Refuse
<1>3. ASSUME NEW w \in Workers, Store!Add(w) PROVE UNCHANGED Store!Abstract!vars
  BY <1>3 DEF Store!Add, Store!task
<1>4. ASSUME NEW w \in Workers, Store!Send(w), sink # "up" PROVE Store!Abstract!Next
  BY <1>4 DEF Store!Send, Store!Abstract!Next, Store!Abstract!Refuse
<1>5. ASSUME NEW w \in Workers, Store!Send(w), sink = "up" PROVE Store!Abstract!Next
  <2>1. at[w] = "send" /\ UNCHANGED <<sink, rows, written, dropped>>
    BY <1>5 DEF Store!Send
  <2>2. ev[w] \in Store!Events /\ Waiting' = Append(Waiting, ev[w])
    BY <1>5, Sent DEF StoreInv
  <2>3. ev[w] \notin rows /\ \A i \in 1 .. Len(Waiting) : Waiting[i] # ev[w]
    BY <2>1 DEF StoreInv, Fresh
  <2>4. ev[w] \in Store!Events \ (rows \cup Store!Abstract!First(Len(Waiting)))
    BY <2>2, <2>3 DEF Store!Abstract!First
  <2>5. Len(Waiting) < MaxQueue + Cardinality(Workers)
    BY <1>5, <2>1, Room
  <2>6. Store!Abstract!Accept
    BY <1>5, <2>1, <2>2, <2>4, <2>5, SameSets DEF Store!Abstract!Accept
  <2> QED BY <2>6 DEF Store!Abstract!Next
<1>6. CASE Store!Open
  BY <1>6 DEF Store!Open, Store!counters, Store!Abstract!Next, Store!Abstract!Open
<1>7. CASE Store!Write
  <2>1. sink = "up" /\ UNCHANGED dropped
    BY <1>7, WriteEffect DEF StoreInv
  <2>2. CASE Same
    BY <2>1, <2>2 DEF Same
  <2>3. CASE Lost
    <3>1. Waiting' = <<>>
      BY <2>3, EmptyJoined, EmptySeq DEF Lost
    <3> QED BY <2>1, <2>3, <3>1 DEF Lost, Store!Abstract!Next, Store!Abstract!Close
  <2>4. ASSUME NEW n \in Nat, Taken(n) PROVE Store!Abstract!Next
    <3>1. n \in 1 .. Len(Waiting) /\ written' = written + n /\ UNCHANGED sink
      BY <2>4 DEF Taken
    <3>2. \E kept \in SUBSET Store!Abstract!First(n) : rows' = rows \cup kept
      BY <2>4 DEF Taken, Store!Abstract!First
    <3>3. Waiting' = Store!Abstract!Rest(n)
      BY <2>4 DEF Taken, Store!Abstract!Rest
    <3>4. Store!Abstract!Write
      BY <2>1, <3>1, <3>2, <3>3 DEF Store!Abstract!Write
    <3> QED BY <3>4 DEF Store!Abstract!Next
  <2> QED BY <1>7, <2>2, <2>3, <2>4, WriteEffect DEF StoreInv
<1>8. CASE Store!Purge
  <2>1. rows' \in SUBSET rows
    BY <1>8 DEF Store!Purge
  <2> QED BY <1>8, <2>1 DEF Store!Purge, Store!counters, Store!Abstract!Next, Store!Abstract!Forget
<1>9. CASE Store!Restart
  <2>1. Waiting' = <<>>
    BY <1>9, EmptyJoined, EmptySeq DEF Store!Restart
  <2> QED BY <1>9, <2>1 DEF Store!Restart, Store!Abstract!Next, Store!Abstract!Reboot
<1>10. CASE Store!TimePasses \/ UNCHANGED Store!vars
  BY <1>10 DEF Store!TimePasses, Store!vars, Store!counters, Store!task
<1> QED BY <1>1, <1>2, <1>3, <1>4, <1>5, <1>6, <1>7, <1>8, <1>9, <1>10 DEF Store!Next, Store!Step

\* The line of events keeps the promise of storage.rs:1-13: accepted events reach the
\* table in order and none twice, and MAX_QUEUE and one for each thread bound it, although
\* every thread loads the two counters (storage.rs:45-52) without regard to the others.
THEOREM StorageKeepsPromise ==
  ASSUME Store!StorageAssumption
  PROVE  Store!Spec => Store!KeepsPromise
<1>1. Store!Init => Store!Abstract!Init
  BY Starts
<1>2. Store!Init => StoreInv
  BY StoreInvInit
<1>3. StoreInv /\ [Store!Next]_(Store!vars) => StoreInv'
  BY StoreInvKept
<1>4. StoreInv /\ [Store!Next]_(Store!vars) => [Store!Abstract!Next]_(Store!Abstract!vars)
  BY Implements
<1> QED BY <1>1, <1>2, <1>3, <1>4, PTL DEF Store!Spec, Store!KeepsPromise, Store!Abstract!Spec
-----------------------------------------------------------------------------
(* The ring and the live stream.  Places are counted from the first event  *)
(* that was ever recorded, so that an eviction moves none of them.         *)

All == evicted \o ring
Places == 1 .. Len(All)

\* An event has one place, or one thread that still holds it.
Distinct ==
  /\ \A p, q \in Places : p # q => All[p].id # All[q].id
  /\ \A w \in Workers : built[w] # None =>
       /\ \A p \in Places : All[p].id # built[w].id
       /\ \A v \in Workers \ {w} : built[v] # None => built[v].id # built[w].id

\* Nothing is sent that was not recorded, and the stream's position is some event's stamp.
Unsent   == \A i \in Ids : (\A p \in Places : All[p].id # i) => sent[i] = 0
LastSeen == last = 0 \/ \E p \in Places : All[p].ts = last

\* The stream is past whatever it showed, unless an earlier stamp came after that.
Reached ==
  \A p \in Places : sent[All[p].id] > 0 =>
    last >= All[p].ts \/ \E q \in p + 1 .. Len(All) : All[q].ts < All[p].ts

ShownOnce ==
  \A p \in Places : sent[All[p].id] > 1 => \E q \in p + 1 .. Len(All) : All[q].ts < All[p].ts
PassedOver ==
  \A p \in Places : open /\ p > Len(evicted) /\ All[p].ts <= last /\ sent[All[p].id] = 0 =>
    \E q \in 1 .. p - 1 : All[q].ts >= All[p].ts

LogInv == Log!TypeOK /\ Distinct /\ Unsent /\ LastSeen /\ Reached /\ ShownOnce /\ PassedOver

LEMMA LogNumbers ==
  ASSUME Log!EventLogAssumption, Log!TypeOK
  PROVE  /\ Cap \in Nat /\ Cap > 0 /\ Batch \in Nat /\ Batch > 0 /\ None \notin Log!Event
         /\ now \in Nat /\ now >= 1 /\ last \in Nat
         /\ ring \in Seq(Log!Event) /\ evicted \in Seq(Log!Event) /\ All \in Seq(Log!Event)
         /\ Len(ring) \in Nat /\ Len(evicted) \in Nat /\ Len(All) \in Nat
         /\ Len(All) = Len(evicted) + Len(ring)
         /\ \A p \in Places : All[p] \in Log!Event /\ All[p].id \in Ids /\ All[p].ts \in Nat /\ All[p].ts >= 1
<1>1. /\ Cap \in Nat /\ Cap > 0 /\ Batch \in Nat /\ Batch > 0 /\ None \notin Log!Event
  BY DEF Log!EventLogAssumption
<1>2. now \in Nat /\ now >= 1 /\ last \in Nat /\ ring \in Seq(Log!Event) /\ evicted \in Seq(Log!Event)
  BY DEF Log!TypeOK, Log!Times
<1>3. All \in Seq(Log!Event) /\ Len(All) = Len(evicted) + Len(ring)
  BY <1>2, Joined DEF All
<1>4. Len(ring) \in Nat /\ Len(evicted) \in Nat /\ Len(All) \in Nat
  BY <1>2, <1>3, LenProperties
<1>5. \A p \in Places : All[p] \in Log!Event
  BY <1>3, <1>4, LenProperties DEF Places
<1>6. \A p \in Places : All[p].id \in Ids /\ All[p].ts \in Nat /\ All[p].ts >= 1
  BY <1>5 DEF Log!Event, Log!Times
<1> QED BY <1>1, <1>2, <1>3, <1>4, <1>5, <1>6

\* The push adds an event at the end; what the ring loses, its history gains.
LEMMA Pushed ==
  ASSUME Log!EventLogAssumption, Log!TypeOK, NEW w \in Workers, Log!Push(w)
  PROVE  /\ built[w] \in Log!Event /\ All' = Append(All, built[w]) /\ Len(All') = Len(All) + 1
         /\ \A p \in Places : All'[p] = All[p]
         /\ All'[Len(All) + 1] = built[w]
         /\ ring' \in Seq(Log!Event) /\ Len(ring') <= Cap /\ evicted' \in Seq(Log!Event)
         /\ Len(evicted') >= Len(evicted)
<1>1. built[w] \in Log!Event /\ built[w] # None
  BY DEF Log!Push, Log!TypeOK
<1>n. /\ ring \in Seq(Log!Event) /\ evicted \in Seq(Log!Event) /\ Len(ring) \in Nat /\ Len(evicted) \in Nat
      /\ Len(ring) <= Cap /\ Cap \in Nat /\ Cap > 0
  BY LogNumbers DEF Log!TypeOK
<1>2. CASE Log!RingFull
  <2>1. ring' = Append(Tail(ring), built[w]) /\ evicted' = Append(evicted, Head(ring))
    BY <1>2 DEF Log!Push
  <2>2. ring # <<>>
    BY <1>2, <1>n, EmptySeq DEF Log!RingFull
  <2>3. /\ evicted' \in Seq(Log!Event) /\ Tail(ring) \in Seq(Log!Event)
        /\ evicted' \o Tail(ring) = All
    BY <1>n, <2>1, <2>2, Moved DEF All
  <2>4. All' = Append(All, built[w])
    BY <1>1, <2>1, <2>3, Appended DEF All
  <2>5. Len(Tail(ring)) = Len(ring) - 1 /\ Head(ring) \in Log!Event
    BY <1>n, <2>2, HeadTailProperties
  <2>6. ring' \in Seq(Log!Event) /\ Len(ring') = Len(ring) /\ Len(evicted') = Len(evicted) + 1
    BY <1>1, <1>n, <2>1, <2>3, <2>5, AppendProperties
  <2> QED BY <1>1, <1>n, <2>3, <2>4, <2>6, LogNumbers, AppendProperties DEF Places
<1>3. CASE ~Log!RingFull
  <2>1. ring' = Append(ring, built[w]) /\ evicted' = evicted
    BY <1>3 DEF Log!Push
  <2>2. All' = Append(All, built[w])
    BY <1>1, <1>n, <2>1, Appended DEF All
  <2>3. ring' \in Seq(Log!Event) /\ Len(ring') = Len(ring) + 1
    BY <1>1, <1>n, <2>1, AppendProperties
  <2>4. Len(ring') <= Cap
    BY <1>3, <1>n, <2>3 DEF Log!RingFull
  <2> QED BY <1>1, <1>n, <2>1, <2>2, <2>3, <2>4, LogNumbers, AppendProperties DEF Places
<1> QED BY <1>2, <1>3

\* The first n of a finite set of numbers: whoever comes before one of them is one.
LEMMA FirstOnes ==
  ASSUME NEW m \in Nat, NEW S \in SUBSET (1 .. m), NEW n \in Nat,
         NEW p \in Log!Upto(S, n), NEW q \in S, q <= p
  PROVE  q \in Log!Upto(S, n)
<1> DEFINE Below(x) == { y \in S : y <= x }
<1>1. p \in S /\ Cardinality(Below(p)) <= n
  BY SameSets DEF Log!Upto
<1>2. IsFiniteSet(1 .. m)
  BY FS_Interval
<1>3. Below(q) \in SUBSET Below(p) /\ Below(p) \in SUBSET (1 .. m)
  <2>1. \A y \in S : y \in Nat
    OBVIOUS
  <2>2. \A y \in S : y <= q => y <= p
    BY <1>1, <2>1
  <2> QED BY <2>2
<1>4. IsFiniteSet(Below(p))
  BY <1>2, <1>3, FS_Subset
<1>5. /\ Cardinality(Below(q)) <= Cardinality(Below(p))
      /\ Cardinality(Below(q)) \in Nat /\ Cardinality(Below(p)) \in Nat
  BY <1>3, <1>4, FS_Subset, FS_CardinalityType
<1>6. Cardinality(Below(q)) <= n
  BY <1>1, <1>5
<1> QED BY <1>6, SameSets DEF Log!Upto

\* A round sends a set of places, each newer than the stream and with all that are
\* newer before it, and the stream's position becomes the stamp of the last of them.
Sends(S) ==
  /\ S \in SUBSET Places /\ UNCHANGED <<now, built, ring, evicted, open>> /\ open
  /\ \A p \in S : p > Len(evicted) /\ All[p].ts > last
  /\ S = {} => last' = last
  /\ S # {} => \E k \in S :
       /\ last' = All[k].ts
       /\ \A p \in Places : p > k => p \notin S
       /\ \A p \in Places : p > Len(evicted) /\ p < k /\ All[p].ts > last => p \in S
  /\ \A p \in Places : sent'[All[p].id] = IF p \in S THEN sent[All[p].id] + 1 ELSE sent[All[p].id]
  /\ \A i \in Ids : (\A p \in Places : All[p].id # i) => sent'[i] = sent[i]
  /\ sent' \in [Ids -> Nat]

LEMMA RoundSends ==
  ASSUME Log!EventLogAssumption, LogInv, Log!Round
  PROVE  \E S : Sends(S)
<1> DEFINE T == Log!since(last, Batch)
           e == Len(evicted)
           S == { p \in Places : p > e /\ p - e \in T }
<1>n. /\ ring \in Seq(Log!Event) /\ evicted \in Seq(Log!Event) /\ Len(ring) \in Nat /\ e \in Nat
      /\ Len(All) = e + Len(ring) /\ Batch \in Nat /\ sent \in [Ids -> Nat]
      /\ \A p \in Places : All[p].id \in Ids
  BY LogNumbers DEF LogInv, Log!TypeOK
<1>r. \A j \in 1 .. Len(ring) : e + j \in Places /\ All[e + j] = ring[j]
  BY <1>n, Joined DEF All, Places
<1>d. DOMAIN ring = 1 .. Len(ring)
  BY <1>n, LenProperties
<1>1. Log!Newer(last) = { j \in 1 .. Len(ring) : ring[j].ts > last }
  BY <1>d DEF Log!Newer
<1>2. T \in SUBSET Log!Newer(last) /\ Log!Newer(last) \in SUBSET (1 .. Len(ring))
  BY <1>1 DEF Log!since, Log!Upto
<1>3. \A p \in T, q \in Log!Newer(last) : q <= p => q \in T
  BY <1>n, <1>2, FirstOnes DEF Log!since
<1>4. /\ UNCHANGED <<now, built, ring, evicted, open>> /\ open
      /\ \/ T = {} /\ last' = last
         \/ \E p \in T : (\A q \in T : q <= p) /\ last' = ring[p].ts
      /\ sent' = [i \in Ids |-> sent[i] + Log!Cardinality({ p \in T : ring[p].id = i })]
  BY DEF Log!Round
<1> HIDE DEF T
<1>5. \A j \in T : e + j \in S /\ All[e + j] = ring[j]
  BY <1>n, <1>r, <1>1, <1>2
<1>6. \A p \in S : p - e \in T /\ p = e + (p - e) /\ All[p] = ring[p - e] /\ ring[p - e].ts > last
  <2> SUFFICES ASSUME NEW p \in S
               PROVE  p - e \in T /\ p = e + (p - e) /\ All[p] = ring[p - e] /\ ring[p - e].ts > last
    OBVIOUS
  <2>1. p - e \in T /\ p \in Nat /\ p > e
    BY DEF Places
  <2>2. p = e + (p - e)
    BY <1>n, <2>1
  <2>3. p - e \in 1 .. Len(ring) /\ ring[p - e].ts > last
    BY <1>1, <1>2, <2>1
  <2>4. All[e + (p - e)] = ring[p - e]
    BY <1>r, <2>3
  <2> QED BY <2>1, <2>2, <2>3, <2>4
<1>7. \A p \in S : p > e /\ All[p].ts > last
  BY <1>6
<1>8. S = {} => last' = last
  BY <1>4, <1>5
<1>9. ASSUME S # {}
      PROVE  \E k \in S :
               /\ last' = All[k].ts
               /\ \A p \in Places : p > k => p \notin S
               /\ \A p \in Places : p > e /\ p < k /\ All[p].ts > last => p \in S
  <2>1. PICK j \in T : (\A q \in T : q <= j) /\ last' = ring[j].ts
    BY <1>4, <1>6, <1>9
  <2> DEFINE k == e + j
  <2>2. k \in S /\ last' = All[k].ts /\ j \in Nat
    BY <1>1, <1>2, <1>5, <2>1
  <2>3. ASSUME NEW p \in S PROVE p <= k
    <3>1. p - e <= j /\ p \in Nat
      BY <1>6, <2>1, <2>3 DEF Places
    <3> QED BY <1>n, <2>2, <3>1
  <2>4. ASSUME NEW p \in Places, p > e, p < k, All[p].ts > last PROVE p \in S
    <3>1. p - e \in 1 .. Len(ring) /\ p = e + (p - e) /\ p - e <= j
      BY <1>n, <2>2, <2>4 DEF Places
    <3>2. All[p] = ring[p - e]
      BY <1>r, <3>1
    <3>3. p - e \in Log!Newer(last)
      BY <1>1, <2>4, <3>1, <3>2
    <3>4. p - e \in T
      BY <1>3, <2>1, <3>1, <3>3
    <3> QED BY <2>4, <3>4
  <2>5. \A p \in Places : p > k => p \notin S
    <3>1. k \in Nat /\ \A p \in Places : p \in Nat
      BY <1>n, <2>2 DEF Places
    <3> QED BY <2>3, <3>1
  <2> QED BY <2>2, <2>4, <2>5
<1>10. ASSUME NEW p \in Places, p \in S PROVE sent'[All[p].id] = sent[All[p].id] + 1
  <2>1. \A j \in T : ring[j].id = All[p].id => j = p - e
    <3> SUFFICES ASSUME NEW j \in T, ring[j].id = All[p].id PROVE j = p - e
      OBVIOUS
    <3>1. e + j \in Places /\ All[e + j].id = All[p].id
      BY <1>5
    <3>2. e + j = p
      BY <3>1 DEF LogInv, Distinct
    <3> QED BY <1>n, <1>1, <1>2, <3>2
  <2>2. { j \in T : ring[j].id = All[p].id } = {p - e}
    BY <1>6, <1>10, <2>1
  <2>3. Log!Cardinality({ j \in T : ring[j].id = All[p].id }) = 1
    BY <2>2, FS_Singleton, SameSets
  <2> QED BY <1>4, <1>n, <2>3
<1>11. ASSUME NEW i \in Ids, \A p \in S : All[p].id # i PROVE sent'[i] = sent[i]
  <2>1. { j \in T : ring[j].id = i } = {}
    BY <1>5, <1>11
  <2>2. Log!Cardinality({ j \in T : ring[j].id = i }) = 0
    BY <2>1, FS_EmptySet, SameSets
  <2> QED BY <1>4, <1>n, <2>2
<1>12. ASSUME NEW p \in Places, p \notin S PROVE sent'[All[p].id] = sent[All[p].id]
  <2>1. \A q \in S : All[q].id # All[p].id
    BY <1>12 DEF LogInv, Distinct
  <2> QED BY <1>n, <1>11, <2>1
<1>13. sent' \in [Ids -> Nat]
  <2> SUFFICES ASSUME NEW i \in Ids PROVE sent'[i] \in Nat
    BY <1>4
  <2>1. CASE \E p \in S : All[p].id = i
    BY <1>n, <1>10, <2>1
  <2>2. CASE \A p \in S : All[p].id # i
    BY <1>n, <1>11, <2>2
  <2> QED BY <2>1, <2>2
<1>14. S \in SUBSET Places
  OBVIOUS
<1> HIDE DEF S
<1>15. Sends(S)
  BY <1>4, <1>7, <1>8, <1>9, <1>10, <1>11, <1>12, <1>13, <1>14 DEF Sends
<1> QED BY <1>15

LEMMA LogTyping ==
  ASSUME Log!EventLogAssumption, MaxTime \in Nat, LogInv, [Log!Next]_(Log!vars)
  PROVE  Log!TypeOK'
<1> USE DEF Log!TypeOK
<1>t. Log!TypeOK
  BY DEF LogInv
<1>1. ASSUME NEW w \in Workers, NEW id \in Ids, Log!Stamp(w, id) PROVE Log!TypeOK'
  <2>1. [id |-> id, ts |-> now] \in Log!Event
    BY <1>t DEF Log!Event
  <2> QED BY <1>t, <1>1, <2>1 DEF Log!Stamp
<1>2. ASSUME NEW w \in Workers, Log!Push(w) PROVE Log!TypeOK'
  <2>1. ring' \in Seq(Log!Event) /\ Len(ring') <= Cap /\ evicted' \in Seq(Log!Event)
    BY <1>t, <1>2, Pushed
  <2> QED BY <1>t, <1>2, <2>1 DEF Log!Push
<1>0. 0 \in 0 .. MaxTime /\ [i \in Ids |-> 0] \in [Ids -> Nat]
  OBVIOUS
<1>3. CASE Log!Connect \/ Log!Disconnect
  <2>1. last' \in 0 .. MaxTime /\ sent' \in [Ids -> Nat]
    BY <1>t, <1>0, <1>3 DEF Log!Connect, Log!Disconnect
  <2> QED BY <1>t, <1>3, <2>1 DEF Log!Connect, Log!Disconnect
<1>4. CASE Log!Round
  <2>1. PICK S : Sends(S)
    BY <1>4, RoundSends
  <2>2. UNCHANGED <<now, built, ring, evicted, open>> /\ sent' \in [Ids -> Nat]
    BY <2>1 DEF Sends
  <2>3. last' \in 0 .. MaxTime
    <3>1. CASE S = {}
      BY <1>t, <2>1, <3>1 DEF Sends
    <3>2. CASE S # {}
      <4>1. PICK k \in Places : last' = All[k].ts
        BY <2>1, <3>2 DEF Sends
      <4>2. All[k].ts \in Log!Times
        BY <1>t, LogNumbers DEF Log!Event
      <4> QED BY <4>1, <4>2 DEF Log!Times
    <3> QED BY <3>1, <3>2
  <2> QED BY <1>t, <2>2, <2>3
<1>5. CASE Log!Restart
  <2>1. /\ now' = now /\ built' = [w \in Workers |-> None] /\ ring' = <<>> /\ evicted' = <<>>
        /\ open' = FALSE /\ last' = 0 /\ sent' = [i \in Ids |-> 0]
    BY <1>5 DEF Log!Restart
  <2>2. Len(ring') <= Cap /\ ring' \in Seq(Log!Event) /\ evicted' \in Seq(Log!Event)
    BY <1>t, <2>1, LogNumbers, EmptySeq
  <2> QED BY <1>t, <1>0, <2>1, <2>2
<1>6. CASE Log!TimePasses
  BY <1>t, <1>6 DEF Log!TimePasses, Log!Times
<1>7. CASE UNCHANGED Log!vars
  BY <1>t, <1>7 DEF Log!vars
<1> QED BY <1>1, <1>2, <1>3, <1>4, <1>5, <1>6, <1>7 DEF Log!Next

\* An event that is recorded, or stamped, is neither any more.
LEMMA DistinctKept ==
  ASSUME Log!EventLogAssumption, LogInv, [Log!Next]_(Log!vars)
  PROVE  Distinct'
<1>n. /\ built \in [Workers -> Log!Event \cup {None}] /\ None \notin Log!Event /\ Len(All) \in Nat
      /\ Log!TypeOK /\ \A p, q \in Places : p # q => All[p].id # All[q].id
  BY LogNumbers DEF LogInv, Log!TypeOK, Distinct
<1>d. ASSUME NEW w \in Workers, built[w] # None
      PROVE  /\ \A p \in Places : All[p].id # built[w].id
             /\ \A v \in Workers \ {w} : built[v] # None => built[v].id # built[w].id
  BY <1>d DEF LogInv, Distinct
<1>s. ASSUME All' = All, \A w \in Workers : built'[w] # None => built'[w] = built[w] PROVE Distinct'
  BY <1>s DEF LogInv, Distinct, Places
<1>1. ASSUME NEW w \in Workers, NEW id \in Ids, Log!Stamp(w, id) PROVE Distinct'
  <2>1. /\ All' = All /\ built' = [built EXCEPT ![w] = [id |-> id, ts |-> now]]
        /\ id \notin Log!Recorded \cup Log!Held
    BY <1>1 DEF Log!Stamp, All
  <2>2. \A p \in Places : All[p].id # id
    <3>1. DOMAIN All = Places
      BY LogNumbers, LenProperties DEF LogInv, Places
    <3> QED BY <2>1, <3>1 DEF Log!Recorded, Log!Log, All
  <2>3. \A v \in Workers : built[v] # None => built[v].id # id
    BY <2>1 DEF Log!Held
  <2>4. built'[w].id = id /\ \A v \in Workers \ {w} : built'[v] = built[v]
    BY <1>n, <2>1
  <2>5. ASSUME NEW v \in Workers, built'[v] # None
        PROVE  /\ \A p \in Places : All[p].id # built'[v].id
               /\ \A u \in Workers \ {v} : built'[u] # None => built'[u].id # built'[v].id
    <3>1. CASE v = w
      BY <2>2, <2>3, <2>4, <3>1
    <3>2. CASE v # w
      BY <1>d, <2>3, <2>4, <2>5, <3>2
    <3> QED BY <3>1, <3>2
  <2> QED BY <1>n, <2>1, <2>5 DEF Distinct, Places
<1>2. ASSUME NEW w \in Workers, Log!Push(w) PROVE Distinct'
  <2>1. /\ Len(All') = Len(All) + 1 /\ \A p \in Places : All'[p] = All[p]
        /\ All'[Len(All) + 1] = built[w] /\ built[w] # None
    BY <1>n, <1>2, Pushed DEF Log!Push
  <2>2. Places' = Places \cup {Len(All) + 1} /\ Len(All) + 1 \notin Places
    BY <1>n, <2>1 DEF Places
  <2>3. built'[w] = None /\ \A v \in Workers \ {w} : built'[v] = built[v]
    BY <1>n, <1>2 DEF Log!Push
  <2>4. \A p, q \in Places' : p # q => All'[p].id # All'[q].id
    BY <1>n, <1>d, <2>1, <2>2
  <2>5. ASSUME NEW v \in Workers, built'[v] # None
        PROVE  /\ \A p \in Places' : All'[p].id # built'[v].id
               /\ \A u \in Workers \ {v} : built'[u] # None => built'[u].id # built'[v].id
    <3>1. v # w /\ built'[v] = built[v]
      BY <2>3, <2>5
    <3>2. built[w].id # built[v].id
      BY <1>d, <2>1, <3>1, <2>5
    <3> QED BY <1>d, <2>1, <2>2, <2>3, <2>5, <3>1, <3>2
  <2> QED BY <2>4, <2>5 DEF Distinct
<1>3. CASE Log!Connect \/ Log!Round \/ Log!Disconnect \/ Log!TimePasses \/ UNCHANGED Log!vars
  BY <1>3, <1>s DEF Log!Connect, Log!Round, Log!Disconnect, Log!TimePasses, Log!vars, All
<1>4. CASE Log!Restart
  <2>1. Len(All') = 0 /\ \A w \in Workers : built'[w] = None
    BY <1>4, EmptyJoined, EmptySeq DEF Log!Restart, All
  <2> QED BY <2>1 DEF Distinct, Places
<1> QED BY <1>1, <1>2, <1>3, <1>4 DEF Log!Next

\* The stream's part of the invariant, when nothing is recorded, sent or connected.
Stream == Unsent /\ LastSeen /\ Reached /\ ShownOnce /\ PassedOver

LEMMA StreamSame ==
  ASSUME Stream, UNCHANGED <<All, evicted, last, sent>>, open' => open
  PROVE  Stream'
<1>1. Places' = Places
  BY DEF Places
<1>2. Unsent' /\ LastSeen'
  BY <1>1 DEF Stream, Unsent, LastSeen
<1>3. Reached'
  BY <1>1 DEF Stream, Reached
<1>4. ShownOnce'
  BY <1>1 DEF Stream, ShownOnce
<1>5. PassedOver'
  BY <1>1 DEF Stream, PassedOver
<1> QED BY <1>2, <1>3, <1>4, <1>5 DEF Stream

\* A stream that begins has shown nothing, and every stamp is before it.
LEMMA StreamFresh ==
  ASSUME last' = 0, sent' = [i \in Ids |-> 0],
         \A p \in Places' : All'[p].id \in Ids /\ All'[p].ts \in Nat /\ All'[p].ts >= 1
  PROVE  Stream'
<1>1. \A i \in Ids : sent'[i] = 0
  OBVIOUS
<1>2. \A p \in Places' : sent'[All'[p].id] = 0 /\ ~(All'[p].ts <= last')
  <2> SUFFICES ASSUME NEW p \in Places' PROVE sent'[All'[p].id] = 0 /\ ~(All'[p].ts <= last')
    OBVIOUS
  <2>1. All'[p].id \in Ids /\ All'[p].ts \in Nat /\ All'[p].ts >= 1
    OBVIOUS
  <2>2. ~(All'[p].ts <= 0)
    BY <2>1
  <2> QED BY <1>1, <2>1, <2>2
<1>3. Unsent' /\ LastSeen'
  BY <1>1 DEF Unsent, LastSeen
<1>4. Reached' /\ ShownOnce' /\ PassedOver'
  BY <1>2 DEF Reached, ShownOnce, PassedOver
<1> QED BY <1>3, <1>4 DEF Stream

\* A new event has been shown to nobody; if the stream is past its stamp, it is past
\* it because of an event recorded before.
LEMMA StreamGrows ==
  ASSUME Log!EventLogAssumption, LogInv, NEW w \in Workers, Log!Push(w)
  PROVE  Stream'
<1> DEFINE n == Len(All) + 1
           e == built[w]
<1>n. /\ Log!TypeOK /\ Len(All) \in Nat /\ n \in Nat /\ last \in Nat /\ sent \in [Ids -> Nat]
      /\ Len(evicted) \in Nat /\ \A p \in Places : All[p].ts \in Nat /\ All[p].ts >= 1 /\ All[p].id \in Ids
  BY LogNumbers DEF LogInv, Log!TypeOK
<1>1. /\ Len(All') = n /\ (\A p \in Places : All'[p] = All[p]) /\ All'[n] = e
      /\ e \in Log!Event /\ Len(evicted') >= Len(evicted) /\ evicted' \in Seq(Log!Event)
      /\ UNCHANGED <<last, sent, open>> /\ e # None
  BY <1>n, Pushed DEF Log!Push
<1>2. Places' = Places \cup {n} /\ n \notin Places /\ Places \in SUBSET Nat
  BY <1>n, <1>1 DEF Places
<1>3. Len(evicted') \in Nat /\ \A p \in Nat : p > Len(evicted') => p > Len(evicted)
  <2> DEFINE x == Len(evicted')
  <2>1. x \in Nat /\ x >= Len(evicted)
    BY <1>1, LenProperties
  <2> HIDE DEF x
  <2>2. \A p \in Nat : p > x => p > Len(evicted)
    BY <1>n, <2>1
  <2> QED BY <2>1, <2>2 DEF x
<1>4. sent[e.id] = 0 /\ e.id \in Ids /\ e.ts \in Nat /\ e.ts >= 1
  <2>1. \A p \in Places : All[p].id # e.id
    BY <1>1 DEF LogInv, Distinct
  <2>2. e.id \in Ids /\ e.ts \in Nat /\ e.ts >= 1
    BY <1>1 DEF Log!Event, Log!Times
  <2> QED BY <2>1, <2>2 DEF LogInv, Unsent
<1> HIDE DEF e
<1>5. ASSUME NEW p \in Places PROVE p + 1 .. Len(All) \in SUBSET (p + 1 .. n) /\ \A q \in p + 1 .. Len(All) : q \in Places
  BY <1>n, <1>5 DEF Places
<1>6. Unsent'
  <2> SUFFICES ASSUME NEW i \in Ids, \A p \in Places' : All'[p].id # i PROVE sent'[i] = 0
    BY DEF Unsent
  <2>1. \A p \in Places : All[p].id # i
    BY <1>1, <1>2
  <2> QED BY <1>1, <2>1 DEF LogInv, Unsent
<1>7. LastSeen'
  BY <1>1, <1>2 DEF LogInv, LastSeen
<1>8. Reached'
  <2> SUFFICES ASSUME NEW p \in Places', sent'[All'[p].id] > 0
               PROVE  last' >= All'[p].ts \/ \E q \in p + 1 .. Len(All') : All'[q].ts < All'[p].ts
    BY DEF Reached
  <2>1. p \in Places /\ All'[p] = All[p] /\ sent[All[p].id] > 0
    BY <1>1, <1>2, <1>4
  <2>2. last >= All[p].ts \/ \E q \in p + 1 .. Len(All) : All[q].ts < All[p].ts
    BY <2>1 DEF LogInv, Reached
  <2> QED BY <1>1, <1>5, <2>1, <2>2
<1>9. ShownOnce'
  <2> SUFFICES ASSUME NEW p \in Places', sent'[All'[p].id] > 1
               PROVE  \E q \in p + 1 .. Len(All') : All'[q].ts < All'[p].ts
    BY DEF ShownOnce
  <2>1. p \in Places /\ All'[p] = All[p] /\ sent[All[p].id] > 1
    BY <1>1, <1>2, <1>4
  <2>2. \E q \in p + 1 .. Len(All) : All[q].ts < All[p].ts
    BY <2>1 DEF LogInv, ShownOnce
  <2> QED BY <1>1, <1>5, <2>1, <2>2
<1>10. PassedOver'
  <2> SUFFICES ASSUME NEW p \in Places', open', p > Len(evicted'), All'[p].ts <= last', sent'[All'[p].id] = 0
               PROVE  \E q \in 1 .. p - 1 : All'[q].ts >= All'[p].ts
    BY DEF PassedOver
  <2>1. CASE p \in Places
    <3>1. \E q \in 1 .. p - 1 : All[q].ts >= All[p].ts
      BY <1>1, <1>2, <1>3, <2>1 DEF LogInv, PassedOver
    <3>2. \A q \in 1 .. p - 1 : q \in Places
      BY <1>n, <2>1 DEF Places
    <3> QED BY <1>1, <2>1, <3>1, <3>2
  <2>2. CASE p = n
    <3>1. last # 0 /\ e.ts <= last
      BY <1>1, <1>4, <1>n, <2>2
    <3>2. PICK q \in Places : All[q].ts = last
      BY <3>1 DEF LogInv, LastSeen
    <3>3. q \in 1 .. n - 1 /\ All'[q] = All[q]
      BY <1>n, <1>1, <3>2 DEF Places
    <3> QED BY <1>1, <1>n, <1>4, <2>2, <3>1, <3>2, <3>3
  <2> QED BY <1>2, <2>1, <2>2
<1> QED BY <1>6, <1>7, <1>8, <1>9, <1>10 DEF Stream

\* A round shows what is newer than the stream's position, so nothing again unless an
\* earlier stamp came after it, and leaves out nothing before the last event it shows.
LEMMA StreamRound ==
  ASSUME Log!EventLogAssumption, LogInv, NEW S, Sends(S)
  PROVE  Stream'
<1>n. /\ Len(All) \in Nat /\ last \in Nat /\ sent \in [Ids -> Nat] /\ Len(evicted) \in Nat
      /\ \A p \in Places : All[p].ts \in Nat /\ All[p].ts >= 1 /\ All[p].id \in Ids
  BY LogNumbers DEF LogInv, Log!TypeOK
<1>c. \A p \in Places : sent[All[p].id] \in Nat
  BY <1>n
<1>1. UNCHANGED <<All, evicted, open>> /\ Places' = Places /\ S \in SUBSET Places
  BY DEF Sends, All, Places
<1>2. \A p \in S : p > Len(evicted) /\ All[p].ts > last
  BY DEF Sends
<1>3. \A p \in Places : sent'[All[p].id] = IF p \in S THEN sent[All[p].id] + 1 ELSE sent[All[p].id]
  BY DEF Sends
<1>o. \A p \in Places : p \in Nat
  BY DEF Places
<1>4. Unsent'
  <2> SUFFICES ASSUME NEW i \in Ids, \A p \in Places : All[p].id # i PROVE sent'[i] = 0
    BY <1>1 DEF Unsent
  <2> QED BY DEF Sends, LogInv, Unsent
<1>5. CASE S = {}
  <2>1. last' = last /\ \A p \in Places : sent'[All[p].id] = sent[All[p].id]
    BY <1>3, <1>5 DEF Sends
  <2>2. LastSeen'
    BY <1>1, <2>1 DEF LogInv, LastSeen
  <2>3. Reached'
    BY <1>1, <2>1 DEF LogInv, Reached
  <2>4. ShownOnce'
    BY <1>1, <2>1 DEF LogInv, ShownOnce
  <2>5. PassedOver'
    BY <1>1, <2>1 DEF LogInv, PassedOver
  <2> QED BY <1>4, <2>2, <2>3, <2>4, <2>5 DEF Stream
<1>6. CASE S # {}
  <2>1. PICK k \in S : /\ last' = All[k].ts
                       /\ \A p \in Places : p > k => p \notin S
                       /\ \A p \in Places : p > Len(evicted) /\ p < k /\ All[p].ts > last => p \in S
    BY <1>6 DEF Sends
  <2>k. k \in Places /\ k \in Nat /\ All[k].ts \in Nat /\ All[k].ts > last
    BY <1>1, <1>2, <1>n, <1>o, <2>1
  <2>2. LastSeen'
    BY <1>1, <2>1, <2>k DEF LastSeen
  <2>3. Reached'
    <3> SUFFICES ASSUME NEW p \in Places, sent'[All[p].id] > 0
                 PROVE  All[k].ts >= All[p].ts \/ \E q \in p + 1 .. Len(All) : All[q].ts < All[p].ts
      BY <1>1, <2>1 DEF Reached
    <3>1. CASE p \in S
      <4>1. p <= k
        BY <1>o, <2>1, <2>k, <3>1
      <4>2. CASE k = p
        BY <1>n, <2>k, <4>2
      <4>3. CASE k # p
        <5>1. k \in p + 1 .. Len(All)
          BY <1>o, <1>n, <2>k, <4>1, <4>3 DEF Places
        <5>2. All[k].ts >= All[p].ts \/ All[k].ts < All[p].ts
          BY <1>n, <2>k
        <5> QED BY <5>1, <5>2
      <4> QED BY <4>2, <4>3
    <3>2. CASE p \notin S
      <4>1. sent[All[p].id] > 0
        BY <1>3, <3>2
      <4>2. last >= All[p].ts \/ \E q \in p + 1 .. Len(All) : All[q].ts < All[p].ts
        BY <4>1 DEF LogInv, Reached
      <4> QED BY <1>n, <2>k, <4>2
    <3> QED BY <3>1, <3>2
  <2>4. ShownOnce'
    <3> SUFFICES ASSUME NEW p \in Places, sent'[All[p].id] > 1
                 PROVE  \E q \in p + 1 .. Len(All) : All[q].ts < All[p].ts
      BY <1>1 DEF ShownOnce
    <3>1. CASE p \in S
      <4>1. sent[All[p].id] > 0 /\ All[p].ts > last
        BY <1>2, <1>3, <1>c, <3>1
      <4>2. last >= All[p].ts \/ \E q \in p + 1 .. Len(All) : All[q].ts < All[p].ts
        BY <4>1 DEF LogInv, Reached
      <4> QED BY <1>n, <4>1, <4>2
    <3>2. CASE p \notin S
      <4>1. sent[All[p].id] > 1
        BY <1>3, <3>2
      <4> QED BY <4>1 DEF LogInv, ShownOnce
    <3> QED BY <3>1, <3>2
  <2>5. PassedOver'
    <3> SUFFICES ASSUME NEW p \in Places, open, p > Len(evicted), All[p].ts <= All[k].ts,
                        sent'[All[p].id] = 0
                 PROVE  \E q \in 1 .. p - 1 : All[q].ts >= All[p].ts
      BY <1>1, <2>1 DEF PassedOver
    <3>1. p \notin S /\ sent[All[p].id] = 0
      <4>1. p \in S => sent'[All[p].id] = sent[All[p].id] + 1
        BY <1>3
      <4>2. p \notin S
        BY <1>c, <4>1
      <4> QED BY <1>3, <4>2
    <3>2. CASE All[p].ts <= last
      BY <3>1, <3>2 DEF LogInv, PassedOver
    <3>3. CASE ~(All[p].ts <= last)
      <4>1. p # k /\ ~(p < k)
        BY <1>n, <2>1, <3>1, <3>3
      <4>2. k \in 1 .. p - 1
        BY <1>o, <2>k, <4>1 DEF Places
      <4> QED BY <1>n, <2>k, <4>2
    <3> QED BY <3>2, <3>3
  <2> QED BY <1>4, <2>2, <2>3, <2>4, <2>5 DEF Stream
<1> QED BY <1>5, <1>6

LEMMA LogInvInit ==
  ASSUME Log!EventLogAssumption, MaxTime \in Nat \ {0}, Log!Init
  PROVE  LogInv
<1>1. now = 1 /\ ring = <<>> /\ evicted = <<>> /\ open = FALSE /\ last = 0
      /\ built = [w \in Workers |-> None] /\ sent = [i \in Ids |-> 0]
  BY DEF Log!Init
<1>2. Log!TypeOK
  <2>1. Len(ring) <= Cap /\ ring \in Seq(Log!Event) /\ evicted \in Seq(Log!Event)
    BY <1>1, EmptySeq DEF Log!EventLogAssumption
  <2>2. now \in Log!Times /\ last \in 0 .. MaxTime
    BY <1>1 DEF Log!Times
  <2>3. sent \in [Ids -> Nat] /\ built \in [Workers -> Log!Event \cup {None}] /\ open \in BOOLEAN
    BY <1>1
  <2> QED BY <2>1, <2>2, <2>3 DEF Log!TypeOK
<1>3. Len(All) = 0
  BY <1>1, EmptyJoined, EmptySeq DEF All
<1>4. Places = {}
  BY <1>3 DEF Places
<1>5. Distinct /\ Unsent /\ LastSeen /\ Reached /\ ShownOnce /\ PassedOver
  BY <1>1, <1>4 DEF Distinct, Unsent, LastSeen, Reached, ShownOnce, PassedOver
<1> QED BY <1>2, <1>5 DEF LogInv

LEMMA LogInvKept ==
  ASSUME Log!EventLogAssumption, MaxTime \in Nat
  PROVE  LogInv /\ [Log!Next]_(Log!vars) => LogInv'
<1> SUFFICES ASSUME LogInv, [Log!Next]_(Log!vars) PROVE LogInv'
  OBVIOUS
<1>1. Log!TypeOK' /\ Distinct'
  BY LogTyping, DistinctKept
<1>2. Stream
  BY DEF LogInv, Stream
<1>3. CASE \E w \in Workers : Log!Push(w)
  <2>1. Stream'
    BY <1>3, StreamGrows
  <2> QED BY <1>1, <2>1 DEF LogInv, Stream
<1>4. CASE Log!Round
  <2>1. Stream'
    BY <1>4, RoundSends, StreamRound
  <2> QED BY <1>1, <2>1 DEF LogInv, Stream
<1>5. CASE Log!Connect \/ Log!Disconnect \/ Log!Restart
  <2>1. last' = 0 /\ sent' = [i \in Ids |-> 0]
    BY <1>5 DEF Log!Connect, Log!Disconnect, Log!Restart
  <2>2. \A p \in Places' : All'[p].id \in Ids /\ All'[p].ts \in Nat /\ All'[p].ts >= 1
    <3>1. CASE Log!Connect \/ Log!Disconnect
      <4>1. All' = All /\ Places' = Places
        BY <3>1 DEF Log!Connect, Log!Disconnect, All, Places
      <4> QED BY <4>1, LogNumbers DEF LogInv
    <3>2. CASE Log!Restart
      <4>1. Len(All') = 0
        BY <3>2, EmptyJoined, EmptySeq DEF Log!Restart, All
      <4> QED BY <4>1 DEF Places
    <3> QED BY <1>5, <3>1, <3>2
  <2>3. Stream'
    BY <2>1, <2>2, StreamFresh
  <2> QED BY <1>1, <2>3 DEF LogInv, Stream
<1>6. CASE (\E w \in Workers, id \in Ids : Log!Stamp(w, id)) \/ Log!TimePasses
           \/ UNCHANGED Log!vars
  <2>1. UNCHANGED <<All, evicted, last, sent>> /\ (open' => open)
    BY <1>6 DEF Log!Stamp, Log!TimePasses, Log!vars, All
  <2>2. Stream'
    BY <1>2, <2>1, StreamSame
  <2> QED BY <1>1, <2>2 DEF LogInv, Stream
<1> QED BY <1>3, <1>4, <1>5, <1>6 DEF Log!Next

LEMMA LogExact ==
  ASSUME Log!EventLogAssumption, LogInv
  PROVE  Log!StreamExact
<1>1. DOMAIN All = Places
  BY LogNumbers, LenProperties DEF LogInv, Places
<1>2. Log!Log = All
  BY DEF Log!Log, All
<1> QED BY <1>1, <1>2 DEF LogInv, ShownOnce, PassedOver, Log!StreamExact

\* What the live stream repeats or leaves out (events.rs:100-104, admin.rs:617-623), when
\* the ring is recorded to, read and evicted from by anyone at any time.
THEOREM EventLogStreamExact ==
  ASSUME Log!EventLogAssumption, MaxTime \in Nat \ {0}
  PROVE  Log!Spec => []Log!StreamExact
<1>1. Log!Init => LogInv
  BY LogInvInit
<1>2. LogInv /\ [Log!Next]_(Log!vars) => LogInv'
  BY LogInvKept
<1>3. LogInv => Log!StreamExact
  BY LogExact
<1> QED BY <1>1, <1>2, <1>3, PTL DEF Log!Spec
-----------------------------------------------------------------------------
(* The composition: a step of it is a step of each part, or none, and a    *)
(* thread holds its event in one place.                                    *)

LEMMA LogSteps ==
  [Next]_vars => [Log!Next]_(Log!vars)
<1> SUFFICES ASSUME [Next]_vars PROVE [Log!Next]_(Log!vars)
  OBVIOUS
<1>1. ASSUME NEW w \in Workers, NEW id \in Ids, Finalize(w, id) PROVE Log!Next
  BY <1>1 DEF Finalize, Log!Next
<1>2. ASSUME NEW w \in Workers, Record(w) PROVE Log!Next
  BY <1>2 DEF Record, Log!Next
<1>3. ASSUME NEW w \in Workers, Mirror(w) PROVE UNCHANGED Log!vars
  BY <1>3 DEF Mirror, Store!Submit, Log!vars, logVars
<1>4. ASSUME NEW w \in Workers, SinkStep(w) PROVE UNCHANGED Log!vars
  BY <1>4 DEF SinkStep, Store!Step, Store!Judge, Store!Add, Store!Send, Log!vars, logVars
<1>5. CASE StreamStep \/ TimePasses \/ Restart
  BY <1>5 DEF StreamStep, TimePasses, Restart, Log!Next
<1>6. CASE WriterStep
  <2>1. now' = now
    BY <1>6 DEF WriterStep, Store!Open, Store!Write, Store!Receive, Store!FlushTick, Store!Purge
  <2> QED BY <1>6, <2>1 DEF WriterStep, Log!vars, logVars
<1>7. CASE UNCHANGED vars
  BY <1>7 DEF vars, logVars, Log!vars
<1> QED BY <1>1, <1>2, <1>3, <1>4, <1>5, <1>6, <1>7 DEF Next

LEMMA StoreSteps ==
  [Next]_vars => [Store!Next]_(Store!vars)
<1> SUFFICES ASSUME [Next]_vars PROVE [Store!Next]_(Store!vars)
  OBVIOUS
<1> USE DEF Store!vars, Store!thread, Store!counters, Store!task, storeVars
<1>1. ASSUME NEW w \in Workers, NEW id \in Ids, Finalize(w, id) PROVE UNCHANGED Store!vars
  BY <1>1 DEF Finalize, Log!Stamp
<1>2. ASSUME NEW w \in Workers, Record(w) PROVE UNCHANGED Store!vars
  BY <1>2 DEF Record, Log!Push
<1>3. ASSUME NEW w \in Workers, Mirror(w) PROVE Store!Next
  <2>1. Store!Submit(w, copy[w]) /\ copy[w] \in Ids
    BY <1>3 DEF Mirror, Store!Submit
  <2> QED BY <2>1 DEF Store!Next
<1>4. ASSUME NEW w \in Workers, SinkStep(w) PROVE Store!Next
  BY <1>4 DEF SinkStep, Store!Next
<1>5. CASE StreamStep
  BY <1>5 DEF StreamStep, Log!Connect, Log!Round, Log!Disconnect
<1>6. CASE WriterStep \/ Restart
  BY <1>6 DEF WriterStep, Restart, Store!Next
<1>7. CASE TimePasses
  <2>1. Store!TimePasses
    BY <1>7 DEF TimePasses, Log!TimePasses, Store!TimePasses
  <2> QED BY <2>1 DEF Store!Next
<1>8. CASE UNCHANGED vars
  BY <1>8 DEF vars
<1> QED BY <1>1, <1>2, <1>3, <1>4, <1>5, <1>6, <1>7, <1>8 DEF Next

InHand ==
  /\ copy \in [Workers -> Ids \cup {None}]
  /\ \A w \in Workers : /\ at[w] = "idle" => ev[w] = None
                        /\ built[w] # None => copy[w] = None /\ at[w] = "idle"
                        /\ copy[w] # None => at[w] = "idle"

LEMMA InHandKept ==
  ASSUME Log!TypeOK, Store!TypeOK, InHand, [Next]_vars
  PROVE  InHand'
<1>t. /\ at \in [Workers -> {"idle", "loaded", "add", "send"}]
      /\ ev \in [Workers -> Store!Events \cup {None}] /\ built \in [Workers -> Log!Event \cup {None}]
      /\ copy \in [Workers -> Ids \cup {None}]
  BY DEF Log!TypeOK, Store!TypeOK, InHand
<1>i. \A w \in Workers : /\ at[w] = "idle" => ev[w] = None
                         /\ built[w] # None => copy[w] = None /\ at[w] = "idle"
                         /\ copy[w] # None => at[w] = "idle"
  BY DEF InHand
<1>o. ASSUME NEW w \in Workers, copy' \in [Workers -> Ids \cup {None}],
             \A x \in Workers \ {w} : at'[x] = at[x] /\ ev'[x] = ev[x] /\ built'[x] = built[x] /\ copy'[x] = copy[x],
             at'[w] = "idle" => ev'[w] = None,
             built'[w] # None => copy'[w] = None /\ at'[w] = "idle", copy'[w] # None => at'[w] = "idle"
      PROVE  InHand'
  <2> SUFFICES ASSUME NEW x \in Workers
               PROVE  /\ at'[x] = "idle" => ev'[x] = None
                      /\ built'[x] # None => copy'[x] = None /\ at'[x] = "idle"
                      /\ copy'[x] # None => at'[x] = "idle"
    BY <1>o DEF InHand
  <2>1. CASE x = w
    BY <1>o, <2>1
  <2>2. CASE x # w
    BY <1>o, <1>i, <2>2
  <2> QED BY <2>1, <2>2
<1>1. ASSUME NEW w \in Workers, NEW id \in Ids, Finalize(w, id) PROVE InHand'
  <2>1. /\ at' = at /\ ev' = ev /\ copy' = copy /\ copy[w] = None /\ at[w] = "idle"
        /\ \A x \in Workers \ {w} : built'[x] = built[x]
    BY <1>t, <1>1 DEF Finalize, Free, Log!Stamp, storeVars
  <2> QED BY <1>t, <1>i, <1>o, <2>1
<1>2. ASSUME NEW w \in Workers, Record(w) PROVE InHand'
  <2>1. /\ at' = at /\ ev' = ev /\ built[w] # None /\ built'[w] = None
        /\ copy' = [copy EXCEPT ![w] = built[w].id]
        /\ \A x \in Workers \ {w} : built'[x] = built[x]
    BY <1>t, <1>2 DEF Record, Log!Push, storeVars
  <2>2. built[w] \in Log!Event /\ at[w] = "idle"
    BY <1>t, <1>i, <2>1
  <2>3. built[w].id \in Ids
    BY <2>2 DEF Log!Event
  <2>4. copy' \in [Workers -> Ids \cup {None}] /\ \A x \in Workers \ {w} : copy'[x] = copy[x]
    BY <1>t, <2>1, <2>3
  <2> QED BY <1>t, <1>i, <1>o, <2>1, <2>2, <2>4
<1>3. ASSUME NEW w \in Workers, Mirror(w) PROVE InHand'
  <2>1. /\ built' = built /\ copy[w] # None /\ copy' = [copy EXCEPT ![w] = None] /\ at[w] = "idle"
    BY <1>3 DEF Mirror, logVars, Store!Submit
  <2>2. /\ copy' \in [Workers -> Ids \cup {None}] /\ copy'[w] = None /\ built[w] = None
        /\ \A x \in Workers \ {w} : copy'[x] = copy[x]
    BY <1>t, <1>i, <2>1
  <2>3. (at' = at /\ ev' = ev) \/ (at' = [at EXCEPT ![w] = "loaded"] /\ \A x \in Workers \ {w} : ev'[x] = ev[x])
    BY <1>t, <1>3 DEF Mirror, Store!Submit, Store!thread
  <2>4. /\ \A x \in Workers \ {w} : at'[x] = at[x] /\ ev'[x] = ev[x]
        /\ at'[w] = "idle" => ev'[w] = None
    BY <1>t, <1>i, <2>1, <2>3
  <2> QED BY <1>o, <2>1, <2>2, <2>4
<1>4. ASSUME NEW w \in Workers, SinkStep(w) PROVE InHand'
  <2>1. built' = built /\ copy' = copy
    BY <1>4 DEF SinkStep, logVars
  <2>2. /\ \A x \in Workers \ {w} : at'[x] = at[x] /\ ev'[x] = ev[x]
        /\ at'[w] = "idle" => ev'[w] = None
        /\ at[w] # "idle"
    <3>1. CASE Store!Finished(w) /\ at[w] # "idle"
      BY <1>t, <3>1 DEF Store!Finished
    <3>2. CASE at[w] # "idle" /\ ev' = ev /\ \E l \in {"add", "send"} : at' = [at EXCEPT ![w] = l]
      BY <1>t, <3>2
    <3>3. CASE Store!Judge(w)
      BY <3>1, <3>2, <3>3 DEF Store!Judge
    <3>4. CASE Store!Add(w)
      BY <3>2, <3>4 DEF Store!Add
    <3>5. CASE Store!Send(w)
      BY <3>1, <3>5 DEF Store!Send
    <3> QED BY <1>4, <3>3, <3>4, <3>5 DEF SinkStep, Store!Step
  <2>3. built[w] = None /\ copy[w] = None
    BY <1>i, <2>2
  <2> QED BY <1>t, <1>o, <2>1, <2>2, <2>3
<1>5. ASSUME UNCHANGED <<at, ev, built, copy>> PROVE InHand'
  BY <1>5 DEF InHand
<1>6. CASE StreamStep \/ TimePasses
  BY <1>5, <1>6 DEF StreamStep, TimePasses, storeVars, Log!Connect, Log!Round, Log!Disconnect, Log!TimePasses
<1>7. CASE WriterStep
  BY <1>5, <1>7 DEF WriterStep, logVars, Store!Open, Store!Write, Store!Receive, Store!FlushTick,
                    Store!Purge, Store!thread
<1>8. CASE Restart
  BY <1>8 DEF Restart, Log!Restart, Store!Restart, InHand
<1>9. CASE UNCHANGED vars
  BY <1>5, <1>9 DEF vars, logVars, storeVars
<1> QED BY <1>1, <1>2, <1>3, <1>4, <1>6, <1>7, <1>8, <1>9 DEF Next

LEMMA Typed ==
  ASSUME Log!TypeOK, Store!TypeOK, InHand
  PROVE  TypeOK
<1> SUFFICES ASSUME NEW w \in Workers
             PROVE  Cardinality({ x \in {built[w], copy[w], ev[w]} : x # None }) <= 1
  BY DEF TypeOK, InHand
<1> DEFINE Held == { x \in {built[w], copy[w], ev[w]} : x # None }
<1>1. Held = {} \/ \E x : Held = {x}
  BY DEF InHand
<1>2. Held = {} => Cardinality(Held) = 0
  BY FS_EmptySet
<1>3. \A x : Cardinality({x}) = 1
  BY FS_Singleton
<1> HIDE DEF Held
<1>4. Cardinality(Held) <= 1
  BY <1>1, <1>2, <1>3
<1> QED BY <1>4 DEF Held

\* What the three theorems about the composition assume of the constants.
LEMMA Numbers ==
  /\ Log!EventLogAssumption /\ Store!StorageAssumption /\ MaxTime \in Nat \ {0} /\ MaxTime \in Nat
  BY TelemetryAssumption DEF Store!StorageAssumption

\* A thread has one event in hand at a time: stamped for the ring, then copied for the
\* store, then on its way to the writer (engine.rs:428-463), through any restart.
THEOREM TelemetryTypeOK ==
  Spec => []TypeOK
<1> DEFINE Good == LogInv /\ StoreInv /\ InHand
<1>1. Init => Good
  <2>1. Init => InHand
    BY DEF Init, Log!Init, Store!Init, InHand
  <2> QED BY <2>1, Numbers, LogInvInit, StoreInvInit DEF Init
<1>2. Good /\ [Next]_vars => Good'
  <2> SUFFICES ASSUME Good, [Next]_vars PROVE Good'
    OBVIOUS
  <2>1. LogInv'
    BY Numbers, LogSteps, LogInvKept
  <2>2. StoreInv'
    BY Numbers, StoreSteps, StoreInvKept
  <2>3. InHand'
    BY InHandKept DEF LogInv, StoreInv
  <2> QED BY <2>1, <2>2, <2>3
<1>3. Good => TypeOK
  BY Typed DEF LogInv, StoreInv
<1> QED BY <1>1, <1>2, <1>3, PTL DEF Spec

\* The live stream (events.rs:100-104, admin.rs:617-623) beside the store's threads and
\* its writer: it repeats or leaves out an event only because of the stamps' order.
THEOREM TelemetryStreamExact ==
  Spec => []StreamExact
<1>1. Init => Log!Init
  BY DEF Init
<1>2. [Next]_vars => [Log!Next]_(Log!vars)
  BY LogSteps
<1>3. Log!Spec => []Log!StreamExact
  BY Numbers, EventLogStreamExact
<1> QED BY <1>1, <1>2, <1>3, PTL DEF Spec, Log!Spec, StreamExact

\* The store keeps the promise of storage.rs:1-13 where requests hand it their events.
THEOREM TelemetryKeepsPromise ==
  Spec => KeepsPromise
<1>1. Init => Store!Init
  BY DEF Init
<1>2. [Next]_vars => [Store!Next]_(Store!vars)
  BY StoreSteps
<1>3. Store!Spec => Store!KeepsPromise
  BY Numbers, StorageKeepsPromise
<1> QED BY <1>1, <1>2, <1>3, PTL DEF Spec, Store!Spec, KeepsPromise

\* The composition adds no behaviour to its parts: whatever the threads, the stream and the
\* writer do, the ring lives as EventLog says and the store as Storage does (engine.rs:428-463).
THEOREM TelemetryComposes ==
  Spec => Log!Spec /\ Store!Spec
<1>1. Init => Log!Init /\ Store!Init
  BY DEF Init
<1>2. [Next]_vars => [Log!Next]_(Log!vars) /\ [Store!Next]_(Store!vars)
  BY LogSteps, StoreSteps
<1> QED BY <1>1, <1>2, PTL DEF Spec, Log!Spec, Store!Spec
-----------------------------------------------------------------------------
(* The estimate of the queue's length, and what is on its way to the store. *)

\* While the writer lives the two counters of storage.rs:44-55 are never off by more than
\* the threads between the addition and the channel: no event is counted twice or never.
EstimateExact ==
  sink = "up" => queued = drained + Len(buf) + Len(queue) + Cardinality(Sending)

\* The bound of Sink::submit is therefore a bound on the line, give or take one event for
\* each thread, and once the line is empty and nobody sends the estimate is zero again.
THEOREM NoMiscount == Spec => []EstimateExact
<1>1. StoreInv => EstimateExact
  <2> SUFFICES ASSUME StoreInv, sink = "up"
               PROVE  queued = drained + Len(buf) + Len(queue) + Cardinality(Sending)
    BY DEF EstimateExact
  <2>1. Len(Waiting) + Cardinality(Sending) + drained = queued
    BY DEF StoreInv, Counted
  <2>2. Len(Waiting) = Len(buf) + Len(queue)
    BY Joined DEF StoreInv, Store!TypeOK, Waiting
  <2>3. Len(buf) \in Nat /\ Len(queue) \in Nat /\ drained \in Nat
    BY LenProperties DEF StoreInv, Store!TypeOK
  <2>4. Cardinality(Sending) \in Nat
    BY Numbers, Parts DEF Sending
  <2> QED BY <2>1, <2>2, <2>3, <2>4
<1>2. Init => StoreInv
  BY Numbers, StoreInvInit DEF Init
<1>3. StoreInv /\ [Next]_vars => StoreInv'
  BY Numbers, StoreSteps, StoreInvKept
<1> QED BY <1>1, <1>2, <1>3, PTL DEF Spec

LoggedIds == { All[p].id : p \in Places }

\* What is on its way to the store: a thread's copy, the event it submits, the line.
RingFirst ==
  /\ \A w \in Workers : copy[w] # None => copy[w] \in LoggedIds
  /\ \A w \in Workers : at[w] # "idle" => ev[w].id \in LoggedIds
  /\ \A i \in 1 .. Len(Waiting) : Waiting[i].id \in LoggedIds

LEMMA LoggedStays ==
  ASSUME LogInv, Log!EventLogAssumption, [Next]_vars, ~Restart
  PROVE  LoggedIds \subseteq LoggedIds'
<1>1. ASSUME UNCHANGED <<ring, evicted>> PROVE LoggedIds' = LoggedIds
  BY <1>1 DEF LoggedIds, Places, All
<1>2. ASSUME NEW w \in Workers, Log!Push(w) PROVE LoggedIds \subseteq LoggedIds'
  <2>1. Len(All) \in Nat /\ Len(All') = Len(All) + 1 /\ \A p \in Places : All'[p] = All[p]
    BY <1>2, Pushed, LogNumbers DEF LogInv, Places
  <2>2. Places \subseteq Places'
    BY <2>1 DEF Places
  <2> QED BY <2>1, <2>2 DEF LoggedIds
<1>3. ASSUME ~\E w \in Workers : Record(w) PROVE UNCHANGED <<ring, evicted>>
  BY <1>3 DEF Next, Finalize, Log!Stamp, Mirror, SinkStep, StreamStep, Log!Connect, Log!Round,
              Log!Disconnect, WriterStep, TimePasses, Log!TimePasses, vars, logVars
<1> QED BY <1>1, <1>2, <1>3 DEF Record

LEMMA RingFirstKept ==
  ASSUME LogInv, StoreInv, InHand, RingFirst, [Next]_vars
  PROVE  RingFirst'
<1>n. /\ Log!EventLogAssumption
      /\ copy \in [Workers -> Ids \cup {None}] /\ built \in [Workers -> Log!Event \cup {None}]
      /\ at \in [Workers -> {"idle", "loaded", "add", "send"}]
      /\ ev \in [Workers -> Store!Events \cup {None}]
      /\ Log!TypeOK /\ Store!TypeOK /\ Waiting \in Seq(Store!Events) /\ Len(Waiting) \in Nat
  BY Numbers, LineTyped DEF LogInv, StoreInv, Log!TypeOK, Store!TypeOK, InHand
<1>r. CASE Restart
  <2>1. /\ Len(Waiting') = 0
        /\ \A w \in Workers : copy'[w] = None /\ at'[w] = "idle"
    BY <1>r, EmptyJoined, EmptySeq DEF Restart, Store!Restart, Waiting
  <2> QED BY <2>1 DEF RingFirst
<1> SUFFICES ASSUME ~Restart PROVE RingFirst'
  BY <1>r
<1>s. LoggedIds \subseteq LoggedIds'
  BY <1>n, LoggedStays
<1>o. ASSUME \A w \in Workers : copy'[w] \in {copy[w], None} \cup LoggedIds',
             \A w \in Workers : at'[w] # "idle" => \/ at[w] # "idle" /\ ev'[w] = ev[w]
                                                  \/ ev'[w].id \in LoggedIds,
             \A i \in 1 .. Len(Waiting') : \/ \E j \in 1 .. Len(Waiting) : Waiting'[i] = Waiting[j]
                                           \/ Waiting'[i].id \in LoggedIds
      PROVE  RingFirst'
  BY <1>o, <1>s DEF RingFirst
<1>c. Waiting' = Waiting => \A i \in 1 .. Len(Waiting') : \E j \in 1 .. Len(Waiting) : Waiting'[i] = Waiting[j]
  OBVIOUS
<1>1. ASSUME UNCHANGED <<copy, at, ev, buf, queue>> PROVE RingFirst'
  <2>1. Waiting' = Waiting
    BY <1>1 DEF Waiting
  <2> QED BY <1>1, <1>o, <1>c, <2>1
<1>2. ASSUME NEW w \in Workers, NEW id \in Ids, Finalize(w, id) PROVE RingFirst'
  BY <1>1, <1>2 DEF Finalize, storeVars
<1>3. ASSUME NEW w \in Workers, Record(w) PROVE RingFirst'
  <2>1. /\ built[w] \in Log!Event /\ Len(All') = Len(All) + 1 /\ All'[Len(All) + 1] = built[w]
        /\ Len(All) \in Nat
    BY <1>n, <1>3, Pushed, LogNumbers DEF Record
  <2>2. built[w].id \in LoggedIds'
    <3>1. Len(All) + 1 \in Places'
      BY <2>1 DEF Places
    <3> QED BY <2>1, <3>1 DEF LoggedIds
  <2>3. UNCHANGED <<at, ev, Waiting>> /\ copy' = [copy EXCEPT ![w] = built[w].id]
    BY <1>3 DEF Record, storeVars, Waiting
  <2> QED BY <1>n, <1>o, <1>c, <2>2, <2>3
<1>4. ASSUME NEW w \in Workers, Mirror(w) PROVE RingFirst'
  <2>1. /\ copy[w] \in LoggedIds /\ copy' = [copy EXCEPT ![w] = None] /\ Waiting' = Waiting
    BY <1>4 DEF Mirror, Store!Submit, Store!task, RingFirst, Waiting
  <2>2. \A x \in Workers \ {w} : at'[x] = at[x] /\ ev'[x] = ev[x]
    BY <1>n, <1>4 DEF Mirror, Store!Submit, Store!thread
  <2>3. (at'[w] = at[w] /\ ev'[w] = ev[w]) \/ ev'[w].id = copy[w]
    BY <1>n, <1>4 DEF Mirror, Store!Submit, Store!thread
  <2> QED BY <1>n, <1>o, <1>c, <2>1, <2>2, <2>3
<1>5. ASSUME NEW w \in Workers, SinkStep(w) PROVE RingFirst'
  <2>1. copy' = copy /\ at[w] # "idle"
    BY <1>5 DEF SinkStep, Store!Step, Store!Judge, Store!Add, Store!Send
  <2>2. \A x \in Workers : at'[x] # "idle" => at[x] # "idle" /\ ev'[x] = ev[x]
    BY <1>n, <1>5 DEF SinkStep, Store!Step, Store!Judge, Store!Add, Store!Send, Store!Finished
  <2>3. CASE Store!Send(w) /\ sink = "up"
    <3>1. \A i \in 1 .. Len(Waiting') :
            Waiting'[i] = ev[w] \/ \E j \in 1 .. Len(Waiting) : Waiting'[i] = Waiting[j]
      BY <1>n, <2>3, Sent
    <3> QED BY <1>o, <2>1, <2>2, <3>1 DEF RingFirst
  <2>4. CASE ~(Store!Send(w) /\ sink = "up")
    <3>1. Waiting' = Waiting
      BY <1>5, <2>4 DEF SinkStep, Store!Step, Store!Judge, Store!Add, Store!Send, Store!task, Waiting
    <3> QED BY <1>c, <1>o, <2>1, <2>2, <3>1
  <2> QED BY <2>3, <2>4
<1>6. CASE StreamStep \/ TimePasses
  BY <1>1, <1>6 DEF StreamStep, TimePasses, storeVars
<1>7. CASE WriterStep
  <2>1. copy' = copy
    BY <1>7 DEF WriterStep
  <2>2. CASE Store!Open \/ Store!Purge
    BY <1>1, <2>1, <2>2 DEF Store!Open, Store!Purge, Store!thread
  <2>3. CASE Store!Write
    <3>1. UNCHANGED <<at, ev>> /\ (Same \/ Lost \/ \E n \in Nat : Taken(n))
      BY <1>n, <2>3, WriteEffect
    <3>2. CASE Same
      BY <1>c, <1>o, <2>1, <3>1, <3>2 DEF Same
    <3>3. CASE Lost
      <4>1. Len(Waiting') = 0
        BY <3>3, EmptyJoined, EmptySeq DEF Lost, Waiting
      <4> QED BY <1>o, <2>1, <3>1, <4>1
    <3>4. ASSUME NEW n \in Nat, Taken(n) PROVE RingFirst'
      <4>1. \A i \in 1 .. Len(Waiting') : \E j \in 1 .. Len(Waiting) : Waiting'[i] = Waiting[j]
        BY <1>n, <3>4, Shortened
      <4> QED BY <1>o, <2>1, <3>1, <4>1
    <3> QED BY <3>1, <3>2, <3>3, <3>4
  <2> QED BY <1>7, <2>2, <2>3 DEF WriterStep
<1>8. CASE UNCHANGED vars
  BY <1>1, <1>8 DEF vars, storeVars
<1> QED BY <1>2, <1>3, <1>4, <1>5, <1>6, <1>7, <1>8 DEF Next

\* Engine::finalize records first and mirrors second (engine.rs:428-463): whatever waits for
\* the disk has been in the ring of this process, however threads, writer and restarts mix.
THEOREM RecordedFirst == Spec => []RingFirst
<1> DEFINE Good == LogInv /\ StoreInv /\ InHand /\ RingFirst
<1>1. Init => Good
  <2> SUFFICES ASSUME Init PROVE Good
    OBVIOUS
  <2>1. InHand
    BY DEF Init, Log!Init, Store!Init, InHand
  <2>2. Len(Waiting) = 0
    BY EmptyJoined, EmptySeq DEF Init, Store!Init, Waiting
  <2>3. RingFirst
    BY <2>2 DEF Init, Store!Init, RingFirst
  <2> QED BY <2>1, <2>3, Numbers, LogInvInit, StoreInvInit DEF Init
<1>2. Good /\ [Next]_vars => Good'
  <2> SUFFICES ASSUME Good, [Next]_vars PROVE Good'
    OBVIOUS
  <2>1. LogInv' /\ StoreInv'
    BY Numbers, LogSteps, LogInvKept, StoreSteps, StoreInvKept
  <2>2. InHand'
    BY InHandKept DEF LogInv, StoreInv
  <2>3. RingFirst'
    BY RingFirstKept
  <2> QED BY <2>1, <2>2, <2>3
<1>3. Good => RingFirst
  OBVIOUS
<1> QED BY <1>1, <1>2, <1>3, PTL DEF Spec
=============================================================================
