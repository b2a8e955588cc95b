------------------------------ MODULE LossyLog ------------------------------
(* What the event store promises (waf-core/src/storage.rs:1-13), whatever  *)
(* its counters, batches and tasks: a line of bounded length that never    *)
(* holds up a request.  Events reach the disk in the order they were       *)
(* accepted, none twice, none that was refused; they are lost only when    *)
(* the whole line is, or one by one while their batch is written.          *)
EXTENDS Naturals, Sequences

CONSTANTS
  Events,    \* what is stored
  Limit      \* how many may wait

VARIABLES
  open,      \* is there a writer?
  waiting,   \* accepted, not yet written
  stored,    \* on disk
  written,   \* how many the writer says it wrote
  refused    \* how many the store says it refused

vars == <<open, waiting, stored, written, refused>>

First(n) == { waiting[i] : i \in 1 .. n }
Rest(n)  == SubSeq(waiting, n + 1, Len(waiting))

Init == open = FALSE /\ waiting = <<>> /\ stored = {} /\ written = 0 /\ refused = 0

Open   == ~open /\ open' = TRUE /\ UNCHANGED <<waiting, stored, written, refused>>
Accept == /\ open /\ Len(waiting) < Limit
          /\ \E e \in Events \ (stored \cup First(Len(waiting))) : waiting' = Append(waiting, e)
          /\ UNCHANGED <<open, stored, written, refused>>
Refuse == refused' = refused + 1 /\ UNCHANGED <<open, waiting, stored, written>>
Write  == /\ open
          /\ \E n \in 1 .. Len(waiting) :
               /\ \E kept \in SUBSET First(n) : stored' = stored \cup kept
               /\ waiting' = Rest(n) /\ written' = written + n
          /\ UNCHANGED <<open, refused>>
Forget == stored' \in SUBSET stored /\ UNCHANGED <<open, waiting, written, refused>>
\* The writer gives up, and what waited is gone.
Close  == open /\ open' = FALSE /\ waiting' = <<>> /\ UNCHANGED <<stored, written, refused>>
\* The process starts again: what was on disk still is.
Reboot == open' = FALSE /\ waiting' = <<>> /\ written' = 0 /\ refused' = 0 /\ UNCHANGED stored

Next == Open \/ Accept \/ Refuse \/ Write \/ Forget \/ Close \/ Reboot
Spec == Init /\ [][Next]_vars
=============================================================================
