------------------------------- MODULE BanBook -------------------------------
(* What the ban table of waf-core/src/reputation.rs keeps, whatever its     *)
(* shards, locks and calls: until when each address is banned, and which    *)
(* bans a restart brings back.  With a ban file bound, a ban that is given  *)
(* is final: neither lifted, forgotten nor saved until the process ends.    *)
EXTENDS Naturals

CONSTANTS
  Ips,
  Duration   \* how long an automatic ban lasts

VARIABLES
  clock,
  until,     \* until when each address is banned, 0 without a ban
  saved,     \* what bans.json says of it, 0 without a ban
  durable,   \* is a ban file bound?
  stuck      \* addresses that nobody gets at any more

vars == <<clock, until, saved, durable, stuck>>

\* bind_persist_file: the saved bans that still run.
Reloaded == [ip \in Ips |-> IF saved[ip] > clock THEN saved[ip] ELSE 0]

Init == /\ clock \in Nat /\ saved \in [Ips -> Nat] /\ durable \in BOOLEAN
        /\ until = Reloaded /\ stuck = {}

Tick == clock' > clock /\ UNCHANGED <<until, saved, durable, stuck>>

\* A ban is given or made longer, by what a ban lasts at most.  With a ban file its address
\* is stuck from then on, and so are those it shares a shard with.
Give(ip) ==
  /\ ip \notin stuck
  /\ \E t \in {until[ip]} \cup (until[ip] .. clock + Duration) : until' = [until EXCEPT ![ip] = t]
  /\ IF durable THEN \E D \in SUBSET Ips : ip \in D /\ stuck' = stuck \cup D
                ELSE UNCHANGED stuck
  /\ UNCHANGED <<clock, saved, durable>>

\* The admin's unban leaves the file alone.
Lift(ip) == /\ ip \notin stuck /\ until' = [until EXCEPT ![ip] = 0]
            /\ UNCHANGED <<clock, saved, durable, stuck>>

Cleared(from, S) == [ip \in Ips |-> IF ip \in S THEN 0 ELSE from[ip]]

\* The sweep forgets bans that are over.
Lapse == /\ \E S \in SUBSET { ip \in Ips \ stuck : until[ip] <= clock } : until' = Cleared(until, S)
         /\ UNCHANGED <<clock, saved, durable, stuck>>

\* The file drops bans: those that are over or that memory does not have like this.
Save == /\ \E S \in SUBSET { ip \in Ips : saved[ip] <= clock \/ saved[ip] # until[ip] \/ ip \in stuck } :
             saved' = Cleared(saved, S)
        /\ UNCHANGED <<clock, until, durable, stuck>>

\* The process starts again with the bans it had saved.
Restart == until' = Reloaded /\ stuck' = {} /\ UNCHANGED <<clock, saved, durable>>

Next == \/ Tick \/ Lapse \/ Save \/ Restart
        \/ \E ip \in Ips : Give(ip) \/ Lift(ip)
Spec == Init /\ [][Next]_vars
==============================================================================
