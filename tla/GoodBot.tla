------------------------------- MODULE GoodBot -------------------------------
(***************************************************************************)
(* waf-core/src/goodbot.rs: is a visitor that claims to be a crawler one?  *)
(* The verdict is cached under the address alone, whichever crawler the    *)
(* request claimed.  A request that finds nothing valid writes a pending   *)
(* entry, in a second step, and spawns a lookup; lookups end when they     *)
(* end, in any order, and write what they found over whatever is there.    *)
(*                                                                         *)
(* Addresses do not share anything: this is one of them.  Times are what   *)
(* is left of them, so that the model needs no bound on the clock; the     *)
(* unit is far longer than the few instructions between a reading of the   *)
(* clock and its use, except between the lookup and the pending entry.     *)
(***************************************************************************)
EXTENDS Integers

CONSTANTS
  Threads,      \* the requests of the address that are evaluated at a time
  Names,        \* KNOWN_BOTS
  PositiveTtl, NegativeTtl, PendingTtl,
  MaxLookups    \* model bound: lookups in flight for one name

GoodBotAssumption ==
  /\ PositiveTtl \in Nat \ {0} /\ NegativeTtl \in Nat \ {0} /\ PendingTtl \in Nat \ {0}
  /\ MaxLookups \in Nat

VARIABLES
  genuine,   \* the crawlers this address is one of, by reverse and forward DNS
  entry,     \* its cache entry; state "none" without one, left: seconds to expires_at
  at,        \* where each request is in classify
  claim,     \* the crawler its User-Agent names
  pendLeft,  \* what a pending entry written by it would have left
  verdict,   \* what classify answered it; "notabot" also before it answers
  lookups,   \* lookups in flight, by name
  passedAgo, failedAgo   \* history: time since a lookup last passed, and failed

asking == <<at, claim, pendLeft, verdict>>
vars   == <<genuine, entry, asking, lookups, passedAgo, failedAgo>>

States   == {"none", "pending", "verified", "rejected"}
Verdicts == {"notabot", "pending", "verified", "spoofed"}
Longest  == IF PositiveTtl > NegativeTtl THEN PositiveTtl + 1 ELSE NegativeTtl + 1

Init ==
  /\ genuine \in SUBSET Names
  /\ entry = [state |-> "none", left |-> 0]
  /\ at = [t \in Threads |-> "idle"] /\ verdict = [t \in Threads |-> "notabot"]
  /\ claim \in [Threads -> Names] /\ pendLeft = [t \in Threads |-> 0]
  /\ lookups = [n \in Names |-> 0]
  /\ passedAgo = Longest /\ failedAgo = Longest

\* Mutant: an entry is used whatever has become of it.
ValidForever == entry.state # "none"
Valid == entry.state # "none" /\ entry.left > 0

Answered == CASE entry.state = "verified" -> "verified"
              [] entry.state = "rejected" -> "spoofed"
              [] OTHER -> "pending"

\* classify: the clock, then the cache ...
Classify(t, name) ==
  /\ at[t] = "idle"
  /\ claim' = [claim EXCEPT ![t] = name]
  /\ IF Valid THEN verdict' = [verdict EXCEPT ![t] = Answered] /\ UNCHANGED <<at, pendLeft>>
     ELSE /\ at' = [at EXCEPT ![t] = "missed"]
          /\ pendLeft' = [pendLeft EXCEPT ![t] = PendingTtl]
          /\ UNCHANGED verdict
  /\ UNCHANGED <<genuine, entry, lookups, passedAgo, failedAgo>>

\* Mutant: only the time of the old entry is renewed.
PendingRenewed(left) == [entry EXCEPT !.left = left]
Pending(left) == [state |-> "pending", left |-> left]

\* ... then, with its guard dropped, the pending entry and the lookup.
Spawn(t) ==
  /\ at[t] = "missed" /\ lookups[claim[t]] < MaxLookups
  /\ entry' = Pending(pendLeft[t])
  /\ lookups' = [lookups EXCEPT ![claim[t]] = @ + 1]
  /\ verdict' = [verdict EXCEPT ![t] = "pending"]
  /\ at' = [at EXCEPT ![t] = "idle"] /\ pendLeft' = [pendLeft EXCEPT ![t] = 0]
  /\ UNCHANGED <<genuine, claim, passedAgo, failedAgo>>

\* The answer is used and gone.
Used(t) == /\ at[t] = "idle" /\ verdict' = [verdict EXCEPT ![t] = "notabot"]
           /\ UNCHANGED <<genuine, entry, at, claim, pendLeft, lookups, passedAgo, failedAgo>>

\* A lookup passes only for what the address is; it may fail for any reason, and a
\* lookup that panics counts as failed.
Ended(n) == /\ lookups[n] > 0 /\ lookups' = [lookups EXCEPT ![n] = @ - 1]
            /\ UNCHANGED <<genuine, asking>>
Passes(n) == /\ n \in genuine /\ Ended(n)
             /\ entry' = [state |-> "verified", left |-> PositiveTtl]
             /\ passedAgo' = 0 /\ UNCHANGED failedAgo
Fails(n) == /\ Ended(n)
            /\ entry' = [state |-> "rejected", left |-> NegativeTtl]
            /\ failedAgo' = 0 /\ UNCHANGED passedAgo

\* Mutant: a lease that has run out runs on.
LessPlain(n) == n - 1
Less(n) == IF n = 0 THEN 0 ELSE n - 1
More(n) == IF n < Longest THEN n + 1 ELSE n
TimePasses ==
  /\ entry' = [entry EXCEPT !.left = Less(@)]
  /\ pendLeft' = [t \in Threads |-> Less(pendLeft[t])]
  /\ passedAgo' = More(passedAgo) /\ failedAgo' = More(failedAgo)
  /\ UNCHANGED <<genuine, at, claim, verdict, lookups>>

\* The process starts again, with an empty cache.
Restart ==
  /\ entry' = [state |-> "none", left |-> 0] /\ lookups' = [n \in Names |-> 0]
  /\ at' = [t \in Threads |-> "idle"] /\ pendLeft' = [t \in Threads |-> 0]
  /\ verdict' = [t \in Threads |-> "notabot"]
  /\ UNCHANGED <<genuine, claim, passedAgo, failedAgo>>

Next == \/ \E t \in Threads : Used(t) \/ Spawn(t) \/ \E n \in Names : Classify(t, n)
        \/ \E n \in Names : Passes(n) \/ Fails(n)
        \/ TimePasses \/ Restart
Spec == Init /\ [][Next]_vars
-----------------------------------------------------------------------------
TypeOK ==
  /\ genuine \subseteq Names
  /\ entry \in [state : States, left : Nat]
  /\ at \in [Threads -> {"idle", "missed"}] /\ claim \in [Threads -> Names]
  /\ pendLeft \in [Threads -> 0 .. PendingTtl] /\ verdict \in [Threads -> Verdicts]
  /\ lookups \in [Names -> 0 .. MaxLookups]
  /\ passedAgo \in 0 .. Longest /\ failedAgo \in 0 .. Longest

(* goodbot.rs:10-16: an entry that still counts says what a lookup found   *)
(* no longer ago than its time to live, however lookups overtake each      *)
(* other and pending entries are written over answers; only an address     *)
(* that is a crawler is ever verified.                                     *)
VerdictEarned ==
  entry.left > 0 =>
    /\ entry.state = "verified" => genuine # {} /\ passedAgo + entry.left <= PositiveTtl
    /\ entry.state = "rejected" => failedAgo + entry.left <= NegativeTtl
=============================================================================
