---------------------------- MODULE MCRateLimiter ----------------------------
(***************************************************************************)
(* Two threads, one client, two routes, a table that is full at one key.  *)
(* The seconds are a bucket, its successor, the last bucket of the window  *)
(* of the successor (and the first beyond the window of the first), and a  *)
(* time at which gc finds every counter cold.                              *)
(***************************************************************************)
EXTENDS RateLimiter, TLC

CONSTANTS t1, t2, r1, r2

MCSeconds == {1000, 1010, 1060, 1180}
MCRpm     == [k \in Routes \cup {Global} |-> 2]
MCBurst   == [k \in Routes \cup {Global} |-> 0]
Symmetry  == Permutations({t1, t2}) \cup Permutations({r1, r2})
==============================================================================
