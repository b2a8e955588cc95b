------------------------------ MODULE MCInFlight ------------------------------
(***************************************************************************)
(* Four requests of two addresses in one subnet, three threads.            *)
(***************************************************************************)
EXTENDS InFlight, TLC

CONSTANTS q1, q2, q3, q4, ip1, ip2, net

MCSubnetOf == [ip \in Ips |-> net]
MCOrder    == <<ip1, ip2>>
Symmetry   == Permutations({q1, q2, q3, q4})
==============================================================================
