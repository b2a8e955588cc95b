---------------------------- MODULE MCReputations ----------------------------
(***************************************************************************)
(* Two workers, the admin and the housekeeping thread; two addresses in    *)
(* two shards.                                                             *)
(***************************************************************************)
EXTENDS Reputations, TLC

CONSTANTS w1, w2, ip1, ip2, BansJson

MCShard    == ip1 :> 1 @@ ip2 :> 2
BanOfIp1(t) == [ip \in Ips |-> IF ip = ip1 THEN [hits |-> 2, first_hit |-> 0, ban_until |-> t] ELSE None]
\* No ban; one that is soon over, so that the address may offend again; one that lasts.
MCFiles    == { [ip \in Ips |-> None], BanOfIp1(11), BanOfIp1(13) }
Symmetry   == Permutations({w1, w2})
==============================================================================
