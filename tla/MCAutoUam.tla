----------------------------- MODULE MCAutoUam ------------------------------
(* Small instance of AutoUam with the code's period and cooldown: the      *)
(* rates are 0, 1 and 2 a second, one threshold is 0, one the greatest     *)
(* rate and one so high that its fourth is that rate.  The wall clock may  *)
(* be set to before the last change.                                       *)
EXTENDS AutoUam

MCJumps == {-5, 0, 30}
=============================================================================
