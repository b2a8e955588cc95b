----------------------------- MODULE MCVisitor -----------------------------
(* Small instance of Visitor.  A unit of time is the shortest lease, that  *)
(* of a pending lookup and of the check's token; the longer ones are 2 and *)
(* 3 units.  Whether everyone is challenged, whether the check is on and   *)
(* which keys of the captcha are set may change, though not in any         *)
(* combination: the operator switches them on one after the other.         *)
EXTENDS Visitor

MCSettings == { s \in [forced : BOOLEAN, goodbot : {TRUE}, bic : BOOLEAN,
                       captcha : {TRUE}, siteKey : BOOLEAN, secret : BOOLEAN] :
                  /\ s.secret => s.siteKey
                  /\ s.siteKey => s.forced /\ s.bic
                  /\ s.forced \/ s.bic }
=============================================================================
