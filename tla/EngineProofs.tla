---------------------------- MODULE EngineProofs ----------------------------
(***************************************************************************)
(* The verdicts of Engine owe what they owe for any number of workers,     *)
(* requests and patches, and for every list, level, threshold and score.   *)
(* VerdictInv is about the lists and the attack mode, FairInv about the    *)
(* ceilings, the scores and the lines they are compared with.              *)
(***************************************************************************)
EXTENDS Engine, Sums, TLAPS

Early == {"uam", "attack", "allowlist", "classify", "denylist", "crawler", "trap", "ban",
          "conns", "rate", "rate_attack", "rate_bps", "bic_cookie"}
\* The next detector exists whenever one is due.
CursorOK == \A w \in Workers : /\ pc[w] \in Early => nth[w] = 1
                               /\ pc[w] = "detect" => nth[w] \in 1 .. Len(Detectors)
TypeInv == TypeOK /\ CursorOK

LEMMA AfterLimitsTo ==
  ASSUME NEW r, NEW l, NEW scale
  PROVE  AfterLimits(r, l, scale) \in {"block", "allow", "challenge", "bic_cookie"}
BY DEF AfterLimits

LEMMA NowTyped == ASSUME TypeOK PROVE Now \in World
BY DEF TypeOK, Now, World

LEMMA WitnessTyped ==
  ASSUME TypeOK, rt' \in Settings, banned' \subseteq Ips, Witnessed
  PROVE  seen' \in [Workers -> SUBSET World]
<1>1. Now' \in World
  BY DEF Now, World
<1>2. QED
  BY <1>1 DEF Witnessed, TypeOK

\* A stage that only decides where to go keeps the types.
LEMMA DecideTyped ==
  ASSUME TypeInv, NEW w \in Workers, NEW p \in Stages \cup Verdicts, p # "detect",
         p \in Early => pc[w] \in Early, Decide(w, p)
  PROVE  TypeInv'
BY DEF Decide, Goto, TypeInv, TypeOK, CursorOK, work, Outside

LEMMA StoredTyped == ASSUME rt \in Settings, Stored PROVE rt' \in Settings
<1> USE SettingAssumption
<1>1. ASSUME NEW l \in UamLevels, rt' = [rt EXCEPT !.uam = l] PROVE rt' \in Settings
  BY <1>1 DEF Settings
<1>2. ASSUME NEW d \in Switches, rt' = [rt EXCEPT !.on = IF d \in @ THEN @ \ {d} ELSE @ \cup {d}]
      PROVE rt' \in Settings
  BY <1>2 DEF Settings
<1>3. ASSUME NEW n \in Lines, \/ rt' = [rt EXCEPT !.block = n] \/ rt' = [rt EXCEPT !.chal = n]
                              \/ rt' = [rt EXCEPT !.tarpit = n]
      PROVE rt' \in Settings
  BY <1>3 DEF Settings
<1>4. ASSUME NEW n \in Caps, rt' = [rt EXCEPT !.cap = n] PROVE rt' \in Settings
  BY <1>4 DEF Settings
<1>5. ASSUME NEW n \in Scales, rt' = [rt EXCEPT !.bps = n] PROVE rt' \in Settings
  BY <1>5 DEF Settings
<1>6. ASSUME NEW ip \in Ips,
             \/ rt' = [rt EXCEPT !.allow = IF ip \in @ THEN @ \ {ip} ELSE @ \cup {ip}]
             \/ rt' = [rt EXCEPT !.deny = IF ip \in @ THEN @ \ {ip} ELSE @ \cup {ip}]
      PROVE rt' \in Settings
  BY <1>6 DEF Settings
<1>7. QED
  BY <1>1, <1>2, <1>3, <1>4, <1>5, <1>6 DEF Stored, Listed

\* saturating_sub does not wrap.
LEMMA LineTyped == ASSUME NEW n \in Nat, NEW l \in Levels PROVE Minus(n, DropOf[l]) \in Nat
BY DEF Minus, DropOf, Levels

LEMMA BlankTyped == Blank \in Requests /\ Blank \in Request
BY RequestAssumption DEF Blank

LEMMA TypeInit == Init => TypeInv
<1> SUFFICES ASSUME Init PROVE TypeInv
  OBVIOUS
<1>1. Len(Detectors) \in Nat
  BY DetectorAssumption
<1>2. rt \in Settings /\ req \in [Workers -> Request]
  BY BlankTyped, SettingAssumption DEF Init
<1>3. QED
  BY <1>1, <1>2, BoundAssumption DEF Init, TypeInv, TypeOK, CursorOK, Levels, Early

LEMMA TypeStep == TypeInv /\ [Next]_vars => TypeInv'
<1> SUFFICES ASSUME TypeInv, [Next]_vars PROVE TypeInv'
  OBVIOUS
<1> USE DEF TypeInv
<1>0. Len(Detectors) \in Nat
  BY DetectorAssumption
<1>1. CASE UNCHANGED vars
  BY <1>1 DEF vars, work, TypeOK, CursorOK
<1>2. ASSUME NEW w \in Workers, Arrive(w) PROVE TypeInv'
  <2>1. PICK r \in Requests : /\ req' = [req EXCEPT ![w] = r]
                              /\ score' = [score EXCEPT ![w] = r.always]
    BY <1>2 DEF Arrive
  <2>2. r \in Request /\ r.always \in Nat
    BY RequestAssumption DEF Request
  <2>3. req' \in [Workers -> Request] /\ score' \in [Workers -> Nat]
    BY <2>1, <2>2 DEF TypeOK
  <2>4. seen' \in [Workers -> SUBSET World]
    BY <1>2, NowTyped DEF Arrive, TypeOK
  <2>5. nth' \in [Workers -> 1 .. Len(Detectors) + 1] /\ CursorOK'
    BY <1>0, <1>2 DEF Arrive, Goto, CursorOK, TypeOK, Early
  <2>6. QED
    BY <1>2, <2>3, <2>4, <2>5, BoundAssumption DEF Arrive, Goto, TypeOK, Stages, Levels
<1>3. ASSUME NEW w \in Workers, ReadUam(w) PROVE TypeInv'
  <2>1. rt.uam \in Levels
    BY DEF TypeOK, Settings
  <2>2. CursorOK'
    BY <1>3 DEF ReadUam, At, Goto, CursorOK, TypeOK, Early
  <2>3. QED
    BY <1>3, <2>1, <2>2 DEF ReadUam, Goto, TypeOK, Stages, Outside
<1>4. ASSUME NEW w \in Workers, ReadAttack(w) PROVE TypeInv'
  <2>1. CursorOK'
    BY <1>4 DEF ReadAttack, At, Goto, CursorOK, TypeOK, Early
  <2>2. QED
    BY <1>4, <2>1 DEF ReadAttack, Goto, TypeOK, Stages, Outside, Levels
<1>5. ASSUME NEW w \in Workers, ReadAllow(w) PROVE TypeInv'
  BY <1>5, DecideTyped DEF ReadAllow, At, Stages, Verdicts, Early
<1>6. ASSUME NEW w \in Workers, Classify(w) PROVE TypeInv'
  BY <1>6, DecideTyped DEF Classify, Classified, At, Stages, Verdicts, Early
<1>7. ASSUME NEW w \in Workers, ReadDeny(w) PROVE TypeInv'
  BY <1>7, DecideTyped DEF ReadDeny, At, Stages, Verdicts, Early
<1>8. ASSUME NEW w \in Workers, ReadCrawler(w) PROVE TypeInv'
  <2>1. mute' \in [Workers -> SUBSET {"bot_score"}]
    BY <1>8 DEF ReadCrawler, TypeOK
  <2>2. score' \in [Workers -> Nat]
    BY <1>8, RequestAssumption DEF ReadCrawler, TypeOK
  <2>3. CursorOK'
    BY <1>8 DEF ReadCrawler, At, Goto, CursorOK, TypeOK, Early
  <2>4. QED
    BY <1>8, <2>1, <2>2, <2>3 DEF ReadCrawler, Goto, TypeOK, Stages, Verdicts, Outside
<1>9. ASSUME NEW w \in Workers, ReadTrap(w) PROVE TypeInv'
  BY <1>9, DecideTyped DEF ReadTrap, At, Stages, Verdicts, Early
<1>10. ASSUME NEW w \in Workers, NEW p \in Verdicts, MaybeBan(w, p) PROVE TypeInv'
  <2>1. banned' \subseteq Ips
    BY <1>10 DEF MaybeBan, TypeOK, Request
  <2>2. seen' \in [Workers -> SUBSET World]
    BY <1>10, <2>1, WitnessTyped DEF MaybeBan, TypeOK
  <2>3. CursorOK'
    BY <1>10 DEF MaybeBan, Goto, CursorOK, TypeOK, Early, Verdicts, work
  <2>4. QED
    BY <1>10, <2>1, <2>2, <2>3 DEF MaybeBan, Goto, TypeOK, work
<1>11. ASSUME NEW w \in Workers, ReadCap(w) PROVE TypeInv'
  BY <1>11, DecideTyped DEF ReadCap, At, Stages, Verdicts, Early
<1>12. ASSUME NEW w \in Workers, ReadRate(w) PROVE TypeInv'
  BY <1>12, DecideTyped, AfterLimitsTo DEF ReadRate, At, Stages, Verdicts, Early
<1>13. ASSUME NEW w \in Workers, ReadAttackAgain(w) PROVE TypeInv'
  BY <1>13, DecideTyped, AfterLimitsTo DEF ReadAttackAgain, At, Stages, Verdicts, Early
<1>14. ASSUME NEW w \in Workers, ReadBps(w) PROVE TypeInv'
  BY <1>14, DecideTyped, AfterLimitsTo DEF ReadBps, At, Stages, Verdicts, Early
<1>15. ASSUME NEW w \in Workers, ReadBic(w) PROVE TypeInv'
  <2>1. mute' \in [Workers -> SUBSET {"bot_score"}]
    BY <1>15 DEF ReadBic, TypeOK
  <2>2. Detectors # <<>> => 1 \in 1 .. Len(Detectors)
    BY <1>0, DetectorAssumption
  <2>3. CursorOK'
    BY <1>0, <1>15, <2>2 DEF ReadBic, At, Goto, CursorOK, TypeOK, Early
  <2>4. QED
    BY <1>15, <2>1, <2>3 DEF ReadBic, Goto, TypeOK, Stages, Outside
<1>16. ASSUME NEW w \in Workers, Detect(w) PROVE TypeInv'
  <2> DEFINE d == Detectors[nth[w]]
  <2>1. nth[w] \in 1 .. Len(Detectors) /\ pc[w] = "detect"
    BY <1>16 DEF Detect, At, CursorOK
  <2>2. d \in Scored
    BY <2>1, DetectorAssumption DEF Scored, ToSet
  <2>3. req[w].parts[d] \in Nat
    BY <2>2 DEF TypeOK, Request
  <2>4. score' \in [Workers -> Nat]
    BY <1>16, <2>3 DEF Detect, TypeOK
  <2>5. nth' \in [Workers -> 1 .. Len(Detectors) + 1]
    BY <1>0, <1>16, <2>1 DEF Detect, TypeOK
  <2>6. CursorOK'
    BY <1>0, <1>16, <2>1 DEF Detect, Goto, CursorOK, TypeOK, Early
  <2>7. QED
    BY <1>16, <2>4, <2>5, <2>6 DEF Detect, Goto, TypeOK, Stages, Outside
<1>17. ASSUME NEW w \in Workers, ReadBlockLine(w) PROVE TypeInv'
  <2>1. rt.block \in Nat /\ level[w] \in Levels
    BY DEF TypeOK, Settings
  <2>2. Minus(rt.block, DropOf[level[w]]) \in Nat
    BY <2>1, LineTyped
  <2>3. CursorOK'
    BY <1>17 DEF ReadBlockLine, Goto, CursorOK, TypeOK, Early
  <2>4. QED
    BY <1>17, <2>2, <2>3 DEF ReadBlockLine, Goto, TypeOK, Stages, Outside
<1>18. ASSUME NEW w \in Workers, ReadChalLine(w) PROVE TypeInv'
  <2>1. rt.chal \in Nat /\ level[w] \in Levels
    BY DEF TypeOK, Settings
  <2>2. Minus(rt.chal, DropOf[level[w]]) \in Nat
    BY <2>1, LineTyped
  <2>3. CursorOK'
    BY <1>18 DEF ReadChalLine, Goto, CursorOK, TypeOK, Early
  <2>4. QED
    BY <1>18, <2>2, <2>3 DEF ReadChalLine, Goto, TypeOK, Stages, Outside
<1>19. ASSUME NEW w \in Workers, Judge(w) PROVE TypeInv'
  BY <1>19, DecideTyped DEF Judge, Judged, At, Stages, Verdicts, Early
<1>20. ASSUME NEW w \in Workers, Answer(w) PROVE TypeInv'
  <2>1. req' \in [Workers -> Request]
    BY <1>20, BlankTyped DEF Answer, TypeOK
  <2>2. nth' \in [Workers -> 1 .. Len(Detectors) + 1] /\ CursorOK'
    BY <1>0, <1>20 DEF Answer, Goto, CursorOK, TypeOK, Early
  <2>3. QED
    BY <1>20, <2>1, <2>2 DEF Answer, Goto, TypeOK, Levels
<1>21. CASE Patch
  <2>1. rt' \in Settings
    BY <1>21, StoredTyped DEF Patch, TypeOK
  <2>2. seen' \in [Workers -> SUBSET World]
    BY <1>21, <2>1, WitnessTyped DEF Patch, TypeOK
  <2>3. QED
    BY <1>21, <2>1, <2>2, BoundAssumption DEF Patch, TypeOK, CursorOK, work
<1>22. CASE Unban
  <2>1. banned' \subseteq Ips
    BY <1>22 DEF Unban, TypeOK
  <2>2. seen' \in [Workers -> SUBSET World]
    BY <1>22, <2>1, WitnessTyped DEF Unban, TypeOK
  <2>3. QED
    BY <1>22, <2>1, <2>2, BoundAssumption DEF Unban, TypeOK, CursorOK, work
<1>23. ASSUME NEW w \in Workers, ForceBan(w) \/ Strike(w) PROVE TypeInv'
  BY <1>10, <1>23 DEF ForceBan, Strike, Verdicts
<1>24. QED
  BY <1>1, <1>2, <1>3, <1>4, <1>5, <1>6, <1>7, <1>8, <1>9, <1>11, <1>12, <1>13, <1>14, <1>15,
     <1>16, <1>17, <1>18, <1>19, <1>20, <1>21, <1>22, <1>23 DEF Next, Step

\* Every variable keeps its type at every stage, and no detector is run past the last.
THEOREM Typing == Spec => []TypeOK
<1>1. Spec => []TypeInv
  BY TypeInit, TypeStep, PTL DEF Spec
<1>2. QED
  BY <1>1, PTL DEF TypeInv
-----------------------------------------------------------------------------
(* What the stage of an evaluation says of the worlds it has met.          *)
PastAllow    == Stages \ {"uam", "attack", "allowlist"}
PastClassify == PastAllow \ {"classify"}
PastDeny     == PastClassify \ {"denylist"}
PastForce    == {"bic_cookie", "detect", "block_t", "chal_t", "judge", "strike_block",
                 "strike_tarpit"}
NotAllowed(w) == \E t \in seen[w] : req[w].ip \notin t.s.allow
NotDenied(w)  == \E t \in seen[w] : req[w].ip \notin t.s.deny
NotBanned(w)  == req[w].ip \notin CfgDeny /\ \E t \in seen[w] : req[w].ip \notin t.banned
Calm(w)       == ~UnderUam(w) /\ ~UnderFlag(w)
Waived(w)     == Excused(w) \/ "cleared" \in req[w].flags

\* What must hold of w for it to be at stage or verdict p with level l.
Fits(w, p, l) ==
  /\ p \in PastAllow \cup (Verdicts \ {"allow"}) => NotAllowed(w)
  /\ p \in PastClassify \cup (Verdicts \ {"allow"}) => req[w].ip \notin CfgAllow
  /\ p \in PastClassify => NotBanned(w)
  /\ p \in PastDeny => NotDenied(w)
  /\ p \in Verdicts \ {"block"} => Favoured(w) \/ (NotBanned(w) /\ NotDenied(w))
  /\ p = "attack" => ~UnderUam(w)
  /\ p \in Stages \ {"uam", "attack"} /\ ~Forced(l) => Calm(w)
  /\ p \in PastForce => ~Forced(l)
  /\ p \in {"allow", "tarpit"} => Waived(w) \/ Calm(w)
\* The present is always part of what a running evaluation has met.
SeesNow(w)   == Busy(w) => Now \in seen[w]
WorkerInv(w) == SeesNow(w) /\ Fits(w, pc[w], level[w])
VerdictInv   == TypeInv /\ \A w \in Workers : WorkerInv(w)

\* What w has met only grows, so what it may appeal to stays.
LEMMA Moves ==
  ASSUME NEW w \in Workers, Fits(w, pc'[w], level'[w]), req'[w] = req[w],
         seen[w] \subseteq seen'[w], Busy(w)' => Now' \in seen'[w]
  PROVE  WorkerInv(w)'
<1>1. /\ NotAllowed(w) => NotAllowed(w)'
      /\ NotDenied(w) => NotDenied(w)'
      /\ NotBanned(w) => NotBanned(w)'
      /\ Favoured(w) => Favoured(w)'
  BY DEF NotAllowed, NotDenied, NotBanned, Favoured
<1>2. /\ ~UnderUam(w) => ~UnderUam(w)'
      /\ ~UnderFlag(w) => ~UnderFlag(w)'
  BY DEF UnderUam, UnderFlag
<1>3. Waived(w) => Waived(w)'
  BY <1>1 DEF Waived, Excused
<1>4. SeesNow(w)'
  BY DEF SeesNow
<1>5. Fits(w, pc[w], level[w])'
  BY <1>1, <1>2, <1>3 DEF Fits, Calm, PastForce, PastAllow, PastClassify, PastDeny, Stages,
                          Verdicts, Forced
<1>6. QED
  BY <1>4, <1>5 DEF WorkerInv

\* The other workers stay where they are.
LEMMA Others ==
  ASSUME VerdictInv, NEW w \in Workers, Arrive(w) \/ Step(w) \/ Answer(w),
         NEW v \in Workers \ {w}
  PROVE  WorkerInv(v)'
<1> USE DEF VerdictInv, TypeInv, TypeOK
<1>1. /\ pc'[v] = pc[v] /\ req'[v] = req[v] /\ level'[v] = level[v]
  BY DEF Arrive, Step, Answer, ReadUam, ReadAttack, ReadAllow, Classify, ReadDeny, ReadCrawler,
         ReadTrap, ForceBan, MaybeBan, ReadCap, ReadRate, ReadAttackAgain, ReadBps, ReadBic,
         Detect, ReadBlockLine, ReadChalLine, Judge, Strike, Decide, Goto, work
<1>2. /\ seen[v] \subseteq seen'[v]
      /\ Now \in seen[v] /\ Busy(v) => Now' \in seen'[v]
  <2>1. CASE \E p \in Verdicts : MaybeBan(w, p)
    BY <2>1 DEF MaybeBan, Witnessed
  <2>2. CASE Arrive(w) \/ Answer(w)
    BY <2>2 DEF Arrive, Answer, Now, SeesNow, WorkerInv
  <2>3. CASE UNCHANGED Outside
    BY <2>3 DEF Outside, Now
  <2>4. QED
    BY <2>1, <2>2, <2>3 DEF Step, ReadUam, ReadAttack, ReadAllow, Classify, ReadDeny, ReadCrawler,
         ReadTrap, ForceBan, ReadCap, ReadRate, ReadAttackAgain, ReadBps, ReadBic,
         Detect, ReadBlockLine, ReadChalLine, Judge, Strike, Decide, Verdicts
<1>3. Busy(v)' => Now' \in seen'[v]
  BY <1>1, <1>2 DEF Busy, SeesNow, WorkerInv
<1>4. Fits(v, pc'[v], level'[v])
  BY <1>1 DEF WorkerInv
<1>5. QED
  BY <1>1, <1>2, <1>3, <1>4, Moves

\* A stage that leaves the world alone.
LEMMA Here ==
  ASSUME VerdictInv, NEW w \in Workers, Busy(w), UNCHANGED <<Outside, req>>,
         Fits(w, pc'[w], level'[w])
  PROVE  WorkerInv(w)'
<1>1. req'[w] = req[w] /\ seen'[w] = seen[w] /\ Now' = Now
  BY DEF Outside, Now
<1>2. Now \in seen[w]
  BY DEF VerdictInv, WorkerInv, SeesNow
<1>3. QED
  BY <1>1, <1>2, Moves

LEMMA Own ==
  ASSUME VerdictInv, NEW w \in Workers, Arrive(w) \/ Step(w) \/ Answer(w)
  PROVE  WorkerInv(w)'
<1> USE DEF PastAllow, PastClassify, PastDeny, PastForce, Stages, Verdicts
<1>a. Fits(w, pc[w], level[w]) /\ (Busy(w) => Now \in seen[w])
  BY DEF VerdictInv, WorkerInv, SeesNow
<1>b. pc \in [Workers -> Stages \cup Verdicts \cup {"idle"}] /\ level \in [Workers -> Levels]
      /\ req \in [Workers -> Request] /\ seen \in [Workers -> SUBSET World]
  BY DEF VerdictInv, TypeInv, TypeOK
<1>1. ASSUME Arrive(w) PROVE WorkerInv(w)'
  <2>1. pc'[w] = "uam" /\ Now' = Now /\ Now \in seen'[w]
    BY <1>1, <1>b DEF Arrive, Goto, Now
  <2>2. QED
    BY <2>1 DEF WorkerInv, SeesNow, Fits
<1>2. ASSUME Answer(w) PROVE WorkerInv(w)'
  <2>1. pc'[w] = "idle"
    BY <1>2, <1>b DEF Answer, Goto
  <2>2. QED
    BY <2>1 DEF WorkerInv, SeesNow, Busy, Fits
<1>3. ASSUME ReadUam(w) PROVE WorkerInv(w)'
  <2>1. /\ Now \in seen[w] /\ level'[w] = rt.uam
        /\ pc'[w] = IF rt.uam = 0 THEN "attack" ELSE "allowlist"
    BY <1>3, <1>a, <1>b DEF ReadUam, Goto, At, Busy
  <2>2. /\ rt.uam = 0 => ~UnderUam(w)
        /\ rt.uam # 0 /\ ~Forced(rt.uam) => Calm(w)
    BY <2>1 DEF Calm, UnderUam, UnderFlag, Forced, Now
  <2>3. Fits(w, pc'[w], level'[w])
    BY <2>1, <2>2 DEF Fits
  <2>4. QED
    BY <1>3, <2>3, Here DEF ReadUam, Busy, At
<1>4. ASSUME ReadAttack(w) PROVE WorkerInv(w)'
  <2>1. /\ Now \in seen[w] /\ pc[w] = "attack" /\ pc'[w] = "allowlist"
        /\ level'[w] = IF "under_attack" \in rt.on THEN 2 ELSE 0
    BY <1>4, <1>a, <1>b DEF ReadAttack, Goto, At, Busy
  <2>2. ~UnderUam(w)
    BY <2>1, <1>a DEF Fits
  <2>3. "under_attack" \notin rt.on => Calm(w)
    BY <2>1, <2>2 DEF Calm, UnderFlag, Now
  <2>4. Fits(w, pc'[w], level'[w])
    BY <2>1, <2>3 DEF Fits, Forced
  <2>5. QED
    BY <1>4, <2>4, Here DEF ReadAttack, Busy, At
<1>5. ASSUME ReadAllow(w) PROVE WorkerInv(w)'
  <2>1. /\ Now \in seen[w] /\ pc[w] = "allowlist" /\ level'[w] = level[w]
        /\ pc'[w] = IF req[w].ip \in rt.allow THEN "allow" ELSE "classify"
    BY <1>5, <1>a, <1>b DEF ReadAllow, Decide, Goto, At, Busy, work
  <2>2. CASE req[w].ip \in rt.allow
    <3>1. Favoured(w) /\ Waived(w)
      BY <2>1, <2>2 DEF Favoured, Waived, Excused, Now
    <3>2. Fits(w, pc'[w], level'[w])
      BY <2>1, <2>2, <3>1 DEF Fits
    <3>3. QED
      BY <1>5, <3>2, Here DEF ReadAllow, Decide, work, Busy, At
  <2>3. CASE req[w].ip \notin rt.allow
    <3>1. NotAllowed(w)
      BY <2>1, <2>3 DEF NotAllowed, Now
    <3>2. Fits(w, pc'[w], level'[w])
      BY <1>a, <2>1, <2>3, <3>1 DEF Fits
    <3>3. QED
      BY <1>5, <3>2, Here DEF ReadAllow, Decide, work, Busy, At
  <2>4. QED
    BY <2>2, <2>3
<1>6. ASSUME Classify(w) PROVE WorkerInv(w)'
  <2>1. /\ Now \in seen[w] /\ pc[w] = "classify" /\ level'[w] = level[w]
        /\ pc'[w] = Classified(req[w].ip)
    BY <1>6, <1>a, <1>b DEF Classify, Decide, Goto, At, Busy, work
  <2>2. req[w].ip \in CfgAllow => Favoured(w) /\ Waived(w)
    BY DEF Favoured, Waived, Excused
  <2>3. pc'[w] = "denylist" => NotBanned(w)
    BY <2>1 DEF Classified, NotBanned, Now
  <2>4. Fits(w, pc'[w], level'[w])
    BY <1>a, <2>1, <2>2, <2>3 DEF Fits, Classified
  <2>5. QED
    BY <1>6, <2>4, Here DEF Classify, Decide, work, Busy, At
<1>7. ASSUME ReadDeny(w) PROVE WorkerInv(w)'
  <2>1. /\ Now \in seen[w] /\ pc[w] = "denylist" /\ level'[w] = level[w]
        /\ pc'[w] = IF req[w].ip \in rt.deny THEN "block" ELSE "crawler"
    BY <1>7, <1>a, <1>b DEF ReadDeny, Decide, Goto, At, Busy, work
  <2>2. pc'[w] = "crawler" => NotDenied(w)
    BY <2>1 DEF NotDenied, Now
  <2>3. Fits(w, pc'[w], level'[w])
    BY <1>a, <2>1, <2>2 DEF Fits
  <2>4. QED
    BY <1>7, <2>3, Here DEF ReadDeny, Decide, work, Busy, At
<1>8. ASSUME ReadCrawler(w) PROVE WorkerInv(w)'
  <2>1. /\ Now \in seen[w] /\ pc[w] = "crawler" /\ level'[w] = level[w]
        /\ pc'[w] = IF Known(w) = "verified" THEN "allow" ELSE "trap"
    BY <1>8, <1>a, <1>b DEF ReadCrawler, Goto, At, Busy
  <2>2. Known(w) = "verified" => Waived(w)
    BY <2>1 DEF Known, Waived, Excused, Now
  <2>3. Fits(w, pc'[w], level'[w])
    BY <1>a, <2>1, <2>2 DEF Fits
  <2>4. QED
    BY <1>8, <2>3, Here DEF ReadCrawler, Busy, At
<1>9. ASSUME ReadTrap(w) PROVE WorkerInv(w)'
  <2>1. Fits(w, pc'[w], level'[w])
    BY <1>9, <1>a, <1>b DEF ReadTrap, Decide, Goto, At, work, Fits
  <2>2. QED
    BY <1>9, <2>1, Here DEF ReadTrap, Decide, work, Busy, At
<1>10. ASSUME ForceBan(w) \/ Strike(w) PROVE WorkerInv(w)'
  <2>1. PICK p \in {"block", "tarpit"} :
          /\ MaybeBan(w, p) /\ pc[w] \in {"ban", "strike_block", "strike_tarpit"}
          /\ p = "tarpit" => pc[w] = "strike_tarpit"
    BY <1>10 DEF ForceBan, Strike, At
  <2>2. pc'[w] = p /\ level'[w] = level[w] /\ req'[w] = req[w]
    BY <1>b, <2>1 DEF MaybeBan, Goto, work
  <2>3. Fits(w, pc'[w], level'[w])
    BY <1>a, <2>1, <2>2 DEF Fits
  <2>4. seen[w] \subseteq seen'[w] /\ ~Busy(w)'
    BY <1>b, <2>1, <2>2 DEF MaybeBan, Witnessed, Busy
  <2>5. QED
    BY <2>2, <2>3, <2>4, Moves
<1>11. ASSUME ReadCap(w) PROVE WorkerInv(w)'
  <2>1. Fits(w, pc'[w], level'[w])
    BY <1>11, <1>a, <1>b DEF ReadCap, Decide, Goto, At, work, Fits
  <2>2. QED
    BY <1>11, <2>1, Here DEF ReadCap, Decide, work, Busy, At
\* The three ways to the rate limiter.
<1>12. ASSUME NEW r, NEW scale, r.flags = req[w].flags, pc[w] \in {"rate", "rate_attack", "rate_bps"},
              pc'[w] = AfterLimits(r, level[w], scale), level'[w] = level[w]
       PROVE  Fits(w, pc'[w], level'[w])
  <2>1. pc'[w] \in {"block", "allow", "challenge", "bic_cookie"}
    BY <1>12, AfterLimitsTo
  <2>2. /\ pc'[w] = "allow" => Waived(w)
        /\ pc'[w] = "bic_cookie" => ~Forced(level[w])
    BY <1>12 DEF AfterLimits, Waived
  <2>3. QED
    BY <1>12, <1>a, <2>1, <2>2 DEF Fits
<1>13. ASSUME ReadRate(w) \/ ReadAttackAgain(w) \/ ReadBps(w) PROVE WorkerInv(w)'
  <2>1. level'[w] = level[w] /\ pc[w] \in {"rate", "rate_attack", "rate_bps"}
    BY <1>13 DEF ReadRate, ReadAttackAgain, ReadBps, Decide, work, At
  <2>2. \/ pc'[w] \in {"rate_attack", "rate_bps"}
        \/ \E scale : pc'[w] = AfterLimits(req[w], level[w], scale)
        \/ pc'[w] = AfterLimits([req[w] EXCEPT !.load = 0], level[w], 10000)
    <3>1. ASSUME NEW p, Decide(w, p) PROVE pc'[w] = p
      BY <1>b, <3>1 DEF Decide, Goto
    <3>2. CASE ReadRate(w)
      BY <3>1, <3>2 DEF ReadRate
    <3>3. CASE ReadAttackAgain(w)
      BY <3>1, <3>3 DEF ReadAttackAgain
    <3>4. CASE ReadBps(w)
      BY <3>1, <3>4 DEF ReadBps
    <3>5. QED
      BY <1>13, <3>2, <3>3, <3>4
  <2>3. [req[w] EXCEPT !.load = 0].flags = req[w].flags
    BY <1>b DEF Request
  <2>4. CASE pc'[w] \in {"rate_attack", "rate_bps"}
    BY <1>a, <1>13, <2>1, <2>4, Here
       DEF Fits, ReadRate, ReadAttackAgain, ReadBps, Decide, Busy, work
  <2>5. CASE pc'[w] \notin {"rate_attack", "rate_bps"}
    <3>1. Fits(w, pc'[w], level'[w])
      <4>1. ASSUME NEW scale, pc'[w] = AfterLimits(req[w], level[w], scale)
            PROVE  Fits(w, pc'[w], level'[w])
        BY <1>12, <2>1, <4>1
      <4>2. CASE pc'[w] = AfterLimits([req[w] EXCEPT !.load = 0], level[w], 10000)
        <5> DEFINE r == [req[w] EXCEPT !.load = 0]
        <5>1. r.flags = req[w].flags
          BY <2>3
        <5>2. pc'[w] = AfterLimits(r, level[w], 10000)
          BY <4>2
        <5> HIDE DEF r
        <5>3. QED
          BY <1>12, <2>1, <5>1, <5>2
      <4>3. QED
        BY <2>2, <2>5, <4>1, <4>2
    <3>2. QED
      BY <1>13, <2>1, <3>1, Here DEF ReadRate, ReadAttackAgain, ReadBps, Decide, Busy, work
  <2>6. QED
    BY <2>4, <2>5
<1>14. ASSUME ReadBic(w) \/ Detect(w) \/ ReadBlockLine(w) \/ ReadChalLine(w) PROVE WorkerInv(w)'
  <2>1. /\ pc[w] \in PastForce /\ pc'[w] \in PastForce \ {"bic_cookie"} /\ level'[w] = level[w]
    BY <1>14, <1>b DEF ReadBic, Detect, ReadBlockLine, ReadChalLine, Goto, At
  <2>2. Fits(w, pc'[w], level'[w])
    BY <1>a, <2>1 DEF Fits
  <2>3. QED
    BY <1>14, <2>1, <2>2, Here DEF ReadBic, Detect, ReadBlockLine, ReadChalLine, Busy
<1>15. ASSUME Judge(w) PROVE WorkerInv(w)'
  <2>1. /\ pc[w] = "judge" /\ level'[w] = level[w]
        /\ pc'[w] \in {"allow", "challenge", "strike_block", "strike_tarpit"}
    BY <1>15, <1>b DEF Judge, Judged, Decide, Goto, At, work
  <2>2. Fits(w, pc'[w], level'[w])
    BY <1>a, <2>1 DEF Fits
  <2>3. QED
    BY <1>15, <2>2, Here DEF Judge, Decide, work, Busy, At
<1>16. QED
  BY <1>1, <1>2, <1>3, <1>4, <1>5, <1>6, <1>7, <1>8, <1>9, <1>10, <1>11, <1>13, <1>14, <1>15 DEF Step

LEMMA VerdictStep == VerdictInv /\ [Next]_vars => VerdictInv'
<1> SUFFICES ASSUME VerdictInv, [Next]_vars PROVE VerdictInv'
  OBVIOUS
<1>1. TypeInv'
  BY TypeStep DEF VerdictInv
<1>2. ASSUME NEW v \in Workers PROVE WorkerInv(v)'
  <2>1. CASE UNCHANGED vars
    <3>1. Fits(v, pc'[v], level'[v]) /\ Now' = Now
      BY <2>1 DEF VerdictInv, WorkerInv, vars, work, Now
    <3>2. QED
      BY <2>1, <3>1, Moves DEF VerdictInv, WorkerInv, SeesNow, Busy, vars, work
  <2>2. CASE Patch \/ Unban
    <3>1. Fits(v, pc'[v], level'[v]) /\ req'[v] = req[v]
      BY <2>2 DEF Patch, Unban, VerdictInv, WorkerInv, work
    <3>2. seen[v] \subseteq seen'[v] /\ (Busy(v)' => Now' \in seen'[v])
      BY <2>2 DEF Patch, Unban, Witnessed, Busy
    <3>3. QED
      BY <3>1, <3>2, Moves
  <2>3. ASSUME NEW w \in Workers, Arrive(w) \/ Step(w) \/ Answer(w) PROVE WorkerInv(v)'
    BY <2>3, Own, Others
  <2>4. QED
    BY <2>1, <2>2, <2>3 DEF Next
<1>3. QED
  BY <1>1, <1>2 DEF VerdictInv

LEMMA VerdictInit == Init => VerdictInv
<1>1. Init => \A w \in Workers : pc[w] = "idle"
  BY DEF Init
<1>2. QED
  BY <1>1, TypeInit DEF VerdictInv, WorkerInv, SeesNow, Busy, Fits, PastAllow, PastClassify,
                        PastDeny, PastForce, Stages, Verdicts

LEMMA VerdictsFit == Spec => []VerdictInv
BY VerdictInit, VerdictStep, PTL DEF Spec

\* "Allow always wins": evaluate tests the runtime list and then the configured one
\* before anything that could say no.
THEOREM AllowWins == Spec => []AllowListWins
<1>1. VerdictInv => AllowListWins
  BY DEF VerdictInv, WorkerInv, Fits, AllowListWins, Decided, NotAllowed, PastAllow, PastClassify,
         Verdicts, Stages
<1>2. QED
  BY <1>1, VerdictsFit, PTL

\* The deny lists and the bans are read before every way to another verdict: a request
\* denied throughout its evaluation is blocked.
THEOREM DenyAlwaysHolds == Spec => []DenyHolds
<1>1. VerdictInv => DenyHolds
  BY DEF VerdictInv, WorkerInv, Fits, DenyHolds, Decided, NotDenied, NotBanned, Verdicts
<1>2. QED
  BY <1>1, VerdictsFit, PTL

\* uam_params settles the level once, so an attack mode that lasts for an evaluation
\* leaves no way through it but a clearance, an allowance or a verified crawler.
THEOREM NoGapUnderAttack == Spec => []UnderAttackChallenges
<1>1. VerdictInv => UnderAttackChallenges
  BY DEF VerdictInv, WorkerInv, Fits, UnderAttackChallenges, Decided, Calm, Waived, Verdicts
<1>2. QED
  BY <1>1, VerdictsFit, PTL
-----------------------------------------------------------------------------
(* What the score of an evaluation owes to the detectors, and what its     *)
(* stage owes to the settings it was reached under.                        *)
EverOn(w)   == { d \in Scored : \E t \in seen[w] : d \in t.s.on }
AlwaysOn(w) == { d \in Scored : \A t \in seen[w] : d \in t.s.on }
Ran(n)      == { Detectors[i] : i \in 1 .. n - 1 }
PastBot     == PastDeny \ {"crawler"}

\* The score is the sum over detectors that ran, none of them always off; those spared may
\* be missing, the ones always on are not.
Tally(w, p, sc, n) ==
  /\ p \notin PastBot => sc = req[w].always
  /\ \E D \in SUBSET (Ran(n) \cap EverOn(w)), x \in {0, Spoof(req[w])} :
       /\ (Ran(n) \cap AlwaysOn(w)) \ Spared(req[w]) \subseteq D
       /\ sc = Total(req[w], D) + x
  /\ p \in {"block_t", "chal_t", "judge"} => Ran(n) = Scored

Mild(w) ==      \* the first premise of HarmlessServed, with the ceilings
  LET r == req[w] IN
  /\ r.ip \notin CfgDeny /\ r.flags \cap {"trap", "oversize"} = {}
  /\ \A t \in seen[w] :
       /\ r.ip \notin t.s.deny \cup t.banned
       /\ t.s.cap > 0 => r.inflight <= t.s.cap
       /\ ClampOf[t.s.uam] > 0 => r.inflight <= ClampOf[t.s.uam]
       /\ r.load <= ScaleOf[t.s.uam]
       /\ "under_attack" \in t.s.on => r.load <= 5000
  /\ (\E t \in seen[w] : "under_attack" \in t.s.on) => \A t \in seen[w] : r.load <= t.s.bps
Low(w) ==       \* and its second premise
  \/ "cleared" \in req[w].flags
  \/ \A t \in seen[w] : /\ ~Forced(t.s.uam) /\ "under_attack" \notin t.s.on
                        /\ Most(w) + DropOf[1] < t.s.chal /\ Most(w) + DropOf[1] < t.s.block
Flagged(w)    == \E t \in seen[w] : "under_attack" \in t.s.on
Trapped(w)    == "trap" \in req[w].flags /\ \E t \in seen[w] : "honeypots" \in t.s.on
Unverified(w) == req[w].crawler = "verified" => \E t \in seen[w] : "goodbot" \notin t.s.on
Offends(w)    == \E t \in seen[w] : Most(w) + DropOf[1] >= t.s.block
Passable(w)   == Waived(w) \/ \E t \in seen[w] : Least(w) < t.s.block

\* What must hold of w for it to be at stage or verdict p with level l and lines ln.
Merits(w, p, l, ln) ==
  /\ p \in Stages \ {"uam"} => (\E t \in seen[w] : t.s.uam = l) \/ (l = 2 /\ Flagged(w))
  /\ p = "attack" => l = 0
  /\ p \in PastBot => Unverified(w)
  /\ p = "ban" => Trapped(w)
  /\ p = "rate_bps" => Flagged(w)
  /\ p \in PastForce => "cleared" \notin req[w].flags
  /\ p \in {"chal_t", "judge"} => \E t \in seen[w] : ln.block = Minus(t.s.block, DropOf[l])
  /\ p = "judge" => \E t \in seen[w] : ln.chal = Minus(t.s.chal, DropOf[l])
  /\ p \in {"strike_block", "strike_tarpit"} => Offends(w)
  /\ p = "allow" => Passable(w)
  /\ p \in {"ban", "strike_block", "strike_tarpit"} \cup (Verdicts \ {"allow"}) => ~(Mild(w) /\ Low(w))

Spares(w)    == mute[w] \subseteq Spared(req[w])
MeritInv(w)  == /\ Busy(w) => Tally(w, pc[w], score[w], nth[w]) /\ Spares(w)
                /\ Merits(w, pc[w], level[w], lines[w])
FairInv      == VerdictInv /\ \A w \in Workers : MeritInv(w)

LEMMA ScoredFinite == IsFiniteSet(Scored)
<1>1. IsFiniteSet(1 .. Len(Detectors))
  BY DetectorAssumption, FS_Interval
<1>2. Detectors \in Surjection(1 .. Len(Detectors), Scored)
  BY DetectorAssumption DEF Surjection, Scored, ToSet
<1> QED BY <1>1, <1>2, FS_Surjection

LEMMA TotalTyped ==
  ASSUME NEW r \in Request, NEW D \in SUBSET Scored
  PROVE  /\ IsFiniteSet(D) /\ r.always \in Nat /\ \A d \in D : r.parts[d] \in Nat
         /\ Total(r, D) = r.always + SumOf(r.parts, D)
         /\ SumOf(r.parts, D) \in Nat /\ Total(r, D) \in Nat
<1>1. IsFiniteSet(D)
  BY ScoredFinite, FS_Subset
<1>2. r.always \in Nat /\ \A d \in D : r.parts[d] \in Nat
  BY DEF Request
<1>3. SumOf(r.parts, D) \in Nat
  BY <1>1, <1>2, SumTyped
<1>4. Total(r, D) = r.always + SumOf(r.parts, D)
  BY DEF Total, SumOf
<1> QED BY <1>1, <1>2, <1>3, <1>4

LEMMA TotalGrows ==
  ASSUME NEW r \in Request, NEW D \in SUBSET Scored, NEW E \in SUBSET Scored, D \subseteq E
  PROVE  Total(r, D) <= Total(r, E)
<1> DEFINE f == r.parts
<1>1. IsFiniteSet(E) /\ (\A d \in D : f[d] \in Nat) /\ \A d \in E : f[d] \in Nat
  BY TotalTyped
<1>2. Total(r, D) = r.always + SumOf(f, D) /\ Total(r, E) = r.always + SumOf(f, E)
      /\ r.always \in Nat
  BY TotalTyped
<1> HIDE DEF f
<1>3. \A d \in D : f[d] \in Nat /\ f[d] <= f[d]
  BY <1>1
<1>4. SumOf(f, D) <= SumOf(f, E) /\ SumOf(f, D) \in Nat /\ SumOf(f, E) \in Nat
  BY <1>1, <1>3, SumGrows
<1> QED BY <1>2, <1>4

LEMMA TotalWith ==
  ASSUME NEW r \in Request, NEW D \in SUBSET Scored, NEW d \in Scored \ D
  PROVE  Total(r, D \cup {d}) = Total(r, D) + r.parts[d] /\ r.parts[d] \in Nat
<1> DEFINE f == r.parts
           E == D \cup {d}
<1>1. E \in SUBSET Scored /\ d \in E /\ E \ {d} = D
  OBVIOUS
<1>2. /\ IsFiniteSet(E) /\ \A e \in E : f[e] \in Nat
      /\ Total(r, E) = r.always + SumOf(f, E) /\ r.always \in Nat
  BY <1>1, TotalTyped
<1>3. Total(r, D) = r.always + SumOf(f, D) /\ SumOf(f, D) \in Nat
  BY TotalTyped
<1> HIDE DEF f, E
<1>4. SumOf(f, E) = f[d] + SumOf(f, E \ {d}) /\ f[d] \in Nat
  BY <1>1, <1>2, SumWith
<1>5. SumOf(f, E) = f[d] + SumOf(f, D)
  BY <1>1, <1>4
<1> DEFINE a == r.always
           n == f[d]
           s == SumOf(f, D)
<1>6. Total(r, E) = a + (n + s) /\ Total(r, D) = a + s
  BY <1>2, <1>3, <1>5
<1>7. a \in Nat /\ n \in Nat /\ s \in Nat
  BY <1>2, <1>3, <1>4
<1> HIDE DEF a, n, s
<1>8. Total(r, E) = Total(r, D) + n
  BY <1>6, <1>7
<1> QED BY <1>7, <1>8 DEF f, E, n

LEMMA SpoofTyped == ASSUME NEW r \in Request PROVE Spoof(r) \in Nat
BY RequestAssumption DEF Spoof

\* The bounds the properties speak of.
LEMMA Bounds ==
  ASSUME NEW w \in Workers, req[w] \in Request
  PROVE  /\ Most(w) = Total(req[w], EverOn(w)) + Spoof(req[w]) /\ Most(w) \in Nat
         /\ Least(w) = Total(req[w], AlwaysOn(w) \ Spared(req[w])) /\ Least(w) \in Nat
<1>1. EverOn(w) \in SUBSET Scored /\ AlwaysOn(w) \ Spared(req[w]) \in SUBSET Scored
  BY DEF EverOn, AlwaysOn
<1>2. Total(req[w], EverOn(w)) \in Nat /\ Total(req[w], AlwaysOn(w) \ Spared(req[w])) \in Nat
  BY <1>1, TotalTyped
<1> QED BY <1>2, SpoofTyped DEF Most, Least, EverOn, AlwaysOn

\* A score that is complete lies between them.
LEMMA Within ==
  ASSUME NEW w \in Workers, req[w] \in Request, NEW p \in {"block_t", "chal_t", "judge"},
         NEW sc, NEW n, Tally(w, p, sc, n)
  PROVE  Least(w) <= sc /\ sc <= Most(w) /\ sc \in Nat
<1>1. Ran(n) = Scored
  BY DEF Tally
<1>2. PICK D \in SUBSET (Ran(n) \cap EverOn(w)), x \in {0, Spoof(req[w])} :
         /\ (Ran(n) \cap AlwaysOn(w)) \ Spared(req[w]) \subseteq D
         /\ sc = Total(req[w], D) + x
  BY DEF Tally
<1> DEFINE lo == AlwaysOn(w) \ Spared(req[w])
           hi == EverOn(w)
<1>3. lo \in SUBSET Scored /\ hi \in SUBSET Scored /\ lo \subseteq D /\ D \subseteq hi
  BY <1>1, <1>2 DEF EverOn, AlwaysOn
<1>4. Total(req[w], lo) <= Total(req[w], D) /\ Total(req[w], D) <= Total(req[w], hi)
      /\ Total(req[w], D) \in Nat
  BY <1>3, TotalGrows, TotalTyped
<1>5. Most(w) = Total(req[w], hi) + Spoof(req[w]) /\ Most(w) \in Nat
      /\ Least(w) = Total(req[w], lo) /\ Least(w) \in Nat /\ Spoof(req[w]) \in Nat
      /\ Total(req[w], hi) \in Nat
  BY <1>3, Bounds, SpoofTyped, TotalTyped
<1> HIDE DEF lo, hi
<1> QED BY <1>2, <1>4, <1>5

\* The more worlds a request has met, the wider they are.
LEMMA Widen ==
  ASSUME NEW w \in Workers, req[w] \in Request, req'[w] = req[w], seen[w] \subseteq seen'[w]
  PROVE  /\ Most(w) <= Most(w)' /\ Least(w)' <= Least(w)
         /\ Most(w) \in Nat /\ Most(w)' \in Nat /\ Least(w) \in Nat /\ Least(w)' \in Nat
<1> DEFINE r == req[w]
           A == EverOn(w)
           B == { d \in Scored : \E t \in seen'[w] : d \in t.s.on }
           C == AlwaysOn(w) \ Spared(r)
           D == { d \in Scored : \A t \in seen'[w] : d \in t.s.on } \ Spared(r)
<1>1. A \in SUBSET Scored /\ B \in SUBSET Scored /\ C \in SUBSET Scored /\ D \in SUBSET Scored
      /\ A \subseteq B /\ D \subseteq C
  BY DEF EverOn, AlwaysOn
<1>2. Most(w)' = Total(r, B) + Spoof(r) /\ Least(w)' = Total(r, D)
  BY DEF Most, Least
<1>3. Most(w) = Total(r, A) + Spoof(r) /\ Least(w) = Total(r, C)
  BY Bounds
<1> HIDE DEF A, B, C, D
<1>4. Total(r, A) <= Total(r, B) /\ Total(r, D) <= Total(r, C)
  BY <1>1, TotalGrows
<1>5. Total(r, A) \in Nat /\ Total(r, B) \in Nat /\ Total(r, C) \in Nat /\ Total(r, D) \in Nat
      /\ Spoof(r) \in Nat
  BY <1>1, TotalTyped, SpoofTyped
<1> DEFINE mw == Most(w)'
           lw == Least(w)'
<1>6. mw = Total(r, B) + Spoof(r) /\ lw = Total(r, D)
  BY <1>2
<1> HIDE DEF mw, lw, r
<1>7. Most(w) <= mw /\ lw <= Least(w) /\ Most(w) \in Nat /\ mw \in Nat /\ Least(w) \in Nat /\ lw \in Nat
  BY <1>3, <1>4, <1>5, <1>6
<1> QED BY <1>7 DEF mw, lw

LEMMA WorldTyped ==
  ASSUME NEW t \in World
  PROVE  /\ t.s.uam \in Levels /\ t.s.block \in Nat /\ t.s.chal \in Nat /\ t.s.cap \in Nat
         /\ t.s.bps \in Nat
BY DEF World, Settings

\* Nothing a request may hold against its verdict is lost by meeting more worlds.
LEMMA MeritsStay ==
  ASSUME NEW w \in Workers, req[w] \in Request, seen[w] \subseteq World,
         req'[w] = req[w], seen[w] \subseteq seen'[w],
         Merits(w, pc'[w], level'[w], lines'[w])
  PROVE  Merits(w, pc[w], level[w], lines[w])'
<1> DEFINE most == Most(w)
           more == Most(w)'
           least == Least(w)
           less == Least(w)'
<1>1. most <= more /\ less <= least /\ most \in Nat /\ more \in Nat /\ least \in Nat /\ less \in Nat
  BY Widen
<1>2. DropOf[1] = 5
  BY DEF DropOf, Levels
<1>3. Mild(w)' => Mild(w)
  BY DEF Mild
<1>4. Low(w)' => Low(w)
  <2>1. ASSUME NEW t \in seen[w], more + DropOf[1] < t.s.chal, more + DropOf[1] < t.s.block
        PROVE  most + DropOf[1] < t.s.chal /\ most + DropOf[1] < t.s.block
    <3>1. t.s.chal \in Nat /\ t.s.block \in Nat
      BY WorldTyped
    <3> HIDE DEF most, more
    <3> QED BY <1>1, <1>2, <2>1, <3>1
  <2> QED BY <2>1 DEF Low
<1>5. Offends(w) => Offends(w)'
  <2>1. ASSUME NEW t \in seen[w], most + DropOf[1] >= t.s.block
        PROVE  more + DropOf[1] >= t.s.block
    <3>1. t.s.block \in Nat
      BY WorldTyped
    <3> HIDE DEF most, more
    <3> QED BY <1>1, <1>2, <2>1, <3>1
  <2> QED BY <2>1 DEF Offends
<1>6. Passable(w) => Passable(w)'
  <2>1. ASSUME NEW t \in seen[w], least < t.s.block PROVE less < t.s.block
    <3>1. t.s.block \in Nat
      BY WorldTyped
    <3> HIDE DEF least, less
    <3> QED BY <1>1, <2>1, <3>1
  <2>2. Waived(w) => Waived(w)'
    BY DEF Waived, Excused, Favoured
  <2> QED BY <2>1, <2>2 DEF Passable
<1>7. /\ Flagged(w) => Flagged(w)'
      /\ Trapped(w) => Trapped(w)'
      /\ Unverified(w) => Unverified(w)'
  BY DEF Flagged, Trapped, Unverified
<1>8. (\E t \in seen[w] : t.s.uam = level'[w]) => \E t \in seen'[w] : t.s.uam = level'[w]
  OBVIOUS
<1>9. /\ (\E t \in seen[w] : lines'[w].block = Minus(t.s.block, DropOf[level'[w]])) =>
           \E t \in seen'[w] : lines'[w].block = Minus(t.s.block, DropOf[level'[w]])
      /\ (\E t \in seen[w] : lines'[w].chal = Minus(t.s.chal, DropOf[level'[w]])) =>
           \E t \in seen'[w] : lines'[w].chal = Minus(t.s.chal, DropOf[level'[w]])
  OBVIOUS
<1> HIDE DEF most, more, least, less
<1> QED BY <1>3, <1>4, <1>5, <1>6, <1>7, <1>8, <1>9
           DEF Merits, PastBot, PastDeny, PastClassify, PastAllow, PastForce, Stages, Verdicts

LEMMA TallyStays ==
  ASSUME NEW w \in Workers, req'[w] = req[w], seen[w] \subseteq seen'[w],
         Tally(w, pc'[w], score'[w], nth'[w])
  PROVE  Tally(w, pc[w], score[w], nth[w])'
<1> DEFINE n == nth'[w]
           ever == { d \in Scored : \E t \in seen'[w] : d \in t.s.on }
           always == { d \in Scored : \A t \in seen'[w] : d \in t.s.on }
<1>1. EverOn(w) \subseteq ever /\ always \subseteq AlwaysOn(w)
  BY DEF EverOn, AlwaysOn
<1>2. PICK D \in SUBSET (Ran(n) \cap EverOn(w)), x \in {0, Spoof(req[w])} :
         /\ (Ran(n) \cap AlwaysOn(w)) \ Spared(req[w]) \subseteq D
         /\ score'[w] = Total(req[w], D) + x
  BY DEF Tally
<1>3. D \in SUBSET (Ran(n) \cap ever) /\ (Ran(n) \cap always) \ Spared(req[w]) \subseteq D
  BY <1>1, <1>2
<1>4. \E E \in SUBSET (Ran(n) \cap ever), y \in {0, Spoof(req'[w])} :
         /\ (Ran(n) \cap always) \ Spared(req'[w]) \subseteq E
         /\ score'[w] = Total(req'[w], E) + y
  BY <1>2, <1>3
<1>5. /\ pc'[w] \notin PastBot => score'[w] = req'[w].always
      /\ pc'[w] \in {"block_t", "chal_t", "judge"} => Ran(n) = Scored
  BY DEF Tally
<1> HIDE DEF n
<1>6. n = nth'[w]
  BY DEF n
<1> QED BY <1>4, <1>5, <1>6 DEF Tally, EverOn, AlwaysOn, Ran, Spared, Spoof, PastBot, PastDeny, PastClassify, PastAllow, Stages

LEMMA MeritMoves ==
  ASSUME NEW w \in Workers, TypeInv, req'[w] = req[w], seen[w] \subseteq seen'[w],
         Merits(w, pc'[w], level'[w], lines'[w]),
         Busy(w)' => Tally(w, pc'[w], score'[w], nth'[w]) /\ mute'[w] \subseteq Spared(req[w])
  PROVE  MeritInv(w)'
<1>1. req[w] \in Request /\ seen[w] \subseteq World
  BY DEF TypeInv, TypeOK
<1>2. Merits(w, pc[w], level[w], lines[w])'
  BY <1>1, MeritsStay
<1>3. Busy(w)' => Tally(w, pc[w], score[w], nth[w])'
  BY TallyStays
<1>4. Busy(w)' => Spares(w)'
  BY DEF Spares
<1> QED BY <1>2, <1>3, <1>4 DEF MeritInv

Late == {"block_t", "chal_t", "judge"}

\* What FairInv says of a running evaluation.
LEMMA Running ==
  ASSUME FairInv, NEW w \in Workers, Busy(w)
  PROVE  /\ TypeInv /\ Now \in seen[w] /\ Now \in World /\ seen[w] \subseteq World
         /\ req[w] \in Request /\ level[w] \in Levels /\ score[w] \in Nat
         /\ Fits(w, pc[w], level[w]) /\ Merits(w, pc[w], level[w], lines[w])
         /\ Tally(w, pc[w], score[w], nth[w]) /\ mute[w] \subseteq Spared(req[w])
<1>1. TypeInv /\ WorkerInv(w) /\ MeritInv(w)
  BY DEF FairInv, VerdictInv
<1> QED BY <1>1, NowTyped DEF WorkerInv, SeesNow, MeritInv, Spares, TypeInv, TypeOK

LEMMA TallyKeeps ==
  ASSUME NEW w \in Workers, NEW p, NEW q, NEW sc, NEW n, Tally(w, p, sc, n),
         q \notin PastBot => p \notin PastBot, q \in Late => p \in Late
  PROVE  Tally(w, q, sc, n)
BY DEF Tally, Late

\* A stage that only decides where to go.
LEMMA DecideFair ==
  ASSUME FairInv, NEW w \in Workers, Busy(w), NEW p, Decide(w, p),
         Merits(w, p, level[w], lines[w]),
         p \in Stages => (p \notin PastBot => pc[w] \notin PastBot) /\ (p \in Late => pc[w] \in Late)
  PROVE  MeritInv(w)'
<1>1. pc'[w] = p
  BY DEF FairInv, VerdictInv, TypeInv, TypeOK, Decide, Goto
<1>2. UNCHANGED <<req, level, mute, score, nth, lines, seen>>
  BY DEF Decide, work, Outside
<1>3. Busy(w)' => p \in Stages
  BY <1>1 DEF Busy
<1>4. p \in Stages => Tally(w, p, score[w], nth[w])
  BY Running, TallyKeeps
<1> QED BY <1>1, <1>2, <1>3, <1>4, Running, MeritMoves

\* A stage that leaves the world and the request alone.
LEMMA HereFair ==
  ASSUME FairInv, NEW w \in Workers, Busy(w), UNCHANGED <<Outside, req>>,
         Merits(w, pc'[w], level'[w], lines'[w]),
         Busy(w)' => Tally(w, pc'[w], score'[w], nth'[w]) /\ mute'[w] \subseteq Spared(req[w])
  PROVE  MeritInv(w)'
BY Running, MeritMoves DEF Outside

LEMMA OthersFair ==
  ASSUME FairInv, NEW w \in Workers, Arrive(w) \/ Step(w) \/ Answer(w),
         NEW v \in Workers \ {w}
  PROVE  MeritInv(v)'
<1> USE DEF FairInv, VerdictInv, TypeInv, TypeOK
<1>1. /\ pc'[v] = pc[v] /\ req'[v] = req[v] /\ level'[v] = level[v] /\ lines'[v] = lines[v]
      /\ score'[v] = score[v] /\ nth'[v] = nth[v] /\ mute'[v] = mute[v]
  BY DEF Arrive, Step, Answer, ReadUam, ReadAttack, ReadAllow, Classify, ReadDeny, ReadCrawler,
         ReadTrap, ForceBan, MaybeBan, ReadCap, ReadRate, ReadAttackAgain, ReadBps, ReadBic,
         Detect, ReadBlockLine, ReadChalLine, Judge, Strike, Decide, Goto, work
<1>2. seen[v] \subseteq seen'[v]
  <2>1. CASE \E p \in Verdicts : MaybeBan(w, p)
    BY <2>1 DEF MaybeBan, Witnessed
  <2>2. CASE Arrive(w) \/ Answer(w)
    BY <2>2 DEF Arrive, Answer
  <2>3. CASE UNCHANGED Outside
    BY <2>3 DEF Outside
  <2> QED
    BY <2>1, <2>2, <2>3 DEF Step, ReadUam, ReadAttack, ReadAllow, Classify, ReadDeny, ReadCrawler,
         ReadTrap, ForceBan, ReadCap, ReadRate, ReadAttackAgain, ReadBps, ReadBic,
         Detect, ReadBlockLine, ReadChalLine, Judge, Strike, Decide, Verdicts
<1>3. MeritInv(v)
  OBVIOUS
<1>4. Busy(v)' = Busy(v)
  BY <1>1 DEF Busy
<1>5. TypeInv
  OBVIOUS
<1> QED BY <1>1, <1>2, <1>3, <1>4, <1>5, MeritMoves DEF MeritInv, Spares

\* saturating_sub takes at most what it is given.
LEMMA Lowered ==
  ASSUME NEW b \in Nat, NEW l \in Levels
  PROVE  /\ Minus(b, DropOf[l]) \in Nat /\ Minus(b, DropOf[l]) <= b
         /\ ~Forced(l) => b <= Minus(b, DropOf[l]) + DropOf[1]
         /\ DropOf[1] \in Nat
BY DEF Minus, DropOf, Levels, Forced

\* Who is mild exceeds no ceiling of the level that was read.
LEMMA MildLoad ==
  ASSUME FairInv, NEW w \in Workers, Busy(w), pc[w] # "uam", Mild(w)
  PROVE  /\ req[w].load <= ScaleOf[level[w]]
         /\ ClampOf[level[w]] > 0 => req[w].inflight <= ClampOf[level[w]]
         /\ rt.cap > 0 => req[w].inflight <= rt.cap
         /\ req[w].load <= 10000
         /\ pc[w] = "rate_bps" => req[w].load <= rt.bps
<1>1. (\E t \in seen[w] : t.s.uam = level[w]) \/ (level[w] = 2 /\ Flagged(w))
  BY Running DEF Merits, Busy
<1>2. ScaleOf[2] = 5000 /\ ClampOf[2] = 0 /\ \A l \in Levels : ScaleOf[l] \in Nat /\ ScaleOf[l] <= 10000
  BY DEF ScaleOf, ClampOf, Levels
<1>3. \A t \in seen[w] : t.s.uam \in Levels
  BY Running, WorldTyped
<1>4. req[w].load \in Nat
  BY Running DEF Request
<1>5. req[w].load <= ScaleOf[level[w]]
  BY <1>1, <1>2 DEF Mild, Flagged
<1>6. ClampOf[level[w]] > 0 => req[w].inflight <= ClampOf[level[w]]
  BY <1>1, <1>2 DEF Mild
<1>7. rt.cap > 0 => req[w].inflight <= rt.cap
  BY Running DEF Mild, Now
<1>8. req[w].load <= 10000
  BY <1>2, <1>4, <1>5, Running
<1>9. pc[w] = "rate_bps" => req[w].load <= rt.bps
  BY Running DEF Merits, Mild, Flagged, Now
<1> QED BY <1>5, <1>6, <1>7, <1>8, <1>9

LEMMA TotalNone == ASSUME NEW r \in Request PROVE Total(r, {}) = r.always /\ r.always \in Nat
<1> DEFINE f == r.parts
<1>1. IsFiniteSet({}) /\ \A d \in {} : f[d] \in Nat
  BY FS_EmptySet
<1>2. SumOf(f, {}) = 0
  <2> HIDE DEF f
  <2> QED BY <1>1, SumIsCount, PairsEmpty
<1>3. Total(r, {}) = r.always + SumOf(f, {}) /\ r.always \in Nat
  BY TotalTyped
<1> QED BY <1>2, <1>3

LEMMA RanNone == Ran(1) = {}
BY DEF Ran

LEMMA ArriveFair ==
  ASSUME FairInv, NEW w \in Workers, Arrive(w)
  PROVE  MeritInv(w)'
<1>1. TypeInv
  BY DEF FairInv, VerdictInv
<1>2. PICK r \in Requests : req' = [req EXCEPT ![w] = r] /\ score' = [score EXCEPT ![w] = r.always]
  BY DEF Arrive
<1>3. /\ pc'[w] = "uam" /\ nth'[w] = 1 /\ mute'[w] = {} /\ seen'[w] = {Now}
      /\ req'[w] = r /\ score'[w] = r.always /\ r \in Request
  BY <1>1, <1>2, RequestAssumption DEF TypeInv, TypeOK, Arrive, Goto
<1>4. Merits(w, pc[w], level[w], lines[w])'
  BY <1>3 DEF Merits, PastBot, PastDeny, PastClassify, PastAllow, PastForce, Stages, Verdicts
<1>5. Tally(w, pc[w], score[w], nth[w])'
  <2>1. {} \in SUBSET (Ran(1) \cap EverOn(w)') /\ Ran(1) = {} /\ 0 \in {0, Spoof(r)}
    BY RanNone
  <2>2. r.always = Total(r, {}) + 0
    BY <1>3, TotalNone
  <2>3. \E D \in SUBSET (Ran(1) \cap EverOn(w)'), x \in {0, Spoof(r)} :
          /\ (Ran(1) \cap AlwaysOn(w)') \ Spared(r) \subseteq D
          /\ r.always = Total(r, D) + x
    BY <2>1, <2>2
  <2> HIDE DEF Tally
  <2> QED BY <1>3, <2>3 DEF Tally, EverOn, AlwaysOn, Ran, Spared, Spoof, PastBot, PastDeny,
                            PastClassify, PastAllow, Stages
<1>6. Spares(w)'
  BY <1>3 DEF Spares
<1> QED BY <1>4, <1>5, <1>6 DEF MeritInv

LEMMA AnswerFair ==
  ASSUME FairInv, NEW w \in Workers, Answer(w)
  PROVE  MeritInv(w)'
<1>1. pc'[w] = "idle"
  BY DEF FairInv, VerdictInv, TypeInv, TypeOK, Answer, Goto
<1> QED BY <1>1 DEF MeritInv, Merits, Busy, PastBot, PastDeny, PastClassify, PastAllow, PastForce,
                    Stages, Verdicts

LEMMA LevelFair ==
  ASSUME FairInv, NEW w \in Workers, ReadUam(w) \/ ReadAttack(w)
  PROVE  MeritInv(w)'
<1> USE DEF PastBot, PastAllow, PastClassify, PastDeny, PastForce, Stages, Verdicts
<1>b. pc \in [Workers -> Stages \cup Verdicts \cup {"idle"}] /\ level \in [Workers -> Levels]
  BY DEF FairInv, VerdictInv, TypeInv, TypeOK
<1>1. Busy(w) /\ UNCHANGED <<Outside, req, score, nth, mute, lines>> /\ pc[w] \notin PastBot
      /\ pc'[w] \in {"attack", "allowlist"} /\ Now \in seen[w]
  BY <1>b, Running DEF ReadUam, ReadAttack, At, Goto, Busy
<1>2. Merits(w, pc'[w], level'[w], lines'[w])
  <2>1. CASE ReadUam(w)
    <3>1. level'[w] = rt.uam /\ (pc'[w] = "attack" => rt.uam = 0)
      BY <1>b, <2>1 DEF ReadUam, Goto
    <3>2. \E t \in seen[w] : t.s.uam = level'[w]
      BY <1>1, <3>1 DEF Now
    <3> QED BY <1>1, <3>1, <3>2 DEF Merits
  <2>2. CASE ReadAttack(w)
    <3>1. /\ level'[w] = (IF "under_attack" \in rt.on THEN 2 ELSE 0)
          /\ pc'[w] = "allowlist" /\ pc[w] = "attack"
      BY <1>b, <2>2 DEF ReadAttack, Goto, At
    <3>2. "under_attack" \in rt.on => Flagged(w)
      BY <1>1 DEF Flagged, Now
    <3>3. level[w] = 0 /\ \E t \in seen[w] : t.s.uam = 0
      BY <1>1, <3>1, Running DEF Merits
    <3> QED BY <1>1, <3>1, <3>2, <3>3 DEF Merits
  <2> QED BY <2>1, <2>2
<1>3. Tally(w, pc'[w], score'[w], nth'[w])
  BY <1>1, Running, TallyKeeps DEF Late
<1> QED BY <1>1, <1>2, <1>3, Running, HereFair

\* The lists, the trap and the cap.
LEMMA ListFair ==
  ASSUME FairInv, NEW w \in Workers,
         ReadAllow(w) \/ Classify(w) \/ ReadDeny(w) \/ ReadTrap(w) \/ ReadCap(w)
  PROVE  MeritInv(w)'
<1> USE DEF PastBot, PastAllow, PastClassify, PastDeny, PastForce, Stages, Verdicts
<1>1. Busy(w) /\ Now \in seen[w] /\ Merits(w, pc[w], level[w], lines[w])
  BY Running DEF ReadAllow, Classify, ReadDeny, ReadTrap, ReadCap, At, Busy
<1>2. CASE ReadAllow(w)
  <2> DEFINE p == IF req[w].ip \in rt.allow THEN "allow" ELSE "classify"
  <2>1. req[w].ip \in rt.allow => Passable(w)
    BY <1>1 DEF Passable, Waived, Excused, Favoured, Now
  <2>2. Merits(w, p, level[w], lines[w])
    BY <1>1, <1>2, <2>1 DEF ReadAllow, At, Merits
  <2> QED BY <1>1, <1>2, <2>2, DecideFair DEF ReadAllow, At, Late
<1>3. CASE Classify(w)
  <2> DEFINE p == Classified(req[w].ip)
  <2>1. req[w].ip \in CfgAllow => Passable(w)
    BY DEF Passable, Waived, Excused, Favoured
  <2>2. req[w].ip \in CfgDeny \cup banned => ~Mild(w)
    BY <1>1 DEF Mild, Now
  <2>3. Merits(w, p, level[w], lines[w])
    BY <1>1, <1>3, <2>1, <2>2 DEF Classify, Classified, At, Merits
  <2> QED BY <1>1, <1>3, <2>3, DecideFair DEF Classify, Classified, At, Late
<1>4. CASE ReadDeny(w)
  <2> DEFINE p == IF req[w].ip \in rt.deny THEN "block" ELSE "crawler"
  <2>1. req[w].ip \in rt.deny => ~Mild(w)
    BY <1>1 DEF Mild, Now
  <2>2. Merits(w, p, level[w], lines[w])
    BY <1>1, <1>4, <2>1 DEF ReadDeny, At, Merits
  <2> QED BY <1>1, <1>4, <2>2, DecideFair DEF ReadDeny, At, Late
<1>5. CASE ReadTrap(w)
  <2> DEFINE p == IF "honeypots" \in rt.on /\ "trap" \in req[w].flags THEN "ban" ELSE "conns"
  <2>1. p = "ban" => Trapped(w) /\ ~Mild(w)
    BY <1>1 DEF Trapped, Mild, Now
  <2>2. Merits(w, p, level[w], lines[w])
    BY <1>1, <1>5, <2>1 DEF ReadTrap, At, Merits
  <2> QED BY <1>1, <1>5, <2>2, DecideFair DEF ReadTrap, At, Late
<1>6. CASE ReadCap(w)
  <2> DEFINE p == IF OverCap(req[w], level[w]) \/ "oversize" \in req[w].flags
                  THEN "block" ELSE "rate"
  <2>1. OverCap(req[w], level[w]) => ~Mild(w)
    <3> SUFFICES ASSUME Mild(w) PROVE ~OverCap(req[w], level[w])
      OBVIOUS
    <3>1. /\ ClampOf[level[w]] > 0 => req[w].inflight <= ClampOf[level[w]]
          /\ rt.cap > 0 => req[w].inflight <= rt.cap
      BY <1>1, <1>6, MildLoad DEF ReadCap, At
    <3>2. ClampOf[level[w]] \in Nat /\ rt.cap \in Nat /\ req[w].inflight \in Nat
      <4>1. \A l \in Levels : ClampOf[l] \in Nat
        BY DEF ClampOf, Levels
      <4>2. level[w] \in Levels /\ req[w] \in Request /\ rt \in Settings
        BY <1>1, Running DEF TypeInv, TypeOK
      <4> QED BY <4>1, <4>2 DEF Settings, Request
    <3> QED BY <3>1, <3>2 DEF OverCap, CapFor
  <2>2. "oversize" \in req[w].flags => ~Mild(w)
    BY DEF Mild
  <2>3. Merits(w, p, level[w], lines[w])
    BY <1>1, <1>6, <2>1, <2>2 DEF ReadCap, At, Merits
  <2> QED BY <1>1, <1>6, <2>3, DecideFair DEF ReadCap, At, Late
<1> QED BY <1>2, <1>3, <1>4, <1>5, <1>6

LEMMA CrawlerFair ==
  ASSUME FairInv, NEW w \in Workers, ReadCrawler(w)
  PROVE  MeritInv(w)'
<1> USE DEF PastBot, PastAllow, PastClassify, PastDeny, PastForce, Stages, Verdicts
<1> DEFINE r == req[w]
           add == IF Known(w) = "spoofed" THEN SpoofScore ELSE 0
<1>1. /\ Busy(w) /\ pc[w] = "crawler" /\ Now \in seen[w] /\ UNCHANGED <<Outside, req, lines>>
      /\ Merits(w, pc[w], level[w], lines[w]) /\ Tally(w, pc[w], score[w], nth[w])
      /\ mute[w] \subseteq Spared(r) /\ r \in Request
  BY Running DEF ReadCrawler, At, Busy
<1>2. /\ pc'[w] = IF Known(w) = "verified" THEN "allow" ELSE "trap"
      /\ mute'[w] = IF Known(w) = "pending" THEN mute[w] \cup {"bot_score"} ELSE mute[w]
      /\ score'[w] = IF Known(w) = "spoofed" THEN score[w] + SpoofScore ELSE score[w]
      /\ level'[w] = level[w] /\ nth'[w] = nth[w] /\ nth[w] = 1
  BY <1>1 DEF FairInv, VerdictInv, TypeInv, TypeOK, CursorOK, Early, ReadCrawler, Goto
<1>3. Known(w) = "verified" => Passable(w)
  BY <1>1 DEF Known, Passable, Waived, Excused, Now
<1>4. Known(w) # "verified" => Unverified(w)
  BY <1>1 DEF Known, Unverified, Now
<1>5. Merits(w, pc'[w], level'[w], lines'[w])
  BY <1>1, <1>2, <1>3, <1>4 DEF Merits
<1>6. score[w] = r.always /\ r.always \in Nat /\ Total(r, {}) = r.always
  BY <1>1, TotalNone DEF Tally
<1>7. add \in {0, Spoof(r)} /\ add \in Nat /\ score'[w] = Total(r, {}) + add
  BY <1>2, <1>6, RequestAssumption DEF Known, Spoof
<1>8. Tally(w, "trap", score'[w], nth'[w])
  <2> HIDE DEF add
  <2>1. {} \in SUBSET (Ran(1) \cap EverOn(w)) /\ Ran(1) = {}
    BY RanNone
  <2> QED BY <1>2, <1>7, <2>1 DEF Tally
<1>9. mute'[w] \subseteq Spared(r)
  BY <1>1, <1>2 DEF Spared, Known
<1> QED BY <1>1, <1>2, <1>5, <1>8, <1>9, HereFair DEF Busy

\* What the rate limiter and the clearance make of a request that may load it.
LEMMA LimitsFair ==
  ASSUME FairInv, NEW w \in Workers, Busy(w), pc[w] \in {"rate", "rate_attack", "rate_bps"},
         NEW r, r.flags = req[w].flags, NEW scale, Mild(w) => ~Throttled(r, scale),
         Decide(w, AfterLimits(r, level[w], scale))
  PROVE  MeritInv(w)'
<1> USE DEF PastBot, PastAllow, PastClassify, PastDeny, PastForce, Stages, Verdicts
<1> DEFINE p == AfterLimits(r, level[w], scale)
<1>1. Merits(w, pc[w], level[w], lines[w])
  BY Running
<1>2. p \in {"block", "allow", "challenge", "bic_cookie"}
  BY AfterLimitsTo
<1>3. /\ p = "block" => ~Mild(w)
      /\ p = "allow" => Passable(w)
      /\ p \in {"challenge", "bic_cookie"} => "cleared" \notin req[w].flags
      /\ p = "challenge" => Forced(level[w])
  BY DEF AfterLimits, Passable, Waived
<1>4. p = "challenge" => ~Low(w)
  BY <1>1, <1>3 DEF Merits, Low, Flagged
<1> HIDE DEF p
<1>5. Merits(w, p, level[w], lines[w])
  BY <1>1, <1>2, <1>3, <1>4 DEF Merits
<1>6. Decide(w, p)
  BY DEF p
<1> QED BY <1>2, <1>5, <1>6, DecideFair DEF Late

LEMMA RateFair ==
  ASSUME FairInv, NEW w \in Workers, ReadRate(w) \/ ReadAttackAgain(w) \/ ReadBps(w)
  PROVE  MeritInv(w)'
<1> DEFINE lv == level[w]
<1>1. Busy(w) /\ pc[w] \in {"rate", "rate_attack", "rate_bps"}
  BY DEF ReadRate, ReadAttackAgain, ReadBps, At, Busy, Stages
<1>2. Merits(w, pc[w], lv, lines[w]) /\ Now \in seen[w] /\ req[w] \in Request /\ lv \in Levels
      /\ rt.bps \in Nat
  BY <1>1, Running DEF TypeInv, TypeOK, Settings
<1>3. ScaleOf[lv] \in Nat /\ ScaleOf[lv] > 100
  <2>1. \A l \in Levels : ScaleOf[l] \in Nat /\ ScaleOf[l] > 100
    BY DEF ScaleOf, Levels
  <2> QED BY <1>2, <2>1
<1>4. req[w].load \in Nat
  BY <1>2 DEF Request
<1>5. Mild(w) => /\ req[w].load <= ScaleOf[lv] /\ req[w].load <= 10000
                 /\ pc[w] = "rate_bps" => req[w].load <= rt.bps
  BY <1>1, MildLoad
<1>6. ASSUME NEW p \in {"rate_attack", "rate_bps"}, Decide(w, p),
             p = "rate_bps" => "under_attack" \in rt.on
      PROVE  MeritInv(w)'
  <2>1. p = "rate_bps" => Flagged(w)
    BY <1>2, <1>6 DEF Flagged, Now
  <2>2. Merits(w, p, level[w], lines[w])
    BY <1>1, <1>2, <2>1 DEF Merits, PastBot, PastAllow, PastClassify, PastDeny, PastForce, Stages, Verdicts
  <2> QED BY <1>1, <1>6, <2>2, DecideFair DEF Late, PastBot, PastAllow, PastClassify, PastDeny, Stages
<1>7. ASSUME NEW scale \in Nat, Decide(w, AfterLimits(req[w], lv, scale)),
             Mild(w) => req[w].load <= scale
      PROVE  MeritInv(w)'
  <2>1. Mild(w) => ~Throttled(req[w], scale)
    BY <1>4, <1>7 DEF Throttled
  <2> QED BY <1>1, <1>7, <2>1, LimitsFair
<1>8. CASE ReadRate(w)
  <2>1. CASE "rate_limit" \notin rt.on
    <3> DEFINE r == [req[w] EXCEPT !.load = 0]
    <3>1. r.flags = req[w].flags /\ r.load = 0
      BY <1>2 DEF Request
    <3>2. Decide(w, AfterLimits(r, level[w], 10000))
      BY <1>8, <2>1 DEF ReadRate
    <3> HIDE DEF r
    <3>3. ~Throttled(r, 10000)
      BY <3>1 DEF Throttled
    <3> QED BY <1>1, <3>1, <3>2, <3>3, LimitsFair
  <2>2. CASE "rate_limit" \in rt.on /\ ScaleOf[lv] < 10000
    <3>1. Decide(w, AfterLimits(req[w], lv, ScaleOf[lv]))
      BY <1>8, <2>2 DEF ReadRate
    <3> QED BY <1>3, <1>5, <1>7, <3>1
  <2>3. CASE "rate_limit" \in rt.on /\ ~(ScaleOf[lv] < 10000)
    BY <1>6, <1>8, <2>3 DEF ReadRate
  <2> QED BY <2>1, <2>2, <2>3
<1>9. CASE ReadAttackAgain(w)
  <2>1. CASE "under_attack" \in rt.on
    BY <1>6, <1>9, <2>1 DEF ReadAttackAgain
  <2>2. CASE "under_attack" \notin rt.on
    <3>1. Decide(w, AfterLimits(req[w], lv, 10000))
      BY <1>9, <2>2 DEF ReadAttackAgain
    <3> QED BY <1>5, <1>7, <3>1
  <2> QED BY <2>1, <2>2
<1>10. CASE ReadBps(w)
  <2>1. Decide(w, AfterLimits(req[w], lv, rt.bps)) /\ pc[w] = "rate_bps"
    BY <1>10 DEF ReadBps, At
  <2> QED BY <1>2, <1>5, <1>7, <2>1
<1> QED BY <1>8, <1>9, <1>10

\* The detectors run once each; the one that is due has not run.
LEMMA RanNext ==
  ASSUME NEW n \in 1 .. Len(Detectors)
  PROVE  /\ Detectors[n] \in Scored /\ Detectors[n] \notin Ran(n)
         /\ Ran(n + 1) = Ran(n) \cup {Detectors[n]}
         /\ Ran(n) \subseteq Scored
         /\ n = Len(Detectors) => Ran(n + 1) = Scored
<1>1. DOMAIN Detectors = 1 .. Len(Detectors) /\ Len(Detectors) \in Nat
  BY DetectorAssumption
<1>2. \A i \in 1 .. n - 1 : i \in DOMAIN Detectors /\ i # n
  BY <1>1
<1>3. Detectors[n] \notin Ran(n)
  BY <1>1, <1>2, DetectorAssumption DEF Ran, IsInjective
<1>4. 1 .. (n + 1) - 1 = (1 .. n - 1) \cup {n}
  BY <1>1
<1>5. Ran(n + 1) = Ran(n) \cup {Detectors[n]}
  BY <1>4 DEF Ran
<1>6. Detectors[n] \in Scored /\ Ran(n) \subseteq Scored
  BY <1>1, <1>2 DEF Ran, Scored, ToSet
<1>7. n = Len(Detectors) => Ran(n + 1) = Scored
  <2>1. (n + 1) - 1 = n
    BY <1>1
  <2> QED BY <1>1, <2>1 DEF Ran, Scored, ToSet
<1> QED BY <1>3, <1>5, <1>6, <1>7

LEMMA BicFair ==
  ASSUME FairInv, NEW w \in Workers, ReadBic(w)
  PROVE  MeritInv(w)'
<1> USE DEF PastBot, PastAllow, PastClassify, PastDeny, PastForce, Stages, Verdicts
<1>1. /\ Busy(w) /\ pc[w] = "bic_cookie" /\ UNCHANGED <<Outside, req, lines>>
      /\ Merits(w, pc[w], level[w], lines[w]) /\ Tally(w, pc[w], score[w], nth[w])
      /\ mute[w] \subseteq Spared(req[w])
  BY Running DEF ReadBic, At, Busy
<1>2. /\ pc'[w] = IF Detectors = <<>> THEN "block_t" ELSE "detect"
      /\ mute'[w] = IF "bic" \in rt.on /\ "bic" \in req[w].flags
                    THEN mute[w] \cup {"bot_score"} ELSE mute[w]
      /\ level'[w] = level[w] /\ score'[w] = score[w] /\ nth'[w] = nth[w] /\ nth[w] = 1
  BY <1>1 DEF FairInv, VerdictInv, TypeInv, TypeOK, CursorOK, Early, ReadBic, Goto
<1>3. Merits(w, pc'[w], level'[w], lines'[w])
  BY <1>1, <1>2 DEF Merits
<1>4. Detectors = <<>> => Scored = {}
  BY DEF Scored, ToSet
<1>5. Tally(w, pc'[w], score'[w], nth'[w])
  <2>1. Tally(w, "detect", score[w], nth[w])
    BY <1>1, TallyKeeps DEF Late
  <2>2. Detectors = <<>> => Tally(w, "block_t", score[w], nth[w])
    BY <1>2, <1>4, <2>1, RanNone DEF Tally
  <2> QED BY <1>2, <2>1, <2>2
<1>6. mute'[w] \subseteq Spared(req[w])
  BY <1>1, <1>2 DEF Spared
<1> QED BY <1>1, <1>3, <1>5, <1>6, HereFair

LEMMA DetectFair ==
  ASSUME FairInv, NEW w \in Workers, Detect(w)
  PROVE  MeritInv(w)'
<1> USE DEF PastBot, PastAllow, PastClassify, PastDeny, PastForce, Stages, Verdicts
<1> DEFINE r == req[w]
           n == nth[w]
           d == Detectors[n]
<1>1. /\ Busy(w) /\ pc[w] = "detect" /\ UNCHANGED <<Outside, req, lines, mute>>
      /\ Merits(w, pc[w], level[w], lines[w]) /\ Tally(w, pc[w], score[w], n)
      /\ mute[w] \subseteq Spared(r) /\ Now \in seen[w] /\ r \in Request /\ score[w] \in Nat
  BY Running DEF Detect, At, Busy
<1>2. /\ pc'[w] = IF n = Len(Detectors) THEN "block_t" ELSE "detect"
      /\ score'[w] = IF d \in rt.on \ mute[w] THEN score[w] + r.parts[d] ELSE score[w]
      /\ level'[w] = level[w] /\ nth'[w] = n + 1 /\ n \in 1 .. Len(Detectors)
  BY <1>1 DEF FairInv, VerdictInv, TypeInv, TypeOK, CursorOK, Detect, Goto
<1>3. /\ d \in Scored /\ d \notin Ran(n) /\ Ran(n + 1) = Ran(n) \cup {d} /\ Ran(n) \subseteq Scored
      /\ n = Len(Detectors) => Ran(n + 1) = Scored
  BY <1>2, RanNext
<1>4. Merits(w, pc'[w], level'[w], lines'[w])
  BY <1>1, <1>2 DEF Merits
<1>5. PICK D \in SUBSET (Ran(n) \cap EverOn(w)), x \in {0, Spoof(r)} :
         /\ (Ran(n) \cap AlwaysOn(w)) \ Spared(r) \subseteq D
         /\ score[w] = Total(r, D) + x
  BY <1>1 DEF Tally
<1> HIDE DEF n, d, r
<1>6. \E E \in SUBSET (Ran(n + 1) \cap EverOn(w)) :
         /\ (Ran(n + 1) \cap AlwaysOn(w)) \ Spared(r) \subseteq E
         /\ score'[w] = Total(r, E) + x
  <2>1. CASE d \in rt.on \ mute[w]
    <3>1. d \in EverOn(w)
      BY <1>1, <1>3, <2>1 DEF EverOn, Now
    <3>2. Total(r, D \cup {d}) = Total(r, D) + r.parts[d] /\ r.parts[d] \in Nat
      BY <1>1, <1>3, <1>5, TotalWith
    <3>3. Total(r, D) \in Nat /\ x \in Nat
      BY <1>1, <1>3, <1>5, TotalTyped, SpoofTyped
    <3>4. score'[w] = score[w] + r.parts[d]
      BY <1>2, <2>1
    <3> DEFINE c == score'[w]
    <3>5. c = score[w] + r.parts[d]
      BY <3>4
    <3> HIDE DEF c
    <3>6. c = Total(r, D \cup {d}) + x
      BY <1>5, <3>2, <3>3, <3>5
    <3>7. score'[w] = Total(r, D \cup {d}) + x
      BY <3>6 DEF c
    <3>8. /\ D \cup {d} \in SUBSET (Ran(n + 1) \cap EverOn(w))
          /\ (Ran(n + 1) \cap AlwaysOn(w)) \ Spared(r) \subseteq D \cup {d}
      BY <1>3, <1>5, <3>1
    <3> QED BY <3>7, <3>8
  <2>2. CASE d \notin rt.on \ mute[w]
    <3>1. d \notin AlwaysOn(w) \ Spared(r)
      BY <1>1, <2>2 DEF AlwaysOn, Now
    <3>2. score'[w] = Total(r, D) + x
      BY <1>2, <1>5, <2>2
    <3>3. /\ D \in SUBSET (Ran(n + 1) \cap EverOn(w))
          /\ (Ran(n + 1) \cap AlwaysOn(w)) \ Spared(r) \subseteq D
      BY <1>3, <1>5, <3>1
    <3> QED BY <3>2, <3>3
  <2> QED BY <2>1, <2>2
<1>7. pc'[w] \in PastBot /\ (pc'[w] \in {"block_t", "chal_t", "judge"} => Ran(n + 1) = Scored)
  BY <1>2, <1>3
<1>8. \E E \in SUBSET (Ran(n + 1) \cap EverOn(w)), y \in {0, Spoof(r)} :
         /\ (Ran(n + 1) \cap AlwaysOn(w)) \ Spared(r) \subseteq E
         /\ score'[w] = Total(r, E) + y
  BY <1>6
<1>9. Tally(w, pc'[w], score'[w], n + 1)
  BY <1>7, <1>8 DEF Tally, r
<1> QED BY <1>1, <1>2, <1>4, <1>9, HereFair DEF r

LEMMA LinesFair ==
  ASSUME FairInv, NEW w \in Workers, ReadBlockLine(w) \/ ReadChalLine(w)
  PROVE  MeritInv(w)'
<1> USE DEF PastBot, PastAllow, PastClassify, PastDeny, PastForce, Stages, Verdicts
<1>1. /\ Busy(w) /\ pc[w] \in {"block_t", "chal_t"}
      /\ UNCHANGED <<Outside, req, level, mute, score, nth>>
      /\ Merits(w, pc[w], level[w], lines[w]) /\ Tally(w, pc[w], score[w], nth[w])
      /\ mute[w] \subseteq Spared(req[w]) /\ Now \in seen[w]
  BY Running DEF ReadBlockLine, ReadChalLine, At, Busy
<1>b. TypeOK
  BY DEF FairInv, VerdictInv, TypeInv
<1>2. pc'[w] \in {"chal_t", "judge"}
  BY <1>b DEF TypeOK, ReadBlockLine, ReadChalLine, Goto
<1>3. Merits(w, pc'[w], level'[w], lines'[w])
  <2>1. CASE ReadBlockLine(w)
    <3>1. pc'[w] = "chal_t" /\ lines'[w].block = Minus(rt.block, DropOf[level[w]])
      BY <1>b, <2>1 DEF TypeOK, ReadBlockLine, Goto
    <3>2. \E t \in seen[w] : lines'[w].block = Minus(t.s.block, DropOf[level[w]])
      BY <1>1, <3>1 DEF Now
    <3> QED BY <1>1, <3>1, <3>2 DEF Merits
  <2>2. CASE ReadChalLine(w)
    <3>1. /\ pc[w] = "chal_t" /\ pc'[w] = "judge" /\ lines'[w].block = lines[w].block
          /\ lines'[w].chal = Minus(rt.chal, DropOf[level[w]])
      BY <1>b, <2>2 DEF TypeOK, ReadChalLine, Goto, At
    <3>2. /\ \E t \in seen[w] : lines'[w].block = Minus(t.s.block, DropOf[level[w]])
          /\ \E t \in seen[w] : lines'[w].chal = Minus(t.s.chal, DropOf[level[w]])
      BY <1>1, <3>1 DEF Merits, Now
    <3> QED BY <1>1, <3>1, <3>2 DEF Merits
  <2> QED BY <2>1, <2>2
<1>4. Tally(w, pc'[w], score'[w], nth'[w])
  BY <1>1, <1>2, TallyKeeps DEF Late
<1> QED BY <1>1, <1>3, <1>4, HereFair

LEMMA JudgeFair ==
  ASSUME FairInv, NEW w \in Workers, Judge(w)
  PROVE  MeritInv(w)'
<1> USE DEF PastBot, PastAllow, PastClassify, PastDeny, PastForce, Stages, Verdicts
<1> DEFINE p == Judged(score[w], lines[w])
           sc == score[w]
           blk == lines[w].block
           chl == lines[w].chal
           most == Most(w)
           least == Least(w)
<1>1. /\ Busy(w) /\ pc[w] = "judge" /\ req[w] \in Request /\ level[w] \in Levels
      /\ Fits(w, pc[w], level[w]) /\ Merits(w, pc[w], level[w], lines[w])
      /\ Tally(w, pc[w], sc, nth[w]) /\ seen[w] \subseteq World
  BY Running DEF Judge, At, Busy
<1>2. least <= sc /\ sc <= most /\ sc \in Nat /\ most \in Nat /\ least \in Nat
  <2>1. pc[w] \in {"block_t", "chal_t", "judge"}
    BY <1>1
  <2> QED BY <1>1, <2>1, Within, Bounds
<1>3. ~Forced(level[w]) /\ "cleared" \notin req[w].flags
  BY <1>1 DEF Fits, Merits
<1>4. PICK t \in seen[w] : blk = Minus(t.s.block, DropOf[level[w]])
  BY <1>1 DEF Merits
<1>5. PICK u \in seen[w] : chl = Minus(u.s.chal, DropOf[level[w]])
  BY <1>1 DEF Merits
<1>6. /\ t.s.block \in Nat /\ blk \in Nat /\ blk <= t.s.block /\ t.s.block <= blk + DropOf[1]
      /\ u.s.chal \in Nat /\ chl \in Nat /\ u.s.chal <= chl + DropOf[1] /\ DropOf[1] \in Nat
  <2>1. t.s.block \in Nat /\ u.s.chal \in Nat
    BY <1>1, WorldTyped
  <2> QED BY <1>1, <1>3, <1>4, <1>5, <2>1, Lowered
<1>7. /\ p \in {"strike_block", "strike_tarpit", "challenge", "allow"}
      /\ p \in {"strike_block", "strike_tarpit"} => sc >= blk
      /\ p = "challenge" => sc >= chl
      /\ p = "allow" => ~(sc >= blk)
  BY DEF Judged
<1> HIDE DEF p, blk, chl, sc, most, least
<1>8. /\ sc >= blk => most + DropOf[1] >= t.s.block /\ ~(most + DropOf[1] < t.s.block)
      /\ sc >= chl => ~(most + DropOf[1] < u.s.chal)
      /\ ~(sc >= blk) => least < t.s.block
  BY <1>2, <1>6
<1>9. p \in {"strike_block", "strike_tarpit"} => Offends(w) /\ ~Low(w)
  BY <1>3, <1>7, <1>8 DEF Offends, Low, most
<1>10. p = "challenge" => ~Low(w)
  BY <1>3, <1>7, <1>8 DEF Low, most
<1>11. p = "allow" => Passable(w)
  BY <1>7, <1>8 DEF Passable, least
<1>12. Merits(w, p, level[w], lines[w])
  BY <1>1, <1>7, <1>9, <1>10, <1>11 DEF Merits
<1>13. Decide(w, p)
  BY DEF Judge, p
<1> QED BY <1>1, <1>7, <1>12, <1>13, DecideFair DEF Late

\* The stage that bans, and whose request it is that earned it.
LEMMA Banning ==
  ASSUME FairInv, NEW w \in Workers, ForceBan(w) \/ Strike(w)
  PROVE  /\ Busy(w) /\ pc[w] \in {"ban", "strike_block", "strike_tarpit"}
         /\ \E p \in {"block", "tarpit"} : MaybeBan(w, p)
         /\ NotAllowed(w) /\ req[w].ip \notin CfgAllow /\ Unverified(w)
         /\ Trapped(w) \/ ("cleared" \notin req[w].flags /\ Offends(w))
         /\ ~(Mild(w) /\ Low(w))
<1>1. /\ Busy(w) /\ pc[w] \in {"ban", "strike_block", "strike_tarpit"}
      /\ \E p \in {"block", "tarpit"} : MaybeBan(w, p)
  BY DEF ForceBan, Strike, At, Busy, Stages
<1>2. Fits(w, pc[w], level[w]) /\ Merits(w, pc[w], level[w], lines[w])
  BY <1>1, Running
<1> QED BY <1>1, <1>2 DEF Fits, Merits, PastBot, PastAllow, PastClassify, PastDeny, PastForce, Stages

LEMMA BanFair ==
  ASSUME FairInv, NEW w \in Workers, ForceBan(w) \/ Strike(w)
  PROVE  MeritInv(w)'
<1>1. PICK p \in {"block", "tarpit"} : MaybeBan(w, p)
  BY Banning
<1>2. TypeInv
  BY DEF FairInv, VerdictInv
<1>3. /\ pc'[w] = p /\ level'[w] = level[w] /\ lines'[w] = lines[w] /\ req'[w] = req[w]
      /\ seen[w] \subseteq seen'[w]
  BY <1>1, <1>2 DEF TypeInv, TypeOK, MaybeBan, Goto, work, Witnessed
<1>4. Merits(w, pc'[w], level'[w], lines'[w])
  BY <1>3, Banning DEF Merits, PastBot, PastAllow, PastClassify, PastDeny, PastForce, Stages
<1>5. ~Busy(w)'
  BY <1>3 DEF Busy, Stages
<1> QED BY <1>2, <1>3, <1>4, <1>5, MeritMoves

LEMMA FairStep == FairInv /\ [Next]_vars => FairInv'
<1> SUFFICES ASSUME FairInv, [Next]_vars PROVE FairInv'
  OBVIOUS
<1>1. VerdictInv' /\ TypeInv
  BY VerdictStep DEF FairInv, VerdictInv
<1>2. ASSUME NEW v \in Workers PROVE MeritInv(v)'
  <2>1. CASE UNCHANGED vars \/ Patch \/ Unban
    <3>1. UNCHANGED <<pc, work>> /\ seen[v] \subseteq seen'[v]
      <4>1. CASE UNCHANGED vars
        BY <4>1 DEF vars
      <4>2. CASE Patch \/ Unban
        BY <4>2 DEF Patch, Unban, Witnessed
      <4> QED BY <2>1, <4>1, <4>2
    <3>2. MeritInv(v)
      BY DEF FairInv
    <3> QED BY <1>1, <3>1, <3>2, MeritMoves DEF MeritInv, Spares, Busy, work
  <2>2. ASSUME NEW w \in Workers, Arrive(w) \/ Step(w) \/ Answer(w) PROVE MeritInv(v)'
    <3>1. CASE v = w
      BY <2>2, <3>1, ArriveFair, AnswerFair, LevelFair, ListFair, CrawlerFair, RateFair, BicFair,
         DetectFair, LinesFair, JudgeFair, BanFair DEF Step
    <3>2. CASE v # w
      BY <2>2, <3>2, OthersFair
    <3> QED BY <3>1, <3>2
  <2> QED BY <2>1, <2>2 DEF Next
<1> QED BY <1>1, <1>2 DEF FairInv

LEMMA FairInit == Init => FairInv
<1>1. ASSUME Init, NEW w \in Workers PROVE MeritInv(w)
  <2>1. pc[w] = "idle"
    BY <1>1 DEF Init
  <2> QED BY <2>1 DEF MeritInv, Merits, Busy, PastBot, PastDeny, PastClassify, PastAllow,
                      PastForce, Stages, Verdicts
<1> QED BY <1>1, VerdictInit DEF FairInv

\* The detectors that stayed on add up to no more than the score that evaluate compares,
\* and the line it compares with is at most one that was in force (engine.rs:398-421).
THEOREM SevereBlocked == Spec => []SevereNeverPasses
<1>1. FairInv => SevereNeverPasses
  <2> SUFFICES ASSUME FairInv, NEW w \in Workers, pc[w] = "allow", ~Waived(w),
                      \A t \in seen[w] : Least(w) >= t.s.block
               PROVE  FALSE
    BY DEF SevereNeverPasses, Decided, Waived
  <2>1. Merits(w, pc[w], level[w], lines[w]) /\ req[w] \in Request /\ seen[w] \subseteq World
    BY DEF FairInv, MeritInv, VerdictInv, TypeInv, TypeOK
  <2>2. PICK t \in seen[w] : Least(w) < t.s.block
    BY <2>1 DEF Merits, Passable
  <2>3. Least(w) \in Nat /\ t.s.block \in Nat
    BY <2>1, Bounds, WorldTyped
  <2> QED BY <2>2, <2>3
<1> QED BY <1>1, FairInit, FairStep, PTL DEF Spec

\* Whatever mixture of settings evaluate has loaded, a request that every one of them would
\* have served is served.
THEOREM HarmlessAreServed == Spec => []HarmlessServed
<1>1. FairInv => HarmlessServed
  BY DEF FairInv, MeritInv, Merits, HarmlessServed, Decided, Mild, Low, Verdicts
<1> QED BY <1>1, FairInit, FairStep, PTL DEF Spec

\* force_ban and record_offence are called for a trap that was on, or a score that reached a
\* line in force, and for nobody who stayed allowed or verified.
THEOREM BansEarned == Spec => BansAreEarned
<1> DEFINE Earned(ip) ==
       \E w \in Workers :
         /\ Busy(w) /\ req[w].ip = ip
         /\ ip \notin CfgAllow /\ \E t \in seen[w] : ip \notin t.s.allow
         /\ req[w].crawler = "verified" => \E t \in seen[w] : "goodbot" \notin t.s.on
         /\ \/ "trap" \in req[w].flags /\ \E t \in seen[w] : "honeypots" \in t.s.on
            \/ /\ "cleared" \notin req[w].flags
               /\ \E t \in seen[w] : Most(w) + DropOf[1] >= t.s.block
<1>1. FairInv /\ [Next]_vars => [\A ip \in banned' \ banned : Earned(ip)]_vars
  <2> SUFFICES ASSUME FairInv, Next, NEW ip \in banned' \ banned PROVE Earned(ip)
    OBVIOUS
  <2>1. CASE Patch \/ Unban
    BY <2>1 DEF Patch, Unban
  <2>2. ASSUME NEW w \in Workers, Arrive(w) \/ Step(w) \/ Answer(w) PROVE Earned(ip)
    <3>1. ForceBan(w) \/ Strike(w)
      BY <2>2 DEF Arrive, Step, Answer, ReadUam, ReadAttack, ReadAllow, Classify, ReadDeny,
         ReadCrawler, ReadTrap, ReadCap, ReadRate, ReadAttackAgain, ReadBps, ReadBic,
         Detect, ReadBlockLine, ReadChalLine, Judge, Decide, Outside
    <3>2. req[w].ip = ip
      BY <3>1, Banning DEF MaybeBan
    <3> QED BY <3>1, <3>2, Banning DEF NotAllowed, Unverified, Trapped, Offends
  <2> QED BY <2>1, <2>2 DEF Next
<1> HIDE DEF Earned
<1>2. Spec => [][\A ip \in banned' \ banned : Earned(ip)]_vars
  BY <1>1, FairInit, FairStep, PTL DEF Spec
<1> QED BY <1>2 DEF BansAreEarned, Earned
=============================================================================
