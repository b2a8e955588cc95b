---------------------------- MODULE VisitorProofs ----------------------------
(* Proofs about Visitor and the crawlers' entry GoodBot, for any number of  *)
(* tabs and crawlers' names and any times to live.                          *)
EXTENDS Visitor, TLAPS

\* What a step may take for granted.
BotsSafe == Bots!GoodBotAssumption /\ Bots!TypeOK /\ Bots!VerdictEarned

LEMMA LongestBounds ==
  ASSUME Bots!GoodBotAssumption
  PROVE  /\ Bots!Longest \in Nat /\ PositiveTtl < Bots!Longest /\ NegativeTtl < Bots!Longest
         /\ PositiveTtl \in Nat /\ NegativeTtl \in Nat /\ PendingTtl \in Nat /\ MaxLookups \in Nat
BY DEF Bots!GoodBotAssumption, Bots!Longest

\* Leases shrink by one at most, ages grow by one at most, and both have an end.
LEMMA LeaseShrinks ==
  ASSUME NEW m \in Nat, NEW n \in 0 .. m
  PROVE  Bots!Less(n) \in 0 .. m /\ Bots!Less(n) <= n /\ (n > 0 => Bots!Less(n) = n - 1)
BY DEF Bots!Less

LEMMA AgeGrows ==
  ASSUME Bots!GoodBotAssumption, NEW n \in 0 .. Bots!Longest
  PROVE  Bots!More(n) \in 0 .. Bots!Longest /\ Bots!More(n) <= n + 1
BY LongestBounds DEF Bots!More

LEMMA BotsSafeInit == ASSUME Bots!GoodBotAssumption, Bots!Init PROVE BotsSafe
<1>1. Bots!TypeOK
  BY LongestBounds DEF Bots!Init, Bots!TypeOK, Bots!States, Bots!Verdicts
<1>2. Bots!VerdictEarned
  BY LongestBounds DEF Bots!Init, Bots!VerdictEarned
<1> QED BY <1>1, <1>2 DEF BotsSafe

\* Asking changes neither the entry nor the history.
LEMMA BotsAsked ==
  ASSUME BotsSafe, NEW t \in Tabs, Bots!Used(t) \/ \E n \in Names : Bots!Classify(t, n)
  PROVE  BotsSafe'
<1> USE LongestBounds DEF BotsSafe, Bots!TypeOK, Bots!States, Bots!Verdicts
<1>1. Bots!VerdictEarned'
  BY DEF Bots!Classify, Bots!Used, Bots!VerdictEarned
<1>2. CASE \E n \in Names : Bots!Classify(t, n)
  <2>1. Bots!Answered \in Bots!Verdicts
    BY DEF Bots!Answered
  <2> QED BY <1>1, <1>2, <2>1 DEF Bots!Classify, Bots!GoodBotAssumption
<1>3. CASE Bots!Used(t)
  BY <1>1, <1>3 DEF Bots!Used, Bots!GoodBotAssumption
<1> QED BY <1>2, <1>3

\* A pending entry says nothing, whatever it takes the place of.
LEMMA BotsPending ==
  ASSUME BotsSafe, NEW t \in Tabs, Bots!Spawn(t)
  PROVE  BotsSafe'
<1> USE LongestBounds DEF BotsSafe, Bots!TypeOK, Bots!States, Bots!Verdicts, Bots!Spawn, Bots!Pending
<1>1. Bots!VerdictEarned'
  BY DEF Bots!VerdictEarned
<1>2. Bots!TypeOK'
  <2>1. entry' \in [state : Bots!States, left : Nat]
    BY DEF Bots!GoodBotAssumption, Bots!Longest
  <2>2. lookups' \in [Names -> 0 .. MaxLookups]
    BY DEF Bots!GoodBotAssumption
  <2> QED BY <2>1, <2>2 DEF Bots!GoodBotAssumption
<1> QED BY <1>1, <1>2 DEF Bots!GoodBotAssumption

\* An answer starts a lease of its own, at age zero.
LEMMA BotsAnswered ==
  ASSUME BotsSafe, NEW n \in Names, Bots!Passes(n) \/ Bots!Fails(n)
  PROVE  BotsSafe'
<1> USE LongestBounds DEF BotsSafe, Bots!TypeOK, Bots!States, Bots!Verdicts, Bots!Ended, Bots!asking
<1>1. CASE Bots!Passes(n)
  <2>1. Bots!VerdictEarned'
    BY <1>1 DEF Bots!Passes, Bots!VerdictEarned
  <2>2. Bots!TypeOK'
    BY <1>1 DEF Bots!Passes, Bots!GoodBotAssumption
  <2> QED BY <2>1, <2>2 DEF Bots!GoodBotAssumption
<1>2. CASE Bots!Fails(n)
  <2>1. Bots!VerdictEarned'
    BY <1>2 DEF Bots!Fails, Bots!VerdictEarned
  <2>2. Bots!TypeOK'
    BY <1>2 DEF Bots!Fails, Bots!GoodBotAssumption
  <2> QED BY <2>1, <2>2 DEF Bots!GoodBotAssumption
<1> QED BY <1>1, <1>2

\* What an entry loses of its lease, the lookup gains in age.
LEMMA BotsAged == ASSUME BotsSafe, Bots!TimePasses PROVE BotsSafe'
<1> USE LongestBounds DEF BotsSafe
<1>1. entry \in [state : Bots!States, left : Nat] /\ passedAgo \in 0 .. Bots!Longest
      /\ failedAgo \in 0 .. Bots!Longest /\ pendLeft \in [Tabs -> 0 .. PendingTtl]
  BY DEF Bots!TypeOK
<1>2. /\ entry'.state = entry.state /\ entry'.left = Bots!Less(entry.left)
      /\ entry' \in [state : Bots!States, left : Nat]
      /\ Bots!Less(entry.left) <= entry.left /\ (entry.left > 0 => Bots!Less(entry.left) = entry.left - 1)
  BY <1>1, LeaseShrinks DEF Bots!TimePasses
<1>3. /\ passedAgo' \in 0 .. Bots!Longest /\ passedAgo' <= passedAgo + 1
      /\ failedAgo' \in 0 .. Bots!Longest /\ failedAgo' <= failedAgo + 1
  BY <1>1, AgeGrows DEF Bots!TimePasses
<1>4. pendLeft' \in [Tabs -> 0 .. PendingTtl]
  BY <1>1, LeaseShrinks DEF Bots!TimePasses
<1>5. Bots!VerdictEarned'
  <2>1. entry'.left > 0 => entry.left > 0
    BY <1>1, <1>2, <1>2
  <2> QED BY <1>1, <1>2, <1>3, <2>1 DEF Bots!VerdictEarned, Bots!TimePasses
<1>6. Bots!TypeOK'
  BY <1>2, <1>3, <1>4 DEF Bots!TypeOK, Bots!TimePasses
<1> QED BY <1>5, <1>6 DEF Bots!GoodBotAssumption

LEMMA BotsRestarted == ASSUME BotsSafe, Bots!Restart PROVE BotsSafe'
<1> USE LongestBounds DEF BotsSafe, Bots!Restart
<1>1. Bots!VerdictEarned'
  BY DEF Bots!VerdictEarned
<1>2. Bots!TypeOK'
  BY DEF Bots!TypeOK, Bots!States, Bots!Verdicts
<1> QED BY <1>1, <1>2 DEF Bots!GoodBotAssumption

LEMMA BotsSafeStep == ASSUME BotsSafe, [Bots!Next]_(Bots!vars) PROVE BotsSafe'
<1>1. CASE \E t \in Tabs : Bots!Used(t) \/ Bots!Spawn(t) \/ \E n \in Names : Bots!Classify(t, n)
  <2>1. PICK t \in Tabs : Bots!Used(t) \/ Bots!Spawn(t) \/ \E n \in Names : Bots!Classify(t, n)
    BY <1>1
  <2>2. CASE Bots!Spawn(t)
    BY <2>2, BotsPending
  <2>3. CASE Bots!Used(t)
    BY <2>3, BotsAsked
  <2>4. CASE \E n \in Names : Bots!Classify(t, n)
    BY <2>4, BotsAsked
  <2> QED BY <2>1, <2>2, <2>3, <2>4
<1>3. CASE \E n \in Names : Bots!Passes(n) \/ Bots!Fails(n)
  BY <1>3, BotsAnswered
<1>4. CASE Bots!TimePasses
  BY <1>4, BotsAged
<1>5. CASE Bots!Restart
  BY <1>5, BotsRestarted
<1>2. CASE UNCHANGED Bots!vars
  BY <1>2 DEF BotsSafe, Bots!TypeOK, Bots!VerdictEarned, Bots!GoodBotAssumption, Bots!vars, Bots!asking
<1> QED BY <1>1, <1>2, <1>3, <1>4, <1>5 DEF Bots!Next

(* What the variables may hold, for any times to live (goodbot.rs).         *)
THEOREM GoodBotTypeOK == Bots!Spec => []Bots!TypeOK
<1>1. Bots!Init => BotsSafe
  BY VisitorAssumption, BotsSafeInit DEF VisitorAssumption
<1>2. BotsSafe /\ [Bots!Next]_(Bots!vars) => BotsSafe'
  BY BotsSafeStep
<1>3. BotsSafe => Bots!TypeOK
  BY DEF BotsSafe
<1> QED BY <1>1, <1>2, <1>3, PTL DEF Bots!Spec

(* An entry that counts says what a lookup found within its time to live,   *)
(* whatever overtook what (goodbot.rs:86-187).                              *)
THEOREM GoodBotVerdictEarned == Bots!Spec => []Bots!VerdictEarned
<1>1. Bots!Init => BotsSafe
  BY VisitorAssumption, BotsSafeInit DEF VisitorAssumption
<1>2. BotsSafe /\ [Bots!Next]_(Bots!vars) => BotsSafe'
  BY BotsSafeStep
<1>3. BotsSafe => Bots!VerdictEarned
  BY DEF BotsSafe
<1> QED BY <1>1, <1>2, <1>3, PTL DEF Bots!Spec
-----------------------------------------------------------------------------
(* The inductive invariant of the visitor.                                  *)

\* A verdict is there only while the request that asked for it is decided, and a
\* request is between its look at the cache and the pending entry only if a crawler's.
Answers ==
  \A t \in Tabs :
    /\ tab[t].stage # "asked" => at[t] = "idle" /\ verdict[t] = "notabot"
    /\ at[t] = "missed" => kind = "crawler" /\ verdict[t] = "notabot"
    /\ verdict[t] = "verified" => genuine # {} /\ passedAgo < PositiveTtl

\* Who runs no script has no cookies, and no page of ours open.
Scriptless ==
  kind = "crawler" =>
    /\ jar.check = 0 /\ jar.clear = 0
    /\ \A t \in Tabs : tab[t].stage \notin Pages \cup {"sent"} /\ ~tab[t].checked /\ ~tab[t].cleared

\* A cookie that lasts was earned within its time to live.
Cookies ==
  /\ jar.check > 0 /\ SameSubnet => checkedAgo + jar.check <= CheckTtl
  /\ jar.clear > 0 => solvedAgo + jar.clear <= ClearTtl /\ CheckBefore

\* What a request showed when it was evaluated still holds while it is decided and
\* served; and a puzzle that is still good was served to whoever passed the check.
Shown ==
  \A t \in Tabs :
    /\ tab[t].checked => tab[t].stage \in {"asked", "serve"} /\ checkedAgo < CheckTtl
    /\ tab[t].cleared => tab[t].stage \in {"asked", "serve"} /\ solvedAgo < ClearTtl /\ CheckBefore
    /\ tab[t].stage = "puzzle" /\ Fresh(t) =>
         tab[t].left <= PuzzleTtl /\ (tab[t].spared \/ checkedAgo + tab[t].left < CheckTtl + PuzzleTtl)

Inv == TypeOK /\ VerdictEarned /\ Answers /\ Scriptless /\ Cookies /\ Shown
-----------------------------------------------------------------------------
(* What the steps do.                                                       *)

LEMMA Numbers ==
  /\ CheckTokenTtl \in Nat /\ CheckTtl \in Nat /\ CheckTtl > 0 /\ PuzzleTtl \in Nat
  /\ ClearTtl \in Nat /\ ClearTtl > 0 /\ Long \in Nat /\ Long = CheckTtl + PuzzleTtl + ClearTtl
  /\ PositiveTtl \in Nat /\ PositiveTtl > 0
  BY VisitorAssumption DEF VisitorAssumption, Bots!GoodBotAssumption, Long

\* Every step of a visitor is one of its crawler's entry, or none of it.
LEMMA BotsStep ==
  ASSUME [Next]_vars
  PROVE  [Bots!Next]_(Bots!vars)
<1> USE DEF bots, Bots!vars, Bots!asking
<1>1. ASSUME NEW t \in Tabs, Ask(t) PROVE [Bots!Next]_(Bots!vars)
  BY <1>1 DEF Ask, Bots!Next
<1>2. ASSUME NEW t \in Tabs, Look(t) PROVE [Bots!Next]_(Bots!vars)
  BY <1>2 DEF Look, Bots!Next
<1>3. ASSUME NEW t \in Tabs, Decide(t) PROVE [Bots!Next]_(Bots!vars)
  BY <1>3 DEF Decide, Bots!Next
<1>4. ASSUME NEW t \in Tabs, Serve(t) \/ PostCheck(t) \/ PostPuzzle(t) \/ PostCaptcha(t) \/ Answer(t)
      PROVE  UNCHANGED Bots!vars
  BY <1>4 DEF Serve, PostCheck, PostPuzzle, PostCaptcha, Answer, Confirmed, Refused, Posts
<1>5. CASE Lookup
  BY <1>5 DEF Lookup, Bots!Next
<1>6. CASE Change \/ UNCHANGED vars
  BY <1>6 DEF Change, vars
<1>7. CASE Restart
  BY <1>7 DEF Restart, Bots!Next
<1>8. CASE TimePasses
  BY <1>8 DEF TimePasses, Bots!Next
<1> QED BY <1>1, <1>2, <1>3, <1>4, <1>5, <1>6, <1>7, <1>8 DEF Next, Flow, Work, Handle, React

LEMMA BotsKept ==
  ASSUME TypeOK, VerdictEarned, [Next]_vars
  PROVE  Bots!TypeOK' /\ VerdictEarned'
<1>1. BotsSafe
  BY VisitorAssumption DEF VisitorAssumption, BotsSafe, TypeOK, VerdictEarned
<1>2. BotsSafe'
  BY <1>1, BotsStep, BotsSafeStep
<1> QED BY <1>2 DEF BotsSafe, VerdictEarned
-----------------------------------------------------------------------------
(* Types.                                                                   *)

Stages == {"idle", "reload", "asked", "serve", "sent", "in"} \cup Pages
Place  == [stage : Stages, left : -1 .. CheckTokenTtl + PuzzleTtl,
           forced : BOOLEAN, cleared : BOOLEAN, checked : BOOLEAN, spared : BOOLEAN]
Jars   == [check : 0 .. CheckTtl, subnet : {"visitor", "proxy"}, clear : 0 .. ClearTtl]
Ages   == checkedAgo \in 0 .. Long /\ solvedAgo \in 0 .. Long /\ exempt \in BOOLEAN
Own    == kind \in {"browser", "proxied", "crawler"} /\ rt \in Settings
          /\ tab \in [Tabs -> Place] /\ jar \in Jars /\ Ages

LEMMA OwnTypes == TypeOK <=> Bots!TypeOK /\ Own
  BY DEF TypeOK, Own, Stages, Place, Jars, Ages

LEMMA AwayTyped == ASSUME NEW stage \in Stages PROVE Away(stage) \in Place
  BY Numbers DEF Away, Place

LEMMA PageTyped == ASSUME NEW t \in Tabs PROVE Page(t) \in Place
<1>1. Away("check") \in Place /\ Away("captcha") \in Place /\ Away("puzzle") \in Place
  BY AwayTyped DEF Stages, Pages, Tokens
<1>2. CheckTokenTtl \in -1 .. CheckTokenTtl + PuzzleTtl /\ PuzzleTtl \in -1 .. CheckTokenTtl + PuzzleTtl
  BY Numbers
<1>3. Check \in Place /\ Captcha \in Place /\ Puzzle \in Place
  BY <1>1, <1>2 DEF Check, Captcha, Puzzle, Place
<1> QED BY <1>3 DEF Page

LEMMA GoesTyped ==
  ASSUME Own, NEW t \in Tabs, NEW stage \in Stages, Goes(t, stage)
  PROVE  tab' \in [Tabs -> Place]
  BY AwayTyped DEF Own, Goes

LEMMA ClearTyped == ASSUME Own, Clear PROVE jar' \in Jars /\ solvedAgo' \in 0 .. Long
  BY Numbers DEF Own, Jars, Clear

LEMMA TicksTyped ==
  ASSUME Own, TimePasses
  PROVE  tab' \in [Tabs -> Place] /\ jar' \in Jars /\ checkedAgo' \in 0 .. Long /\ solvedAgo' \in 0 .. Long
<1>1. tab' \in [Tabs -> Place]
  <2> SUFFICES ASSUME NEW t \in Tabs PROVE tab'[t] \in Place
    BY DEF TimePasses
  <2>1. tab[t] \in Place
    BY DEF Own
  <2>2. CASE tab[t].stage \in Tokens /\ Fresh(t)
    <3>1. tab'[t] = [tab[t] EXCEPT !.left = tab[t].left - 1] /\ tab[t].left >= 0
      BY <2>2 DEF TimePasses, Fresh
    <3>2. tab[t].left - 1 \in -1 .. CheckTokenTtl + PuzzleTtl
      BY <2>1, <3>1, Numbers DEF Place
    <3> QED BY <2>1, <3>1, <3>2 DEF Place
  <2>3. CASE ~(tab[t].stage \in Tokens /\ Fresh(t))
    BY <2>1, <2>3 DEF TimePasses
  <2> QED BY <2>2, <2>3
<1>2. jar' \in Jars
  <2>1. jar.check \in 0 .. CheckTtl /\ jar.clear \in 0 .. ClearTtl /\ jar \in Jars
    BY DEF Own, Jars
  <2>2. Bots!Less(jar.check) \in 0 .. CheckTtl /\ Bots!Less(jar.clear) \in 0 .. ClearTtl
    BY <2>1, Numbers, LeaseShrinks
  <2>3. jar' = [jar EXCEPT !.check = Bots!Less(jar.check), !.clear = Bots!Less(jar.clear)]
    BY DEF TimePasses
  <2> QED BY <2>1, <2>2, <2>3 DEF Jars
<1>3. checkedAgo' \in 0 .. Long /\ solvedAgo' \in 0 .. Long
  BY Numbers DEF TimePasses, Own, Ages, Older
<1> QED BY <1>1, <1>2, <1>3

LEMMA OwnKept ==
  ASSUME Own, [Next]_vars
  PROVE  Own'
<1> USE DEF Own, Ages
<1>1. ASSUME NEW t \in Tabs, Ask(t) PROVE Own'
  <2>1. [stage |-> "asked", left |-> 0, forced |-> rt.forced,
         cleared |-> ShowsClear, checked |-> ShowsCheck, spared |-> FALSE] \in Place
    BY VisitorAssumption, Numbers DEF VisitorAssumption, Place, Stages, ShowsClear, ShowsCheck
  <2> QED BY <1>1, <2>1 DEF Ask, past
<1>2. ASSUME NEW t \in Tabs, Look(t) \/ Refused(t) \/ Decide(t) \/ PostCaptcha(t) PROVE Own'
  <2>1. CASE Look(t)
    BY <2>1 DEF Look, past
  <2>2. CASE Refused(t)
    BY <2>2, GoesTyped DEF Refused, Posts, past, Stages
  <2>3. CASE PostCaptcha(t)
    BY <2>3, GoesTyped DEF PostCaptcha, Posts, past, Stages
  <2>4. CASE Decide(t)
    <3>1. tab' \in [Tabs -> Place]
      <4>1. [tab[t] EXCEPT !.stage = "serve"] \in Place
        BY DEF Place, Stages
      <4>2. CASE Goes(t, "in")
        BY <4>2, GoesTyped DEF Stages
      <4> QED BY <2>4, <4>1, <4>2 DEF Decide
    <3> QED BY <2>4, <3>1 DEF Decide, past
  <2> QED BY <1>2, <2>1, <2>2, <2>3, <2>4
<1>3. ASSUME NEW t \in Tabs, Serve(t) PROVE Own'
  <2>1. tab' \in [Tabs -> Place]
    BY <1>3, GoesTyped, PageTyped DEF Serve, Stages
  <2> QED BY <1>3, <2>1 DEF Serve, past
<1>4. ASSUME NEW t \in Tabs, PostCheck(t) PROVE Own'
  <2>1. tab' \in [Tabs -> Place]
    BY <1>4, GoesTyped DEF PostCheck, Stages
  <2>2. jar' \in Jars /\ checkedAgo' \in 0 .. Long
    <3>1. CASE MintCheck
      <4>1. CheckTtl \in 0 .. CheckTtl /\ 0 \in 0 .. Long
        BY Numbers
      <4>2. jar' = [jar EXCEPT !.check = CheckTtl, !.subnet = "visitor"] /\ checkedAgo' \in {0, checkedAgo}
        BY <3>1 DEF MintCheck, Resolved
      <4> QED BY <4>1, <4>2 DEF Jars
    <3> QED BY <1>4, <3>1 DEF PostCheck
  <2> QED BY <1>4, <2>1, <2>2 DEF PostCheck, Posts
<1>5. ASSUME NEW t \in Tabs, PostPuzzle(t) \/ Confirmed(t) PROVE Own'
  <2>1. tab' \in [Tabs -> Place]
    BY <1>5, GoesTyped DEF PostPuzzle, Confirmed, Stages
  <2>2. jar' \in Jars /\ solvedAgo' \in 0 .. Long
    BY <1>5, ClearTyped DEF PostPuzzle, Confirmed
  <2>3. exempt' \in BOOLEAN
    BY <1>5 DEF PostPuzzle, Confirmed, Place
  <2> QED BY <1>5, <2>1, <2>2, <2>3 DEF PostPuzzle, Confirmed, Posts
<1>6. CASE Lookup \/ Change \/ UNCHANGED vars
  BY <1>6 DEF Lookup, Change, past, vars
<1>7. CASE Restart
  <2>1. Away("idle") \in Place
    BY AwayTyped DEF Stages
  <2> QED BY <1>7, <2>1 DEF Restart, past
<1>8. CASE TimePasses
  BY <1>8, TicksTyped DEF TimePasses
<1> QED BY <1>1, <1>2, <1>3, <1>4, <1>5, <1>6, <1>7, <1>8 DEF Next, Flow, Work, Handle, Answer, React
-----------------------------------------------------------------------------
(* The inductive invariant, conjunct by conjunct.                           *)

\* A tab that goes somewhere, or is served a page.
LEMMA Moves ==
  ASSUME Own, NEW t \in Tabs, NEW place, tab' = [tab EXCEPT ![t] = place]
  PROVE  tab'[t] = place /\ \A u \in Tabs \ {t} : tab'[u] = tab[u]
  BY DEF Own

LEMMA Leaves ==
  ASSUME Own, NEW t \in Tabs, NEW stage, Goes(t, stage)
  PROVE  /\ tab'[t].stage = stage /\ ~tab'[t].forced /\ ~tab'[t].cleared /\ ~tab'[t].checked
         /\ \A u \in Tabs \ {t} : tab'[u] = tab[u]
<1>1. tab'[t] = Away(stage) /\ \A u \in Tabs \ {t} : tab'[u] = tab[u]
  BY Moves DEF Goes
<1> QED BY <1>1 DEF Away

LEMMA Asks ==
  ASSUME Own, NEW t \in Tabs, Ask(t)
  PROVE  /\ tab'[t].stage = "asked" /\ tab'[t].cleared = ShowsClear /\ tab'[t].checked = ShowsCheck
         /\ \A u \in Tabs \ {t} : tab'[u] = tab[u]
<1> DEFINE place == [stage |-> "asked", left |-> 0, forced |-> rt.forced,
                     cleared |-> ShowsClear, checked |-> ShowsCheck, spared |-> FALSE]
<1>1. tab'[t] = place /\ \A u \in Tabs \ {t} : tab'[u] = tab[u]
  BY Moves DEF Ask
<1> QED BY <1>1

\* A decision lets the request in, or has it challenged.
LEMMA Decides ==
  ASSUME Own, NEW t \in Tabs, Decide(t)
  PROVE  /\ \A u \in Tabs \ {t} : tab'[u] = tab[u]
         /\ \/ Goes(t, "in") /\ (Welcome(t) \/ ~tab[t].forced)
            \/ ~Welcome(t) /\ tab'[t] = [tab[t] EXCEPT !.stage = "serve"] /\ tab'[t].stage = "serve"
                            /\ tab'[t].cleared = tab[t].cleared /\ tab'[t].checked = tab[t].checked
<1>1. CASE Goes(t, "in") /\ (Welcome(t) \/ ~tab[t].forced)
  BY <1>1, Leaves
<1>2. CASE ~Welcome(t) /\ tab' = [tab EXCEPT ![t].stage = "serve"]
  <2>1. tab'[t] = [tab[t] EXCEPT !.stage = "serve"] /\ \A u \in Tabs \ {t} : tab'[u] = tab[u]
    BY <1>2 DEF Own
  <2>2. tab[t] \in Place
    BY DEF Own
  <2> QED BY <1>2, <2>1, <2>2 DEF Place
<1> QED BY <1>1, <1>2 DEF Decide

LEMMA AnswersKept ==
  ASSUME Inv, [Next]_vars
  PROVE  Answers'
<1>o. Own /\ Bots!TypeOK
  BY OwnTypes DEF Inv
<1>a. \A u \in Tabs :
        /\ tab[u].stage # "asked" => at[u] = "idle" /\ verdict[u] = "notabot"
        /\ at[u] = "missed" => kind = "crawler" /\ verdict[u] = "notabot"
        /\ verdict[u] = "verified" => genuine # {} /\ passedAgo < PositiveTtl
  BY DEF Inv, Answers
\* No step but these two changes what a request was answered, or where it is in classify.
<1>s. ASSUME NEW t \in Tabs, UNCHANGED <<bots, kind>>,
             tab[t].stage # "asked" \/ tab'[t].stage = "asked",
             \A u \in Tabs \ {t} : tab'[u] = tab[u]
      PROVE  Answers'
  <2> SUFFICES ASSUME NEW u \in Tabs
               PROVE  /\ tab'[u].stage # "asked" => at[u] = "idle" /\ verdict[u] = "notabot"
                      /\ at[u] = "missed" => kind = "crawler" /\ verdict[u] = "notabot"
                      /\ verdict[u] = "verified" => genuine # {} /\ passedAgo < PositiveTtl
    BY <1>s DEF Answers, bots
  <2> QED BY <1>a, <1>s
<1>1. ASSUME NEW t \in Tabs, Ask(t) PROVE Answers'
  <2>1. /\ at[t] = "idle" /\ verdict[t] = "notabot" /\ tab'[t].stage = "asked" /\ kind' = kind
        /\ \A u \in Tabs \ {t} : tab'[u] = tab[u]
    <3>1. tab[t].stage # "asked" /\ kind' = kind
      BY <1>1 DEF Ask
    <3> QED BY <1>a, <1>o, <1>1, <3>1, Asks
  <2>2. CASE rt.goodbot /\ kind = "crawler"
    <3>1. PICK n \in Names : Bots!Classify(t, n)
      BY <1>1, <2>2 DEF Ask
    <3>2. /\ genuine' = genuine /\ passedAgo' = passedAgo
          /\ at'[t] = "missed" => verdict'[t] = "notabot"
          /\ \A u \in Tabs \ {t} : at'[u] = at[u] /\ verdict'[u] = verdict[u]
      BY <1>o, <2>1, <3>1 DEF Bots!Classify, Bots!TypeOK
    <3>3. verdict'[t] = "verified" => genuine # {} /\ passedAgo < PositiveTtl
      <4>1. CASE Bots!Valid
        <5>1. verdict'[t] = Bots!Answered
          BY <1>o, <3>1, <4>1 DEF Bots!Classify, Bots!TypeOK
        <5>2. Bots!Answered = "verified" => entry.state = "verified" /\ entry.left > 0
          BY <4>1 DEF Bots!Answered, Bots!Valid
        <5>3. entry.left \in Nat /\ passedAgo \in Nat /\ PositiveTtl \in Nat
          BY <1>o, Numbers, LongestBounds, VisitorAssumption DEF Bots!TypeOK, VisitorAssumption
        <5> QED BY <5>1, <5>2, <5>3 DEF Inv, VerdictEarned, Bots!VerdictEarned
      <4>2. CASE ~Bots!Valid
        BY <2>1, <3>1, <4>2 DEF Bots!Classify
      <4> QED BY <4>1, <4>2
    <3> QED BY <1>a, <2>1, <2>2, <3>2, <3>3 DEF Answers
  <2>3. CASE ~(rt.goodbot /\ kind = "crawler")
    BY <1>1, <1>s, <2>1, <2>3 DEF Ask
  <2> QED BY <2>2, <2>3
<1>2. ASSUME NEW t \in Tabs, Look(t) PROVE Answers'
  <2>1. /\ tab[t].stage = "asked" /\ UNCHANGED <<kind, tab, genuine, passedAgo>>
        /\ at'[t] = "idle" /\ verdict'[t] = "pending"
        /\ \A u \in Tabs \ {t} : at'[u] = at[u] /\ verdict'[u] = verdict[u]
    BY <1>o, <1>2 DEF Look, Bots!Spawn, Bots!TypeOK
  <2> QED BY <1>a, <2>1 DEF Answers
<1>3. ASSUME NEW t \in Tabs, Decide(t) PROVE Answers'
  <2>1. \A u \in Tabs \ {t} : tab'[u] = tab[u]
    BY <1>3, <1>o, Decides
  <2>2. /\ UNCHANGED <<kind, at, genuine, passedAgo>> /\ at[t] = "idle" /\ verdict'[t] = "notabot"
        /\ \A u \in Tabs \ {t} : verdict'[u] = verdict[u]
    BY <1>o, <1>3 DEF Decide, Bots!Used, Bots!TypeOK
  <2> QED BY <1>a, <2>1, <2>2 DEF Answers
<1>4. ASSUME NEW t \in Tabs, Serve(t) PROVE Answers'
  <2>1. \A u \in Tabs \ {t} : tab'[u] = tab[u]
    BY <1>4, <1>o, Moves DEF Serve, Goes
  <2> QED BY <1>4, <1>s, <2>1 DEF Serve
<1>5. ASSUME NEW t \in Tabs, PostCheck(t) \/ PostPuzzle(t) \/ PostCaptcha(t) \/ Answer(t)
      PROVE  Answers'
  <2>1. /\ tab[t].stage \in Pages \cup {"sent"} /\ UNCHANGED <<bots, kind>>
        /\ \E stage \in Stages : Goes(t, stage)
    BY <1>5 DEF PostCheck, PostPuzzle, PostCaptcha, Answer, Confirmed, Refused, Posts, Pages, Tokens, Stages
  <2>2. \A u \in Tabs \ {t} : tab'[u] = tab[u]
    BY <2>1, <1>o, Leaves
  <2> QED BY <1>s, <2>1, <2>2 DEF Pages, Tokens
<1>6. CASE Lookup
  <2>1. /\ UNCHANGED <<kind, tab, at, verdict, genuine>> /\ passedAgo' \in {0, passedAgo}
    BY <1>6 DEF Lookup, Bots!Passes, Bots!Fails, Bots!Ended, Bots!asking
  <2>2. passedAgo' < PositiveTtl \/ passedAgo' = passedAgo
    BY <2>1, Numbers
  <2> QED BY <1>a, <2>1, <2>2 DEF Answers
<1>7. CASE Change \/ UNCHANGED vars
  <2>1. UNCHANGED <<tab, bots, kind>>
    BY <1>7 DEF Change, vars
  <2> QED BY <1>a, <2>1 DEF Answers, bots
<1>8. CASE Restart
  BY <1>8 DEF Restart, Bots!Restart, Answers
<1>9. CASE TimePasses
  <2>1. UNCHANGED <<at, verdict, genuine, kind>>
    BY <1>9 DEF TimePasses, Bots!TimePasses
  <2>2. ASSUME NEW u \in Tabs
        PROVE  verdict[u] = "notabot" /\ (tab'[u].stage = tab[u].stage)
    <3>1. verdict[u] = "notabot"
      BY <1>a, <1>9 DEF TimePasses
    <3>2. tab'[u].stage = tab[u].stage
      BY <1>9, <1>o DEF TimePasses, Own, Place
    <3> QED BY <3>1, <3>2
  <2> QED BY <1>a, <2>1, <2>2 DEF Answers
<1> QED BY <1>1, <1>2, <1>3, <1>4, <1>5, <1>6, <1>7, <1>8, <1>9 DEF Next, Flow, Work, Handle, React

LEMMA ScriptlessKept ==
  ASSUME Inv, [Next]_vars
  PROVE  Scriptless'
<1>o. Own
  BY OwnTypes DEF Inv
<1>k. kind' = kind
  BY DEF Next, Flow, Work, Handle, Answer, React, Ask, Look, Decide, Serve, PostCheck, PostPuzzle,
         PostCaptcha, Confirmed, Refused, Posts, Lookup, Change, Restart, TimePasses, vars
<1> SUFFICES ASSUME kind = "crawler"
             PROVE  /\ jar'.check = 0 /\ jar'.clear = 0
                    /\ \A u \in Tabs : tab'[u].stage \notin Pages \cup {"sent"}
                                         /\ ~tab'[u].checked /\ ~tab'[u].cleared
  BY <1>k DEF Scriptless
<1>c. /\ jar.check = 0 /\ jar.clear = 0
      /\ \A u \in Tabs : tab[u].stage \notin Pages \cup {"sent"} /\ ~tab[u].checked /\ ~tab[u].cleared
  BY DEF Inv, Scriptless
<1>1. ASSUME NEW t \in Tabs, Ask(t) \/ Decide(t) \/ Serve(t)
      PROVE  /\ UNCHANGED jar /\ \A u \in Tabs \ {t} : tab'[u] = tab[u]
             /\ tab'[t].stage \notin Pages \cup {"sent"} /\ ~tab'[t].checked /\ ~tab'[t].cleared
  <2>1. CASE Ask(t)
    <3>1. ~ShowsClear /\ ~ShowsCheck /\ UNCHANGED jar
      BY <1>c, <2>1 DEF Ask, ShowsClear, ShowsCheck
    <3> QED BY <1>o, <2>1, <3>1, Asks DEF Pages, Tokens
  <2>2. CASE Decide(t)
    <3>1. UNCHANGED jar
      BY <2>2 DEF Decide
    <3>2. CASE Goes(t, "in")
      BY <1>o, <3>1, <3>2, Leaves DEF Pages, Tokens
    <3>3. CASE ~Goes(t, "in")
      BY <1>o, <1>c, <2>2, <3>1, <3>3, Decides DEF Pages, Tokens
    <3> QED BY <3>2, <3>3
  <2>3. CASE Serve(t)
    BY <1>o, <2>3, Leaves DEF Serve, Pages, Tokens
  <2> QED BY <1>1, <2>1, <2>2, <2>3
<1>2. ASSUME NEW t \in Tabs, PostCheck(t) \/ PostPuzzle(t) \/ PostCaptcha(t) \/ Answer(t)
      PROVE  FALSE
  BY <1>c, <1>2 DEF PostCheck, PostPuzzle, PostCaptcha, Answer, Confirmed, Refused, Posts, Pages, Tokens
<1>3. ASSUME NEW t \in Tabs, Look(t) PROVE UNCHANGED <<jar, tab>>
  BY <1>3 DEF Look
<1>4. CASE Lookup \/ Change \/ UNCHANGED vars
  BY <1>c, <1>4 DEF Lookup, Change, vars
<1>5. CASE Restart
  BY <1>c, <1>5 DEF Restart, Away, Pages, Tokens
<1>6. CASE TimePasses
  <2>1. jar'.check = 0 /\ jar'.clear = 0
    BY <1>c, <1>6, <1>o DEF TimePasses, Bots!Less, Own, Jars
  <2>2. \A u \in Tabs : tab'[u] = tab[u]
    BY <1>c, <1>6 DEF TimePasses, Pages, Tokens
  <2> QED BY <1>c, <2>1, <2>2
<1> QED BY <1>c, <1>1, <1>2, <1>3, <1>4, <1>5, <1>6 DEF Next, Flow, Work, Handle, React

\* What only adds to what a visitor has done leaves a check before its puzzle.
Earned ==
  /\ solvedAgo' = solvedAgo /\ checkedAgo' \in {0, checkedAgo} /\ (exempt' = exempt)
LEMMA StillBefore == ASSUME Own, Earned, CheckBefore PROVE CheckBefore'
<1>1. /\ checkedAgo \in Nat /\ solvedAgo \in Nat /\ checkedAgo' \in Nat /\ checkedAgo' <= checkedAgo
      /\ solvedAgo' = solvedAgo /\ (exempt' = exempt)
  BY Numbers DEF Own, Ages, Earned
<1> DEFINE c == checkedAgo'
<1>2. c \in Nat /\ c <= checkedAgo
  BY <1>1
<1>3. checkedAgo - solvedAgo < CheckTtl + PuzzleTtl => c - solvedAgo < CheckTtl + PuzzleTtl
  <2> HIDE DEF c
  <2> QED BY <1>1, <1>2, Numbers
<1> QED BY <1>1, <1>3 DEF CheckBefore

\* A puzzle is solved in time, or a captcha is.
LEMMA Solved ==
  ASSUME Inv, NEW t \in Tabs,
         Confirmed(t) \/ (PostPuzzle(t) /\ Fresh(t))
  PROVE  /\ jar' = [jar EXCEPT !.clear = ClearTtl] /\ solvedAgo' = 0 /\ checkedAgo' = checkedAgo
         /\ kind' = kind /\ CheckBefore'
<1>1. CASE Confirmed(t)
  BY <1>1 DEF Confirmed, Posts, Clear, CheckBefore
<1>2. CASE PostPuzzle(t) /\ Fresh(t)
  <2>1. /\ jar' = [jar EXCEPT !.clear = ClearTtl] /\ solvedAgo' = 0
        /\ checkedAgo' = checkedAgo /\ kind' = kind
    BY <1>2 DEF PostPuzzle, Posts, Clear
  <2>2. exempt' \/ checkedAgo + tab[t].left < CheckTtl + PuzzleTtl
    <3>1. exempt' = (tab[t].spared \/ tab[t].stage = "check") /\ tab[t].stage \in Tokens
      BY <1>2 DEF PostPuzzle, Posts
    <3> QED BY <1>2, <3>1 DEF Inv, Shown, Tokens
  <2>3. checkedAgo \in Nat /\ tab[t].left \in Nat
    BY <1>2, OwnTypes, Numbers DEF Inv, Own, Ages, Place, Fresh
  <2>4. exempt' \/ checkedAgo - 0 < CheckTtl + PuzzleTtl
    BY <2>2, <2>3, Numbers
  <2> QED BY <2>1, <2>4 DEF CheckBefore
<1> QED BY <1>1, <1>2

\* A check is passed from the address of the connection, or it is not.
LEMMA Checks ==
  ASSUME Own, NEW t \in Tabs, PostCheck(t)
  PROVE  /\ Earned /\ kind' = kind /\ jar'.clear = jar.clear
         /\ UNCHANGED <<jar, checkedAgo>> \/ (jar'.check = CheckTtl /\ (SameSubnet' => checkedAgo' = 0))
<1>1. CASE MintCheck
  BY <1>1 DEF PostCheck, Posts, Earned, MintCheck, SameSubnet, Socket, Resolved, Own, Jars
<1>2. CASE UNCHANGED <<jar, checkedAgo>>
  BY <1>2 DEF PostCheck, Posts, Earned
<1> QED BY <1>1, <1>2 DEF PostCheck

\* What the other steps leave of all that.
LEMMA Idles ==
  ASSUME NEW t \in Tabs,
         \/ Ask(t) \/ Look(t) \/ Decide(t) \/ Serve(t) \/ PostCaptcha(t) \/ Refused(t)
         \/ (PostPuzzle(t) /\ ~Fresh(t))
  PROVE  UNCHANGED <<kind, jar, checkedAgo, solvedAgo>> /\ (exempt' = exempt) /\ Earned
<1>1. UNCHANGED <<kind, jar, checkedAgo, solvedAgo>> /\ (exempt' = exempt)
  <2>1. CASE Ask(t) \/ Look(t) \/ Decide(t)
    BY <2>1 DEF Ask, Look, Decide, past
  <2>2. CASE Serve(t)
    BY <2>2 DEF Serve, past
  <2>3. CASE PostCaptcha(t) \/ Refused(t)
    BY <2>3 DEF PostCaptcha, Refused, Posts, past
  <2>4. CASE PostPuzzle(t) /\ ~Fresh(t)
    BY <2>4 DEF PostPuzzle, Posts
  <2> QED BY <2>1, <2>2, <2>3, <2>4
<1> QED BY <1>1 DEF Earned

LEMMA Ticks ==
  ASSUME Own, TimePasses
  PROVE  /\ kind' = kind /\ jar'.subnet = jar.subnet /\ exempt' = exempt
         /\ checkedAgo \in Nat /\ checkedAgo' \in Nat /\ checkedAgo' <= checkedAgo + 1
         /\ solvedAgo \in Nat /\ solvedAgo' \in Nat /\ solvedAgo' <= solvedAgo + 1
         /\ solvedAgo < ClearTtl => solvedAgo' = solvedAgo + 1
         /\ jar.check \in Nat /\ jar'.check \in Nat /\ (jar'.check > 0 => jar.check = jar'.check + 1)
         /\ jar.clear \in Nat /\ jar'.clear \in Nat /\ (jar'.clear > 0 => jar.clear = jar'.clear + 1)
<1>1. /\ kind' = kind /\ exempt' = exempt
      /\ jar' = [jar EXCEPT !.check = Bots!Less(jar.check), !.clear = Bots!Less(jar.clear)]
      /\ checkedAgo' = Older(checkedAgo) /\ solvedAgo' = Older(solvedAgo)
  BY DEF TimePasses
<1>2. /\ checkedAgo \in 0 .. Long /\ solvedAgo \in 0 .. Long
      /\ jar \in Jars /\ jar.check \in Nat /\ jar.clear \in Nat
  BY Numbers DEF Own, Ages, Jars
<1>3. jar'.subnet = jar.subnet /\ jar'.check = Bots!Less(jar.check) /\ jar'.clear = Bots!Less(jar.clear)
  BY <1>1, <1>2 DEF Jars
<1>4. \A n \in Nat : Bots!Less(n) \in Nat /\ (Bots!Less(n) > 0 => n = Bots!Less(n) + 1)
  BY DEF Bots!Less
<1>5. \A n \in 0 .. Long : Older(n) \in Nat /\ Older(n) <= n + 1 /\ (n < ClearTtl => Older(n) = n + 1)
  BY Numbers DEF Older
<1>6. checkedAgo \in Nat /\ solvedAgo \in Nat
  BY <1>2
<1>7. /\ checkedAgo' \in Nat /\ checkedAgo' <= checkedAgo + 1
      /\ solvedAgo' \in Nat /\ solvedAgo' <= solvedAgo + 1
      /\ solvedAgo < ClearTtl => solvedAgo' = solvedAgo + 1
  BY <1>1, <1>2, <1>5
<1>8. /\ jar'.check \in Nat /\ (jar'.check > 0 => jar.check = jar'.check + 1)
      /\ jar'.clear \in Nat /\ (jar'.clear > 0 => jar.clear = jar'.clear + 1)
  BY <1>2, <1>3, <1>4
<1> QED BY <1>1, <1>2, <1>3, <1>6, <1>7, <1>8

LEMMA CookiesKept ==
  ASSUME Inv, [Next]_vars
  PROVE  Cookies'
<1>o. Own
  BY OwnTypes DEF Inv
<1>c. /\ jar.check > 0 /\ SameSubnet => checkedAgo + jar.check <= CheckTtl
      /\ jar.clear > 0 => solvedAgo + jar.clear <= ClearTtl /\ CheckBefore
  BY DEF Inv, Cookies
<1>s. ASSUME UNCHANGED <<kind, jar, checkedAgo, solvedAgo>>, exempt' = exempt PROVE Cookies'
  BY <1>c, <1>s DEF Cookies, SameSubnet, Socket, CheckBefore
<1>1. ASSUME NEW t \in Tabs,
             \/ Ask(t) \/ Look(t) \/ Decide(t) \/ Serve(t) \/ PostCaptcha(t) \/ Refused(t)
             \/ (PostPuzzle(t) /\ ~Fresh(t))
      PROVE  Cookies'
  BY <1>1, <1>s, Idles
<1>2. ASSUME NEW t \in Tabs, PostCheck(t) PROVE Cookies'
  <2>1. /\ Earned /\ kind' = kind /\ jar'.clear = jar.clear
        /\ UNCHANGED <<jar, checkedAgo>> \/ (jar'.check = CheckTtl /\ (SameSubnet' => checkedAgo' = 0))
    BY <1>o, <1>2, Checks
  <2>2. jar'.clear > 0 => solvedAgo' + jar'.clear <= ClearTtl /\ CheckBefore'
    BY <1>c, <1>o, <2>1, StillBefore DEF Earned
  <2>3. jar'.check > 0 /\ SameSubnet' => checkedAgo' + jar'.check <= CheckTtl
    <3>1. CASE UNCHANGED <<jar, checkedAgo>>
      BY <1>c, <2>1, <3>1 DEF SameSubnet, Socket
    <3>2. CASE jar'.check = CheckTtl /\ (SameSubnet' => checkedAgo' = 0)
      BY <3>2, Numbers
    <3> QED BY <2>1, <3>1, <3>2
  <2> QED BY <2>2, <2>3 DEF Cookies
<1>3. ASSUME NEW t \in Tabs, Confirmed(t) \/ (PostPuzzle(t) /\ Fresh(t)) PROVE Cookies'
  <2>1. /\ jar' = [jar EXCEPT !.clear = ClearTtl] /\ solvedAgo' = 0 /\ checkedAgo' = checkedAgo
        /\ kind' = kind /\ CheckBefore'
    BY <1>3, Solved
  <2>2. jar'.clear = ClearTtl /\ jar'.check = jar.check /\ jar'.subnet = jar.subnet
    BY <1>o, <2>1 DEF Own, Jars
  <2>3. solvedAgo' + jar'.clear <= ClearTtl
    BY <2>1, <2>2, Numbers
  <2>4. jar'.check > 0 /\ SameSubnet' => checkedAgo' + jar'.check <= CheckTtl
    BY <1>c, <2>1, <2>2 DEF SameSubnet, Socket
  <2> QED BY <2>1, <2>3, <2>4 DEF Cookies
<1>4. CASE Lookup \/ Change \/ Restart \/ UNCHANGED vars
  BY <1>s, <1>4 DEF Lookup, Change, Restart, past, vars
<1>5. CASE TimePasses
  <2>1. ASSUME jar'.check > 0, SameSubnet' PROVE checkedAgo' + jar'.check <= CheckTtl
    <3>1. jar.check > 0 /\ SameSubnet
      BY <1>o, <1>5, <2>1, Ticks DEF SameSubnet, Socket
    <3>2. checkedAgo + jar.check <= CheckTtl
      BY <1>c, <3>1
    <3> DEFINE c == checkedAgo'
               j == jar'.check
    <3>3. c \in Nat /\ j \in Nat /\ checkedAgo \in Nat /\ c <= checkedAgo + 1 /\ jar.check = j + 1
      BY <1>o, <1>5, <2>1, Ticks
    <3> HIDE DEF c, j
    <3>4. c + j <= CheckTtl
      BY <3>2, <3>3, Numbers
    <3> QED BY <3>4 DEF c, j
  <2>2. ASSUME jar'.clear > 0 PROVE solvedAgo' + jar'.clear <= ClearTtl /\ CheckBefore'
    <3> DEFINE c == checkedAgo'
               s == solvedAgo'
               j == jar'.clear
    <3>1. /\ c \in Nat /\ checkedAgo \in Nat /\ c <= checkedAgo + 1 /\ exempt' = exempt
          /\ s \in Nat /\ solvedAgo \in Nat /\ (solvedAgo < ClearTtl => s = solvedAgo + 1)
          /\ j \in Nat /\ jar.clear = j + 1
      BY <1>o, <1>5, <2>2, Ticks
    <3>2. solvedAgo + jar.clear <= ClearTtl /\ CheckBefore
      BY <1>c, <3>1
    <3> HIDE DEF c, s, j
    <3>3. s = solvedAgo + 1 /\ s + j <= ClearTtl
      BY <3>1, <3>2, Numbers
    <3>4. exempt \/ c - s < CheckTtl + PuzzleTtl
      BY <3>1, <3>2, <3>3, Numbers DEF CheckBefore
    <3> QED BY <3>1, <3>3, <3>4 DEF CheckBefore, c, s, j
  <2> QED BY <2>1, <2>2 DEF Cookies
<1> QED BY <1>1, <1>2, <1>3, <1>4, <1>5 DEF Next, Flow, Work, Handle, Answer, React

\* What may be said of one tab.
ShownBy(t) ==
  /\ tab[t].checked => tab[t].stage \in {"asked", "serve"} /\ checkedAgo < CheckTtl
  /\ tab[t].cleared => tab[t].stage \in {"asked", "serve"} /\ solvedAgo < ClearTtl /\ CheckBefore
  /\ tab[t].stage = "puzzle" /\ Fresh(t) =>
       tab[t].left <= PuzzleTtl /\ (tab[t].spared \/ checkedAgo + tab[t].left < CheckTtl + PuzzleTtl)

LEMMA ShownKept ==
  ASSUME Inv, [Next]_vars
  PROVE  Shown'
<1>o. Own /\ checkedAgo \in Nat /\ solvedAgo \in Nat
  BY OwnTypes, Numbers DEF Inv, Own, Ages
<1>b. \A u \in Tabs : ShownBy(u)
  BY DEF Inv, Shown, ShownBy
<1> SUFFICES ASSUME NEW u \in Tabs PROVE ShownBy(u)'
  BY DEF Shown, ShownBy
<1>s. ASSUME Earned, tab'[u] = tab[u] PROVE ShownBy(u)'
  <2>1. checkedAgo' \in Nat /\ checkedAgo' <= checkedAgo /\ solvedAgo' = solvedAgo /\ (exempt' = exempt)
    BY <1>o, <1>s DEF Earned
  <2>2. CheckBefore => CheckBefore'
    BY <1>o, <1>s, StillBefore
  <2>3. tab'[u].checked => tab'[u].stage \in {"asked", "serve"} /\ checkedAgo' < CheckTtl
    BY <1>b, <1>o, <1>s, <2>1, Numbers DEF ShownBy
  <2>4. tab'[u].cleared => tab'[u].stage \in {"asked", "serve"} /\ solvedAgo' < ClearTtl /\ CheckBefore'
    BY <1>b, <1>s, <2>1, <2>2 DEF ShownBy
  <2>5. ASSUME tab'[u].stage = "puzzle", Fresh(u)'
        PROVE  tab'[u].left <= PuzzleTtl /\ (tab'[u].spared \/ checkedAgo' + tab'[u].left < CheckTtl + PuzzleTtl)
    <3> DEFINE c == checkedAgo'
    <3>1. tab[u].left \in Nat /\ c \in Nat /\ c <= checkedAgo
      BY <1>o, <1>s, <2>1, <2>5, Numbers DEF Own, Place, Fresh
    <3>2. tab[u].left <= PuzzleTtl /\ (tab[u].spared \/ checkedAgo + tab[u].left < CheckTtl + PuzzleTtl)
      BY <1>b, <1>s, <2>5 DEF ShownBy, Fresh
    <3> HIDE DEF c
    <3>3. tab[u].spared \/ c + tab[u].left < CheckTtl + PuzzleTtl
      BY <1>o, <3>1, <3>2, Numbers
    <3> QED BY <1>s, <2>1, <3>2, <3>3 DEF c
  <2> QED BY <2>3, <2>4, <2>5 DEF ShownBy
\* A tab that leaves for anything but a puzzle promises nothing.
<1>l. ASSUME NEW stage, stage # "puzzle", Goes(u, stage) PROVE ShownBy(u)'
  BY <1>o, <1>l, Leaves DEF ShownBy
<1>1. ASSUME NEW t \in Tabs, Ask(t) PROVE ShownBy(u)'
  <2>1. CASE u = t
    <3>1. /\ tab'[u].stage = "asked" /\ tab'[u].cleared = ShowsClear /\ tab'[u].checked = ShowsCheck
          /\ UNCHANGED <<jar, checkedAgo, solvedAgo, exempt>>
      BY <1>1, <1>o, <2>1, Asks DEF Ask, past
    <3>2. ShowsCheck => checkedAgo < CheckTtl
      <4>1. ShowsCheck => checkedAgo + jar.check <= CheckTtl /\ jar.check > 0
        BY DEF Inv, Cookies, ShowsCheck
      <4>2. jar.check \in Nat
        BY <1>o, Numbers DEF Own, Jars
      <4> QED BY <1>o, <4>1, <4>2, Numbers
    <3>3. ShowsClear => solvedAgo < ClearTtl /\ CheckBefore
      <4>1. ShowsClear => solvedAgo + jar.clear <= ClearTtl /\ CheckBefore /\ jar.clear > 0
        BY DEF Inv, Cookies, ShowsClear
      <4>2. jar.clear \in Nat
        BY <1>o, Numbers DEF Own, Jars
      <4> QED BY <1>o, <4>1, <4>2, Numbers
    <3> QED BY <3>1, <3>2, <3>3 DEF ShownBy, CheckBefore
  <2>2. CASE u # t
    BY <1>1, <1>s, <1>o, <2>2, Asks, Idles
  <2> QED BY <2>1, <2>2
<1>2. ASSUME NEW t \in Tabs, Look(t) PROVE ShownBy(u)'
  BY <1>2, <1>s, Idles DEF Look
<1>3. ASSUME NEW t \in Tabs, Decide(t) PROVE ShownBy(u)'
  <2>1. CASE u = t /\ Goes(t, "in")
    BY <1>l, <2>1
  <2>2. CASE u = t /\ ~Goes(t, "in")
    <3>1. /\ tab'[u].stage = "serve" /\ tab'[u].cleared = tab[u].cleared /\ tab'[u].checked = tab[u].checked
          /\ UNCHANGED <<checkedAgo, solvedAgo, exempt>>
      BY <1>3, <1>o, <2>2, Decides DEF Decide, past
    <3> QED BY <1>b, <3>1 DEF ShownBy, CheckBefore
  <2>3. CASE u # t
    BY <1>3, <1>s, <1>o, <2>3, Decides, Idles
  <2> QED BY <2>1, <2>2, <2>3
<1>4. ASSUME NEW t \in Tabs, Serve(t) PROVE ShownBy(u)'
  <2>1. CASE u = t /\ kind = "crawler"
    BY <1>4, <1>l, <2>1 DEF Serve
  <2>2. CASE u = t /\ kind # "crawler"
    <3>1. tab'[u] = Page(u) /\ checkedAgo' = checkedAgo
      BY <1>4, <1>o, <2>2, Moves DEF Serve, past
    <3>2. CASE Page(u) = Puzzle
      <4>1. /\ tab'[u].stage = "puzzle" /\ tab'[u].left = PuzzleTtl
            /\ ~tab'[u].checked /\ ~tab'[u].cleared /\ tab'[u].spared = ~rt.bic
        BY <3>1, <3>2 DEF Puzzle, Away
      <4>2. Page(u) # Check
        BY <3>2 DEF Puzzle, Check, Away
      <4>3. rt.bic => tab[u].checked
        BY <4>2 DEF Page
      <4>4. tab'[u].spared \/ checkedAgo' + PuzzleTtl < CheckTtl + PuzzleTtl
        <5>1. rt.bic => checkedAgo < CheckTtl
          BY <1>b, <4>3 DEF ShownBy
        <5>2. rt.bic => checkedAgo + PuzzleTtl < CheckTtl + PuzzleTtl
          BY <1>o, <5>1, Numbers
        <5> QED BY <3>1, <4>1, <5>2
      <4> QED BY <4>1, <4>4, Numbers DEF ShownBy
    <3>3. CASE Page(u) # Puzzle
      <4>1. tab'[u].stage # "puzzle" /\ ~tab'[u].checked /\ ~tab'[u].cleared
        BY <3>1, <3>3 DEF Page, Check, Captcha, Away
      <4> QED BY <4>1 DEF ShownBy
    <3> QED BY <3>2, <3>3
  <2>3. CASE u # t
    <3>1. tab'[u] = tab[u]
      BY <1>4, <1>o, <2>3, Moves DEF Serve, Goes
    <3> QED BY <1>4, <1>s, <3>1, Idles
  <2> QED BY <2>1, <2>2, <2>3
<1>5. ASSUME NEW t \in Tabs, PostCheck(t) \/ PostCaptcha(t) \/ Refused(t) \/ (PostPuzzle(t) /\ ~Fresh(t))
      PROVE  ShownBy(u)'
  <2>1. /\ Earned
        /\ \E stage \in Stages : Goes(t, stage) /\ stage # "puzzle"
    BY <1>5, <1>o, Checks, Idles DEF PostCheck, PostCaptcha, Refused, PostPuzzle, Stages
  <2>2. CASE u = t
    BY <1>l, <2>1, <2>2
  <2>3. CASE u # t
    BY <1>s, <1>o, <2>1, <2>3, Leaves
  <2> QED BY <2>2, <2>3
<1>6. ASSUME NEW t \in Tabs, Confirmed(t) \/ (PostPuzzle(t) /\ Fresh(t)) PROVE ShownBy(u)'
  <2>1. /\ solvedAgo' = 0 /\ checkedAgo' = checkedAgo /\ CheckBefore'
        /\ Goes(t, "reload")
    BY <1>6, Solved DEF Confirmed, PostPuzzle
  <2>2. CASE u = t
    BY <1>l, <2>1, <2>2
  <2>3. CASE u # t
    <3>1. tab'[u] = tab[u] /\ solvedAgo' < ClearTtl
      BY <1>o, <2>1, <2>3, Leaves, Numbers
    <3> QED BY <1>b, <2>1, <3>1 DEF ShownBy, Fresh
  <2> QED BY <2>2, <2>3
<1>7. CASE Lookup \/ Change \/ UNCHANGED vars
  BY <1>7, <1>s DEF Lookup, Change, vars, past, Earned
<1>8. CASE Restart
  <2>1. Earned
    BY <1>8 DEF Restart, past, Earned
  <2>2. tab'[u] = tab[u] \/ tab'[u] = Away("idle")
    BY <1>8 DEF Restart
  <2>3. CASE tab'[u] = Away("idle")
    BY <2>3 DEF ShownBy, Away
  <2> QED BY <1>s, <2>1, <2>2, <2>3
<1>9. CASE TimePasses
  <2>0. tab[u] \in Place
    BY <1>o DEF Own
  <2>1. ~tab[u].checked /\ ~tab[u].cleared
    <3>1. tab[u].stage # "serve" /\ (tab[u].stage = "asked" => kind = "crawler")
      BY <1>9 DEF TimePasses, Inv, Answers
    <3> QED BY <1>b, <3>1 DEF ShownBy, Inv, Scriptless
  <2>2. CASE tab[u].stage \in Tokens /\ Fresh(u)
    <3>1. tab'[u] = [tab[u] EXCEPT !.left = tab[u].left - 1]
      BY <1>9, <2>2 DEF TimePasses
    <3>2. /\ tab'[u].stage = tab[u].stage /\ tab'[u].left = tab[u].left - 1
          /\ tab'[u].checked = tab[u].checked /\ tab'[u].cleared = tab[u].cleared
          /\ tab'[u].spared = tab[u].spared
      BY <2>0, <3>1 DEF Place
    <3>3. ASSUME tab'[u].stage = "puzzle"
          PROVE  tab'[u].left <= PuzzleTtl /\ (tab'[u].spared \/ checkedAgo' + tab'[u].left < CheckTtl + PuzzleTtl)
      <4> DEFINE c == checkedAgo'
      <4>1. c \in Nat /\ c <= checkedAgo + 1 /\ tab[u].left \in Nat
        BY <1>9, <1>o, <2>0, <2>2, Ticks, Numbers DEF Place, Fresh
      <4>2. tab[u].left <= PuzzleTtl /\ (tab[u].spared \/ checkedAgo + tab[u].left < CheckTtl + PuzzleTtl)
        BY <1>b, <2>2, <3>2, <3>3 DEF ShownBy
      <4> HIDE DEF c
      <4>3. tab[u].left - 1 <= PuzzleTtl /\ (tab[u].spared \/ c + (tab[u].left - 1) < CheckTtl + PuzzleTtl)
        BY <1>o, <4>1, <4>2, Numbers
      <4> QED BY <3>2, <4>1, <4>3 DEF c
    <3> QED BY <2>1, <3>2, <3>3 DEF ShownBy
  <2>3. CASE ~(tab[u].stage \in Tokens /\ Fresh(u))
    <3>1. tab'[u] = tab[u]
      BY <1>9, <2>3 DEF TimePasses
    <3> QED BY <2>1, <2>3, <3>1 DEF ShownBy, Fresh, Tokens
  <2> QED BY <2>2, <2>3
<1> QED BY <1>1, <1>2, <1>3, <1>4, <1>5, <1>6, <1>7, <1>8, <1>9 DEF Next, Flow, Work, Handle, Answer, React

LEMMA InvInit == ASSUME Init PROVE Inv
<1>1. BotsSafe
  BY VisitorAssumption, BotsSafeInit DEF VisitorAssumption, Init
<1>2. Own
  <2>1. Away("idle") \in Place
    BY AwayTyped DEF Stages
  <2>2. [check |-> 0, subnet |-> Resolved, clear |-> 0] \in Jars
    BY Numbers DEF Jars, Resolved
  <2>3. Ages
    <3>1. Long \in 0 .. Long
      BY Numbers
    <3> QED BY <3>1 DEF Init, Ages
  <2> QED BY <2>1, <2>2, <2>3 DEF Init, Own
<1>3. Answers
  BY DEF Init, Bots!Init, Answers
<1>4. \A t \in Tabs : tab[t] = Away("idle")
  BY DEF Init
<1>5. Scriptless /\ Cookies /\ Shown
  BY <1>4 DEF Init, Scriptless, Cookies, Shown, Away, Pages, Tokens
<1> QED BY <1>1, <1>2, <1>3, <1>5, OwnTypes DEF Inv, BotsSafe, VerdictEarned

LEMMA InvKept == Inv /\ [Next]_vars => Inv'
<1> SUFFICES ASSUME Inv, [Next]_vars PROVE Inv'
  OBVIOUS
<1>1. Bots!TypeOK' /\ VerdictEarned'
  BY BotsKept DEF Inv
<1>2. Own'
  BY OwnKept, OwnTypes DEF Inv
<1>3. TypeOK'
  BY <1>1, <1>2 DEF TypeOK, Own, Stages, Place, Jars, Ages
<1> QED BY <1>1, <1>3, AnswersKept, ScriptlessKept, CookiesKept, ShownKept DEF Inv

(* What the variables of a visitor may hold (challenge.rs, bic.rs: what is   *)
(* left of a cookie never exceeds its time to live).                        *)
THEOREM VisitorTypeOK == Spec => []TypeOK
<1>1. Inv => TypeOK
  BY DEF Inv
<1> QED BY <1>1, InvInit, InvKept, PTL DEF Spec

(* The crawlers' entry as the visitor's requests, tabs and restarts drive   *)
(* it: an entry that counts says what a lookup found (goodbot.rs:10-16).    *)
THEOREM VerdictsAreEarned == Spec => []VerdictEarned
<1>1. Inv => VerdictEarned
  BY DEF Inv
<1> QED BY <1>1, InvInit, InvKept, PTL DEF Spec

(* The crawlers' cache lives in the composition as GoodBot says (engine.rs:  *)
(* 185-191, goodbot.rs:103-119): the tabs, the pages, the settings and the   *)
(* restarts of a visitor give it no step of another kind.                   *)
THEOREM VisitorUsesGoodBot == Spec => Bots!Spec
<1>1. Init => Bots!Init
  BY DEF Init
<1>2. [Next]_vars => [Bots!Next]_(Bots!vars)
  BY BotsStep
<1> QED BY <1>1, <1>2, PTL DEF Spec, Bots!Spec
-----------------------------------------------------------------------------
\* Who is let in under the levels that challenge everyone.
LEMMA LetIn ==
  ASSUME Inv, [Next]_vars, NEW t \in Tabs,
         tab[t].stage # "in", tab'[t].stage = "in", tab[t].forced
  PROVE  \/ genuine # {} /\ passedAgo < PositiveTtl
         \/ solvedAgo < ClearTtl /\ CheckBefore
<1>o. Own
  BY OwnTypes DEF Inv
<1>2. PICK u \in Tabs : Decide(u) /\ u = t
  <2>1. ASSUME NEW u \in Tabs, Ask(u) PROVE FALSE
    BY <1>o, <2>1, Asks
  <2>2. ASSUME NEW u \in Tabs, Look(u) PROVE FALSE
    BY <2>2 DEF Look
  <2>3. ASSUME NEW u \in Tabs, Decide(u) PROVE u = t
    BY <1>o, <2>3, Decides
  <2>4. ASSUME NEW u \in Tabs, Serve(u) PROVE FALSE
    <3>1. CASE Goes(u, "idle")
      BY <1>o, <3>1, Leaves
    <3>2. CASE tab' = [tab EXCEPT ![u] = Page(u)]
      BY <1>o, <3>2, Moves DEF Page, Check, Captcha, Puzzle, Away
    <3> QED BY <2>4, <3>1, <3>2 DEF Serve
  <2>5. ASSUME NEW u \in Tabs, PostCheck(u) \/ PostPuzzle(u) \/ PostCaptcha(u) \/ Answer(u) PROVE FALSE
    <3>1. Goes(u, "reload") \/ Goes(u, "sent")
      BY <2>5 DEF PostCheck, PostPuzzle, PostCaptcha, Answer, Confirmed, Refused
    <3> QED BY <1>o, <3>1, Leaves
  <2>6. ~(Lookup \/ Change \/ UNCHANGED vars)
    BY DEF Lookup, Change, vars
  <2>7. ~Restart
    BY DEF Restart, Away
  <2>8. ~TimePasses
    <3>1. ASSUME TimePasses PROVE tab'[t].stage = tab[t].stage
      BY <1>o, <3>1 DEF TimePasses, Own, Place
    <3> QED BY <3>1
  <2> QED BY <2>1, <2>2, <2>3, <2>4, <2>5, <2>6, <2>7, <2>8 DEF Next, Flow, Work, Handle, React
<1>3. Welcome(t)
  <2>1. ~Welcome(t) => tab'[t].stage = "serve"
    BY <1>o, <1>2, Decides, Leaves
  <2> QED BY <2>1
<1>4. CASE verdict[t] = "verified"
  BY <1>4 DEF Inv, Answers
<1>5. CASE tab[t].cleared
  BY <1>5 DEF Inv, Shown
<1> QED BY <1>3, <1>4, <1>5 DEF Welcome

(* Nobody is let in unearned (engine.rs:185-191 and :268-281, proxy.rs:310-  *)
(* 332 and :433-456): a crawler's lookup passed within its time to live, or  *)
(* a token or a captcha was solved within the cookie's; and if the last one  *)
(* solved was a puzzle served while the check was on, a check passed before  *)
(* it was served.  Not so for a captcha, for a puzzle served with the check  *)
(* off, and for the check page's own token, which handle_verify takes too;   *)
(* for any number of tabs, any times to live and any settings.               *)
THEOREM EntryIsEarned == Spec => EntryEarned
<1>1. Inv /\ [Next]_vars =>
        [\A t \in Tabs : tab[t].stage # "in" /\ tab'[t].stage = "in" /\ tab[t].forced =>
           \/ genuine # {} /\ passedAgo < PositiveTtl
           \/ solvedAgo < ClearTtl /\ CheckBefore]_vars
  BY LetIn
<1> QED BY <1>1, InvInit, InvKept, PTL DEF Spec, EntryEarned
=============================================================================
