------------------------------ MODULE Visitor ------------------------------
(***************************************************************************)
(* How a visitor gets in: Engine::evaluate as far as it lets visitors by   *)
(* or has them challenged (waf-core/src/engine.rs), the page it is then    *)
(* served and the three handlers its pages post to (waf-proxy/src/         *)
(* proxy.rs), with their tokens and cookies (challenge.rs, bic.rs,         *)
(* turnstile.rs), and the crawlers' entry (GoodBot).  One visitor at one   *)
(* address asks in several tabs, while the operator changes settings.      *)
(*                                                                         *)
(* What may refuse a request (lists, bans, caps, limits, high scores) is   *)
(* Engine's; a visitor it refuses is not one of these.  Signatures and     *)
(* proofs of work hold: what is modelled of a token is its time, and of    *)
(* the check's cookie its subnet.  The check's tokens and the puzzle's are *)
(* signed alike, with one secret: either handler takes either page's.  A   *)
(* token still counts in the second in which it expires, a cookie does     *)
(* not.  The secret is configured, so that both outlive the process.       *)
(***************************************************************************)
EXTENDS Integers

CONSTANTS
  Tabs, Names, PositiveTtl, NegativeTtl, PendingTtl, MaxLookups,   \* GoodBot
  CheckTokenTtl,   \* bic.rs TOKEN_TTL_SECS
  CheckTtl,        \* bic.rs COOKIE_TTL_SECS
  PuzzleTtl,       \* what challenge.rs gives to solve a puzzle
  ClearTtl,        \* challenge.cookie_ttl_secs
  Settings         \* what the operator may have set

VARIABLES
  genuine, entry, at, claim, pendLeft, verdict, lookups, passedAgo, failedAgo,
  kind,      \* "browser", "proxied": its socket is a proxy's, "crawler": runs no script
  rt,        \* the settings in force
  tab,       \* where each tab is, and what its request was found to be
  jar,       \* the cookies: time left, and the subnet the check's is bound to
  checkedAgo, solvedAgo,   \* history: time since a check was passed, a puzzle solved
  exempt     \* history: did the last solve need no check (EntryEarned says which do not)?

Bots == INSTANCE GoodBot WITH Threads <- Tabs

bots == <<genuine, entry, at, claim, pendLeft, verdict, lookups, passedAgo, failedAgo>>
past == <<checkedAgo, solvedAgo, exempt>>
vars == <<bots, kind, rt, tab, jar, past>>

ASSUME VisitorAssumption ==
  /\ Bots!GoodBotAssumption
  /\ CheckTokenTtl \in Nat /\ CheckTtl \in Nat \ {0}
  /\ PuzzleTtl \in Nat /\ ClearTtl \in Nat \ {0}
  /\ Settings \subseteq [forced : BOOLEAN, goodbot : BOOLEAN, bic : BOOLEAN,
                         captcha : BOOLEAN, siteKey : BOOLEAN, secret : BOOLEAN]

Tokens == {"check", "puzzle"}      \* the pages that carry a token of ours
Pages  == Tokens \cup {"captcha"}
Away(stage) == [stage |-> stage, left |-> 0, forced |-> FALSE, cleared |-> FALSE,
                checked |-> FALSE, spared |-> FALSE]
Goes(t, stage) == tab' = [tab EXCEPT ![t] = Away(stage)]
Long == CheckTtl + PuzzleTtl + ClearTtl    \* what the history counts up to

\* The address a request is attributed to, and the one its connection comes from.
Resolved == "visitor"
Socket   == IF kind = "proxied" THEN "proxy" ELSE "visitor"

Init ==
  /\ Bots!Init /\ kind \in {"browser", "proxied", "crawler"}
  /\ (kind # "crawler" => genuine = {})
  /\ rt \in Settings /\ tab = [t \in Tabs |-> Away("idle")]
  /\ jar = [check |-> 0, subnet |-> Resolved, clear |-> 0]
  /\ checkedAgo = Long /\ solvedAgo = Long /\ exempt = FALSE
-----------------------------------------------------------------------------
(* A request is evaluated.                                                 *)

\* Mutant: the check's cookie counts wherever it comes from.
ShowsAnyCheck == jar.check > 0
SameSubnet == jar.subnet = Socket
ShowsCheck == jar.check > 0 /\ SameSubnet
ShowsClear == jar.clear > 0

\* The level and the cookies, then the crawlers' entry.
Ask(t) ==
  /\ tab[t].stage \in {"idle", "reload", "in"}
  /\ tab' = [tab EXCEPT ![t] = [stage |-> "asked", left |-> 0, forced |-> rt.forced,
                                cleared |-> ShowsClear, checked |-> ShowsCheck,
                                spared |-> FALSE]]
  /\ IF rt.goodbot /\ kind = "crawler" THEN \E n \in Names : Bots!Classify(t, n)
                                       ELSE UNCHANGED bots
  /\ UNCHANGED <<kind, rt, jar, past>>

Look(t) == tab[t].stage = "asked" /\ Bots!Spawn(t) /\ UNCHANGED <<kind, rt, tab, jar, past>>

\* The level challenges whoever is neither verified nor cleared; without it the
\* scores do, or do not.
Welcome(t) == verdict[t] = "verified" \/ tab[t].cleared
Decide(t) ==
  /\ tab[t].stage = "asked" /\ at[t] = "idle"
  /\ \/ (Welcome(t) \/ ~tab[t].forced) /\ Goes(t, "in")
     \/ ~Welcome(t) /\ tab' = [tab EXCEPT ![t].stage = "serve"]
  /\ Bots!Used(t) /\ UNCHANGED <<kind, rt, jar, past>>

\* The three pages; the captcha's has no token of ours.  A puzzle served with the
\* check switched off spares its visitor the check.
Check   == [Away("check") EXCEPT !.left = CheckTokenTtl]
Captcha == Away("captcha")
Puzzle  == [Away("puzzle") EXCEPT !.left = PuzzleTtl, !.spared = ~rt.bic]

\* serve_challenge, which reads settings of its own.  A crawler makes nothing of a page.
Page(t) == IF rt.bic /\ ~tab[t].checked THEN Check
           ELSE IF rt.captcha /\ rt.siteKey THEN Captcha ELSE Puzzle
Serve(t) ==
  /\ tab[t].stage = "serve"
  /\ IF kind = "crawler" THEN Goes(t, "idle") ELSE tab' = [tab EXCEPT ![t] = Page(t)]
  /\ UNCHANGED <<bots, kind, rt, jar, past>>
-----------------------------------------------------------------------------
(* The script of a page posts, and reloads the page; or it fails, and the  *)
(* person does.  A token proves itself, not its page: what is posted to    *)
(* one handler may come from the other's.                                  *)

Posts(t, pages) == /\ tab[t].stage \in pages
                   /\ UNCHANGED <<bots, kind, rt>>
Fresh(t) == tab[t].left >= 0

\* The check's cookie is bound to the address the request is attributed to.
MintCheck == /\ jar' = [jar EXCEPT !.check = CheckTtl, !.subnet = Resolved]
             /\ checkedAgo' = IF Resolved = Socket THEN 0 ELSE checkedAgo
PostCheck(t) ==
  /\ Posts(t, Tokens) /\ Goes(t, "reload")
  /\ IF Fresh(t) THEN MintCheck ELSE UNCHANGED <<jar, checkedAgo>>
  /\ UNCHANGED <<solvedAgo, exempt>>

Clear == jar' = [jar EXCEPT !.clear = ClearTtl] /\ solvedAgo' = 0

PostPuzzle(t) ==
  /\ Posts(t, Tokens) /\ Goes(t, "reload")
  /\ IF Fresh(t) THEN Clear /\ exempt' = (tab[t].spared \/ tab[t].stage = "check")
                 ELSE UNCHANGED <<jar, solvedAgo, exempt>>
  /\ UNCHANGED checkedAgo

\* Without the secret the provider is not asked.
PostCaptcha(t) == /\ Posts(t, {"captcha"}) /\ Goes(t, IF rt.secret THEN "sent" ELSE "reload")
                  /\ UNCHANGED <<jar, past>>
Confirmed(t) == /\ Posts(t, {"sent"}) /\ Goes(t, "reload") /\ Clear
                /\ exempt' = TRUE /\ UNCHANGED checkedAgo
Refused(t)   == Posts(t, {"sent"}) /\ Goes(t, "reload") /\ UNCHANGED <<jar, past>>
-----------------------------------------------------------------------------
Lookup == /\ \E n \in Names : Bots!Passes(n) \/ Bots!Fails(n)
          /\ UNCHANGED <<kind, rt, tab, jar, past>>

\* The admin thread stores one field after the other.  A secret once set is replaced,
\* but never emptied.
Change == /\ \E f \in DOMAIN rt : rt' = [rt EXCEPT ![f] = ~@]
          /\ rt' \in Settings /\ (rt.secret => rt'.secret)
          /\ UNCHANGED <<bots, kind, tab, jar, past>>

Restart == /\ Bots!Restart
           /\ tab' = [t \in Tabs |-> IF tab[t].stage \in {"asked", "serve", "sent"}
                                     THEN Away("idle") ELSE tab[t]]
           /\ UNCHANGED <<kind, rt, jar, past>>

\* A unit of time is longer than a request takes between two awaits.
Older(n) == IF n < Long THEN n + 1 ELSE n
TimePasses ==
  /\ \A t \in Tabs : tab[t].stage # "serve" /\ (tab[t].stage = "asked" => at[t] = "missed")
  /\ Bots!TimePasses
  /\ tab' = [t \in Tabs |-> IF tab[t].stage \in Tokens /\ Fresh(t)
                            THEN [tab[t] EXCEPT !.left = @ - 1] ELSE tab[t]]
  /\ jar' = [jar EXCEPT !.check = Bots!Less(@), !.clear = Bots!Less(@)]
  /\ checkedAgo' = Older(checkedAgo) /\ solvedAgo' = Older(solvedAgo)
  /\ UNCHANGED <<kind, rt, exempt>>

Handle(t) == Look(t) \/ Decide(t) \/ Serve(t)
Answer(t) == Confirmed(t) \/ Refused(t)
React(t)  == Ask(t) \/ PostCheck(t) \/ PostPuzzle(t) \/ PostCaptcha(t)
Work(t)   == Handle(t) \/ Answer(t) \/ React(t)
Flow == \E t \in Tabs : Work(t)
Next == Flow \/ Lookup \/ Change \/ Restart \/ TimePasses

\* Requests are handled; lookups and the provider answer, if only in the end: both
\* have timeouts.  The visitor reacts to what it is shown, and a crawler comes by
\* again while its verdict lasts.  That not every answer falls between another request's
\* look at the cache and its pending entry, a few instructions later, which then takes
\* the answer's place, is an assumption too.
Verified == entry.state = "verified" /\ entry.left > 0
Fairness == /\ \A t \in Tabs : /\ WF_vars(Work(t))
                               /\ SF_vars(Verified /\ Ask(t))
            /\ WF_vars(Lookup) /\ SF_vars((\A t \in Tabs : at[t] = "idle") /\ Lookup)
Spec == Init /\ [][Next]_vars /\ Fairness
-----------------------------------------------------------------------------
TypeOK ==
  /\ Bots!TypeOK /\ kind \in {"browser", "proxied", "crawler"} /\ rt \in Settings
  /\ tab \in [Tabs -> [stage : {"idle", "reload", "asked", "serve", "sent", "in"} \cup Pages,
                       left : -1 .. CheckTokenTtl + PuzzleTtl,
                       forced : BOOLEAN, cleared : BOOLEAN, checked : BOOLEAN,
                       spared : BOOLEAN]]
  /\ jar \in [check : 0 .. CheckTtl, subnet : {"visitor", "proxy"}, clear : 0 .. ClearTtl]
  /\ checkedAgo \in 0 .. Long /\ solvedAgo \in 0 .. Long /\ exempt \in BOOLEAN

(* goodbot.rs:10-16: what an entry that counts says of the address.        *)
VerdictEarned == Bots!VerdictEarned

(* engine.rs:185-191 and :268-281, proxy.rs:310-332 and :433-456: under    *)
(* the levels that challenge everyone, a visitor is let in only as a       *)
(* crawler, by a lookup that passed within its time to live, or for a      *)
(* token or a captcha solved within the cookie's.  A puzzle served while   *)
(* the check was on was moreover preceded by a check passed from the very  *)
(* address of the connection.  Nothing of the kind holds of the clearance  *)
(* for a captcha, for a puzzle served with the check switched off, and for *)
(* the check page's own token: Challenger::verify (challenge.rs:73-83)     *)
(* takes it too, so that who answers it with a proof of work is let in     *)
(* without the check.  However tabs, old pages, settings and restarts are  *)
(* interleaved.                                                            *)
CheckBefore == exempt \/ checkedAgo - solvedAgo < CheckTtl + PuzzleTtl
EntryEarned ==
  [][\A t \in Tabs : tab[t].stage # "in" /\ tab'[t].stage = "in" /\ tab[t].forced =>
       \/ genuine # {} /\ passedAgo < PositiveTtl
       \/ solvedAgo < ClearTtl /\ CheckBefore]_vars

(* Nobody is challenged for ever.  Once the settings stay as they are and  *)
(* the visitor answers its pages at once, a browser that connects itself   *)
(* and runs the pages' own scripts (challenge.rs and bic.rs render_page)   *)
(* gets in again and again, through whatever pages, provided no captcha is *)
(* shown without its secret; and a crawler does, even if an earlier lookup *)
(* failed, once lookups fail no more and time goes on.                     *)
Settled == <>[][Flow \/ Lookup \/ TimePasses]_vars
Prompt  == <>[][TimePasses => \A t \in Tabs : tab[t].stage \in {"idle", "in"}]_vars
Scripted == <>[][\A t \in Tabs : /\ PostPuzzle(t) /\ tab[t].stage = "check" => PostCheck(t)
                               /\ PostCheck(t) /\ tab[t].stage = "puzzle" => PostPuzzle(t)]_vars
EachGetsIn == \A t \in Tabs : []<>(tab[t].stage = "in")
GetsIn ==
  Settled /\ Prompt =>
    /\ /\ kind = "browser" /\ Scripted /\ <>[](rt.captcha /\ rt.siteKey => rt.secret)
       /\ <>[][\A t \in Tabs : Refused(t) => Confirmed(t)]_vars
       => EachGetsIn
    /\ /\ kind = "crawler" /\ Names \subseteq genuine /\ <>[]rt.goodbot
       /\ <>[][\A n \in Names : ~Bots!Fails(n)]_vars /\ []<><<TimePasses \/ entry.left = 0>>_vars
       => EachGetsIn
=============================================================================
