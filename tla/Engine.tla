------------------------------- MODULE Engine -------------------------------
(***************************************************************************)
(* waf-core/src/engine.rs: the verdict on one request, reached by workers  *)
(* that evaluate concurrently while the operator patches the settings.     *)
(*                                                                         *)
(* Every setting is an atomic or a lock of its own that evaluate loads at  *)
(* the line that needs it (waf-core/src/runtime.rs), some of them twice.   *)
(* An evaluation therefore has no settings of its own: it sees a different *)
(* moment at every stage.  A stage of this module is one load and what is  *)
(* decided from it; the history seen[w] is what was in force since the     *)
(* request of w arrived, and the properties say what a verdict owes to it. *)
(*                                                                         *)
(* The request carries what other components make of it: its clearance     *)
(* (challenge.rs), its crawler (goodbot.rs), its load in the rate window   *)
(* (ratelimit.rs), its concurrency (connections.rs), its detectors' scores *)
(* and whether it asks for a trap.  Ban durations are Reputations' matter: *)
(* here an address is banned or not, as that module says without ban file. *)
(***************************************************************************)
EXTENDS Integers, Sequences, SequencesExt

CONSTANTS
  Workers,       \* the proxy's threads
  Ips,
  CfgAllow, CfgDeny,  \* addresses in reputation.allow_cidrs and deny_cidrs
  Requests,      \* the requests that may arrive
  Detectors,     \* the scoring detectors with a switch, in the order they run
  SpoofScore,    \* what a spoofed crawler adds
  Starts,        \* settings the program may start with
  UamLevels, Lines, Caps, Scales,  \* values the operator stores
  MaxChanges,    \* model bound: stores and ban changes from outside
  MaxRequests,   \* model bound: requests
  MaxEvents      \* model bound: requests and changes together

Levels    == 0 .. 4   \* UamLevel: Off, Low, Medium, High, Extreme
Scored    == ToSet(Detectors)
Switches  == {"under_attack", "rate_limit", "honeypots", "goodbot", "bic"} \cup Scored
Flags     == {"cleared", "bic", "trap", "oversize"}
Crawlers  == {"none", "verified", "spoofed", "pending"}
Verdicts  == {"allow", "block", "challenge", "tarpit"}
Stages    == {"uam", "attack", "allowlist", "classify", "denylist", "crawler", "trap",
              "ban", "conns", "rate", "rate_attack", "rate_bps", "bic_cookie", "detect",
              "block_t", "chal_t", "judge", "strike_block", "strike_tarpit"}

Settings == [uam : Levels, on : SUBSET Switches, allow : SUBSET Ips, deny : SUBSET Ips,
             block : Nat, chal : Nat, tarpit : Nat, cap : Nat, bps : Nat]
Request  == [ip : Ips, flags : SUBSET Flags, crawler : Crawlers, load : Nat,
             inflight : Nat, always : Nat, parts : [Scored -> Nat]]
World    == [s : Settings, banned : SUBSET Ips]

ASSUME RequestAssumption == Requests # {} /\ Requests \subseteq Request /\ SpoofScore \in Nat
\* evaluate runs each detector at one place.
ASSUME DetectorAssumption == Detectors \in Seq(STRING) /\ IsInjective(Detectors)
ASSUME SettingAssumption ==
  /\ Starts \subseteq Settings
  /\ UamLevels \subseteq Levels /\ Lines \subseteq Nat /\ Caps \subseteq Nat /\ Scales \subseteq Nat
ASSUME BoundAssumption == MaxChanges \in Nat /\ MaxRequests \in Nat /\ MaxEvents \in Nat

VARIABLES
  rt,        \* the settings in force
  banned,    \* addresses under a ban
  pc,        \* the stage each evaluation is at, its verdict, or "idle"
  req,       \* the request
  level,     \* the level uam_params settled on
  mute,      \* detectors the request is spared
  score,     \* decision.score so far
  nth,       \* the detector to run next
  lines,     \* block_t and chal_t, once loaded
  seen,      \* history: every world in force since the request arrived
  changes, arrivals

work == <<req, level, mute, score, nth, lines>>
vars == <<rt, banned, pc, work, seen, changes, arrivals>>

Blank   == CHOOSE r \in Requests : TRUE     \* the request of a worker that has none
Now     == [s |-> rt, banned |-> banned]
Busy(w) == pc[w] \in Stages
MinusPlain(a, b) == a - b                     \* mutant: a plain subtraction
Minus(a, b) == IF a > b THEN a - b ELSE 0     \* saturating_sub
\* uam_params
ScaleOf == [l \in Levels |-> <<10000, 7500, 5000, 2500, 1000>>[l + 1]]
DropOf  == [l \in Levels |-> 5 * l]
ClampOf == [l \in Levels |-> <<0, 0, 0, 50, 25>>[l + 1]]
Forced(l) == l >= 2
-----------------------------------------------------------------------------
(* What a test of evaluate makes of the request.                           *)

\* reputations.classify: the configured lists, then the bans.
Classified(ip) == IF ip \in CfgAllow THEN "allow"
                  ELSE IF ip \in CfgDeny \cup banned THEN "block" ELSE "denylist"

CapFor(l) == IF ClampOf[l] > 0 /\ ClampOf[l] < rt.cap THEN ClampOf[l] ELSE rt.cap
OverCapOrAt(r, l) == CapFor(l) > 0 /\ r.inflight >= CapFor(l)   \* mutant: the request is not its own
OverCap(r, l) == CapFor(l) > 0 /\ r.inflight > CapFor(l)

\* check_scaled: load is the least scale, in basis points, that lets the hits through.
Throttled(r, scale) == r.load > (IF scale > 100 THEN scale ELSE 100)

\* The rate limit, the clearance cookie and the forced challenge, once the scale is known.
AfterLimitsLax(r, l, scale) ==     \* mutant: only the top levels force a challenge
  IF Throttled(r, scale) THEN "block"
  ELSE IF "cleared" \in r.flags THEN "allow"
  ELSE IF l >= 3 THEN "challenge" ELSE "bic_cookie"
AfterLimits(r, l, scale) ==
  IF Throttled(r, scale) THEN "block"
  ELSE IF "cleared" \in r.flags THEN "allow"
  ELSE IF Forced(l) THEN "challenge" ELSE "bic_cookie"

JudgedByTarpit(sc, lim) ==     \* mutant: the tarpit line replaces the block line
  IF sc >= lim.block /\ sc >= rt.tarpit THEN "strike_tarpit"
  ELSE IF sc >= lim.chal /\ sc < lim.block THEN "challenge" ELSE "allow"
Judged(sc, lim) ==
  IF sc >= lim.block THEN (IF rt.tarpit > 0 /\ sc >= rt.tarpit THEN "strike_tarpit"
                                                                ELSE "strike_block")
  ELSE IF sc >= lim.chal THEN "challenge" ELSE "allow"
-----------------------------------------------------------------------------
Init ==
  /\ rt \in Starts /\ banned = {}
  /\ pc = [w \in Workers |-> "idle"]
  /\ req = [w \in Workers |-> Blank]
  /\ level = [w \in Workers |-> 0] /\ mute = [w \in Workers |-> {}]
  /\ score = [w \in Workers |-> 0] /\ nth = [w \in Workers |-> 1]
  /\ lines = [w \in Workers |-> [block |-> 0, chal |-> 0]]
  /\ seen = [w \in Workers |-> {}]
  /\ changes = 0 /\ arrivals = 0

At(w, stage)  == pc[w] = stage
Goto(w, p)    == pc' = [pc EXCEPT ![w] = p]
Outside       == <<rt, banned, seen, changes, arrivals>>
\* A stage that only decides where to go.
Decide(w, p)  == Goto(w, p) /\ UNCHANGED <<work, Outside>>
\* Running evaluations live through the change of the world.
Witnessed     == seen' = [w \in Workers |-> IF Busy(w) THEN seen[w] \cup {Now'} ELSE seen[w]]

Arrive(w) ==
  /\ At(w, "idle") /\ arrivals < MaxRequests /\ arrivals + changes < MaxEvents
  /\ arrivals' = arrivals + 1
  /\ \E r \in Requests :
       /\ req' = [req EXCEPT ![w] = r]
       /\ score' = [score EXCEPT ![w] = r.always]
  /\ level' = [level EXCEPT ![w] = 0] /\ mute' = [mute EXCEPT ![w] = {}]
  /\ nth' = [nth EXCEPT ![w] = 1]
  /\ seen' = [seen EXCEPT ![w] = {Now}]
  /\ Goto(w, "uam")
  /\ UNCHANGED <<rt, banned, lines, changes>>

ReadUam(w) ==
  /\ At(w, "uam")
  /\ level' = [level EXCEPT ![w] = rt.uam]
  /\ Goto(w, IF rt.uam = 0 THEN "attack" ELSE "allowlist")
  /\ UNCHANGED <<req, mute, score, nth, lines, Outside>>

\* The legacy flag counts only while the level is Off, and counts as Medium.
ReadAttack(w) ==
  /\ At(w, "attack")
  /\ level' = [level EXCEPT ![w] = IF "under_attack" \in rt.on THEN 2 ELSE 0]
  /\ Goto(w, "allowlist")
  /\ UNCHANGED <<req, mute, score, nth, lines, Outside>>

ReadAllowAny(w) == /\ At(w, "allowlist")     \* mutant: a denied address loses its allowance
                   /\ Decide(w, IF req[w].ip \in rt.allow \ rt.deny THEN "allow" ELSE "classify")
ReadAllow(w) == /\ At(w, "allowlist")
                /\ Decide(w, IF req[w].ip \in rt.allow THEN "allow" ELSE "classify")

Classify(w) == At(w, "classify") /\ Decide(w, Classified(req[w].ip))

ReadDenyLate(w) == /\ At(w, "denylist")     \* mutant: a clearance cookie beats the deny list
                   /\ Decide(w, IF req[w].ip \in rt.deny /\ "cleared" \notin req[w].flags
                                THEN "block" ELSE "crawler")
ReadDeny(w) == /\ At(w, "denylist")
               /\ Decide(w, IF req[w].ip \in rt.deny THEN "block" ELSE "crawler")

Known(w) == IF "goodbot" \in rt.on THEN req[w].crawler ELSE "none"
ReadCrawler(w) ==
  /\ At(w, "crawler")
  /\ Goto(w, IF Known(w) = "verified" THEN "allow" ELSE "trap")
  /\ mute' = [mute EXCEPT ![w] = IF Known(w) = "pending" THEN @ \cup {"bot_score"} ELSE @]
  /\ score' = [score EXCEPT ![w] = IF Known(w) = "spoofed" THEN @ + SpoofScore ELSE @]
  /\ UNCHANGED <<req, level, nth, lines, Outside>>

ReadTrapAlways(w) ==     \* mutant: the honeypot switch is ignored
  At(w, "trap") /\ Decide(w, IF "trap" \in req[w].flags THEN "ban" ELSE "conns")
ReadTrap(w) ==
  /\ At(w, "trap")
  /\ Decide(w, IF "honeypots" \in rt.on /\ "trap" \in req[w].flags THEN "ban" ELSE "conns")

\* A ban that force_ban or record_offence may give: the first is refused when the
\* table is full, the second also needs enough strikes (module Reputations).
MaybeBan(w, p) ==
  /\ banned' \in {banned, banned \cup {req[w].ip}}
  /\ Goto(w, p)
  /\ UNCHANGED <<work, rt, changes, arrivals>>
  /\ Witnessed

ForceBan(w) == At(w, "ban") /\ MaybeBan(w, "block")

\* The connection cap, then the hard limits, which depend on the request alone.
ReadCap(w) ==
  /\ At(w, "conns")
  /\ Decide(w, IF OverCap(req[w], level[w]) \/ "oversize" \in req[w].flags
               THEN "block" ELSE "rate")

\* The flag is loaded once more when the level is Off and the limiter is on.
ReadRate(w) ==
  /\ At(w, "rate")
  /\ Decide(w, IF "rate_limit" \notin rt.on THEN AfterLimits([req[w] EXCEPT !.load = 0], level[w], 10000)
               ELSE IF ScaleOf[level[w]] < 10000 THEN AfterLimits(req[w], level[w], ScaleOf[level[w]])
               ELSE "rate_attack")
ReadAttackAgain(w) ==
  /\ At(w, "rate_attack")
  /\ Decide(w, IF "under_attack" \in rt.on THEN "rate_bps"
               ELSE AfterLimits(req[w], level[w], 10000))
ReadBps(w) == At(w, "rate_bps") /\ Decide(w, AfterLimits(req[w], level[w], rt.bps))

ReadBic(w) ==
  /\ At(w, "bic_cookie")
  /\ mute' = [mute EXCEPT ![w] = IF "bic" \in rt.on /\ "bic" \in req[w].flags
                                 THEN @ \cup {"bot_score"} ELSE @]
  /\ Goto(w, IF Detectors = <<>> THEN "block_t" ELSE "detect")
  /\ UNCHANGED <<req, level, score, nth, lines, Outside>>

Detect(w) ==
  /\ At(w, "detect")
  /\ LET d == Detectors[nth[w]] IN
       score' = [score EXCEPT ![w] = IF d \in rt.on \ mute[w] THEN @ + req[w].parts[d] ELSE @]
  /\ nth' = [nth EXCEPT ![w] = @ + 1]
  /\ Goto(w, IF nth[w] = Len(Detectors) THEN "block_t" ELSE "detect")
  /\ UNCHANGED <<req, level, mute, lines, Outside>>

ReadBlockLine(w) ==
  /\ At(w, "block_t")
  /\ lines' = [lines EXCEPT ![w] = [block |-> Minus(rt.block, DropOf[level[w]]), chal |-> 0]]
  /\ Goto(w, "chal_t")
  /\ UNCHANGED <<req, level, mute, score, nth, Outside>>
ReadChalLine(w) ==
  /\ At(w, "chal_t")
  /\ lines' = [lines EXCEPT ![w] = [block |-> @.block, chal |-> Minus(rt.chal, DropOf[level[w]])]]
  /\ Goto(w, "judge")
  /\ UNCHANGED <<req, level, mute, score, nth, Outside>>

Judge(w) == At(w, "judge") /\ Decide(w, Judged(score[w], lines[w]))

\* record_offence, then the verdict.
Strike(w) == \/ At(w, "strike_block") /\ MaybeBan(w, "block")
             \/ At(w, "strike_tarpit") /\ MaybeBan(w, "tarpit")

\* The proxy answers the client, and what evaluate kept on its stack is gone.
Answer(w) ==
  /\ pc[w] \in Verdicts
  /\ Goto(w, "idle")
  /\ req' = [req EXCEPT ![w] = Blank] /\ level' = [level EXCEPT ![w] = 0]
  /\ mute' = [mute EXCEPT ![w] = {}] /\ score' = [score EXCEPT ![w] = 0]
  /\ nth' = [nth EXCEPT ![w] = 1]
  /\ lines' = [lines EXCEPT ![w] = [block |-> 0, chal |-> 0]]
  /\ seen' = [seen EXCEPT ![w] = {}]
  /\ UNCHANGED <<rt, banned, changes, arrivals>>

\* An address is put on a list, or taken off it.
Listed ==
  \E ip \in Ips : \/ rt' = [rt EXCEPT !.allow = IF ip \in @ THEN @ \ {ip} ELSE @ \cup {ip}]
                  \/ rt' = [rt EXCEPT !.deny = IF ip \in @ THEN @ \ {ip} ELSE @ \cup {ip}]

\* One store: a patch of several fields stores them one after the other, and the
\* automatic escalation of the level stores that one.
Stored ==
  \/ \E l \in UamLevels : rt' = [rt EXCEPT !.uam = l]
  \/ \E d \in Switches : rt' = [rt EXCEPT !.on = IF d \in @ THEN @ \ {d} ELSE @ \cup {d}]
  \/ \E n \in Lines : \/ rt' = [rt EXCEPT !.block = n]
                       \/ rt' = [rt EXCEPT !.chal = n]
                       \/ rt' = [rt EXCEPT !.tarpit = n]
  \/ \E n \in Caps : rt' = [rt EXCEPT !.cap = n]
  \/ \E n \in Scales : rt' = [rt EXCEPT !.bps = n]
  \/ Listed
Patch ==
  /\ changes < MaxChanges /\ arrivals + changes < MaxEvents /\ changes' = changes + 1
  /\ Stored
  /\ UNCHANGED <<banned, pc, work, arrivals>>
  /\ Witnessed

\* A ban runs out or the operator lifts it.
Unban ==
  /\ changes < MaxChanges /\ arrivals + changes < MaxEvents /\ changes' = changes + 1
  /\ \E ip \in banned : banned' = banned \ {ip}
  /\ UNCHANGED <<rt, pc, work, arrivals>>
  /\ Witnessed

Step(w) ==
  \/ ReadUam(w) \/ ReadAttack(w) \/ ReadAllow(w) \/ Classify(w) \/ ReadDeny(w)
  \/ ReadCrawler(w) \/ ReadTrap(w) \/ ForceBan(w) \/ ReadCap(w) \/ ReadRate(w)
  \/ ReadAttackAgain(w) \/ ReadBps(w) \/ ReadBic(w) \/ Detect(w) \/ ReadBlockLine(w)
  \/ ReadChalLine(w) \/ Judge(w) \/ Strike(w)

Next == \/ \E w \in Workers : Arrive(w) \/ Step(w) \/ Answer(w)
        \/ Patch \/ Unban
Spec == Init /\ [][Next]_vars
-----------------------------------------------------------------------------
TypeOK ==
  /\ rt \in Settings /\ banned \subseteq Ips
  /\ pc \in [Workers -> Stages \cup Verdicts \cup {"idle"}]
  /\ req \in [Workers -> Request]
  /\ level \in [Workers -> Levels]
  /\ mute \in [Workers -> SUBSET {"bot_score"}]
  /\ score \in [Workers -> Nat]
  /\ nth \in [Workers -> 1 .. Len(Detectors) + 1]
  /\ lines \in [Workers -> [block : Nat, chal : Nat]]
  /\ seen \in [Workers -> SUBSET World]
  /\ changes \in 0 .. MaxChanges /\ arrivals \in 0 .. MaxRequests

(* What a verdict may appeal to.                                           *)
Decided(w)  == pc[w] \in Verdicts
Favoured(w) == req[w].ip \in CfgAllow \/ \E t \in seen[w] : req[w].ip \in t.s.allow
Excused(w)  == \/ Favoured(w)
               \/ req[w].crawler = "verified" /\ \E t \in seen[w] : "goodbot" \in t.s.on
UnderUam(w)  == \A t \in seen[w] : Forced(t.s.uam)
UnderFlag(w) == \A t \in seen[w] : t.s.uam = 0 /\ "under_attack" \in t.s.on
\* The most and the least a request can score, given what was switched on.
Spared(r)   == IF r.crawler = "pending" \/ "bic" \in r.flags THEN {"bot_score"} ELSE {}
Spoof(r)    == IF r.crawler = "spoofed" THEN SpoofScore ELSE 0
Total(r, ds) == r.always + MapThenSumSet(LAMBDA d : r.parts[d], ds)
Most(w)     == Total(req[w], { d \in Scored : \E t \in seen[w] : d \in t.s.on }) + Spoof(req[w])
Least(w)    == Total(req[w], { d \in Scored : \A t \in seen[w] : d \in t.s.on } \ Spared(req[w]))

(* "Allow always wins": an address that was on the allow list for as long  *)
(* as its request was evaluated gets through, whatever else holds of it.   *)
AllowListWins ==
  \A w \in Workers :
    Decided(w) /\ (req[w].ip \in CfgAllow \/ \A t \in seen[w] : req[w].ip \in t.s.allow)
      => pc[w] = "allow"

(* The always-on deny list: an address denied, or banned, for as long as   *)
(* its request was evaluated is blocked, though the two lists are read at  *)
(* different moments, unless an allow list had it at some moment; neither  *)
(* a clearance, a crawler's name nor the level changes that.               *)
DenyHolds ==
  \A w \in Workers :
    /\ Decided(w) /\ ~Favoured(w)
    /\ \/ req[w].ip \in CfgDeny
       \/ \A t \in seen[w] : req[w].ip \in t.s.deny
       \/ \A t \in seen[w] : req[w].ip \in t.banned
    => pc[w] = "block"

(* While the site is under attack, by its level or by the legacy flag, no  *)
(* visitor without clearance gets through: the parameters are settled once *)
(* and no later patch of the same evaluation opens a gap.                  *)
UnderAttackChallenges ==
  \A w \in Workers :
    Decided(w) /\ (UnderUam(w) \/ UnderFlag(w)) /\ ~Excused(w) /\ "cleared" \notin req[w].flags
      => pc[w] \in {"block", "challenge"}

(* A request that the detectors that stayed on score at or over every      *)
(* block line in force never reaches the upstream.                         *)
SevereNeverPasses ==
  \A w \in Workers :
    /\ Decided(w) /\ ~Excused(w) /\ "cleared" \notin req[w].flags
    /\ \A t \in seen[w] : Least(w) >= t.s.block
    => pc[w] # "allow"

(* A harmless visitor is served: never denied or banned, no trap, within   *)
(* every ceiling the settings it met could mean, and either cleared or     *)
(* scored under every line that any of the levels it met could mean.       *)
HarmlessServed ==
  \A w \in Workers :
    LET r == req[w] IN
    /\ Decided(w) /\ r.ip \notin CfgDeny /\ r.flags \cap {"trap", "oversize"} = {}
    /\ \A t \in seen[w] :
         /\ r.ip \notin t.s.deny \cup t.banned
         /\ t.s.cap > 0 => r.inflight <= t.s.cap
         /\ ClampOf[t.s.uam] > 0 => r.inflight <= ClampOf[t.s.uam]
         /\ r.load <= ScaleOf[t.s.uam]
         /\ "under_attack" \in t.s.on => r.load <= 5000
    /\ (\E t \in seen[w] : "under_attack" \in t.s.on) => \A t \in seen[w] : r.load <= t.s.bps
    /\ \/ "cleared" \in r.flags
       \/ \A t \in seen[w] : /\ ~Forced(t.s.uam) /\ "under_attack" \notin t.s.on
                             /\ Most(w) + DropOf[1] < t.s.chal /\ Most(w) + DropOf[1] < t.s.block
    => pc[w] = "allow"

(* A new ban is some request's own doing: it stepped into a trap that was  *)
(* switched on, or it scored over a line in force, uncleared.  An address  *)
(* that stayed allowed, or whose crawler stayed verified, is never banned. *)
BansAreEarned ==
  [][\A ip \in banned' \ banned :
       \E w \in Workers :
         /\ Busy(w) /\ req[w].ip = ip
         /\ ip \notin CfgAllow /\ \E t \in seen[w] : ip \notin t.s.allow
         /\ req[w].crawler = "verified" => \E t \in seen[w] : "goodbot" \notin t.s.on
         /\ \/ "trap" \in req[w].flags /\ \E t \in seen[w] : "honeypots" \in t.s.on
            \/ /\ "cleared" \notin req[w].flags
               /\ \E t \in seen[w] : Most(w) + DropOf[1] >= t.s.block]_vars

(* engine.rs:249-250 says "The legacy `under_attack` toggle keeps using    *)
(* `rpm_under_attack_bps`; UAM levels above Off override it": with the     *)
(* level Off and the flag set, a load over that share is rate-limited.     *)
LegacyKeepsItsScale ==
  \A w \in Workers :
    /\ Decided(w) /\ ~Excused(w) /\ UnderFlag(w)
    /\ \A t \in seen[w] : "rate_limit" \in t.s.on /\ Throttled(req[w], t.s.bps)
    => pc[w] = "block"
=============================================================================
