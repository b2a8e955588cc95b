------------------------------- MODULE AutoUam -------------------------------
(***************************************************************************)
(* waf-proxy/src/admin.rs: the loop that raises and lowers the under-      *)
(* attack level by the rate of blocked requests, while the operator sets   *)
(* the same level, the threshold and the switch through the admin server,  *)
(* and visitors are blocked.  The loop reads, decides and stores in steps  *)
(* of its own; the operator's patches fall between them.  The task that    *)
(* runs it sweeps the tables too, the addresses' records among them; what  *)
(* matters of the sweep here is whether it comes to an end.                *)
(*                                                                         *)
(* Counters that only grow are kept as differences: fresh is               *)
(* metrics.blocked less prev_blocks, age the wall clock less last_change.  *)
(* Both threads save all settings after their own change.  RuntimeFile     *)
(* says what the file then holds; here a restart may find any settings.    *)
(***************************************************************************)
EXTENDS Integers

CONSTANTS
  Period,      \* seconds the rate is taken over: 5
  Cooldown,    \* seconds between two changes of the loop: 30
  Thresholds,  \* values of auto_uam_threshold
  Bursts,      \* requests that may be blocked at a time
  Delays,      \* seconds by which a round may follow the last one late
  Jumps,       \* what age may become when the wall clock is set
  MaxFresh     \* model bound: blocked requests between two rounds

Top == 4       \* UamLevel::Extreme
Levels == 0 .. Top

ASSUME AutoUamAssumption ==
  /\ Period \in Nat \ {0} /\ Cooldown \in Nat /\ MaxFresh \in Nat
  /\ Thresholds \subseteq Nat /\ Bursts \subseteq Nat /\ Delays \subseteq Nat
  /\ Jumps \subseteq -Cooldown .. Cooldown

Settings == [level : Levels, auto : BOOLEAN, threshold : Thresholds]

VARIABLES
  rt,      \* Runtime's settings in force: uam_level, auto_uam_enabled, auto_uam_threshold
  fresh,   \* requests blocked since the loop last looked
  age,     \* seconds on the wall clock since the loop's last change, at most Cooldown
  stage, bps, cur, next,   \* the loop's stage, and what it read and decided
  jammed,  \* does a request that banned hold a shard of the records for good?
  patched  \* history: has the operator changed a setting since the round began?

loop == <<age, stage, bps, cur, next>>
uam_vars == <<rt, fresh, loop, jammed, patched>>

\* last_change starts at 0: a change is due at once.
Rested == age = Cooldown /\ stage = "wait" /\ bps = 0 /\ cur = 0 /\ next = 0
UamInit == rt \in Settings /\ fresh = 0 /\ Rested /\ jammed = FALSE /\ patched = FALSE
-----------------------------------------------------------------------------
Least(a, b) == IF a < b THEN a ELSE b

\* A round begins, by the five-second interval; one that comes late is followed by
\* others at once.
Tick(delay) ==
  /\ stage = "wait"
  /\ fresh' = 0 /\ patched' = FALSE
  /\ LET rested == Least(age + delay, Cooldown) IN
       /\ age' = rested
       /\ IF rt.auto /\ rested >= Cooldown
          THEN stage' = "level" /\ bps' = fresh \div Period
          ELSE UNCHANGED <<stage, bps>>
  /\ UNCHANGED <<rt, cur, next, jammed>>

LoadLevel == /\ stage = "level" /\ stage' = "threshold" /\ cur' = rt.level
             /\ UNCHANGED <<rt, fresh, age, bps, next, jammed, patched>>

\* Mutant: the highest level is not looked at.
NextLevelUncapped(t) == IF bps >= t THEN cur + 1
                        ELSE IF bps <= t \div 4 /\ cur > 0 THEN cur - 1 ELSE cur
\* Mutant: only a rate under the lower line lets the level down.
NextLevelStrict(t) == IF bps >= t /\ cur < Top THEN cur + 1
                      ELSE IF bps < t \div 4 /\ cur > 0 THEN cur - 1 ELSE cur
\* Mutant: the lines are mixed up.
NextLevelDownFirst(t) == IF bps <= t \div 4 /\ cur > 0 THEN cur - 1
                         ELSE IF bps >= t \div 4 /\ cur < Top THEN cur + 1 ELSE cur
\* The level to come, by the threshold t and its fourth.
NextLevel(t) == IF bps >= t /\ cur < Top THEN cur + 1
                ELSE IF bps <= t \div 4 /\ cur > 0 THEN cur - 1 ELSE cur

Done == stage' = "wait" /\ bps' = 0 /\ cur' = 0 /\ next' = 0

LoadThreshold ==
  /\ stage = "threshold"
  /\ LET to == NextLevel(rt.threshold) IN
       IF to = cur THEN Done
       ELSE stage' = "store" /\ next' = to /\ UNCHANGED <<bps, cur>>
  /\ UNCHANGED <<rt, fresh, age, jammed, patched>>

StoreLevel == /\ stage = "store" /\ stage' = "persist"
              /\ rt' = [rt EXCEPT !.level = next]
              /\ age' = 0
              /\ UNCHANGED <<fresh, bps, cur, next, jammed, patched>>

\* The loop waits for the file.
SaveLevel == stage = "persist" /\ Done /\ UNCHANGED <<rt, fresh, age, jammed, patched>>

\* The sweep is due.  It needs every shard of the records, one after the other, and
\* between its first step and its last the loop does nothing else.
GcTick == stage = "wait" /\ stage' = "sweep"
          /\ UNCHANGED <<rt, fresh, age, bps, cur, next, jammed, patched>>
GcDone == stage = "sweep" /\ ~jammed /\ stage' = "wait"
          /\ UNCHANGED <<rt, fresh, age, bps, cur, next, jammed, patched>>

\* A request bans its address.  With a ban file its thread then waits for the shard
\* that it holds itself (NeverWaitsForItself of Reputations), and so do all others.
Ban == ~jammed /\ jammed' = TRUE /\ UNCHANGED <<rt, fresh, loop, patched>>

\* The admin thread stores one setting of a patch.
Set(s) == rt' = s /\ patched' = TRUE /\ UNCHANGED <<fresh, loop, jammed>>
SetLevel     == \E l \in Levels : Set([rt EXCEPT !.level = l])
SetSwitch    == \E b \in BOOLEAN : Set([rt EXCEPT !.auto = b])
SetThreshold == \E t \in Thresholds : Set([rt EXCEPT !.threshold = t])

\* Requests are blocked.
Blocked == /\ \E n \in Bursts : fresh' = Least(fresh + n, MaxFresh)
           /\ UNCHANGED <<rt, loop, jammed, patched>>

\* The wall clock is set back, perhaps before the last change, or forward.
ClockSet == /\ age' \in Jumps
            /\ UNCHANGED <<rt, fresh, stage, bps, cur, next, jammed, patched>>

UamRestart == /\ rt' \in Settings /\ fresh' = 0 /\ patched' = FALSE
              /\ age' = Cooldown /\ Done /\ jammed' = FALSE

LoopStep == LoadLevel \/ LoadThreshold \/ StoreLevel \/ SaveLevel \/ GcDone
Operator == SetLevel \/ SetSwitch \/ SetThreshold
UamNext == \/ LoopStep \/ GcTick \/ \E d \in Delays : Tick(d)
           \/ Operator \/ Blocked \/ Ban \/ ClockSet \/ UamRestart

\* The task has a thread of its own, on which a sweep ends unless a shard is held for
\* good.  The interval comes due again and again, twelve times as often as the sweep,
\* and select! chooses at random among what is due; rounds that follow at once only
\* make up for late ones.
UamFairness == /\ WF_uam_vars(LoopStep)
               /\ SF_uam_vars(\E d \in Delays \ {0} : Tick(d))
UamSpec == UamInit /\ [][UamNext]_uam_vars /\ UamFairness
-----------------------------------------------------------------------------
UamTypeOK ==
  /\ rt \in Settings /\ patched \in BOOLEAN /\ jammed \in BOOLEAN
  /\ fresh \in 0 .. MaxFresh /\ age \in -Cooldown .. Cooldown
  /\ stage \in {"wait", "level", "threshold", "store", "persist", "sweep"}
  /\ bps \in Nat /\ cur \in Levels /\ next \in Levels

(* The loop reads the rate, the level and the threshold one after the      *)
(* other.  Whatever else happens in between, it moves the level in force   *)
(* one step, and with the load: up only at the threshold in force, down    *)
(* only at its fourth; unless the operator patched a setting meanwhile,    *)
(* whose level is then overwritten.                                        *)
MovesWithLoad ==
  [][StoreLevel /\ ~patched =>
       \/ rt'.level = rt.level + 1 /\ bps >= rt.threshold
       \/ rt'.level = rt.level - 1 /\ bps <= rt.threshold \div 4]_uam_vars

(* The level follows the load once the operator leaves it alone, and the   *)
(* process and the wall clock go on, whenever the sweep comes in between:  *)
(* without blocked requests it comes down to Off from any height, under a  *)
(* rate at the threshold it reaches Extreme, and in between it comes to    *)
(* rest.  Provided that no request has banned an address with a ban file   *)
(* set: the first sweep after that never ends (admin.rs:115-123), and the  *)
(* level stays where it is until the restart.                              *)
Undisturbed == <>[][LoopStep \/ GcTick \/ (\E d \in Delays : Tick(d)) \/ Blocked]_uam_vars
Judging == stage \in {"level", "threshold"}
Follows ==
  Undisturbed /\ <>[]~jammed /\ <>[](rt.auto /\ rt.threshold > 0) =>
    /\ <>[](fresh = 0) => <>[](rt.level = 0)
    /\ <>[](Judging => bps >= rt.threshold) => <>[](rt.level = Top)
    /\ <>[](Judging => bps < rt.threshold /\ bps > rt.threshold \div 4)
         => <>[][rt'.level = rt.level]_uam_vars
=============================================================================
