----------------------------- MODULE Reputations -----------------------------
(***************************************************************************)
(* waf-core/src/reputation.rs: strikes, automatic bans and their dump to   *)
(* bans.json.                                                              *)
(*                                                                         *)
(* The bans live in a DashMap: every address belongs to a shard, and every *)
(* shard has a reader-writer lock that is not reentrant.  A lookup holds   *)
(* the read lock for a moment.  `entry` returns a guard that holds the     *)
(* write lock until the caller drops it.  `iter` walks the shards in order *)
(* and lets go of one only after it has the next.  The Mutex inside each   *)
(* entry is only ever held for a moment under the shard's lock, so it is   *)
(* part of the step that takes it.                                         *)
(*                                                                         *)
(* Agents: the proxy's workers (record_offence, force_ban), the            *)
(* admin thread (unban, the ban list) and the housekeeping thread, whose   *)
(* minute tick runs gc and then persist (waf-proxy/src/admin.rs:115-129).  *)
(***************************************************************************)
EXTENDS Integers, FiniteSets, FiniteSetsExt

CONSTANTS
  Workers, Admin, Keeper,  \* the threads
  Ips,                     \* client addresses, none of them in allow_cidrs
  Shard,                   \* [Ips -> 1..Shards]: the DashMap's hash
  Shards,                  \* number of shards
  Seconds,                 \* wall-clock seconds at which something happens
  Threshold, Window, Duration,  \* auto_ban_threshold_hits, _window_secs, _duration_secs
  MaxEntries,              \* 150_000
  Paths,                   \* values of persist_path: the ban file, or None
  Files,                   \* the bans.json contents the program may start from
  MaxCalls,                \* model bound: calls begun in a behaviour
  None

Agents == Workers \cup {Admin, Keeper}
Reasons == {"offence", "honeypot"}
HitState == [hits : Nat, first_hit : Nat, ban_until : Nat]
Fresh == [hits |-> 0, first_hit |-> 0, ban_until |-> 0]

ASSUME AgentAssumption == /\ Admin \notin Workers /\ Keeper \notin Workers
                          /\ Admin # Keeper
ASSUME ShardAssumption == Shards \in Nat \ {0} /\ Shard \in [Ips -> 1 .. Shards]
\* The unix epoch is more than two windows in the past.
ASSUME TimeAssumption == /\ Seconds \subseteq Nat /\ IsFiniteSet(Seconds)
                         /\ Threshold \in Nat /\ Duration \in Nat
                         /\ Window \in Nat /\ \A s \in Seconds : s > 2 * Window
ASSUME NameAssumption == None \notin HitState
                         /\ Files \subseteq [Ips -> HitState \cup {None}]

VARIABLES
  clock,   \* now_secs()
  state,   \* the DashMap: [Ips -> HitState, or None when untracked]
  path,    \* persist_path
  disk,    \* bans.json: [Ips -> HitState, or None]
  ag,      \* the call each agent is in
  calls,   \* calls begun
  log,     \* history: log[ip][s] = strikes this process gave ip at clock s since it was
           \* last forgiven
  carried, \* history: the hits each address brought from the ban file, until forgiven
  started  \* history: when the process started

history == <<log, carried, started>>
vars == <<clock, state, path, disk, ag, calls, history>>

\* wr: the shard the call holds for writing; at: the shard its walk has reached and,
\* unless it is gc's, holds for reading; 0 when none.
Calling(pc, ip, why, wr, now) ==
  [pc |-> pc, ip |-> ip, why |-> why, wr |-> wr, now |-> now, at |-> 0,
   dump |-> [i \in Ips |-> None]]
Idle           == Calling("idle", None, "offence", 0, 0)
Persisting(wr) == Calling("persist", None, "offence", wr, clock)

bound         == path # None
Tracked       == { ip \in Ips : state[ip] # None }
Iterating(a)  == ag[a].pc \in {"persist", "list"} /\ ag[a].at > 0
HoldsRead(a, s)  == Iterating(a) /\ ag[a].at = s
HoldsWrite(a, s) == ag[a].wr = s
Readable(s)   == \A a \in Agents : ~HoldsWrite(a, s)
Writable(s)   == Readable(s) /\ \A a \in Agents : ~HoldsRead(a, s)
\* is_banned, which classify consults: a lookup that changes nothing.
Banned(ip)    == state[ip] # None /\ state[ip].ban_until > clock
NoStrikes     == [s \in Seconds |-> 0]

Set(a, rec)   == ag' = [ag EXCEPT ![a] = rec]
-----------------------------------------------------------------------------
(* bind_persist_file at start-up: bans that still run come back, with the   *)
(* hits they had and the window of their strikes restarted.                 *)
Loaded(file, now) ==
  [ip \in Ips |-> IF file[ip] # None /\ file[ip].ban_until > now
                  THEN [file[ip] EXCEPT !.first_hit = now] ELSE None]
Reloaded(file, now) == IF bound THEN Loaded(file, now) ELSE [ip \in Ips |-> None]
Hits(entries) == [ip \in Ips |-> IF entries[ip] = None THEN 0 ELSE entries[ip].hits]

Init ==
  /\ clock \in Seconds
  /\ path \in Paths /\ disk \in Files
  /\ state = Reloaded(disk, clock)
  /\ log = [ip \in Ips |-> NoStrikes] /\ carried = Hits(state) /\ started = clock
  /\ ag = [a \in Agents |-> Idle]
  /\ calls = 0

\* The process dies at any point and starts again from bans.json.
Restart ==
  /\ calls < MaxCalls /\ calls' = calls + 1
  /\ state' = Reloaded(disk, clock)
  /\ log' = [ip \in Ips |-> NoStrikes] /\ carried' = Hits(state') /\ started' = clock
  /\ ag' = [a \in Agents |-> Idle]
  /\ UNCHANGED <<clock, path, disk>>

Advance ==
  /\ clock' \in { s \in Seconds : s > clock }
  /\ UNCHANGED <<state, path, disk, ag, calls, history>>

\* A call enters; where the code reads the clock first, it is read here.
Begin(a, pc, ip, why) ==
  /\ ag[a].pc = "idle" /\ calls < MaxCalls
  /\ Set(a, Calling(pc, ip, why, 0, clock))
  /\ calls' = calls + 1
  /\ UNCHANGED <<clock, state, path, disk, history>>

WorkerCall == \E w \in Workers, ip \in Ips, why \in Reasons : Begin(w, "probe", ip, why)
AdminCall  == \/ \E ip \in Ips : Begin(Admin, "unban", ip, "offence")
              \/ Begin(Admin, "list", None, "offence")
KeeperTick == Begin(Keeper, "gc", None, "offence")

\* record_offence and force_ban up to the capacity test: contains_key reads one
\* shard, and len, evaluated when the address is untracked, reads them all.
Probe(w) ==
  /\ ag[w].pc = "probe"
  /\ IF ag[w].ip \in Tracked THEN Readable(Shard[ag[w].ip])
                             ELSE \A s \in 1 .. Shards : Readable(s)
  /\ IF ag[w].ip \notin Tracked /\ Cardinality(Tracked) > MaxEntries
     THEN Set(w, Idle)
     ELSE Set(w, [ag[w] EXCEPT !.pc = "entry"])
  /\ UNCHANGED <<clock, state, path, disk, calls, history>>
-----------------------------------------------------------------------------
(* What record_offence and force_ban do to the entry, under its write lock. *)

Entry(ip) == IF state[ip] = None THEN Fresh ELSE state[ip]
Elapsed(now, since) == IF now > since THEN now - since ELSE 0

\* Mutant: the strikes of an old window are kept.
StruckForever(h, now) == [h EXCEPT !.first_hit = IF @ = 0 THEN now ELSE @, !.hits = @ + 1]

\* record_offence: one strike, in the running window or in a new one.
Struck(h, now) ==
  IF h.first_hit = 0 \/ Elapsed(now, h.first_hit) > Window
  THEN [h EXCEPT !.first_hit = now, !.hits = 1]
  ELSE [h EXCEPT !.hits = @ + 1]
Deserves(h, now) == Struck(h, now).hits >= Threshold /\ h.ban_until <= now
Offence(h, now) == IF Deserves(h, now) THEN [Struck(h, now) EXCEPT !.ban_until = now + Duration]
                                       ELSE Struck(h, now)

\* force_ban: the honeypot's ban, never shorter than the one that runs.
\* Mutant: the last ban wins.
ForcedAnew(h, now) == [h EXCEPT !.ban_until = now + Duration, !.hits = @ + Threshold]

Forced(h, now) == [h EXCEPT !.ban_until = IF @ < now + Duration THEN now + Duration ELSE @,
                            !.hits = @ + Threshold]

\* Mutants: the guard is dropped before persist; a missing ban file is overlooked.
AfterEntryReleasing(w, bans) ==
  IF bans /\ bound THEN Persisting(0) ELSE Idle
AfterEntryAlways(w, bans) ==
  IF bans THEN Persisting(Shard[ag[w].ip]) ELSE Idle

\* The entry guard of a caller that bans lives to the end of the function, so its
\* shard stays write-locked through persist; other callers release it here.
AfterEntry(w, bans) ==
  IF bans /\ bound THEN Persisting(Shard[ag[w].ip]) ELSE Idle

Enter(w) ==
  /\ ag[w].pc = "entry" /\ Writable(Shard[ag[w].ip])
  /\ LET ip == ag[w].ip
         h == Entry(ip)
         now == ag[w].now IN
       /\ state' = [state EXCEPT ![ip] = IF ag[w].why = "honeypot" THEN Forced(h, now) ELSE Offence(h, now)]
       /\ log' = [log EXCEPT ![ip][clock] = @ + IF ag[w].why = "honeypot" THEN Threshold ELSE 1]
       /\ Set(w, AfterEntry(w, ag[w].why = "honeypot" \/ Deserves(h, now)))
  /\ UNCHANGED <<clock, path, disk, calls, carried, started>>
-----------------------------------------------------------------------------
(* persist and banned: a walk over the shards.                              *)

\* Mutant: the walk runs one past the last shard.
WalkToPast(a, s) ==
  /\ s <= Shards + 1 /\ Readable(s) /\ Set(a, [ag[a] EXCEPT !.at = s])
  /\ UNCHANGED <<clock, state, path, disk, calls, history>>

\* The iterator takes the next shard's read lock, then gives up the last one's.
WalkTo(a, s) ==
  /\ s <= Shards /\ Readable(s)
  /\ Set(a, [ag[a] EXCEPT !.at = s,
       !.dump = [ip \in Ips |-> IF Shard[ip] = s /\ state[ip] # None
                                   /\ state[ip].ban_until > ag[a].now
                                THEN state[ip] ELSE @[ip]]])
  /\ UNCHANGED <<clock, state, path, disk, calls, history>>

\* The dump is written beside bans.json and renamed over it; that it fails to be is
\* ignored by all callers.
Flush(a) ==
  /\ ag[a].pc = "persist" /\ ag[a].at = Shards
  /\ disk' \in {disk, ag[a].dump}
  /\ Set(a, Idle)
  /\ UNCHANGED <<clock, state, path, calls, history>>

Persist(a) == ag[a].pc = "persist" /\ WalkTo(a, ag[a].at + 1)

List == ag[Admin].pc = "list" /\ WalkTo(Admin, ag[Admin].at + 1)
ListDone ==
  /\ ag[Admin].pc = "list" /\ ag[Admin].at = Shards /\ Set(Admin, Idle)
  /\ UNCHANGED <<clock, state, path, disk, calls, history>>

Unban ==
  /\ ag[Admin].pc = "unban" /\ Readable(Shard[ag[Admin].ip])
  /\ LET ip == ag[Admin].ip IN
       /\ state' = [state EXCEPT ![ip] = IF @ = None THEN None
                                         ELSE [@ EXCEPT !.ban_until = 0, !.hits = 0]]
       /\ log' = [log EXCEPT ![ip] = NoStrikes] /\ carried' = [carried EXCEPT ![ip] = 0]
  /\ Set(Admin, Idle)
  /\ UNCHANGED <<clock, path, disk, calls, started>>

\* retain on one shard after the other, then persist if a file is bound.
Keeps(h, now) == h.ban_until > now \/ Elapsed(now, h.first_hit) < Window * 2
Forgets(ip, s, now) == Shard[ip] = s /\ state[ip] # None /\ ~Keeps(state[ip], now)
Gc ==
  /\ ag[Keeper].pc = "gc"
  /\ LET s == ag[Keeper].at + 1
         now == ag[Keeper].now IN
       /\ Writable(s)
       /\ state' = [ip \in Ips |-> IF Forgets(ip, s, now) THEN None ELSE state[ip]]
       /\ log' = [ip \in Ips |-> IF Forgets(ip, s, now) THEN NoStrikes ELSE log[ip]]
       /\ carried' = [ip \in Ips |-> IF Forgets(ip, s, now) THEN 0 ELSE carried[ip]]
       /\ Set(Keeper, IF s < Shards THEN [ag[Keeper] EXCEPT !.at = s]
                      ELSE IF bound THEN Persisting(0) ELSE Idle)
  /\ UNCHANGED <<clock, path, disk, calls, started>>

AgentStep(a) ==
  \/ a \in Workers /\ (Probe(a) \/ Enter(a))
  \/ a = Admin /\ (List \/ ListDone \/ Unban)
  \/ a = Keeper /\ Gc
  \/ Persist(a)
  \/ Flush(a)

Next ==
  \/ Advance \/ Restart \/ WorkerCall \/ AdminCall \/ KeeperTick
  \/ \E a \in Agents : AgentStep(a)

Spec == Init /\ [][Next]_vars
-----------------------------------------------------------------------------
Call == [pc : {"idle", "probe", "entry", "persist", "list", "unban", "gc"},
         ip : Ips \cup {None}, now : Nat, why : Reasons, wr : 0 .. Shards,
         at : 0 .. Shards, dump : [Ips -> HitState \cup {None}]]

\* Types of the state.
TypeOK ==
  /\ clock \in Seconds
  /\ state \in [Ips -> HitState \cup {None}]
  /\ path \in Paths
  /\ disk \in [Ips -> HitState \cup {None}]
  /\ ag \in [Agents -> Call]
  /\ calls \in Nat
  /\ log \in [Ips -> [Seconds -> Nat]] /\ carried \in [Ips -> Nat] /\ started \in Seconds

\* A running ban is only ever shortened by the admin's unban or lost in a restart:
\* not by a strike or a honeypot hit that read the clock long ago, nor by gc.
BanHolds ==
  [][\A ip \in Ips : Banned(ip) =>
       \/ state'[ip] # None /\ state'[ip].ban_until >= state[ip].ban_until
       \/ Unban /\ ag[Admin].ip = ip
       \/ Restart]_vars

\* An automatic ban is deserved: within the window that ends at the offence's clock
\* reading this process gave the address the threshold of strikes, counting a honeypot hit
\* as the threshold (reputation.rs:125-130), whatever gc, unban and delayed callers did in
\* between.  The one thing a restart adds: the hits of a ban that it brought back count as
\* of the restart, however old they are (reputation.rs:70-72), so for one window after it
\* they stand in for strikes, and a single offence may ban such an address again.
StrikesSince(l, ip, from) == MapThenSumSet(LAMBDA s : l[ip][s], { s \in Seconds : s >= from })
CarriedSince(ip, from) == IF started >= from THEN carried[ip] ELSE 0
BanDeserved ==
  [][\A w \in Workers :
       LET ip == ag[w].ip
           from == ag[w].now - Window IN
         /\ ag[w].pc = "entry" /\ ag'[w].pc # "entry" /\ ag[w].why = "offence" /\ ~Restart
         /\ state'[ip].ban_until > Entry(ip).ban_until
         => StrikesSince(log', ip, from) + CarriedSince(ip, from) >= Threshold]_vars

\* Every ban of a running process write-locks its shard for good before it reaches
\* its own persist, so bans.json never gains an address: the opposite of
\* "persist auto-bans so they survive restarts" (main.rs:43, admin.rs:122).
FileGainsNoBan == [][\A ip \in Ips : disk'[ip] # None => disk[ip] # None]_vars

\* The table as a book of bans (BanBook): until when an address is banned, what the ban
\* file says of it, and the addresses of shards that a call holds while it persists.
until == [ip \in Ips |-> IF state[ip] # None THEN state[ip].ban_until ELSE 0]
saved == [ip \in Ips |-> IF bound /\ disk[ip] # None THEN disk[ip].ban_until ELSE 0]
stuck == { ip \in Ips : \E w \in Workers : HoldsWrite(w, Shard[ip]) }
Book  == INSTANCE BanBook WITH durable <- bound

\* What the table keeps through strikes with old clock readings, sweeps and restarts: a
\* running ban stays unless it is lifted, a restart brings back exactly the bans in the
\* file that run, and so also the lifted ones that no sweep has saved since (admin.rs:516).
\* With a ban file a new ban is given for good, and the file never gets it.
BookKept == Book!Spec

\* What an agent's next step waits for: the locks it takes.
MayGo(a) ==
  \/ /\ a \in Workers /\ ag[a].pc = "probe"
     /\ IF ag[a].ip \in Tracked THEN Readable(Shard[ag[a].ip])
                                ELSE \A s \in 1 .. Shards : Readable(s)
  \/ a \in Workers /\ ag[a].pc = "entry" /\ Writable(Shard[ag[a].ip])
  \/ a = Admin /\ ag[a].pc = "unban" /\ Readable(Shard[ag[a].ip])
  \/ a = Keeper /\ ag[a].pc = "gc" /\ Writable(ag[a].at + 1)
  \/ /\ ag[a].pc = "persist" \/ (a = Admin /\ ag[a].pc = "list")
     /\ ag[a].at = Shards \/ (ag[a].at < Shards /\ Readable(ag[a].at + 1))

\* Calls wait for each other in a circle only when one of them bans with a ban file:
\* not because an iterator holds one shard while it waits for the next (reputation.rs:85,
\* 181), nor because a gc wants them all in turn while others hold theirs.
Busy(a) == ag[a].pc # "idle"
SomebodyGoes ==
  /\ ~bound \/ \A w \in Workers : ag[w].pc # "persist"
  /\ \E a \in Agents : Busy(a)
  => \E a \in Agents : Busy(a) /\ MayGo(a)
NoWaitingCircle == SomebodyGoes /\ \A a \in Agents : MayGo(a) <=> ENABLED AgentStep(a)

\* "Best-effort flush; ignore I/O errors here so the request path never blocks on
\* disk" (reputation.rs:133-134): a call that bans never waits for a lock of its own.
NeverWaitsForItself == \A a \in Agents : ag[a].pc = "persist" => ag[a].wr # ag[a].at + 1
==============================================================================
