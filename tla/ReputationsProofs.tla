-------------------------- MODULE ReputationsProofs --------------------------
(***************************************************************************)
(* What the ban table keeps for any number of workers, addresses, shards   *)
(* and calls and for every threshold, window and duration.                 *)
(***************************************************************************)
EXTENDS Reputations, Sums, TLAPS

USE DEF history

(* What is known of the call c of agent a: who makes it, that only a worker *)
(* that bans holds a shard for writing, that its walk has not passed that   *)
(* shard, and that its clock reading is not from the future.                *)
CallOK(a, c) ==
  /\ c \in Call
  /\ c.pc \in {"probe", "entry"} => a \in Workers /\ c.ip \in Ips
  /\ c.pc = "unban" => a = Admin /\ c.ip \in Ips
  /\ c.pc = "list" => a = Admin
  /\ c.pc = "gc" => a = Keeper
  /\ c.pc # "persist" => c.wr = 0
  /\ c.pc = "persist" =>
       /\ bound
       /\ \/ a = Keeper /\ c.wr = 0
          \/ a \in Workers /\ c.wr \in 1 .. Shards /\ c.at < c.wr
  /\ c.now <= clock
CallsOK == \A a \in Agents : CallOK(a, ag[a])
TypeInv == TypeOK /\ CallsOK

\* An agent that moves on leaves the others where they are.
LEMMA Moved ==
  ASSUME TypeInv, NEW a \in Agents, NEW c, Set(a, c), CallOK(a, c),
         UNCHANGED <<clock, path>>
  PROVE  /\ ag' \in [Agents -> Call] /\ CallsOK'
         /\ ag'[a] = c
         /\ \A b \in Agents \ {a} : ag'[b] = ag[b]
<1>1. c \in Call
  BY DEF CallOK
<1>2. /\ ag' \in [Agents -> Call]
      /\ ag'[a] = c
      /\ \A b \in Agents \ {a} : ag'[b] = ag[b]
  BY <1>1 DEF Set, TypeInv, TypeOK
<1>3. ASSUME NEW b \in Agents, CallOK(b, ag[b]), ag'[b] = ag[b] PROVE CallOK(b, ag[b])'
  BY <1>3 DEF CallOK, bound
<1>4. CallOK(a, ag[a])'
  BY <1>2 DEF CallOK, bound
<1>5. QED
  BY <1>2, <1>3, <1>4 DEF TypeInv, CallsOK

LEMMA IdleCall == ASSUME TypeInv, NEW a \in Agents PROVE CallOK(a, Idle)
  BY TimeAssumption, ShardAssumption DEF CallOK, Idle, Calling, Call, Reasons, TypeInv, TypeOK

\* bind_persist_file loads well-formed entries.
LEMMA ReloadTyped ==
  ASSUME clock \in Seconds, disk \in [Ips -> HitState \cup {None}]
  PROVE  /\ Reloaded(disk, clock) \in [Ips -> HitState \cup {None}]
         /\ Hits(Reloaded(disk, clock)) \in [Ips -> Nat]
<1>1. Reloaded(disk, clock) \in [Ips -> HitState \cup {None}]
  <2> SUFFICES ASSUME NEW ip \in Ips, disk[ip] # None
               PROVE  [disk[ip] EXCEPT !.first_hit = clock] \in HitState
    BY DEF Reloaded, Loaded
  <2>1. disk[ip] \in HitState /\ clock \in Nat
    BY TimeAssumption
  <2>2. QED
    BY <2>1 DEF HitState
<1>2. ASSUME NEW S \in [Ips -> HitState \cup {None}] PROVE Hits(S) \in [Ips -> Nat]
  BY DEF Hits, HitState
<1>3. QED
  BY <1>1, <1>2

\* The entry that a strike or a honeypot hit leaves behind.
LEMMA EntryTyped ==
  ASSUME TypeInv, NEW ip \in Ips, NEW now \in Nat
  PROVE  /\ Entry(ip) \in HitState
         /\ Struck(Entry(ip), now) \in HitState
         /\ Offence(Entry(ip), now) \in HitState
         /\ Forced(Entry(ip), now) \in HitState
<1>1. Entry(ip) \in HitState
  BY DEF TypeInv, TypeOK, Entry, Fresh, HitState
<1>2. Struck(Entry(ip), now) \in HitState
  <2> DEFINE h == Entry(ip)
  <2>1. [h EXCEPT !.first_hit = now, !.hits = 1] \in HitState
    BY <1>1 DEF HitState
  <2>2. [h EXCEPT !.hits = h.hits + 1] \in HitState
    BY <1>1 DEF HitState
  <2>3. QED
    BY <2>1, <2>2 DEF Struck
<1>3. Offence(Entry(ip), now) \in HitState
  BY <1>2, TimeAssumption DEF Offence, HitState
<1>4. Forced(Entry(ip), now) \in HitState
  <2>1. /\ Entry(ip).ban_until \in Nat /\ Entry(ip).hits + Threshold \in Nat
        /\ now + Duration \in Nat
    BY <1>1, TimeAssumption DEF HitState
  <2>2. QED
    BY <1>1, <2>1 DEF Forced, HitState
<1>5. QED
  BY <1>1, <1>2, <1>3, <1>4
-----------------------------------------------------------------------------
(* Types, agent by agent.                                                   *)

LEMMA TypeEnvironment ==
  ASSUME TypeInv, Advance \/ Restart \/ WorkerCall \/ AdminCall \/ KeeperTick
  PROVE  TypeInv'
<1>1. CASE Advance
  <2>1. clock \in Nat /\ clock' \in Nat /\ clock < clock' /\ clock' \in Seconds
    BY <1>1, TimeAssumption DEF Advance, TypeInv, TypeOK
  <2>2. ASSUME NEW a \in Agents, CallOK(a, ag[a]) PROVE CallOK(a, ag[a])'
    BY <1>1, <2>1, <2>2 DEF Advance, CallOK, bound, Call
  <2>3. QED
    BY <1>1, <2>1, <2>2 DEF Advance, TypeInv, TypeOK, CallsOK
<1>2. CASE Restart
  <2>1. \A a \in Agents : CallOK(a, Idle)'
    BY <1>2, IdleCall DEF Restart, CallOK, bound
  <2>2. Idle \in Call
    BY IdleCall DEF CallOK, Agents
  <2>3. ag' \in [Agents -> Call] /\ CallsOK'
    BY <1>2, <2>1, <2>2 DEF Restart, CallsOK
  <2>4. QED
    BY <1>2, <2>3, ReloadTyped DEF Restart, TypeInv, TypeOK, NoStrikes
<1>3. ASSUME NEW a \in Agents, NEW pc \in {"probe", "unban", "list", "gc"},
             NEW ip \in Ips \cup {None}, NEW why \in Reasons, Begin(a, pc, ip, why),
             pc = "probe" => a \in Workers /\ ip \in Ips,
             pc = "unban" => a = Admin /\ ip \in Ips,
             pc = "list" => a = Admin, pc = "gc" => a = Keeper
      PROVE  TypeInv'
  <2> DEFINE c == Calling(pc, ip, why, 0, clock)
  <2>1. CallOK(a, c)
    <3>1. clock \in Nat
      BY TimeAssumption DEF TypeInv, TypeOK
    <3>2. QED
      BY <1>3, <3>1, ShardAssumption DEF CallOK, Call, Calling
  <2>2. ag' \in [Agents -> Call] /\ CallsOK'
    BY <1>3, <2>1, Moved DEF Begin
  <2>3. QED
    BY <1>3, <2>2 DEF Begin, TypeInv, TypeOK
<1>4. CASE WorkerCall
  BY <1>3, <1>4 DEF WorkerCall, Agents
<1>5. CASE AdminCall
  BY <1>3, <1>5 DEF AdminCall, Agents, Reasons
<1>6. CASE KeeperTick
  BY <1>3, <1>6 DEF KeeperTick, Agents, Reasons
<1>7. QED
  BY <1>1, <1>2, <1>4, <1>5, <1>6

LEMMA TypeWorker ==
  ASSUME TypeInv, NEW w \in Workers, Probe(w) \/ Enter(w)
  PROVE  TypeInv'
<1>1. w \in Agents /\ ag[w] \in Call /\ CallOK(w, ag[w]) /\ CallOK(w, Idle)
  BY IdleCall DEF Agents, TypeInv, TypeOK, CallsOK
<1>2. CASE Probe(w)
  <2> DEFINE c == [ag[w] EXCEPT !.pc = "entry"]
  <2>1. CallOK(w, c)
    BY <1>1, <1>2 DEF CallOK, Call, Probe
  <2>2. ag' \in [Agents -> Call] /\ CallsOK'
    BY <1>1, <1>2, <2>1, Moved DEF Probe
  <2>3. QED
    BY <1>2, <2>2 DEF Probe, TypeInv, TypeOK
<1>3. CASE Enter(w)
  <2> DEFINE ip  == ag[w].ip
             now == ag[w].now
             new == IF ag[w].why = "honeypot" THEN Forced(Entry(ip), now)
                                              ELSE Offence(Entry(ip), now)
             n   == IF ag[w].why = "honeypot" THEN Threshold ELSE 1
             c   == AfterEntry(w, ag[w].why = "honeypot" \/ Deserves(Entry(ip), now))
  <2>1. ip \in Ips /\ now \in Nat /\ clock \in Nat /\ Shard[ip] \in 1 .. Shards
    BY <1>1, <1>3, ShardAssumption, TimeAssumption DEF CallOK, Call, Enter, TypeInv, TypeOK
  <2>2. new \in HitState /\ n \in Nat
    BY <2>1, EntryTyped, TimeAssumption
  <2>3. state' \in [Ips -> HitState \cup {None}]
    BY <1>3, <2>1, <2>2 DEF Enter, TypeInv, TypeOK
  <2>4. log' \in [Ips -> [Seconds -> Nat]]
    <3>1. log[ip] \in [Seconds -> Nat] /\ clock \in Seconds /\ log[ip][clock] + n \in Nat
      BY <2>1, <2>2 DEF TypeInv, TypeOK
    <3>2. log' = [log EXCEPT ![ip] = [log[ip] EXCEPT ![clock] = log[ip][clock] + n]]
      BY <1>3 DEF Enter
    <3>3. [log[ip] EXCEPT ![clock] = log[ip][clock] + n] \in [Seconds -> Nat]
      BY <3>1
    <3>4. QED
      BY <2>1, <3>2, <3>3 DEF TypeInv, TypeOK
  <2>5. CallOK(w, c)
    <3>1. CASE bound
      <4>1. CallOK(w, Persisting(Shard[ip]))
        BY <2>1, <3>1, ShardAssumption DEF CallOK, Persisting, Calling, Call, Reasons
      <4>2. QED
        BY <1>1, <4>1 DEF AfterEntry
    <3>2. CASE ~bound
      BY <1>1, <3>2 DEF AfterEntry
    <3>3. QED
      BY <3>1, <3>2
  <2>6. ag' \in [Agents -> Call] /\ CallsOK'
    BY <1>1, <1>3, <2>5, Moved DEF Enter
  <2>7. QED
    BY <1>3, <2>3, <2>4, <2>6 DEF Enter, TypeInv, TypeOK
<1>4. QED
  BY <1>2, <1>3

\* A walk reaches the next shard; it never runs into the one its own call holds.
LEMMA TypeWalk ==
  ASSUME TypeInv, NEW a \in Agents, ag[a].pc \in {"persist", "list"}, WalkTo(a, ag[a].at + 1)
  PROVE  TypeInv'
<1> DEFINE s    == ag[a].at + 1
           dump == [ip \in Ips |-> IF Shard[ip] = s /\ state[ip] # None
                                      /\ state[ip].ban_until > ag[a].now
                                   THEN state[ip] ELSE ag[a].dump[ip]]
           c    == [ag[a] EXCEPT !.at = s, !.dump = dump]
<1>1. CallOK(a, ag[a]) /\ ag[a] \in Call
  BY DEF TypeInv, CallsOK, CallOK
<1>2. dump \in [Ips -> HitState \cup {None}]
  BY <1>1 DEF TypeInv, TypeOK, Call
<1>3. s \in 0 .. Shards /\ s # ag[a].wr
  BY <1>1, ShardAssumption DEF WalkTo, Readable, HoldsWrite, Call
<1>4. /\ c \in Call /\ c.at = s /\ c.pc = ag[a].pc /\ c.ip = ag[a].ip
      /\ c.wr = ag[a].wr /\ c.now = ag[a].now
  BY <1>1, <1>2, <1>3 DEF Call
<1>5. CallOK(a, c)
  <2>1. ag[a].at \in Nat /\ ag[a].wr \in Nat
    BY <1>1, ShardAssumption DEF Call
  <2> HIDE DEF c
  <2>2. c.pc = "persist" => bound /\ \/ a = Keeper /\ c.wr = 0
                                     \/ a \in Workers /\ c.wr \in 1 .. Shards /\ c.at < c.wr
    BY <1>1, <1>3, <1>4, <2>1 DEF CallOK
  <2>3. c.now <= clock
    BY <1>1, <1>4 DEF CallOK
  <2>4. QED
    BY <1>1, <1>4, <2>2, <2>3 DEF CallOK
<1>6. Set(a, c)
  BY DEF WalkTo
<1>7. ag' \in [Agents -> Call] /\ CallsOK'
  BY <1>5, <1>6, Moved DEF WalkTo
<1>8. QED
  BY <1>7 DEF WalkTo, TypeInv, TypeOK

LEMMA TypeAdminKeeper ==
  ASSUME TypeInv, Unban \/ Gc
  PROVE  TypeInv'
<1>1. /\ Admin \in Agents /\ Keeper \in Agents /\ clock \in Nat
      /\ CallOK(Admin, Idle) /\ CallOK(Keeper, Idle)
      /\ CallOK(Admin, ag[Admin]) /\ CallOK(Keeper, ag[Keeper])
  BY IdleCall, TimeAssumption DEF Agents, TypeInv, TypeOK, CallsOK
<1>2. CASE Unban
  <2> DEFINE ip == ag[Admin].ip
  <2>1. ip \in Ips
    BY <1>1, <1>2 DEF Unban, CallOK
  <2>2. state[ip] # None => [state[ip] EXCEPT !.ban_until = 0, !.hits = 0] \in HitState
    BY <2>1 DEF TypeInv, TypeOK, HitState
  <2>3. state' \in [Ips -> HitState \cup {None}]
    BY <1>2, <2>1, <2>2 DEF Unban, TypeInv, TypeOK
  <2>4. log' \in [Ips -> [Seconds -> Nat]]
    BY <1>2, <2>1 DEF Unban, TypeInv, TypeOK, NoStrikes
  <2>5. ag' \in [Agents -> Call] /\ CallsOK'
    BY <1>1, <1>2, Moved DEF Unban
  <2>6. QED
    BY <1>2, <2>3, <2>4, <2>5 DEF Unban, TypeInv, TypeOK
<1>3. CASE Gc
  <2> DEFINE s == ag[Keeper].at + 1
             c == [ag[Keeper] EXCEPT !.at = s]
  <2>1. state' \in [Ips -> HitState \cup {None}]
    BY <1>3 DEF Gc, TypeInv, TypeOK
  <2>2. log' \in [Ips -> [Seconds -> Nat]]
    BY <1>3 DEF Gc, TypeInv, TypeOK, NoStrikes
  <2>3. s < Shards => CallOK(Keeper, c)
    <3>1. SUFFICES ASSUME s < Shards PROVE CallOK(Keeper, c)
      OBVIOUS
    <3>2. ag[Keeper] \in Call /\ s \in 0 .. Shards
      BY <1>1, <3>1, ShardAssumption DEF CallOK, Call
    <3>3. /\ c \in Call /\ c.pc = ag[Keeper].pc /\ c.ip = ag[Keeper].ip
          /\ c.wr = ag[Keeper].wr /\ c.now = ag[Keeper].now
      BY <3>2 DEF Call
    <3> HIDE DEF c
    <3>4. QED
      BY <1>1, <1>3, <3>3 DEF CallOK, Gc
  <2>4. bound => CallOK(Keeper, Persisting(0))
    <3> SUFFICES ASSUME bound PROVE CallOK(Keeper, Persisting(0))
      OBVIOUS
    <3>0. clock \in Nat
      BY <1>1
    <3>1. Persisting(0) \in Call
      BY <1>1, ShardAssumption DEF Persisting, Calling, Call, Reasons
    <3>2. QED
      BY <3>1, <3>0 DEF CallOK, Persisting, Calling
  <2>5. ag' \in [Agents -> Call] /\ CallsOK'
    BY <1>1, <1>3, <2>3, <2>4, Moved DEF Gc
  <2>6. QED
    BY <1>3, <2>1, <2>2, <2>5 DEF Gc, TypeInv, TypeOK
<1>4. QED
  BY <1>2, <1>3

\* A walk that is over: the dump goes to bans.json, or the list to the admin.
LEMMA TypeDone ==
  ASSUME TypeInv, NEW a \in Agents, Flush(a) \/ (a = Admin /\ ListDone)
  PROVE  TypeInv'
<1>1. CallOK(a, Idle) /\ ag[a].dump \in [Ips -> HitState \cup {None}]
  BY IdleCall DEF TypeInv, TypeOK, Call
<1>2. ag' \in [Agents -> Call] /\ CallsOK'
  BY <1>1, Moved DEF Flush, ListDone
<1>3. QED
  BY <1>1, <1>2 DEF Flush, ListDone, TypeInv, TypeOK

LEMMA TypeStep == TypeInv /\ [Next]_vars => TypeInv'
<1> SUFFICES ASSUME TypeInv, [Next]_vars PROVE TypeInv'
  OBVIOUS
<1>1. CASE UNCHANGED vars
  BY <1>1 DEF vars, TypeInv, TypeOK, CallsOK, CallOK, bound
<1>2. CASE Advance \/ Restart \/ WorkerCall \/ AdminCall \/ KeeperTick
  BY <1>2, TypeEnvironment
<1>3. ASSUME NEW a \in Agents, AgentStep(a) PROVE TypeInv'
  <2>1. CASE a \in Workers /\ (Probe(a) \/ Enter(a))
    BY <2>1, TypeWorker
  <2>2. CASE Persist(a)
    BY <2>2, TypeWalk DEF Persist
  <2>3. CASE a = Admin /\ List
    <3>1. Admin \in Agents
      BY DEF Agents
    <3>2. List
      BY <2>3
    <3>3. ag[Admin].pc \in {"persist", "list"} /\ WalkTo(Admin, ag[Admin].at + 1)
      BY <3>2 DEF List
    <3>4. QED
      BY <3>1, <3>3, TypeWalk
  <2>4. CASE Flush(a) \/ (a = Admin /\ ListDone)
    BY <2>4, TypeDone
  <2>5. CASE Unban \/ Gc
    BY <2>5, TypeAdminKeeper
  <2>6. QED
    BY <1>3, <2>1, <2>2, <2>3, <2>4, <2>5 DEF AgentStep
<1>4. QED
  BY <1>1, <1>2, <1>3 DEF Next

LEMMA Typed == Spec => []TypeInv
<1>1. Init => TypeInv
  <2> SUFFICES ASSUME Init PROVE TypeInv
    OBVIOUS
  <2>1. clock \in Nat /\ clock \in Seconds /\ path \in Paths /\ disk \in [Ips -> HitState \cup {None}]
    BY TimeAssumption, NameAssumption DEF Init
  <2>2. Idle \in Call /\ ag \in [Agents -> Call]
    BY ShardAssumption DEF Init, Idle, Calling, Call, Reasons
  <2>3. CallsOK
    BY <2>1, <2>2 DEF Init, CallsOK, CallOK, Idle, Calling
  <2>4. TypeOK
    BY <2>1, <2>2, ReloadTyped DEF Init, TypeOK, NoStrikes
  <2>5. QED
    BY <2>3, <2>4 DEF TypeInv
<1>2. QED
  BY <1>1, TypeStep, PTL DEF Spec

\* Strikes, bans, unbans, gc and restarts leave well-formed entries, and no walk runs
\* past the last shard.
THEOREM Typing == Spec => []TypeOK
<1>1. TypeInv => TypeOK
  BY DEF TypeInv
<1>2. QED
  BY <1>1, Typed, PTL
-----------------------------------------------------------------------------
(* The shard locks.                                                         *)

\* While no worker bans with a ban file, nobody holds a shard for writing between two
\* steps, so whoever walks the shards can go on, and when nobody does, nobody holds one.
LEMMA WalkersGo ==
  ASSUME TypeInv, ~bound \/ \A w \in Workers : ag[w].pc # "persist",
         \E a \in Agents : Busy(a)
  PROVE  \E a \in Agents : Busy(a) /\ MayGo(a)
<1>1. \A a \in Agents : CallOK(a, ag[a]) /\ ag[a] \in Call
  BY DEF TypeInv, CallsOK, CallOK
<1>2. \A s \in 1 .. Shards : Readable(s)
  <2>1. ASSUME NEW a \in Agents PROVE ag[a].wr = 0
    BY <1>1 DEF CallOK
  <2> QED BY <2>1, ShardAssumption DEF Readable, HoldsWrite
<1>3. CASE \E a \in Agents : ag[a].pc \in {"persist", "list"}
  <2>1. PICK a \in Agents : ag[a].pc \in {"persist", "list"}
    BY <1>3
  <2>2. ag[a].pc = "list" => a = Admin
    BY <1>1 DEF CallOK
  <2>3. ag[a].at \in 0 .. Shards
    BY <1>1 DEF Call
  <2>4. ag[a].at = Shards \/ (ag[a].at < Shards /\ Readable(ag[a].at + 1))
    BY <1>2, <2>3, ShardAssumption
  <2>5. Busy(a) /\ MayGo(a)
    BY <2>1, <2>2, <2>4 DEF Busy, MayGo
  <2> QED BY <2>5
<1>4. CASE \A a \in Agents : ag[a].pc \notin {"persist", "list"}
  <2>1. \A s : Readable(s) => Writable(s)
    BY <1>4 DEF Writable, HoldsRead, Iterating
  <2>2. PICK a \in Agents : Busy(a)
    OBVIOUS
  <2>3. ag[a].pc \in {"probe", "entry", "unban", "gc"}
    BY <1>1, <1>4, <2>2 DEF Call, Busy
  <2>4. CASE ag[a].pc = "gc"
    <3>1. Readable(ag[a].at + 1)
      <4>1. ASSUME NEW b \in Agents PROVE ag[b].wr = 0
        BY <1>1, <1>4 DEF CallOK
      <4>2. ag[a].at + 1 # 0
        BY <1>1, ShardAssumption DEF Call
      <4> QED BY <4>1, <4>2 DEF Readable, HoldsWrite
    <3>2. a = Keeper
      BY <1>1, <2>4 DEF CallOK
    <3> QED BY <2>1, <2>2, <2>4, <3>1, <3>2 DEF MayGo
  <2>5. CASE ag[a].pc \in {"probe", "entry", "unban"}
    <3>1. /\ ag[a].pc \in {"probe", "entry"} => a \in Workers
          /\ ag[a].pc = "unban" => a = Admin
          /\ Shard[ag[a].ip] \in 1 .. Shards
      BY <1>1, <2>5, ShardAssumption DEF CallOK
    <3>2. Readable(Shard[ag[a].ip]) /\ Writable(Shard[ag[a].ip])
      BY <1>2, <2>1, <3>1
    <3> QED BY <1>2, <2>2, <2>5, <3>1, <3>2 DEF MayGo
  <2> QED BY <2>3, <2>4, <2>5
<1> QED BY <1>3, <1>4

\* No circle of waiting calls: as long as no worker bans with a ban file, some call that
\* has begun - a strike, an unban, a listing, a sweep or its persist - finds its lock free.
THEOREM SomebodyAlwaysGoes == Spec => []SomebodyGoes
<1>1. TypeInv => SomebodyGoes
  BY WalkersGo DEF SomebodyGoes
<1>2. QED
  BY <1>1, Typed, PTL
-----------------------------------------------------------------------------
(* Bans.                                                                    *)

\* A strike leaves a running ban alone, and a honeypot hit never shortens one.
LEMMA StrikeKeepsBan ==
  ASSUME TypeInv, NEW ip \in Ips, NEW now \in Nat, now <= clock, Banned(ip)
  PROVE  /\ Offence(Entry(ip), now).ban_until = state[ip].ban_until
         /\ Forced(Entry(ip), now).ban_until >= state[ip].ban_until
<1> DEFINE h == Entry(ip)
<1>1. h = state[ip] /\ h \in HitState /\ h.ban_until > clock /\ clock \in Nat
  BY TimeAssumption DEF Banned, Entry, TypeInv, TypeOK
<1>2. ~Deserves(h, now)
  <2>1. h.ban_until \in Nat
    BY <1>1 DEF HitState
  <2>2. QED
    BY <1>1, <2>1 DEF Deserves
<1>3. Struck(h, now).ban_until = h.ban_until
  BY <1>1 DEF Struck, HitState
<1>4. Forced(h, now).ban_until >= h.ban_until
  BY <1>1, TimeAssumption DEF Forced, HitState
<1>5. QED
  BY <1>1, <1>2, <1>3, <1>4 DEF Offence

Kept(ip) == state'[ip] # None /\ state'[ip].ban_until >= state[ip].ban_until

LEMMA BanStep ==
  ASSUME TypeInv, [Next]_vars, NEW ip \in Ips, Banned(ip),
         ~(Unban /\ ag[Admin].ip = ip), ~Restart
  PROVE  Kept(ip)
<1>1. ASSUME state'[ip] = state[ip] PROVE Kept(ip)
  <2>1. state[ip] # None /\ state[ip].ban_until \in Nat
    BY DEF Banned, TypeInv, TypeOK, HitState
  <2>2. QED
    BY <1>1, <2>1 DEF Kept
<1>2. CASE UNCHANGED vars
  BY <1>1, <1>2 DEF vars
<1>3. CASE Advance \/ WorkerCall \/ AdminCall \/ KeeperTick
  BY <1>1, <1>3 DEF Advance, WorkerCall, AdminCall, KeeperTick, Begin
<1>4. ASSUME NEW w \in Workers, Enter(w) PROVE Kept(ip)
  <2> DEFINE i   == ag[w].ip
             now == ag[w].now
             new == IF ag[w].why = "honeypot" THEN Forced(Entry(i), now)
                                              ELSE Offence(Entry(i), now)
  <2>1. i \in Ips /\ now \in Nat /\ now <= clock /\ w \in Agents
    BY <1>4 DEF Enter, TypeInv, CallsOK, CallOK, Call, Agents
  <2>2. state' = [state EXCEPT ![i] = new]
    BY <1>4 DEF Enter
  <2>3. CASE i = ip
    <3>1. new \in HitState
      BY <2>1, EntryTyped
    <3>2. new.ban_until >= state[ip].ban_until
      <4>1. state[ip].ban_until \in Nat
        BY DEF Banned, TypeInv, TypeOK, HitState
      <4>2. QED
        BY <2>1, <2>3, <4>1, StrikeKeepsBan
    <3>3. state'[ip] = new
      BY <2>2, <2>3 DEF TypeInv, TypeOK
    <3>4. QED
      BY <3>1, <3>2, <3>3, NameAssumption DEF Kept
  <2>4. CASE i # ip
    BY <1>1, <2>2, <2>4 DEF TypeInv, TypeOK
  <2>5. QED
    BY <2>3, <2>4
<1>5. CASE Unban
  <2>1. ag[Admin].ip # ip
    BY <1>5
  <2>2. QED
    BY <1>1, <1>5, <2>1 DEF Unban, TypeInv, TypeOK
<1>6. CASE Gc
  <2>1. ag[Keeper].now \in Nat /\ ag[Keeper].now <= clock /\ clock \in Nat
    BY TimeAssumption DEF TypeInv, TypeOK, CallsOK, CallOK, Call, Agents
  <2>2. state[ip].ban_until \in Nat /\ state[ip].ban_until > clock
    BY DEF Banned, TypeInv, TypeOK, HitState
  <2>3. Keeps(state[ip], ag[Keeper].now)
    BY <2>1, <2>2 DEF Keeps
  <2>4. state'[ip] = state[ip]
    BY <1>6, <2>3 DEF Gc, Forgets
  <2>5. QED
    BY <1>1, <2>4
<1>7. ASSUME NEW a \in Agents, \/ a \in Workers /\ Probe(a)
                               \/ List \/ ListDone \/ Persist(a) \/ Flush(a)
      PROVE  Kept(ip)
  BY <1>1, <1>7 DEF Probe, List, ListDone, Persist, Flush, WalkTo
<1>8. QED
  BY <1>2, <1>3, <1>4, <1>5, <1>6, <1>7 DEF Next, AgentStep

\* A running ban is never shortened or dropped by a strike, by a honeypot hit that read the
\* clock before the ban was given, by gc or by a persist: only by unban and by a restart.
THEOREM BansHold == Spec => BanHolds
<1> DEFINE Holds ==
      \A ip \in Ips : Banned(ip) =>
        \/ state'[ip] # None /\ state'[ip].ban_until >= state[ip].ban_until
        \/ Unban /\ ag[Admin].ip = ip
        \/ Restart
<1>1. TypeInv /\ [Next]_vars => [Holds]_vars
  BY BanStep DEF Kept
<1>2. QED
  BY <1>1, Typed, PTL DEF Spec, BanHolds
-----------------------------------------------------------------------------
(* The ban file.  A worker that bans holds its shard for good, and only the *)
(* housekeeping thread ever finishes a persist: its walk waits for every    *)
(* such shard, so that the bans it can dump are those the file had already. *)

Held(ip)  == \E w \in Workers : ag[w].wr = Shard[ip]
KeeperNow == IF ag[Keeper].pc = "persist" THEN ag[Keeper].now ELSE clock
Runs(ip, now) == state[ip] # None /\ state[ip].ban_until > now
NewBansHeld ==
  bound => \A ip \in Ips :
             Runs(ip, KeeperNow)
             => Held(ip) \/ (disk[ip] # None /\ disk[ip].ban_until = state[ip].ban_until)
DumpOld ==
  ag[Keeper].pc = "persist" =>
    \A ip \in Ips :
      /\ ag[Keeper].dump[ip] # None
         => disk[ip] # None /\ ag[Keeper].dump[ip].ban_until = disk[ip].ban_until
      /\ /\ Shard[ip] <= ag[Keeper].at
         /\ ag[Keeper].dump[ip] = None
         /\ Runs(ip, ag[Keeper].now)
         => Held(ip)
FileInv == NewBansHeld /\ DumpOld

\* Only the housekeeping thread reaches the end of a persist.
LEMMA OnlyKeeperFlushes ==
  ASSUME TypeInv, NEW a \in Agents, Flush(a)
  PROVE  a = Keeper /\ bound
<1>1. CallOK(a, ag[a]) /\ ag[a].pc = "persist" /\ ag[a].at = Shards
  BY DEF TypeInv, CallsOK, Flush
<1>2. QED
  BY <1>1, ShardAssumption DEF CallOK

\* A shard that a ban holds stays held while the process lives.
LEMMA HeldStays ==
  ASSUME TypeInv, [Next]_vars, ~Restart, NEW ip \in Ips, Held(ip)
  PROVE  Held(ip)'
<1>1. PICK w \in Workers : ag[w].wr = Shard[ip]
  BY DEF Held
<1>2. /\ w \in Agents /\ w # Admin /\ w # Keeper
      /\ ag[w] \in Call /\ ag[w].pc = "persist" /\ Shard[ip] # 0
  BY <1>1, AgentAssumption, ShardAssumption DEF TypeInv, CallsOK, CallOK, Agents
<1>3. SUFFICES ag'[w].wr = ag[w].wr
  BY <1>1 DEF Held
<1>4. ASSUME NEW a \in Agents, NEW c, a # w, Set(a, c) PROVE ag'[w].wr = ag[w].wr
  BY <1>2, <1>4 DEF Set, TypeInv, TypeOK
<1>5. CASE UNCHANGED vars \/ Advance
  BY <1>5 DEF vars, Advance
<1>6. CASE WorkerCall \/ AdminCall \/ KeeperTick
  <2>1. PICK a \in Agents : ag[a].pc = "idle" /\ \E c : Set(a, c)
    BY <1>6 DEF WorkerCall, AdminCall, KeeperTick, Begin, Agents
  <2>2. a # w
    BY <1>2, <2>1
  <2>3. QED
    BY <1>4, <2>1, <2>2
<1>7. ASSUME NEW a \in Workers, Probe(a) \/ Enter(a) PROVE ag'[w].wr = ag[w].wr
  <2>1. a \in Agents /\ a # w
    BY <1>2, <1>7 DEF Probe, Enter, Agents
  <2>2. QED
    BY <1>4, <1>7, <2>1 DEF Probe, Enter
<1>8. ASSUME NEW a \in Agents, Persist(a) PROVE ag'[w].wr = ag[w].wr
  <2>1. CASE a = w
    <3> DEFINE d == [i \in Ips |-> IF Shard[i] = ag[w].at + 1 /\ state[i] # None
                                      /\ state[i].ban_until > ag[w].now
                                   THEN state[i] ELSE ag[w].dump[i]]
    <3>1. ag' = [ag EXCEPT ![w] = [ag[w] EXCEPT !.at = ag[w].at + 1, !.dump = d]]
      BY <1>8, <2>1 DEF Persist, WalkTo, Set
    <3>2. QED
      BY <1>2, <3>1 DEF TypeInv, TypeOK, Call
  <2>2. CASE a # w
    BY <1>4, <1>8, <2>2 DEF Persist, WalkTo
  <2>3. QED
    BY <2>1, <2>2
<1>9. ASSUME NEW a \in Agents, Flush(a) PROVE ag'[w].wr = ag[w].wr
  BY <1>2, <1>4, <1>9, OnlyKeeperFlushes DEF Flush
<1>10. CASE List \/ ListDone \/ Unban \/ Gc
  BY <1>2, <1>4, <1>10 DEF List, WalkTo, ListDone, Unban, Gc, Agents
<1>11. QED
  BY <1>5, <1>6, <1>7, <1>8, <1>9, <1>10 DEF Next, AgentStep

\* Where a ban that runs after a step comes from: it ran before, or its shard is held.
BansFrom ==
  \A ip \in Ips, now \in Nat :
    Runs(ip, now)' => \/ Runs(ip, now) /\ state'[ip].ban_until = state[ip].ban_until
                      \/ Held(ip)'

\* Steps of everyone but the housekeeping thread.
LEMMA FileFrame ==
  ASSUME TypeInv, TypeInv', [Next]_vars, ~Restart, FileInv, BansFrom,
         UNCHANGED <<clock, path, disk>>, ag'[Keeper] = ag[Keeper]
  PROVE  FileInv'
<1>1. Keeper \in Agents /\ KeeperNow' = KeeperNow /\ KeeperNow \in Nat /\ ag[Keeper].now \in Nat
  BY TimeAssumption DEF KeeperNow, TypeInv, TypeOK, Call, Agents
<1>2. NewBansHeld'
  BY <1>1, HeldStays DEF FileInv, NewBansHeld, BansFrom, bound
<1>3. DumpOld'
  BY <1>1, HeldStays DEF FileInv, DumpOld, BansFrom
<1>4. QED
  BY <1>2, <1>3 DEF FileInv

\* A strike without a ban changes no ban; one with a ban takes the shard with it.
LEMMA EnterBans ==
  ASSUME TypeInv, bound, NEW w \in Workers, Enter(w)
  PROVE  BansFrom
<1>1. ag[w].ip \in Ips /\ ag[w].now \in Nat /\ w \in Agents
  BY DEF Enter, TypeInv, CallsOK, CallOK, Call, Agents
<1>2. PICK i \in Ips : i = ag[w].ip
  BY <1>1
<1> DEFINE now  == ag[w].now
           h    == Entry(i)
           bans == ag[w].why = "honeypot" \/ Deserves(h, now)
<1>3. h \in HitState
  BY <1>1, EntryTyped
<1>4. CASE bans
  <2>1. Set(w, Persisting(Shard[i]))
    BY <1>2, <1>4 DEF Enter, AfterEntry
  <2>2. ag'[w].wr = Shard[i]
    BY <1>1, <2>1 DEF Set, Persisting, Calling, TypeInv, TypeOK
  <2>3. Held(i)'
    BY <2>2 DEF Held
  <2>4. \A ip \in Ips \ {i} : state'[ip] = state[ip]
    BY <1>2 DEF Enter, TypeInv, TypeOK
  <2>5. QED
    BY <2>3, <2>4 DEF BansFrom, Runs
<1>5. CASE ~bans
  <2>1. state' = [state EXCEPT ![i] = Struck(h, now)]
    BY <1>2, <1>5 DEF Enter, Offence
  <2>2. Struck(h, now).ban_until = h.ban_until
    BY <1>3 DEF Struck, HitState
  <2>3. h.ban_until = 0 \/ (state[i] # None /\ h = state[i])
    BY DEF Entry, Fresh
  <2>4. QED
    BY <1>2, <2>1, <2>2, <2>3 DEF BansFrom, Runs, TypeInv, TypeOK
<1>6. QED
  BY <1>4, <1>5

LEMMA FileWalk ==
  ASSUME TypeInv, FileInv, Persist(Keeper)
  PROVE  FileInv'
<1> DEFINE s == ag[Keeper].at + 1
           d == [ip \in Ips |-> IF Shard[ip] = s /\ state[ip] # None
                                   /\ state[ip].ban_until > ag[Keeper].now
                                THEN state[ip] ELSE ag[Keeper].dump[ip]]
           c == [ag[Keeper] EXCEPT !.at = s, !.dump = d]
<1>1. /\ ag[Keeper] \in Call /\ ag[Keeper].at \in Nat /\ Keeper \in Agents
      /\ ag[Keeper].pc = "persist" /\ bound
  BY ShardAssumption DEF TypeInv, TypeOK, CallsOK, CallOK, Call, Agents, Persist
<1>2. ag'[Keeper] = c /\ Readable(s) /\ \A b \in Agents \ {Keeper} : ag'[b] = ag[b]
  BY <1>1 DEF Persist, WalkTo, Set, TypeInv, TypeOK
<1>3. c.at = s /\ c.dump = d /\ c.pc = "persist" /\ c.now = ag[Keeper].now
  BY <1>1 DEF Call
<1>4. UNCHANGED <<clock, state, path, disk>>
  BY DEF Persist, WalkTo
<1>5. \A ip \in Ips : Held(ip)' <=> Held(ip)
  <2>1. \A w \in Workers : ag'[w] = ag[w]
    BY <1>2, AgentAssumption DEF Agents
  <2>2. QED
    BY <2>1 DEF Held
<1>6. ASSUME NEW ip \in Ips, Shard[ip] = s PROVE ~Held(ip)
  BY <1>2, <1>6 DEF Readable, HoldsWrite, Held, Agents
<1> HIDE DEF c
<1>7. NewBansHeld'
  BY <1>1, <1>2, <1>3, <1>4, <1>5 DEF FileInv, NewBansHeld, KeeperNow, Runs, bound
<1>8. ASSUME NEW ip \in Ips
      PROVE  /\ d[ip] # None => disk[ip] # None /\ d[ip].ban_until = disk[ip].ban_until
             /\ Shard[ip] <= s /\ d[ip] = None /\ Runs(ip, ag[Keeper].now) => Held(ip)
  <2>1. CASE Shard[ip] = s
    <3>1. Runs(ip, ag[Keeper].now) => disk[ip] # None /\ disk[ip].ban_until = state[ip].ban_until
      BY <1>1, <1>6, <2>1 DEF FileInv, NewBansHeld, KeeperNow
    <3>2. Runs(ip, ag[Keeper].now) => d[ip] = state[ip]
      BY <2>1 DEF Runs
    <3>3. ~Runs(ip, ag[Keeper].now) => d[ip] = ag[Keeper].dump[ip]
      BY DEF Runs
    <3>4. QED
      BY <1>1, <3>1, <3>2, <3>3 DEF FileInv, DumpOld, Runs
  <2>2. CASE Shard[ip] # s
    <3>1. d[ip] = ag[Keeper].dump[ip]
      BY <2>2
    <3>2. Shard[ip] <= s => Shard[ip] <= ag[Keeper].at
      BY <1>1, <2>2, ShardAssumption
    <3>3. QED
      BY <1>1, <3>1, <3>2 DEF FileInv, DumpOld
  <2>3. QED
    BY <2>1, <2>2
<1>9. DumpOld'
  BY <1>2, <1>3, <1>4, <1>5, <1>8 DEF DumpOld, Runs
<1>10. QED
  BY <1>7, <1>9 DEF FileInv

\* What a step does to the file: it may drop bans, but those that still run only where
\* their shards are held.
DropsOnly ==
  \A ip \in Ips :
    /\ disk'[ip] # None => disk[ip] # None /\ disk'[ip].ban_until = disk[ip].ban_until
    /\ disk[ip] # None /\ disk'[ip] = None /\ Runs(ip, clock) => Held(ip)

LEMMA FileFlush ==
  ASSUME TypeInv, FileInv, Flush(Keeper)
  PROVE  FileInv' /\ DropsOnly
<1>1. /\ Keeper \in Agents /\ CallOK(Keeper, ag[Keeper]) /\ clock \in Nat
      /\ ag[Keeper].now \in Nat /\ ag[Keeper].now <= clock
      /\ ag[Keeper].pc = "persist" /\ ag[Keeper].at = Shards /\ disk' \in {disk, ag[Keeper].dump}
  BY TimeAssumption DEF TypeInv, TypeOK, CallsOK, CallOK, Call, Agents, Flush
<1>2. ag'[Keeper] = Idle /\ \A b \in Agents \ {Keeper} : ag'[b] = ag[b]
  BY <1>1 DEF Flush, Set, TypeInv, TypeOK
<1>3. UNCHANGED <<clock, state, path>>
  BY DEF Flush
<1>4. \A ip \in Ips : Held(ip)' <=> Held(ip)
  <2>1. \A w \in Workers : ag'[w] = ag[w]
    BY <1>2, AgentAssumption DEF Agents
  <2>2. QED
    BY <2>1 DEF Held
<1>5. ag'[Keeper].pc = "idle"
  BY <1>2 DEF Idle, Calling
<1>6. ASSUME NEW ip \in Ips, Runs(ip, clock), disk[ip] # None, disk'[ip] = None PROVE Held(ip)
  <2>0. ag[Keeper].dump[ip] = None
    BY <1>1, <1>6
  <2>1. Shard[ip] <= ag[Keeper].at
    BY <1>1, ShardAssumption
  <2>2. Runs(ip, ag[Keeper].now)
    <3>1. state[ip].ban_until \in Nat
      BY <1>6 DEF Runs, TypeInv, TypeOK, HitState
    <3>2. QED
      BY <1>1, <1>6, <3>1 DEF Runs
  <2>3. QED
    BY <1>1, <1>6, <2>0, <2>1, <2>2 DEF FileInv, DumpOld
<1>7. ASSUME NEW ip \in Ips, disk'[ip] # None
      PROVE  disk[ip] # None /\ disk'[ip].ban_until = disk[ip].ban_until
  BY <1>1, <1>7 DEF FileInv, DumpOld
<1>8. ASSUME bound, NEW ip \in Ips, Runs(ip, clock)
      PROVE  Held(ip) \/ (disk'[ip] # None /\ disk'[ip].ban_until = state[ip].ban_until)
  <2>1. Runs(ip, KeeperNow)
    <3>1. state[ip].ban_until \in Nat
      BY <1>8 DEF Runs, TypeInv, TypeOK, HitState
    <3>2. QED
      BY <1>1, <1>8, <3>1 DEF Runs, KeeperNow
  <2>2. QED
    BY <1>1, <1>6, <1>7, <1>8, <2>1 DEF FileInv, NewBansHeld
<1>9. NewBansHeld'
  BY <1>1, <1>3, <1>4, <1>5, <1>8 DEF NewBansHeld, KeeperNow, Runs, bound
<1>10. DropsOnly
  BY <1>1, <1>6, <1>7 DEF DropsOnly
<1>11. QED
  BY <1>5, <1>9, <1>10 DEF FileInv, DumpOld

\* gc forgets no running ban, and ends in a persist that reads the clock once more.
LEMMA FileGc ==
  ASSUME TypeInv, FileInv, Gc, [Next]_vars, ~Restart
  PROVE  FileInv'
<1> DEFINE s == ag[Keeper].at + 1
           c == [ag[Keeper] EXCEPT !.at = s]
<1>1. /\ Keeper \in Agents /\ ag[Keeper] \in Call /\ ag[Keeper].pc = "gc"
      /\ UNCHANGED <<clock, path, disk>>
  BY DEF TypeInv, TypeOK, Agents, Gc
<1>2. ag'[Keeper] = c \/ ag'[Keeper] = Persisting(0) \/ ag'[Keeper] = Idle
  BY <1>1 DEF Gc, Set, TypeInv, TypeOK
<1>3. c.pc = "gc"
  BY <1>1 DEF Call
<1> HIDE DEF c
<1>4. \A ip \in Ips : Runs(ip, clock)' => Runs(ip, clock) /\ state'[ip] = state[ip]
  BY <1>1 DEF Gc, Runs
<1>5. KeeperNow = clock /\ KeeperNow' = clock
  BY <1>1, <1>2, <1>3 DEF KeeperNow, Persisting, Calling, Idle
<1>6. NewBansHeld'
  <2> SUFFICES ASSUME bound, NEW ip \in Ips, Runs(ip, clock)', state'[ip] = state[ip]
               PROVE  Held(ip)' \/ (disk[ip] # None /\ disk[ip].ban_until = state[ip].ban_until)
    BY <1>1, <1>4, <1>5 DEF NewBansHeld, bound, Runs
  <2>1. Held(ip) \/ (disk[ip] # None /\ disk[ip].ban_until = state[ip].ban_until)
    BY <1>4, <1>5 DEF FileInv, NewBansHeld
  <2>2. QED
    BY <2>1, HeldStays
<1>7. DumpOld'
  BY <1>2, <1>3, ShardAssumption DEF DumpOld, Persisting, Calling, Idle
<1>8. QED
  BY <1>6, <1>7 DEF FileInv

\* A restart brings back what the file says, as long as it still runs.
LEMMA ReloadBans ==
  ASSUME disk \in [Ips -> HitState \cup {None}], clock \in Seconds, NEW ip \in Ips
  PROVE  /\ Loaded(disk, clock)[ip] # None <=> disk[ip] # None /\ disk[ip].ban_until > clock
         /\ Loaded(disk, clock)[ip] # None => Loaded(disk, clock)[ip].ban_until = disk[ip].ban_until
<1>1. CASE disk[ip] # None /\ disk[ip].ban_until > clock
  <2>1. disk[ip] \in HitState /\ clock \in Nat
    BY <1>1, TimeAssumption
  <2>2. Loaded(disk, clock)[ip] = [disk[ip] EXCEPT !.first_hit = clock]
    BY <1>1 DEF Loaded
  <2>3. [disk[ip] EXCEPT !.first_hit = clock] \in HitState
    BY <2>1 DEF HitState
  <2>4. [disk[ip] EXCEPT !.first_hit = clock].ban_until = disk[ip].ban_until
    BY <2>1 DEF HitState
  <2>5. QED
    BY <1>1, <2>2, <2>3, <2>4, NameAssumption
<1>2. CASE ~(disk[ip] # None /\ disk[ip].ban_until > clock)
  BY <1>2 DEF Loaded
<1>3. QED
  BY <1>1, <1>2

LEMMA FileStep ==
  ASSUME TypeInv, TypeInv', FileInv, [Next]_vars
  PROVE  FileInv' /\ DropsOnly
<1>1. ASSUME ~bound PROVE FileInv' /\ DropsOnly
  <2>1. UNCHANGED path
    BY DEF Next, vars, Advance, Restart, WorkerCall, AdminCall, KeeperTick, Begin, AgentStep,
           Probe, Enter, List, ListDone, Unban, Gc, Persist, Flush, WalkTo
  <2>2. FileInv'
    BY <1>1, <2>1 DEF FileInv, NewBansHeld, DumpOld, bound, TypeInv, CallsOK, CallOK, Agents
  <2>3. \A a \in Agents : ~Flush(a)
    BY <1>1, OnlyKeeperFlushes
  <2>4. UNCHANGED disk
    BY <2>3 DEF Next, vars, Advance, Restart, WorkerCall, AdminCall, KeeperTick, Begin,
                AgentStep, Probe, Enter, List, ListDone, Unban, Gc, Persist, WalkTo
  <2>5. QED
    BY <2>2, <2>4 DEF DropsOnly
<1> SUFFICES ASSUME bound PROVE FileInv' /\ DropsOnly
  BY <1>1
<1>2. CASE Restart
  <2>1. ag'[Keeper] = Idle /\ UNCHANGED <<clock, path, disk>>
    BY <1>2 DEF Restart, Agents
  <2>2. \A ip \in Ips : state'[ip] # None => disk[ip] # None /\ state'[ip].ban_until = disk[ip].ban_until
    <3>1. disk \in [Ips -> HitState \cup {None}] /\ clock \in Seconds
      BY DEF TypeInv, TypeOK
    <3>2. state' = Loaded(disk, clock)
      BY <1>2 DEF Restart, Reloaded
    <3>3. QED
      BY <3>1, <3>2, ReloadBans
  <2>3. QED
    BY <2>1, <2>2 DEF FileInv, NewBansHeld, DumpOld, Runs, Idle, Calling, DropsOnly
<1> SUFFICES ASSUME ~Restart PROVE FileInv' /\ DropsOnly
  BY <1>2
<1>3. ASSUME BansFrom, UNCHANGED <<clock, path, disk>>, ag'[Keeper] = ag[Keeper]
      PROVE  FileInv' /\ DropsOnly
  BY <1>3, FileFrame DEF DropsOnly
<1>4. ASSUME UNCHANGED <<clock, state, path, disk>>, ag'[Keeper] = ag[Keeper]
      PROVE  FileInv' /\ DropsOnly
  <2>1. BansFrom
    BY <1>4 DEF BansFrom, Runs
  <2>2. QED
    BY <1>3, <1>4, <2>1
<1>5. CASE UNCHANGED vars
  BY <1>4, <1>5 DEF vars
<1>6. CASE Advance
  <2>1. /\ clock \in Nat /\ clock' \in Nat /\ clock < clock'
        /\ UNCHANGED <<state, path, disk, ag>>
    BY <1>6, TimeAssumption DEF Advance, TypeInv, TypeOK
  <2>2. ASSUME NEW ip \in Ips, Runs(ip, KeeperNow)' PROVE Runs(ip, KeeperNow)
    <3>1. state[ip] \in HitState
      BY <2>1, <2>2 DEF Runs, TypeInv, TypeOK
    <3>2. QED
      BY <2>1, <2>2, <3>1 DEF Runs, KeeperNow, HitState
  <2>3. QED
    <3>1. NewBansHeld'
      BY <2>1, <2>2 DEF FileInv, NewBansHeld, Held, bound
    <3>2. DumpOld'
      BY <2>1 DEF FileInv, DumpOld, Held, Runs
    <3>3. QED
      BY <2>1, <3>1, <3>2 DEF FileInv, DropsOnly
<1>7. ASSUME NEW a \in Agents \ {Keeper}, NEW c, Set(a, c) PROVE ag'[Keeper] = ag[Keeper]
  BY <1>7 DEF Set, TypeInv, TypeOK, Agents
<1>8. CASE WorkerCall \/ AdminCall
  <2>1. PICK a \in Agents \ {Keeper} : \E c : Set(a, c)
    BY <1>8, AgentAssumption DEF WorkerCall, AdminCall, Begin, Agents
  <2>2. QED
    BY <1>4, <1>7, <1>8, <2>1 DEF WorkerCall, AdminCall, Begin
<1>9. CASE KeeperTick
  <2>1. /\ Keeper \in Agents /\ ag[Keeper].pc = "idle" /\ UNCHANGED <<clock, state, path, disk>>
        /\ Set(Keeper, Calling("gc", None, "offence", 0, clock))
    BY <1>9 DEF KeeperTick, Begin, Agents
  <2>2. ag'[Keeper].pc = "gc" /\ \A b \in Agents \ {Keeper} : ag'[b] = ag[b]
    BY <2>1 DEF Set, Calling, TypeInv, TypeOK
  <2>3. \A w \in Workers : ag'[w] = ag[w]
    BY <2>2, AgentAssumption DEF Agents
  <2>4. QED
    BY <2>1, <2>2, <2>3
    DEF FileInv, NewBansHeld, DumpOld, KeeperNow, Runs, Held, bound, DropsOnly
<1>10. ASSUME NEW w \in Workers, Probe(w) PROVE FileInv' /\ DropsOnly
  <2>1. w \in Agents \ {Keeper}
    BY AgentAssumption DEF Agents
  <2>2. QED
    BY <1>4, <1>7, <1>10, <2>1 DEF Probe
<1>11. ASSUME NEW w \in Workers, Enter(w) PROVE FileInv' /\ DropsOnly
  <2>1. w \in Agents \ {Keeper}
    BY AgentAssumption DEF Agents
  <2>2. QED
    BY <1>3, <1>7, <1>11, <2>1, EnterBans DEF Enter
<1>12. ASSUME NEW a \in Agents, Persist(a) PROVE FileInv' /\ DropsOnly
  <2>1. CASE a = Keeper
    <3>1. Persist(Keeper) /\ UNCHANGED disk
      BY <1>12, <2>1 DEF Persist, WalkTo
    <3>2. QED
      BY <3>1, FileWalk DEF DropsOnly
  <2>2. CASE a # Keeper
    BY <1>4, <1>7, <1>12, <2>2 DEF Persist, WalkTo
  <2>3. QED
    BY <2>1, <2>2
<1>13. ASSUME NEW a \in Agents, Flush(a) PROVE FileInv' /\ DropsOnly
  <2>1. Flush(Keeper)
    BY <1>13, OnlyKeeperFlushes
  <2>2. QED
    BY <2>1, FileFlush DEF DropsOnly
<1>14. Admin \in Agents \ {Keeper}
  BY AgentAssumption DEF Agents
<1>15. CASE List \/ ListDone
  BY <1>4, <1>7, <1>14, <1>15 DEF List, WalkTo, ListDone
<1>16. CASE Unban
  <2>1. BansFrom
    <3> SUFFICES ASSUME NEW ip \in Ips, NEW now \in Nat, Runs(ip, now)'
                 PROVE  Runs(ip, now) /\ state'[ip].ban_until = state[ip].ban_until
      BY DEF BansFrom
    <3>1. CASE state'[ip] = state[ip]
      BY <3>1 DEF Runs
    <3>2. CASE state'[ip] # state[ip]
      <4>1. ip = ag[Admin].ip /\ state[ip] # None
            /\ state'[ip] = [state[ip] EXCEPT !.ban_until = 0, !.hits = 0]
        BY <1>16, <3>2 DEF Unban, TypeInv, TypeOK
      <4>2. state[ip] \in HitState
        BY <4>1 DEF TypeInv, TypeOK
      <4>3. state'[ip].ban_until = 0
        BY <4>1, <4>2 DEF HitState
      <4>4. QED
        BY <4>3 DEF Runs
    <3>3. QED
      BY <3>1, <3>2
  <2>2. QED
    BY <1>3, <1>7, <1>14, <1>16, <2>1 DEF Unban
<1>17. CASE Gc
  BY <1>17, FileGc DEF Gc, DropsOnly
<1>18. QED
  BY <1>5, <1>6, <1>8, <1>9, <1>10, <1>11, <1>12, <1>13, <1>15, <1>16, <1>17
  DEF Next, AgentStep

LEMMA FileKept == Spec => []FileInv
<1>1. Init => FileInv
  <2> SUFFICES ASSUME Init PROVE FileInv
    OBVIOUS
  <2>1. ag[Keeper] = Idle
    BY DEF Init, Agents
  <2>2. bound => \A ip \in Ips : state[ip] # None
                   => disk[ip] # None /\ state[ip].ban_until = disk[ip].ban_until
    <3>1. disk \in [Ips -> HitState \cup {None}] /\ clock \in Seconds
      BY NameAssumption DEF Init
    <3>2. bound => state = Loaded(disk, clock)
      BY DEF Init, Reloaded
    <3>3. QED
      BY <3>1, <3>2, ReloadBans
  <2>3. QED
    BY <2>1, <2>2 DEF FileInv, NewBansHeld, DumpOld, Runs, Idle, Calling
<1>2. TypeInv /\ TypeInv' /\ FileInv /\ [Next]_vars => FileInv'
  BY FileStep
<1>3. QED
  BY <1>1, <1>2, Typed, PTL DEF Spec

\* With the entry guard alive in persist, bans.json never gains an address, for any number
\* of threads and shards: the bans of a run survive no restart.
THEOREM FileNeverGains == Spec => FileGainsNoBan
<1>1. TypeInv /\ TypeInv' /\ FileInv /\ [Next]_vars
      => [\A ip \in Ips : disk'[ip] # None => disk[ip] # None]_vars
  BY FileStep DEF DropsOnly
<1>2. QED
  BY <1>1, Typed, FileKept, PTL DEF Spec, FileGainsNoBan
-----------------------------------------------------------------------------
(* The ban book: every step of the table is one of the book's, or none.     *)

LEMMA BookTyped ==
  ASSUME TypeInv
  PROVE  /\ until \in [Ips -> Nat] /\ saved \in [Ips -> Nat] /\ clock \in Nat
         /\ \A ip \in Ips : state[ip] # None => state[ip] \in HitState
         /\ \A ip \in Ips : ip \in stuck <=> Held(ip)
<1>1. \A ip \in Ips : /\ state[ip] # None => state[ip].ban_until \in Nat
                      /\ disk[ip] # None => disk[ip].ban_until \in Nat
                      /\ state[ip] # None => state[ip] \in HitState
  BY DEF TypeInv, TypeOK, HitState
<1>2. \A ip \in Ips : ip \in stuck <=> Held(ip)
  BY DEF stuck, HoldsWrite, Held
<1>3. clock \in Nat
  BY TimeAssumption DEF TypeInv, TypeOK
<1>4. QED
  BY <1>1, <1>2, <1>3 DEF until, saved

\* Only a step that takes or gives up a lock of a worker changes what is stuck.
LEMMA StuckSame ==
  ASSUME TypeInv, NEW a \in Agents, NEW c, Set(a, c), a \in Workers => c.wr = ag[a].wr
  PROVE  stuck' = stuck
<1>1. \A w \in Workers : ag'[w].wr = ag[w].wr
  BY DEF Set, TypeInv, TypeOK, Agents
<1>2. QED
  BY <1>1 DEF stuck, HoldsWrite

LEMMA BookSame ==
  ASSUME UNCHANGED <<clock, state, path, disk, stuck>>
  PROVE  UNCHANGED Book!vars
  BY DEF Book!vars, until, saved, bound

\* The steps that change no entry and no file.
LEMMA BookQuiet ==
  ASSUME TypeInv,
         \/ WorkerCall \/ AdminCall \/ KeeperTick \/ List \/ ListDone
         \/ \E w \in Workers : Probe(w)
         \/ \E a \in Agents : Persist(a)
  PROVE  UNCHANGED Book!vars
<1>1. ASSUME NEW a \in Agents, NEW c, Set(a, c), a \in Workers => c.wr = ag[a].wr,
             UNCHANGED <<clock, state, path, disk>>
      PROVE  UNCHANGED Book!vars
  BY <1>1, StuckSame, BookSame
<1>2. \A a \in Agents : ag[a] \in Call /\ (ag[a].pc # "persist" => ag[a].wr = 0)
  BY DEF TypeInv, TypeOK, CallsOK, CallOK
<1>3. Admin \in Agents /\ Keeper \in Agents /\ Admin \notin Workers /\ Keeper \notin Workers
      /\ Workers \subseteq Agents
  BY AgentAssumption DEF Agents
<1>4. ASSUME NEW a \in Agents, NEW pc, NEW ip, NEW why, Begin(a, pc, ip, why)
      PROVE  UNCHANGED Book!vars
  <2>1. Calling(pc, ip, why, 0, clock).wr = 0 /\ ag[a].wr = 0
    BY <1>2, <1>4 DEF Begin, Calling
  <2>2. QED
    BY <1>1, <1>4, <2>1 DEF Begin
<1>5. CASE WorkerCall \/ AdminCall \/ KeeperTick
  BY <1>3, <1>4, <1>5 DEF WorkerCall, AdminCall, KeeperTick
<1>6. ASSUME NEW a \in Agents, NEW s, WalkTo(a, s) PROVE UNCHANGED Book!vars
  <2> DEFINE c == [ag[a] EXCEPT !.at = s,
                     !.dump = [ip \in Ips |-> IF Shard[ip] = s /\ state[ip] # None
                                                /\ state[ip].ban_until > ag[a].now
                                              THEN state[ip] ELSE ag[a].dump[ip]]]
  <2>1. c.wr = ag[a].wr
    BY <1>2 DEF Call
  <2>2. Set(a, c)
    BY <1>6 DEF WalkTo
  <2> HIDE DEF c
  <2>3. QED
    BY <1>1, <1>6, <2>1, <2>2 DEF WalkTo
<1>7. CASE List \/ \E a \in Agents : Persist(a)
  BY <1>3, <1>6, <1>7 DEF List, Persist
<1>8. CASE ListDone
  BY <1>1, <1>3, <1>8 DEF ListDone
<1>9. ASSUME NEW w \in Workers, Probe(w) PROVE UNCHANGED Book!vars
  <2>1. Idle.wr = 0 /\ [ag[w] EXCEPT !.pc = "entry"].wr = 0 /\ ag[w].wr = 0
    BY <1>2, <1>3, <1>9 DEF Probe, Idle, Calling, Call
  <2>2. QED
    BY <1>1, <1>3, <1>9, <2>1 DEF Probe
<1>10. QED
  BY <1>5, <1>7, <1>8, <1>9

\* A restart: what the file says, as long as it runs, and no lock.
LEMMA BookReload ==
  ASSUME disk \in [Ips -> HitState \cup {None}], clock \in Seconds,
         NEW S, S = Reloaded(disk, clock), NEW ip \in Ips
  PROVE  (IF S[ip] # None THEN S[ip].ban_until ELSE 0) = Book!Reloaded[ip]
<1>1. clock \in Nat
  BY TimeAssumption
<1>2. Book!Reloaded[ip] = IF saved[ip] > clock THEN saved[ip] ELSE 0
  BY DEF Book!Reloaded
<1>3. saved[ip] = IF bound /\ disk[ip] # None THEN disk[ip].ban_until ELSE 0
  BY DEF saved
<1>4. CASE bound
  BY <1>1, <1>2, <1>3, <1>4, ReloadBans DEF Reloaded
<1>5. CASE ~bound
  BY <1>1, <1>2, <1>3, <1>5 DEF Reloaded
<1>6. QED
  BY <1>4, <1>5

LEMMA BookRestart ==
  ASSUME TypeInv, Restart
  PROVE  Book!Restart
<1>1. until' = Book!Reloaded
  <2>1. disk \in [Ips -> HitState \cup {None}] /\ clock \in Seconds
    BY DEF TypeInv, TypeOK
  <2>2. PICK S : S = Reloaded(disk, clock)
    OBVIOUS
  <2>3. state' = S
    BY <2>2 DEF Restart
  <2>4. \A ip \in Ips : (IF S[ip] # None THEN S[ip].ban_until ELSE 0) = Book!Reloaded[ip]
    BY <2>1, <2>2, BookReload
  <2>5. until' = [ip \in Ips |-> IF S[ip] # None THEN S[ip].ban_until ELSE 0]
    BY <2>3 DEF until
  <2>6. QED
    BY <2>4, <2>5 DEF Book!Reloaded
<1>2. stuck' = {}
  <2>1. \A w \in Workers : ag'[w].wr = 0
    BY DEF Restart, Idle, Calling, Agents
  <2>2. QED
    BY <2>1, ShardAssumption DEF stuck, HoldsWrite
<1>3. QED
  BY <1>1, <1>2 DEF Restart, Book!Restart, saved, bound

\* A strike without a ban is no step of the book; one with a ban, and a honeypot's, gives it.
LEMMA BookEnter ==
  ASSUME TypeInv, NEW w \in Workers, Enter(w)
  PROVE  UNCHANGED Book!vars \/ \E ip \in Ips : Book!Give(ip)
<1>1. /\ w \in Agents /\ ag[w].ip \in Ips /\ ag[w].now \in Nat /\ ag[w].now <= clock
      /\ ag[w] \in Call /\ ag[w].wr = 0
  BY DEF Enter, TypeInv, TypeOK, CallsOK, CallOK, Call, Agents
<1>2. PICK i \in Ips : i = ag[w].ip
  BY <1>1
<1> DEFINE now  == ag[w].now
           h    == Entry(i)
           bans == ag[w].why = "honeypot" \/ Deserves(h, now)
           new  == IF ag[w].why = "honeypot" THEN Forced(h, now) ELSE Offence(h, now)
<1>3. h \in HitState /\ new \in HitState
  BY <1>1, EntryTyped
<1>4. h.ban_until = until[i] /\ until[i] \in Nat
  BY NameAssumption, BookTyped DEF Entry, until, Fresh
<1>5. state' = [state EXCEPT ![i] = new]
  BY <1>2 DEF Enter
<1>6. until' = [until EXCEPT ![i] = new.ban_until]
  <2>1. \A ip \in Ips : state'[ip] = IF ip = i THEN new ELSE state[ip]
    BY <1>5 DEF TypeInv, TypeOK
  <2>2. new # None
    BY <1>3, NameAssumption
  <2> HIDE DEF new
  <2>3. QED
    BY <2>1, <2>2 DEF until
<1>7. UNCHANGED <<clock, path, disk, saved, bound>>
  BY DEF Enter, saved, bound
<1>8. i \notin stuck
  BY <1>2, BookTyped DEF Enter, Writable, Readable, HoldsWrite, Held, Agents
<1>9. new.ban_until \in {until[i]} \cup (until[i] .. clock + Duration)
  <2>1. now + Duration \in Nat /\ now + Duration <= clock + Duration /\ clock + Duration \in Nat
    BY <1>1, TimeAssumption, BookTyped
  <2>2. Forced(h, now).ban_until = IF until[i] < now + Duration THEN now + Duration ELSE until[i]
    BY <1>3, <1>4 DEF Forced, HitState
  <2>3. Struck(h, now).ban_until = until[i] /\ Struck(h, now) \in HitState
    BY <1>1, <1>3, <1>4, EntryTyped DEF Struck, HitState
  <2>4. Deserves(h, now) => Offence(h, now).ban_until = now + Duration /\ until[i] <= now
    BY <1>4, <2>3 DEF Offence, Deserves, HitState
  <2>5. ~Deserves(h, now) => Offence(h, now).ban_until = until[i]
    BY <2>3 DEF Offence
  <2>6. until[i] <= now => until[i] <= now + Duration
    BY <1>1, <1>4, TimeAssumption
  <2> HIDE DEF now
  <2>7. QED
    BY <1>4, <2>1, <2>2, <2>4, <2>5, <2>6
<1>10. ASSUME Set(w, AfterEntry(w, bans)), ~(bans /\ bound) PROVE stuck' = stuck
  <2>1. AfterEntry(w, bans).wr = 0
    BY <1>10 DEF AfterEntry, Idle, Calling
  <2>2. QED
    BY <1>1, <1>10, <2>1, StuckSame
<1>11. Set(w, AfterEntry(w, bans))
  BY <1>2 DEF Enter
<1>12. CASE bans /\ bound
  <2>1. Set(w, Persisting(Shard[i]))
    BY <1>2, <1>11, <1>12 DEF AfterEntry
  <2>2. ag'[w].wr = Shard[i] /\ \A v \in Workers \ {w} : ag'[v].wr = ag[v].wr
    BY <1>1, <2>1 DEF Set, Persisting, Calling, TypeInv, TypeOK, Agents
  <2>3. ag[w].wr # Shard[i] /\ \A ip \in Ips : ag[w].wr # Shard[ip]
    BY <1>1, ShardAssumption
  <2>4. stuck' = stuck \cup { ip \in Ips : Shard[ip] = Shard[i] }
    BY <2>2, <2>3 DEF stuck, HoldsWrite
  <2>5. bound /\ \E D \in SUBSET Ips : i \in D /\ stuck' = stuck \cup D
    BY <1>12, <2>4
  <2> HIDE DEF new
  <2>6. Book!Give(i)
    BY <1>6, <1>7, <1>8, <1>9, <2>5 DEF Book!Give
  <2>7. QED
    BY <2>6
<1>13. CASE bans /\ ~bound
  <2>1. stuck' = stuck
    BY <1>10, <1>11, <1>13
  <2> HIDE DEF new
  <2>2. Book!Give(i)
    BY <1>6, <1>7, <1>8, <1>9, <1>13, <2>1 DEF Book!Give
  <2>3. QED
    BY <2>2
<1>14. CASE ~bans
  <2>1. stuck' = stuck
    BY <1>10, <1>11, <1>14
  <2>2. new.ban_until = until[i]
    BY <1>3, <1>4, <1>14 DEF Offence, Struck, HitState
  <2> HIDE DEF new
  <2>3. until' = until
    BY <1>6, <2>2, BookTyped
  <2>4. QED
    BY <1>7, <2>1, <2>3 DEF Book!vars
<1>15. QED
  BY <1>12, <1>13, <1>14

LEMMA BookUnban ==
  ASSUME TypeInv, Unban
  PROVE  \E ip \in Ips : Book!Lift(ip)
<1>1. /\ Admin \in Agents /\ Admin \notin Workers /\ ag[Admin].ip \in Ips
      /\ Set(Admin, Idle) /\ UNCHANGED <<clock, path, disk, saved, bound>>
  BY AgentAssumption DEF Unban, TypeInv, CallsOK, CallOK, Agents, saved, bound
<1>2. PICK i \in Ips : i = ag[Admin].ip
  BY <1>1
<1>3. stuck' = stuck
  BY <1>1, StuckSame
<1>4. i \notin stuck
  BY <1>2, BookTyped DEF Unban, Readable, HoldsWrite, Held, Agents
<1>5. until' = [until EXCEPT ![i] = 0]
  <2>1. \A ip \in Ips \ {i} : state'[ip] = state[ip]
    BY <1>2 DEF Unban, TypeInv, TypeOK
  <2>2. state'[i] = IF state[i] = None THEN None ELSE [state[i] EXCEPT !.ban_until = 0, !.hits = 0]
    BY <1>2 DEF Unban, TypeInv, TypeOK
  <2>3. state[i] # None => [state[i] EXCEPT !.ban_until = 0, !.hits = 0].ban_until = 0
    BY BookTyped DEF HitState
  <2>4. \A ip \in Ips : (IF state'[ip] # None THEN state'[ip].ban_until ELSE 0)
                         = IF ip = i THEN 0 ELSE until[ip]
    BY <2>1, <2>2, <2>3 DEF until
  <2>5. QED
    BY <2>4, BookTyped DEF until
<1>6. QED
  BY <1>1, <1>3, <1>4, <1>5 DEF Book!Lift

LEMMA BookGc ==
  ASSUME TypeInv, Gc
  PROVE  Book!Lapse
<1> DEFINE s   == ag[Keeper].at + 1
           now == ag[Keeper].now
           S   == { ip \in Ips : Forgets(ip, s, now) }
<1>1. /\ Keeper \in Agents /\ Keeper \notin Workers /\ now \in Nat /\ now <= clock
      /\ UNCHANGED <<clock, path, disk, saved, bound>>
  BY AgentAssumption DEF Gc, TypeInv, TypeOK, CallsOK, CallOK, Call, Agents, saved, bound
<1>2. stuck' = stuck
  <2>1. PICK c : Set(Keeper, c)
    BY DEF Gc
  <2>2. QED
    BY <1>1, <2>1, StuckSame
<1>3. ASSUME NEW ip \in S PROVE ip \in Ips \ stuck /\ until[ip] <= clock
  <2>1. ip \in Ips /\ Shard[ip] = s /\ state[ip] # None /\ ~(state[ip].ban_until > now)
    BY <1>3 DEF Forgets, Keeps
  <2>2. ip \notin stuck
    BY <2>1, BookTyped DEF Gc, Writable, Readable, HoldsWrite, Held, Agents
  <2>3. until[ip] = state[ip].ban_until /\ until[ip] \in Nat /\ clock \in Nat
    BY <2>1, BookTyped DEF until
  <2>4. QED
    BY <1>1, <2>1, <2>2, <2>3
<1>4. until' = Book!Cleared(until, S)
  <2>1. \A ip \in Ips : state'[ip] = IF ip \in S THEN None ELSE state[ip]
    BY DEF Gc
  <2>2. \A ip \in Ips : (IF state'[ip] # None THEN state'[ip].ban_until ELSE 0)
                         = IF ip \in S THEN 0 ELSE until[ip]
    BY <2>1 DEF until
  <2>3. QED
    BY <2>2 DEF until, Book!Cleared
<1>5. S \in SUBSET { ip \in Ips \ stuck : until[ip] <= clock }
  BY <1>3
<1> HIDE DEF S
<1>6. QED
  BY <1>1, <1>2, <1>4, <1>5 DEF Book!Lapse

\* The file keeps every ban that runs and that memory has like this: it was dumped.
LEMMA BookFlush ==
  ASSUME TypeInv, FileInv, Flush(Keeper)
  PROVE  Book!Save
<1>1. /\ Keeper \in Agents /\ Keeper \notin Workers /\ Set(Keeper, Idle)
      /\ UNCHANGED <<clock, state, path, until, bound>>
  BY AgentAssumption DEF Flush, Agents, until, bound
<1>2. stuck' = stuck
  BY <1>1, StuckSame
<1>3. DropsOnly
  BY FileFlush
<1> DEFINE S == { ip \in Ips : saved[ip] <= clock \/ saved[ip] # until[ip] \/ ip \in stuck }
           G == { ip \in Ips : bound /\ disk[ip] # None /\ disk'[ip] = None } \cap S
<1>4. ASSUME NEW ip \in Ips, bound, disk[ip] # None, disk'[ip] = None PROVE ip \in S
  <2>1. Runs(ip, clock) => ip \in stuck
    BY <1>3, <1>4, BookTyped DEF DropsOnly
  <2>2. saved[ip] \in Nat /\ until[ip] \in Nat /\ clock \in Nat
    BY BookTyped
  <2>3. ~Runs(ip, clock) => ~(until[ip] > clock)
    BY <2>2 DEF Runs, until
  <2>4. QED
    BY <2>1, <2>2, <2>3
<1>5. ASSUME NEW ip \in Ips
      PROVE  (IF bound /\ disk'[ip] # None THEN disk'[ip].ban_until ELSE 0)
             = IF ip \in G THEN 0 ELSE saved[ip]
  BY <1>3, <1>4 DEF DropsOnly, saved
<1>6. saved' = Book!Cleared(saved, G)
  BY <1>1, <1>5 DEF saved, Book!Cleared
<1>7. G \in SUBSET S
  OBVIOUS
<1> HIDE DEF G
<1>8. QED
  BY <1>1, <1>2, <1>6, <1>7 DEF Book!Save

LEMMA BookStep ==
  ASSUME TypeInv, FileInv, [Next]_vars
  PROVE  [Book!Next]_(Book!vars)
<1>1. CASE UNCHANGED vars
  BY <1>1 DEF vars, Book!vars, until, saved, stuck, HoldsWrite, bound
<1>2. CASE Advance
  <2>1. clock' > clock /\ UNCHANGED <<until, saved, stuck, bound>>
    <3>1. clock \in Nat /\ clock' \in Nat /\ clock' > clock
      BY <1>2, TimeAssumption DEF Advance, TypeInv, TypeOK
    <3>2. QED
      BY <1>2, <3>1 DEF Advance, until, saved, stuck, HoldsWrite, bound
  <2>2. QED
    BY <2>1 DEF Book!Next, Book!Tick
<1>3. CASE Restart
  BY <1>3, BookRestart DEF Book!Next
<1>4. ASSUME NEW w \in Workers, Enter(w) PROVE [Book!Next]_(Book!vars)
  BY <1>4, BookEnter DEF Book!Next
<1>5. CASE Unban
  BY <1>5, BookUnban DEF Book!Next
<1>6. CASE Gc
  BY <1>6, BookGc DEF Book!Next
<1>7. ASSUME NEW a \in Agents, Flush(a) PROVE [Book!Next]_(Book!vars)
  BY <1>7, OnlyKeeperFlushes, BookFlush DEF Book!Next
<1>8. CASE \/ WorkerCall \/ AdminCall \/ KeeperTick \/ List \/ ListDone
           \/ \E w \in Workers : Probe(w)
           \/ \E a \in Agents : Persist(a)
  BY <1>8, BookQuiet
<1>9. QED
  BY <1>1, <1>2, <1>3, <1>4, <1>5, <1>6, <1>7, <1>8 DEF Next, AgentStep

LEMMA BookInit == ASSUME Init PROVE Book!Init
<1>1. disk \in [Ips -> HitState \cup {None}] /\ clock \in Seconds /\ clock \in Nat
  BY NameAssumption, TimeAssumption DEF Init
<1>2. until = Book!Reloaded
  <2>1. \A ip \in Ips : until[ip] = Book!Reloaded[ip]
    <3>1. PICK S : S = Reloaded(disk, clock)
      OBVIOUS
    <3>2. state = S
      BY <3>1 DEF Init
    <3>3. QED
      BY <1>1, <3>1, <3>2, BookReload DEF until
  <2>2. QED
    BY <2>1 DEF until, Book!Reloaded
<1>3. saved \in [Ips -> Nat]
  <2>1. \A ip \in Ips : disk[ip] # None => disk[ip].ban_until \in Nat
    BY <1>1 DEF HitState
  <2>2. QED
    BY <2>1 DEF saved
<1>4. stuck = {}
  <2>1. \A w \in Workers : ag[w].wr = 0
    BY DEF Init, Idle, Calling, Agents
  <2>2. QED
    BY <2>1, ShardAssumption DEF stuck, HoldsWrite
<1>5. QED
  BY <1>1, <1>2, <1>3, <1>4 DEF Book!Init, bound

\* The table is a book of bans (reputation.rs:101-195) for any number of threads and shards:
\* strikes, sweeps, dumps and restarts change it only as BanBook says.  With a ban file
\* bound, the guard that is alive in persist (reputation.rs:136) makes every new ban final.
THEOREM BookIsKept == Spec => BookKept
<1>1. Init => Book!Init
  BY BookInit
<1>2. TypeInv /\ FileInv /\ [Next]_vars => [Book!Next]_(Book!vars)
  BY BookStep
<1>3. QED
  BY <1>1, <1>2, Typed, FileKept, PTL DEF Spec, BookKept, Book!Spec

\* An address whose shard a ban holds is out of everyone's reach until the process ends: it
\* stays so, and its ban is neither lifted nor made longer (reputation.rs:132-136, 154, 158-164).
THEOREM NewBansAreFinal ==
  Spec => [][\A ip \in stuck : Restart \/ (ip \in stuck' /\ until'[ip] = until[ip])]_vars
<1> DEFINE Final == \A ip \in stuck : Restart \/ (ip \in stuck' /\ until'[ip] = until[ip])
<1>1. ASSUME TypeInv, FileInv, [Next]_vars, ~Restart, NEW ip \in Ips, Held(ip)
      PROVE  ip \in stuck' /\ until'[ip] = until[ip]
  <2>1. ip \in stuck /\ until \in [Ips -> Nat]
    BY <1>1, BookTyped
  <2>2. ip \in stuck'
    BY <1>1, HeldStays DEF stuck, HoldsWrite, Held
  <2>3. [Book!Next]_(Book!vars)
    BY <1>1, BookStep
  <2>4. ASSUME NEW i \in Ips, Book!Give(i) \/ Book!Lift(i) PROVE until'[ip] = until[ip]
    BY <2>1, <2>4 DEF Book!Give, Book!Lift
  <2>5. CASE Book!Lapse
    BY <2>1, <2>5 DEF Book!Lapse, Book!Cleared
  <2>6. CASE Book!Tick \/ Book!Save \/ UNCHANGED Book!vars
    BY <2>2, <2>6 DEF Book!Tick, Book!Save, Book!vars
  <2>7. ~Book!Restart
    BY <2>2 DEF Book!Restart
  <2>8. QED
    BY <2>2, <2>3, <2>4, <2>5, <2>6, <2>7 DEF Book!Next
<1>2. TypeInv /\ FileInv /\ [Next]_vars => [Final]_vars
  BY <1>1 DEF stuck, HoldsWrite, Held
<1>3. QED
  BY <1>2, Typed, FileKept, PTL DEF Spec
-----------------------------------------------------------------------------
(* The hits of an entry are strikes that were given since its window        *)
(* opened, or came from the ban file no earlier than that.                  *)

Since(from)    == { s \in Seconds : s >= from }
StrikesCounted ==
  \A ip \in Ips : state[ip] # None =>
    /\ state[ip].first_hit <= clock
    /\ state[ip].hits <= StrikesSince(log, ip, state[ip].first_hit)
                           + CarriedSince(ip, state[ip].first_hit)

LEMMA SinceFinite ==
  ASSUME NEW from
  PROVE  IsFiniteSet(Since(from))
  BY TimeAssumption, FS_Subset DEF Since

LEMMA StrikesSum ==
  ASSUME NEW l, NEW ip, NEW from
  PROVE  StrikesSince(l, ip, from) = SumOf(l[ip], Since(from))
  BY DEF StrikesSince, SumOf, Since, MapThenSumSet, MapThenFoldSet

\* A strike given at a second of the sum is counted in it.
LEMMA StrikeAdds ==
  ASSUME TypeOK, NEW ip \in Ips, NEW n \in Nat, log' = [log EXCEPT ![ip][clock] = @ + n],
         NEW from \in Int, from <= clock
  PROVE  /\ StrikesSince(log', ip, from) = StrikesSince(log, ip, from) + n
         /\ StrikesSince(log, ip, from) \in Nat
<1>1. clock \in Since(from) /\ \A s \in Since(from) : s \in Seconds
  BY DEF TypeOK, Since
<1>2. log[ip] \in [Seconds -> Nat]
  BY DEF TypeOK
<1>3. log'[ip] = [log[ip] EXCEPT ![clock] = @ + n]
  BY DEF TypeOK
<1> DEFINE f == log[ip]
           g == log'[ip]
<1>4. /\ \A s \in Since(from) : f[s] \in Nat
      /\ g[clock] = f[clock] + n /\ \A s \in Since(from) \ {clock} : g[s] = f[s]
  BY <1>1, <1>2, <1>3
<1>5. SumOf(g, Since(from)) = SumOf(f, Since(from)) + n /\ SumOf(f, Since(from)) \in Nat
  <2> HIDE DEF f, g
  <2> QED BY <1>1, <1>4, SinceFinite, SumBumped
<1> QED BY <1>5, StrikesSum

\* Fewer strikes are given since a later second.
LEMMA StrikesLater ==
  ASSUME NEW l \in [Ips -> [Seconds -> Nat]], NEW ip \in Ips, NEW a \in Int, NEW b \in Int, a <= b
  PROVE  /\ StrikesSince(l, ip, b) <= StrikesSince(l, ip, a)
         /\ StrikesSince(l, ip, a) \in Nat /\ StrikesSince(l, ip, b) \in Nat
<1>1. Since(b) \subseteq Since(a) /\ \A s \in Since(a) : s \in Seconds
  <2>1. \A s \in Seconds : s \in Nat
    BY TimeAssumption
  <2>2. \A s \in Seconds : s >= b => s >= a
    BY <2>1
  <2> QED BY <2>2 DEF Since
<1>2. \A s \in Seconds : l[ip][s] \in Nat
  OBVIOUS
<1> DEFINE f == l[ip]
<1>3. /\ \A s \in Since(b) : f[s] \in Nat /\ f[s] <= f[s]
      /\ \A s \in Since(a) : f[s] \in Nat
  BY <1>1, <1>2
<1>4. /\ SumOf(f, Since(b)) <= SumOf(f, Since(a))
      /\ SumOf(f, Since(a)) \in Nat /\ SumOf(f, Since(b)) \in Nat
  <2> HIDE DEF f
  <2> QED BY <1>1, <1>3, SinceFinite, SumGrows
<1> QED BY <1>4, StrikesSum

\* And no more was carried over since a later second.
LEMMA CarriedLater ==
  ASSUME TypeOK, NEW ip \in Ips, NEW a \in Int, NEW b \in Int, a <= b
  PROVE  /\ CarriedSince(ip, b) <= CarriedSince(ip, a)
         /\ CarriedSince(ip, a) \in Nat /\ CarriedSince(ip, b) \in Nat
<1>1. started \in Nat /\ carried[ip] \in Nat
  BY TimeAssumption DEF TypeOK
<1> QED BY <1>1 DEF CarriedSince

\* What bind_persist_file makes of the file: the hits of an entry are carried over, and
\* its window opens now.
LEMMA StrikesReloaded ==
  ASSUME clock \in Seconds, disk \in [Ips -> HitState \cup {None}],
         NEW ip \in Ips, Reloaded(disk, clock)[ip] # None
  PROVE  /\ Reloaded(disk, clock)[ip].first_hit = clock
         /\ Reloaded(disk, clock)[ip].hits = Hits(Reloaded(disk, clock))[ip]
<1>1. bound /\ disk[ip] # None /\ disk[ip].ban_until > clock
  BY DEF Reloaded, Loaded
<1>2. disk[ip] \in HitState
  BY <1>1
<1>3. Reloaded(disk, clock)[ip] = [disk[ip] EXCEPT !.first_hit = clock]
  BY <1>1 DEF Reloaded, Loaded
<1>4. Reloaded(disk, clock)[ip].first_hit = clock
  BY <1>2, <1>3 DEF HitState
<1> QED BY <1>4 DEF Hits

\* The strikes of a log add up to a number.
LEMMA StrikesNat ==
  ASSUME NEW l \in [Ips -> [Seconds -> Nat]], NEW ip \in Ips, NEW from \in Int
  PROVE  StrikesSince(l, ip, from) \in Nat
  BY StrikesLater

\* The strike of a call that enters, and the ban it may bring, are covered by the history.
LEMMA StrikeCovered ==
  ASSUME TypeInv, StrikesCounted, NEW w \in Workers, Enter(w)
  PROVE  LET ip == ag[w].ip IN
         /\ ip \in Ips /\ state'[ip] \in HitState
         /\ state'[ip].first_hit <= clock
         /\ state'[ip].hits <= StrikesSince(log', ip, state'[ip].first_hit)
                                + CarriedSince(ip, state'[ip].first_hit)
         /\ ag[w].why = "offence" /\ state'[ip].ban_until > Entry(ip).ban_until =>
              StrikesSince(log', ip, ag[w].now - Window) + CarriedSince(ip, ag[w].now - Window) >= Threshold
<1> DEFINE ip  == ag[w].ip
           now == ag[w].now
           h   == Entry(ip)
           n   == IF ag[w].why = "honeypot" THEN Threshold ELSE 1
           new == IF ag[w].why = "honeypot" THEN Forced(h, now) ELSE Offence(h, now)
<1>1. /\ ip \in Ips /\ now \in Nat /\ now <= clock /\ clock \in Nat /\ w \in Agents
      /\ Threshold \in Nat /\ Window \in Nat /\ Duration \in Nat /\ n \in Nat /\ TypeOK
      /\ ag[w].why \in Reasons
  BY TimeAssumption DEF Enter, TypeInv, TypeOK, CallsOK, CallOK, Call, Agents
<1>2. h \in HitState /\ new \in HitState
  BY <1>1, EntryTyped
<1>3. h.hits \in Nat /\ h.first_hit \in Nat /\ h.ban_until \in Nat
  BY <1>2 DEF HitState
<1>4. state' = [state EXCEPT ![ip] = new] /\ log' = [log EXCEPT ![ip][clock] = @ + n]
  BY DEF Enter
<1>5. state'[ip] = new
  BY <1>1, <1>4 DEF TypeOK
<1>6. \A from \in Int : from <= clock =>
        /\ StrikesSince(log', ip, from) = StrikesSince(log, ip, from) + n
        /\ StrikesSince(log, ip, from) \in Nat
  BY <1>1, <1>4, StrikeAdds
<1>c. \A from \in Int : CarriedSince(ip, from) \in Nat
  BY <1>1, CarriedLater
<1>7. h.first_hit <= clock /\ h.hits <= StrikesSince(log, ip, h.first_hit) + CarriedSince(ip, h.first_hit)
  <2>1. CASE state[ip] = None
    <3>1. h.hits = 0 /\ h.first_hit = 0
      BY <2>1 DEF Entry, Fresh
    <3>2. StrikesSince(log, ip, 0) \in Nat
      BY <1>1, <1>6
    <3>3. CarriedSince(ip, 0) \in Nat
      BY <1>c
    <3> QED BY <1>1, <3>1, <3>2, <3>3
  <2>2. CASE state[ip] # None
    BY <1>1, <2>2 DEF StrikesCounted, Entry
  <2> QED BY <2>1, <2>2
<1>8. CASE ag[w].why = "honeypot"
  <2>1. new.first_hit = h.first_hit /\ new.hits = h.hits + Threshold /\ n = Threshold
    BY <1>2, <1>8 DEF Forced, HitState
  <2>2. StrikesSince(log', ip, h.first_hit) = StrikesSince(log, ip, h.first_hit) + Threshold
        /\ StrikesSince(log, ip, h.first_hit) \in Nat
    BY <1>3, <1>6, <1>7, <2>1
  <2> DEFINE C == CarriedSince(ip, h.first_hit)
  <2>c. C \in Nat /\ h.hits <= StrikesSince(log, ip, h.first_hit) + C
    BY <1>3, <1>7, <1>c
  <2> HIDE DEF C
  <2>3. h.hits + Threshold <= StrikesSince(log', ip, h.first_hit) + C
    <3> HIDE DEF h, n
    <3> QED BY <1>1, <1>3, <2>2, <2>c
  <2>4. new.hits <= StrikesSince(log', ip, new.first_hit) + CarriedSince(ip, new.first_hit)
    BY <2>1, <2>3 DEF C
  <2> QED BY <1>1, <1>2, <1>5, <1>7, <1>8, <2>1, <2>4
<1>9. CASE ag[w].why = "offence"
  <2> DEFINE k == Struck(h, now)
  <2>1. n = 1 /\ new = Offence(h, now) /\ k \in HitState
    BY <1>1, <1>9, EntryTyped
  <2>2. new.hits = k.hits /\ new.first_hit = k.first_hit
    BY <2>1 DEF Offence, HitState
  <2>3. new.ban_until > h.ban_until => k.hits >= Threshold
    <3>1. k.ban_until = h.ban_until
      BY <1>2 DEF Struck, HitState
    <3>2. ~Deserves(h, now) => new.ban_until = h.ban_until
      BY <2>1, <3>1 DEF Offence
    <3> QED BY <1>3, <3>2 DEF Deserves
  <2>4. /\ k.first_hit <= clock /\ k.first_hit \in Nat /\ k.hits \in Nat
        /\ k.hits <= StrikesSince(log', ip, k.first_hit) + CarriedSince(ip, k.first_hit)
        /\ now - Window <= k.first_hit
    <3>1. CASE h.first_hit = 0 \/ Elapsed(now, h.first_hit) > Window
      <4>1. k.first_hit = now /\ k.hits = 1
        BY <1>2, <3>1 DEF Struck, HitState
      <4>2. StrikesSince(log', ip, now) = StrikesSince(log, ip, now) + 1 /\ StrikesSince(log, ip, now) \in Nat
        BY <1>1, <1>6, <2>1
      <4>3. CarriedSince(ip, now) \in Nat
        BY <1>1, <1>c
      <4> QED BY <1>1, <4>1, <4>2, <4>3
    <3>2. CASE ~(h.first_hit = 0 \/ Elapsed(now, h.first_hit) > Window)
      <4>1. k.first_hit = h.first_hit /\ k.hits = h.hits + 1
        BY <1>2, <3>2 DEF Struck, HitState
      <4>2. /\ StrikesSince(log', ip, h.first_hit) = StrikesSince(log, ip, h.first_hit) + 1
            /\ StrikesSince(log, ip, h.first_hit) \in Nat
        BY <1>3, <1>6, <1>7, <2>1
      <4>3. now - Window <= h.first_hit
        BY <1>1, <1>3, <3>2 DEF Elapsed
      <4>4. CarriedSince(ip, h.first_hit) \in Nat
        BY <1>3, <1>c
      <4> HIDE DEF h, k
      <4> QED BY <1>3, <1>7, <4>1, <4>2, <4>3, <4>4
    <3> QED BY <3>1, <3>2
  <2>5. log' \in [Ips -> [Seconds -> Nat]]
    <3>1. \A s \in Seconds : [log[ip] EXCEPT ![clock] = @ + n][s] \in Nat
      BY <1>1 DEF TypeOK
    <3> QED BY <1>1, <1>4, <3>1 DEF TypeOK
  <2>6. /\ StrikesSince(log', ip, k.first_hit) <= StrikesSince(log', ip, now - Window)
        /\ StrikesSince(log', ip, k.first_hit) \in Nat /\ StrikesSince(log', ip, now - Window) \in Nat
    <3> HIDE DEF k
    <3> QED BY <1>1, <2>4, <2>5, StrikesLater
  <2>c. /\ CarriedSince(ip, k.first_hit) <= CarriedSince(ip, now - Window)
        /\ CarriedSince(ip, k.first_hit) \in Nat /\ CarriedSince(ip, now - Window) \in Nat
    <3> HIDE DEF k
    <3> QED BY <1>1, <2>4, CarriedLater
  <2> HIDE DEF k, h
  <2>7. new.ban_until > h.ban_until =>
          StrikesSince(log', ip, now - Window) + CarriedSince(ip, now - Window) >= Threshold
    BY <1>1, <2>3, <2>4, <2>6, <2>c
  <2> QED BY <1>1, <1>2, <1>5, <2>2, <2>4, <2>7 DEF h
<1> QED BY <1>1, <1>8, <1>9 DEF Reasons

LEMMA StrikesStep ==
  ASSUME TypeInv, StrikesCounted, [Next]_vars
  PROVE  StrikesCounted'
<1> SUFFICES ASSUME NEW ip \in Ips, state'[ip] # None
             PROVE  /\ state'[ip].first_hit <= clock'
                    /\ state'[ip].hits <= StrikesSince(log', ip, state'[ip].first_hit)
                                           + CarriedSince(ip, state[ip].first_hit)'
  BY DEF StrikesCounted
<1> DEFINE Goal == /\ state'[ip].first_hit <= clock'
                   /\ state'[ip].hits <= StrikesSince(log', ip, state'[ip].first_hit)
                                          + CarriedSince(ip, state[ip].first_hit)'
<1>n. clock \in Nat /\ \A s \in Seconds : s \in Nat
  BY TimeAssumption DEF TypeInv, TypeOK
<1>s. ASSUME state'[ip] = state[ip], log'[ip] = log[ip], carried'[ip] = carried[ip],
             started' = started, clock' \in Nat, clock <= clock'
      PROVE  Goal
  <2>1. /\ state[ip].first_hit <= clock /\ state[ip].first_hit \in Nat
        /\ state[ip].hits <= StrikesSince(log, ip, state[ip].first_hit)
                               + CarriedSince(ip, state[ip].first_hit)
    BY <1>s DEF StrikesCounted, TypeInv, TypeOK, HitState
  <2>2. \A from : StrikesSince(log', ip, from) = StrikesSince(log, ip, from)
    BY <1>s, StrikesSum
  <2>c. CarriedSince(ip, state[ip].first_hit)' = CarriedSince(ip, state[ip].first_hit)
    BY <1>s DEF CarriedSince
  <2> DEFINE c == clock'
  <2>3. c \in Nat /\ clock <= c
    BY <1>s
  <2> HIDE DEF c
  <2>4. state[ip].first_hit <= c
    BY <1>n, <2>1, <2>3
  <2> QED BY <1>s, <2>1, <2>2, <2>4, <2>c DEF c
<1>1. CASE UNCHANGED vars
  BY <1>n, <1>s, <1>1 DEF vars
<1>2. CASE Advance
  <2>1. state' = state /\ UNCHANGED history /\ clock' \in Seconds /\ clock' > clock
    BY <1>2 DEF Advance
  <2> QED BY <1>n, <1>s, <2>1
<1>3. CASE WorkerCall \/ AdminCall \/ KeeperTick
  BY <1>n, <1>s, <1>3 DEF WorkerCall, AdminCall, KeeperTick, Begin
<1>4. CASE Restart
  <2>1. /\ state' = Reloaded(disk, clock) /\ clock' = clock /\ started' = clock
        /\ log' = [i \in Ips |-> NoStrikes] /\ carried' = Hits(state')
    BY <1>4 DEF Restart
  <2>2. state'[ip].first_hit = clock /\ state'[ip].hits = carried'[ip]
    BY <2>1, StrikesReloaded DEF TypeInv, TypeOK
  <2>3. log' \in [Ips -> [Seconds -> Nat]]
    BY <2>1 DEF NoStrikes
  <2>4. StrikesSince(log', ip, clock) \in Nat
    BY <1>n, <2>3, StrikesNat
  <2>5. CarriedSince(ip, state[ip].first_hit)' = carried'[ip]
    BY <1>n, <2>1, <2>2 DEF CarriedSince
  <2>6. carried'[ip] \in Nat
    BY <2>1, ReloadTyped DEF TypeInv, TypeOK
  <2> DEFINE k == carried'[ip]
             n == StrikesSince(log', ip, clock)
  <2>7. k <= n + k
    <3>1. k \in Nat /\ n \in Nat
      BY <2>4, <2>6
    <3> HIDE DEF k, n
    <3> QED BY <3>1
  <2> QED BY <1>n, <2>1, <2>2, <2>5, <2>7
<1>5. ASSUME NEW w \in Workers, Enter(w) PROVE Goal
  <2>1. CASE ag[w].ip = ip
    <3>1. CarriedSince(ip, state[ip].first_hit)' = CarriedSince(ip, state'[ip].first_hit)
      BY <1>5 DEF Enter, CarriedSince
    <3> QED BY <1>5, <2>1, <3>1, StrikeCovered DEF Enter
  <2>2. CASE ag[w].ip # ip
    <3>1. /\ state'[ip] = state[ip] /\ log'[ip] = log[ip] /\ clock' = clock
          /\ carried'[ip] = carried[ip] /\ started' = started
      BY <1>5, <2>2 DEF Enter, TypeInv, TypeOK
    <3> QED BY <1>n, <1>s, <3>1
  <2> QED BY <2>1, <2>2
<1>6. CASE Unban
  <2>1. CASE ag[Admin].ip = ip
    <3>1. state[ip] # None /\ state'[ip] = [state[ip] EXCEPT !.ban_until = 0, !.hits = 0] /\ clock' = clock
      BY <1>6, <2>1 DEF Unban, TypeInv, TypeOK
    <3>2. state[ip] \in HitState
      BY <3>1 DEF TypeInv, TypeOK
    <3>3. state'[ip].hits = 0 /\ state'[ip].first_hit = state[ip].first_hit /\ state[ip].first_hit \in Nat
      BY <3>1, <3>2 DEF HitState
    <3>4. state[ip].first_hit <= clock
      BY <3>1 DEF StrikesCounted
    <3>5. log' \in [Ips -> [Seconds -> Nat]]
      BY <1>6 DEF Unban, TypeInv, TypeOK, NoStrikes
    <3>6. StrikesSince(log', ip, state[ip].first_hit) \in Nat
      BY <3>3, <3>5, StrikesLater
    <3>7. CarriedSince(ip, state[ip].first_hit)' = 0
      BY <1>6, <2>1 DEF Unban, CarriedSince, TypeInv, TypeOK
    <3> QED BY <3>1, <3>3, <3>4, <3>6, <3>7
  <2>2. CASE ag[Admin].ip # ip
    <3>1. /\ state'[ip] = state[ip] /\ log'[ip] = log[ip] /\ clock' = clock
          /\ carried'[ip] = carried[ip] /\ started' = started
      BY <1>6, <2>2 DEF Unban, TypeInv, TypeOK
    <3> QED BY <1>n, <1>s, <3>1
  <2> QED BY <2>1, <2>2
<1>7. CASE Gc
  <2>1. ~Forgets(ip, ag[Keeper].at + 1, ag[Keeper].now)
    BY <1>7 DEF Gc
  <2>2. /\ state'[ip] = state[ip] /\ log'[ip] = log[ip] /\ clock' = clock
          /\ carried'[ip] = carried[ip] /\ started' = started
    BY <1>7, <2>1 DEF Gc
  <2> QED BY <1>n, <1>s, <2>2
<1>8. ASSUME NEW a \in Agents, \/ a \in Workers /\ Probe(a)
                               \/ List \/ ListDone \/ Persist(a) \/ Flush(a)
      PROVE  Goal
  BY <1>n, <1>s, <1>8 DEF Probe, List, ListDone, Persist, Flush, WalkTo
<1> QED BY <1>1, <1>2, <1>3, <1>4, <1>5, <1>6, <1>7, <1>8 DEF Next, AgentStep

\* Only Enter leads a worker out of the stage where it strikes, but for a restart.
LEMMA EntersToStrike ==
  ASSUME TypeInv, [Next]_vars, NEW w \in Workers, ag[w].pc = "entry", ag'[w].pc # "entry", ~Restart
  PROVE  Enter(w)
<1>1. w \in Agents /\ w # Admin /\ w # Keeper /\ ag \in [Agents -> Call]
  BY AgentAssumption DEF Agents, TypeInv, TypeOK
<1>2. ag'[w] # ag[w]
  OBVIOUS
<1>3. ASSUME NEW a \in Agents, NEW c, Set(a, c), ~(a = w) PROVE FALSE
  BY <1>1, <1>2, <1>3 DEF Set
<1>4. CASE UNCHANGED vars \/ Advance
  BY <1>2, <1>4 DEF vars, Advance
<1>5. ASSUME NEW a \in Agents, NEW pc, NEW ip, NEW why, Begin(a, pc, ip, why) PROVE FALSE
  <2>1. a # w
    BY <1>5 DEF Begin
  <2> QED BY <1>3, <1>5, <2>1 DEF Begin
<1>6. CASE WorkerCall \/ AdminCall \/ KeeperTick
  BY <1>5, <1>6 DEF WorkerCall, AdminCall, KeeperTick, Agents
<1>7. CASE List \/ ListDone \/ Unban \/ Gc
  BY <1>1, <1>3, <1>7 DEF List, ListDone, Unban, Gc, WalkTo, Agents
<1>8. ASSUME NEW a \in Agents, Persist(a) \/ Flush(a) PROVE FALSE
  <2>1. a # w
    BY <1>8 DEF Persist, Flush
  <2> QED BY <1>3, <1>8, <2>1 DEF Persist, Flush, WalkTo
<1>9. ASSUME NEW a \in Workers, Probe(a) PROVE FALSE
  <2>1. a # w /\ a \in Agents
    BY <1>9 DEF Probe, Agents
  <2> QED BY <1>3, <1>9, <2>1 DEF Probe
<1>10. ASSUME NEW a \in Workers, Enter(a) PROVE a = w
  <2>1. a \in Agents
    BY DEF Agents
  <2> QED BY <1>3, <1>10, <2>1 DEF Enter
<1> QED BY <1>4, <1>6, <1>7, <1>8, <1>9, <1>10 DEF Next, AgentStep

\* An automatic ban is deserved (reputation.rs:125-130): the address really collected the
\* threshold of strikes within the window that ends at the offence's clock reading, whatever
\* gc, unban and calls that read the clock long ago did in between.  Hits that a restart
\* brought back from the ban file count as of that restart (reputation.rs:70-72): for one
\* window they stand in for strikes.
THEOREM BansAreDeserved == Spec => BanDeserved
<1> DEFINE Deserved ==
      \A w \in Workers :
        LET ip == ag[w].ip
            from == ag[w].now - Window IN
          /\ ag[w].pc = "entry" /\ ag'[w].pc # "entry" /\ ag[w].why = "offence" /\ ~Restart
          /\ state'[ip].ban_until > Entry(ip).ban_until
          => StrikesSince(log', ip, from) + CarriedSince(ip, from) >= Threshold
<1>1. Init => StrikesCounted
  <2> SUFFICES ASSUME Init, NEW ip \in Ips, state[ip] # None
               PROVE  /\ state[ip].first_hit <= clock
                      /\ state[ip].hits <= StrikesSince(log, ip, state[ip].first_hit)
                                             + CarriedSince(ip, state[ip].first_hit)
    BY DEF StrikesCounted
  <2>1. /\ clock \in Seconds /\ clock \in Nat /\ disk \in [Ips -> HitState \cup {None}]
        /\ state = Reloaded(disk, clock) /\ carried = Hits(state) /\ started = clock
        /\ log \in [Ips -> [Seconds -> Nat]]
    BY TimeAssumption, NameAssumption DEF Init, NoStrikes
  <2>2. state[ip].first_hit = clock /\ state[ip].hits = carried[ip]
    BY <2>1, StrikesReloaded
  <2>3. CarriedSince(ip, clock) = carried[ip] /\ carried[ip] \in Nat
    BY <2>1, ReloadTyped DEF CarriedSince
  <2>4. StrikesSince(log, ip, clock) \in Nat
    BY <2>1, StrikesNat
  <2> QED BY <2>1, <2>2, <2>3, <2>4
<1>2. TypeInv /\ StrikesCounted /\ [Next]_vars => StrikesCounted'
  BY StrikesStep
<1>3. TypeInv /\ StrikesCounted /\ [Next]_vars => [Deserved]_vars
  BY EntersToStrike, StrikeCovered
<1> QED BY <1>1, <1>2, <1>3, Typed, PTL DEF Spec, BanDeserved
==============================================================================
