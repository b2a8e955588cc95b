# 2t1-Waf in TLA+

A verification development kept beside the source of 2t1-Waf, a layer-7 web
application firewall on Pingora. It holds TLA+ modules translated from the Rust
code, TLC configurations that check them on small instances, and proofs, checked
by TLAPS, that the most important properties hold for every value of the constants.

Paths below are relative to `src/crates/`; *core* is `waf-core/src`, *proxy* is
`waf-proxy/src`.

## 1. The system

The proxy's worker threads run `request_filter` for each request. It asks the
engine whether the house is full, counts the request in, evaluates it to a verdict
(allow, challenge, block, tarpit) and answers or forwards; `logging` counts it out.
Beside the workers run three services of one thread each: the admin server, the
watchdog (`AutoUamService`, which also does the housekeeping once a minute) and the
event store. All of them share one `Engine`, made of concurrent tables (`DashMap`,
a reader-writer lock per shard), mutexes and relaxed atomics. There is no lock over
several components, so nearly everything that is hard is interleaving.

| Component | State | Operations | Who calls it | Hard | What makes it correct |
|---|---|---|---|---|---|
| Engine (core/engine.rs) | none of its own: loads settings one by one | `evaluate`, `uam_params`, `at_capacity`, `finalize` | workers | a setting may change between any two loads; saturating thresholds | allow and deny lists are obeyed, an attack mode has no gap, severe requests do not pass, harmless ones do, bans are earned |
| Runtime (core/runtime.rs) | some forty atomics and locked lists, `persist_path`, `runtime.json` | store of a field, `snapshot`, `persist`, `bind_persist_file` | admin thread, watchdog | two writers without a lock, one temporary file, crashes | a saved change survives a restart, a crash loses a call whole or not at all |
| Reputations (core/reputation.rs) | `DashMap` address -> strikes, window start, ban end; `bans.json` | `record_offence`, `force_ban`, `unban`, `gc`, `persist`, `banned`, `is_banned`, `bind_persist_file` | workers, admin, watchdog | entry guards and iterators over shard locks, stale clock readings, restarts | bans hold, bans are deserved, nobody waits in a circle |
| RateLimiter (core/ratelimit.rs) | `DashMap` key -> shared counter of six ten-second buckets | `check_scaled`, `bump`, `hit`, `gc` | workers, watchdog | clock read before the lock, counter dropped between clone and hit, three-step capacity test | the window counts what was requested, the table is bounded |
| ConnTracker (core/connections.rs), SubnetTracker (core/subnet.rs) | counters of requests in flight; a rate window per subnet | `inc`, `dec`, `current`, `total`, `gc`; `observe`, `inc_inflight`, `dec_inflight` | workers, watchdog | several-step `inc` and `dec` against the sweep, full table, door summed while others move | counters are exact, caps hold |
| WafProxy (proxy/proxy.rs) | per-request context | `request_filter`, `logging`, verify endpoints, `serve_challenge` | Pingora | every count in is counted out; challenge, cookie and address must agree | as InFlight; a visitor who passes the challenge gets in |
| AutoUamService (proxy/admin.rs) | blocks seen, time of the last change | five-second tick, minute tick | its timer | reads the level, decides, stores it; races the operator | the level moves with the load in force, comes back down after an attack and rests in between |
| Admin server (proxy/admin.rs) | none | settings, lists, unban, statistics, event stream | HTTP clients | patches are stored field by field; stream resumes by timestamp | no update lost, no event lost |
| EventLog (core/events.rs) | ring of recent events | `record`, `recent`, `since` | workers, admin | timestamps taken before the lock | the stream shows an event once, unless stamps and pushes crossed |
| Storage (core/storage.rs) | queue counters, channel, SQLite file | `submit`, writer loop, `flush`, queries | workers, store thread | writer that ends on an error, racy bound | a bounded line: written in order, none twice, lost only as a whole or with a failing row; its estimate of itself does not drift |
| GoodBotVerifier (core/goodbot.rs) | cache address -> verified, rejected, pending | `classify`, asynchronous lookup | workers, lookup tasks | test-then-insert, late answers | an answer in use is one a lookup gave within its lease |
| Challenger, Bic, Turnstile | secrets | issue, verify, mint and check cookies | workers | address binding behind trusted proxies, configuration in halves | nobody gets in unearned; the visitor's way through the pages ends |
| BehaviorTracker, RequestReplay, DistributedUa | windows per address or agent | `observe`, sweep by compare-and-swap | workers | windows against sweeps and old clock readings | no score without the hits that earn it |
| Metrics (core/metrics.rs) | totals, top tables, sixty-second ring | `record`, `snapshot` | workers, admin, watchdog | eviction, clock order | totals are exact |
| Honeypots, bot_score, ddos, datacenter, fingerprint, rules | lists and regular expressions | pure functions of one request | engine | none but the trap list's edits | scores add up |
| request.rs, config.rs, main.rs, redirect.rs | none | parsing, startup | - | client address behind proxies | - |

`PROJECT.json` lists all of them with their status, and the hazards at their lines.

## 2. Modules and how they correspond to the code

Each module models one component with one action per atomic step of its operations.
A step ends where another thread can see, or change, what the operation uses next:
at the release of a shard lock or mutex, between two atomics, between two system
calls, at an await. What happens under one lock is one action.

| Module | Models | Checked by | Proved in |
|---|---|---|---|
| `Engine` | `evaluate` and `uam_params` against a changing `Runtime` | `MCEngine` with `MCEngine.cfg`, `MCEngineLegacy.cfg` | `EngineProofs` |
| `Reputations` | strikes, bans, shard locks, `bans.json` | `MCReputations` with its two cfgs | `ReputationsProofs` |
| `BanBook` | what the ban table keeps (abstract) | as a property of `MCReputations` | what it is implemented by: `ReputationsProofs` |
| `InFlight` | connection and subnet counters, door and cap, driven by the request life cycle | `MCInFlight` with its two cfgs | `InFlightProofs` |
| `RateLimiter` | sliding window and its table | `MCRateLimiter` | `RateLimiterProofs` |
| `RuntimeFile` | stores, snapshots, `runtime.json`, crashes | `MCRuntimeFile` with its two cfgs | `SettingsProofs` |
| `AutoUam` | the escalation loop against the operator | `MCAutoUam` | `SettingsProofs` |
| `LossyLog` | what the event store promises (abstract) | as a property of `MCTelemetry` | what it is implemented by: `TelemetryProofs` |
| `Storage` | the sink, its two counters, the channel, the writer, the file | `MCTelemetry` | `TelemetryProofs` |
| `EventLog` | the ring of recent events and the live stream | `MCTelemetry` | `TelemetryProofs` |
| `Telemetry` | `finalize`: EventLog and Storage composed | `MCTelemetry` | `TelemetryProofs` |
| `GoodBot` | the crawlers' cache and its lookups, for one address | `MCVisitor` | `VisitorProofs` |
| `Visitor` | a visitor's way in: verdict, pages, tokens, cookies; composed with GoodBot | `MCVisitor` | `VisitorProofs` |
| `Sums` | nothing: facts about sums over finite sets, for the proofs | - | `Sums` |

In each of them definitions marked *mutant* are faulty versions of the definition
beside them; they are used only to see that a property can fail.

### Engine

`rt` holds the settings that `evaluate` loads, `pc[w]` the stage an evaluation is at
(one stage per load, so two loads of the same field are two stages: the legacy flag
is loaded by `ReadAttack` and again by `ReadAttackAgain`). `level`, `mute`, `score`
and `lines` are the locals of `evaluate`. `Patch` is one store of the admin server
or the watchdog; a patch of several fields is several of them. `seen[w]` is a
history of every world (settings and bans) in force since the request of `w` arrived.
Every property is about that history: it says what a verdict owes to the settings
that were, or were at some moment, in force. A verdict that fits no single moment is
allowed only where the text of the property says so.

Abstracted: a request carries its clearance, what the crawler check says of it, its
load (the least scale, in basis points, under which the rate limiter lets it
through), its concurrency, the score of each detector, and the scores that have no
switch (`always`). A ban takes effect or not (`MaybeBan`): when exactly is the
business of Reputations, and this is its behaviour *without a ban file*; with one, a
banning thread never comes back. Titles, details and HTTP statuses are left out.

### Reputations

`state` is the table, `Shard` the hash of the table, `ag[a]` the call each thread is
in: the shard it write-locks (`wr`), the shard its iterator holds (`at`), the clock
reading it took on entry (`now`) and the dump it collects. `Probe` is the capacity
test, `Enter` what happens under the entry's lock, `WalkTo` one shard of an iterator,
`Gc` one shard of the sweep. `AfterEntry` says which locks are kept: `record_offence`
and `force_ban` keep their entry's guard until they return, and that is after
`persist`. `Restart` may happen at any moment and goes through `bind_persist_file`.
A dump that cannot be written is ignored, as in the code, and the file stays as it was.
`log` is a history of the strikes this process gave each address, by clock second;
`carried` and `started` say how many hits the last start brought back, and when: the
reload keeps old hits and dates their window anew (core/reputation.rs:70-72).

`BanBook` is the abstract specification, with neither shards nor calls: for each address until
when it is banned and what the file says of it. Bans are given and prolonged, lifted, lapse,
and a restart brings back those in the file that still run. It also says what
the kept guard does to bans when a file is bound: an address with a new ban is `stuck`, and so
are those of its shard; nobody lifts or forgets it before the process ends, and the file
may lose bans but never gains one. `BookKept` is its specification under the mapping
of the state functions `until`, `saved`, `stuck` and `durable <- bound`. `Lift` leaves the file
alone (proxy/admin.rs:516), so a lifted ban that no sweep has dropped from the file comes back.

### InFlight

One `pc` per request. `Scan` is one counter of `total()`, `IncGet`, `IncLen` and
`IncInsert` are the three steps of `inc`, `Dec` and `DecStore` the two of `dec`.
`Gc` and `SubGc` drop one key at a time and respect the shard lock `dec` holds.
Pingora is external: the module uses that `logging` is called once for each request.
`spilled` is the history of requests that found the table full. A request between
its verdict and `logging` occupies no thread.

### RateLimiter

`entry` is the table, `heap` the counters behind the `Arc`s (identities, so that a
counter dropped from the table lives on while a thread has it), `thr` the
call each thread is in. `Arrive` reads the clock, `Probe` tests the capacity, `Clone`
takes the counter, `Hit` charges it and decides. `hits` is a history of what was
really requested per key and bucket; `clean` tells the keys no overtaken request has
been charged to. A request is overtaken when, after it read the clock, the key was
charged in a later bucket or swept.

### RuntimeFile

Files are names that link to inodes, because both writers use the same `json.tmp`:
`Create` empties the inode the name has or makes one, `Write` writes to the inode the
writer has open (text over a longer text leaves its tail, and is then `Torn`),
`Rename` fails when the name is gone. `Fail` is an error of any of the three, a write of a part included.
The callers ignore every error and report the change as made (proxy/admin.rs:489, 500, 506).
`Load` is one field of `snapshot`. `Restart` reloads the file; one that does not parse leaves
defaults and an unset path, and then nothing is saved. `Defaults` is a set, since each process
generates its token (core/runtime.rs:207). `lone`, `saved`, `base` and `since` are histories: which
calls met no other, the settings such a call renamed into place or a start found, what the file
held when it began, the values each field has had since.

Abstracted: two fields stand for all, in the order `snapshot` loads them; one write
stands for `fs::write`'s loop; loss of power (no `fsync`) is not modelled, only the
death of the process.

### AutoUam

`stage` is that of one round of the five-second loop: `Tick` takes the rate (and, by
the switch and the cooldown, ends or goes on), `LoadLevel`, `LoadThreshold` (which
decides), `StoreLevel`, `SaveLevel`. The operator stores one setting at a time in between
(`SetLevel`, `SetSwitch`, `SetThreshold`). The minute's sweep runs on the same task
(proxy/admin.rs:115-123): between `GcTick` and `GcDone` there is no round, and once a request has
banned with a ban file (`Ban`, which leaves its shard `jammed`; see Reputations) the next sweep never
ends. Quantities that only grow are kept as
differences, so the state is finite without a bound on time: `fresh` is
`metrics.blocked` less `prev_blocks`, `age` the wall clock less `last_change`.
`ClockSet` moves the wall clock, also back. `UamRestart` forgets `last_change` and
may find any settings, because what the file then holds is RuntimeFile's subject.
`patched` is the history of the round: has the operator stored anything since it began?

### EventLog, Storage and Telemetry

`EventLog`: `Stamp` reads the clock, `Push` takes the ring's lock; a thread may be
overtaken in between, so the ring is in the order of pushes. `Round` is one
second of `stream_events`, `since` what it asks for. `evicted` and `sent` are histories:
what the ring held before, and how often each event went down the current stream.
What `since` selects is written as the set of the ring's places it takes, not with
`SelectSeq`, about which the provers know nothing: the events after the position the
client resumes from, the first `Batch` of them.

`Storage`: `Submit`, `Judge`, `Add`, `Send` are the steps of `submit`: the load of `queued`,
the load of `drained` with the test, the addition, the channel. The writer's task has
`Receive` (one event, and a flush when the batch is full), `FlushTick`, `Purge`
(retention). `Flush` either commits, where single rows may fail and are counted as
written, or fails as a whole, and then the task ends, the channel is closed and
`sink` is `"down"` for good. `Open` attaches the sink; a writer that cannot open the
file a second time is `"down"` at once. `Restart` keeps nothing but the rows.

`Telemetry` is `finalize`: the same thread first records in the ring (`Finalize`,
`Record`), then hands a second copy with a stamp of its own to the sink (`Mirror`,
`SinkStep`). Both share clock and threads and end with the same process.

`LossyLog` is the abstract specification: a line of bounded length that accepts events
in order, writes them from its front with the loss of some, refuses when it
likes, gives up as a whole. `Storage!KeepsPromise` is its specification under the
mapping `Limit <- MaxQueue + |Workers|`, `waiting <- buf \o queue`,
`open <- sink = "up"`, `stored <- rows`, `refused <- dropped`. `MAX_QUEUE`
alone is not the limit: every thread may have seen the last place free.

### GoodBot and Visitor

`GoodBot` is one address, since addresses share nothing. `Classify` reads
the clock and the cache, `Spawn` writes the pending entry and starts a lookup, `Passes`
and `Fails` end one, in any order. Times are kept as what is left of them.
`passedAgo` and `failedAgo` are histories of the lookups' answers. DNS is
external: a lookup passes only for what the address is (`genuine`) and may fail for any reason.

`Visitor` is one visitor with several tabs: a browser that connects itself, a browser
whose socket is a trusted proxy's, or a crawler, which runs no script. `Ask`, `Look`
and `Decide` are the parts of `evaluate` that let by or challenge, `Serve` is
`serve_challenge` with its own loads of the settings, `PostCheck`, `PostPuzzle` and
`PostCaptcha` the three handlers, `Confirmed` and `Refused` what comes of the provider.
A token is its time left, a cookie its time left and, for the integrity check, the
subnet it is bound to. Check and puzzle sign their tokens alike and with one secret
(core/engine.rs:76-82, 100; core/challenge.rs:113-118; core/bic.rs:107-112), so `PostCheck` and
`PostPuzzle` each take the token of either page. `Change` stores one field. `checkedAgo`, `solvedAgo` and
`exempt` are histories; `spared` marks a puzzle served with the check off. What refuses requests (lists, bans, caps, scores) is Engine's.

## 3. The runs

| Run | Instance | Shows |
|---|---|---|
| `engine` | two workers, two requests out of ten that each meet another test, at most two changes from outside, three events in all; two starting settings (quiet, guest denied) | `AllowListWins`, `DenyHolds`, `SevereNeverPasses`, `HarmlessServed`, `UnderAttackChallenges`, `BansAreEarned`, types (no negative threshold) |
| `engine_legacy` | the legacy flag set, no change | **violation**: `LegacyKeepsItsScale` |
| `reputations` | two workers, admin and housekeeping, two addresses in two shards, three calls or restarts, with and without a ban file, which may hold a ban | `BanHolds`, `BanDeserved`, `NoWaitingCircle`, `BookKept` (refinement) |
| `ban_hang` | the same with a ban file | **violation**: `NeverWaitsForItself` |
| `inflight` | four requests of two addresses on three threads, table with room for one more address than it tests for, both caps at 1 | `TypeOK` (a counter is below zero only while its store of 0 is to come), `CountExact`, `NoPhantom`, `SubnetExact`, `AdmittedWithinCap`, `GlobalCeiling` |
| `inflight_full` | the same | **violation**: `FullTableFailsClosed` |
| `ratelimit` | two threads, one address, two routes, three requests, four clock readings | `WindowExact`, `ForgottenIsCold`, `TableBounded`, `NoFalseLimit`, `VerdictExact` |
| `runtime_file` | two writers, two fields of three values, three stores, two crashes, one failing file operation, two defaults | `KeptSurvives`, `CrashIsAtomic`, `StaleWithin` |
| `runtime_race` | four stores, one default, no failing operation | **violation**: `ChangesSurvive` |
| `auto_uam` | the code's period and cooldown, rates 0, 1 and 2 a second, thresholds 0, 2 and 8, sweeps and bans in between | `MovesWithLoad`, `Follows` |
| `telemetry` | two threads, three events, a ring of two, rounds of two events, batches of two, `MaxQueue` 0, two clock readings | `StreamExact`, `KeepsPromise` (refinement), `CatchesUp` |
| `visitor` | two tabs, one crawler's name, leases of one to three units, five settings | `VerdictEarned`, `EntryEarned`, `GetsIn` |

`KeepsPromise` of `telemetry` is `Storage`'s, `VerdictEarned` of `visitor` is
`GoodBot`'s, each of the instance inside the composition.

### What the less obvious properties say

- `StreamExact`. An event of the ring is shown once, except that it is shown twice only
  when one stamped earlier was pushed after it, and passed over only when one pushed before
  it has as late a stamp. These two exceptions are what resuming by timestamp costs.
- `BookKept`. Strikes with old clock readings, iterators that dump one shard after the other,
  sweeps and reloads come to no more than a book in which bans are given, prolonged, lifted and
  lapse. It takes several calls to go wrong: a dump that carries a ban past its guard
  into the file, a sweep that forgets a running ban, a reload of one that is over.
- `BanDeserved`. A ban for offences rests on the threshold of strikes within its window, given
  by this process, or, for one window after a restart, on the hits of a ban it brought back as
  well. Without that last term TLC finds it violated: one offence after a restart bans again.
- `KeptSurvives`. What a call that met no other has renamed into place stays what a restart finds
  until another rename. It says no more of a call whose file operation failed, or of a process
  without a path, than what they do: nothing is saved, and an unreadable file stays unreadable.
- `CatchesUp`. While the writer lives, the estimate of the queue's length returns to
  zero whatever the threads did between their loads; a miscount would make the store
  refuse events for ever. A stream that stays connected reaches the end of the ring.
- `MovesWithLoad`, `Follows`. The loop moves one step, with the load in force, unless
  the operator interfered; and it gets somewhere: down to Off without blocked
  requests, to Extreme under steady pressure, to rest in between. `Follows` excludes a
  threshold of 0, for which the level goes up and down for ever, and a shard jammed by a
  ban, after which the task hangs in its next sweep (section 5).
- `EntryEarned`. Under the levels that challenge everyone, a visitor is let in only as
  a crawler by a lookup of late, or for a token or a captcha solved of late; and before a
  puzzle that was served while the check was on, a check was passed at the connection's own address,
  however tabs, old pages, changes of the settings and restarts are interleaved. Captchas, puzzles served with
  the check off and the check page's own token, which the puzzle's handler takes too, are exempt from that.
- `GetsIn`. The way out exists and is taken: a browser that connects itself and runs the
  pages' own scripts gets in again and again, a genuine crawler too. It does not say so of a browser behind
  a trusted proxy, and it could not (section 5).

### Bounds

- *engine*. A property relates one verdict to what its own worker met. Two workers are
  needed for the bans they give each other; one change puts an arbitrary store between
  any two loads, two changes (with one request) allow one setting to be changed and
  changed back, or two lists to be swapped between their loads. Requests and changes
  together are at most three: two requests and a change, or one and two. The legacy flag is
  off at the start and set by a change. Thresholds 0, 60 and 70,
  the scores of the requests and the drops put scores below, on and above
  each line.
- *reputations*. Two addresses in two shards give an iterator a shard to hold while
  it waits and the circle two corners. Seconds 10, 12 and 15 with a window and a duration of 2
  give strikes in the window, at its edge and past it, and bans that run and that ended.
  A table limit of 1 lets the second address be refused or not. The file may hold a ban from the start,
  one that lasts, or one so soon over that its address offends again while its old hits count;
  so three calls are enough for the long stories: a loaded ban is lifted, swept or not, and
  the process restarts; a strike, a listing and a sweep make the circle of waiting calls.
- *inflight*. Four requests on three threads: one waits outside while three interleave.
  `MaxEntries = 0` is the smallest table: `inc` tests `len > MaxEntries`, so the
  table takes one address, and a second only if two threads pass the test together.
- *ratelimit*. The four seconds are a bucket, its successor, the last bucket of the successor's
  window (just beyond the first's), and a time at which the sweep finds all cold. A
  ceiling of two and scale 5000 make the second hit exceed. The proxy uses 150 000,
  120 seconds, 10 000 basis points; only their order matters to the properties.
- *runtime_file*. Two writers are all there are. Three values tell an older setting
  from the one before it; the second field lengthens the text, which makes a torn
  file possible. Three stores are a patch of both fields and a change of level beside it.
  One failing operation puts an error into any one call; two defaults tell a setting
  that was reloaded from one that was generated anew.
- *auto_uam*. No bound on time: all quantities are differences. The rates lie at, below and above
  the lines of the thresholds; `MaxFresh` 10 caps the blocked requests of one round at the
  highest rate. The clock may be set to before the last change, to it, or past the cooldown.
- *telemetry*. Three events let one evict another from the ring while a third is held by
  a thread; a round of two events shows a ring at once or, after an eviction, a part of it
  (`EventLogStreamExact` holds for every size of ring and round); events differ
  only by name, so a request takes the next unused one. A batch of two is flushed full and by
  the tick. `MaxQueue` 0 makes the last place the only one, for which both threads race. Two
  clock readings are an earlier and a later stamp, and an expired row.
- *visitor*. The unit is the shortest lease; a cookie outlives a pending lookup and
  a page, as in the code. Two tabs let one use what the other earned or let expire.
  `MaxLookups` 2 lets a lookup be overtaken by a second one. The crawler's check is always on and
  the captcha always chosen, its two keys and the other switches vary: everyone
  challenged and the check, either or both, then the site key, then the secret (five settings).

Symmetry is used for interchangeable workers, requests, threads and routes, only in
runs with safety and action properties. `CHECK_DEADLOCK FALSE` stands in every
configuration because the bounds on calls, requests, stores and the clock make the models
stop, and because a system without requests may; real deadlock is the subject of
`NoWaitingCircle` and `NeverWaitsForItself`.

### Fairness

- *AutoUam*: the task has a thread of its own, so a round that began is finished, and so is
  a sweep unless a shard is held for good (`WF` of its steps, `GcDone` among them). The five-second interval
  comes due twelve times as often as the sweep, and `select!` chooses at random among what is due, so
  a round that takes time begins again and again whenever it can (`SF`). The operator, blocked requests,
  bans, the sweep's beginning and the clock have none.
- *Telemetry*: a thread inside `finalize` comes out of it, the writer's task is scheduled
  while it has work, the stream's interval of one second comes due. Requests need not come;
  a restart, a failing flush or a disconnection may happen at any time, so `CatchesUp` is
  conditional on a last one (`<>[](sink = "up")`, `<>[]open`).
- *Visitor*: each tab's next step is taken (`WF` of `Work`): requests are handled, lookups (DNS timeout) and the provider (five seconds)
  answer in the end, the visitor reacts to its page. Two strong assumptions serve
  the crawler: it comes by while its verdict lasts, and not every answer falls between
  another request's look at the cache and its pending entry, a few instructions
  later. The latter is no figure of speech: such an answer is overwritten.

Hypotheses about the environment are written as `<>[][A]_vars`: from some moment on only
the steps `A` happen. Each hypothesis was seen to be satisfiable, by finding
its negation violated, and each liveness property fails for its mutant.

## 4. What is proved

Proofs are for all values of the constants that satisfy the named assumptions of the
modules: any number of workers, threads, addresses, shards, requests, detectors, any
thresholds, leases and caps. The assumptions say that sets the code keeps finite are finite
(the seconds of a 64-bit clock among them),
numbers are natural numbers, `None` is not a value, the threads are different, the walk of
`total()` meets every address of the table, and that the clock is later than two windows after the epoch.

**InFlightProofs.** `Typing` has beside the types that a counter is below zero only
while the `dec` that took it there holds the shard and has its store of 0 to come (`Credit`). `CountsAreExact` and `NoPhantomRequests` from the inductive
`CountInv == CountExact /\ NoPhantom /\ NoStore`. `NoStore` says that as long as no request has
found the table full, no `dec` is between its subtraction and its store of 0: whoever is counted out
was counted in, so the counter was positive. The store would destroy a concurrent increment, hence
`CountExact` alone is not inductive. Once a request has gone uncounted the store is reached; then only
`NoPhantom` is claimed, that no counter is too high.
`CapHolds` from `CapInv == AdmittedInside /\ AdmittedWithinCap`: an admitted
request is still counted, so the counter the next one reads includes it.
`SubnetsAreExact` is inductive with types.

`CeilingHolds` is about a sum that is true of no moment: `total()` reads one counter
after the other while the others move. What can be said is that a request that was inside
when the scan began, and still is, has been counted (`MetScan`; this needs `CountExact`, and
`OrderAssumption`: `total()` walks the whole table). Of the requests in flight take the one that arrived
last (`LastArrival`). The others were inside when it arrived, and fewer than the cap of those are
left, or the door would not have opened; or they were on a thread at the door, and there are
no more threads than `Threads`. `DoorInv` keeps, for each request that
has arrived, its rank `k` and the two sets `B` and `U` it met. The model needs no variable for them:
`DoorInv` says that such a history exists, an arrival extends it (`StoryGrows`), and every other step
leaves it as it was (`StepsOnward`: nobody turns back to the door). TLC checked it
with the history written out as variables before it was proved.

**ReputationsProofs.** `TypeInv == TypeOK /\ CallsOK`; `CallsOK` says what each
thread's record can be at each point (a worker that persists holds the shard of its
address, the other threads hold none for writing). `BansHold` is a case split on every
step. `BookIsKept`, that the table implements BanBook, needs `FileInv`: a running ban is what the
file says of it, or its shard is write-locked by the call that gave it; so no iterator
gets past it, and no dump contains it. Each step is then matched with a step of BanBook or
a stutter: `Enter` gives a ban and takes its shard, a `Flush` only drops bans (`DropsOnly`), a
restart is bare of locks and reloads what runs. Two consequences are stated on their own. `FileNeverGains` is the
general form of what `ban_hang` shows on an example; `NewBansAreFinal` says that what is stuck
stays stuck, its ban as it is, until the process ends.
`BansAreDeserved` adds `StrikesCounted`: an entry never holds more hits than strikes were
made since its `first_hit`, together with the hits a start carried over (`CarriedSince`) if it was
since then. A new window begins with the strike that opens it, later
ones are at or after it because `Enter` starts a new window otherwise, and a
restart carries over just the hits it reloads, dated at its own clock.

`SomebodyAlwaysGoes` is `NoWaitingCircle` without ENABLED, which `MayGo` replaces by the locks a step takes.
That the two agree, `MayGo` and ENABLED, is part of `NoWaitingCircle` and left to TLC. The theorem follows from `TypeInv`: while no
worker persists, nobody holds a shard for writing between two steps, so an iterator goes on, and if
there is none every shard is free.

**EngineProofs.** `VerdictInv` attaches to each stage what must have been met on the way:
a request past the allow list met a world in which it was not allowed, one past the bans
a world in which it was not banned, one with a calm level a world without the attack
mode. What has been met only grows (`Moves`), so the three verdict theorems
`AllowWins`, `DenyAlwaysHolds` and `NoGapUnderAttack` follow at the last stage.

`SevereBlocked`, `HarmlessAreServed` and `BansEarned` need `FairInv` (checked by TLC on the instance of
`engine` first), which adds to it:

- `Tally`: the score is what the request always scores, plus the parts of some set of detectors that
  have run, plus what a spoofed name adds, at most once. The set lies between the detectors that were
  on throughout (less those the request is spared) and those that were on at some moment, so it
  need not change when the operator patches; the complete score lies between `Least` and `Most`
  (`Within`), which only move apart (`Widen`).
- `Merits`: for each stage and verdict what of the properties' premises is settled by then. The level
  is one that was in force, or Medium because of the flag; the lines to compare with were in
  force, lowered by that level (at most Low's five points, since higher levels never get there); a
  stage that bans has a trap or a score over a line behind it; and a request within
  all ceilings and under all lines is at no stage that leads to a refusal.

**RateLimiterProofs.** `RateLimiterTypeOK`, and `RateLimiterTableBounded`: the table is within
`MaxEntries` and one key for each thread. Inductive is a bound on `Reserved`, the
keys in the table together with those a thread past the capacity test is about to insert.
What the counters count follows from `Counting`, whose parts TLC has checked on the
instance of `ratelimit`:

- `Handles`: a counter belongs to one key, through the table or a thread that cloned it,
  and one that nobody can reach is new. Without it a hit for one key could land in another's counter.
- `Dated`: no clock reading, head or hit is ahead of the clock.
- `Owed`: a slot holds no more hits than were charged in the buckets that share the slot,
  from the oldest of the counter's window on. It holds of every counter, those charged
  by late threads (whose hit moves the head back) and those gc has dropped
  included, and gives `LimitsAreDeserved` (`NoFalseLimit`).
- `Exactness`: `WindowExact`, `ForgottenIsCold`, that the head is the time of a hit
  (`Headed`), and what a thread knows of a key it is not late on (`OnTime`): nothing was charged
  in a later bucket than its reading, the counter it holds is the one in the table, and if
  the table has none, or a new one, its window is empty. `WindowExact` alone is not inductive: the
  clock is read steps before the hit. This gives `WindowsAreExact`,
  `OnlyColdIsForgotten` and, with `Owed`, `VerdictsAreExact`.

**Sums.** A sum over a finite set (`MapThenSumSet`) is the number of elements of a set
of pairs (`SumIsCount`), shown by a least counterexample; from it, that sums grow with their
terms, that one term can be set apart, and that terms matched one to one, or taken from
disjoint parts, sum to no more than the whole. ReputationsProofs, RateLimiterProofs and
EngineProofs use it.

**SettingsProofs.** Of RuntimeFile: `RuntimeFileKeptSurvives`, `RuntimeFileCrashIsAtomic` and
`RuntimeFileStaleWithin`, for any list of fields, from `Alone` (a lone call is the only
one, and nobody has a file open that such a call put in place), `Copied` (it carries a copy of
the settings in force, into an empty file) and `Recent` (no value older than the last clean save
or start is in memory, in a snapshot, in `runtime.json` or in a file still to be renamed). Failing
operations are covered: they leave `runtime.json` alone, and only a torn or unfinished `json.tmp` behind. `SomeUnused` shows by counting that `Create` always finds an inode.
Of AutoUam (whose `UamInit`, `UamNext` and so on carry the prefix so that one module can
take in both models): `AutoUamMovesWithLoad` from `LoopCurrent`: what the loop has read
still holds unless the operator has stored something since the round began.

**TelemetryProofs.** Of Storage: `StorageKeepsPromise`, that it implements LossyLog for any number
of threads, bound and batch size. Beside types the invariant has `Quiet` (no writer, nothing
in flight), `Counted` (the line and the threads about to send make up `queued - drained`),
`Bounded` (for every length `v` the queue may have been seen to have, the threads that passed the
test on it and those still to add to it keep the total within `v` and the number of threads) and `Fresh`
(an event is in one place). `Bounded` is what gives the lemma `Room`: at a `Send` the
line is shorter than the limit. Each step of Storage is then matched with a step of LossyLog
or a stutter.
`NoMiscount` is `Counted` for readers: while the writer lives, the estimate `submit` goes by is
the line, the batch and the threads between the addition and the channel, so it is zero again
once nothing is on its way. That is the safety half of `CatchesUp`.

Of EventLog: `EventLogStreamExact`, from `LogInv`. `All` is the ring with what it held before, in
the order of pushes, so an eviction moves nothing in it. `Distinct`: an event is in one
place. `LastSeen`: the position to resume from is some event's stamp. `Reached`: the stream is past
everything it showed, unless an earlier stamp was pushed after it. That is what makes
`ShownOnce` and `PassedOver`, the two halves of `StreamExact`, inductive.

Of the composition: every step of Telemetry is a step of EventLog or none, and a step of
Storage or none (an event between its two stages, `InHand`, is in neither), so
both results carry over: `TelemetryStreamExact`, `TelemetryKeepsPromise`, `TelemetryTypeOK`.
`TelemetryComposes` says it of whole behaviours: a behaviour of the composition is one of EventLog and
one of Storage. `RecordedFirst` is about both at once: what waits for the disk, or
is on its way to it, was recorded in this process's ring before (`RingFirst`, which needs that
an eviction keeps the history and that a restart empties line and threads together with the ring).

**VisitorProofs.** Of GoodBot: `GoodBotVerdictEarned` is inductive with types: an answer starts the
history's clock and its own lease together, and both run at the same pace. Of Visitor:
`VerdictsAreEarned` is the same in the composition, where the asking is Visitor's, and `EntryIsEarned`
says which steps let a visitor in. `VisitorUsesGoodBot` says that nothing else happens to the cache: a
behaviour of Visitor is one of GoodBot. `EntryIsEarned` needs, beside types, `Answers` (a verdict a tab has read was earned when
it read it), `Scriptless` (a crawler answers no page), `Cookies` (a cookie, and
the age of the solution it was given for, go together) and `Shown` (what a request showed still
holds while it is decided and served, and a puzzle still good was served to who had passed
the check, or was spared it). A token posted to the other page's handler is one more case of both.

Only model-checked: all liveness, `Follows`, `CatchesUp`, `GetsIn`; and of `NoWaitingCircle` that
`MayGo` is equivalent to ENABLED. TLAPS as used here proves no liveness and no statement about ENABLED. The
library's induction rules, which take a predicate as a parameter, cannot be used; where
a proof rests on an induction over data, as Sums does, it argues by a least counterexample. No
module here declares a RECURSIVE operator.

## 5. Where code and text disagree

- `ban_hang`. `record_offence` and `force_ban` call `persist` while they hold their
  entry (core/reputation.rs:136), so with a ban file the first ban leaves its thread
  waiting for itself, and every later access to the shard too. The comment at
  133-134 says the request path never blocks. By the same cause `bans.json` never
  gains a ban, against the comments in proxy/main.rs:43 and proxy/admin.rs:122.
- `inflight_full`. A full table is meant to fail closed (core/connections.rs:20), but the
  result of `inc` is ignored and `current` answers 0.
- `engine_legacy`. The comment at core/engine.rs:249-250 says the legacy toggle keeps
  its own scale; `uam_params` has already turned it into level Medium.
- `runtime_race`. Changes are to survive restarts (core/runtime.rs:4-5); two
  unsynchronised `persist` calls lose an update or tear the file.

Seen while reading and modelling, not the subject of a run of their own:

- A browser behind a trusted proxy gets its integrity cookie for the resolved address and
  shows it from the socket's (proxy/proxy.rs:308-317, 421), so with the check on it
  gets the same page for ever, although "Real browsers pass it" (300-301). `GetsIn`
  is stated for browsers that connect themselves for this reason.
- The global cap is called a "Hard upper bound" (core/runtime.rs:31-33), but requests at the door
  do not see each other: as many as there are threads may pass at once. `GlobalCeiling` is
  the bound that holds, the cap less one and the threads.
- The escalation shares its task with the minute's sweep (proxy/admin.rs:113-123). With the shipped
  settings a ban file is bound (config/waf.toml:92, proxy/main.rs:44-47), so after the first ban
  `reputations.gc()` waits for ever (`ban_hang`): the level stays where the attack took it, and
  nothing is swept, until a restart. `Follows` excludes it, `jammed`.
- Check and puzzle sign the same payload with the same secret, and `/__2t1/verify` asks for no more than
  that and a proof of work (core/challenge.rs:73-83, proxy/proxy.rs:433-456): the check page's token is
  as good there as the puzzle's. `EntryEarned` says so.
- A save that fails is reported as made: the error of core/runtime.rs:342-343 is dropped by its callers
  (proxy/admin.rs:489, 500, 506). After a start from a file that does not parse the path is unset
  (core/runtime.rs:223-228), and no change of that process is saved. `KeptSurvives` says so.
- A restart dates the window of a reloaded ban anew and keeps its hits (core/reputation.rs:70-72), so one offence
  soon after it may ban the address again. `BanDeserved` says so.
- An unban changes memory only (proxy/admin.rs:516): a restart before the next sweep persists brings
  the ban back. BanBook's `Lift` and `Restart` say so.
- A threshold of 0 moves the level up and down between 3 and 4 for ever, against "Don't
  oscillate" (proxy/admin.rs:142); `Follows` asks for a positive one.
- After a restart `last_change` is 0, so the first change of level needs no cooldown.
- Tarpitted requests do not count in `metrics.blocked`, which the loop goes by.
- The live stream is in the order of pushes and resumes by timestamp: `StreamExact`
  says exactly what that repeats and leaves out.
- The cache of core/goodbot.rs:113-115 does not keep a second lookup from starting; a pending
  entry can replace a fresh answer, and a late rejection a verification.
- With a site key but no secret the captcha page is served and answered with 503, against "never
  serve a broken captcha widget" (proxy/proxy.rs:351-352); a secret, once set, cannot
  be emptied by a patch (proxy/admin.rs:483-484). The captcha page does not expire and its handler asks
  for no integrity check.
- `honeypot_paths` is never persisted (core/runtime.rs:317). core/engine.rs:161 says a
  clearance skips everything but three checks; traps and hard limits apply as well.

## 6. What is left

- *Signals*: the windows of RequestReplay, DistributedUa, BehaviorTracker and of the
  subnet's request rate, each anchored at a first request and swept by whichever thread wins
  a compare-and-swap. Engine is checked for every score they may give.
- *Metrics*: the sixty-second ring, the same loop as RateLimiter's, and the capped tables.
- The trap list with its edits; client addresses behind proxies; hard limits.
- Refinements: Engine with BanBook in place of its `MaybeBan` and `Unban`; a *durable settings cell* that RuntimeFile with one writer
  implements; an *exact meter* that InFlight implements while its table has room.

## 7. Not modelled

Regular expressions, scoring heuristics, HTML, SQL, TLS, HTTP parsing and HMAC: data
without control; modules take their outcome as part of the request or as external.
The store's queries and time series, the dashboard and its routes, which only read;
Metrics and Signals (section 6); request parsing and configuration, which are pure; the
redirect listener, which keeps no state.
Weak memory: every atomic is relaxed, and modules interleave sequentially consistent steps;
most properties relate either one atomic to a history or data guarded by a lock,
and `evaluate` loads different atomics in any case as if anything could happen in between. The
exception is Storage, whose two counters are compared: there a load reads
the latest value, and an older value of `drained` would only refuse more, one of
`queued` admit more than the bound says.
Loss of power, overflow of 64-bit counters, and, except in AutoUam, a wall clock that steps back.
