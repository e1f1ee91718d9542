# A TLA+ verification of the 12Gauge Umbrel Community Store

This directory holds TLA+ models of the programs in this repository, the TLC
configurations that check them on small instances, and theorems about them that the
TLAPS proof system checks. It says what is modelled, under which bounds and which
fairness, what the checks and proofs show, and what is left out.

1. [The system](#1-the-system): the components, their state, and what can go wrong
2. [The modules](#2-the-modules): how each corresponds to the code
3. [The runs](#3-the-runs): what each shows, its bounds, its fairness
4. [The proofs](#4-the-proofs)
5. [Disagreements found](#5-disagreements-found)
6. [What is not modelled](#6-what-is-not-modelled)
7. [The plan](#7-the-plan)

Modules are checked with `tlc -workers 2 -config X.cfg M`, and proved with
`tlapm XProofs.tla`. `PROJECT.json` is the index: components, runs, the source
lines of every definition, one plausible bug ("mutant") per property that the property
finds, hazards and theorems.

## 1. The system

The repository ships five Umbrel apps. They do not call each other's code; they meet
only at the network (miners, nodes, dashboards).

### 1.1 Solo pool: `pocisys-bchn-sp` (Go, GoStratumEngine)

A stratum server that turns a node's block templates into mining jobs. Delivered
configuration: solo mode, ZMQ on, a refresh poll every 5 s, stale-share grace 5 s,
variable difficulty applied at new blocks (`on_new_block: true`).

| part | state | operations | concurrent with |
|---|---|---|---|
| job manager `pkg/engine/jobmanager.go` | `jobs`, `currentJob`, `currentTip`, `tipChangedAt` under `jm.mu`; `connectedAddrs` under `addrMu` | `refreshTemplate`, `pruneJobs`, `RegisterAddress`, `UnregisterAddress`, getters | itself: the poll loop and the ZMQ goroutine both refresh; every session goroutine |
| coin runner `coinrunner.go` | callbacks that join stratum and jobs | on authorize: register the address; on disconnect: unregister; broadcast with a per-session customizer | as above |
| stratum server `pkg/stratum/server.go` | `sessions` and `currentJob` under `sessionsMu` | accept, broadcast, stop | sessions coming and going |
| session `session.go` | state, difficulties, mining address under `s.mu` | subscribe, authorize, suggest_difficulty, submit, queue/flush a pending difficulty, job callbacks | its own goroutine against the broadcasters |
| vardiff `vardiff.go` | share window, current difficulty | `RecordShare`, `Reset` | as the session |
| share validator `sharevalidator.go` | `lastBlockSubmit`, without a lock | validate a share, submit a block, verify and count it | one goroutine per session |
| statistics, RPC client, ZMQ `pkg/metrics`, `pkg/noderpc` | counters under their own locks; a socket | record, serve, listen | all |
| coins, coinbase, config, logging, `cmd` | none after start | pure functions, start-up | |
| dashboard `dashboard/main.py` | none | a proxy of the metrics | |

Calls go session → coin runner → job manager (registration, and the coinbase half of an
address), job manager → `onNewJob` → server → every session (broadcast), and session →
validator → job manager, node RPC, statistics. Locks are only taken in the order
`sessionsMu`, `s.mu`, `jm.mu`, `addrMu`. The RPC calls and the broadcast happen outside
`jm.mu`, and messages are written to a miner after the lock that protected their content
was released (`mining.authorize` excepted): that is where the hard behaviours are.

Correct means: an authorized miner always gets complete jobs that pay its own address;
its jobs stay valid while they are retained; it ends up on the node's best block, and
changes block only with `clean_jobs`; miner and server agree on the difficulty, up to a
change on its way; a block found is submitted, and counted once.

### 1.2 Hash monitor: `pocisys-hash-monitor` (Python, asyncio)

| part | state | operations | hard because |
|---|---|---|---|
| LuxOS control `services/luxos_control.py` | per-miner locks and deadlines, health cache, recovery incidents, last schedule target: all in memory | the control loop (health, hashboard recovery, schedule, ceiling) and `execute`, also called by requests | every `await` lets requests, and configuration changes, in; calls fail half done |
| alerts `services/alerts.py` | previous statuses, cooldowns, mutes | `evaluate_miner`, one per poll | state is read, Discord awaited, state written |
| poller, health `poller.py`, `health.py` | latest statuses, hysteresis counters | poll all, classify | polls overlap (loop and request), miners are removed meanwhile |
| pool logs `pool_logs.py` | blocks seen, share history, records, a file | poll a pool's API or tail its log, announce, merge, clear | a clear or a removal races a poll; the process restarts |
| configuration `config_store.py`, `config_transfer.py`, `validation.py` | one dictionary shared by all services, one JSON file | edits of miners, pools, settings and token, each under `config_lock`; backup and restore | the file is written in place; the dictionary is refilled in place while the thread of an MCP request reads it; services are told one by one |
| HTTP application `main.py` | the services above | routes | as above |
| drivers, probes, network data, Hermes MCP, odds, diagnostics, ping, system stats | caches | reads | |
| page `web/` | browser | presentation | |

Correct means: no two actions at once for a miner; the schedule, the profile ceiling and
the hashboard recovery get their way in the end, whatever failed before; one alert per
change and no missed recovery; one odd reading changes no health state; what the dashboard
shows settles on what the miners report; a block is announced once, and what was cleared
stays cleared; the configuration is one value that every edit takes on from the one before.

### 1.3 GPU runtime: `pocisys-gpu-runtime` (Python)

The fan controller (`fan_controller.py`) is one loop that reads the GPU and sends the
fan's duty to an OpenLinkHub; the status server (`status_server.py`) posts commands to
it through one file and reads its status from another; its Safe Test starts inference
only once the fan is confirmed at 100 %. `bootstrap.sh` binds the driver and starts both.
Hard: a call to the hub may fail after it took effect; the hub may come and go; either
process restarts while the files stay; a command file holds only the newest command.
Correct means the fan safety policy of its README: 100 % unless an idle, cool GPU, a
turning fan and a live lease or a calibrated curve are behind anything less.

### 1.4 Pool port: `pocisys-public-pool-port/app` (Python)

A monitor (`main.py`) that classifies block candidates against the node, a store
(`store.py`) of shares, snapshots and events, and read-only views of the pool's
database. Hard: a node that does not answer or reorganises between two rounds; a share
delivered twice. Correct means: a mature block is announced once and a share is kept once.

### 1.5 Gateway: `pocisys-gateway`

Deployment descriptors only.

## 2. The modules

| module | component | about |
|---|---|---|
| `JobManager` | job manager | each critical section under `jm.mu` or `addrMu`, as an action on its own variables |
| `SoloJobs` | job manager with server, sessions and node | EXTENDS `JobManager`, implements `WorkContract`; says which goroutine runs which section, and what happens in between |
| `WorkContract` | | abstract: each miner's account and work, and the block the coin is mined on |
| `StratumSession` | session, vardiff | one session's difficulty and work, its goroutine against the broadcasters |
| `ShareValidator` | share validator | implements `BlockLedger`; block-winning submissions in flight at once, the node, the counters |
| `BlockLedger` | | abstract: what became of each block found, and the count shown |
| `FanController` | fan controller, status server | ticks, commands, hub failures, restarts, the Safe Test's preflight |
| `LuxOSControl` | LuxOS control | implements `MinerControl`; the control loop against requests, failures, configuration changes |
| `MinerControl` | | abstract: who holds a miner, and how far each action on it may drive it |
| `HealthTracker` | health tracker | what one reading says, and the confirmations a state needs: pure operators |
| `AlertEngine` | alert engine | which alerts a reading calls for, and what is remembered of it: pure operators |
| `HashMonitor` | poller, with the two above | EXTENDS `AlertEngine`; overlapping polls, waits for threads and Discord, edits |
| `PoolPort` | pool port | candidate verification against the node, shares stored by threads, as actions |
| `PoolFeed` | pool logs, with the port it polls | EXTENDS `PoolPort`; polls, announcements, clearing, the file, restarts |
| `ConfigRegister` | | abstract: a value that is edited, and lost only with a save cut off |
| `ConfigEdits` | configuration, backups | every edit of a configuration value: pure operators |
| `ConfigStore` | configuration, HTTP application | EXTENDS `ConfigEdits`, implements `ConfigRegister`; commits step by step, crashes, an MCP reader |
| `SoloJobsProofs`, `StratumSessionProofs`, `ShareValidatorProofs`, `FanControllerProofs`, `LuxOSControlProofs`, `HashMonitorProofs`, `PoolFeedProofs`, `ConfigStoreProofs` | | the theorems about these modules (section 4) |
| `MC*` | | the values TLC gives the constants |

Every module states its abstractions in its header. A step is what the code does while
it holds a lock, or one call it makes without one, or (asyncio) from one `await` to the
next. Lines that log, format or measure are left out.

**`JobManager`, `SoloJobs`.** `jobs` is the map of jobs as a sequence, oldest first, since
`Created` and the counter grow together under `jm.mu`; a coinbase half is only present or
missing. A refresh is `Fetch` (getblocktemplate, no lock), `Install` (under `jm.mu`: tip,
clean flag, coinbases of the connected addresses, pruning), `StartBroadcast`, then for each
session under `sessionsMu.RLock` the customizer, `s.mu`, and the write. The poll and ZMQ
goroutines do this independently; `Start`'s own refresh is the first of `Poll`. A refresh that
fails changes nothing and is no step. A session authorizes in the code's steps: count
the address, fill the retained jobs if it is the first, assign, answer with the newest
job, and unregister after it left the table. `Unbuildable` and `HasFallback` cover coins
whose coinbase cannot be built for some address. `WorkContract` is the miners' view of all this. The
refinement mapping: the coin's published block is `currentTip`, the published order is kept while
the ZMQ goroutine has not started, a miner's account is its address while its session is authorized, and its
work is the job last delivered.

**`StratumSession`.** `difficulty`, `prevDiff`, `pendingDiff` are the session's fields, `base`
is vardiff's `currentDiff`, `shares` its window as far as it matters. The value vardiff
computes is any difficulty within its bounds. `told` is the difficulty last written to the
miner. Each `set_difficulty`, and each reset of vardiff's window, is a step of its own after the one that
changed the session's fields under `s.mu`, in the session's goroutine and in both broadcasters, so
changes may cross. The history variables `word` and `window` say whether one did: `kept` until a change
is made while another is on its way (`astray`), `mending` while the next change that is alone is on its
way, and `kept` again when it has arrived. Configurations (solo or pool, `on_new_block`, ZMQ) and
habits of the miner (chooses its difficulty; subscribes and authorizes again) are fixed at the start.

**`ShareValidator`.** A submission passes `CheckTip`, `CheckGrace`, `CheckCooldown` and
`CheckBest` (eCash), `SubmitBlock`, `MarkSubmitted`, `Verify`, one step per lock or RPC. The
node is external: it extends its chain, takes others' blocks, reorganises, parks (eCash),
and a call may fail before or after it took effect. Shares below the block target reach
no further than these checks and change nothing here. What a share is refused for on its own account
is left open (`CheckHash`). A refresh is `Fetch` (the RPC, without a lock) and `Install` (under
`jm.mu`), the poll's and ZMQ's goroutines overlap in them, and an old job is pruned. `BlockLedger` has one fate per block; the
mapping: delivered once the node knows it, accepted while its submission is past `SubmitBlock`, counted
once it is in `credited`.

**`FanController`.** A tick is `Sample`, `Consume`, `Connect` or `HubMissing`, `SelectDuty`, `Send`,
`Publish` in the code's order; each deadline is the time left to it. `Restart` keeps the
files and loses the memory. The status server's requests come between ticks' steps.
`doubt`, `quiet`, `busyAgo` are history variables for the properties.

**`LuxOSControl`.** The loop is `StartHealth`, `ReadHealth`, `ProcessHealth`, then for each board
`CheckBoard` with `Detected`, `Failed` or `Complete` at its notifications, then `Schedule` and
`Enforce`. An action is its `plan`, the awaits ahead of it: it counts the boards, lists the
profiles, sets one, switches the boards one by one, reboots, records. The loop runs
`Execute(Loop)` where it awaits its own action. Deadlines are timers that end at any
later moment. One miner suffices: the code keeps its state per miner and
visits miners in turn; what two miners share is the loop's time only. `MinerControl` knows an action by
its goal and one of three stages; the mapping reads the stage off what is left of the plan: begun while the
profile is still to be set, tuned while only the boards are, over before the notification. The holder is
the lock.

**`HealthTracker`, `AlertEngine`, `HashMonitor`.** A reading holds what the two services look
at; `Judge` is `HealthEngine.evaluate` on it, `Due` the conditions of `evaluate_miner` in their
order, `Remembered` and `Noted` what it writes to `previous`. A poll (the loop's, or that of
`POST /api/poll-now`) is `StartPoll`, per enabled miner `Evaluate` when its thread is back and
`Return` after each alert that waits for Discord, and `Publish` when all miners are done.
Everything between two waits is one step: the state of `previous` is read in `Evaluate` and written
in `Finish`, with other evaluations in between. A grace period or cooldown is a timer that
ends at any later moment. `Reconfigure` removes, disables and re-adds a miner, with what the services
forget then.

**`PoolPort`, `PoolFeed`.** The port's poll loop takes the candidates of one moment
(`StartVerify`) and asks the node about each (`Check`, whose answer may be an error or a block
off the best chain); an HTTP thread reads a share and the clock (`Receive`) and stores it when it
gets the database (`Store`). `PoolFeed` polls it: `Ask`, `Answer`, an `Announce` per new block
(each awaits Discord, whose failure is caught where it is called), `Finish`, or, when the list of shares
is empty, `AskShares`, `SharesAnswer` and `FinishLate`. Both ends are a `Merge`: the shares are merged
and saved if they changed anything, then the record, and saved if it rose; either save may fail, which
ends the poll with memory ahead of the file, and no later poll makes up for it. `Clear`,
`Reconfigure` (with the pool or without it; both save, and may fail to) and `Restart` come in
between. `saved` says whether the last attempt to write succeeded. A list of blocks, which the port gives
newest first, and a list of shares are modelled as the sets of their rows: the order is that of the
identifiers and times the rows carry. A block is announced by its identity, which is its height, session and
worker in the code: `Identity` may give several rows one.

**`ConfigStore`.** `memory` is the dictionary all services share, `file` the JSON file, `Torn`
while it is cut off. An edit (`EditMiners`, `EditPools`, `EditSettings`, `EditToken`,
`RestoreBackup`) computes `new` from the dictionary and opens the file, which empties it; the commit
then goes through `CommitSteps`, one step for the write, two for each section that
`apply_in_place` clears and refills, one for each service that is told. No other request of the
event loop can run in between, which is why there is one `new`: but the process may end, the disk may
be full, the pool service may fail to save its history, and the thread of an MCP request (`Ask`,
`Authorize`, `Respond`) reads in between. `ConfigRegister` says what all this amounts to. The
refinement mapping is: the value is the file, or the dictionary while the file is torn.

## 3. The runs

"Expected" is `pass`, or `violation` where a sentence of the repository is not what the code
does (section 5). Deadlock is checked in every run but `pool_feed`, whose clock, blocks and shares
are bounded.

| run | expected | distinct states | shows |
|---|---|---|---|
| `solo_jobs` | pass | 630,608 | jobs and coinbases stay complete for every authorized miner |
| `solo_jobs_live` | pass | 356,986 | miners end up on the node's best block |
| `stratum_session` | pass | 157,701 | server and miner agree on the difficulty, again after changes that crossed |
| `share_validator` | pass | 3,084,988 | a block is counted once; one the node would take is refused as stale only after an older template was installed late |
| `fan_controller` | pass | 2,717,650 | the fan safety policy, honest status, recovery, preflight |
| `luxos_control` | pass | 497,172 | mutual exclusion; the miner is driven only as the owner allowed; schedule, ceiling, recovery prevail |
| `sleep_not_woken` | violation | | a half-done Sleep is not undone |
| `hash_monitor` | pass | 780,864 | no health state without its confirmations; the engine remembers what it told |
| `hash_monitor_live` | pass | 131,304 | the dashboard settles; outages and their ends are told |
| `false_block_alert` | violation | | a failed poll makes old blocks new |
| `pool_feed` | pass | 2,465,245 | the oldest blocks of a list announced, once; nothing cleared comes back; the file is current after a write that succeeded |
| `config_store` | pass | 3,140,211 | the configuration is one register, sound at every moment |

### Properties

- **`solo_jobs`.** `Coinb2Coverage`: every retained job has a coinbase for every connected
  address whose first session is not just filling it in. The validator reads this map
  without `jm.mu`, so a hole would turn a valid share into "job not found".
  `CountsItsSessions`: where miners authorize once, an address is counted exactly for the
  sessions that use it, so that it stays while one of them does and goes with the last.
  `ImplementsContract`: the pipeline is a `WorkContract`. A miner gets work only while its account is
  open, complete and paying that account; for a block the node has seen; and in polled order only for
  the published block, with `clean_jobs` if it leaves another one (with two refreshers that fails:
  section 5, item 4). What these mean for one session is stated as `AuthorizedCovered`,
  `NotifiedComplete`, `PaysOwnAddress` and `CleanOnTipChange`, which follow and are theorems (section 4);
  a bug in the code that breaks one of them breaks the contract or the count too.
- **`solo_jobs_live`.** `WorksOnTip`: an authorized miner ends up holding a job on the node's
  tip, though its authorization may have found no job, and though a stale template may have
  overwritten a newer one: the next refresh repairs both.
- **`stratum_session`.** `ToldDifficulty`: the miner works at the session's difficulty or, while
  a change is on its way, at the one before it, and these are the two the validator accepts.
  `VardiffTracks`: vardiff measures the difficulty the miner has, except between its own decision and
  the delivery. Both are stated in the delivered configuration too (ZMQ, changes at new blocks, a miner that
  chooses its difficulty), where no lock orders two goroutines' changes on their way to the miner: after two
  have crossed either may be wrong, and what the properties say is that the next change that is alone on
  its way puts it right. `VardiffTracks` also excepts, until vardiff's next delivery, a difficulty
  the miner chose itself, which the code does not tell vardiff. `QueuedTakesEffect`: a queued difficulty
  leaves the queue only by taking effect, or with its session, whoever else sets difficulties;
  `PendingDelivered`: and it does.
- **`share_validator`.** `ImplementsLedger`: the life of each block is that of `BlockLedger`, though
  submissions repeat, answers are lost and the chain reorganises: it is given to the node once,
  and counted, once, only after the node took it as its tip and while it is on the chain; one that could
  not be confirmed then is never counted. So the count is that of the distinct blocks confirmed
  (`CreditedOnce`, a theorem). `NoBlockLost`: a share on the node's own tip is refused as stale only
  after refreshes overlapped and the older template was installed last, or after an eCash node went back to
  an earlier tip. The first does happen (section 5, item 4): the property says that it is the only way, so
  that a refused block asks for nothing but an order of the refreshes.
- **`fan_controller`.** `PolicyKept` is the fan safety policy of the app's README as a whole.
  `HonestStatus`: a status "online" never names a higher duty than the fan has.
  `Converges`: one heartbeat after the last failure the fan runs the selected duty.
  `PreflightAtFull`: inference starts at 100 %. These four except calls that failed and left
  the hub's state unknown (`doubt`), which no controller could know. `LoweredWithReason` excepts nothing:
  whatever failed before, the fan slows down only on an idle, cool GPU after the cooldown and the
  reconnect hold, with a turning fan or one just commanded, and either by the temperature curve or in a
  calibration that has tested every higher duty.
- **`luxos_control`.** `ImplementsControl`: the service is a `MinerControl`. Profile and boards change
  only by an action the owner armed, begun under a free lock with the configuration of that
  moment; never to a profile above the normal one; and a start after Sleep turns boards on only
  once the profile was set, also when commands fail half done, or the miner is removed under the
  action, which drops its lock: only then may two actions overlap (`OneAtATime`, a theorem).
  `ScheduleFollowed`, `CeilingEnforced`, `SickBoardRestarted` are the loop's three purposes as
  liveness: if from some moment on the miner answers and nobody asks for anything, the schedule's
  profile, the ceiling, and the restart of a sick board happen again and again.
- **`hash_monitor`.** `ConfirmedHealth`: a miner becomes Warning only for a fault its last two
  readings share, Unhealthy only for one the last three share, and an alarmed miner Healthy only
  after two readings without one, whichever polls they come from. `NewsRemembered`: between
  evaluations, what the engine remembers of a miner (offline alerted, chips degraded) is what it
  told. Excused are evaluations that overlapped, which do lose or repeat news, and what a
  recovery of hashboards keeps quiet.
- **`hash_monitor_live`.** `LatestSettles`: once nothing changes, the dashboard shows what every miner
  reports, though an older poll may publish last. `OutcomeTold`: a miner that stays away is
  reported as offline, and one that came back is not, in the end.
- **`pool_feed`.** `NewestKept`: the ten shares the port keeps are the newest of all, however
  its threads overtake each other. `BlocksAnnounced`: a poll tells of every candidate of its list with
  fewer than `Shown` older ones before it; the others are never told of (section 5, item 6). `AnnouncedOnce`: no
  identity is told of twice while the process runs, though only the last poll is remembered, candidates
  become listed in any order, and two rows may have one identity. Excepted is an identity whose rows have
  another between them, in a list too long to be looked at as a whole: TLC shows it told of twice when the
  exception is dropped and rows 1 and 3 share an identity. `ClearedForGood`: no share, and no record, from
  before a clear comes back, from a poll under way or from the file, also after a later clear whose save
  failed. `FileCurrent`: as long as the last attempt to write succeeded, a restart loads what was
  shown, though a merge that finds no change does not write; after a failure it may not (section 5, item
  10). `RecordHolds`: the record is the highest of all, also when it was loaded from a file that was
  written only in part of what changed.
- **`config_store`.** `ImplementsRegister`: the store is a `ConfigRegister`, the refinement of section
  4. `TypeOK` includes soundness of the dictionary at every moment, also half refilled: Discord and
  Hermes are on only with what they need, and no identifier is there twice. `AuthorizedTogether`: an
  MCP request never gets in by the switch of one configuration and the token of another.
  `ControlsFollow`: after an edit was answered, alerts and controls work from it.

Each module also has one `TypeOK`, which includes the relations between program counters
and data that the other properties rest on.

### Bounds

| module | bound | why it is enough |
|---|---|---|
| `SoloJobs` | 2 sessions, 2 addresses, 2 tips, `MaxJobHistory` 2 (10 in the code), `MaxCount` 2 per address | two sessions share or do not share an address; two refreshes overlap over one block change; the history is full after two jobs, so pruning and a pruned broadcast happen. Sessions and addresses are symmetric in the safety run only |
| `SoloJobs`, live | 1 address | the property is per session; without symmetry, which liveness does not allow |
| `StratumSession` | 2 difficulties, `MinShares` 2 (4 in the code), 5 scenarios | a change needs two values; a window that fills and one that does not; the scenarios are the delivered configuration, the same with a miner that starts over, changes in the middle of a block with all habits, pool mode without ZMQ and changes at new blocks, and pool mode with both. |
| `ShareValidator` | 2 sessions, 2 refreshers, 1 winning nonce, 3 jobs of which 2 are retained and chain height 2 (2 jobs and height 1 for eCash), both kinds of coin | the same share twice by one session and two sessions' blocks for one height; a block, then one on top of it; two templates in flight, the older installed last; a third job prunes the first. eCash adds the cooldown and parking, which two jobs and blocks for one height reach: the first block parked and submitted again, the second held back by the cooldown; more of either would only repeat what the other coin shows |
| `FanController` | duties 100 and 40; 45, 58 and 70 °C; posted are manual 40 and automatic, besides the Safe Test's own 100; a tick is one unit; `BusyHold` 3, `ReconnectHold` 2, `Heartbeat` 2, `Settle` 1, leases 2, preflight 1 | both ends of the temperature curve and its middle; every deadline ends within the run and outlasts at least one tick, and their order (busy > reconnect, heartbeat > settle) is the code's |
| `LuxOSControl` | 1 board, 2 profiles, 1 request at a time; 2 boards and no requests in `sleep_not_woken` | a low and a normal profile, and a curtailed one above the normal; a request against the loop is where actions meet; a batch over boards can be half done with two. `ImplementsControl` for more boards rests on its theorem |
| `HashMonitor` | 1 miner, the loop and 1 request, 2 pools, 4 readings (3 in the live run) | two evaluations of one miner overlap; the code keeps its state per miner, and what miners share is the publication of a poll. The readings are: no answer, fine, chips that fail, a hashboard recovery on the other pool; a block found with the best share |
| `PoolFeed` | 3 blocks, of which the second and third have one identity; 1 identity looked at (10 in the code); 2 headers, clock 0 to 1, no more than 3 blocks and shares stored together, 1 share kept (10 in the code), node answer 6 | a list longer than what is looked at, in which a row that is listed late pushes another out; a block found before and after the first look; a share that is stored again after it was dropped; equal times and different ones; a table that is full. Blocks and shares meet only in a poll, so all of both at once would multiply states and add no case. One answer: what the node says changes a row's status, which the feed does not look at |
| `ConfigStore` | 3 miner identifiers, 2 places, 2 pools, lists of at most 2, 2 tokens, 5 forms, 5 edits | an item posted, changed, removed, reordered; a backup that repeats an identifier and needs fresh ones; a second token after a deleted one; a form of each kind that is refused or accepted; a failed save, or a crash, between edits. Identifiers not in the backup are symmetric |

The bounds in guards that the code does not have are `MaxCount`; `MaxJobs` and `MaxHeight` on
refreshes and blocks; `MaxBlocks`, `MaxTime` and `MaxFound` in `PoolPort`; `MaxItems`, `MaxToken` and
`MaxEdits` in the configuration store. Where the code has a limit of its own (jobs retained, shares kept,
blocks looked at), the run's value is below what the run creates, so that the limit is reached. Beyond
the bounds the proofs of section 4 take over, which hold for any of them; the liveness properties are
checked within them only.

### Fairness

- `SoloJobs` (`FairSpec`): the poll goroutine runs, and the node answers it (weak fairness of its fetch, of installing and
  of each broadcast step), and so do the session handlers. Getting `s.mu` for a broadcast has
  strong fairness: a Go mutex hands itself to a waiter that has starved for 1 ms. Neither new
  blocks, nor ZMQ, nor miners are fair.
- `StratumSession` (`FairSpec`): goroutines that can run do, `s.mu` as above, and new blocks keep
  coming (strong fairness of a clean broadcast), without which no queued difficulty is due.
- `LuxOSControl` (`Spec`): the event loop runs coroutines that can run, every call to the miner
  and to Discord has a timeout, and deadlines pass (`TimersEnd(timers)`, all those set). The
  miner, the time of day and the user are not fair, so its liveness properties are conditional
  on being left alone from some moment on.
- `HashMonitor` (`FairSpec`, in `hash_monitor_live`): the loop polls again, threads and Discord
  calls return (both have time limits), polls publish, and the time passes that an offline alert
  waits for. Requests, miners and edits are not fair: the properties ask for a moment after which they
  leave the system alone.
- `ShareValidator`, `FanController`, `PoolFeed` and `ConfigStore` state safety only. `Converges` is bounded liveness: it counts
  time since the last failure, and needs no fairness.

## 4. The proofs

The theorems hold for every value of the constants: any number of sessions, addresses,
tips, difficulties, any history length, any coin and scenario, any miners, pools, backups and tokens. They rest on the assumptions
named in the modules (finite `Sessions`, `MaxJobHistory` at least 1, difficulties positive, null
values outside what they stand in for, ...), which TLC evaluates in the passing runs.

**`SoloJobsProofs`**

| theorem | property | argument |
|---|---|---|
| `TypeCorrect` | `TypeOK` | inductive as `TypeInv` = `TypeOK /\ HeldData`: a handler or a broadcast that is past its first step has data of the right kind in its hands |
| `CoverageHolds` | `Coinb2Coverage` | inductive given `TypeInv`. A new job covers all connected addresses; a count going up from 0 makes its session a filler; filling covers them again |
| `AuthorizedCoveredHolds` | `AuthorizedCovered` | needs `CountInv`: `connectedAddrs[a]` is at least the number of references sessions have to `a`, held or being claimed. So an address that a session uses is connected, and coverage applies |
| `NotifiedCompleteHolds` | `NotifiedComplete` | a job is only served with its second half, and filling or building a second half comes with a first one |
| `PaysOwnAddressHolds` | `PaysOwnAddress` | a broadcast is customized and handed over for the address of the session that it was read from |
| `CleanOnTipChangeHolds` | `CleanOnTipChange` | with polling alone there is one refresh at a time, and everyone with work either has it for the current tip, or the newest job is clean and on its way (`WorkInv`). That nobody is passed over needs `AuthorizedCovered` and the invariant of `PaysOwnAddress` |
| `CountsItsSessionsHolds` | `CountsItsSessions` | inductive: each step of a session changes the count of an address and the set of its users together (authorize adds it to both, the removal callback takes it from both), by one (`CardBounds`) |
| `Implements` | `ImplementsContract` | the refinement, step by step (`StepImplements`). A job given to a miner is for a tip the node has had (`TipInv`: jobs, templates in flight and broadcasts), in polled order the published one (`OrderInv`, with `WorkInv`), and nobody who left is given any (`GoneInv`) |

`CountInv` is an inequality: re-authorization can leave a count too high (section 5, item 1), never
too low; the proof shows that this is the harmless direction for coverage. Where miners authorize
once it is an equality (`CountsItsSessions`). The lemmas before
it (`RefsFinite`, `CardBounds`) are about cardinalities when one reference moves.

**`StratumSessionProofs`**

| theorem | property | argument |
|---|---|---|
| `TypeCorrect` | `TypeOK` | with `HeldData`, as above |
| `ToldDifficultyHolds` | `ToldDifficulty` | `IInv`: what the scenario rules out (`ModeInv`: with mid-block changes nothing is queued, with changes at new blocks the session does not send them itself), and, unless a change went astray, what is on its way to the miner is one change, the difficulty in force (`OnItsWay`). Holds in every scenario, the delivered one among them |
| `VardiffTracksHolds` | `VardiffTracks` | from the same `IInv`: unless a change went astray, so is what is on its way to vardiff's window (`InWindow`), and a change in the middle of a block is to what vardiff computes from next (`Decided`) |
| `QueuedTakesEffectHolds` | `QueuedTakesEffect` | `Unqueued`: a share is measured, and its adjustment queued, only while nothing is queued, for the goroutine that looks is the only one that queues. `sendMidBlockDifficulty` clears the queue, but where it runs nothing is queued (`ModeInv`) |

**`ShareValidatorProofs`**

| theorem | property | argument |
|---|---|---|
| `TypeCorrect` | `TypeOK` | the chain stays a chain of blocks when it grows, is reorganised or parked (`ChainSteps`) |
| `CreditedOnceHolds` | `CreditedOnce` | `NotYetCounted`: a submission past submitblock is not counted yet. The node took it as new, what is counted is known to the node, and two sessions never submit the same block (`OwnShares`: the extranonce) |
| `NoBlockLostHolds` | `NoBlockLost` | without parking the chain makes progress in a measure (`Progress`), so every job and every template in flight is the node's tip or behind it (`NeverAhead`), in whatever order they are installed. The manager's tip is that of the job installed last (`TipOfNewest`). So a share that fails the comparison with it is for a tip the node has left, or for one that an older template was installed after (`LeftBehind`): but for the latter the grace period is not what saves blocks |
| `Implements` | `ImplementsLedger` | the refinement, step by step (`StepImplements`), from `NotYetCounted` and `OwnShares`: a step of one submission changes the fate of its own block and of no other (`FateOf`) |

**`FanControllerProofs`**

| theorem | property | argument |
|---|---|---|
| `TypeCorrect` | `TypeOK` | with: a command that is new is there |
| `HonestStatusHolds` | `HonestStatus` | `Hub`: until a call fails the hub runs what it last accepted, or 100 after a stop or an error; a duty that is not sent because it did not change is the one last accepted (`Sent`) |
| `PolicyKeptHolds` | `PolicyKept` | `Selected`: what `_select_duty` and the RPM failsafe return below 100 has every reason of the policy (`SelectReasoned`, `FailsafeReasoned`), and keeps it until it is sent. `Cooldown`: `busy_until` is never nearer than 60 s after the last busy sample, if the controller could record it |
| `ConvergesHolds` | `Converges` | `Undisturbed`: a duty accepted after the last disturbance is what the hub runs, and one accepted before it is older than the heartbeat, hence sent again |
| `LoweredWithReasonHolds` | `LoweredWithReason` | `Excused`: a duty below 100 that is selected and not sent yet has all those reasons; a calibration step was tested after those above it (`Ladder`), one at a time |
| `PreflightAtFullHolds` | `PreflightAtFull` | `Claimed`: the preflight's command is unread or has become a lease of 100, which outlasts the wait (`PreflightWait < ForceLease`: 8 s and 30 s). `Confirmation`: so the fan a status confirms is still at 100 when it is read, also over the next ticks |

They hold for any calibration order that starts with 100, any samples and any lengths of ticks,
leases and holds. A restart re-reads the command file, which is why a lost lease comes back.

**`LuxOSControlProofs`**

| theorem | property | argument |
|---|---|---|
| `TypeCorrect` | `TypeOK` | inductive as `TypeInv`, which adds what each stage of the loop has in its hands: a board while it restarts one, an action of its own exactly where it awaits one |
| `OneAtATimeHolds` | `OneAtATime` | `LockHeld`: an actor in progress holds the miner's lock, or is an orphan of a lock that was dropped with the miner. `Begin` needs the lock free |
| `ImplementsControlHolds` | `ImplementsControl` | the refinement, one lemma per action (`BeginRefines`, `SetProfileRefines`, `SwitchRefines`, ..., `NextRefines`). Its invariant is `PlanInv`: what is left of a plan is an end of the plan its action was begun with (`Rest`), and the profile is next in it only after the comparison with the normal one |

**`HashMonitorProofs`**

| theorem | property | argument |
|---|---|---|
| `TypeCorrect` | `TypeOK` | step by step: what a poll holds of each of its miners is a task of one of the stages |
| `ConfirmedHealthHolds` | `ConfirmedHealth` | `Judged`: a count of one or two is backed by the last one or two readings, so the reading that brings a fault to its third confirmation is the third to show it (`JudgeConfirmed`). Two polls may overlap: a reading is judged in one step |
| `NewsRememberedHolds` | `NewsRemembered` | `Sound`: while no evaluation of a miner is under way the engine remembers what it told; while one is alone, what it will remember is what was told and what it has still ahead (`Tracks`); while two overlap, or after that, the miner is excused |

**`PoolFeedProofs`**

| theorem | property | argument |
|---|---|---|
| `TypeCorrect` | `TypeOK` | with the sources of what a poll holds |
| `NewestKeptHolds` | `NewestKept` | the first `Kept` of a set in a total order are unchanged when more is added and cut off again (`FirstOfMore`): what a pruning drops has `Kept` newer rows before it, for good |
| `ClearedForGoodHolds`, `FileCurrentHolds`, `RecordHoldsAlways` | `ClearedForGood`, `FileCurrent`, `RecordHolds` | one invariant, `FeedInv`: shares in a poll's hands are the port's, and memory and file are two copies of one kind (`Sound`), each fit to be the next that is remembered: its record covers its history, both are newer than the last clear the user was told of, and its reset is no earlier. So a file that was left behind by failed saves still brings nothing back that was cleared; the two are equal as long as the last write succeeded |
| `AnnouncedOnceHolds` | `AnnouncedOnce` | `Announcing`: an identity that was announced is among those last seen, or so many older ones are listed that it is not looked at (`FewLooked`), which stays so when the list grows unless another row may come between its rows (`LeftStays`) |
| `BlocksAnnouncedHolds` | `BlocksAnnounced` | from the same invariant: what a poll looks at was announced or is still to be, and the poll is not over before that. Holds for lists of any length |

**`ConfigStoreProofs`**

| theorem | property | argument |
|---|---|---|
| `TypeCorrect` | `TypeOK` | every edit of a good configuration is a good configuration (`MinerEdits`, `PoolEdits`, `SettingsChanged`, `TokenMade`, `Restored`, ...), which rests on lemmas about lists (`DroppedFine`, `PostedFine`, `ReorderedFine`, `CleanItemsSound`: no identifier twice, whatever a backup holds). A section that is empty has nothing on, and one that is refilled is good: so every mixture of an old and a new configuration is sound, section by section |
| `AuthorizedTogetherHolds` | `AuthorizedTogether` | `Tokens`, `Requests`: the token being committed is none, the old one, or one nobody was shown yet; so a request that saw one token finds that one, none, or one newer than the one it carries |
| `ControlsFollowHolds` | `ControlsFollow` | `Told`: alerts and control are told before the pool service, the only one that fails |
| `Implements` | `ImplementsRegister` | the refinement, step by step (`StepImplements`): beginning an edit exposes the register, the write completes the edit, removing a torn file loses it, and all else is a stutter. It needs `Committing` (the file is what the dictionary is becoming) and `Refilled` (when the commit is over the dictionary is what the file says) |

The edits are the same operators the code's handlers are translated to, and `Edited` says of each
what it may change and what it must keep: the settings form no token, a token nothing else, a
backup no credential.

So every safety property of a passing run, and every refinement, is proved. `AuthorizedCovered`, `NotifiedComplete`, `PaysOwnAddress`, `CleanOnTipChange`, `CreditedOnce` and
`OneAtATime` are proved on their own, for they are what the refinements are proved from; no run
lists them: every error in the code that was tried against them also breaks the refinement of their
module, or `CountsItsSessions`. Only
model-checked is what is out of TLAPS' reach: liveness under fairness (`WorksOnTip`, `PendingDelivered`,
`ScheduleFollowed`, `CeilingEnforced`, `SickBoardRestarted`, `LatestSettles`, `OutcomeTold`). So would be
anything about ENABLED, induction over data with an operator parameter, and modules with RECURSIVE
operators; none of them is used here.

## 5. Disagreements found

Two runs show the code to do something other than what the repository says of it:

| run | the repository says | the code does |
|---|---|---|
| `sleep_not_woken` | `web/index.html:328`: outside the peak period the schedule starts the boards | it compares with the target it applied last, which a half-done Sleep did not change |
| `false_block_alert` | `web/index.html:186`: a block alert for "any miner's block counter increases" | a failed poll has a count of zero and is remembered (`alerts.py:420`); the next good one finds it increased |

Others were met while modelling. They are in the modules, as the code has them, and no run repeats
them:

1. `jobmanager.go:455`: an address is removed "when no more sessions reference it". It is counted at
   every `mining.authorize` and uncounted once (`jobmanager.go:460`), so an address that was authorized
   before another one on the same connection stays. It goes with its last session where miners
   authorize once (`CountsItsSessions`).
2. `sharevalidator.go:27`: submissions within the eCash cooldown "are suppressed". The cooldown is
   checked before, and marked after, two RPCs, without a lock: two sessions may both pass
   (`sharevalidator.go:236`).
3. `session.go:436`: the resent job lets the miner apply a difficulty "without discarding work". In
   solo mode the server's `currentJob` is the base job, without its second coinbase half (only with
   `on_new_block: false`, which is not the delivered setting).
4. `jobmanager.go:151`: `CurrentTip` "returns the current best block hash". A template that was fetched
   earlier can be installed later (`jobmanager.go:211`), and takes the tip back until the next refresh: in
   `SoloJobs` miners are sent back to the old block, and in `ShareValidator` a share for the node's tip is
   refused as stale when the grace period is over (`Overtaken`).
5. `README.md:67` of the GPU runtime: 60 seconds at 100 % after load. The cooldown starts where the duty
   is selected (`fan_controller.py:568`), which is skipped while the hub is away.
6. The pool port lists its candidates newest first (`store.py:98`), and the feed looks at the last ten
   of the list (`pool_logs.py:353`), which suits the stock pool's order: from the eleventh on, a new
   block of the port is not announced, and one that is listed after newer ones can push them out.
7. A pool that is posted replaces one of the same mode whose log path is the same (`main.py:474`), and
   in API pools it is empty in both: a second API pool replaces the first, while the page says "Local
   pool monitor added." (`dashboard.js:1536`).
8. A backup made before the safety notice existed keeps the acknowledgement of the installation and
   brings its own switch (`config_transfer.py:94`): LuxOS control can be on where nobody acknowledged
   it, which the settings form refuses (`main.py:601`).
9. `sharevalidator.go` accepts the session's difficulty and, within a grace period, the one before it. In
   the delivered configuration (ZMQ, `on_new_block`, `suggest_difficulty` accepted) the session's goroutine
   and two broadcasters change the difficulty under `s.mu` and write it to the miner after giving it up
   (`session.go:313`, `session.go:401`): two changes may arrive in the other order, and the miner works at
   a third difficulty until the next change. Nor is vardiff told of a difficulty the miner chose
   (`session.go:182`, `session.go:308`).
10. A save of the share history that fails (`pool_logs.py:184`) ends the poll (`pool_logs.py:468`) after
   memory was changed. The next poll finds no change and does not save, so until something else changes
   a restart loses the share or the record that was shown.

## 6. What is not modelled

- Pure encoding (addresses, scripts, coinbase bytes, merkle roots, JSON, stratum framing), logging,
  presentation, deployment descriptors, start-up wiring: sequential, or beyond what state
  exploration is for.
- Vardiff's arithmetic (`vardiff.go:192`), the worker table of the statistics and its eviction
  (`stats.go:195`), accepting and stopping connections and the extranonce counter (`server.go:242`), the
  pool mode branch of `refreshTemplate`: planned (below).
- The tail of a mounted pool log (`_scan` with its offsets and rotation): planned. A pool's log
  feeds the same announcements and merges as its API.
- Snoozing and the list of recent alerts: a snooze keeps a raised alert from Discord and changes nothing else.
- The port's events and mempool figures, the odds, the diagnostics, the MCP tools' answers: views of
  state that other components keep. The miner drivers and probes: stateless reads of vendor JSON.
- Display order: it is presentation (a restore resets it). Names, thresholds and labels of the
  configuration: no property depends on them.
- Model downloads, `llama.cpp`, `bootstrap.sh`: processes outside the repository's own logic.
- `LuxOSControl`: how long a Discord notification takes against the 15 s action cooldown, and so
  whether a recovery can overtake a user's own profile change; TLC has no such clock there.

## 7. The plan

Modelled first was what the solo pool exists for, then the two controllers of hardware.

1. Done, each with its proofs: `JobManager`, `SoloJobs` (composition of job manager, broadcast and
   sessions), `StratumSession`, `ShareValidator`, `FanController`, `LuxOSControl`, the hash monitor's
   poller with health and alerts (`HashMonitor`), the pool port with the feed that polls it
   (`PoolFeed`), the configuration (`ConfigStore`) with its abstract specification.
2. Models to write next, in this order:
   - the log tail of `PoolFeed` (offsets, rotation, truncation);
   - `VarDiff` as pure functions, against the target rate as the reference; `StratumServer`
     (accept, stop, extranonce); `Workers` (eviction in the statistics); the pool mode branch.
3. Abstract specifications: `ConfigRegister`, `WorkContract`, `BlockLedger` and `MinerControl` are stated,
   checked and proved to be implemented. Left: the feed (`PoolFeed`) as a list of shares and records that
   is only cleared on request; the alert engine (`HashMonitor`) as news per miner that alternate.
4. Proofs: the refinements left in item 3.
