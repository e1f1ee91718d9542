----------------------------- MODULE HashMonitor -----------------------------
(***************************************************************************)
(* MinerPoller (pocisys-hash-monitor/services/poller.py) with the health   *)
(* tracker and the alert engine it feeds.  The poll loop and any number of *)
(* dashboard requests (POST /api/poll-now) poll all enabled miners, each   *)
(* in a task of its own, and publish the statuses when all tasks are done. *)
(*                                                                         *)
(* All of them are coroutines of one event loop.  A task waits while a     *)
(* thread reads the miner, and again at every alert that goes to Discord:  *)
(* a step below runs from one wait to the next.                            *)
(*                                                                         *)
(* Abstractions.  The miners are of type luxos.  The loop's pause, which   *)
(* ends with its interval or with the wake event, ends at any moment.      *)
(***************************************************************************)
EXTENDS AlertEngine, FiniteSets

CONSTANTS
  Miners,
  Clients,      \* dashboard requests that may poll at once
  Entries,      \* what an edit may leave of a miner's entry: "on", "off" (not enabled) or "gone"
  Readings,     \* what a miner may report
  Idle,         \* a poller that does not poll
  NoStatus,     \* a miner without published status
  NoCount       \* best_diff has no entry; no block count read yet

ASSUME ReadingsAssumption == Readings \subseteq Reading
ASSUME EntriesAssumption == "on" \in Entries /\ Entries \subseteq {"on", "off", "gone"}

VARIABLES
  truth,        \* what each miner reports (external)
  config,       \* per miner: the state of its entry
  \* memory of the services
  trackers,     \* HealthEngine.trackers
  previous,     \* AlertEngine.previous
  bestDiff,     \* AlertEngine.best_diff
  timers,       \* grace periods and alert cooldowns that run, per miner
  latest,       \* MinerPoller.latest: the reading each published status shows
  tasks,        \* per poller: Idle, or the task of every miner it polls
  \* history, for the properties
  told,         \* what the alerts raised so far say about each miner
  excused,      \* what they may get wrong
  recent,       \* the last two readings judged, newest first
  counted       \* the highest block count read

Loop == "loop"
Pollers == {Loop} \cup Clients

history == <<told, excused, recent, counted>>
memoryVars == <<trackers, previous, bestDiff, timers>>
vars == <<truth, config, memoryVars, latest, tasks, history>>

Grace(m) == {g \in {"offline", "pool"} : <<m, "grace", g>> \in timers}
Graces(m, gs) == {<<m, "grace", g>> : g \in gs}
Cooldown(m, alert) == <<m, "cooldown", alert>>
Timers == (Miners \X {"grace"} \X {"offline", "pool"}) \cup (Miners \X {"cooldown"} \X Cooled)

Asked == [stage |-> "asked"]
Done(r) == [stage |-> "done", reading |-> r]

Task ==
  {Asked} \cup {Done(r) : r \in Readings}
    \cup [stage : {"alerting"}, reading : Readings, memory : Memory, plan : SUBSET Alerts]
IsPoll(work) == \E S \in SUBSET Miners : work \in [S -> Task]

ASSUME IdleAssumption == ~ IsPoll(Idle)

Ongoing(p, m) == tasks[p] # Idle /\ m \in DOMAIN tasks[p]
InStage(p, m, stage) == Ongoing(p, m) /\ tasks[p][m].stage = stage
Alerting(m) == {p \in Pollers : InStage(p, m, "alerting")}

Channels == {"offline", "chips"}

TypeOK ==
  /\ truth \in [Miners -> Readings]
  /\ config \in [Miners -> Entries]
  /\ trackers \in [Miners -> Tracker]
  /\ previous \in [Miners -> Memory \cup {NoMemory}]
  /\ bestDiff \in [Miners -> Nat \cup {NoCount}]
  /\ timers \subseteq Timers
  /\ latest \in [Miners -> Readings \cup {NoStatus}]
  /\ \A p \in Pollers : tasks[p] = Idle \/ IsPoll(tasks[p])

\* The services start with nothing remembered.
Init ==
  /\ truth \in [Miners -> Readings]
  /\ config = [m \in Miners |-> "on"]
  /\ trackers = [m \in Miners |-> NewTracker]
  /\ previous = [m \in Miners |-> NoMemory]
  /\ bestDiff = [m \in Miners |-> NoCount]
  /\ timers = {}
  /\ latest = [m \in Miners |-> NoStatus]
  /\ tasks = [p \in Pollers |-> Idle]
  /\ told = [m \in Miners |-> {}] /\ excused = [m \in Miners |-> {}]
  /\ recent = [m \in Miners |-> << >>] /\ counted = [m \in Miners |-> NoCount]

-----------------------------------------------------------------------------
(* Polling                                                                  *)

StartPoll(p) ==
  /\ tasks[p] = Idle
  /\ tasks' = [tasks EXCEPT ![p] = [m \in {n \in Miners : config[n] = "on"} |-> Asked]]
  /\ UNCHANGED <<truth, config, memoryVars, latest, history>>

NewsAfter(m, alert) ==
  CASE alert = "offline" -> told[m] \cup {"offline"}
    [] alert = "recovered" -> told[m] \ {"offline"}
    [] alert = "chip-health" -> told[m] \cup {"chips"}
    [] alert = "chip-health-recovered" -> told[m] \ {"chips"}
    [] OTHER -> told[m]

\* What the engine knows of what it told.
Recalled(memory) ==
  IF Known(memory) THEN {c \in Channels : \/ c = "offline" /\ memory.offlineAlerted
                                          \/ c = "chips" /\ memory.chipDegraded}
                   ELSE {}

\* What the engine forgets without an alert: a recovery while hashboards are being recovered, and
\* the chips while they are in the care of automatic recovery.
Muted(t) ==
  {c \in Channels : \/ c = "offline" /\ t.reading.armed /\ t.reading.quiet
                    \/ c = "chips" /\ t.reading.armed}

\* emit raises an alert, unless it was sent shortly before.
Emitted(m, alert, t, ts) ==
  IF alert = "best" THEN bestDiff[m] # NoCount /\ t.reading.best > bestDiff[m]
                    ELSE alert \in Cooled => Cooldown(m, alert) \notin ts

Raise(p, m, t, ts, alert, rest) ==
  /\ timers' = ts \cup (IF alert \in Cooled THEN {Cooldown(m, alert)} ELSE {})
  /\ tasks' = [tasks EXCEPT ![p][m] = [t EXCEPT !.plan = rest, !.memory = Noted(@, alert)]]
  /\ told' = [told EXCEPT ![m] = NewsAfter(m, alert)]
  /\ UNCHANGED <<previous, bestDiff, excused>>

BestAfterUnguarded(m, t) ==
  IF ~ t.reading.api THEN bestDiff[m]
  ELSE IF t.plan # {} /\ bestDiff[m] # NoCount /\ bestDiff[m] > t.reading.best THEN bestDiff[m]
  ELSE t.reading.best

\* A new best was the last alert, if it was raised.
BestAfter(m, t) ==
  IF ~ t.reading.api \/ ~ Reported(t.reading.best) THEN bestDiff[m]
  ELSE IF t.plan # {} /\ bestDiff[m] # NoCount /\ bestDiff[m] > t.reading.best THEN bestDiff[m]
  ELSE t.reading.best

Finish(p, m, t, ts) ==
  /\ previous' = [previous EXCEPT ![m] = t.memory]
  /\ bestDiff' = [bestDiff EXCEPT ![m] = BestAfter(m, t)]
  /\ timers' = ts
  /\ tasks' = [tasks EXCEPT ![p][m] = Done(t.reading)]
  /\ excused' = [excused EXCEPT ![m] =
       IF Alerting(m) \ {p} # {} THEN Channels
       ELSE IF Recalled(t.memory) = told[m] THEN {} ELSE @ \cup Muted(t)]
  /\ UNCHANGED told

\* evaluate_miner goes on to the next alert it raises, or to its end.
Proceed(p, m, t, ts) ==
  LET ahead == {alert \in t.plan : Emitted(m, alert, t, ts)}
  IN  \/ ahead = {} /\ Finish(p, m, t, ts)
      \/ \E next \in ahead :
           /\ \A other \in ahead : Place(next) <= Place(other)
           /\ Raise(p, m, t, ts, next, {alert \in t.plan : Place(alert) > Place(next)})

\* The thread read the miner, and the ping after a failed read is over.  An earlier reading that is
\* evaluated late is one that the miner could as well give now.
Evaluate(p, m) ==
  /\ InStage(p, m, "asked")
  /\ \E r \in {truth[m]}, prior \in {previous[m]}, judged \in {Judge(trackers[m], truth[m])} :
       /\ trackers' = [trackers EXCEPT ![m] = judged]
       /\ recent' = [recent EXCEPT ![m] = SubSeq(<<r>> \o @, 1, IF @ = << >> THEN 1 ELSE 2)]
       /\ counted' = [counted EXCEPT ![m] = IF r.api /\ (@ = NoCount \/ r.blocks > @) THEN r.blocks ELSE @]
       /\ \E plan \in {Planned(prior, r, judged.reasons, Grace(m) \cup Begins(prior, r))},
             memory \in {Remembered(prior, r, judged.reasons)} :
            Proceed(p, m, [stage |-> "alerting", reading |-> r, memory |-> memory, plan |-> plan],
                    timers \cup Graces(m, Begins(prior, r)))
  /\ UNCHANGED <<truth, config, latest>>

\* Discord answered, or did not.
Return(p, m) ==
  /\ InStage(p, m, "alerting")
  /\ Proceed(p, m, tasks[p][m], timers)
  /\ UNCHANGED <<truth, config, trackers, latest, recent, counted>>

PublishMerged(p) ==
  /\ tasks[p] # Idle
  /\ \A m \in DOMAIN tasks[p] : InStage(p, m, "done")
  /\ latest' = [m \in Miners |-> IF m \in DOMAIN tasks[p] THEN tasks[p][m].reading ELSE latest[m]]
  /\ tasks' = [tasks EXCEPT ![p] = Idle]
  /\ UNCHANGED <<truth, config, memoryVars, history>>

Publish(p) ==
  /\ tasks[p] # Idle
  /\ \A m \in DOMAIN tasks[p] : InStage(p, m, "done")
  /\ latest' = [m \in Miners |-> IF m \in DOMAIN tasks[p] THEN tasks[p][m].reading ELSE NoStatus]
  /\ tasks' = [tasks EXCEPT ![p] = Idle]
  /\ UNCHANGED <<truth, config, memoryVars, history>>

-----------------------------------------------------------------------------
(* The surroundings                                                         *)

Change(m) ==
  /\ truth' \in {[truth EXCEPT ![m] = r] : r \in Readings \ {truth[m]}}
  /\ UNCHANGED <<config, memoryVars, latest, tasks, history>>

TimerEnds(t) ==
  /\ t \in timers
  /\ timers' = timers \ {t}
  /\ UNCHANGED <<truth, config, trackers, previous, bestDiff, latest, tasks, history>>

\* The user edits the miner's entry, and the services are reconfigured.
Reconfigure(m, c) ==
  /\ config' = [config EXCEPT ![m] = c]
  /\ latest' = [latest EXCEPT ![m] = IF c = "on" THEN @ ELSE NoStatus]
  /\ IF c = "gone"
       THEN /\ trackers' = [trackers EXCEPT ![m] = NewTracker]
            /\ previous' = [previous EXCEPT ![m] = NoMemory]
            /\ bestDiff' = [bestDiff EXCEPT ![m] = NoCount]
            /\ told' = [told EXCEPT ![m] = {}]
            /\ excused' = [excused EXCEPT ![m] = IF Alerting(m) = {} THEN {} ELSE Channels]
            /\ recent' = [recent EXCEPT ![m] = << >>]
            /\ counted' = [counted EXCEPT ![m] = NoCount]
       ELSE UNCHANGED <<trackers, previous, bestDiff, history>>
  /\ UNCHANGED <<truth, timers, tasks>>

Poll(p) == StartPoll(p) \/ Publish(p) \/ \E m \in Miners : Evaluate(p, m) \/ Return(p, m)

Next ==
  \/ \E p \in Pollers : Poll(p)
  \/ \E m \in Miners : Change(m) \/ (\E c \in Entries \ {config[m]} : Reconfigure(m, c))
  \/ \E t \in Timers : TimerEnds(t)

\* Threads and Discord calls return (both have time limits), the loop polls again, and the time passes
\* that an offline alert waits for.
Fairness ==
  /\ WF_vars(StartPoll(Loop))
  /\ \A p \in Pollers :
       WF_vars(Publish(p)) /\ \A m \in Miners : WF_vars(Evaluate(p, m) \/ Return(p, m))
  /\ \A m \in Miners : \A t \in {<<m, "grace", "offline">>, Cooldown(m, "offline")} : WF_vars(TimerEnds(t))

Spec == Init /\ [][Next]_vars
FairSpec == Spec /\ Fairness

-----------------------------------------------------------------------------
(* Properties                                                               *)

HasFault(r, c) == r.api /\ c \in Candidates(r)
Clean(r) == r.api /\ Candidates(r) = {}

\* One odd reading changes nothing: a miner becomes Warning only for a fault that its last two
\* readings share, Unhealthy only for one that the last three share and that is severe now, and
\* an alarmed miner that still answers becomes Healthy only after two readings without a fault,
\* whichever polls the readings come from (health.py:246).
ConfirmedHealth ==
  [][\A m \in Miners :
       LET old == trackers[m].state
           new == trackers'[m].state
           before == recent[m]
           now == recent'[m][1]
           Shared(n, c) == Len(before) >= n /\ \A i \in 1..n : HasFault(before[i], c)
       IN  new # old /\ config'[m] # "gone" =>
             /\ new = "Warning" => \E c \in Candidates(now) : Shared(1, c)
             /\ new = "Unhealthy" => \E c \in SevereFaults(now) : Shared(2, c)
             /\ old \in Alarming /\ new \in {"Healthy", "Unknown"} => Clean(now) /\ Clean(before[1])]_vars

\* Between evaluations the engine remembers what it told: that a miner is offline or its chips are
\* degraded, until it told the opposite.  Excused are evaluations of two polls that overlapped, and
\* what a recovery of hashboards keeps quiet (alerts.py:413).
NewsRemembered ==
  \A m \in Miners :
    Alerting(m) = {} => told[m] \ excused[m] = Recalled(previous[m]) \ excused[m]

\* From some moment on the miners and their entries stay as they are.
Settled == <>[][FALSE]_<<truth, config>>

\* When nothing changes any more, the dashboard ends up with what every miner reports, whatever older
\* polls are still under way, and without a miner that was removed (poller.py:83).
LatestSettles ==
  Settled => \A m \in Miners : <>[](latest[m] = IF config[m] = "on" THEN truth[m] ELSE NoStatus)

\* A miner that stays away is reported again and again, and one that came back is no longer reported
\* as offline, unless overlapping polls or a quiet recovery stood in the way (alerts.py:195).
OutcomeTold ==
  Settled => \A m \in Miners :
    /\ []<>(config[m] = "on" /\ ~ truth[m].api => "offline" \in told[m])
    /\ <>[](config[m] = "on" /\ truth[m].api /\ excused[m] = {} => "offline" \notin told[m])

\* What the alert settings say of a block alert: "Any miner's block counter increases."  A reading
\* that calls for one shows a higher count than every earlier one (web/index.html:186).
BlockCounterIncreased ==
  [][\A p \in Pollers, m \in Miners :
       LET t == tasks'[p][m]
       IN  /\ InStage(p, m, "asked") /\ InStage(p, m, "alerting")'
           /\ Due("block-found", previous[m], t.reading, {}, {})
           => counted[m] = NoCount \/ t.reading.blocks > counted[m]]_vars
=============================================================================
