---------------------------- MODULE LuxOSControl ----------------------------
(***************************************************************************)
(* LuxOSControlService (pocisys-hash-monitor/services/luxos_control.py)    *)
(* for one miner: the control loop, which reads the chip health, restarts  *)
(* sick hashboards and follows the power schedule, and execute, which the  *)
(* loop and any number of dashboard requests call.                         *)
(*                                                                         *)
(* All of them are coroutines of one event loop; a step below runs from    *)
(* one await to the next, or from one board to the next.  The calls to the *)
(* miner are made in a thread, and are one step except for the health      *)
(* snapshot, which is read in one and looked at in another.                *)
(*                                                                         *)
(* Abstractions.  A profile is its power level.  Every deadline is a timer *)
(* that runs until some later moment.  A board that hashes reports healthy *)
(* or unhealthy chips, any other reports none (status "unknown", or no     *)
(* item at all, which the code treats alike).  The profiles that the       *)
(* configuration names exist on the miner.  A process that restarts is an  *)
(* initial state: nothing but the configuration is stored.                 *)
(***************************************************************************)
EXTENDS Integers, Sequences, FiniteSetsExt

CONSTANTS
  Boards,       \* hashboards, 0 to n - 1
  Profiles,     \* native profiles
  Clients,      \* dashboard requests that may be in progress at once
  Configs,      \* configurations of the miner
  Edits,        \* pairs of configurations: the changes a user makes
  Requests,     \* pairs of a configuration and an action the dashboard asks for under it
  NoProfile,    \* no profile reported yet
  NoTarget,     \* last_schedule_target has no entry
  NoMiner, NoSnapshot, NoExec, Nobody

Confirmations == 3     \* AUTO_RECOVERY_CONFIRMATIONS

BoardActions == {"restart_board", "board_off", "board_on"}
Actions == BoardActions \cup {"low", "full"}

ConfigType ==
  [global : BOOLEAN,     \* luxos_control_enabled
   enabled : BOOLEAN,    \* the miner is monitored
   manual : BOOLEAN,     \* control_enabled
   schedule : BOOLEAN,   \* control_schedule_enabled
   recover : BOOLEAN,    \* auto_recover_hashboards
   mode : {"profile", "boards_off"},          \* control_low_mode
   normal : Profiles, curtailed : Profiles]   \* control_full_profile, control_low_profile

ASSUME BoardsAssumption == Boards \subseteq Nat /\ 0 \in Boards /\ \A b \in Boards : 0..b \subseteq Boards
ASSUME ProfilesAssumption == Profiles \subseteq Nat /\ NoProfile \notin Nat
ASSUME ConfigsAssumption == Configs \subseteq ConfigType /\ Edits \subseteq Configs \X Configs
ASSUME RequestsAssumption == Requests \subseteq Configs \X Actions

VARIABLES
  \* the miner (external), and the time of day
  up,           \* it answers, and its control session is not taken
  profile,
  on, ill,      \* per board: it hashes; its chips are unhealthy
  lowWindow,    \* _low_window
  config,
  \* the service's memory
  timers,       \* deadlines ahead
  cached,       \* health_cache's current_profile
  bad,          \* bad_confirmations
  incident,     \* boards in recovery_incidents
  lastTarget,   \* last_schedule_target
  lock,         \* who holds the miner's lock
  \* the control loop
  pc,
  miner,        \* the miner's entry when the loop asked for its health
  snapshot,
  active,       \* recovery_active
  todo,         \* boards of the snapshot still to be looked at
  \* actions in progress
  exec

Loop == "loop"
Actors == {Loop} \cup Clients

minerVars == <<up, profile, on, ill, lowWindow>>
memoryVars == <<timers, cached, bad, incident, lastTarget, lock>>
loopVars == <<pc, miner, snapshot, active, todo>>
vars == <<minerVars, config, memoryVars, loopVars, exec>>

Miner == -1
Names == {"health", "action", "retry", "ceiling", "profile", "warmup"}
\* next health read, control action cooldown, schedule and ceiling retry,
\* observation of a profile change, warm-up
Of(name) == <<name, Miner>>
Suppress(b) == <<"suppress", b>>   \* auto_suppress_until
Observe(b) == <<"observe", b>>     \* the incident's observe_until
SixHours(b) == <<"sixhours", b>>   \* last_auto_attempt
Timers ==
  {Of(n) : n \in Names} \cup UNION {{Suppress(b), Observe(b), SixHours(b)} : b \in Boards}

Snapshots == [profile : Profiles \cup {NoProfile}, status : [Boards -> {"healthy", "unhealthy", "unknown"}]]

Plans == Seq({"count", "list", "profile", "boards", "reboot", "record"})
Execs == [action : Actions, board : Boards, miner : Configs, plan : Plans, ok : BOOLEAN, orphan : BOOLEAN]

ASSUME ActorsAssumption == Loop \notin Clients /\ Nobody \notin Actors /\ NoExec \notin Execs

\* Every value is of its kind; an action has awaits ahead while it is in progress, and
\* the loop runs one exactly where it waits for it.
TypeOK ==
  /\ {up, lowWindow, active} \subseteq BOOLEAN
  /\ profile \in Profiles /\ cached \in Profiles \cup {NoProfile}
  /\ on \in [Boards -> BOOLEAN] /\ ill \in [Boards -> BOOLEAN]
  /\ config \in Configs /\ miner \in Configs \cup {NoMiner}
  /\ timers \subseteq Timers
  /\ bad \in [Boards -> 0..Confirmations]
  /\ incident \subseteq Boards
  /\ lastTarget \in {"low", "full", NoTarget}
  /\ lock \in Actors \cup {Nobody}
  /\ pc \in {"top", "health", "answer", "recover", "complete", "detected", "failed",
             "restarting", "schedule", "above", "below", "scheduled", "enforcing", "wait"}
  /\ snapshot \in Snapshots \cup {NoSnapshot}
  /\ todo \subseteq Boards
  /\ exec \in [Actors -> Execs \cup {NoExec}]
  /\ \A a \in Actors : exec[a] # NoExec => exec[a].plan # << >>
  /\ exec[Loop] # NoExec <=> pc \in {"restarting", "scheduled", "enforcing"}

\* The service starts, maybe after a miner was put to sleep and the process ended.
Init ==
  /\ config \in Configs
  /\ up \in BOOLEAN /\ profile \in Profiles
  /\ on \in [Boards -> IF config.mode = "boards_off" THEN BOOLEAN ELSE {TRUE}]
  /\ ill = [b \in Boards |-> FALSE]
  /\ lowWindow \in IF config.schedule THEN BOOLEAN ELSE {FALSE}
  /\ timers = {Of("warmup")}
  /\ cached = NoProfile
  /\ bad = [b \in Boards |-> 0] /\ incident = {}
  /\ lastTarget = NoTarget
  /\ lock = Nobody
  /\ pc = "top" /\ miner = NoMiner /\ snapshot = NoSnapshot /\ active = FALSE /\ todo = {}
  /\ exec = [a \in Actors |-> NoExec]

-----------------------------------------------------------------------------
(* The surroundings                                                         *)

Reach == up' = ~ up /\ UNCHANGED <<profile, on, ill, lowWindow, config, memoryVars, loopVars, exec>>

\* A board's chips fail or come back, which matters where recovery is armed.
Chips(b) ==
  /\ config.recover
  /\ ill' = [ill EXCEPT ![b] = ~ @]
  /\ UNCHANGED <<up, profile, on, lowWindow, config, memoryVars, loopVars, exec>>

\* The peak period starts or ends.
Window ==
  /\ config.schedule
  /\ lowWindow' = ~ lowWindow
  /\ UNCHANGED <<up, profile, on, ill, config, memoryVars, loopVars, exec>>

TimersEnd(ended) ==
  /\ ended # {}
  /\ timers' = timers \ ended
  /\ UNCHANGED <<minerVars, config, cached, bad, incident, lastTarget, lock, loopVars, exec>>

\* commit_config and reconfigure.  A miner that is no longer monitored is forgotten,
\* and its lock with it, whoever holds it.
EditConfig ==
  \E edit \in Edits :
    /\ edit[1] = config /\ config' = edit[2]
    /\ IF edit[2].enabled
       THEN UNCHANGED <<memoryVars, exec>>
       ELSE /\ timers' = timers \cap {Of("warmup")}
            /\ cached' = NoProfile /\ lastTarget' = NoTarget
            /\ bad' = [b \in Boards |-> 0] /\ incident' = {}
            /\ lock' = Nobody
            /\ exec' = [a \in Actors |->
                          IF exec[a] = NoExec THEN NoExec ELSE [exec[a] EXCEPT !.orphan = TRUE]]
    /\ UNCHANGED <<minerVars, loopVars>>

-----------------------------------------------------------------------------
(* execute                                                                  *)

\* Mutant: a board action ends without its notification, and without giving the lock back.
PlanUnrecorded(action, c) ==
  CASE action \in BoardActions -> <<"count", "reboot">>
    [] action = "low" /\ c.mode = "boards_off" -> <<"count", "boards", "record">>
    [] action = "full" /\ c.mode = "boards_off" -> <<"count", "list", "profile", "boards", "record">>
    [] OTHER -> <<"list", "profile", "record">>

\* What execute awaits for each action, and at last the notification.
Plan(action, c) ==
  CASE action \in BoardActions -> <<"count", "reboot", "record">>
    [] action = "low" /\ c.mode = "boards_off" -> <<"count", "boards", "record">>
    [] action = "full" /\ c.mode = "boards_off" -> <<"count", "list", "profile", "boards", "record">>
    [] OTHER -> <<"list", "profile", "record">>

Monitored == config.enabled /\ config.global

\* No action is in progress and none was begun in the last 15 seconds.
MayBegin == Monitored /\ Of("action") \notin timers /\ lock = Nobody

\* From the last check to the first await.
Begin(a, action, b) ==
  /\ exec' = [exec EXCEPT ![a] =
                [action |-> action, board |-> b, miner |-> config,
                 plan |-> Plan(action, config), ok |-> TRUE, orphan |-> FALSE]]
  /\ lock' = a
  /\ timers' = timers \cup {Of("action")}

\* A request of the dashboard that is not refused.
Ask(a) ==
  /\ exec[a] = NoExec
  /\ config.manual /\ MayBegin
  /\ \E action \in Actions, b \in Boards :
       /\ <<config, action>> \in Requests
       /\ action \notin BoardActions => b = 0
       /\ Begin(a, action, b)
  /\ UNCHANGED <<minerVars, config, cached, bad, incident, lastTarget, loopVars>>

At(a, await) == exec[a] # NoExec /\ Head(exec[a].plan) = await

\* Automatic recovery notifies by itself: _record_action awaits nothing.
Silent(a) == a = Loop /\ pc = "restarting"

\* The loop is done with the board, and with the last one, with its snapshot.
AfterBoard(b) ==
  /\ todo' = todo \ {b}
  /\ pc' = IF todo = {b} THEN "schedule" ELSE "recover"
  /\ snapshot' = IF todo = {b} THEN NoSnapshot ELSE snapshot
  /\ active' = (active /\ todo # {b})

\* What the loop does with the outcome of its action.
Resume(b, ok) ==
  CASE pc = "restarting" ->
         /\ timers' = timers \cup {Suppress(b)} \cup IF ok THEN {Observe(b)} ELSE {}
         /\ IF ok
            THEN /\ incident' = incident \cup {b}
                 /\ bad' = [bad EXCEPT ![b] = 0]
                 /\ AfterBoard(b)
            ELSE pc' = "failed" /\ UNCHANGED <<incident, bad, todo, snapshot, active>>
         /\ UNCHANGED lastTarget
    [] pc = "scheduled" ->
         /\ timers' = IF ok THEN timers \ {Of("retry")} ELSE timers \cup {Of("retry")}
         /\ lastTarget' = IF ok THEN exec[Loop].action ELSE lastTarget
         /\ pc' = "wait" /\ UNCHANGED <<incident, bad, todo, snapshot, active>>
    [] pc = "enforcing" ->
         /\ timers' = IF ok THEN timers \ {Of("ceiling")} ELSE timers \cup {Of("ceiling")}
         /\ pc' = "wait" /\ UNCHANGED <<incident, bad, lastTarget, todo, snapshot, active>>

\* Mutant: whatever lock the miner has now is released.
ReturnAnyLock(a, ok) ==
  /\ exec' = [exec EXCEPT ![a] = NoExec]
  /\ lock' = Nobody
  /\ IF a = Loop
     THEN Resume(exec[a].board, ok)
     ELSE UNCHANGED <<timers, incident, bad, lastTarget, pc, todo, snapshot, active>>
  /\ UNCHANGED <<cached, miner>>

\* execute returns or raises.  The lock released is the one that was taken.
Return(a, ok) ==
  /\ exec' = [exec EXCEPT ![a] = NoExec]
  /\ lock' = IF lock = a THEN Nobody ELSE lock
  /\ IF a = Loop
     THEN Resume(exec[a].board, ok)
     ELSE UNCHANGED <<timers, incident, bad, lastTarget, pc, todo, snapshot, active>>
  /\ UNCHANGED <<cached, miner>>

\* The next await of the action.
Skip(a, n) ==
  /\ exec' = [exec EXCEPT ![a].plan = SubSeq(@, n + 1, Len(@))]
  /\ UNCHANGED <<lock, lastTarget, incident, loopVars>>

\* The except branch: only the notification is left.
Abort(a) ==
  IF Silent(a)
  THEN Return(a, FALSE)
  ELSE /\ exec' = [exec EXCEPT ![a].plan = <<"record">>, ![a].ok = FALSE]
       /\ UNCHANGED <<memoryVars, loopVars>>

\* board_count
Count(a) ==
  /\ At(a, "count")
  /\ IF up THEN Skip(a, 1) /\ UNCHANGED <<timers, cached, bad>> ELSE Abort(a)
  /\ UNCHANGED <<minerVars, config>>

Target(x) == IF x.action = "low" THEN x.miner.curtailed ELSE x.miner.normal

\* _set_profile up to its command, which is not sent when the miner reports that the
\* profile is in use.
ListProfiles(a) ==
  /\ At(a, "list")
  /\ \/ /\ config.enabled /\ Target(exec[a]) <= exec[a].miner.normal
        /\ IF up /\ profile = Target(exec[a])
           THEN Skip(a, 2) /\ cached' = profile /\ UNCHANGED <<timers, bad>>
           ELSE Skip(a, 1) /\ UNCHANGED <<timers, cached, bad>>
     \/ /\ ~ up \/ ~ config.enabled \/ Target(exec[a]) > exec[a].miner.normal
        /\ Abort(a)
  /\ UNCHANGED <<minerVars, config>>

\* _observe_after_profile_change
ObserveProfile ==
  /\ timers' = timers \cup {Of("profile")}
  /\ bad' = [b \in Boards |-> 0]

\* A command that fails may have reached the miner.
SetProfile(a) ==
  /\ At(a, "profile")
  /\ IF up
     THEN profile' = Target(exec[a]) /\ cached' = Target(exec[a]) /\ ObserveProfile /\ Skip(a, 1)
     ELSE profile' \in {profile, Target(exec[a])} /\ Abort(a)
  /\ UNCHANGED <<up, on, ill, lowWindow, config>>

\* set_boards: one command per board in one session, up to the first that fails.
SetBoards(a) ==
  /\ At(a, "boards")
  /\ \E done \in SUBSET Boards :
       /\ \A b \in done : 0..b \subseteq done
       /\ on' = [b \in Boards |-> IF b \in done THEN exec[a].action = "full" ELSE on[b]]
       /\ IF up
          THEN /\ done = Boards
               /\ Skip(a, 1) /\ UNCHANGED cached
               /\ IF exec[a].action = "full" THEN ObserveProfile ELSE UNCHANGED <<timers, bad>>
          ELSE Abort(a)
  /\ UNCHANGED <<up, profile, ill, lowWindow, config>>

\* restart_board, with delay 0 for board_off.
Reboot(a) ==
  LET x == exec[a] IN
  /\ At(a, "reboot")
  /\ \E took \in BOOLEAN :
       /\ up => took
       /\ on' = IF took THEN [on EXCEPT ![x.board] = x.action # "board_off"] ELSE on
  /\ IF ~ up THEN Abort(a)
     ELSE IF Silent(a) THEN Return(a, TRUE)
     ELSE /\ Skip(a, 1) /\ UNCHANGED cached
          /\ IF x.action = "board_off" THEN UNCHANGED <<timers, bad>>
             ELSE timers' = timers \cup {Suppress(x.board)} /\ bad' = [bad EXCEPT ![x.board] = 0]
  /\ UNCHANGED <<up, profile, ill, lowWindow, config>>

\* The notification is sent.
Record(a) ==
  /\ At(a, "record") /\ ~ Silent(a)
  /\ Return(a, exec[a].ok)
  /\ UNCHANGED <<minerVars, config>>

Execute(a) == Count(a) \/ ListProfiles(a) \/ SetProfile(a) \/ SetBoards(a) \/ Reboot(a) \/ Record(a)

-----------------------------------------------------------------------------
(* The control loop                                                         *)

StartHealth ==
  /\ pc = "top"
  /\ IF config.enabled /\ Of("health") \notin timers
     THEN timers' = timers \cup {Of("health")} /\ miner' = config /\ pc' = "health"
     ELSE pc' = "schedule" /\ UNCHANGED <<timers, miner>>
  /\ UNCHANGED <<minerVars, config, cached, bad, incident, lastTarget, lock, snapshot, active, todo, exec>>

Status(b) == IF ~ on[b] THEN "unknown" ELSE IF ill[b] THEN "unhealthy" ELSE "healthy"

\* chip_health, in its thread.  The profile is left out when only that question fails.
ReadHealth ==
  /\ pc = "health"
  /\ \/ snapshot' = [profile |-> IF up THEN profile ELSE NoProfile, status |-> [b \in Boards |-> Status(b)]]
     \/ ~ up /\ snapshot' = NoSnapshot
  /\ pc' = "answer"
  /\ UNCHANGED <<minerVars, config, memoryVars, miner, active, todo, exec>>

\* Mutant: a profile once read is kept.
ProcessHealthOnce ==
  /\ pc = "answer"
  /\ IF snapshot = NoSnapshot
     THEN pc' = "schedule" /\ UNCHANGED <<cached, active, todo>>
     ELSE /\ cached' = IF cached = NoProfile THEN snapshot.profile ELSE cached
          /\ active' = (config.global /\ miner.recover /\ Of("profile") \notin timers
                         /\ ~ (miner.schedule /\ lowWindow))
          /\ todo' = Boards /\ pc' = "recover"
  /\ miner' = NoMiner
  /\ UNCHANGED <<minerVars, config, timers, bad, incident, lastTarget, lock, snapshot, exec>>

\* The rest of refresh_health, and recovery_active.
ProcessHealth ==
  /\ pc = "answer"
  /\ IF snapshot = NoSnapshot
     THEN pc' = "schedule" /\ UNCHANGED <<cached, active, todo>>
     ELSE /\ cached' = snapshot.profile
          /\ active' = (config.global /\ miner.recover /\ Of("profile") \notin timers
                         /\ ~ (miner.schedule /\ lowWindow))
          /\ todo' = Boards /\ pc' = "recover"
  /\ miner' = NoMiner
  /\ UNCHANGED <<minerVars, config, timers, bad, incident, lastTarget, lock, snapshot, exec>>

\* A board whose restart is being watched: its outcome is told once it is known.
Watched(b) ==
  /\ bad' = [bad EXCEPT ![b] = 0]
  /\ IF Observe(b) \in timers \/ snapshot.status[b] = "unknown"
     THEN AfterBoard(b)
     ELSE pc' = "complete" /\ UNCHANGED <<todo, snapshot, active>>
  /\ UNCHANGED timers

Confirmed(b) ==
  IF snapshot.status[b] = "unhealthy" /\ active THEN Min({bad[b] + 1, Confirmations}) ELSE 0

\* Any other: its third bad reading in a row is the start of an attempt, which counts
\* before anything is sent.
Unwatched(b) ==
  /\ bad' = [bad EXCEPT ![b] = Confirmed(b)]
  /\ IF active /\ Confirmed(b) >= Confirmations
        /\ timers \cap {Of("warmup"), Suppress(b), SixHours(b)} = {}
     THEN timers' = timers \cup {SixHours(b)} /\ pc' = "detected" /\ UNCHANGED <<todo, snapshot, active>>
     ELSE AfterBoard(b) /\ UNCHANGED timers

CheckBoard ==
  /\ pc = "recover"
  /\ LET b == Min(todo) IN IF b \in incident THEN Watched(b) ELSE Unwatched(b)
  /\ UNCHANGED <<minerVars, config, cached, incident, lastTarget, lock, miner, exec>>

\* Mutant: the incident is not closed.
CompleteOpen ==
  /\ pc = "complete"
  /\ AfterBoard(Min(todo))
  /\ UNCHANGED <<minerVars, config, memoryVars, miner, exec>>

\* The outcome has been notified.
Complete ==
  /\ pc = "complete"
  /\ incident' = incident \ {Min(todo)}
  /\ AfterBoard(Min(todo))
  /\ UNCHANGED <<minerVars, config, timers, cached, bad, lastTarget, lock, miner, exec>>

\* The attempt has been notified; now it is made.
Detected ==
  /\ pc = "detected"
  /\ LET b == Min(todo) IN
       IF config.recover /\ MayBegin
       THEN Begin(Loop, "restart_board", b) /\ pc' = "restarting"
       ELSE timers' = timers \cup {Suppress(b)} /\ pc' = "failed" /\ UNCHANGED <<lock, exec>>
  /\ UNCHANGED <<minerVars, config, cached, bad, incident, lastTarget, miner, snapshot, active, todo>>

\* The failed attempt has been notified.
Failed ==
  /\ pc = "failed"
  /\ AfterBoard(Min(todo))
  /\ UNCHANGED <<minerVars, config, memoryVars, miner, exec>>

Desired == IF lowWindow THEN "low" ELSE "full"

\* expected_profile
Expected ==
  IF Desired = "full" THEN config.normal
  ELSE IF config.mode = "profile" THEN config.curtailed ELSE NoProfile

\* Mutant: no watchdog for a profile that changed since it was applied.
InPlaceUnwatched == lastTarget = Desired

\* Nothing is to be done for the schedule: the target was applied, and no other profile
\* is known to be in use.
InPlace ==
  /\ lastTarget = Desired
  /\ ~ (Expected # NoProfile /\ cached # NoProfile /\ cached # Expected)

\* _evaluate_schedules for a miner with a schedule.
FollowSchedule ==
  IF config.mode = "profile" /\ cached = Expected
  THEN /\ lastTarget' = Desired /\ timers' = timers \ {Of("retry")}
       /\ pc' = "wait" /\ UNCHANGED <<lock, exec>>
  ELSE /\ IF InPlace \/ Of("retry") \in timers
          THEN pc' = "wait" /\ UNCHANGED <<timers, lock, exec>>
          ELSE IF MayBegin
          THEN Begin(Loop, Desired, 0) /\ pc' = "scheduled"
          ELSE timers' = timers \cup {Of("retry")} /\ pc' = "wait" /\ UNCHANGED <<lock, exec>>
       /\ UNCHANGED lastTarget

\* Mutant: only a curtailed miner is looked at.
WatchCeilingBelow ==
  /\ pc' = IF Of("ceiling") \in timers \/ cached \in {NoProfile, config.normal} \/ cached > config.normal
           THEN "wait" ELSE "below"
  /\ UNCHANGED <<timers, lastTarget, lock, exec>>

\* Without a schedule: the manually controlled miner may exceed its normal profile.
\* The catalog is read only when another profile is known to be in use.
WatchCeiling ==
  /\ pc' = IF Of("ceiling") \in timers \/ cached \in {NoProfile, config.normal} THEN "wait"
           ELSE IF cached > config.normal THEN "above" ELSE "below"
  /\ UNCHANGED <<timers, lastTarget, lock, exec>>

Schedule ==
  /\ pc = "schedule"
  /\ IF Monitored /\ config.schedule THEN FollowSchedule
     ELSE IF Monitored /\ config.manual THEN WatchCeiling
     ELSE pc' = "wait" /\ UNCHANGED <<timers, lastTarget, lock, exec>>
  /\ UNCHANGED <<minerVars, config, cached, bad, incident, miner, snapshot, active, todo>>

\* The profile in use is compared with the normal one, once the catalog is there: it may
\* still be remembered.
Enforce ==
  /\ pc \in {"above", "below"}
  /\ \/ /\ config.enabled
        /\ IF pc = "above" /\ config.manual /\ MayBegin
           THEN Begin(Loop, "full", 0) /\ pc' = "enforcing"
           ELSE /\ timers' = IF pc = "above" THEN timers \cup {Of("ceiling")} ELSE timers \ {Of("ceiling")}
                /\ pc' = "wait" /\ UNCHANGED <<lock, exec>>
     \/ /\ ~ up \/ ~ config.enabled
        /\ timers' = timers \cup {Of("ceiling")}
        /\ pc' = "wait" /\ UNCHANGED <<lock, exec>>
  /\ UNCHANGED <<minerVars, config, cached, bad, incident, lastTarget, miner, snapshot, active, todo>>

\* Until the next round, or until the configuration changes.
Wait ==
  /\ pc = "wait"
  /\ pc' = "top"
  /\ UNCHANGED <<minerVars, config, memoryVars, miner, snapshot, active, todo, exec>>

Iterate ==
  \/ StartHealth \/ ReadHealth \/ ProcessHealth
  \/ CheckBoard \/ Complete \/ Detected \/ Failed
  \/ Schedule \/ Enforce \/ Wait

Next ==
  \/ Reach \/ Window \/ EditConfig
  \/ \E b \in Boards : Chips(b)
  \/ \E t \in timers : TimersEnd({t})
  \/ \E a \in Clients : Ask(a)
  \/ \E a \in Actors : Execute(a)
  \/ Iterate

\* The event loop runs every coroutine that can run (the loop is one, also while it awaits its
\* own action), every call to the miner and to Discord has a timeout, and every deadline passes.
Fairness ==
  /\ WF_vars(Iterate \/ Execute(Loop))
  /\ \A a \in Clients : WF_vars(Execute(a))
  /\ WF_vars(TimersEnd(timers))

Spec == Init /\ [][Next]_vars /\ Fairness

-----------------------------------------------------------------------------
(* Properties                                                               *)

InProgress == {a \in Actors : exec[a] # NoExec}

\* Two actions are in progress for one miner only when one of them was begun before the
\* user stopped monitoring the miner, which forgets its lock.
OneAtATime ==
  \A a, b \in InProgress : a # b => exec[a].orphan \/ exec[b].orphan

\* How far an action is: whether the profile is still to be set, or the boards.
Stage(plan) ==
  IF Head(plan) = "record" THEN "over"
  ELSE IF \E i \in DOMAIN plan : plan[i] = "profile" THEN "begun" ELSE "tuned"

Assignments ==
  [action : Actions, board : Boards, miner : Configs, stage : {"begun", "tuned", "over"}]

ASSUME AssignmentsAssumption == NoExec \notin Assignments

Task(x) ==
  IF x = NoExec THEN NoExec
  ELSE [action |-> x.action, board |-> x.board, miner |-> x.miner, stage |-> Stage(x.plan)]

Tasks == [a \in Actors |-> Task(exec[a])]

Control == INSTANCE MinerControl WITH
  Service <- Loop, Idle <- NoExec, holder <- lock, task <- Tasks

\* Whatever fails or overlaps, the miner is touched only as MinerControl allows: by actions
\* the owner armed, begun under a free lock, which keep to their goal and to the normal
\* profile, and which start boards only under a profile that was set before.
ImplementsControl == Control!ControlSpec

\* The user leaves it to the service, and the miner answers.
Alone == up /\ InProgress \subseteq {Loop}

ScheduledProfile == Alone /\ Monitored /\ config.schedule /\ config.mode = "profile"

\* In the long run a scheduled miner uses the profile of the time of day, whatever
\* requests, failures and configuration changes came before.
ScheduleFollowed ==
  /\ <>[](ScheduledProfile /\ lowWindow) => []<>(profile = config.curtailed)
  /\ <>[](ScheduledProfile /\ ~ lowWindow) => []<>(profile = config.normal)

\* A manually controlled miner without a schedule does not stay above its normal profile.
CeilingEnforced ==
  <>[](Alone /\ Monitored /\ config.manual /\ ~ config.schedule) => []<>(profile <= config.normal)

\* A board whose chips stay unhealthy while recovery is armed is restarted, again and
\* again, as each restart's outcome is told and its six hours are over.
SickBoardRestarted ==
  \A b \in Boards :
    <>[](Alone /\ Monitored /\ config.recover /\ ~ config.schedule /\ on[b] /\ ill[b])
    => []<>(pc = "restarting" /\ exec[Loop].board = b)

\* web/index.html:328: outside the peak period the schedule starts the boards.
WokenAfterSleep ==
  <>[](Alone /\ Monitored /\ config.schedule /\ config.mode = "boards_off" /\ ~ lowWindow)
  => []<>(\A b \in Boards : on[b])
=============================================================================
