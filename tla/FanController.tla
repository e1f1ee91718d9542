--------------------------- MODULE FanController ---------------------------
(***************************************************************************)
(* The fan controller of the GPU runtime (pocisys-gpu-runtime/             *)
(* fan_controller.py) and the part of its status server that talks to it   *)
(* (status_server.py) through two files: one command, one status.          *)
(*                                                                         *)
(* A tick of the controller is the sequence sample, consume, connect,      *)
(* select, send, publish; requests to the status server come in between.   *)
(* Every call to OpenLinkHub may fail, before or after the hub applied it. *)
(*                                                                         *)
(* Time is counted in units of which a tick takes one of Lags; a deadline  *)
(* of the code (busy_until, expires_at, ...) is the time left until then,  *)
(* and a moment (last_sent_at, commanded_at) the time since, up to where   *)
(* the code stops telling.  Abstracted: the USB probe, the pinned serial   *)
(* and channel, which samples make the temperature stable, and the values  *)
(* of RPM beyond "spinning".  Writes of the settings and calibration files *)
(* succeed.                                                                *)
(***************************************************************************)
EXTENDS Integers, Sequences, FiniteSets

CONSTANTS
  Order,          \* CALIBRATION_ORDER: 100, 70, 50, 40
  Samples,        \* GPU samples explored
  Posts,          \* commands that are posted, besides the Safe Test's
  BusyHold, ReconnectHold, Heartbeat, Settle, Lease, ForceLease,
  PreflightWait,  \* how long a Safe Test waits for the fan
  Lags,           \* how long a tick may take
  NoSample,       \* gpu_sample is None
  NoManual,       \* manual is None
  NoDuty,         \* last_sent_duty is None
  NoTest,         \* no Safe Test waits
  NoCommand       \* there is no command file

Duties == {Order[i] : i \in DOMAIN Order}

ASSUME OrderAssumption == Order \in Seq(40..100) /\ Order # << >> /\ Order[1] = 100

\* A valid sample: the temperature, and whether utilization is at or above the threshold.
GpuSamples == [temp : 0..120, busy : BOOLEAN]

ASSUME SamplesAssumption == Samples \subseteq GpuSamples
ASSUME TimesAssumption ==
  /\ {BusyHold, ReconnectHold, Heartbeat, Settle, Lease, ForceLease} \subseteq Nat \ {0}
  /\ PreflightWait \in Nat /\ PreflightWait < ForceLease
  /\ Lags \subseteq Nat \ {0}

VARIABLES
  fan,            \* the duty the Commander DUO runs the fan at (external)
  \* the controller's memory
  online,         \* last_hub_online
  lastSent, sentAgo,
  busyLeft, reconnectLeft,
  manual,
  \* the controller's settings and calibration files
  automatic,
  calibrated,     \* duties whose calibration succeeded
  \* the files shared with the status server
  command, fresh, \* fresh: its id is not last_command_id
  status,
  \* the tick in progress
  pc, gpu, found, spinning, duty, sent,
  \* status server: a Safe Test that waits for its fan preflight
  preflight,      \* time left to it, and whether no other command replaced its own
  \* history
  doubt,          \* a call failed and none has succeeded since
  quiet,          \* time since the last failed call, missing hub, error or restart
  busyAgo         \* time since a sample last showed the GPU busy

memoryVars == <<online, lastSent, sentAgo, busyLeft, reconnectLeft, manual>>
storedVars == <<automatic, calibrated>>
commandVars == <<command, fresh>>
tickVars == <<pc, gpu, found, spinning, duty, sent>>
historyVars == <<doubt, quiet, busyAgo>>
vars == <<fan, memoryVars, storedVars, commandVars, status, tickVars, preflight, historyVars>>

Never == -1       \* last_sent_at is 0.0, commanded_at is None

\* The P100 temperature curve; its points make every slope a whole number.
TemperatureDuty(temp) ==
  CASE temp <= 45 -> 40
    [] temp \in 46..55 -> 40 + 2 * (temp - 45)
    [] temp \in 56..65 -> 60 + 3 * (temp - 55)
    [] temp \in 66..69 -> 90 + 2 * (temp - 65)
    [] temp >= 70 -> 100

Temps == {s.temp : s \in Samples}

ManualTests ==
  [duty : Duties, calibration : BOOLEAN, left : 0..Lease \cup 0..ForceLease,
   age : Never..Settle, start : Temps \cup {NoSample}, seen : BOOLEAN]

Commands ==
  [action : {"manual"}, duty : Duties]
    \cup [action : {"automatic"}, enabled : BOOLEAN]
    \cup [action : {"force_100"}]

ASSUME PostsAssumption == Posts \subseteq Commands
ASSUME NullsAssumption ==
  /\ NoSample \notin GpuSamples /\ NoSample \notin 0..120
  /\ NoDuty \notin 40..100
  /\ NoManual \notin ManualTests /\ NoCommand \notin Commands

Statuses == [healthy : BOOLEAN, target : 40..100, current : BOOLEAN]

TypeOK ==
  /\ fan \in 40..100
  /\ lastSent \in 40..100 \cup {NoDuty}
  /\ sentAgo \in Never..Heartbeat
  /\ busyLeft \in 0..BusyHold /\ reconnectLeft \in 0..ReconnectHold
  /\ manual \in ManualTests \cup {NoManual}
  /\ calibrated \subseteq Duties
  /\ command \in Commands \cup {NoCommand}
  /\ status \in Statuses
  /\ pc \in {"sample", "consume", "connect", "select", "send", "publish"}
  /\ gpu \in Samples \cup {NoSample}
  /\ duty \in 40..100
  /\ {online, automatic, fresh, found, spinning, sent, doubt} \subseteq BOOLEAN
  /\ preflight \in [left : 0..PreflightWait, alone : BOOLEAN] \cup {NoTest}
  /\ quiet \in 0..(BusyHold + 1) /\ busyAgo \in 0..BusyHold
  \* what is sent is what was selected, and nothing is taken for sent before a call
  /\ sentAgo = Never => lastSent = NoDuty
  /\ pc = "publish" /\ sent /\ ~ doubt => lastSent = duty

Offline == [healthy |-> FALSE, target |-> 100, current |-> TRUE]

\* A controller that starts, with a fan in any state and the files of an earlier run:
\* nothing calibrated yet, or everything.
Init ==
  /\ fan \in Duties
  /\ online = FALSE /\ lastSent = NoDuty /\ sentAgo = Never
  /\ busyLeft = 0 /\ reconnectLeft = 0 /\ manual = NoManual
  /\ \/ automatic = FALSE /\ calibrated = {}
     \/ automatic \in BOOLEAN /\ calibrated = Duties
  /\ command = NoCommand /\ fresh = FALSE
  /\ status = Offline
  /\ pc = "sample" /\ gpu = NoSample /\ found = FALSE /\ spinning = FALSE
  /\ duty = 100 /\ sent = FALSE
  /\ preflight = NoTest
  /\ doubt = FALSE /\ quiet = 0 /\ busyAgo = BusyHold

-----------------------------------------------------------------------------
(* Calls to OpenLinkHub                                                     *)

\* Mutant: the moment of the command is not recorded.
AcceptedUntimed(d) == fan' = d /\ lastSent' = d /\ UNCHANGED sentAgo /\ doubt' = FALSE

Accepted(d) == fan' = d /\ lastSent' = d /\ sentAgo' = 0 /\ doubt' = FALSE
Refused(duties) ==
  fan' \in {fan} \cup duties /\ doubt' = TRUE /\ UNCHANGED <<lastSent, sentAgo>>

\* commanded_at: the manual test's duty has reached the hub.
Commanded(d) ==
  IF manual # NoManual /\ manual.duty = d /\ manual.age = Never
  THEN [manual EXCEPT !.age = 0]
  ELSE manual

-----------------------------------------------------------------------------
(* The tick                                                                 *)

AtMost(n, bound) == IF n > bound THEN bound ELSE n
Less(n, dt) == IF n > dt THEN n - dt ELSE 0
Ago(n, dt, bound) == IF n = Never THEN Never ELSE AtMost(n + dt, bound)

\* Time passes, a Safe Test that waited too long fails; nvidia-smi answers or not.
Sample ==
  /\ pc = "sample" /\ pc' = "consume"
  /\ gpu' \in Samples \cup {NoSample}
  /\ \E dt \in Lags :
       /\ sentAgo' = Ago(sentAgo, dt, Heartbeat)
       /\ busyLeft' = Less(busyLeft, dt)
       /\ reconnectLeft' = Less(reconnectLeft, dt)
       /\ manual' = IF manual = NoManual THEN NoManual
                    ELSE [manual EXCEPT !.left = Less(@, dt), !.age = Ago(@, dt, Settle)]
       /\ preflight' = IF preflight = NoTest \/ preflight.left < dt THEN NoTest
                       ELSE [preflight EXCEPT !.left = @ - dt]
       /\ quiet' = AtMost(quiet + dt, BusyHold + 1)
       /\ busyAgo' = IF gpu' # NoSample /\ gpu'.busy THEN 0 ELSE AtMost(busyAgo + dt, BusyHold)
  /\ UNCHANGED <<fan, online, lastSent, storedVars, commandVars, status, found, spinning, duty,
                 sent, doubt>>

Test(d, calibration, left) ==
  [duty |-> d, calibration |-> calibration, left |-> left, age |-> Never,
   start |-> IF gpu = NoSample THEN NoSample ELSE gpu.temp, seen |-> FALSE]

Priors(d) == {Order[i] : i \in {i \in DOMAIN Order : \A j \in 1..i : Order[j] # d}}

\* Mutant: an earlier step of the calibration may have failed since.
MayTestAny(d, stable) == d = 100 \/ stable

\* A calibration of duty d may start.
MayTest(d, stable) == Priors(d) \subseteq calibrated /\ (d = 100 \/ stable)

\* _consume_command.
Consume ==
  /\ pc = "consume" /\ pc' = "connect"
  /\ fresh' = FALSE
  /\ \/ ~ fresh /\ UNCHANGED <<manual, lastSent, automatic>>
     \/ /\ fresh /\ command.action = "manual"
        /\ \E stable \in BOOLEAN :
             IF MayTest(command.duty, stable)
             THEN manual' = Test(command.duty, TRUE, Lease) /\ lastSent' = NoDuty
             ELSE UNCHANGED <<manual, lastSent>>
        /\ UNCHANGED automatic
     \/ /\ fresh /\ command.action = "automatic"
        /\ automatic' = (command.enabled /\ calibrated = Duties)
        /\ UNCHANGED <<manual, lastSent>>
     \/ /\ fresh /\ command.action = "force_100"
        /\ manual' = Test(100, FALSE, ForceLease) /\ lastSent' = NoDuty
        /\ UNCHANGED automatic
  /\ UNCHANGED <<fan, online, sentAgo, busyLeft, reconnectLeft, calibrated, command, status, gpu,
                 found, spinning, duty, sent, preflight, historyVars>>

\* discover fails.
HubMissing ==
  /\ pc = "connect" /\ pc' = "publish"
  /\ found' = FALSE /\ spinning' = FALSE /\ duty' = 100 /\ sent' = FALSE
  /\ online' = FALSE
  /\ quiet' = 0
  /\ UNCHANGED <<fan, lastSent, sentAgo, busyLeft, reconnectLeft, manual, storedVars, commandVars,
                 status, gpu, preflight, doubt, busyAgo>>

\* discover finds the fan.  A hub that was not online is sent 100 first; when that call
\* fails the tick goes on all the same, and the next one starts over.
Connect ==
  /\ pc = "connect" /\ pc' = "select"
  /\ found' = TRUE /\ spinning' \in BOOLEAN
  /\ \/ /\ online
        /\ UNCHANGED <<fan, lastSent, sentAgo, manual, reconnectLeft, online, doubt, quiet>>
     \/ /\ ~ online /\ Accepted(100)
        /\ manual' = Commanded(100)
        /\ reconnectLeft' = ReconnectHold
        /\ online' = TRUE
        /\ UNCHANGED quiet
     \/ /\ ~ online /\ Refused({100})
        /\ quiet' = 0
        /\ UNCHANGED <<manual, reconnectLeft, online>>
  /\ UNCHANGED <<busyLeft, storedVars, commandVars, status, gpu, duty, sent, preflight, busyAgo>>

\* _update_manual_observations.
Observed ==
  IF manual # NoManual /\ manual.age = Settle /\ spinning
  THEN [manual EXCEPT !.seen = TRUE]
  ELSE manual

Reduced(m) == m # NoManual /\ m.duty < 100

\* What _select_duty returns and changes.
Choice(d, m, passed) == [duty |-> d, manual |-> m, calibrated |-> passed]

\* _finish_manual, and then duty 100.
Finish(m, success) ==
  Choice(100, NoManual,
         IF ~ m.calibration THEN calibrated
         ELSE IF success THEN calibrated \cup {m.duty} ELSE calibrated \ {m.duty})

SelectManual(m) ==
  IF Reduced(m) /\ m.start # NoSample /\ gpu.temp >= m.start + 5 THEN Finish(m, FALSE)
  ELSE IF m.left = 0 THEN Finish(m, m.seen)
  ELSE Choice(m.duty, m, calibrated)

\* Mutant: the cooldown is not held.
SelectAtOnce(m) ==
  IF gpu = NoSample THEN Choice(100, m, calibrated)
  ELSE IF gpu.busy \/ gpu.temp >= 70
       THEN IF Reduced(m) THEN Finish(m, FALSE) ELSE Choice(100, m, calibrated)
  ELSE IF m # NoManual THEN SelectManual(m)
  ELSE IF automatic THEN Choice(TemperatureDuty(gpu.temp), m, calibrated)
  ELSE Choice(100, m, calibrated)

\* _select_duty.
Select(m) ==
  IF gpu = NoSample THEN Choice(100, m, calibrated)
  ELSE IF gpu.busy \/ gpu.temp >= 70
       THEN IF Reduced(m) THEN Finish(m, FALSE) ELSE Choice(100, m, calibrated)
  ELSE IF busyLeft > 0 \/ reconnectLeft > 0 THEN Choice(100, m, calibrated)
  ELSE IF m # NoManual THEN SelectManual(m)
  ELSE IF automatic THEN Choice(TemperatureDuty(gpu.temp), m, calibrated)
  ELSE Choice(100, m, calibrated)

\* A fan that does not turn when it has had the time to.
RpmFailsafe(c) ==
  IF ~ spinning /\ sentAgo # Never /\ sentAgo >= Settle
  THEN IF Reduced(c.manual) THEN Finish(c.manual, FALSE) ELSE [c EXCEPT !.duty = 100]
  ELSE c

SelectDuty ==
  /\ pc = "select" /\ pc' = "send"
  /\ LET c == RpmFailsafe(Select(Observed)) IN
       duty' = c.duty /\ manual' = c.manual /\ calibrated' = c.calibrated
  /\ busyLeft' = IF gpu # NoSample /\ gpu.busy THEN BusyHold ELSE busyLeft
  /\ UNCHANGED <<fan, online, lastSent, sentAgo, reconnectLeft, automatic, commandVars, status,
                 gpu, found, spinning, sent, preflight, historyVars>>

\* Mutants: a changed duty waits for the heartbeat; there is no heartbeat.
DueOnHeartbeat == lastSent = NoDuty \/ sentAgo >= Heartbeat
DueOnChange == duty # lastSent

Due == duty # lastSent \/ sentAgo >= Heartbeat

\* A duty is sent when it changes and on a heartbeat; when the call fails, 100 is tried.
Send ==
  /\ pc = "send" /\ pc' = "publish"
  /\ \/ /\ ~ Due
        /\ sent' = TRUE
        /\ UNCHANGED <<fan, lastSent, sentAgo, manual, duty, doubt, quiet>>
     \/ /\ Due
        /\ Accepted(duty)
        /\ manual' = Commanded(duty)
        /\ sent' = TRUE
        /\ UNCHANGED <<duty, quiet>>
     \/ /\ Due
        /\ Accepted(100) \/ Refused({duty, 100})
        /\ duty' = 100 /\ sent' = FALSE
        /\ quiet' = 0
        /\ UNCHANGED manual
  /\ UNCHANGED <<online, busyLeft, reconnectLeft, storedVars, commandVars, status, gpu, found,
                 spinning, preflight, busyAgo>>

EndTick ==
  pc' = "sample" /\ gpu' = NoSample /\ found' = FALSE /\ spinning' = FALSE
  /\ duty' = 100 /\ sent' = FALSE

\* The status file; it is newer than any request made until now.
Publish ==
  /\ pc = "publish" /\ EndTick
  /\ status' = [healthy |-> found /\ sent /\ spinning /\ gpu # NoSample,
                target |-> duty, current |-> TRUE]
  /\ UNCHANGED <<fan, memoryVars, storedVars, commandVars, preflight, historyVars>>

\* The status cannot be written: run reports an internal error and forces 100, of which
\* last_sent_duty learns nothing.
PublishFails ==
  /\ pc = "publish" /\ EndTick
  /\ status' = Offline
  /\ fan' \in {fan, 100}
  /\ quiet' = 0
  /\ UNCHANGED <<memoryVars, storedVars, commandVars, preflight, doubt, busyAgo>>

\* The controller stops, which forces 100 when the hub answers, and the runtime starts
\* it again.  The command file is still there, and its id is new to the controller.
Restart ==
  /\ EndTick
  /\ fan' \in {fan, 100}
  /\ online' = FALSE /\ lastSent' = NoDuty /\ sentAgo' = Never
  /\ busyLeft' = 0 /\ reconnectLeft' = 0 /\ manual' = NoManual
  /\ fresh' = (command # NoCommand)
  /\ quiet' = 0
  /\ busyAgo' = BusyHold
  /\ UNCHANGED <<storedVars, command, status, preflight, doubt>>

-----------------------------------------------------------------------------
(* The status server                                                        *)

\* Requests are handled at any time; at other moments of a tick than these they commute
\* with its steps, which neither read nor write what they do.
Turn == pc \in {"sample", "publish"}

\* write_fan_command replaces a command the controller has not read yet.
Write(c) == command' = c /\ fresh' = TRUE

\* /api/fan/*.  The server also repeats the checks the controller makes when it reads the
\* command.
Post(c) ==
  /\ Turn
  /\ c.action = "manual" => status.healthy
  /\ Write(c)
  /\ preflight' = IF preflight = NoTest THEN NoTest ELSE [preflight EXCEPT !.alone = FALSE]
  /\ UNCHANGED <<fan, memoryVars, storedVars, status, tickVars, historyVars>>

\* wait_for_fan_100 writes its command ...
StartPreflight ==
  /\ Turn
  /\ preflight = NoTest /\ preflight' = [left |-> PreflightWait, alone |-> TRUE]
  /\ Write([action |-> "force_100"])
  /\ status' = [status EXCEPT !.current = FALSE]
  /\ UNCHANGED <<fan, memoryVars, storedVars, tickVars, historyVars>>

\* Mutant: a status older than the request will do.
ConfirmedByAny == status.healthy /\ status.target = 100

Confirmed == status.healthy /\ status.target = 100 /\ status.current

\* ... and waits for a status that confirms it, after which inference starts.
Confirm ==
  /\ Turn
  /\ preflight # NoTest /\ preflight' = NoTest
  /\ Confirmed
  /\ UNCHANGED <<fan, memoryVars, storedVars, commandVars, status, tickVars, historyVars>>

-----------------------------------------------------------------------------
Tick == Sample \/ Consume \/ HubMissing \/ Connect \/ SelectDuty \/ Send \/ Publish \/ PublishFails

Next ==
  \/ Tick
  \/ Restart
  \/ \E c \in Posts : Post(c)
  \/ StartPreflight \/ Confirm

Spec == Init /\ [][Next]_vars

-----------------------------------------------------------------------------
(* Properties                                                               *)

\* When the controller reports itself online, the fan does not run below the duty it
\* reports, unless a call to the hub failed and none has succeeded since.
HonestStatus == pc = "publish" /\ found /\ sent /\ ~ doubt => fan >= duty

\* README's fan safety policy: a fan below 100 has a valid sample of an idle GPU under
\* 70 C behind it, a turning fan, and a lease or the temperature curve; and 60 seconds
\* since the GPU was last busy, if the hub was there throughout.
PolicyKept ==
  pc = "publish" /\ found /\ ~ doubt /\ fan < 100 =>
    /\ gpu # NoSample /\ ~ gpu.busy /\ gpu.temp < 70
    /\ spinning \/ sentAgo < Settle
    /\ quiet > busyAgo => busyAgo = BusyHold
    /\ \/ manual # NoManual /\ fan = manual.duty
       \/ automatic /\ fan = TemperatureDuty(gpu.temp)

\* No call lowers the fan, not even one that fails after the hub applied it, but for a
\* sample that shows the GPU idle and cool with both holds over and the fan turning; and
\* then to the duty of a calibration whose lease still runs and whose earlier steps all
\* passed and have not failed since, or to the curve when no test runs.
LoweredWithReason ==
  [][fan' < fan =>
       /\ gpu # NoSample /\ ~ gpu.busy /\ gpu.temp < 70
       /\ busyLeft = 0 /\ reconnectLeft = 0
       /\ spinning \/ sentAgo < Settle
       /\ \/ /\ manual # NoManual /\ manual.calibration /\ manual.left > 0
             /\ fan' = manual.duty /\ Priors(manual.duty) \subseteq calibrated
          \/ automatic /\ manual = NoManual /\ fan' = TemperatureDuty(gpu.temp)]_vars

\* However calls failed before, the hub runs the selected duty once it has answered for
\* one heartbeat.
Converges == pc = "publish" /\ quiet >= Heartbeat => fan = duty

\* A Safe Test starts inference with the fan at 100, unless the hub left a failed call in
\* doubt or another command replaced the preflight's.
PreflightAtFull ==
  [][Confirm /\ preflight.alone => fan = 100 \/ doubt]_vars
=============================================================================
