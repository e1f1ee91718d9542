------------------------ MODULE FanControllerProofs ------------------------
(***************************************************************************)
(* Theorems about FanController, for any calibration order, samples and    *)
(* times: types, the fan safety policy, the reasons for a lowering, the    *)
(* honesty of the status, the recovery within a heartbeat, the preflight.  *)
(*                                                                         *)
(* The argument.  What the hub was last sent successfully is what it runs, *)
(* or 100, until a call fails (Hub); since the last disturbance, exactly   *)
(* that (Undisturbed).  A duty below 100 was selected with every reason    *)
(* for it (Selected), a test with the steps before it passed (Ladder).  A  *)
(* cooldown that the controller could start is counted down no faster than *)
(* time passes (Cooldown).  A Safe Test that is alone has its 100 in the   *)
(* command file or in a lease that outlasts it (Claimed, Confirmation).    *)
(***************************************************************************)
EXTENDS FanController, TLAPS

Busy == gpu # NoSample /\ gpu.busy

\* The reasons for a duty below 100.
Excused ==
  /\ gpu # NoSample /\ ~ gpu.busy /\ gpu.temp < 70
  /\ spinning \/ sentAgo < Settle
  /\ busyLeft = 0 /\ reconnectLeft = 0
  /\ \/ manual # NoManual /\ duty = manual.duty /\ manual.left > 0
     \/ automatic /\ manual = NoManual /\ duty = TemperatureDuty(gpu.temp)

\* A test is a step of the calibration whose earlier steps have all passed, or runs at 100.
Ladder ==
  manual # NoManual =>
    IF manual.calibration THEN Priors(manual.duty) \subseteq calibrated ELSE manual.duty = 100

\* Until a call fails, the hub runs what it last accepted, or 100 after a forced stop.
Hub == ~ doubt /\ lastSent # NoDuty => fan \in {lastSent, 100}

\* A duty accepted since the last disturbance is what the hub runs.
Undisturbed ==
  sentAgo < Heartbeat /\ sentAgo < quiet /\ lastSent # NoDuty => fan = lastSent

\* A duty below 100 keeps its reasons until the tick ends.
Selected == pc \in {"send", "publish"} /\ duty < 100 => Excused

\* At the end of a tick the hub runs the duty or 100, and since the last disturbance the duty.
Sent ==
  pc = "publish" =>
    /\ found /\ ~ doubt => fan \in {duty, 100}
    /\ quiet >= Heartbeat => fan = duty

\* The time since the GPU was busy and the time left of the cooldown add up to all of it,
\* once the controller has run undisturbed since then; a busy sample is read before that.
Cooldown ==
  \/ Busy /\ pc \in {"consume", "connect", "select"}
  \/ quiet > busyAgo => busyLeft + busyAgo >= BusyHold

Safe == Hub /\ Undisturbed /\ Selected /\ Sent /\ Cooldown

-----------------------------------------------------------------------------
\* A Safe Test waits, and its command is still the last one.
Alone == preflight # NoTest /\ preflight.alone

\* The lease of the preflight's command outlasts the wait for it.
Forced == manual # NoManual /\ manual.duty = 100 /\ manual.left > preflight.left

\* That command is in the controller, or is the next one it reads.
Claimed ==
  Alone => /\ command = [action |-> "force_100"]
           /\ Forced \/ (fresh /\ pc \in {"sample", "consume", "publish"})

\* A status that confirms it was written when the fan was at 100 under its lease, and the
\* fan stays there.
Confirmation ==
  Alone /\ Confirmed =>
    /\ fan = 100 \/ doubt
    /\ pc \in {"connect", "select", "send", "publish"} => Forced
    /\ pc \in {"send", "publish"} => duty = 100

Preflight == Claimed /\ Confirmation

-----------------------------------------------------------------------------
(* The constants and the operators                                          *)

Numbers ==
  /\ {BusyHold, ReconnectHold, Heartbeat, Settle, Lease, ForceLease} \subseteq Nat \ {0}
  /\ PreflightWait \in Nat /\ PreflightWait < ForceLease
  /\ Lags \subseteq Nat \ {0}

LEMMA NumbersHold == Numbers
BY TimesAssumption DEF Numbers

LEMMA DutyRange == Duties \subseteq 40..100 /\ 100 \in Duties
<1>1. Order \in Seq(40..100) /\ Order # << >> /\ Order[1] = 100
  BY OrderAssumption
<1>2. 1 \in DOMAIN Order
  BY <1>1
<1>3. \A i \in DOMAIN Order : Order[i] \in 40..100
  <2> DEFINE S == 40..100
  <2>1. Order \in Seq(S)
    BY <1>1
  <2> HIDE DEF S
  <2>2. \A i \in DOMAIN Order : Order[i] \in S
    BY <2>1
  <2> QED
    BY <2>2 DEF S
<1>4. Duties \subseteq 40..100
  BY <1>3 DEF Duties
<1>5. 100 \in Duties
  BY <1>1, <1>2 DEF Duties
<1> QED
  BY <1>4, <1>5

LEMMA CurveRange == \A t \in 0..120 : TemperatureDuty(t) \in 40..100
BY DEF TemperatureDuty

LEMMA SampleRange ==
  /\ NoSample \notin Samples
  /\ \A s \in Samples : s.temp \in 0..120 /\ s.busy \in BOOLEAN /\ s.temp \in Temps
  /\ Temps \subseteq 0..120
BY SamplesAssumption, NullsAssumption DEF GpuSamples, Temps

Tests == ManualTests \cup {NoManual}

\* Types, and that a new command is there to be read.
TypeInv == TypeOK /\ (fresh => command \in Commands)

LEMMA CommandFields ==
  ASSUME NEW c \in Commands
  PROVE  /\ c.action \in {"manual", "automatic", "force_100"}
         /\ c.action = "manual" => c.duty \in Duties
         /\ c.action = "automatic" => c.enabled \in BOOLEAN
<1>1. CASE c \in [action : {"manual"}, duty : Duties]
  BY <1>1
<1>2. CASE c \in [action : {"automatic"}, enabled : BOOLEAN]
  BY <1>2
<1>3. CASE c \in [action : {"force_100"}]
  BY <1>3
<1> QED
  BY <1>1, <1>2, <1>3 DEF Commands

\* What the observations keep of a test.
LEMMA ObservedEffect ==
  ASSUME TypeOK
  PROVE  /\ Observed \in Tests
         /\ Observed = NoManual <=> manual = NoManual
         /\ manual # NoManual => /\ Observed \in ManualTests
                                 /\ Observed.duty = manual.duty
                                 /\ Observed.left = manual.left
<1>1. CASE manual = NoManual
  BY <1>1 DEF Observed, Tests
<1>2. CASE manual # NoManual
  <2>1. manual \in ManualTests
    BY <1>2 DEF TypeOK
  <2>2. [manual EXCEPT !.seen = TRUE] \in ManualTests
    BY <2>1 DEF ManualTests
  <2>3. /\ [manual EXCEPT !.seen = TRUE].duty = manual.duty
        /\ [manual EXCEPT !.seen = TRUE].left = manual.left
    BY <2>1 DEF ManualTests
  <2>4. NoManual \notin ManualTests
    BY NullsAssumption
  <2> QED
    BY <1>2, <2>1, <2>2, <2>3, <2>4 DEF Observed, Tests
<1> QED
  BY <1>1, <1>2

LEMMA CommandedEffect ==
  ASSUME TypeOK, NEW d
  PROVE  /\ Commanded(d) \in Tests
         /\ Commanded(d) = NoManual <=> manual = NoManual
         /\ manual # NoManual => Commanded(d).duty = manual.duty /\ Commanded(d).left = manual.left
<1>1. CASE manual = NoManual
  BY <1>1 DEF Commanded, Tests
<1>2. CASE manual # NoManual
  <2>1. manual \in ManualTests
    BY <1>2 DEF TypeOK
  <2>2. [manual EXCEPT !.age = 0] \in ManualTests
    BY <2>1, NumbersHold DEF ManualTests, Numbers, Never
  <2>3. /\ [manual EXCEPT !.age = 0].duty = manual.duty
        /\ [manual EXCEPT !.age = 0].left = manual.left
    BY <2>1 DEF ManualTests
  <2> QED
    BY <1>2, <2>1, <2>2, <2>3, NullsAssumption DEF Commanded, Tests
<1> QED
  BY <1>1, <1>2

Idle == gpu # NoSample /\ ~ gpu.busy /\ gpu.temp < 70

\* What _select_duty returns for a test m: of the right kind; less than 100 only with the
\* reasons for it; and 100, with the test kept, while a test of 100 runs.
Reasoned(c, m) ==
  /\ c.duty \in 40..100 /\ c.manual \in {m, NoManual} /\ c.calibrated \subseteq Duties
  /\ c.manual = NoManual \/ c.calibrated = calibrated
  /\ c.duty < 100 => /\ Idle /\ busyLeft = 0 /\ reconnectLeft = 0
                     /\ \/ m # NoManual /\ c.manual = m /\ c.duty = m.duty /\ m.left > 0
                        \/ automatic /\ m = NoManual /\ c.duty = TemperatureDuty(gpu.temp)
  /\ m # NoManual /\ m.duty = 100 /\ m.left > 0 => c.duty = 100 /\ c.manual = m

LEMMA FinishReasoned ==
  ASSUME TypeOK, NEW m \in ManualTests, NEW success \in BOOLEAN, m.duty < 100 \/ m.left = 0
  PROVE  Reasoned(Finish(m, success), m)
<1>1. m.duty \in Duties /\ m.left \in Nat
  BY NumbersHold DEF ManualTests, Numbers
<1>2. calibrated \subseteq Duties
  BY DEF TypeOK
<1> DEFINE c == Finish(m, success)
<1>3. c.duty = 100 /\ c.manual = NoManual
  BY DEF Finish, Choice
<1>4. c.calibrated \in {calibrated, calibrated \cup {m.duty}, calibrated \ {m.duty}}
  BY DEF Finish, Choice
<1>5. c.calibrated \subseteq Duties
  BY <1>1, <1>2, <1>4
<1> HIDE DEF c
<1>6. m # NoManual /\ m.duty = 100 /\ m.left > 0 => FALSE
  BY <1>1
<1>7. Reasoned(c, m)
  BY <1>3, <1>5, <1>6 DEF Reasoned
<1> QED
  BY <1>7 DEF c

LEMMA SelectReasoned ==
  ASSUME TypeOK, NEW m \in Tests
  PROVE  Reasoned(Select(m), m)
<1>1. calibrated \subseteq Duties /\ busyLeft \in Nat /\ reconnectLeft \in Nat
  BY NumbersHold DEF TypeOK, Numbers
<1>2. Reasoned(Choice(100, m, calibrated), m)
  BY <1>1 DEF Reasoned, Choice
<1>3. ASSUME Reduced(m), NEW success \in BOOLEAN PROVE Reasoned(Finish(m, success), m)
  BY <1>3, FinishReasoned DEF Reduced, Tests
<1>4. ASSUME m # NoManual, Idle, busyLeft = 0, reconnectLeft = 0 PROVE Reasoned(SelectManual(m), m)
  <2>1. m \in ManualTests
    BY <1>4 DEF Tests
  <2>2. m.duty \in 40..100 /\ m.seen \in BOOLEAN /\ m.left \in Nat
    <3>1. m.duty \in Duties /\ m.seen \in BOOLEAN /\ m.left \in 0..Lease \cup 0..ForceLease
      BY <2>1 DEF ManualTests
    <3>2. m.left \in Nat
      BY <3>1, NumbersHold DEF Numbers
    <3> QED
      BY <3>1, <3>2, DutyRange
  <2>3. CASE Reduced(m) /\ m.start # NoSample /\ gpu.temp >= m.start + 5
    BY <1>3, <2>3 DEF SelectManual
  <2>4. CASE m.left = 0
    <3>1. Reasoned(Finish(m, m.seen), m)
      BY <2>1, <2>2, <2>4, FinishReasoned
    <3> QED
      BY <1>3, <2>4, <3>1 DEF SelectManual
  <2>5. CASE m.left > 0 /\ ~ (Reduced(m) /\ m.start # NoSample /\ gpu.temp >= m.start + 5)
    <3>1. Reasoned(Choice(m.duty, m, calibrated), m)
      BY <1>1, <1>4, <2>2, <2>5 DEF Reasoned, Choice
    <3>2. SelectManual(m) = Choice(m.duty, m, calibrated)
      <4>1. m.left # 0
        BY <2>2, <2>5
      <4> QED
        BY <2>5, <4>1, Zenon DEF SelectManual
    <3> QED
      BY <3>1, <3>2
  <2> QED
    BY <2>2, <2>3, <2>4, <2>5
<1>5. ASSUME Idle, busyLeft = 0, reconnectLeft = 0, automatic
      PROVE  Reasoned(Choice(TemperatureDuty(gpu.temp), NoManual, calibrated), NoManual)
  <2>1. gpu.temp \in 0..120
    BY <1>5, SampleRange DEF Idle, TypeOK
  <2>2. TemperatureDuty(gpu.temp) \in 40..100
    BY <2>1, CurveRange
  <2> QED
    BY <1>1, <1>5, <2>2 DEF Reasoned, Choice
<1>6. gpu # NoSample => gpu.temp \in Int /\ gpu.busy \in BOOLEAN
  BY SampleRange DEF TypeOK
<1>7. CASE gpu = NoSample
  BY <1>2, <1>7 DEF Select
<1>8. CASE gpu # NoSample /\ (gpu.busy \/ gpu.temp >= 70)
  BY <1>2, <1>3, <1>8 DEF Select
<1>9. CASE Idle /\ (busyLeft > 0 \/ reconnectLeft > 0)
  <2>1. ~ (gpu.busy \/ gpu.temp >= 70)
    BY <1>6, <1>9 DEF Idle
  <2>2. Select(m) = Choice(100, m, calibrated)
    BY <1>9, <2>1 DEF Select, Idle
  <2> QED
    BY <1>2, <2>2
<1>10. CASE Idle /\ ~ (busyLeft > 0 \/ reconnectLeft > 0)
  <2>1. busyLeft = 0 /\ reconnectLeft = 0
    BY <1>1, <1>10
  <2>2. Select(m) = IF m # NoManual THEN SelectManual(m)
                    ELSE IF automatic THEN Choice(TemperatureDuty(gpu.temp), m, calibrated)
                    ELSE Choice(100, m, calibrated)
    <3>1. ~ (gpu.busy \/ gpu.temp >= 70)
      BY <1>6, <1>10 DEF Idle
    <3> QED
      BY <1>10, <3>1 DEF Select, Idle
  <2> QED
    BY <1>2, <1>4, <1>5, <1>10, <2>1, <2>2
<1> QED
  BY <1>6, <1>7, <1>8, <1>9, <1>10 DEF Idle

\* Nor does a fan that stands still keep less than 100.
LEMMA FailsafeReasoned ==
  ASSUME TypeOK, NEW m \in Tests, NEW c, c = RpmFailsafe(Select(m))
  PROVE  /\ Reasoned(c, m)
         /\ c.duty < 100 => spinning \/ sentAgo < Settle
<1>1. Reasoned(Select(m), m)
  BY SelectReasoned
<1> DEFINE s == Select(m)
<1> HIDE DEF s
<1>2. Reasoned(s, m)
  BY <1>1 DEF s
<1>3. c = RpmFailsafe(s)
  BY DEF s
<1>4. sentAgo \in Int /\ Settle \in Nat \ {0}
  BY NumbersHold DEF TypeOK, Numbers, Never
<1>5. CASE ~ (~ spinning /\ sentAgo # Never /\ sentAgo >= Settle)
  <2>1. c = s
    BY <1>3, <1>5 DEF RpmFailsafe
  <2>2. spinning \/ sentAgo < Settle
    <3>1. sentAgo = Never => sentAgo < Settle
      BY <1>4 DEF Never
    <3>2. ~ (sentAgo >= Settle) => sentAgo < Settle
      BY <1>4
    <3> QED
      BY <1>5, <3>1, <3>2
  <2> QED
    BY <1>2, <2>1, <2>2
<1>6. CASE ~ spinning /\ sentAgo # Never /\ sentAgo >= Settle
  <2>1. CASE Reduced(s.manual)
    <3>1. s.manual = m /\ m \in ManualTests /\ m.duty < 100
      BY <1>2, <2>1 DEF Reasoned, Reduced, Tests
    <3>2. Reasoned(Finish(m, FALSE), m)
      BY <3>1, FinishReasoned
    <3>3. c = Finish(m, FALSE)
      BY <1>3, <1>6, <2>1, <3>1 DEF RpmFailsafe
    <3> QED
      BY <3>2, <3>3 DEF Finish, Choice
  <2>2. CASE ~ Reduced(s.manual)
    <3>1. c = [s EXCEPT !.duty = 100]
      BY <1>3, <1>6, <2>2 DEF RpmFailsafe
    <3> QED
      BY <1>2, <3>1 DEF Reasoned
  <2> QED
    BY <2>1, <2>2
<1> QED
  BY <1>5, <1>6

-----------------------------------------------------------------------------
(* Types                                                                    *)

LEMMA TypeInit == Init => TypeInv
<1> SUFFICES ASSUME Init PROVE TypeInv
  OBVIOUS
<1>1. fan \in 40..100
  BY DutyRange DEF Init
<1>2. calibrated \subseteq Duties
  BY DEF Init
<1>3. status \in Statuses
  BY DEF Init, Statuses, Offline
<1>4. sentAgo \in Never..Heartbeat /\ busyLeft \in 0..BusyHold
      /\ reconnectLeft \in 0..ReconnectHold /\ quiet \in 0..(BusyHold + 1)
      /\ busyAgo \in 0..BusyHold
  BY NumbersHold DEF Init, Numbers, Never
<1>5. {online, automatic, fresh, found, spinning, sent, doubt} \subseteq BOOLEAN
  BY DEF Init
<1> QED
  BY <1>1, <1>2, <1>3, <1>4, <1>5 DEF Init, TypeInv, TypeOK

LEMMA TypeSample == TypeInv /\ Sample => TypeInv'
<1> SUFFICES ASSUME TypeInv, Sample PROVE TypeInv'
  OBVIOUS
<1>0. TypeOK /\ Numbers
  BY NumbersHold DEF TypeInv
<1>1. PICK dt \in Lags :
        /\ sentAgo' = Ago(sentAgo, dt, Heartbeat)
        /\ busyLeft' = Less(busyLeft, dt)
        /\ reconnectLeft' = Less(reconnectLeft, dt)
        /\ manual' = IF manual = NoManual THEN NoManual
                     ELSE [manual EXCEPT !.left = Less(@, dt), !.age = Ago(@, dt, Settle)]
        /\ preflight' = IF preflight = NoTest \/ preflight.left < dt THEN NoTest
                        ELSE [preflight EXCEPT !.left = @ - dt]
        /\ quiet' = AtMost(quiet + dt, BusyHold + 1)
        /\ busyAgo' = IF gpu' # NoSample /\ gpu'.busy THEN 0 ELSE AtMost(busyAgo + dt, BusyHold)
  BY DEF Sample
<1>2. dt \in Nat \ {0}
  BY <1>0 DEF Numbers
<1>3. /\ sentAgo' \in Never..Heartbeat /\ busyLeft' \in 0..BusyHold
      /\ reconnectLeft' \in 0..ReconnectHold /\ quiet' \in 0..(BusyHold + 1)
      /\ sentAgo' = Never => sentAgo = Never
  BY <1>0, <1>1, <1>2 DEF TypeOK, Numbers, Ago, Less, AtMost, Never
<1>4. busyAgo' \in 0..BusyHold
  BY <1>0, <1>1, <1>2 DEF TypeOK, Numbers, AtMost
<1>5. manual' \in ManualTests \cup {NoManual}
  <2>1. CASE manual = NoManual
    BY <1>1, <2>1
  <2>2. CASE manual # NoManual
    <3>1. manual \in ManualTests
      BY <1>0, <2>2 DEF TypeOK
    <3>2. Less(manual.left, dt) \in 0..Lease \cup 0..ForceLease
      BY <1>0, <1>2, <3>1 DEF Less, ManualTests, Numbers
    <3>3. Ago(manual.age, dt, Settle) \in Never..Settle
      BY <1>0, <1>2, <3>1 DEF Ago, AtMost, ManualTests, Numbers, Never
    <3>4. manual' = [manual EXCEPT !.left = Less(@, dt), !.age = Ago(@, dt, Settle)]
      BY <1>1, <2>2
    <3> QED
      BY <3>1, <3>2, <3>3, <3>4 DEF ManualTests
  <2> QED
    BY <2>1, <2>2
<1>6. preflight' \in [left : 0..PreflightWait, alone : BOOLEAN] \cup {NoTest}
  <2>1. CASE preflight = NoTest \/ preflight.left < dt
    BY <1>1, <2>1
  <2>2. CASE preflight # NoTest /\ ~ (preflight.left < dt)
    <3>1. preflight \in [left : 0..PreflightWait, alone : BOOLEAN]
      BY <1>0, <2>2 DEF TypeOK
    <3>2. preflight.left - dt \in 0..PreflightWait
      BY <1>0, <1>2, <2>2, <3>1 DEF Numbers
    <3> QED
      BY <1>1, <2>2, <3>1, <3>2
  <2> QED
    BY <2>1, <2>2
<1>7. pc' = "consume" /\ gpu' \in Samples \cup {NoSample}
  BY DEF Sample
<1>8. UNCHANGED <<fan, online, lastSent, automatic, calibrated, command, fresh, status, found,
                  spinning, duty, sent, doubt>>
  BY DEF Sample, storedVars, commandVars
<1> QED
  BY <1>0, <1>3, <1>4, <1>5, <1>6, <1>7, <1>8 DEF TypeOK, TypeInv

LEMMA TypeConsume == TypeInv /\ Consume => TypeInv'
<1> SUFFICES ASSUME TypeInv, Consume PROVE TypeInv'
  OBVIOUS
<1>0. TypeOK /\ Numbers
  BY NumbersHold DEF TypeInv
<1>1. \A d \in Duties, b \in BOOLEAN, left \in {Lease, ForceLease} :
        Test(d, b, left) \in ManualTests
  <2> SUFFICES ASSUME NEW d \in Duties, NEW b \in BOOLEAN, NEW left \in {Lease, ForceLease}
               PROVE  Test(d, b, left) \in ManualTests
    OBVIOUS
  <2>1. left \in 0..Lease \cup 0..ForceLease
    BY <1>0 DEF Numbers
  <2>2. Never \in Never..Settle
    BY <1>0 DEF Numbers, Never
  <2>3. (IF gpu = NoSample THEN NoSample ELSE gpu.temp) \in Temps \cup {NoSample}
    BY <1>0, SampleRange DEF TypeOK
  <2> QED
    BY <2>1, <2>2, <2>3 DEF Test, ManualTests
<1>2. /\ manual' \in ManualTests \cup {NoManual}
      /\ lastSent' \in {lastSent, NoDuty}
      /\ automatic' \in BOOLEAN
  <2>1. CASE UNCHANGED <<manual, lastSent, automatic>>
    BY <1>0, <2>1 DEF TypeOK
  <2>2. CASE fresh /\ command.action = "manual" /\ UNCHANGED automatic
             /\ manual' \in {manual, Test(command.duty, TRUE, Lease)}
             /\ lastSent' \in {lastSent, NoDuty}
    <3>1. command.duty \in Duties
      BY <2>2, CommandFields DEF TypeInv
    <3> QED
      BY <1>0, <1>1, <2>2, <3>1 DEF TypeOK
  <2>3. CASE automatic' = (command.enabled /\ calibrated = Duties) /\ UNCHANGED <<manual, lastSent>>
    BY <1>0, <2>3 DEF TypeOK
  <2>4. CASE manual' = Test(100, FALSE, ForceLease) /\ lastSent' = NoDuty /\ UNCHANGED automatic
    BY <1>0, <1>1, <2>4, DutyRange DEF TypeOK
  <2> QED
    BY <2>1, <2>2, <2>3, <2>4 DEF Consume
<1>3. UNCHANGED <<fan, online, sentAgo, busyLeft, reconnectLeft, calibrated, command, status, gpu,
                  found, spinning, duty, sent, preflight, doubt, quiet, busyAgo>>
      /\ pc' = "connect" /\ fresh' = FALSE
  BY DEF Consume, historyVars
<1> QED
  BY <1>0, <1>2, <1>3 DEF TypeOK, TypeInv

LEMMA TypeConnect == TypeInv /\ (HubMissing \/ Connect) => TypeInv'
<1> SUFFICES ASSUME TypeInv, HubMissing \/ Connect PROVE TypeInv'
  OBVIOUS
<1>0. TypeOK /\ Numbers
  BY NumbersHold DEF TypeInv
<1>1. /\ 0 \in Never..Heartbeat /\ 0 \in 0..(BusyHold + 1) /\ 0 # Never /\ 100 \in 40..100
      /\ ReconnectHold \in 0..ReconnectHold
  BY <1>0 DEF Numbers, Never
<1>2. CASE HubMissing
  BY <1>0, <1>1, <1>2 DEF TypeOK, TypeInv, HubMissing, storedVars, commandVars
<1>3. CASE Connect
  <2>1. UNCHANGED <<busyLeft, automatic, calibrated, command, fresh, status, gpu, duty, sent,
                    preflight, busyAgo>> /\ pc' = "select" /\ found' = TRUE /\ spinning' \in BOOLEAN
    BY <1>3 DEF Connect, storedVars, commandVars
  <2>2. CASE UNCHANGED <<fan, online, lastSent, sentAgo, manual, reconnectLeft, doubt, quiet>>
    BY <1>0, <2>1, <2>2 DEF TypeOK, TypeInv
  <2>3. CASE Accepted(100) /\ manual' = Commanded(100) /\ reconnectLeft' = ReconnectHold
             /\ online' = TRUE /\ UNCHANGED quiet
    BY <1>0, <1>1, <2>1, <2>3, CommandedEffect DEF TypeOK, TypeInv, Accepted, Tests
  <2>4. CASE Refused({100}) /\ quiet' = 0 /\ UNCHANGED <<manual, reconnectLeft, online>>
    BY <1>0, <1>1, <2>1, <2>4 DEF TypeOK, TypeInv, Refused
  <2> QED
    BY <1>3, <2>2, <2>3, <2>4 DEF Connect
<1> QED
  BY <1>2, <1>3

\* What the selection step chooses.
LEMMA Selection ==
  ASSUME TypeOK, SelectDuty
  PROVE  /\ Reasoned([duty |-> duty', manual |-> manual', calibrated |-> calibrated'], Observed)
         /\ duty' < 100 => spinning \/ sentAgo < Settle
<1> DEFINE c == RpmFailsafe(Select(Observed))
<1>1. Observed \in Tests
  BY ObservedEffect
<1>2. Reasoned(c, Observed) /\ (c.duty < 100 => spinning \/ sentAgo < Settle)
  BY <1>1, FailsafeReasoned
<1>3. duty' = c.duty /\ manual' = c.manual /\ calibrated' = c.calibrated
  BY DEF SelectDuty
<1> HIDE DEF c
<1> QED
  BY <1>2, <1>3 DEF Reasoned

LEMMA TypeSelect == TypeInv /\ SelectDuty => TypeInv'
<1> SUFFICES ASSUME TypeInv, SelectDuty PROVE TypeInv'
  OBVIOUS
<1>0. TypeOK /\ Numbers
  BY NumbersHold DEF TypeInv
<1>1. duty' \in 40..100 /\ manual' \in {Observed, NoManual} /\ calibrated' \subseteq Duties
  BY <1>0, Selection DEF Reasoned
<1>2. manual' \in ManualTests \cup {NoManual}
  BY <1>0, <1>1, ObservedEffect DEF Tests
<1>3. busyLeft' \in 0..BusyHold
  BY <1>0 DEF SelectDuty, TypeOK, Numbers
<1>4. UNCHANGED <<fan, online, lastSent, sentAgo, reconnectLeft, automatic, command, fresh, status,
                  gpu, found, spinning, sent, preflight, doubt, quiet, busyAgo>> /\ pc' = "send"
  BY DEF SelectDuty, commandVars, historyVars
<1> QED
  BY <1>0, <1>1, <1>2, <1>3, <1>4 DEF TypeOK, TypeInv

LEMMA TypeSend == TypeInv /\ Send => TypeInv'
<1> SUFFICES ASSUME TypeInv, Send PROVE TypeInv'
  OBVIOUS
<1>0. TypeOK /\ Numbers
  BY NumbersHold DEF TypeInv
<1>1. 0 \in Never..Heartbeat /\ 0 \in 0..(BusyHold + 1) /\ 0 # Never /\ 100 \in 40..100
  BY <1>0 DEF Numbers, Never
<1>2. UNCHANGED <<online, busyLeft, reconnectLeft, automatic, calibrated, command, fresh, status,
                  gpu, found, spinning, preflight, busyAgo>> /\ pc' = "publish"
  BY DEF Send, storedVars, commandVars
<1>3. CASE ~ Due /\ sent' = TRUE
           /\ UNCHANGED <<fan, lastSent, sentAgo, manual, duty, doubt, quiet>>
  BY <1>0, <1>2, <1>3 DEF TypeOK, TypeInv, Due
<1>4. CASE Accepted(duty) /\ manual' = Commanded(duty) /\ sent' = TRUE /\ UNCHANGED <<duty, quiet>>
  BY <1>0, <1>1, <1>2, <1>4, CommandedEffect DEF TypeOK, TypeInv, Accepted, Tests
<1>5. CASE (Accepted(100) \/ Refused({duty, 100})) /\ duty' = 100 /\ sent' = FALSE /\ quiet' = 0
           /\ UNCHANGED manual
  <2>1. /\ fan' \in 40..100 /\ lastSent' \in 40..100 \cup {NoDuty} /\ doubt' \in BOOLEAN
        /\ sentAgo' \in Never..Heartbeat /\ (sentAgo' = Never => lastSent' = NoDuty)
    <3>1. CASE Accepted(100)
      BY <1>1, <3>1 DEF Accepted
    <3>2. CASE Refused({duty, 100})
      BY <1>0, <1>1, <3>2 DEF Refused, TypeOK
    <3> QED
      BY <1>5, <3>1, <3>2
  <2> QED
    BY <1>0, <1>1, <1>2, <1>5, <2>1 DEF TypeOK, TypeInv
<1>6. \/ ~ Due /\ sent' = TRUE /\ UNCHANGED <<fan, lastSent, sentAgo, manual, duty, doubt, quiet>>
      \/ Accepted(duty) /\ manual' = Commanded(duty) /\ sent' = TRUE /\ UNCHANGED <<duty, quiet>>
      \/ (Accepted(100) \/ Refused({duty, 100})) /\ duty' = 100 /\ sent' = FALSE /\ quiet' = 0
         /\ UNCHANGED manual
  BY DEF Send
<1> QED
  BY <1>3, <1>4, <1>5, <1>6

LEMMA TypePublish == TypeInv /\ (Publish \/ PublishFails \/ Restart) => TypeInv'
<1> SUFFICES ASSUME TypeInv, Publish \/ PublishFails \/ Restart PROVE TypeInv'
  OBVIOUS
<1>0. TypeOK /\ Numbers
  BY NumbersHold DEF TypeInv
<1>1. /\ 0 \in 0..(BusyHold + 1) /\ 0 \in 0..BusyHold /\ 0 \in 0..ReconnectHold
      /\ Never \in Never..Heartbeat /\ 100 \in 40..100 /\ BusyHold \in 0..BusyHold
  BY <1>0 DEF Numbers, Never
<1>2. Offline \in Statuses
  BY DEF Offline, Statuses
<1>3. CASE Publish
  <2>1. status' \in Statuses
    BY <1>0, <1>3 DEF Publish, Statuses, TypeOK
  <2> QED
    BY <1>0, <1>1, <1>3, <2>1 DEF TypeOK, TypeInv, Publish, EndTick, memoryVars, storedVars,
       commandVars, historyVars
<1>4. CASE PublishFails
  BY <1>0, <1>1, <1>2, <1>4 DEF TypeOK, TypeInv, PublishFails, EndTick, memoryVars, storedVars,
     commandVars
<1>5. CASE Restart
  <2>1. fresh' \in BOOLEAN /\ (fresh' => command' \in Commands)
    BY <1>0, <1>5 DEF Restart, TypeOK
  <2> QED
    BY <1>0, <1>1, <1>5, <2>1 DEF TypeOK, TypeInv, Restart, EndTick, storedVars
<1> QED
  BY <1>3, <1>4, <1>5

LEMMA TypeServer ==
  TypeInv /\ ((\E c \in Posts : Post(c)) \/ StartPreflight \/ Confirm) => TypeInv'
<1> SUFFICES ASSUME TypeInv, (\E c \in Posts : Post(c)) \/ StartPreflight \/ Confirm PROVE TypeInv'
  OBVIOUS
<1>0. TypeOK /\ Numbers
  BY NumbersHold DEF TypeInv
<1>1. UNCHANGED <<fan, memoryVars, storedVars, tickVars, historyVars>>
  BY DEF Post, StartPreflight, Confirm
<1>2. (command' \in Commands /\ fresh' = TRUE) \/ UNCHANGED commandVars
  <2>1. [action |-> "force_100"] \in Commands
    BY DEF Commands
  <2> QED
    BY <2>1, PostsAssumption DEF Post, StartPreflight, Confirm, Write
<1>3. status' \in Statuses
  BY <1>0 DEF Post, StartPreflight, Confirm, TypeOK, Statuses
<1>4. preflight' \in [left : 0..PreflightWait, alone : BOOLEAN] \cup {NoTest}
  <2>1. CASE \E c \in Posts : Post(c)
    BY <1>0, <2>1 DEF Post, TypeOK
  <2>2. CASE StartPreflight
    BY <1>0, <2>2 DEF StartPreflight, Numbers
  <2>3. CASE Confirm
    BY <2>3 DEF Confirm
  <2> QED
    BY <2>1, <2>2, <2>3
<1>5. /\ command' \in Commands \cup {NoCommand} /\ fresh' \in BOOLEAN
      /\ fresh' => command' \in Commands
  <2>1. CASE command' \in Commands /\ fresh' = TRUE
    BY <2>1
  <2>2. CASE UNCHANGED commandVars
    <3>1. command' = command /\ fresh' = fresh
      BY <2>2 DEF commandVars
    <3> QED
      BY <1>0, <3>1 DEF TypeOK, TypeInv
  <2> QED
    BY <1>2, <2>1, <2>2
<1>6. UNCHANGED <<fan, online, lastSent, sentAgo, busyLeft, reconnectLeft, manual, automatic,
                  calibrated, pc, gpu, found, spinning, duty, sent, doubt, quiet, busyAgo>>
  BY <1>1 DEF memoryVars, storedVars, tickVars, historyVars
<1> QED
  BY <1>0, <1>3, <1>4, <1>5, <1>6 DEF TypeOK, TypeInv

LEMMA TypeStep == TypeInv /\ [Next]_vars => TypeInv'
<1>1. TypeInv /\ UNCHANGED vars => TypeInv'
  BY DEF TypeInv, TypeOK, vars, memoryVars, storedVars, commandVars, tickVars, historyVars
<1> QED
  BY <1>1, TypeSample, TypeConsume, TypeConnect, TypeSelect, TypeSend, TypePublish, TypeServer
     DEF Next, Tick

\* Every variable keeps its kind: no lease, deadline or duty leaves its range.
THEOREM TypeCorrect == Spec => []TypeOK
<1>1. Spec => []TypeInv
  BY TypeInit, TypeStep, PTL DEF Spec
<1>2. TypeInv => TypeOK
  BY DEF TypeInv
<1> QED
  BY <1>1, <1>2, PTL

-----------------------------------------------------------------------------
(* The hub and the fan                                                      *)

\* Every way the tick and the status server touch what the hub was sent.
Call ==
  \/ UNCHANGED <<fan, lastSent, sentAgo, doubt>> /\ quiet' \in {quiet, 0}
  \/ UNCHANGED <<fan, sentAgo, doubt, quiet>> /\ lastSent' = NoDuty
  \/ \E d \in 40..100 : Accepted(d)
  \/ lastSent' = lastSent /\ sentAgo' = sentAgo /\ doubt' = TRUE /\ quiet' = 0
  \/ fan' \in {fan, 100} /\ UNCHANGED <<lastSent, sentAgo, doubt>> /\ quiet' = 0
  \/ fan' \in {fan, 100} /\ lastSent' = NoDuty /\ sentAgo' = Never /\ quiet' = 0 /\ UNCHANGED doubt

LEMMA Calls ==
  ASSUME TypeOK, Next
  PROVE  Sample \/ Call
<1>1. duty \in 40..100 /\ 100 \in 40..100
  BY DEF TypeOK
<1>2. CASE Consume
  BY <1>2 DEF Consume, Call, historyVars
<1>3. CASE HubMissing
  BY <1>3 DEF HubMissing, Call
<1>4. CASE Connect
  BY <1>1, <1>4 DEF Connect, Call, Refused
<1>5. CASE SelectDuty
  BY <1>5 DEF SelectDuty, Call, historyVars
<1>6. CASE Send
  BY <1>1, <1>6 DEF Send, Call, Refused
<1>7. CASE Publish
  BY <1>7 DEF Publish, Call, memoryVars, historyVars
<1>8. CASE PublishFails
  BY <1>8 DEF PublishFails, Call, memoryVars
<1>9. CASE Restart
  BY <1>9 DEF Restart, Call
<1>10. CASE (\E c \in Posts : Post(c)) \/ StartPreflight \/ Confirm
  BY <1>10 DEF Post, StartPreflight, Confirm, Call, memoryVars, historyVars
<1> QED
  BY <1>2, <1>3, <1>4, <1>5, <1>6, <1>7, <1>8, <1>9, <1>10 DEF Next, Tick

LEMMA HubStep ==
  ASSUME TypeOK, Next, Hub, Undisturbed
  PROVE  Hub' /\ Undisturbed'
<1>0. /\ sentAgo \in Int /\ sentAgo >= Never /\ quiet \in Nat /\ Heartbeat \in Nat \ {0}
      /\ sentAgo = Never => lastSent = NoDuty
  BY NumbersHold DEF TypeOK, Numbers, Never
<1>1. CASE Sample
  <2>1. UNCHANGED <<fan, lastSent, doubt>>
    BY <1>1 DEF Sample
  <2>2. PICK dt \in Lags : /\ sentAgo' = Ago(sentAgo, dt, Heartbeat)
                           /\ quiet' = AtMost(quiet + dt, BusyHold + 1)
    BY <1>1 DEF Sample
  <2>3. dt \in Nat /\ BusyHold \in Nat
    BY NumbersHold DEF Numbers
  <2>4. ASSUME sentAgo' < Heartbeat, sentAgo' < quiet', lastSent # NoDuty
        PROVE  sentAgo < Heartbeat /\ sentAgo < quiet
    BY <1>0, <2>2, <2>3, <2>4 DEF Ago, AtMost, Never
  <2> QED
    BY <2>1, <2>4 DEF Hub, Undisturbed
<1>2. CASE Call
  <2>1. CASE UNCHANGED <<fan, lastSent, sentAgo, doubt>> /\ quiet' \in {quiet, 0}
    BY <1>0, <2>1 DEF Hub, Undisturbed, Never
  <2>2. CASE lastSent' = NoDuty
    BY <2>2 DEF Hub, Undisturbed
  <2>3. CASE \E d \in 40..100 : Accepted(d)
    BY <2>3 DEF Accepted, Hub, Undisturbed
  <2>4. CASE lastSent' = lastSent /\ sentAgo' = sentAgo /\ doubt' = TRUE /\ quiet' = 0
    BY <1>0, <2>4 DEF Hub, Undisturbed, Never
  <2>5. CASE fan' \in {fan, 100} /\ UNCHANGED <<lastSent, sentAgo, doubt>> /\ quiet' = 0
    BY <1>0, <2>5 DEF Hub, Undisturbed, Never
  <2> QED
    BY <1>2, <2>1, <2>2, <2>3, <2>4, <2>5 DEF Call
<1> QED
  BY <1>1, <1>2, Calls

LEMMA SelectedStep ==
  ASSUME TypeOK, Next, Selected
  PROVE  Selected'
<1>1. CASE pc' \notin {"send", "publish"}
  BY <1>1 DEF Selected
<1>2. CASE SelectDuty
  <2> SUFFICES ASSUME duty' < 100 PROVE Excused'
    BY DEF Selected
  <2>1. /\ Idle /\ busyLeft = 0 /\ reconnectLeft = 0
        /\ \/ /\ Observed # NoManual /\ manual' = Observed
              /\ duty' = Observed.duty /\ Observed.left > 0
           \/ /\ automatic /\ Observed = NoManual /\ manual' = NoManual
              /\ duty' = TemperatureDuty(gpu.temp)
        /\ spinning \/ sentAgo < Settle
    BY <1>2, Selection DEF Reasoned
  <2>2. UNCHANGED <<gpu, spinning, sentAgo, automatic>> /\ busyLeft' = 0 /\ reconnectLeft' = 0
    BY <1>2, <2>1 DEF SelectDuty, Idle
  <2>3. TemperatureDuty(gpu'.temp) = TemperatureDuty(gpu.temp)
    BY <2>2
  <2> QED
    BY <2>1, <2>2, <2>3 DEF Excused, Idle
<1>3. CASE Send
  <2> SUFFICES ASSUME duty' < 100 PROVE Excused'
    BY DEF Selected
  <2>1. duty' = duty /\ UNCHANGED <<gpu, spinning, busyLeft, reconnectLeft, automatic>>
    BY <1>3 DEF Send, storedVars
  <2>2. Excused
    BY <1>3, <2>1 DEF Selected, Send
  <2>3. \/ UNCHANGED <<sentAgo, manual>>
        \/ sentAgo' = 0 /\ manual' = Commanded(duty)
    BY <1>3 DEF Send, Accepted
  <2>4. spinning' \/ sentAgo' < Settle
    BY <2>1, <2>2, <2>3, NumbersHold DEF Excused, Numbers
  <2>5. /\ manual # NoManual /\ duty = manual.duty /\ manual.left > 0
             => manual' # NoManual /\ duty = manual'.duty /\ manual'.left > 0
        /\ manual = NoManual => manual' = NoManual
    BY <2>3, CommandedEffect
  <2>6. TemperatureDuty(gpu'.temp) = TemperatureDuty(gpu.temp)
    BY <2>1
  <2> QED
    BY <2>1, <2>2, <2>4, <2>5, <2>6 DEF Excused
<1>4. CASE HubMissing
  BY <1>4 DEF HubMissing, Selected
<1>5. CASE (\E c \in Posts : Post(c)) \/ StartPreflight \/ Confirm
  <2>1. UNCHANGED <<pc, gpu, spinning, duty, sentAgo, busyLeft, reconnectLeft, manual,
                    automatic>>
    BY <1>5 DEF Post, StartPreflight, Confirm, memoryVars, storedVars, tickVars
  <2>2. TemperatureDuty(gpu'.temp) = TemperatureDuty(gpu.temp)
    BY <2>1
  <2> QED
    BY <2>1, <2>2 DEF Selected, Excused
<1>6. CASE Sample \/ Consume \/ Connect \/ Publish \/ PublishFails \/ Restart
  <2>1. pc' \in {"sample", "consume", "connect", "select"}
    BY <1>6 DEF Sample, Consume, Connect, Publish, PublishFails, Restart, EndTick
  <2> QED
    BY <1>1, <2>1
<1> QED
  BY <1>2, <1>3, <1>4, <1>5, <1>6 DEF Next, Tick

LEMMA SentStep ==
  ASSUME TypeOK, Next, Hub, Undisturbed, Sent
  PROVE  Sent'
<1>0. Heartbeat \in Nat \ {0} /\ quiet \in Nat /\ sentAgo \in Int /\ duty \in 40..100
      /\ NoDuty \notin 40..100
  BY NumbersHold, NullsAssumption DEF Numbers, TypeOK, Never
<1>1. CASE HubMissing
  BY <1>0, <1>1 DEF HubMissing, Sent
<1>2. CASE Send
  <2>1. CASE ~ Due /\ UNCHANGED <<fan, duty, doubt, quiet>>
    <3>1. duty = lastSent /\ sentAgo < Heartbeat /\ lastSent # NoDuty
      BY <1>0, <2>1 DEF Due
    <3>2. ~ doubt => fan \in {duty, 100}
      BY <3>1 DEF Hub
    <3>3. quiet >= Heartbeat => fan = duty
      BY <1>0, <3>1 DEF Undisturbed
    <3> QED
      BY <2>1, <3>2, <3>3 DEF Sent
  <2>2. CASE Accepted(duty) /\ duty' = duty
    BY <2>2 DEF Accepted, Sent
  <2>3. CASE Accepted(100) /\ duty' = 100 /\ quiet' = 0
    BY <1>0, <2>3 DEF Accepted, Sent
  <2>4. CASE Refused({duty, 100}) /\ quiet' = 0
    BY <1>0, <2>4 DEF Refused, Sent
  <2> QED
    BY <1>2, <2>1, <2>2, <2>3, <2>4 DEF Send
<1>3. CASE (\E c \in Posts : Post(c)) \/ StartPreflight \/ Confirm
  BY <1>3 DEF Post, StartPreflight, Confirm, memoryVars, storedVars, tickVars, historyVars, Sent
<1>4. CASE Sample \/ Consume \/ Connect \/ SelectDuty \/ Publish \/ PublishFails \/ Restart
  <2>1. pc' # "publish"
    BY <1>4 DEF Sample, Consume, Connect, SelectDuty, Publish, PublishFails, Restart, EndTick
  <2> QED
    BY <2>1 DEF Sent
<1> QED
  BY <1>1, <1>2, <1>3, <1>4 DEF Next, Tick

LEMMA CooldownStep ==
  ASSUME TypeOK, Next, Cooldown
  PROVE  Cooldown'
<1>0. BusyHold \in Nat \ {0} /\ busyLeft \in 0..BusyHold /\ busyAgo \in 0..BusyHold /\ quiet \in Nat
  BY NumbersHold DEF Numbers, TypeOK
<1>1. CASE Sample
  <2>1. quiet > busyAgo => busyLeft + busyAgo >= BusyHold
    BY <1>1 DEF Sample, Cooldown
  <2>2. PICK dt \in Lags :
          /\ busyLeft' = Less(busyLeft, dt)
          /\ quiet' = AtMost(quiet + dt, BusyHold + 1)
          /\ busyAgo' = IF gpu' # NoSample /\ gpu'.busy THEN 0 ELSE AtMost(busyAgo + dt, BusyHold)
    BY <1>1 DEF Sample
  <2>3. dt \in Nat
    BY NumbersHold DEF Numbers
  <2>4. CASE Busy'
    BY <1>1, <2>4 DEF Sample, Cooldown
  <2>5. CASE ~ Busy'
    <3>1. busyAgo' = AtMost(busyAgo + dt, BusyHold)
      BY <2>2, <2>5 DEF Busy
    <3>2. quiet' > busyAgo' => busyLeft' + busyAgo' >= BusyHold
      BY <1>0, <2>1, <2>2, <2>3, <3>1 DEF AtMost, Less
    <3> QED
      BY <3>2 DEF Cooldown
  <2> QED
    BY <2>4, <2>5
<1>2. CASE quiet' = 0 /\ busyAgo' \in Nat
  BY <1>2 DEF Cooldown
<1>3. CASE HubMissing \/ PublishFails \/ Restart
  <2>1. quiet' = 0 /\ busyAgo' \in Nat
    BY <1>0, <1>3 DEF HubMissing, PublishFails, Restart
  <2> QED
    BY <1>2, <2>1
<1>4. CASE SelectDuty
  <2>1. UNCHANGED <<gpu, quiet, busyAgo>>
    BY <1>4 DEF SelectDuty, historyVars
  <2>2. CASE Busy
    <3>1. busyLeft' = BusyHold
      BY <1>4, <2>2 DEF SelectDuty, Busy
    <3> QED
      BY <1>0, <2>1, <3>1 DEF Cooldown
  <2>3. CASE ~ Busy
    <3>1. busyLeft' = busyLeft
      BY <1>4, <2>3 DEF SelectDuty, Busy
    <3> QED
      BY <2>1, <2>3, <3>1 DEF Cooldown
  <2> QED
    BY <2>2, <2>3
<1>5. CASE Consume
  BY <1>5 DEF Consume, Cooldown, Busy, historyVars
<1>6. CASE Connect
  <2>1. UNCHANGED <<gpu, busyLeft, busyAgo>> /\ quiet' \in {quiet, 0}
        /\ pc = "connect" /\ pc' = "select"
    BY <1>6 DEF Connect
  <2> QED
    BY <1>0, <1>2, <2>1 DEF Cooldown, Busy
<1>7. CASE Send
  <2>1. UNCHANGED <<gpu, busyLeft, busyAgo>> /\ quiet' \in {quiet, 0} /\ pc = "send"
    BY <1>7 DEF Send
  <2> QED
    BY <1>0, <1>2, <2>1 DEF Cooldown
<1>8. CASE Publish
  BY <1>8 DEF Publish, Cooldown, memoryVars, historyVars
<1>9. CASE (\E c \in Posts : Post(c)) \/ StartPreflight \/ Confirm
  <2>1. UNCHANGED <<gpu, busyLeft, busyAgo, quiet, pc>>
    BY <1>9 DEF Post, StartPreflight, Confirm, memoryVars, tickVars, historyVars
  <2> QED
    BY <2>1 DEF Cooldown, Busy
<1> QED
  BY <1>1, <1>3, <1>4, <1>5, <1>6, <1>7, <1>8, <1>9 DEF Next, Tick

LEMMA SafeInit == Init => Safe
<1> SUFFICES ASSUME Init PROVE Safe
  OBVIOUS
<1>1. Cooldown
  BY NumbersHold DEF Init, Cooldown, Numbers
<1> QED
  BY <1>1 DEF Init, Safe, Hub, Undisturbed, Selected, Sent

LEMMA SafeStep == TypeInv /\ Safe /\ [Next]_vars => Safe'
<1> SUFFICES ASSUME TypeInv, Safe, [Next]_vars PROVE Safe'
  OBVIOUS
<1>1. CASE Next
  BY <1>1, HubStep, SelectedStep, SentStep, CooldownStep DEF Safe, TypeInv
<1>2. CASE UNCHANGED vars
  <2>1. UNCHANGED <<fan, lastSent, sentAgo, busyLeft, reconnectLeft, manual, automatic, pc, gpu,
                    found, spinning, duty, doubt, quiet, busyAgo>>
    BY <1>2 DEF vars, memoryVars, storedVars, tickVars, historyVars
  <2>2. TemperatureDuty(gpu'.temp) = TemperatureDuty(gpu.temp)
    BY <2>1
  <2> QED
    BY <2>1, <2>2 DEF Safe, Hub, Undisturbed, Selected, Excused, Sent, Cooldown, Busy
<1> QED
  BY <1>1, <1>2

LEMMA SafeHolds == Spec => [](TypeInv /\ Safe)
BY TypeInit, TypeStep, SafeInit, SafeStep, PTL DEF Spec

\* Whatever fails, a controller that reports itself online with no failed call behind it
\* does not run the fan below the duty it reports.
THEOREM HonestStatusHolds == Spec => []HonestStatus
<1>1. TypeInv /\ Safe => HonestStatus
  BY DEF TypeInv, TypeOK, Safe, Sent, HonestStatus
<1> QED
  BY <1>1, SafeHolds, PTL

\* The fan is below 100 only with every reason of the safety policy, for any samples,
\* lags, leases and holds.
THEOREM PolicyKeptHolds == Spec => []PolicyKept
<1>1. TypeInv /\ Safe => PolicyKept
  <2> SUFFICES ASSUME TypeInv, Safe, pc = "publish", found, ~ doubt, fan < 100
               PROVE  /\ gpu # NoSample /\ ~ gpu.busy /\ gpu.temp < 70
                      /\ spinning \/ sentAgo < Settle
                      /\ quiet > busyAgo => busyAgo = BusyHold
                      /\ \/ manual # NoManual /\ fan = manual.duty
                         \/ automatic /\ fan = TemperatureDuty(gpu.temp)
    BY DEF PolicyKept
  <2>1. fan = duty
    BY DEF Safe, Sent
  <2>2. Excused
    BY <2>1 DEF Safe, Selected
  <2>3. quiet > busyAgo => busyAgo = BusyHold
    <3>1. busyAgo \in 0..BusyHold /\ BusyHold \in Nat
      BY NumbersHold DEF TypeInv, TypeOK, Numbers
    <3>2. quiet > busyAgo => busyLeft + busyAgo >= BusyHold
      BY DEF Safe, Cooldown
    <3> QED
      BY <2>2, <3>1, <3>2 DEF Excused
  <2> QED
    BY <2>1, <2>2, <2>3 DEF Excused
<1> QED
  BY <1>1, SafeHolds, PTL

LEMMA LadderStep ==
  ASSUME TypeInv, Ladder, [Next]_vars
  PROVE  Ladder'
<1>0. TypeOK /\ Numbers
  BY NumbersHold DEF TypeInv
<1>1. CASE UNCHANGED <<manual, calibrated>>
  BY <1>1 DEF Ladder
<1>2. ASSUME calibrated' = calibrated,
             manual' = NoManual <=> manual = NoManual,
             manual # NoManual => /\ manual'.duty = manual.duty
                                  /\ manual'.calibration = manual.calibration
      PROVE  Ladder'
  BY <1>2 DEF Ladder, Priors
<1>3. CASE Sample
  <2>1. calibrated' = calibrated
    BY <1>3 DEF Sample, storedVars
  <2>2. CASE manual = NoManual
    BY <1>3, <2>1, <2>2 DEF Sample, Ladder
  <2>3. CASE manual # NoManual
    <3>1. PICK dt \in Lags :
            manual' = [manual EXCEPT !.left = Less(@, dt), !.age = Ago(@, dt, Settle)]
      BY <1>3, <2>3 DEF Sample
    <3>2. manual \in ManualTests
      BY <1>0, <2>3 DEF TypeOK
    <3>3. manual'.duty = manual.duty /\ manual'.calibration = manual.calibration
      BY <3>1, <3>2 DEF ManualTests
    <3> QED
      BY <2>1, <2>3, <3>3 DEF Ladder, Priors
  <2> QED
    BY <2>2, <2>3
<1>4. CASE Consume
  <2>1. calibrated' = calibrated
    BY <1>4 DEF Consume
  <2>2. \/ UNCHANGED manual
        \/ Priors(command.duty) \subseteq calibrated /\ manual' = Test(command.duty, TRUE, Lease)
        \/ manual' = Test(100, FALSE, ForceLease)
    BY <1>4 DEF Consume, MayTest
  <2>3. ASSUME NEW d, manual' = Test(d, TRUE, Lease), Priors(d) \subseteq calibrated
        PROVE  Ladder'
    <3>1. manual'.duty = d /\ manual'.calibration
      BY <2>3 DEF Test
    <3>2. Priors(manual'.duty) = Priors(d)
      BY <3>1
    <3> QED
      BY <2>1, <2>3, <3>1, <3>2 DEF Ladder
  <2>4. CASE manual' = Test(100, FALSE, ForceLease)
    BY <2>4 DEF Ladder, Test
  <2> QED
    BY <1>1, <2>1, <2>2, <2>3, <2>4
<1>5. CASE Connect \/ Send
  <2>1. calibrated' = calibrated /\ manual' \in {manual, Commanded(100), Commanded(duty)}
    BY <1>5 DEF Connect, Send, storedVars
  <2>2. ASSUME NEW d, manual # NoManual PROVE Commanded(d).calibration = manual.calibration
    <3>1. manual \in ManualTests
      BY <1>0, <2>2 DEF TypeOK
    <3> QED
      BY <3>1 DEF Commanded, ManualTests
  <2> QED
    BY <1>0, <1>2, <2>1, <2>2, CommandedEffect
<1>6. CASE SelectDuty
  <2>1. \/ manual' = NoManual
        \/ manual' = Observed /\ calibrated' = calibrated
    BY <1>0, <1>6, Selection DEF Reasoned
  <2>2. manual # NoManual => Observed.calibration = manual.calibration
    BY <1>0 DEF Observed, TypeOK, ManualTests
  <2>3. CASE manual' = NoManual
    BY <2>3 DEF Ladder
  <2> QED
    BY <1>0, <1>2, <2>1, <2>2, <2>3, ObservedEffect
<1>7. CASE Restart
  BY <1>7 DEF Restart, Ladder
<1>8. CASE \/ HubMissing \/ Publish \/ PublishFails \/ UNCHANGED vars
           \/ (\E c \in Posts : Post(c)) \/ StartPreflight \/ Confirm
  BY <1>1, <1>8 DEF HubMissing, Publish, PublishFails, Post, StartPreflight, Confirm, memoryVars,
     storedVars, vars
<1> QED
  BY <1>3, <1>4, <1>5, <1>6, <1>7, <1>8 DEF Next, Tick

\* Every call that lowers the fan, failed ones included, has the reasons of its own tick
\* and, for a test, the whole of the ladder before it.
THEOREM LoweredWithReasonHolds == Spec => LoweredWithReason
<1> DEFINE Reason == /\ gpu # NoSample /\ ~ gpu.busy /\ gpu.temp < 70
                     /\ busyLeft = 0 /\ reconnectLeft = 0
                     /\ spinning \/ sentAgo < Settle
                     /\ \/ /\ manual # NoManual /\ manual.calibration /\ manual.left > 0
                           /\ fan' = manual.duty /\ Priors(manual.duty) \subseteq calibrated
                        \/ automatic /\ manual = NoManual /\ fan' = TemperatureDuty(gpu.temp)
<1>1. Spec => []Ladder
  <2>1. Init => Ladder
    BY DEF Init, Ladder
  <2> QED
    BY <2>1, SafeHolds, LadderStep, PTL DEF Spec
<1>2. TypeInv /\ Safe /\ Ladder /\ [Next]_vars => [fan' < fan => Reason]_vars
  <2> SUFFICES ASSUME TypeInv, Safe, Ladder, Next, fan' < fan PROVE Reason
    OBVIOUS
  <2>1. fan \in 40..100 /\ duty \in 40..100
    BY DEF TypeInv, TypeOK
  <2>2. Send /\ fan' = duty /\ duty < 100
    <3>1. CASE Send
      <4>1. fan' \in {fan, duty, 100}
        BY <3>1 DEF Send, Accepted, Refused
      <4> QED
        BY <2>1, <3>1, <4>1
    <3>2. CASE ~ Send
      <4>1. fan' \in {fan, 100}
        BY <3>2 DEF Next, Tick, Sample, Consume, HubMissing, Connect, Accepted, Refused, SelectDuty,
           Publish, PublishFails, Restart, Post, StartPreflight, Confirm
      <4> QED
        BY <2>1, <4>1
    <3> QED
      BY <3>1, <3>2
  <2>3. Excused
    BY <2>2 DEF Safe, Selected, Send
  <2>4. manual # NoManual /\ duty = manual.duty
          => manual.calibration /\ Priors(manual.duty) \subseteq calibrated
    BY <2>2 DEF Ladder
  <2> QED
    BY <2>2, <2>3, <2>4 DEF Excused
<1> QED
  BY <1>1, <1>2, SafeHolds, PTL DEF Spec, LoweredWithReason

\* One heartbeat after the last failure, the hub runs what the controller selected.
THEOREM ConvergesHolds == Spec => []Converges
<1>1. TypeInv /\ Safe => Converges
  BY DEF Safe, Sent, Converges
<1> QED
  BY <1>1, SafeHolds, PTL

-----------------------------------------------------------------------------
(* The preflight of a Safe Test                                             *)

ForceCommand == [action |-> "force_100"]

\* Forced looks at the preflight only through the time that is left to it.
LEMMA ForcedKept ==
  ASSUME Forced, manual' # NoManual, manual'.duty = manual.duty, manual'.left = manual.left,
         preflight' = preflight
  PROVE  Forced'
BY DEF Forced

LEMMA ClaimedStep ==
  ASSUME TypeInv, Next, Claimed
  PROVE  Claimed'
<1>0. TypeOK /\ Numbers /\ ForceCommand \in Commands /\ NoCommand \notin Commands
  BY NumbersHold, NullsAssumption DEF TypeInv, ForceCommand, Commands
<1>1. Alone => preflight \in [left : 0..PreflightWait, alone : BOOLEAN]
  BY <1>0 DEF Alone, TypeOK
<1>2. CASE Sample
  <2> SUFFICES ASSUME Alone' PROVE Claimed'
    BY DEF Claimed
  <2>1. PICK dt \in Lags :
          /\ manual' = IF manual = NoManual THEN NoManual
                       ELSE [manual EXCEPT !.left = Less(@, dt), !.age = Ago(@, dt, Settle)]
          /\ preflight' = IF preflight = NoTest \/ preflight.left < dt THEN NoTest
                          ELSE [preflight EXCEPT !.left = @ - dt]
    BY <1>2 DEF Sample
  <2>2. preflight # NoTest /\ ~ (preflight.left < dt)
        /\ preflight' = [preflight EXCEPT !.left = @ - dt]
    BY <2>1 DEF Alone
  <2>3. preflight \in [left : 0..PreflightWait, alone : BOOLEAN]
    BY <1>0, <2>2 DEF TypeOK
  <2>4. preflight'.left = preflight.left - dt /\ preflight'.alone = preflight.alone
    BY <2>2, <2>3
  <2>5. Alone
    BY <2>2, <2>4 DEF Alone
  <2>6. command' = ForceCommand /\ UNCHANGED commandVars /\ pc' = "consume"
    BY <1>2, <2>5 DEF Sample, Claimed, commandVars, ForceCommand
  <2>7. CASE Forced
    <3>1. manual \in ManualTests
      BY <1>0, <2>7 DEF Forced, TypeOK
    <3>2. manual' = [manual EXCEPT !.left = Less(@, dt), !.age = Ago(@, dt, Settle)]
      BY <2>1, <2>7 DEF Forced
    <3>3. manual'.duty = manual.duty /\ manual'.left = Less(manual.left, dt)
      BY <3>1, <3>2 DEF ManualTests
    <3>4. manual' # NoManual
      <4>1. Less(manual.left, dt) \in 0..Lease \cup 0..ForceLease
        BY <1>0, <3>1 DEF Less, ManualTests, Numbers
      <4>2. Ago(manual.age, dt, Settle) \in Never..Settle
        BY <1>0, <3>1 DEF Ago, AtMost, ManualTests, Numbers, Never
      <4>3. manual' \in ManualTests
        BY <3>1, <3>2, <4>1, <4>2 DEF ManualTests
      <4> QED
        BY <4>3, NullsAssumption
    <3>5. dt \in Nat /\ manual.left \in Nat /\ preflight.left \in Nat
      BY <1>0, <2>3, <3>1 DEF Numbers, ManualTests
    <3>6. manual'.left > preflight'.left
      BY <2>2, <2>4, <2>7, <3>3, <3>5 DEF Forced, Less
    <3> QED
      BY <2>6, <2>7, <3>3, <3>4, <3>6 DEF Claimed, Forced, ForceCommand
  <2>8. CASE fresh
    BY <2>6, <2>8 DEF Claimed, ForceCommand, commandVars
  <2> QED
    BY <2>5, <2>7, <2>8 DEF Claimed
<1>3. CASE Consume
  <2> SUFFICES ASSUME Alone' PROVE Claimed'
    BY DEF Claimed
  <2>1. Alone /\ command' = ForceCommand /\ command = ForceCommand /\ preflight' = preflight
    BY <1>3 DEF Consume, Alone, Claimed, ForceCommand
  <2>2. CASE fresh
    <3>1. manual' = Test(100, FALSE, ForceLease)
      BY <1>3, <2>1, <2>2 DEF Consume, ForceCommand
    <3>2. manual'.duty = 100 /\ manual'.left = ForceLease
      BY <3>1 DEF Test
    <3>3. manual' # NoManual
      <4>1. ForceLease \in 0..Lease \cup 0..ForceLease /\ Never \in Never..Settle
        BY <1>0 DEF Numbers, Never
      <4>2. (IF gpu = NoSample THEN NoSample ELSE gpu.temp) \in Temps \cup {NoSample}
        BY <1>0, SampleRange DEF TypeOK
      <4>3. Test(100, FALSE, ForceLease) \in ManualTests
        BY <4>1, <4>2, DutyRange DEF Test, ManualTests
      <4> QED
        BY <3>1, <4>3, NullsAssumption
    <3>4. ForceLease > preflight.left
      BY <1>0, <1>1, <2>1 DEF Numbers
    <3> QED
      BY <2>1, <3>2, <3>3, <3>4 DEF Claimed, Forced, ForceCommand
  <2>3. CASE ~ fresh
    <3>1. UNCHANGED manual
      BY <1>3, <2>3 DEF Consume
    <3> QED
      BY <2>1, <2>3, <3>1 DEF Claimed, Forced, ForceCommand
  <2> QED
    BY <2>2, <2>3
<1>4. CASE HubMissing \/ Publish \/ PublishFails
  <2>1. UNCHANGED <<manual, command, fresh, preflight>>
        /\ pc' \in {"sample", "publish"}
    BY <1>4 DEF HubMissing, Publish, PublishFails, memoryVars, commandVars, EndTick
  <2> QED
    BY <2>1 DEF Claimed, Alone, Forced
<1>5. CASE Connect \/ Send
  <2>1. /\ UNCHANGED <<command, fresh, preflight>>
        /\ manual' \in {manual, Commanded(100), Commanded(duty)}
        /\ pc \in {"connect", "send"}
    BY <1>5 DEF Connect, Send, commandVars
  <2>2. Forced => Forced'
    BY <1>0, <2>1, ForcedKept, CommandedEffect DEF Forced
  <2> QED
    BY <2>1, <2>2 DEF Claimed, Alone
<1>6. CASE SelectDuty
  <2>1. UNCHANGED <<command, fresh, preflight>> /\ pc = "select"
    BY <1>6 DEF SelectDuty, commandVars
  <2>2. ASSUME Alone, Forced PROVE Forced'
    <3>1. /\ Observed # NoManual /\ Observed.duty = 100 /\ Observed.left = manual.left
      BY <1>0, <2>2, ObservedEffect DEF Forced
    <3>2. preflight.left \in Nat /\ manual.left \in Nat
      BY <1>0, <1>1, <2>2 DEF Forced, TypeOK, ManualTests, Numbers
    <3>3. manual' = Observed
      BY <1>0, <1>6, <2>2, <3>1, <3>2, Selection DEF Reasoned, Forced
    <3> QED
      BY <2>1, <2>2, <3>1, <3>3 DEF Forced
  <2> QED
    BY <2>1, <2>2 DEF Claimed, Alone
<1>7. CASE Restart
  <2>1. UNCHANGED <<command, preflight>> /\ fresh' = (command # NoCommand) /\ pc' = "sample"
    BY <1>7 DEF Restart, EndTick
  <2> QED
    BY <1>0, <2>1 DEF Claimed, Alone, ForceCommand
<1>8. CASE \E c \in Posts : Post(c)
  <2>1. ~ Alone'
    BY <1>0, <1>8 DEF Post, Alone, TypeOK
  <2> QED
    BY <2>1 DEF Claimed
<1>9. CASE StartPreflight
  BY <1>9 DEF StartPreflight, Write, Turn, tickVars, Claimed
<1>10. CASE Confirm
  BY <1>10 DEF Confirm, Claimed, Alone
<1> QED
  BY <1>2, <1>3, <1>4, <1>5, <1>6, <1>7, <1>8, <1>9, <1>10 DEF Next, Tick

LEMMA ConfirmationStep ==
  ASSUME TypeInv, Next, Sent, Claimed, Confirmation
  PROVE  Confirmation'
<1>0. TypeOK /\ Claimed'
  BY ClaimedStep DEF TypeInv
<1>1. ASSUME Alone', pc' \in {"connect", "select", "send"} PROVE Forced'
  BY <1>0, <1>1 DEF Claimed
<1>2. CASE Sample
  <2>1. UNCHANGED <<status, fan, doubt>> /\ pc' = "consume"
    BY <1>2 DEF Sample
  <2>2. Alone' => Alone
    <3> SUFFICES ASSUME Alone' PROVE Alone
      OBVIOUS
    <3>1. preflight # NoTest
      BY <1>2 DEF Sample, Alone
    <3>2. preflight \in [left : 0..PreflightWait, alone : BOOLEAN]
      BY <1>0, <3>1 DEF TypeOK
    <3> QED
      BY <1>2, <3>1, <3>2 DEF Sample, Alone
  <2> QED
    BY <2>1, <2>2 DEF Confirmation, Confirmed
<1>3. CASE Consume
  BY <1>1, <1>3 DEF Consume, Confirmation, Confirmed, Alone, historyVars
<1>4. CASE HubMissing
  <2>1. UNCHANGED <<status, fan, doubt, preflight, manual>> /\ pc = "connect" /\ duty' = 100
    BY <1>4 DEF HubMissing
  <2> QED
    BY <2>1 DEF Confirmation, Confirmed, Alone, Forced
<1>5. CASE Connect
  <2>1. UNCHANGED <<status, preflight>> /\ pc' = "select"
    BY <1>5 DEF Connect
  <2>2. fan = 100 \/ doubt => fan' = 100 \/ doubt'
    BY <1>5 DEF Connect, Accepted, Refused
  <2> QED
    BY <1>1, <2>1, <2>2 DEF Confirmation, Confirmed, Alone
<1>6. CASE SelectDuty
  <2>1. UNCHANGED <<status, preflight, fan, doubt>> /\ pc = "select" /\ pc' = "send"
    BY <1>6 DEF SelectDuty, historyVars
  <2>2. ASSUME Alone, Forced PROVE duty' = 100
    <3>1. /\ Observed # NoManual /\ Observed.duty = 100 /\ Observed.left = manual.left
      BY <1>0, <2>2, ObservedEffect DEF Forced
    <3>2. preflight.left \in Nat /\ manual.left \in Nat
      BY <1>0, <2>2, NumbersHold DEF Alone, Forced, TypeOK, ManualTests, Numbers
    <3> QED
      BY <1>0, <1>6, <2>2, <3>1, <3>2, Selection DEF Reasoned, Forced
  <2> QED
    BY <1>1, <2>1, <2>2 DEF Confirmation, Confirmed, Alone
<1>7. CASE Send
  <2>1. UNCHANGED <<status, preflight>> /\ pc = "send"
        /\ manual' \in {manual, Commanded(duty)}
    BY <1>7 DEF Send
  <2>2. duty = 100 /\ (fan = 100 \/ doubt) => duty' = 100 /\ (fan' = 100 \/ doubt')
    BY <1>7 DEF Send, Accepted, Refused
  <2>3. Forced => Forced'
    BY <1>0, <2>1, ForcedKept, CommandedEffect DEF Forced
  <2> QED
    BY <2>1, <2>2, <2>3 DEF Confirmation, Confirmed, Alone
<1>8. CASE Publish
  <2>1. /\ status' = [healthy |-> found /\ sent /\ spinning /\ gpu # NoSample,
                      target |-> duty, current |-> TRUE]
        /\ UNCHANGED <<fan, doubt>> /\ pc = "publish" /\ pc' = "sample"
    BY <1>8 DEF Publish, EndTick, historyVars
  <2>2. status'.healthy => found
    BY <2>1
  <2>3. status'.target = duty
    BY <2>1
  <2>4. Confirmed' => fan = 100 \/ doubt
    BY <2>1, <2>2, <2>3 DEF Confirmed, Sent
  <2> QED
    BY <2>1, <2>4 DEF Confirmation
<1>9. CASE PublishFails
  <2>1. ~ Confirmed'
    BY <1>9 DEF PublishFails, Confirmed, Offline
  <2> QED
    BY <2>1 DEF Confirmation
<1>10. CASE Restart
  <2>1. UNCHANGED <<status, preflight, doubt>> /\ fan' \in {fan, 100} /\ pc' = "sample"
    BY <1>10 DEF Restart, EndTick
  <2> QED
    BY <2>1 DEF Confirmation, Confirmed, Alone
<1>11. CASE \E c \in Posts : Post(c)
  <2>1. ~ Alone'
    BY <1>0, <1>11 DEF Post, Alone, TypeOK
  <2> QED
    BY <2>1 DEF Confirmation
<1>12. CASE StartPreflight
  <2>1. status' = [status EXCEPT !.current = FALSE] /\ status \in Statuses
    BY <1>0, <1>12 DEF StartPreflight, TypeOK
  <2>2. ~ Confirmed'
    BY <2>1 DEF Confirmed, Statuses
  <2> QED
    BY <2>2 DEF Confirmation
<1>13. CASE Confirm
  BY <1>13 DEF Confirm, Confirmation, Alone
<1> QED
  BY <1>2, <1>3, <1>4, <1>5, <1>6, <1>7, <1>8, <1>9, <1>10, <1>11, <1>12, <1>13 DEF Next, Tick

LEMMA PreflightStep == TypeInv /\ Safe /\ Preflight /\ [Next]_vars => Preflight'
<1> SUFFICES ASSUME TypeInv, Safe, Preflight, [Next]_vars PROVE Preflight'
  OBVIOUS
<1>1. CASE Next
  BY <1>1, ClaimedStep, ConfirmationStep DEF Safe, Preflight
<1>2. CASE UNCHANGED vars
  BY <1>2 DEF vars, memoryVars, storedVars, commandVars, tickVars, historyVars, Preflight, Claimed,
     Confirmation, Confirmed, Alone, Forced
<1> QED
  BY <1>1, <1>2

\* A preflight that nothing replaced confirms a fan at 100, or a hub left in doubt, for any
\* lease that outlasts the wait.
THEOREM PreflightAtFullHolds == Spec => PreflightAtFull
<1>1. Init => Preflight
  BY DEF Init, Preflight, Claimed, Confirmation, Alone
<1>2. Spec => []Preflight
  BY <1>1, SafeHolds, PreflightStep, PTL DEF Spec
<1>3. TypeInv /\ Preflight /\ [Next]_vars => [Confirm /\ preflight.alone => fan = 100 \/ doubt]_vars
  BY DEF Confirm, Preflight, Confirmation, Alone
<1> QED
  BY <1>2, <1>3, SafeHolds, PTL DEF Spec, PreflightAtFull

=============================================================================
