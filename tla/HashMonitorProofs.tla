-------------------------- MODULE HashMonitorProofs --------------------------
(***************************************************************************)
(* What holds of HashMonitor for any miners, pollers, limits and readings: *)
(* no miner changes its health for fewer readings than the thresholds of   *)
(* the tracker say, whichever polls the readings come from, and the alert  *)
(* engine remembers what it told.                                          *)
(***************************************************************************)
EXTENDS HashMonitor, SequenceTheorems, TLAPS

-----------------------------------------------------------------------------
(* One reading: HealthEngine.evaluate.                                      *)

\* A count goes up by one for a candidate of the reading, and is gone without.
LEMMA CountedBy ==
  ASSUME NEW t \in Tracker, NEW r
  PROVE  /\ Counted(t, r) \in [FaultCodes -> 0..UnhealthyConfirmations]
         /\ \A c \in FaultCodes :
              Counted(t, r)[c] # 0 => c \in Candidates(r) /\ Counted(t, r)[c] <= t.counts[c] + 1
<1>1. t.counts \in [FaultCodes -> 0..UnhealthyConfirmations]
  BY DEF Tracker
<1>2. \A c \in FaultCodes :
        /\ UpTo(UnhealthyConfirmations, t.counts[c] + 1) \in 0..UnhealthyConfirmations
        /\ UpTo(UnhealthyConfirmations, t.counts[c] + 1) <= t.counts[c] + 1
  BY <1>1 DEF UpTo, UnhealthyConfirmations
<1> QED
  BY <1>2 DEF Counted, UnhealthyConfirmations

\* So do the good readings in a row.
LEMMA GoodBy ==
  ASSUME NEW t \in Tracker, NEW r
  PROVE  /\ Good(t, r) \in 0..RecoveryConfirmations
         /\ Good(t, r) # 0 => Candidates(r) = {} /\ Good(t, r) <= t.good + 1
<1>1. t.good \in 0..RecoveryConfirmations
  BY DEF Tracker
<1> QED
  BY <1>1 DEF Good, UpTo, RecoveryConfirmations

\* The faults of a reading are faults, and a severe one is one of them.
LEMMA FaultsNamed ==
  ASSUME NEW r PROVE SevereFaults(r) \subseteq Candidates(r) /\ Candidates(r) \subseteq FaultCodes
BY DEF Candidates, SevereFaults, MildFaults

\* What a judgement of a miner that answers needs: a count of two for Warning, a count of three
\* and a severe fault for Unhealthy, two good readings to leave either.
LEMMA JudgementReasoned ==
  ASSUME NEW t \in Tracker, NEW r
  PROVE  LET j == Judgement(t, r)
         IN  /\ j.state \in HealthStates /\ j.reasons \in SUBSET ReasonCodes
             /\ j.state = "Warning" /\ t.state # "Warning" =>
                  \E c \in FaultCodes : Counted(t, r)[c] >= WarningConfirmations
             /\ j.state = "Unhealthy" /\ t.state # "Unhealthy" =>
                  \E c \in SevereFaults(r) : Counted(t, r)[c] >= UnhealthyConfirmations
             /\ t.state \in Alarming /\ j.state \in {"Healthy", "Unknown"} =>
                  Candidates(r) = {} /\ Good(t, r) >= RecoveryConfirmations
<1> DEFINE counts == Counted(t, r)
           warned == {c \in FaultCodes : counts[c] >= WarningConfirmations}
           severe == {c \in SevereFaults(r) : counts[c] >= UnhealthyConfirmations}
           settled == [state |-> IF Supported(r) THEN "Healthy" ELSE "Unknown", reasons |-> {}]
           j == Judgement(t, r)
<1>1. severe \subseteq ReasonCodes /\ warned \subseteq ReasonCodes
  BY FaultsNamed DEF ReasonCodes
<1>2. t.state \in HealthStates /\ t.reasons \in SUBSET ReasonCodes
  BY DEF Tracker
<1>3. \A c \in FaultCodes : counts[c] >= WarningConfirmations => Candidates(r) # {}
  BY CountedBy DEF WarningConfirmations, UnhealthyConfirmations
<1>4. settled.state \in {"Healthy", "Unknown"} /\ settled.reasons = {}
  OBVIOUS
\* The arms of Judgement exclude one another.
<1>5. severe # {} => warned # {}
  BY FaultsNamed, CountedBy DEF WarningConfirmations, UnhealthyConfirmations
<1>6. warned # {} => Candidates(r) # {}
  BY <1>3
<1>7. CASE severe # {}
  <2>1. j = [state |-> "Unhealthy", reasons |-> severe \cup warned]
    BY <1>7, <1>5, <1>6 DEF Judgement
  <2> QED
    BY <1>1, <1>7, <2>1 DEF HealthStates, Alarming
<1>8. CASE severe = {} /\ warned # {}
  <2>1. j = [state |-> "Warning", reasons |-> warned]
    BY <1>8, <1>6 DEF Judgement
  <2> QED
    BY <1>1, <1>8, <2>1 DEF HealthStates, Alarming
<1>9. CASE severe = {} /\ warned = {} /\ Candidates(r) # {}
  <2>1. j = IF t.state \in Alarming THEN [state |-> t.state, reasons |-> t.reasons] ELSE settled
    BY <1>9 DEF Judgement
  <2> QED
    BY <1>2, <1>4, <2>1 DEF HealthStates, Alarming
<1>10. CASE severe = {} /\ warned = {} /\ Candidates(r) = {}
  <2>1. j = IF t.state \in Alarming /\ Good(t, r) < RecoveryConfirmations
              THEN [state |-> t.state, reasons |-> {"recovery_pending"}] ELSE settled
    BY <1>10 DEF Judgement
  <2>2. Good(t, r) \in Nat
    BY GoodBy DEF RecoveryConfirmations
  <2> QED
    BY <1>2, <1>4, <1>10, <2>1, <2>2 DEF HealthStates, Alarming, ReasonCodes, RecoveryConfirmations
<1> QED
  BY <1>7, <1>8, <1>9, <1>10

\* Judge gives a tracker.
LEMMA JudgeTyped == ASSUME NEW t \in Tracker, NEW r PROVE Judge(t, r) \in Tracker
BY CountedBy, GoodBy, JudgementReasoned
   DEF Judge, Tracker, NoCounts, HealthStates, ReasonCodes, UnhealthyConfirmations, RecoveryConfirmations

-----------------------------------------------------------------------------
(* Many readings.  The counts are backed by the last two readings.          *)

\* What a tracker counts is in the readings it judged.
Backed(t, past) ==
  /\ \A c \in FaultCodes : t.counts[c] >= 1 => Len(past) >= 1 /\ HasFault(past[1], c)
  /\ \A c \in FaultCodes : t.counts[c] >= 2 => Len(past) >= 2 /\ HasFault(past[2], c)
  /\ t.good >= 1 => Len(past) >= 1 /\ Clean(past[1])

\* The invariant: what the trackers count is backed by what was judged last.
Judged ==
  /\ truth \in [Miners -> Readings] /\ config \in [Miners -> Entries]
  /\ trackers \in [Miners -> Tracker]
  /\ recent \in [Miners -> Seq(Readings)]
  /\ \A m \in Miners : Len(recent[m]) <= 2 /\ Backed(trackers[m], recent[m])

\* The readings that are kept of one more.
Remember(past, r) == SubSeq(<<r>> \o past, 1, IF past = << >> THEN 1 ELSE 2)

\* The newest comes first, and the one before it second.
LEMMA RememberedTwo ==
  ASSUME NEW past \in Seq(Readings), Len(past) <= 2, NEW r \in Readings
  PROVE  /\ Remember(past, r) \in Seq(Readings) /\ Len(Remember(past, r)) \in 1..2
         /\ Remember(past, r)[1] = r
         /\ Len(past) >= 1 => Len(Remember(past, r)) = 2 /\ Remember(past, r)[2] = past[1]
<1> DEFINE all == <<r>> \o past
<1>1. /\ all \in Seq(Readings) /\ Len(all) = Len(past) + 1 /\ all[1] = r
      /\ Len(past) >= 1 => all[2] = past[1]
  OBVIOUS
<1>2. CASE past = << >>
  BY <1>1, <1>2, SubSeqProperties DEF Remember
<1>3. CASE past # << >>
  <2>1. Len(past) >= 1 /\ \A i \in 1..2 : all[i] \in Readings
    BY <1>1, <1>3
  <2> HIDE DEF all
  <2>2. Remember(past, r) = SubSeq(all, 1, 2)
    BY <1>3 DEF Remember, all
  <2>3. /\ SubSeq(all, 1, 2) \in Seq(Readings) /\ Len(SubSeq(all, 1, 2)) = 2
        /\ SubSeq(all, 1, 2)[1] = all[1] /\ SubSeq(all, 1, 2)[2] = all[2]
    BY <2>1, SubSeqProperties
  <2> QED
    BY <1>1, <2>1, <2>2, <2>3
<1> QED
  BY <1>2, <1>3

\* One more reading backs the counts it leaves.
LEMMA JudgeBacked ==
  ASSUME NEW t \in Tracker, NEW past \in Seq(Readings), Len(past) <= 2, NEW r \in Readings, Backed(t, past)
  PROVE  Backed(Judge(t, r), Remember(past, r))
<1> DEFINE u == Judge(t, r)  now == Remember(past, r)
<1>1. /\ now \in Seq(Readings) /\ Len(now) \in 1..2 /\ now[1] = r
      /\ Len(past) >= 1 => Len(now) = 2 /\ now[2] = past[1]
  BY RememberedTwo
<1>2. t.counts \in [FaultCodes -> Nat] /\ t.good \in Nat
  BY DEF Tracker, UnhealthyConfirmations, RecoveryConfirmations
<1>3. CASE ~ r.api
  <2>1. u.good = 0 /\ \A c \in FaultCodes : u.counts[c] = 0
    BY <1>3 DEF Judge, NoCounts
  <2> QED
    BY <2>1 DEF Backed
<1>4. CASE r.api
  <2>1. u.counts = Counted(t, r) /\ u.good = Good(t, r)
    BY <1>4 DEF Judge
  <2>2. /\ Counted(t, r) \in [FaultCodes -> Nat] /\ Good(t, r) \in Nat
    BY CountedBy, GoodBy DEF UnhealthyConfirmations, RecoveryConfirmations
  <2>3. ASSUME NEW c \in FaultCodes, u.counts[c] >= 1
        PROVE  /\ HasFault(now[1], c)
               /\ u.counts[c] >= 2 => Len(now) >= 2 /\ HasFault(now[2], c)
    <3>1. c \in Candidates(r) /\ Counted(t, r)[c] <= t.counts[c] + 1
      BY <2>1, <2>3, CountedBy
    <3>2. u.counts[c] >= 2 => t.counts[c] >= 1
      BY <1>2, <2>1, <2>2, <3>1
    <3> QED
      BY <1>1, <1>4, <3>1, <3>2 DEF HasFault, Backed
  <2>4. u.good >= 1 => Clean(now[1])
    BY <1>1, <1>4, <2>1, <2>2, GoodBy DEF Clean
  <2>5. \A c \in FaultCodes : u.counts[c] >= 2 => u.counts[c] >= 1
    BY <2>1, <2>2
  <2>6. Backed(u, now)
    <3> HIDE DEF u, now
    <3> QED
      BY <1>1, <2>3, <2>4, <2>5 DEF Backed
  <2> QED
    BY <2>6
<1> QED
  BY <1>3, <1>4

\* Nothing was judged when the services start, or when a miner is forgotten.
LEMMA NewBacked == NewTracker \in Tracker /\ Backed(NewTracker, << >>)
BY DEF NewTracker, NoCounts, Tracker, Backed, HealthStates, UnhealthyConfirmations, RecoveryConfirmations

\* What an evaluation does to the judgement of its miner, and a forgotten miner to its own; nothing
\* else touches one.
LEMMA StepJudges ==
  ASSUME [Next]_vars
  PROVE  \/ UNCHANGED <<trackers, recent>>
         \/ \E m \in Miners : /\ trackers' = [trackers EXCEPT ![m] = Judge(@, truth[m])]
                              /\ recent' = [recent EXCEPT ![m] = Remember(@, truth[m])]
                              /\ UNCHANGED <<truth, config>>
         \/ \E m \in Miners : /\ trackers' = [trackers EXCEPT ![m] = NewTracker]
                              /\ recent' = [recent EXCEPT ![m] = << >>]
                              /\ config' = [config EXCEPT ![m] = "gone"]
<1>1. ASSUME NEW p \in Pollers, StartPoll(p) PROVE UNCHANGED <<trackers, recent>>
  BY <1>1 DEF StartPoll, memoryVars, history
<1>2. ASSUME NEW p \in Pollers, Publish(p) PROVE UNCHANGED <<trackers, recent>>
  BY <1>2 DEF Publish, memoryVars, history
<1>3. ASSUME NEW p \in Pollers, NEW m \in Miners, Return(p, m) PROVE UNCHANGED <<trackers, recent>>
  BY <1>3 DEF Return
<1>4. ASSUME NEW p \in Pollers, NEW m \in Miners, Evaluate(p, m)
      PROVE  /\ trackers' = [trackers EXCEPT ![m] = Judge(@, truth[m])]
             /\ recent' = [recent EXCEPT ![m] = Remember(@, truth[m])]
             /\ UNCHANGED <<truth, config>>
  BY <1>4 DEF Evaluate, Remember
<1>5. ASSUME NEW m \in Miners, Change(m) PROVE UNCHANGED <<trackers, recent>>
  BY <1>5 DEF Change, memoryVars, history
<1>6. ASSUME NEW m \in Miners, NEW c \in Entries, Reconfigure(m, c)
      PROVE  \/ UNCHANGED <<trackers, recent>>
             \/ /\ trackers' = [trackers EXCEPT ![m] = NewTracker]
                /\ recent' = [recent EXCEPT ![m] = << >>]
                /\ config' = [config EXCEPT ![m] = "gone"]
  BY <1>6 DEF Reconfigure, history
<1>7. ASSUME NEW t \in Timers, TimerEnds(t) PROVE UNCHANGED <<trackers, recent>>
  BY <1>7 DEF TimerEnds, history
<1>8. CASE UNCHANGED vars
  BY <1>8 DEF vars, memoryVars, history
<1>9. CASE Next
  BY <1>1, <1>2, <1>3, <1>4, <1>5, <1>6, <1>7, <1>9 DEF Next, Poll
<1> QED
  BY <1>8, <1>9
-----------------------------------------------------------------------------
(* The invariant holds, and ConfirmedHealth follows from it.                *)

\* A step leaves the readings readings.
LEMMA TruthTyped ==
  ASSUME truth \in [Miners -> Readings], config \in [Miners -> Entries], [Next]_vars
  PROVE  truth' \in [Miners -> Readings] /\ config' \in [Miners -> Entries]
<1>1. ASSUME NEW p \in Pollers, Poll(p) PROVE UNCHANGED <<truth, config>>
  BY <1>1 DEF Poll, StartPoll, Publish, Evaluate, Return
<1>2. ASSUME NEW m \in Miners, Change(m) PROVE truth' \in [Miners -> Readings] /\ UNCHANGED config
  BY <1>2 DEF Change
<1>3. ASSUME NEW m \in Miners, NEW c \in Entries, Reconfigure(m, c)
      PROVE  config' \in [Miners -> Entries] /\ UNCHANGED truth
  BY <1>3 DEF Reconfigure
<1>4. ASSUME NEW t \in Timers, TimerEnds(t) PROVE UNCHANGED <<truth, config>>
  BY <1>4 DEF TimerEnds
<1>5. CASE UNCHANGED vars
  BY <1>5 DEF vars
<1>6. CASE Next
  BY <1>1, <1>2, <1>3, <1>4, <1>6 DEF Next
<1> QED
  BY <1>5, <1>6

\* The services start with nothing judged.
LEMMA InitJudged == Init => Judged
<1> SUFFICES ASSUME Init PROVE Judged
  OBVIOUS
<1>1. /\ truth \in [Miners -> Readings] /\ config \in [Miners -> Entries]
      /\ trackers \in [Miners -> Tracker] /\ recent \in [Miners -> Seq(Readings)]
  BY NewBacked, EntriesAssumption DEF Init
<1>2. \A m \in Miners : Len(recent[m]) <= 2 /\ Backed(trackers[m], recent[m])
  BY NewBacked DEF Init
<1> QED
  BY <1>1, <1>2 DEF Judged

\* Whatever polls the readings come from.
LEMMA StepJudged == Judged /\ [Next]_vars => Judged'
<1> SUFFICES ASSUME Judged, [Next]_vars PROVE Judged'
  OBVIOUS
<1>1. truth' \in [Miners -> Readings] /\ config' \in [Miners -> Entries]
  BY TruthTyped DEF Judged
<1>2. CASE UNCHANGED <<trackers, recent>>
  BY <1>1, <1>2 DEF Judged, Backed
<1>3. ASSUME NEW n \in Miners,
             trackers' = [trackers EXCEPT ![n] = Judge(@, truth[n])],
             recent' = [recent EXCEPT ![n] = Remember(@, truth[n])]
      PROVE  Judged'
  <2>1. /\ trackers[n] \in Tracker /\ recent[n] \in Seq(Readings) /\ Len(recent[n]) <= 2
        /\ Backed(trackers[n], recent[n]) /\ truth[n] \in Readings
    BY DEF Judged
  <2>2. /\ Judge(trackers[n], truth[n]) \in Tracker
        /\ Remember(recent[n], truth[n]) \in Seq(Readings) /\ Len(Remember(recent[n], truth[n])) <= 2
        /\ Backed(Judge(trackers[n], truth[n]), Remember(recent[n], truth[n]))
    <3>1. Judge(trackers[n], truth[n]) \in Tracker
      BY <2>1, JudgeTyped
    <3>2. /\ Remember(recent[n], truth[n]) \in Seq(Readings)
          /\ Len(Remember(recent[n], truth[n])) \in 1..2
      BY <2>1, RememberedTwo
    <3>3. Backed(Judge(trackers[n], truth[n]), Remember(recent[n], truth[n]))
      BY <2>1, JudgeBacked
    <3>4. \A k \in 1..2 : k <= 2
      OBVIOUS
    <3> QED
      BY <3>1, <3>2, <3>3, <3>4, Zenon
  <2>3. trackers' \in [Miners -> Tracker] /\ recent' \in [Miners -> Seq(Readings)]
    BY <1>3, <2>2 DEF Judged
  <2>4. ASSUME NEW m \in Miners PROVE Len(recent'[m]) <= 2 /\ Backed(trackers'[m], recent'[m])
    <3>1. CASE m = n
      BY <1>3, <2>2, <3>1 DEF Judged
    <3>2. CASE m # n
      BY <1>3, <3>2 DEF Judged
    <3> QED
      BY <3>1, <3>2
  <2> QED
    BY <1>1, <2>3, <2>4 DEF Judged, Backed
<1>4. ASSUME NEW n \in Miners,
             trackers' = [trackers EXCEPT ![n] = NewTracker], recent' = [recent EXCEPT ![n] = << >>]
      PROVE  Judged'
  <2>1. trackers' \in [Miners -> Tracker] /\ recent' \in [Miners -> Seq(Readings)]
    BY <1>4, NewBacked DEF Judged
  <2>2. ASSUME NEW m \in Miners PROVE Len(recent'[m]) <= 2 /\ Backed(trackers'[m], recent'[m])
    <3>1. CASE m = n
      BY <1>4, <3>1, NewBacked DEF Judged
    <3>2. CASE m # n
      BY <1>4, <3>2 DEF Judged
    <3> QED
      BY <3>1, <3>2
  <2> QED
    BY <1>1, <2>1, <2>2 DEF Judged, Backed
<1> QED
  BY <1>2, <1>3, <1>4, StepJudges

\* A judgement that changes the state has the readings it needs.
LEMMA JudgeConfirmed ==
  ASSUME NEW t \in Tracker, NEW past \in Seq(Readings), Len(past) <= 2, NEW r \in Readings,
         Backed(t, past), Judge(t, r).state # t.state
  PROVE  /\ Judge(t, r).state = "Warning" =>
              \E c \in Candidates(r) : Len(past) >= 1 /\ HasFault(past[1], c)
         /\ Judge(t, r).state = "Unhealthy" =>
              \E c \in SevereFaults(r) : /\ Len(past) >= 2
                                        /\ HasFault(past[1], c) /\ HasFault(past[2], c)
         /\ t.state \in Alarming /\ Judge(t, r).state \in {"Healthy", "Unknown"} =>
              Clean(r) /\ Clean(past[1])
<1>1. t.counts \in [FaultCodes -> Nat] /\ t.good \in Nat
  BY DEF Tracker, UnhealthyConfirmations, RecoveryConfirmations
<1>2. Counted(t, r) \in [FaultCodes -> Nat] /\ Good(t, r) \in Nat
  BY CountedBy, GoodBy DEF UnhealthyConfirmations, RecoveryConfirmations
<1>3. CASE ~ r.api
  BY <1>3 DEF Judge
<1>4. CASE r.api
  <2> DEFINE new == Judge(t, r).state
  <2>1. new = Judgement(t, r).state
    BY <1>4 DEF Judge
  <2>2. ASSUME new = "Warning"
        PROVE  \E c \in Candidates(r) : Len(past) >= 1 /\ HasFault(past[1], c)
    <3>1. PICK c \in FaultCodes : Counted(t, r)[c] >= WarningConfirmations
      BY <2>1, <2>2, JudgementReasoned
    <3>2. c \in Candidates(r) /\ t.counts[c] >= 1
      BY <1>1, <1>2, <3>1, CountedBy DEF WarningConfirmations
    <3> QED
      BY <3>2 DEF Backed
  <2>3. ASSUME new = "Unhealthy"
        PROVE  \E c \in SevereFaults(r) : Len(past) >= 2 /\ HasFault(past[1], c) /\ HasFault(past[2], c)
    <3>1. PICK c \in SevereFaults(r) : Counted(t, r)[c] >= UnhealthyConfirmations
      BY <2>1, <2>3, JudgementReasoned
    <3>2. c \in FaultCodes /\ t.counts[c] >= 2
      BY <1>1, <1>2, <3>1, CountedBy, FaultsNamed DEF UnhealthyConfirmations
    <3>3. t.counts[c] >= 1
      BY <1>1, <3>2
    <3> QED
      BY <3>1, <3>2, <3>3 DEF Backed
  <2>4. ASSUME t.state \in Alarming, new \in {"Healthy", "Unknown"}
        PROVE  Clean(r) /\ Clean(past[1])
    <3>1. Candidates(r) = {} /\ Good(t, r) >= RecoveryConfirmations
      BY <2>1, <2>4, JudgementReasoned
    <3>2. t.good >= 1
      BY <1>1, <1>2, <3>1, GoodBy DEF RecoveryConfirmations
    <3> QED
      BY <1>4, <3>1, <3>2 DEF Backed, Clean
  <2> QED
    BY <2>2, <2>3, <2>4
<1> QED
  BY <1>3, <1>4

\* One step of the property.
LEMMA StepConfirmed ==
  ASSUME Judged, Judged', [Next]_vars,
         NEW m \in Miners, trackers'[m].state # trackers[m].state, config'[m] # "gone"
  PROVE  LET before == recent[m]
             now == recent'[m][1]
             Shared(k, c) == Len(before) >= k /\ \A i \in 1..k : HasFault(before[i], c)
         IN  /\ trackers'[m].state = "Warning" => \E c \in Candidates(now) : Shared(1, c)
             /\ trackers'[m].state = "Unhealthy" => \E c \in SevereFaults(now) : Shared(2, c)
             /\ trackers[m].state \in Alarming /\ trackers'[m].state \in {"Healthy", "Unknown"} =>
                  Clean(now) /\ Clean(before[1])
<1>1. /\ trackers' = [trackers EXCEPT ![m] = Judge(@, truth[m])]
      /\ recent' = [recent EXCEPT ![m] = Remember(@, truth[m])]
  <2>1. CASE UNCHANGED <<trackers, recent>>
    BY <2>1
  <2>2. ASSUME NEW n \in Miners, trackers' = [trackers EXCEPT ![n] = Judge(@, truth[n])],
               recent' = [recent EXCEPT ![n] = Remember(@, truth[n])]
        PROVE  <1>1!1 /\ <1>1!2
    <3>1. n = m
      BY <2>2 DEF Judged
    <3> QED
      BY <2>2, <3>1
  <2>3. ASSUME NEW n \in Miners, trackers' = [trackers EXCEPT ![n] = NewTracker],
               config' = [config EXCEPT ![n] = "gone"]
        PROVE  FALSE
    BY <2>3 DEF Judged
  <2> QED
    BY <2>1, <2>2, <2>3, StepJudges
<1>2. /\ trackers[m] \in Tracker /\ recent[m] \in Seq(Readings) /\ Len(recent[m]) <= 2
      /\ Backed(trackers[m], recent[m]) /\ truth[m] \in Readings
      /\ trackers'[m] = Judge(trackers[m], truth[m]) /\ recent'[m] = Remember(recent[m], truth[m])
  BY <1>1 DEF Judged
<1>3. recent'[m][1] = truth[m]
  BY <1>2, RememberedTwo
<1>4. 1..1 = {1} /\ 1..2 = {1, 2}
  OBVIOUS
<1> QED
  BY <1>2, <1>3, <1>4, JudgeConfirmed

\* For any miners, pollers, thresholds and readings: a miner becomes Warning or Unhealthy, or leaves
\* them, only for as many readings in a row as the tracker asks for, whichever polls bring them.
THEOREM ConfirmedHealthHolds == Spec => ConfirmedHealth
<1> DEFINE Confirmed ==
      \A m \in Miners :
        LET old == trackers[m].state
            new == trackers'[m].state
            before == recent[m]
            now == recent'[m][1]
            Shared(n, c) == Len(before) >= n /\ \A i \in 1..n : HasFault(before[i], c)
        IN  new # old /\ config'[m] # "gone" =>
              /\ new = "Warning" => \E c \in Candidates(now) : Shared(1, c)
              /\ new = "Unhealthy" => \E c \in SevereFaults(now) : Shared(2, c)
              /\ old \in Alarming /\ new \in {"Healthy", "Unknown"} => Clean(now) /\ Clean(before[1])
<1>1. Judged /\ Judged' /\ [Next]_vars => [Confirmed]_vars
  BY StepConfirmed
<1>2. Judged /\ Judged' /\ [Next]_vars => Confirmed \/ UNCHANGED vars
  BY <1>1
<1> QED
  BY <1>2, InitJudged, StepJudged, PTL DEF Spec, ConfirmedHealth
-----------------------------------------------------------------------------
(* The alerts.                                                              *)

\* Every alert has a place of its own.
LEMMA Placed ==
  /\ Alerts = {"offline", "recovered", "hashrate", "temp-critical", "temp-warning", "chip-health",
               "chip-health-recovered", "pool", "pool-reconnected", "pool-switch", "shares",
               "block-found", "best"}
  /\ \A alert \in Alerts : Place(alert) \in Nat /\ AlertOrder[Place(alert)] = alert
<1>1. DOMAIN AlertOrder = 1..13
  BY DEF AlertOrder
<1>2. ASSUME NEW alert \in Alerts PROVE Place(alert) \in 1..13 /\ AlertOrder[Place(alert)] = alert
  <2>1. \E i \in DOMAIN AlertOrder : AlertOrder[i] = alert
    BY DEF Alerts, ToSet
  <2> HIDE DEF AlertOrder
  <2> QED
    BY <1>1, <2>1 DEF Place
<1>3. Alerts = {AlertOrder[i] : i \in 1..13}
  BY <1>1 DEF Alerts, ToSet
<1>4. {AlertOrder[i] : i \in 1..13} =
        {"offline", "recovered", "hashrate", "temp-critical", "temp-warning", "chip-health",
         "chip-health-recovered", "pool", "pool-reconnected", "pool-switch", "shares",
         "block-found", "best"}
  BY DEF AlertOrder
<1> QED
  BY <1>2, <1>3, <1>4

\* What is remembered of an evaluation has its type.
LEMMA RememberedTyped ==
  ASSUME NEW prior \in Memory \cup {NoMemory}, NEW r \in Readings, NEW reasons
  PROVE  Remembered(prior, r, reasons) \in Memory
<1>1. r \in Reading
  BY ReadingsAssumption
<1>2. r.api \in BOOLEAN /\ r.pool \in Pools \cup {NoPool} /\ r.bad \in Nat /\ r.blocks \in Nat
  BY <1>1 DEF Reading
<1> QED
  BY <1>2 DEF Remembered, Memory, WasChipDegraded, WasPoolAlerted

\* What it says of the miner and of what was told.
LEMMA RememberedWhat ==
  ASSUME NEW prior, NEW r, NEW reasons
  PROVE  /\ Remembered(prior, r, reasons).online = r.api
         /\ Remembered(prior, r, reasons).offlineAlerted = (~ r.api /\ Known(prior) /\ prior.offlineAlerted)
         /\ Remembered(prior, r, reasons).chipDegraded =
              IF ChipState(r, reasons) = "unknown" THEN WasChipDegraded(prior)
                                                   ELSE ChipState(r, reasons) = "degraded"
BY DEF Remembered

\* So has what an alert adds to it, which is the alert.
LEMMA NotedTyped ==
  ASSUME NEW memory \in Memory, NEW alert
  PROVE  /\ Noted(memory, alert) \in Memory
         /\ Noted(memory, alert).online = memory.online
         /\ Noted(memory, alert).chipDegraded = memory.chipDegraded
         /\ Noted(memory, alert).offlineAlerted <=> memory.offlineAlerted \/ alert = "offline"
BY DEF Noted, Memory

-----------------------------------------------------------------------------
(* The tasks of the pollers.                                                *)

\* Every poller polls some miners or does not poll.
Polling == \A p \in Pollers : tasks[p] = Idle \/ IsPoll(tasks[p])

\* One task goes on, the others stay what they are.
LEMMA TaskGoes ==
  ASSUME tasks = [q \in Pollers |-> tasks[q]], Polling,
         NEW p \in Pollers, NEW m \in Miners, Ongoing(p, m), NEW t \in Task,
         tasks' = [tasks EXCEPT ![p][m] = t]
  PROVE  /\ tasks' = [q \in Pollers |-> tasks'[q]] /\ Polling'
         /\ Ongoing(p, m)' /\ tasks'[p][m] = t
         /\ \A q \in Pollers, n \in Miners : q # p \/ n # m =>
              /\ Ongoing(q, n)' <=> Ongoing(q, n)
              /\ Ongoing(q, n) => tasks'[q][n] = tasks[q][n]
<1> DEFINE work == [tasks[p] EXCEPT ![m] = t]
<1>1. PICK S \in SUBSET Miners : tasks[p] \in [S -> Task]
  BY DEF Ongoing, Polling, IsPoll
<1>2. m \in S
  BY <1>1 DEF Ongoing
<1>3. /\ work \in [S -> Task] /\ work[m] = t /\ DOMAIN work = DOMAIN tasks[p]
      /\ \A n \in S : n # m => work[n] = tasks[p][n]
  BY <1>1, <1>2
<1>4. IsPoll(work)
  BY <1>3 DEF IsPoll
<1>5. work # Idle
  BY <1>4, IdleAssumption
<1>6. tasks' = [tasks EXCEPT ![p] = work]
  OBVIOUS
<1> HIDE DEF work
<1>7. tasks' = [q \in Pollers |-> tasks'[q]] /\ tasks'[p] = work /\ \A q \in Pollers : q # p => tasks'[q] = tasks[q]
  BY <1>6
<1>8. Polling'
  BY <1>4, <1>7 DEF Polling
<1>9. Ongoing(p, m)' /\ tasks'[p][m] = t
  BY <1>1, <1>2, <1>3, <1>5, <1>7 DEF Ongoing
<1>10. ASSUME NEW q \in Pollers, NEW n \in Miners, q # p \/ n # m
       PROVE  /\ Ongoing(q, n)' <=> Ongoing(q, n)
              /\ Ongoing(q, n) => tasks'[q][n] = tasks[q][n]
  <2>1. CASE q # p
    BY <1>7, <2>1 DEF Ongoing
  <2>2. CASE q = p
    BY <1>1, <1>3, <1>5, <1>7, <1>10, <2>2 DEF Ongoing
  <2> QED
    BY <2>1, <2>2
<1> QED
  BY <1>7, <1>8, <1>9, <1>10

-----------------------------------------------------------------------------
(* Types.                                                                   *)

\* The invariant behind TypeOK, with the types of what was told.
Typed ==
  /\ TypeOK
  /\ tasks = [p \in Pollers |-> tasks[p]]
  /\ told \in [Miners -> SUBSET Channels] /\ excused \in [Miners -> SUBSET Channels]

\* What an evaluation that goes on leaves.
MemoryTyped ==
  /\ previous \in [Miners -> Memory \cup {NoMemory}]
  /\ bestDiff \in [Miners -> Nat \cup {NoCount}]
  /\ timers \subseteq Timers
  /\ Polling /\ tasks = [p \in Pollers |-> tasks[p]]
  /\ told \in [Miners -> SUBSET Channels] /\ excused \in [Miners -> SUBSET Channels]

\* The task of an evaluation that raises its alerts.
Alerter == [stage : {"alerting"}, reading : Readings, memory : Memory, plan : SUBSET Alerts]

\* A task is asked, done or raises its alerts.
LEMMA AlerterTyped ==
  /\ Alerter \subseteq Task /\ Asked \in Task /\ \A r \in Readings : Done(r) \in Task
  /\ \A t \in Task : t.stage = "alerting" => t \in Alerter
<1>1. Task = {Asked} \cup {Done(r) : r \in Readings} \cup Alerter
  BY DEF Alerter, Task
<1>2. Asked.stage = "asked" /\ \A r \in Readings : Done(r).stage = "done"
  BY DEF Asked, Done
<1> QED
  BY <1>1, <1>2

\* Proceed keeps the types, whichever evaluation goes on.
LEMMA ProceedTyped ==
  ASSUME MemoryTyped, NEW p \in Pollers, NEW m \in Miners, Ongoing(p, m),
         NEW t \in Alerter, NEW ts \in SUBSET Timers, Proceed(p, m, t, ts)
  PROVE  MemoryTyped'
<1>1. CASE Finish(p, m, t, ts)
  <2>1. t.memory \in Memory /\ t.reading \in Readings /\ t.reading \in Reading
    BY ReadingsAssumption DEF Alerter
  <2>2. previous' \in [Miners -> Memory \cup {NoMemory}] /\ timers' \subseteq Timers
    BY <1>1, <2>1 DEF Finish, MemoryTyped
  <2>3. BestAfter(m, t) \in Nat \cup {NoCount}
    <3>1. t.reading.best \in Nat \cup {Unreported} /\ bestDiff[m] \in Nat \cup {NoCount}
      BY <2>1 DEF Reading, MemoryTyped
    <3> QED
      BY <3>1 DEF BestAfter, Reported
  <2>4. bestDiff' \in [Miners -> Nat \cup {NoCount}]
    BY <1>1, <2>3 DEF Finish, MemoryTyped
  <2>5. Polling' /\ tasks' = [q \in Pollers |-> tasks'[q]]
    BY <1>1, <2>1, AlerterTyped, TaskGoes DEF Finish, MemoryTyped
  <2>6. Muted(t) \subseteq Channels
    BY DEF Muted
  <2>7. told' \in [Miners -> SUBSET Channels] /\ excused' \in [Miners -> SUBSET Channels]
    BY <1>1, <2>6 DEF Finish, MemoryTyped
  <2> QED
    BY <2>2, <2>4, <2>5, <2>7 DEF MemoryTyped
<1>2. ASSUME NEW next \in t.plan, NEW rest \in SUBSET t.plan, Raise(p, m, t, ts, next, rest)
      PROVE  MemoryTyped'
  <2> DEFINE u == [t EXCEPT !.plan = rest, !.memory = Noted(@, next)]
  <2>1. t.memory \in Memory /\ t.plan \in SUBSET Alerts
    BY DEF Alerter
  <2>2. u \in Alerter
    BY <2>1, NotedTyped DEF Alerter
  <2>3. timers' \subseteq Timers
    BY <1>2 DEF Raise, Cooldown, Timers
  <2>4. tasks' = [tasks EXCEPT ![p][m] = u]
    BY <1>2 DEF Raise
  <2> HIDE DEF u
  <2>5. Polling' /\ tasks' = [q \in Pollers |-> tasks'[q]]
    BY <2>2, <2>4, AlerterTyped, TaskGoes DEF MemoryTyped
  <2>6. told[m] \subseteq Channels
    BY DEF MemoryTyped
  <2>7. NewsAfter(m, next) \subseteq Channels
    BY <2>6 DEF NewsAfter, Channels
  <2> QED
    BY <1>2, <2>3, <2>5, <2>7 DEF Raise, MemoryTyped
<1> QED
  BY <1>1, <1>2 DEF Proceed

\* The services start with nothing remembered.
LEMMA InitTyped == Init => Typed
<1> SUFFICES ASSUME Init PROVE Typed
  OBVIOUS
<1>1. Polling /\ tasks = [p \in Pollers |-> tasks[p]]
  BY DEF Init, Polling
<1>2. /\ trackers \in [Miners -> Tracker] /\ config \in [Miners -> Entries]
      /\ truth \in [Miners -> Readings]
  BY InitJudged DEF Judged
<1> QED
  BY <1>1, <1>2 DEF Init, Typed, TypeOK, Polling

\* Every step keeps the types.
LEMMA StepTyped == Typed /\ Judged' /\ [Next]_vars => Typed'
<1> SUFFICES ASSUME Typed, Judged', [Next]_vars PROVE Typed'
  OBVIOUS
<1> USE DEF Typed, TypeOK
<1>1. MemoryTyped /\ Polling
  BY DEF MemoryTyped, Polling
<1>2. /\ trackers' \in [Miners -> Tracker] /\ config' \in [Miners -> Entries]
      /\ truth' \in [Miners -> Readings]
  BY DEF Judged
<1>3. MemoryTyped' /\ latest' \in [Miners -> Readings \cup {NoStatus}] => Typed'
  BY <1>2 DEF MemoryTyped, Polling
<1>4. ASSUME NEW p \in Pollers, StartPoll(p) PROVE Typed'
  <2> DEFINE work == [m \in {n \in Miners : config[n] = "on"} |-> Asked]
  <2>1. IsPoll(work)
    BY AlerterTyped DEF IsPoll
  <2>2. tasks' = [tasks EXCEPT ![p] = work]
    BY <1>4 DEF StartPoll
  <2> HIDE DEF work
  <2>3. Polling' /\ tasks' = [q \in Pollers |-> tasks'[q]]
    BY <1>1, <2>1, <2>2 DEF Polling
  <2> QED
    BY <1>3, <1>4, <2>3 DEF StartPoll, memoryVars, history, MemoryTyped
<1>5. ASSUME NEW p \in Pollers, Publish(p) PROVE Typed'
  <2>1. Polling' /\ tasks' = [q \in Pollers |-> tasks'[q]]
    BY <1>1, <1>5 DEF Polling, Publish
  <2>2. ASSUME NEW m \in DOMAIN tasks[p] PROVE m \in Miners /\ tasks[p][m].reading \in Readings
    <3>1. tasks[p] # Idle /\ InStage(p, m, "done")
      BY <1>5 DEF Publish
    <3>2. PICK S \in SUBSET Miners : tasks[p] \in [S -> Task]
      BY <1>1, <3>1 DEF Polling, IsPoll
    <3>3. tasks[p][m] \in Task /\ tasks[p][m].stage = "done" /\ m \in Miners
      BY <3>1, <3>2 DEF InStage
    <3> QED
      BY <3>3 DEF Task, Asked, Done
  <2>3. latest' \in [Miners -> Readings \cup {NoStatus}]
    BY <1>5, <2>2 DEF Publish
  <2> QED
    BY <1>3, <1>5, <2>1, <2>3 DEF Publish, memoryVars, history, MemoryTyped
<1>6. ASSUME NEW p \in Pollers, NEW m \in Miners, Evaluate(p, m) PROVE Typed'
  <2>1. PICK plan, memory, reasons :
          /\ plan = Planned(previous[m], truth[m], reasons, Grace(m) \cup Begins(previous[m], truth[m]))
          /\ memory = Remembered(previous[m], truth[m], reasons)
          /\ Proceed(p, m, [stage |-> "alerting", reading |-> truth[m], memory |-> memory, plan |-> plan],
                     timers \cup Graces(m, Begins(previous[m], truth[m])))
    BY <1>6 DEF Evaluate
  <2>2. memory \in Memory /\ plan \in SUBSET Alerts /\ truth[m] \in Readings
    BY <2>1, RememberedTyped DEF Planned
  <2>3. timers \cup Graces(m, Begins(previous[m], truth[m])) \in SUBSET Timers
    BY DEF Graces, Begins, Timers
  <2>4. [stage |-> "alerting", reading |-> truth[m], memory |-> memory, plan |-> plan] \in Alerter
    BY <2>2 DEF Alerter
  <2>5. Ongoing(p, m)
    BY <1>6 DEF Evaluate, InStage
  <2>6. MemoryTyped'
    BY <1>1, <2>1, <2>3, <2>4, <2>5, ProceedTyped
  <2> QED
    BY <1>3, <1>6, <2>6 DEF Evaluate
<1>7. ASSUME NEW p \in Pollers, NEW m \in Miners, Return(p, m) PROVE Typed'
  <2>1. Ongoing(p, m) /\ tasks[p][m].stage = "alerting"
    BY <1>7 DEF Return, InStage
  <2>2. tasks[p][m] \in Alerter
    <3>1. PICK S \in SUBSET Miners : tasks[p] \in [S -> Task]
      BY <1>1, <2>1 DEF Polling, IsPoll, Ongoing
    <3> QED
      BY <2>1, <3>1, AlerterTyped DEF Ongoing
  <2>3. MemoryTyped'
    BY <1>1, <1>7, <2>1, <2>2, ProceedTyped DEF Return
  <2> QED
    BY <1>3, <1>7, <2>3 DEF Return
<1>8. ASSUME NEW m \in Miners, Change(m) PROVE Typed'
  BY <1>1, <1>3, <1>8 DEF Change, memoryVars, history, MemoryTyped, Polling
<1>9. ASSUME NEW m \in Miners, NEW c \in Entries, Reconfigure(m, c) PROVE Typed'
  <2>1. latest' \in [Miners -> Readings \cup {NoStatus}]
    BY <1>9 DEF Reconfigure
  <2>2. MemoryTyped'
    BY <1>1, <1>9 DEF Reconfigure, history, MemoryTyped, Polling
  <2> QED
    BY <1>3, <2>1, <2>2
<1>10. ASSUME NEW t \in Timers, TimerEnds(t) PROVE Typed'
  BY <1>1, <1>3, <1>10 DEF TimerEnds, history, MemoryTyped, Polling
<1>11. CASE UNCHANGED vars
  BY <1>1, <1>3, <1>11 DEF vars, memoryVars, history, MemoryTyped, Polling
<1>12. CASE Next
  BY <1>4, <1>5, <1>6, <1>7, <1>8, <1>9, <1>10, <1>12 DEF Next, Poll
<1> QED
  BY <1>11, <1>12

\* For any miners, pollers and readings: every variable keeps its type, through overlapping polls and
\* edits between them.
THEOREM TypeCorrect == Spec => []TypeOK
<1>1. Typed => TypeOK
  BY DEF Typed
<1> QED
  BY <1>1, InitJudged, StepJudged, InitTyped, StepTyped, PTL DEF Spec
-----------------------------------------------------------------------------
(* What the engine remembers of what it told.                               *)

\* Only a miner that is offline is remembered to be reported as offline.
Coherent(memory) == memory.offlineAlerted => ~ memory.online

\* The plan of an evaluation fits what it remembers.
Fitting(t) ==
  /\ Coherent(t.memory)
  /\ "offline" \in t.plan => ~ t.memory.online /\ "recovered" \notin t.plan
  /\ ~ ("chip-health" \in t.plan /\ "chip-health-recovered" \in t.plan)

\* What an evaluation remembers is what will have been told when its alerts are raised, except for
\* what is excused and what is kept quiet.
Tracks(m, t) ==
  /\ "offline" \notin excused[m] \cup Muted(t) =>
       (t.memory.offlineAlerted <=> "offline" \in told[m] /\ "recovered" \notin t.plan)
  /\ "chips" \notin excused[m] \cup Muted(t) =>
       (t.memory.chipDegraded <=>
          ("chips" \in told[m] \/ "chip-health" \in t.plan) /\ "chip-health-recovered" \notin t.plan)

\* What NewsRemembered says of a miner.
Remembers(m) == told[m] \ excused[m] = Recalled(previous[m]) \ excused[m]

\* The invariant: between evaluations the engine remembers, and an evaluation that is alone will.
Sound(m) ==
  /\ previous[m] # NoMemory => Coherent(previous[m])
  /\ \A p \in Alerting(m) : Fitting(tasks[p][m])
  /\ Alerting(m) = {} => Remembers(m)
  /\ \A p \in Pollers : Alerting(m) = {p} => Tracks(m, tasks[p][m])

\* An evaluation that begins alone tracks what was remembered.
LEMMA BeginsSound ==
  ASSUME Typed, NEW m \in Miners, NEW r \in Readings, NEW reasons, NEW grace, NEW t \in Alerter,
         previous[m] # NoMemory => Coherent(previous[m]),
         t.reading = r, t.memory = Remembered(previous[m], r, reasons),
         t.plan = Planned(previous[m], r, reasons, grace)
  PROVE  Fitting(t) /\ (Remembers(m) => Tracks(m, t))
<1> DEFINE prior == previous[m]
<1>1. /\ r.api \in BOOLEAN /\ r.armed \in BOOLEAN /\ r.quiet \in BOOLEAN
  BY ReadingsAssumption DEF Reading
<1>2. /\ t.memory.online = r.api
      /\ t.memory.offlineAlerted = (~ r.api /\ Known(prior) /\ prior.offlineAlerted)
      /\ t.memory.chipDegraded = IF ChipState(r, reasons) = "unknown" THEN WasChipDegraded(prior)
                                 ELSE ChipState(r, reasons) = "degraded"
  BY RememberedWhat
<1>3. \A alert \in Alerts : alert \in t.plan <=> Due(alert, prior, r, reasons, grace)
  BY DEF Planned
<1>4. /\ "offline" \in t.plan => ~ r.api
      /\ "recovered" \in t.plan <=>
           ~ (r.armed /\ r.quiet) /\ r.api /\ Known(prior) /\ ~ prior.online /\ prior.offlineAlerted
      /\ "chip-health" \in t.plan <=>
           r.api /\ ChipState(r, reasons) = "degraded" /\ ~ WasChipDegraded(prior) /\ ~ r.armed
      /\ "chip-health-recovered" \in t.plan <=>
           r.api /\ ChipState(r, reasons) = "healthy" /\ WasChipDegraded(prior) /\ ~ r.armed
  BY <1>3, Placed DEF Due, Quieted
<1>5. Fitting(t)
  BY <1>2, <1>4 DEF Fitting, Coherent
<1>6. ChipState(r, reasons) \in {"degraded", "healthy", "unknown"}
      /\ (ChipState(r, reasons) # "unknown" => r.api)
  BY <1>1 DEF ChipState
<1>7. ASSUME Remembers(m) PROVE Tracks(m, t)
  <2>1. "offline" \notin excused[m] =>
          ("offline" \in told[m] <=> Known(prior) /\ prior.offlineAlerted)
    BY <1>7 DEF Remembers, Recalled, Channels
  <2>2. "chips" \notin excused[m] => ("chips" \in told[m] <=> WasChipDegraded(prior))
    BY <1>7 DEF Remembers, Recalled, Channels, WasChipDegraded
  <2>3. /\ "offline" \in Muted(t) <=> r.armed /\ r.quiet
        /\ "chips" \in Muted(t) <=> r.armed
    BY DEF Muted, Channels
  <2>4. Known(prior) /\ prior.offlineAlerted => ~ prior.online
    BY DEF Known, Coherent
  <2>5. ASSUME "offline" \notin excused[m] \cup Muted(t)
        PROVE  t.memory.offlineAlerted <=> "offline" \in told[m] /\ "recovered" \notin t.plan
    BY <1>1, <1>2, <1>4, <2>1, <2>3, <2>4, <2>5
  <2>6. ASSUME "chips" \notin excused[m] \cup Muted(t)
        PROVE  t.memory.chipDegraded <=>
                 ("chips" \in told[m] \/ "chip-health" \in t.plan) /\ "chip-health-recovered" \notin t.plan
    BY <1>1, <1>2, <1>4, <1>6, <2>2, <2>3, <2>6
  <2> QED
    BY <2>5, <2>6 DEF Tracks
<1> QED
  BY <1>5, <1>7

\* One alert that is raised, after which those that waited are still to be raised.
LEMMA RaiseTracks ==
  ASSUME Typed, NEW m \in Miners, NEW p \in Pollers, NEW t \in Alerter, NEW ts, NEW next \in t.plan, NEW rest,
         rest = {alert \in t.plan : Place(alert) > Place(next)},
         \A other \in t.plan : Emitted(m, other, t, ts) => Place(next) <= Place(other),
         Raise(p, m, t, ts, next, rest), Fitting(t),
         NEW u \in Alerter, u = [t EXCEPT !.plan = rest, !.memory = Noted(@, next)]
  PROVE  Fitting(u) /\ (Tracks(m, t) => Tracks(m, u)')
<1>1. t.memory \in Memory /\ t.plan \subseteq Alerts
  BY DEF Alerter
<1>2. u.memory = Noted(t.memory, next) /\ u.plan = rest /\ u.reading = t.reading
  BY DEF Alerter
<1>3. /\ u.memory.online = t.memory.online /\ u.memory.chipDegraded = t.memory.chipDegraded
      /\ u.memory.offlineAlerted <=> t.memory.offlineAlerted \/ next = "offline"
  BY <1>1, <1>2, NotedTyped
\* Forced alerts wait for nothing.
<1>4. \A alert \in {"recovered", "chip-health", "chip-health-recovered"} :
        /\ Emitted(m, alert, t, ts)
        /\ alert \in rest <=> alert \in t.plan /\ alert # next
  <2>1. \A alert \in {"recovered", "chip-health", "chip-health-recovered"} : Emitted(m, alert, t, ts)
    BY DEF Emitted, Cooled
  <2>2. ASSUME NEW alert \in {"recovered", "chip-health", "chip-health-recovered"}, alert \in t.plan, alert # next
        PROVE  alert \in rest
    <3>1. Place(next) <= Place(alert)
      BY <2>1, <2>2
    <3>2. /\ Place(next) \in Nat /\ Place(alert) \in Nat
          /\ AlertOrder[Place(next)] = next /\ AlertOrder[Place(alert)] = alert
      BY <1>1, <2>2, Placed
    <3>3. Place(next) # Place(alert)
      BY <2>2, <3>2
    <3>4. Place(alert) > Place(next)
      BY <3>1, <3>2, <3>3
    <3> QED
      BY <2>2, <3>4
  <2>3. next \notin rest
    <3>1. Place(next) \in Nat
      BY <1>1, Placed
    <3> QED
      BY <3>1
  <2> QED
    BY <2>1, <2>2, <2>3
<1>5. rest \subseteq t.plan
  OBVIOUS
<1>6. Fitting(u)
  BY <1>2, <1>3, <1>5 DEF Fitting, Coherent
<1>7. told'[m] = NewsAfter(m, next) /\ excused'[m] = excused[m] /\ Muted(u) = Muted(t)
  BY <1>2 DEF Raise, Typed, Muted
<1>8. ASSUME Tracks(m, t), "offline" \notin excused[m] \cup Muted(t)
      PROVE  u.memory.offlineAlerted <=> "offline" \in NewsAfter(m, next) /\ "recovered" \notin rest
  <2>1. t.memory.offlineAlerted <=> "offline" \in told[m] /\ "recovered" \notin t.plan
    BY <1>8 DEF Tracks
  <2>2. CASE next = "offline"
    <3>1. "offline" \in NewsAfter(m, next) /\ u.memory.offlineAlerted
      BY <1>3, <2>2 DEF NewsAfter
    <3>2. "recovered" \notin t.plan
      BY <2>2 DEF Fitting
    <3> QED
      BY <1>5, <3>1, <3>2
  <2>3. CASE next = "recovered"
    BY <1>3, <1>4, <2>1, <2>3 DEF NewsAfter
  <2>4. CASE next \notin {"offline", "recovered"}
    <3>1. "offline" \in NewsAfter(m, next) <=> "offline" \in told[m]
      BY <2>4 DEF NewsAfter
    <3> QED
      BY <1>3, <1>4, <2>1, <2>4, <3>1
  <2> QED
    BY <2>2, <2>3, <2>4
<1>9. ASSUME Tracks(m, t), "chips" \notin excused[m] \cup Muted(t)
      PROVE  u.memory.chipDegraded <=>
               ("chips" \in NewsAfter(m, next) \/ "chip-health" \in rest) /\ "chip-health-recovered" \notin rest
  <2>1. t.memory.chipDegraded <=>
          ("chips" \in told[m] \/ "chip-health" \in t.plan) /\ "chip-health-recovered" \notin t.plan
    BY <1>9 DEF Tracks
  <2>2. CASE next = "chip-health"
    <3>1. "chips" \in NewsAfter(m, next)
      BY <2>2 DEF NewsAfter
    <3> QED
      BY <1>3, <1>4, <2>1, <2>2, <3>1
  <2>3. CASE next = "chip-health-recovered"
    <3>1. "chips" \notin NewsAfter(m, next)
      BY <2>3 DEF NewsAfter
    <3> QED
      BY <1>3, <1>5, <2>1, <2>3, <3>1 DEF Fitting
  <2>4. CASE next \notin {"chip-health", "chip-health-recovered"}
    <3>1. "chips" \in NewsAfter(m, next) <=> "chips" \in told[m]
      BY <2>4 DEF NewsAfter
    <3> QED
      BY <1>3, <1>4, <2>1, <2>4, <3>1
  <2> QED
    BY <2>2, <2>3, <2>4
<1> QED
  BY <1>2, <1>6, <1>7, <1>8, <1>9 DEF Tracks

\* Where a step changes neither what is remembered and told nor an evaluation, nothing is lost.
LEMMA SoundKept ==
  ASSUME NEW m \in Miners, Sound(m),
         previous'[m] = previous[m], told'[m] = told[m], excused'[m] = excused[m],
         Alerting(m)' = Alerting(m), \A p \in Alerting(m) : tasks'[p][m] = tasks[p][m]
  PROVE  Sound(m)'
<1>1. \A p \in Alerting(m)' : Fitting(tasks'[p][m])
  BY DEF Sound
<1>2. ASSUME Alerting(m)' = {} PROVE Remembers(m)'
  BY <1>2 DEF Sound, Remembers
<1>3. ASSUME NEW p \in Pollers, Alerting(m)' = {p} PROVE Tracks(m, tasks[p][m])' /\ tasks'[p][m] = tasks[p][m]
  BY <1>3 DEF Sound, Tracks
<1> QED
  BY <1>1, <1>2, <1>3 DEF Sound

\* A task that goes on begins or ends its evaluation.
LEMMA StageAfter ==
  ASSUME Typed, NEW p \in Pollers, NEW m \in Miners, Ongoing(p, m), NEW t \in Task,
         tasks' = [tasks EXCEPT ![p][m] = t]
  PROVE  (InStage(p, m, "alerting")' <=> t.stage = "alerting") /\ tasks'[p][m] = t
<1>1. Polling /\ tasks = [q \in Pollers |-> tasks[q]]
  BY DEF Typed, TypeOK, Polling
<1>2. Ongoing(p, m)' /\ tasks'[p][m] = t
  BY <1>1, TaskGoes
<1> QED
  BY <1>2 DEF InStage

\* It is the only one.
LEMMA OthersAfter ==
  ASSUME Typed, NEW p \in Pollers, NEW m \in Miners, Ongoing(p, m), NEW t \in Task,
         tasks' = [tasks EXCEPT ![p][m] = t],
         NEW q \in Pollers, NEW n \in Miners, q # p \/ n # m
  PROVE  /\ InStage(q, n, "alerting")' <=> InStage(q, n, "alerting")
         /\ InStage(q, n, "alerting") => tasks'[q][n] = tasks[q][n]
<1>1. Polling /\ tasks = [r \in Pollers |-> tasks[r]]
  BY DEF Typed, TypeOK, Polling
<1>2. /\ Ongoing(q, n)' <=> Ongoing(q, n)
      /\ Ongoing(q, n) => tasks'[q][n] = tasks[q][n]
  BY <1>1, TaskGoes
<1>3. CASE Ongoing(q, n)
  BY <1>2, <1>3 DEF InStage
<1>4. CASE ~ Ongoing(q, n)
  BY <1>2, <1>4 DEF InStage
<1> QED
  BY <1>3, <1>4

\* Whichever evaluation goes on, alone or not, what was told is remembered when no evaluation is left.
LEMMA ProceedSound ==
  ASSUME Typed, NEW p \in Pollers, NEW m \in Miners, Ongoing(p, m),
         NEW t \in Alerter, NEW ts, Proceed(p, m, t, ts), Fitting(t),
         \A n \in Miners : Sound(n), Alerting(m) \ {p} # {} \/ Tracks(m, t)
  PROVE  \A n \in Miners : Sound(n)'
<1>1. t.memory \in Memory /\ t.plan \subseteq Alerts /\ t.reading \in Readings
  BY DEF Alerter
<1>2. CASE Finish(p, m, t, ts) /\ \A alert \in t.plan : ~ Emitted(m, alert, t, ts)
  <2>1. Done(t.reading) \in Task /\ Done(t.reading).stage = "done"
    BY <1>1, AlerterTyped DEF Done
  <2>2. tasks' = [tasks EXCEPT ![p][m] = Done(t.reading)]
    BY <1>2 DEF Finish
  <2>3. /\ Alerting(m)' = Alerting(m) \ {p}
        /\ \A q \in Alerting(m)' : tasks'[q][m] = tasks[q][m]
        /\ \A n \in Miners : n # m =>
             Alerting(n)' = Alerting(n) /\ \A q \in Alerting(n) : tasks'[q][n] = tasks[q][n]
    <3> DEFINE done == Done(t.reading)
    <3>1. done \in Task /\ done.stage # "alerting" /\ tasks' = [tasks EXCEPT ![p][m] = done]
      BY <2>1, <2>2
    <3> HIDE DEF done
    <3>2. ~ InStage(p, m, "alerting")'
      BY <3>1, StageAfter
    <3>3. \A q \in Pollers, n \in Miners : q # p \/ n # m =>
            /\ InStage(q, n, "alerting")' <=> InStage(q, n, "alerting")
            /\ InStage(q, n, "alerting") => tasks'[q][n] = tasks[q][n]
      BY <3>1, OthersAfter
    <3> QED
      BY <3>2, <3>3 DEF Alerting
  <2>4. /\ previous'[m] = t.memory /\ told' = told
        /\ excused'[m] = IF Alerting(m) \ {p} # {} THEN Channels
                         ELSE IF Recalled(t.memory) = told[m] THEN {} ELSE excused[m] \cup Muted(t)
        /\ \A n \in Miners : n # m => previous'[n] = previous[n] /\ excused'[n] = excused[n]
    BY <1>2 DEF Finish, Typed, TypeOK
  <2>5. \A n \in Miners : n # m => Sound(n)'
    BY <2>3, <2>4, SoundKept
  <2>6. Coherent(previous'[m]) /\ \A q \in Alerting(m)' : Fitting(tasks'[q][m])
    BY <2>3, <2>4 DEF Sound, Fitting
  <2>7. ASSUME Alerting(m)' = {} PROVE Remembers(m)'
    <3>1. /\ Alerting(m) \ {p} = {} /\ Tracks(m, t)
          /\ excused'[m] = IF Recalled(t.memory) = told[m] THEN {} ELSE excused[m] \cup Muted(t)
      BY <2>3, <2>4, <2>7
    <3>2. "recovered" \notin t.plan /\ "chip-health" \notin t.plan /\ "chip-health-recovered" \notin t.plan
      BY <1>2 DEF Emitted, Cooled
    <3>3. t.memory # NoMemory
      BY <1>1, MemoryAssumption
    <3>4. /\ "offline" \in Recalled(t.memory) <=> t.memory.offlineAlerted
          /\ "chips" \in Recalled(t.memory) <=> t.memory.chipDegraded
          /\ Recalled(t.memory) \subseteq {"offline", "chips"}
      BY <3>3 DEF Recalled, Known, Channels
    <3>5. told[m] \subseteq {"offline", "chips"}
      BY DEF Typed, Channels
    <3>6. CASE Recalled(t.memory) = told[m]
      BY <2>4, <3>6 DEF Remembers
    <3>7. CASE Recalled(t.memory) # told[m]
      <4>1. /\ "offline" \notin excused[m] \cup Muted(t) => (t.memory.offlineAlerted <=> "offline" \in told[m])
            /\ "chips" \notin excused[m] \cup Muted(t) => (t.memory.chipDegraded <=> "chips" \in told[m])
        BY <3>1, <3>2 DEF Tracks
      <4>2. told[m] \ (excused[m] \cup Muted(t)) = Recalled(t.memory) \ (excused[m] \cup Muted(t))
        BY <3>4, <3>5, <4>1
      <4> QED
        BY <2>4, <3>1, <3>7, <4>2 DEF Remembers
    <3> QED
      BY <3>6, <3>7
  <2>8. ASSUME NEW q \in Pollers, Alerting(m)' = {q} PROVE Tracks(m, tasks[q][m])'
    <3>1. excused'[m] = Channels
      BY <2>3, <2>4, <2>8
    <3> QED
      BY <3>1 DEF Tracks, Channels
  <2>9. Sound(m)'
    BY <2>6, <2>7, <2>8 DEF Sound
  <2> QED
    BY <2>5, <2>9
<1>3. ASSUME NEW next \in t.plan, \A other \in t.plan : Emitted(m, other, t, ts) => Place(next) <= Place(other),
             Raise(p, m, t, ts, next, {alert \in t.plan : Place(alert) > Place(next)})
      PROVE  \A n \in Miners : Sound(n)'
  <2> DEFINE rest == {alert \in t.plan : Place(alert) > Place(next)}
             u == [t EXCEPT !.plan = rest, !.memory = Noted(@, next)]
  <2>1. u \in Alerter /\ u \in Task /\ u.stage = "alerting"
    BY <1>1, NotedTyped, AlerterTyped DEF Alerter
  <2>2. Fitting(u) /\ (Tracks(m, t) => Tracks(m, u)')
    BY <1>3, <2>1, RaiseTracks
  <2>3. /\ tasks' = [tasks EXCEPT ![p][m] = u]
        /\ previous' = previous /\ excused' = excused
        /\ told' = [told EXCEPT ![m] = NewsAfter(m, next)]
    BY <1>3 DEF Raise
  <2> HIDE DEF u, rest
  <2>4. /\ Alerting(m)' = Alerting(m) \cup {p} /\ tasks'[p][m] = u
        /\ \A q \in Alerting(m) : q # p => tasks'[q][m] = tasks[q][m]
        /\ \A n \in Miners : n # m =>
             Alerting(n)' = Alerting(n) /\ \A q \in Alerting(n) : tasks'[q][n] = tasks[q][n]
    <3>1. InStage(p, m, "alerting")' /\ tasks'[p][m] = u
      BY <2>1, <2>3, StageAfter
    <3>2. \A q \in Pollers, n \in Miners : q # p \/ n # m =>
            /\ InStage(q, n, "alerting")' <=> InStage(q, n, "alerting")
            /\ InStage(q, n, "alerting") => tasks'[q][n] = tasks[q][n]
      BY <2>1, <2>3, OthersAfter
    <3> QED
      BY <3>1, <3>2 DEF Alerting
  <2>5. \A n \in Miners : n # m => Sound(n)'
    BY <2>3, <2>4, SoundKept DEF Typed
  <2>6. \A q \in Alerting(m)' : Fitting(tasks'[q][m])
    BY <2>2, <2>4 DEF Sound
  <2>7. ASSUME NEW q \in Pollers, Alerting(m)' = {q} PROVE Tracks(m, tasks[q][m])'
    <3>1. q = p /\ Alerting(m) \ {p} = {}
      BY <2>4, <2>7
    <3>2. Tracks(m, u)'
      BY <2>2, <3>1
    <3> QED
      BY <2>4, <3>1, <3>2 DEF Tracks
  <2>8. Sound(m)'
    BY <2>3, <2>4, <2>6, <2>7 DEF Sound
  <2> QED
    BY <2>5, <2>8
<1> QED
  BY <1>2, <1>3 DEF Proceed

\* Nothing was told when the services start.
LEMMA InitSound == Init => \A m \in Miners : Sound(m)
<1> SUFFICES ASSUME Init, NEW m \in Miners PROVE Sound(m)
  OBVIOUS
<1>1. Alerting(m) = {}
  BY DEF Init, Alerting, InStage, Ongoing
<1>2. Remembers(m)
  BY DEF Init, Remembers, Recalled, Known
<1> QED
  BY <1>1, <1>2 DEF Init, Sound

\* Every step keeps the invariant.
LEMMA StepSound == Typed /\ (\A m \in Miners : Sound(m)) /\ [Next]_vars => \A m \in Miners : Sound(m)'
<1> SUFFICES ASSUME Typed, \A m \in Miners : Sound(m), [Next]_vars PROVE \A m \in Miners : Sound(m)'
  OBVIOUS
<1> USE DEF Typed, TypeOK
<1>1. ASSUME UNCHANGED <<previous, told, excused, tasks>> PROVE \A m \in Miners : Sound(m)'
  <2>1. \A m \in Miners : Alerting(m)' = Alerting(m)
    BY <1>1 DEF Alerting, InStage, Ongoing
  <2> QED
    BY <1>1, <2>1, SoundKept
<1>2. ASSUME NEW p \in Pollers, StartPoll(p) PROVE \A m \in Miners : Sound(m)'
  <2> DEFINE work == [m \in {n \in Miners : config[n] = "on"} |-> Asked]
  <2>1. tasks[p] = Idle /\ tasks'[p] = work /\ \A q \in Pollers : q # p => tasks'[q] = tasks[q]
    BY <1>2 DEF StartPoll
  <2>2. \A m \in DOMAIN work : work[m].stage # "alerting"
    BY DEF Asked
  <2> HIDE DEF work
  <2>3. \A m \in Miners : Alerting(m)' = Alerting(m) /\ \A q \in Alerting(m) : tasks'[q][m] = tasks[q][m]
    BY <2>1, <2>2 DEF Alerting, InStage, Ongoing
  <2> QED
    BY <1>2, <2>3, SoundKept DEF StartPoll, memoryVars, history
<1>3. ASSUME NEW p \in Pollers, Publish(p) PROVE \A m \in Miners : Sound(m)'
  <2>1. tasks'[p] = Idle /\ \A q \in Pollers : q # p => tasks'[q] = tasks[q]
    BY <1>3 DEF Publish
  <2>2. \A m \in Miners : ~ InStage(p, m, "alerting")
    BY <1>3 DEF Publish, InStage, Ongoing
  <2>3. \A m \in Miners : Alerting(m)' = Alerting(m) /\ \A q \in Alerting(m) : tasks'[q][m] = tasks[q][m]
    BY <2>1, <2>2 DEF Alerting, InStage, Ongoing
  <2> QED
    BY <1>3, <2>3, SoundKept DEF Publish, memoryVars, history
<1>4. ASSUME NEW p \in Pollers, NEW m \in Miners, Evaluate(p, m) PROVE \A n \in Miners : Sound(n)'
  <2>1. PICK plan, memory, reasons :
          /\ plan = Planned(previous[m], truth[m], reasons, Grace(m) \cup Begins(previous[m], truth[m]))
          /\ memory = Remembered(previous[m], truth[m], reasons)
          /\ Proceed(p, m, [stage |-> "alerting", reading |-> truth[m], memory |-> memory, plan |-> plan],
                     timers \cup Graces(m, Begins(previous[m], truth[m])))
    BY <1>4 DEF Evaluate
  <2> DEFINE t == [stage |-> "alerting", reading |-> truth[m], memory |-> memory, plan |-> plan]
  <2>2. t \in Alerter
    BY <2>1, RememberedTyped DEF Alerter, Planned
  <2>3. /\ t.reading = truth[m] /\ t.memory = Remembered(previous[m], truth[m], reasons)
        /\ t.plan = Planned(previous[m], truth[m], reasons, Grace(m) \cup Begins(previous[m], truth[m]))
    BY <2>1
  <2>4. Ongoing(p, m) /\ p \notin Alerting(m)
    BY <1>4 DEF Evaluate, InStage, Alerting
  <2>5. Proceed(p, m, t, timers \cup Graces(m, Begins(previous[m], truth[m])))
    BY <2>1
  <2> HIDE DEF t
  <2>6. Fitting(t) /\ (Remembers(m) => Tracks(m, t))
    BY <2>2, <2>3, BeginsSound DEF Sound
  <2>7. Alerting(m) \ {p} # {} \/ Tracks(m, t)
    BY <2>4, <2>6 DEF Sound
  <2> QED
    BY <2>2, <2>4, <2>5, <2>6, <2>7, ProceedSound
<1>5. ASSUME NEW p \in Pollers, NEW m \in Miners, Return(p, m) PROVE \A n \in Miners : Sound(n)'
  <2>1. Ongoing(p, m) /\ p \in Alerting(m) /\ tasks[p][m].stage = "alerting"
    BY <1>5 DEF Return, InStage, Alerting
  <2>2. tasks[p][m] \in Alerter
    <3>1. PICK S \in SUBSET Miners : tasks[p] \in [S -> Task]
      BY <2>1 DEF IsPoll, Ongoing
    <3> QED
      BY <2>1, <3>1, AlerterTyped DEF Ongoing
  <2>3. Alerting(m) \ {p} # {} \/ Tracks(m, tasks[p][m])
    BY <2>1 DEF Sound
  <2>4. Fitting(tasks[p][m])
    BY <2>1 DEF Sound
  <2> QED
    BY <1>5, <2>1, <2>2, <2>3, <2>4, ProceedSound DEF Return
<1>6. ASSUME NEW m \in Miners, NEW c \in Entries, Reconfigure(m, c) PROVE \A n \in Miners : Sound(n)'
  <2>1. CASE c # "gone"
    BY <1>1, <1>6, <2>1 DEF Reconfigure, history
  <2>2. CASE c = "gone"
    <3>1. tasks' = tasks /\ \A n \in Miners : Alerting(n)' = Alerting(n)
      BY <1>6 DEF Reconfigure, Alerting, InStage, Ongoing
    <3>2. /\ previous'[m] = NoMemory /\ told'[m] = {}
          /\ Alerting(m) # {} => excused'[m] = Channels
          /\ \A n \in Miners : n # m =>
               previous'[n] = previous[n] /\ told'[n] = told[n] /\ excused'[n] = excused[n]
      BY <1>6, <2>2 DEF Reconfigure
    <3>3. \A n \in Miners : n # m => Sound(n)'
      BY <3>1, <3>2, SoundKept
    <3>4. Remembers(m)'
      BY <3>2 DEF Remembers, Recalled, Known
    <3>5. ASSUME NEW p \in Pollers, Alerting(m)' = {p} PROVE Tracks(m, tasks[p][m])'
      BY <3>1, <3>2, <3>5 DEF Tracks, Channels
    <3>6. \A p \in Alerting(m)' : Fitting(tasks'[p][m])
      BY <3>1 DEF Sound
    <3>7. Sound(m)'
      BY <3>2, <3>4, <3>5, <3>6 DEF Sound
    <3> QED
      BY <3>3, <3>7
  <2> QED
    BY <2>1, <2>2
<1>7. ASSUME NEW m \in Miners, Change(m) PROVE \A n \in Miners : Sound(n)'
  BY <1>1, <1>7 DEF Change, memoryVars, history
<1>8. ASSUME NEW t \in Timers, TimerEnds(t) PROVE \A n \in Miners : Sound(n)'
  BY <1>1, <1>8 DEF TimerEnds, history
<1>9. CASE UNCHANGED vars
  BY <1>1, <1>9 DEF vars, memoryVars, history
<1>10. CASE Next
  BY <1>2, <1>3, <1>4, <1>5, <1>6, <1>7, <1>8, <1>10 DEF Next, Poll
<1> QED
  BY <1>9, <1>10

\* For any miners, pollers and readings: between evaluations the engine remembers what it told, or
\* it is excused.
THEOREM NewsRememberedHolds == Spec => []NewsRemembered
<1> DEFINE AllSound == \A m \in Miners : Sound(m)
<1>1. AllSound => NewsRemembered
  BY DEF Sound, Remembers, NewsRemembered
<1>2. Init => AllSound
  BY InitSound
<1>3. Typed /\ AllSound /\ [Next]_vars => AllSound'
  BY StepSound
<1> HIDE DEF AllSound
<1> QED
  BY <1>1, <1>2, <1>3, InitJudged, StepJudged, InitTyped, StepTyped, PTL DEF Spec
=============================================================================
