--------------------------- MODULE SoloJobsProofs ---------------------------
(***************************************************************************)
(* What holds of SoloJobs for every set of sessions and addresses, every   *)
(* history length and every chain of tips: its types, the coverage of the  *)
(* retained jobs by the coinbases of the connected addresses, the counts   *)
(* of those addresses, and what a miner is sent.                           *)
(***************************************************************************)
EXTENDS SoloJobs, FiniteSetTheorems, TLAPS

-----------------------------------------------------------------------------
(* Types.  TypeOK is not inductive: what a step uses depends on the step    *)
(* the goroutine has reached.                                               *)

HeldData ==
  /\ \A r \in Refreshers : rpc[r] = "fetched" => rtip[r] \in Tips
  /\ \A r \in Refreshers : rpc[r] \in {"lock", "write"} => rsend[r] \in Sessions \X Notify
  /\ \A s \in Sessions : spc[s] \in {"fill", "assign"} => want[s] \in Addresses

TypeInv == TypeOK /\ HeldData

ConstAssumptions ==
  /\ Unbuildable \subseteq Addresses
  /\ HasFallback \in BOOLEAN
  /\ MaxJobHistory \in Nat \ {0}
  /\ Tips \subseteq Nat \ {0}

\* The constants as the module's assumptions give them.
LEMMA ConstTypes == ConstAssumptions
BY AddressesAssumption, FallbackAssumption, HistoryAssumption, TipsAssumption DEF ConstAssumptions

\* A history holds nothing but one new job and jobs of the earlier history.
OneMore(longer, history, job) ==
  \A i \in 1..Len(longer) : longer[i] = job \/ \E k \in 1..Len(history) : longer[i] = history[k]

\* A history that takes one more job and is pruned keeps to its bound, and holds only
\* that job and jobs it held before.
LEMMA PruneAppend ==
  ASSUME NEW history \in Seq(Job), Len(history) <= MaxJobHistory, NEW job \in Job,
         NEW pruned, pruned = Prune(Append(history, job))
  PROVE  /\ pruned \in Seq(Job)
         /\ Len(pruned) \in 1..MaxJobHistory
         /\ OneMore(pruned, history, job)
<1> DEFINE longer == Append(history, job)
<1>1. /\ longer \in Seq(Job)
      /\ Len(longer) = Len(history) + 1
      /\ \A i \in 1..Len(longer) : longer[i] = IF i = Len(history) + 1 THEN job ELSE history[i]
  OBVIOUS
<1>2. CASE Len(longer) > MaxJobHistory
  <2>1. pruned = Tail(longer)
    BY <1>2 DEF Prune
  <2>2. /\ Tail(longer) \in Seq(Job)
        /\ Len(Tail(longer)) = Len(longer) - 1
        /\ \A i \in 1..Len(Tail(longer)) : Tail(longer)[i] = longer[i + 1]
    BY <1>1
  <2> HIDE DEF longer
  <2> QED
    BY <1>1, <1>2, <2>1, <2>2, ConstTypes DEF ConstAssumptions, OneMore
<1>3. CASE ~(Len(longer) > MaxJobHistory)
  <2>1. pruned = longer
    BY <1>3 DEF Prune
  <2> HIDE DEF longer
  <2> QED
    BY <1>1, <1>3, <2>1, ConstTypes DEF ConstAssumptions, OneMore
<1> QED
  BY <1>2, <1>3

\* What FillJobs does to each retained job.
LEMMA FillJobsEffect ==
  ASSUME NEW a \in Addresses, jobs \in Seq(Job), FillJobs(a)
  PROVE  /\ jobs' \in Seq(Job)
         /\ Len(jobs') = Len(jobs)
         /\ \A i \in 1..Len(jobs) : jobs'[i] = FillJob(jobs[i], a)
<1>1. \A job \in Job : FillJob(job, a) \in Job
  BY DEF FillJob, Job
<1> QED
  BY <1>1 DEF FillJobs

\* UnregisterAddress takes one off its address's count, never below zero.
LEMMA UnregisterEffect ==
  ASSUME connectedAddrs \in [Addresses -> Nat], NEW a, UnregisterAddress(a)
  PROVE  /\ connectedAddrs' \in [Addresses -> Nat]
         /\ \A b \in Addresses :
              connectedAddrs'[b] = IF b # a THEN connectedAddrs[b]
                                   ELSE IF connectedAddrs[b] <= 1 THEN 0 ELSE connectedAddrs[b] - 1
<1> DEFINE less(n) == IF n <= 1 THEN 0 ELSE n - 1
<1>1. connectedAddrs' = [connectedAddrs EXCEPT ![a] = less(connectedAddrs[a])]
  BY DEF UnregisterAddress
<1>2. \A n \in Nat : less(n) \in Nat
  OBVIOUS
<1>3. \A b \in Addresses : connectedAddrs'[b] = IF b # a THEN connectedAddrs[b] ELSE less(connectedAddrs[b])
  <2> HIDE DEF less
  <2> QED
    BY <1>1
<1>4. connectedAddrs' \in [Addresses -> Nat]
  <2> HIDE DEF less
  <2>1. DOMAIN connectedAddrs' = Addresses /\ connectedAddrs' = [b \in Addresses |-> connectedAddrs'[b]]
    BY <1>1
  <2>2. \A b \in Addresses : connectedAddrs'[b] \in Nat
    BY <1>2, <1>3
  <2> QED
    BY <2>1, <2>2
<1> QED
  BY <1>3, <1>4

\* A job that can be served to an address makes a notification.
LEMMA NotifyType ==
  ASSUME JobManagerTypeOK, NEW i, NEW a \in Addresses \cup {NoAddress}, Serves(i, a)
  PROVE  NotifyOf(jobs[i], a) \in Notify
<1>1. jobs[i] \in Job /\ a \in jobs[i].coinb2s
  <2>1. jobs \in Seq(Job) /\ i \in DOMAIN jobs /\ a \in jobs[i].coinb2s
    BY DEF JobManagerTypeOK, Serves
  <2> QED
    BY <2>1
<1> DEFINE job == jobs[i]
<1>2. job \in Job /\ a \in job.coinb2s
  BY <1>1
<1> HIDE DEF job
<1>3. job.tip \in Tips /\ job.clean \in BOOLEAN /\ job.coinb1 \in BOOLEAN /\ a \in Addresses
  BY <1>2 DEF Job
<1>4. NotifyOf(job, a) \in Notify
  BY <1>3 DEF NotifyOf, Notify
<1> QED
  BY <1>4 DEF job

LEMMA TypeInvInit == Init => TypeInv
BY ConstTypes DEF Init, TypeInv, TypeOK, HeldData, JobManagerInit, JobManagerTypeOK, ConstAssumptions,
     RefreshSteps, HandlerSteps, States, Job

\* Each step of Install keeps the job manager's types, and shifts the other
\* broadcast's position only when it stays one.
LEMMA InstallType ==
  ASSUME TypeInv, NEW r \in Refreshers, Install(r)
  PROVE  TypeInv'
<1>1. PICK coinb1 \in Coinb1Outcomes : jobs' = Prune(Append(jobs, NewJob(rtip[r], coinb1)))
  BY DEF Install, InstallTemplate
<1>2. NewJob(rtip[r], coinb1) \in Job
  <2>1. coinb1 \in BOOLEAN
    BY ConstTypes DEF Coinb1Outcomes, ConstAssumptions
  <2>2. rtip[r] \in Tips
    BY DEF Install, TypeInv, HeldData
  <2> QED
    BY <2>1, <2>2 DEF NewJob, Job, Connected
<1>3. /\ jobs' \in Seq(Job)
      /\ Len(jobs') \in 1..MaxJobHistory
  <2>1. jobs \in Seq(Job) /\ Len(jobs) <= MaxJobHistory
    BY DEF TypeInv, TypeOK, JobManagerTypeOK
  <2> QED
    BY <1>1, <1>2, <2>1, PruneAppend
<1>4. JobManagerTypeOK'
  <2>1. currentTip' \in Tips /\ connectedAddrs' = connectedAddrs
    BY DEF Install, InstallTemplate, TypeInv, HeldData
  <2>2. Len(jobs') <= MaxJobHistory
    BY <1>3, ConstTypes DEF ConstAssumptions
  <2> QED
    BY <1>3, <2>1, <2>2 DEF JobManagerTypeOK, TypeInv, TypeOK
<1>5. rjob' \in [Refreshers -> 0..MaxJobHistory]
  <2>1. rjob \in [Refreshers -> 0..MaxJobHistory] /\ MaxJobHistory \in Nat
    BY ConstTypes DEF TypeInv, TypeOK, ConstAssumptions
  <2> QED
    BY <1>3, <2>1 DEF Install
<1>6. rpc' \in [Refreshers -> RefreshSteps] /\ \A q \in Refreshers : q # r => rpc'[q] = rpc[q]
  BY DEF Install, TypeInv, TypeOK, RefreshSteps
<1>7. rpc'[r] = "installed"
  BY DEF Install, TypeInv, TypeOK
<1> QED
  BY <1>4, <1>5, <1>6, <1>7 DEF Install, TypeInv, TypeOK, HeldData, sessionVars

LEMMA TypeInvStep == TypeInv /\ [Next]_vars => TypeInv'
<1> SUFFICES ASSUME TypeInv, [Next]_vars PROVE TypeInv'
  OBVIOUS
<1> USE DEF TypeInv, TypeOK, HeldData
<1>1. CASE NewBlock
  BY <1>1 DEF NewBlock, jmVars, sessionVars, JobManagerTypeOK
<1>2. CASE ZmqFails
  BY <1>2 DEF ZmqFails, jmVars, sessionVars, JobManagerTypeOK
<1>3. ASSUME NEW r \in Refreshers, Fetch(r) PROVE TypeInv'
  BY <1>3 DEF Fetch, jmVars, sessionVars, JobManagerTypeOK, RefreshSteps
<1>4. ASSUME NEW r \in Refreshers, Install(r) PROVE TypeInv'
  BY <1>4, InstallType
<1>5. ASSUME NEW r \in Refreshers, SendJobLock(r) PROVE TypeInv'
  BY <1>5 DEF SendJobLock, jmVars, sessionVars, JobManagerTypeOK, RefreshSteps
<1>6. ASSUME NEW r \in Refreshers, StartBroadcast(r) PROVE TypeInv'
  BY <1>6 DEF StartBroadcast, jmVars, sessionVars, JobManagerTypeOK, RefreshSteps
<1>7. ASSUME NEW r \in Refreshers, NEW s \in Sessions, Customize(r, s) PROVE TypeInv'
  <2>1. /\ rtodo' \in [Refreshers -> SUBSET Sessions]
        /\ UNCHANGED <<jmVars, nodeTip, zmq, rtip, rjob, sessionVars>>
    BY <1>7 DEF Customize
  <2>2. CASE Served(r, s)
    <3>1. NotifyOf(jobs[rjob[r]], miningAddress[s]) \in Notify
      BY <2>2, NotifyType DEF Served
    <3>2. /\ rpc' = [rpc EXCEPT ![r] = "lock"]
          /\ rsend' = [rsend EXCEPT ![r] = <<s, NotifyOf(jobs[rjob[r]], miningAddress[s])>>]
      BY <1>7, <2>2 DEF Customize
    <3> QED
      BY <2>1, <3>1, <3>2 DEF jmVars, sessionVars, JobManagerTypeOK, RefreshSteps
  <2>3. CASE ~Served(r, s)
    BY <1>7, <2>1, <2>3 DEF Customize, jmVars, sessionVars, JobManagerTypeOK
  <2> QED
    BY <2>2, <2>3
<1>8. ASSUME NEW r \in Refreshers, SendJobWrite(r) PROVE TypeInv'
  <2>1. rsend[r] \in Sessions \X Notify
    BY <1>8 DEF SendJobWrite
  <2> QED
    BY <1>8, <2>1 DEF SendJobWrite, jmVars, JobManagerTypeOK, RefreshSteps
<1>9. ASSUME NEW r \in Refreshers, EndBroadcast(r) PROVE TypeInv'
  BY <1>9, ConstTypes DEF EndBroadcast, jmVars, sessionVars, JobManagerTypeOK, RefreshSteps, ConstAssumptions
<1>10. ASSUME NEW s \in Sessions, Connect(s) \/ Subscribe(s) \/ Remove(s) PROVE TypeInv'
  <2>1. CASE Connect(s)
    BY <2>1 DEF Connect, jmVars, refreshVars, JobManagerTypeOK, States
  <2>2. CASE Subscribe(s)
    BY <2>2 DEF Subscribe, jmVars, refreshVars, JobManagerTypeOK, States
  <2>3. CASE Remove(s)
    BY <2>3 DEF Remove, jmVars, refreshVars, JobManagerTypeOK, States, HandlerSteps
  <2> QED
    BY <1>10, <2>1, <2>2, <2>3
<1>11. ASSUME NEW s \in Sessions, Fill(s) PROVE TypeInv'
  <2>1. want[s] \in Addresses
    BY <1>11 DEF Fill
  <2>2. JobManagerTypeOK'
    BY <1>11, <2>1, FillJobsEffect DEF Fill, FillJobs, JobManagerTypeOK
  <2> QED
    BY <1>11, <2>2 DEF Fill, refreshVars, HandlerSteps
<1>12. ASSUME NEW s \in Sessions, Assign(s) PROVE TypeInv'
  BY <1>12 DEF Assign, jmVars, refreshVars, JobManagerTypeOK, States, HandlerSteps
<1>13. ASSUME NEW s \in Sessions, Reply(s) PROVE TypeInv'
  <2>1. Serves(Len(jobs), miningAddress[s]) => NotifyOf(jobs[Len(jobs)], miningAddress[s]) \in Notify
    BY NotifyType
  <2> QED
    BY <1>13, <2>1 DEF Reply, jmVars, refreshVars, JobManagerTypeOK, HandlerSteps
<1>14. ASSUME NEW s \in Sessions, Unregister(s) PROVE TypeInv'
  <2>1. connectedAddrs' \in [Addresses -> Nat]
    BY <1>14, UnregisterEffect DEF Unregister, JobManagerTypeOK
  <2> QED
    BY <1>14, <2>1 DEF Unregister, UnregisterAddress, refreshVars, JobManagerTypeOK, HandlerSteps
<1>15. ASSUME NEW s \in Sessions, NEW a \in Addresses, Authorize(s, a) PROVE TypeInv'
  BY <1>15 DEF Authorize, CountAddress, refreshVars, JobManagerTypeOK, HandlerSteps
<1>16. CASE UNCHANGED vars
  BY <1>16 DEF vars, jmVars, refreshVars, sessionVars, JobManagerTypeOK
<1> QED
  BY <1>1, <1>2, <1>3, <1>4, <1>5, <1>6, <1>7, <1>8, <1>9, <1>10, <1>11, <1>12, <1>13, <1>14, <1>15, <1>16
     DEF Next, BroadcastStep, HandlerStep

\* Every reachable state is typed: the history never outgrows MaxJobHistory, a
\* broadcast never holds a position outside it, and what a miner is sent is a job.
THEOREM TypeCorrect == Spec => []TypeOK
<1>1. TypeInv => TypeOK
  BY DEF TypeInv
<1> QED
  BY <1>1, TypeInvInit, TypeInvStep, PTL DEF Spec

-----------------------------------------------------------------------------
(* Coverage of the retained jobs.  Given the types, Coinb2Coverage is        *)
(* inductive: an address enters Connected with its first session at "fill", *)
(* and every job enters the history with all of Connected.                   *)

\* A step that leaves the jobs alone, connects no address and takes no session
\* away from "fill".
LEMMA CoverageKept ==
  ASSUME Coinb2Coverage, jobs' = jobs, Connected' \subseteq Connected,
         \A s \in Sessions : spc[s] = "fill" => spc'[s] = "fill" /\ want'[s] = want[s]
  PROVE  Coinb2Coverage'
<1> SUFFICES ASSUME NEW a \in Connected' \ Unbuildable
             PROVE  Filling(a)' \/ \A i \in 1..Len(jobs) : a \in jobs[i].coinb2s
  BY DEF Coinb2Coverage
<1>1. Filling(a) \/ \A i \in 1..Len(jobs) : a \in jobs[i].coinb2s
  BY DEF Coinb2Coverage
<1> QED
  BY <1>1 DEF Filling

LEMMA CoverageInstall ==
  ASSUME TypeInv, Coinb2Coverage, NEW r \in Refreshers, Install(r)
  PROVE  Coinb2Coverage'
<1>1. PICK coinb1 \in Coinb1Outcomes : jobs' = Prune(Append(jobs, NewJob(rtip[r], coinb1)))
  BY DEF Install, InstallTemplate
<1> DEFINE job == NewJob(rtip[r], coinb1)
<1>2. job \in Job /\ job.coinb2s = Connected \ Unbuildable
  <2>1. coinb1 \in BOOLEAN
    BY ConstTypes DEF Coinb1Outcomes, ConstAssumptions
  <2>2. rtip[r] \in Tips
    BY DEF Install, TypeInv, HeldData
  <2> QED
    BY <2>1, <2>2 DEF NewJob, Job, Connected
<1> HIDE DEF job
<1>3. OneMore(jobs', jobs, job)
  <2>1. jobs \in Seq(Job) /\ Len(jobs) <= MaxJobHistory /\ jobs' = Prune(Append(jobs, job))
    BY <1>1 DEF TypeInv, TypeOK, JobManagerTypeOK, job
  <2> QED
    BY <1>2, <2>1, PruneAppend
<1>4. UNCHANGED <<connectedAddrs, spc, want>>
  BY DEF Install, InstallTemplate, sessionVars
<1>5. Connected' = Connected
  BY <1>4 DEF Connected
<1> SUFFICES ASSUME NEW a \in Connected \ Unbuildable
             PROVE  Filling(a)' \/ \A i \in 1..Len(jobs') : a \in jobs'[i].coinb2s
  BY <1>5 DEF Coinb2Coverage
<1>6. Filling(a) \/ \A i \in 1..Len(jobs) : a \in jobs[i].coinb2s
  BY DEF Coinb2Coverage
<1>7. Filling(a)' = Filling(a)
  BY <1>4 DEF Filling
<1> QED
  BY <1>2, <1>3, <1>6, <1>7 DEF OneMore

LEMMA CoverageFill ==
  ASSUME TypeInv, Coinb2Coverage, NEW s \in Sessions, Fill(s)
  PROVE  Coinb2Coverage'
<1>1. want[s] \in Addresses /\ jobs \in Seq(Job)
  BY DEF Fill, TypeInv, TypeOK, HeldData, JobManagerTypeOK
<1>2. /\ Len(jobs') = Len(jobs)
      /\ \A i \in 1..Len(jobs) : jobs'[i] = FillJob(jobs[i], want[s])
  BY <1>1, FillJobsEffect DEF Fill
<1>3. \A i \in 1..Len(jobs) :
        /\ jobs[i].coinb2s \subseteq jobs'[i].coinb2s
        /\ want[s] \notin Unbuildable => want[s] \in jobs'[i].coinb2s
  <2> SUFFICES ASSUME NEW job \in Job
               PROVE  /\ job.coinb2s \subseteq FillJob(job, want[s]).coinb2s
                      /\ want[s] \notin Unbuildable => want[s] \in FillJob(job, want[s]).coinb2s
    BY <1>1, <1>2
  <2> QED
    BY DEF FillJob, Job
<1>4. /\ UNCHANGED <<connectedAddrs, want>>
      /\ \A q \in Sessions : q # s => spc'[q] = spc[q]
  BY DEF Fill, FillJobs, TypeInv, TypeOK
<1>5. Connected' = Connected
  BY <1>4 DEF Connected
<1> SUFFICES ASSUME NEW a \in Connected \ Unbuildable
             PROVE  Filling(a)' \/ \A i \in 1..Len(jobs') : a \in jobs'[i].coinb2s
  BY <1>5 DEF Coinb2Coverage
<1>6. CASE a = want[s]
  BY <1>2, <1>3, <1>6
<1>7. CASE a # want[s]
  <2>1. Filling(a) => Filling(a)'
    BY <1>4, <1>7 DEF Filling
  <2>2. Filling(a) \/ \A i \in 1..Len(jobs) : a \in jobs[i].coinb2s
    BY DEF Coinb2Coverage
  <2> QED
    BY <1>2, <1>3, <2>1, <2>2
<1> QED
  BY <1>6, <1>7

LEMMA CoverageAuthorize ==
  ASSUME TypeInv, Coinb2Coverage, NEW s \in Sessions, NEW a \in Addresses, Authorize(s, a)
  PROVE  Coinb2Coverage'
<1>1. /\ jobs' = jobs
      /\ spc[s] = "idle"
      /\ spc' = [spc EXCEPT ![s] = IF IsNew(a) THEN "fill" ELSE "assign"]
      /\ want' = [want EXCEPT ![s] = a]
      /\ connectedAddrs' = [connectedAddrs EXCEPT ![a] = @ + 1]
  BY DEF Authorize, CountAddress
<1>2. /\ spc \in [Sessions -> HandlerSteps]
      /\ want \in [Sessions -> Addresses \cup {NoAddress}]
      /\ connectedAddrs \in [Addresses -> Nat]
  BY DEF TypeInv, TypeOK, JobManagerTypeOK
<1>3. \A b : Filling(b) => Filling(b)'
  BY <1>1, <1>2 DEF Filling
<1>4. \A b \in Connected' : b \in Connected \/ b = a
  BY <1>1, <1>2 DEF Connected
<1>5. a \in Connected \/ Filling(a)'
  BY <1>1, <1>2 DEF Connected, Filling, IsNew
<1> QED
  BY <1>1, <1>3, <1>4, <1>5 DEF Coinb2Coverage

LEMMA CoverageStep == TypeInv /\ Coinb2Coverage /\ [Next]_vars => Coinb2Coverage'
<1> SUFFICES ASSUME TypeInv, Coinb2Coverage, [Next]_vars PROVE Coinb2Coverage'
  OBVIOUS
<1> USE DEF TypeInv, TypeOK
<1>1. CASE UNCHANGED <<jobs, connectedAddrs, spc, want>>
  BY <1>1, CoverageKept DEF Connected
<1>2. ASSUME NEW r \in Refreshers, Install(r) PROVE Coinb2Coverage'
  BY <1>2, CoverageInstall
<1>3. ASSUME NEW s \in Sessions, Fill(s) PROVE Coinb2Coverage'
  BY <1>3, CoverageFill
<1>4. ASSUME NEW s \in Sessions, NEW a \in Addresses, Authorize(s, a) PROVE Coinb2Coverage'
  BY <1>4, CoverageAuthorize
<1>5. ASSUME NEW s \in Sessions, Assign(s) \/ Reply(s) \/ Remove(s) PROVE Coinb2Coverage'
  <2>1. UNCHANGED <<jobs, connectedAddrs>>
    BY <1>5 DEF Assign, Reply, Remove, jmVars
  <2>2. Connected' = Connected
    BY <2>1 DEF Connected
  <2>3. \A q \in Sessions : spc[q] = "fill" => spc'[q] = "fill" /\ want'[q] = want[q]
    BY <1>5 DEF Assign, Reply, Remove
  <2> QED
    BY <2>1, <2>2, <2>3, CoverageKept
<1>6. ASSUME NEW s \in Sessions, Unregister(s) PROVE Coinb2Coverage'
  <2>1. connectedAddrs \in [Addresses -> Nat]
    BY DEF JobManagerTypeOK
  <2>2. Connected' \subseteq Connected
    BY <1>6, <2>1, UnregisterEffect DEF Unregister, Connected
  <2>3. /\ jobs' = jobs
        /\ \A q \in Sessions : spc[q] = "fill" => spc'[q] = "fill" /\ want'[q] = want[q]
    BY <1>6 DEF Unregister, UnregisterAddress
  <2> QED
    BY <2>2, <2>3, CoverageKept
<1>7. CASE NewBlock \/ ZmqFails \/ UNCHANGED vars
  BY <1>1, <1>7 DEF NewBlock, ZmqFails, vars, jmVars, sessionVars
<1>8. ASSUME NEW r \in Refreshers, Fetch(r) \/ SendJobLock(r) \/ BroadcastStep(r) PROVE Coinb2Coverage'
  BY <1>1, <1>8 DEF Fetch, SendJobLock, BroadcastStep, StartBroadcast, Customize, SendJobWrite, EndBroadcast,
                    jmVars, sessionVars
<1>9. ASSUME NEW s \in Sessions, Connect(s) \/ Subscribe(s) PROVE Coinb2Coverage'
  BY <1>1, <1>9 DEF Connect, Subscribe, jmVars
<1> QED
  BY <1>2, <1>3, <1>4, <1>5, <1>6, <1>7, <1>8, <1>9 DEF Next, HandlerStep

LEMMA CoverageInit == Init => Coinb2Coverage
<1>1. Init => Connected = {}
  BY DEF Init, JobManagerInit, Connected
<1> QED
  BY <1>1 DEF Coinb2Coverage

\* Every retained job holds a coinbase for every counted address whose first session
\* has finished registering it: RegisterAddress and refreshTemplate leave no gap.
THEOREM CoverageHolds == Spec => []Coinb2Coverage
BY TypeInvInit, TypeInvStep, CoverageInit, CoverageStep, PTL DEF Spec

-----------------------------------------------------------------------------
(* The address counts.  AuthorizedCovered needs that the count of an address *)
(* is at least the number of sessions that still refer to it: the sessions   *)
(* that hold it and those that are claiming it in handleAuthorize.           *)

Claiming(s, a) == spc[s] \in {"fill", "assign"} /\ want[s] = a

Refs(a) == {p \in Sessions \X {"held", "claimed"} :
              IF p[2] = "held" THEN miningAddress[p[1]] = a ELSE Claiming(p[1], a)}

CountInv == \A a \in Addresses : Cardinality(Refs(a)) <= connectedAddrs[a]

LEMMA RefsFinite == ASSUME NEW a PROVE IsFiniteSet(Refs(a)) /\ IsFiniteSet(Refs(a)')
<1> DEFINE all == Sessions \X {"held", "claimed"}
<1>1. IsFiniteSet({"held", "claimed"})
  <2>1. IsFiniteSet({"held"} \cup {"claimed"})
    BY FS_Singleton, FS_AddElement
  <2>2. {"held", "claimed"} = {"held"} \cup {"claimed"}
    OBVIOUS
  <2> QED
    BY <2>1, <2>2
<1>2. IsFiniteSet(all)
  BY <1>1, SessionsAssumption, FS_Product
<1>3. Refs(a) \in SUBSET all /\ Refs(a)' \in SUBSET all
  BY DEF Refs
<1> QED
  BY <1>2, <1>3, FS_Subset

\* One more reference raises the cardinality by one at most, one fewer lowers it,
\* and one exchanged for another leaves it.
LEMMA CardBounds ==
  ASSUME NEW S, IsFiniteSet(S), NEW T, NEW x, NEW y
  PROVE  /\ T \subseteq S => Cardinality(T) <= Cardinality(S)
         /\ T \subseteq S \cup {x} => Cardinality(T) <= Cardinality(S) + 1
         /\ y \in S /\ T \subseteq S \ {y} => Cardinality(T) <= Cardinality(S) - 1
         /\ y \in S /\ T \subseteq (S \ {y}) \cup {x} => Cardinality(T) <= Cardinality(S)
<1>1. Cardinality(S) \in Nat
  BY FS_CardinalityType
<1>2. \A R : IsFiniteSet(R) => /\ IsFiniteSet(R \cup {x})
                              /\ Cardinality(R \cup {x}) \in Nat
                              /\ Cardinality(R \cup {x}) <= Cardinality(R) + 1
  <2> SUFFICES ASSUME NEW R, IsFiniteSet(R)
               PROVE  /\ IsFiniteSet(R \cup {x})
                      /\ Cardinality(R \cup {x}) \in Nat
                      /\ Cardinality(R \cup {x}) <= Cardinality(R) + 1
    OBVIOUS
  <2>1. Cardinality(R) \in Nat
    BY FS_CardinalityType
  <2>2. /\ IsFiniteSet(R \cup {x})
        /\ Cardinality(R \cup {x}) = IF x \in R THEN Cardinality(R) ELSE Cardinality(R) + 1
    BY FS_AddElement
  <2> QED
    BY <2>1, <2>2
<1>3. /\ IsFiniteSet(S \ {y})
      /\ y \in S => Cardinality(S \ {y}) = Cardinality(S) - 1
      /\ Cardinality(S \ {y}) \in Nat
  BY FS_RemoveElement, FS_CardinalityType
<1>6. \A R : IsFiniteSet(R) /\ T \subseteq R => Cardinality(T) \in Nat /\ Cardinality(T) <= Cardinality(R)
  <2> SUFFICES ASSUME NEW R, IsFiniteSet(R), T \subseteq R
               PROVE  Cardinality(T) \in Nat /\ Cardinality(T) <= Cardinality(R)
    OBVIOUS
  <2>1. IsFiniteSet(T) /\ Cardinality(T) <= Cardinality(R)
    BY FS_Subset
  <2> QED
    BY <2>1, FS_CardinalityType
<1>7. T \subseteq S => Cardinality(T) <= Cardinality(S)
  BY <1>6
<1>8. T \subseteq S \cup {x} => Cardinality(T) <= Cardinality(S) + 1
  <2> SUFFICES ASSUME T \subseteq S \cup {x} PROVE Cardinality(T) <= Cardinality(S) + 1
    OBVIOUS
  <2>1. /\ IsFiniteSet(S \cup {x})
        /\ Cardinality(S \cup {x}) \in Nat
        /\ Cardinality(S \cup {x}) <= Cardinality(S) + 1
    BY <1>2
  <2>2. Cardinality(T) \in Nat /\ Cardinality(T) <= Cardinality(S \cup {x})
    BY <1>6, <2>1
  <2> QED
    BY <1>1, <2>1, <2>2
<1>9. y \in S /\ T \subseteq S \ {y} => Cardinality(T) <= Cardinality(S) - 1
  BY <1>1, <1>3, <1>6
<1>10. y \in S /\ T \subseteq (S \ {y}) \cup {x} => Cardinality(T) <= Cardinality(S)
  <2> SUFFICES ASSUME y \in S, T \subseteq (S \ {y}) \cup {x} PROVE Cardinality(T) <= Cardinality(S)
    OBVIOUS
  <2>1. /\ IsFiniteSet((S \ {y}) \cup {x})
        /\ Cardinality((S \ {y}) \cup {x}) \in Nat
        /\ Cardinality((S \ {y}) \cup {x}) <= Cardinality(S \ {y}) + 1
    BY <1>2, <1>3
  <2>2. Cardinality(T) \in Nat /\ Cardinality(T) <= Cardinality((S \ {y}) \cup {x})
    BY <1>6, <2>1
  <2> QED
    BY <1>1, <1>3, <2>1, <2>2
<1> QED
  BY <1>7, <1>8, <1>9, <1>10

\* A step that uncounts nothing and makes no new reference.
LEMMA CountKept ==
  ASSUME TypeInv, CountInv, connectedAddrs' = connectedAddrs,
         \A a \in Addresses : Refs(a)' \subseteq Refs(a)
  PROVE  CountInv'
<1> SUFFICES ASSUME NEW a \in Addresses PROVE Cardinality(Refs(a)') <= connectedAddrs[a]
  BY DEF CountInv
<1>1. connectedAddrs[a] \in Nat /\ Cardinality(Refs(a)) \in Nat /\ Cardinality(Refs(a)') \in Nat
  BY RefsFinite, FS_CardinalityType DEF TypeInv, TypeOK, JobManagerTypeOK
<1>2. Cardinality(Refs(a)') <= Cardinality(Refs(a))
  BY RefsFinite, CardBounds
<1> QED
  BY <1>1, <1>2 DEF CountInv

LEMMA CountAuthorize ==
  ASSUME TypeInv, CountInv, NEW s \in Sessions, NEW a \in Addresses, Authorize(s, a)
  PROVE  CountInv'
<1> SUFFICES ASSUME NEW b \in Addresses PROVE Cardinality(Refs(b)') <= connectedAddrs'[b]
  BY DEF CountInv
<1>1. /\ connectedAddrs \in [Addresses -> Nat]
      /\ Cardinality(Refs(b)) \in Nat /\ Cardinality(Refs(b)') \in Nat
      /\ Cardinality(Refs(b)) <= connectedAddrs[b]
  BY RefsFinite, FS_CardinalityType DEF TypeInv, TypeOK, JobManagerTypeOK, CountInv
<1>2. /\ connectedAddrs' = [connectedAddrs EXCEPT ![a] = connectedAddrs[a] + 1]
      /\ miningAddress' = miningAddress
      /\ \A q \in Sessions : q # s => spc'[q] = spc[q] /\ want'[q] = want[q]
      /\ want'[s] = a
  BY DEF Authorize, CountAddress, TypeInv, TypeOK
<1>3. CASE b = a
  <2>1. Refs(b)' \subseteq Refs(b) \cup {<<s, "claimed">>}
    BY <1>2 DEF Refs, Claiming
  <2>2. Cardinality(Refs(b)') <= Cardinality(Refs(b)) + 1
    BY <2>1, RefsFinite, CardBounds
  <2> QED
    BY <1>1, <1>2, <1>3, <2>2
<1>4. CASE b # a
  <2>1. Refs(b)' \subseteq Refs(b)
    BY <1>2, <1>4 DEF Refs, Claiming
  <2>2. Cardinality(Refs(b)') <= Cardinality(Refs(b))
    BY <2>1, RefsFinite, CardBounds
  <2> QED
    BY <1>1, <1>2, <1>4, <2>2
<1> QED
  BY <1>3, <1>4

LEMMA CountAssign ==
  ASSUME TypeInv, CountInv, NEW s \in Sessions, Assign(s)
  PROVE  CountInv'
<1> SUFFICES ASSUME NEW b \in Addresses PROVE Cardinality(Refs(b)') <= connectedAddrs'[b]
  BY DEF CountInv
<1>1. /\ connectedAddrs \in [Addresses -> Nat] /\ connectedAddrs' = connectedAddrs
      /\ Cardinality(Refs(b)) \in Nat /\ Cardinality(Refs(b)') \in Nat
      /\ Cardinality(Refs(b)) <= connectedAddrs[b]
  BY RefsFinite, FS_CardinalityType DEF TypeInv, TypeOK, JobManagerTypeOK, CountInv, Assign, jmVars
<1>2. /\ spc[s] = "assign" /\ spc'[s] = "reply" /\ miningAddress'[s] = want[s]
      /\ \A q \in Sessions : q # s => /\ spc'[q] = spc[q] /\ want'[q] = want[q]
                                      /\ miningAddress'[q] = miningAddress[q]
  BY DEF Assign, TypeInv, TypeOK
<1>3. CASE b = want[s]
  <2>1. <<s, "claimed">> \in Refs(b)
    BY <1>2, <1>3 DEF Refs, Claiming
  <2>2. Refs(b)' \subseteq (Refs(b) \ {<<s, "claimed">>}) \cup {<<s, "held">>}
    BY <1>2 DEF Refs, Claiming
  <2>3. Cardinality(Refs(b)') <= Cardinality(Refs(b))
    BY <2>1, <2>2, RefsFinite, CardBounds
  <2> QED
    BY <1>1, <2>3
<1>4. CASE b # want[s]
  <2>1. Refs(b)' \subseteq Refs(b)
    BY <1>2, <1>4 DEF Refs, Claiming
  <2>2. Cardinality(Refs(b)') <= Cardinality(Refs(b))
    BY <2>1, RefsFinite, CardBounds
  <2> QED
    BY <1>1, <2>2
<1> QED
  BY <1>3, <1>4

LEMMA CountUnregister ==
  ASSUME TypeInv, CountInv, NEW s \in Sessions, Unregister(s)
  PROVE  CountInv'
<1> SUFFICES ASSUME NEW b \in Addresses PROVE Cardinality(Refs(b)') <= connectedAddrs'[b]
  BY DEF CountInv
<1>1. /\ connectedAddrs \in [Addresses -> Nat]
      /\ Cardinality(Refs(b)) \in Nat /\ Cardinality(Refs(b)') \in Nat
      /\ Cardinality(Refs(b)) <= connectedAddrs[b]
  BY RefsFinite, FS_CardinalityType DEF TypeInv, TypeOK, JobManagerTypeOK, CountInv
<1>2. connectedAddrs'[b] = IF b # miningAddress[s] THEN connectedAddrs[b]
                           ELSE IF connectedAddrs[b] <= 1 THEN 0 ELSE connectedAddrs[b] - 1
  BY <1>1, UnregisterEffect DEF Unregister
<1>3. /\ want' = want /\ spc[s] = "removed" /\ spc'[s] = "idle" /\ miningAddress'[s] = NoAddress
      /\ \A q \in Sessions : q # s => spc'[q] = spc[q] /\ miningAddress'[q] = miningAddress[q]
  BY DEF Unregister, TypeInv, TypeOK
<1>4. b # NoAddress
  BY NoAddressAssumption
<1>5. CASE b = miningAddress[s]
  <2>1. <<s, "held">> \in Refs(b)
    BY <1>5 DEF Refs
  <2>2. Refs(b)' \subseteq Refs(b) \ {<<s, "held">>}
    BY <1>3, <1>4 DEF Refs, Claiming
  <2>3. Cardinality(Refs(b)') <= Cardinality(Refs(b)) - 1
    BY <2>1, <2>2, RefsFinite, CardBounds
  <2> QED
    BY <1>1, <1>2, <1>5, <2>3
<1>6. CASE b # miningAddress[s]
  <2>1. Refs(b)' \subseteq Refs(b)
    BY <1>3, <1>4 DEF Refs, Claiming
  <2>2. Cardinality(Refs(b)') <= Cardinality(Refs(b))
    BY <2>1, RefsFinite, CardBounds
  <2> QED
    BY <1>1, <1>2, <1>6, <2>2
<1> QED
  BY <1>5, <1>6

LEMMA CountStep == TypeInv /\ CountInv /\ [Next]_vars => CountInv'
<1> SUFFICES ASSUME TypeInv, CountInv, [Next]_vars PROVE CountInv'
  OBVIOUS
<1>1. CASE UNCHANGED <<connectedAddrs, miningAddress, spc, want>>
  <2>1. \A a \in Addresses : Refs(a)' \subseteq Refs(a)
    BY <1>1 DEF Refs, Claiming
  <2> QED
    BY <1>1, <2>1, CountKept
<1>2. ASSUME NEW s \in Sessions, Fill(s) \/ Reply(s) \/ Remove(s) PROVE CountInv'
  <2>1. UNCHANGED <<connectedAddrs, miningAddress, want>>
    BY <1>2 DEF Fill, FillJobs, Reply, Remove, jmVars
  <2>2. \A q \in Sessions : spc'[q] \in {"fill", "assign"} => spc[q] \in {"fill", "assign"}
    BY <1>2 DEF Fill, Reply, Remove, TypeInv, TypeOK
  <2>3. \A a \in Addresses : Refs(a)' \subseteq Refs(a)
    BY <2>1, <2>2 DEF Refs, Claiming
  <2> QED
    BY <2>1, <2>3, CountKept
<1>3. ASSUME NEW s \in Sessions, Assign(s) PROVE CountInv'
  BY <1>3, CountAssign
<1>4. ASSUME NEW s \in Sessions, Unregister(s) PROVE CountInv'
  BY <1>4, CountUnregister
<1>5. ASSUME NEW s \in Sessions, NEW a \in Addresses, Authorize(s, a) PROVE CountInv'
  BY <1>5, CountAuthorize
<1>6. CASE NewBlock \/ ZmqFails \/ UNCHANGED vars
  BY <1>1, <1>6 DEF NewBlock, ZmqFails, vars, jmVars, sessionVars
<1>7. ASSUME NEW r \in Refreshers, Fetch(r) \/ Install(r) \/ SendJobLock(r) \/ BroadcastStep(r) PROVE CountInv'
  BY <1>1, <1>7 DEF Fetch, Install, InstallTemplate, SendJobLock, BroadcastStep, StartBroadcast, Customize,
                    SendJobWrite, EndBroadcast, jmVars, sessionVars
<1>8. ASSUME NEW s \in Sessions, Connect(s) \/ Subscribe(s) PROVE CountInv'
  BY <1>1, <1>8 DEF Connect, Subscribe, jmVars
<1> QED
  BY <1>2, <1>3, <1>4, <1>5, <1>6, <1>7, <1>8 DEF Next, HandlerStep

LEMMA CountInit == Init => CountInv
<1> SUFFICES ASSUME Init, NEW a \in Addresses PROVE Cardinality(Refs(a)) <= connectedAddrs[a]
  BY DEF CountInv
<1>1. Refs(a) = {}
  BY NoAddressAssumption DEF Init, Refs, Claiming
<1>2. connectedAddrs[a] = 0
  BY DEF Init, JobManagerInit
<1> QED
  BY <1>1, <1>2, FS_EmptySet

LEMMA CountCovers == TypeInv /\ CountInv /\ Coinb2Coverage => AuthorizedCovered
<1> SUFFICES ASSUME TypeInv, CountInv, Coinb2Coverage, NEW s \in Sessions,
                    miningAddress[s] # NoAddress, miningAddress[s] \notin Unbuildable
             PROVE  /\ connectedAddrs[miningAddress[s]] > 0
                    /\ \/ Filling(miningAddress[s])
                       \/ \A i \in 1..Len(jobs) : miningAddress[s] \in jobs[i].coinb2s
  BY DEF AuthorizedCovered
<1> DEFINE a == miningAddress[s]
<1>1. a \in Addresses /\ connectedAddrs[a] \in Nat
  BY DEF TypeInv, TypeOK, JobManagerTypeOK
<1>2. <<s, "held">> \in Refs(a)
  BY DEF Refs
<1>3. Cardinality(Refs(a)) \in Nat /\ Cardinality(Refs(a)) # 0
  BY <1>2, RefsFinite, FS_CardinalityType, FS_EmptySet
<1>4. connectedAddrs[a] > 0
  BY <1>1, <1>3 DEF CountInv
<1>5. a \in Connected \ Unbuildable
  BY <1>1, <1>4 DEF Connected
<1> QED
  BY <1>4, <1>5 DEF Coinb2Coverage

\* A miner that is authorized keeps its address counted and its coinbase in every
\* retained job, however the sessions sharing the address come and go.
THEOREM AuthorizedCoveredHolds == Spec => []AuthorizedCovered
BY TypeInvInit, TypeInvStep, CoverageInit, CoverageStep, CountInit, CountStep, CountCovers, PTL DEF Spec

-----------------------------------------------------------------------------
(* What a miner is sent.  The notification in a broadcast's hands and the    *)
(* one delivered are copies of a job as it was: both need the jobs'          *)
(* invariant, and PaysOwnAddress needs that a session a broadcast is writing *)
(* to stays authorized.                                                      *)

Buildable == Unbuildable = {} \/ HasFallback

\* A job with any second coinbase half has the first one.
JobComplete(job) == job.coinb2s # {} => job.coinb1

CompleteInv ==
  Buildable =>
    /\ \A i \in 1..Len(jobs) : JobComplete(jobs[i])
    /\ \A r \in Refreshers : rpc[r] \in {"lock", "write"} => rsend[r][2].coinb1
    /\ \A s \in Sessions : delivered[s] # NoJob => delivered[s].coinb1

LEMMA CompleteInstall ==
  ASSUME TypeInv, CompleteInv, Buildable, NEW r \in Refreshers, Install(r)
  PROVE  \A i \in 1..Len(jobs') : JobComplete(jobs'[i])
<1>1. PICK coinb1 \in Coinb1Outcomes : jobs' = Prune(Append(jobs, NewJob(rtip[r], coinb1)))
  BY DEF Install, InstallTemplate
<1> DEFINE job == NewJob(rtip[r], coinb1)
<1>2. job \in Job
  <2>1. coinb1 \in BOOLEAN
    BY ConstTypes DEF Coinb1Outcomes, ConstAssumptions
  <2>2. rtip[r] \in Tips
    BY DEF Install, TypeInv, HeldData
  <2> QED
    BY <2>1, <2>2 DEF NewJob, Job, Connected
<1>3. JobComplete(job)
  <2>1. CASE Connected = {}
    BY <2>1 DEF NewJob, JobComplete
  <2>2. CASE Connected # {}
    <3>1. coinb1 = TRUE
      BY <2>2, ConstTypes DEF Coinb1Outcomes, Buildable, ConstAssumptions
    <3> QED
      BY <3>1 DEF NewJob, JobComplete
  <2> QED
    BY <2>1, <2>2
<1> HIDE DEF job
<1>4. OneMore(jobs', jobs, job)
  <2>1. jobs \in Seq(Job) /\ Len(jobs) <= MaxJobHistory /\ jobs' = Prune(Append(jobs, job))
    BY <1>1 DEF TypeInv, TypeOK, JobManagerTypeOK, job
  <2> QED
    BY <1>2, <2>1, PruneAppend
<1> QED
  BY <1>3, <1>4 DEF OneMore, CompleteInv

LEMMA CompleteStep == TypeInv /\ CompleteInv /\ [Next]_vars => CompleteInv'
<1> SUFFICES ASSUME TypeInv, CompleteInv, [Next]_vars, Buildable
             PROVE  /\ \A i \in 1..Len(jobs') : JobComplete(jobs'[i])
                    /\ \A r \in Refreshers : rpc'[r] \in {"lock", "write"} => rsend'[r][2].coinb1
                    /\ \A s \in Sessions : delivered'[s] # NoJob => delivered'[s].coinb1
  BY DEF CompleteInv, Buildable
<1> DEFINE goal == /\ \A i \in 1..Len(jobs') : JobComplete(jobs'[i])
                   /\ \A r \in Refreshers : rpc'[r] \in {"lock", "write"} => rsend'[r][2].coinb1
                   /\ \A s \in Sessions : delivered'[s] # NoJob => delivered'[s].coinb1
<1>0. /\ \A i \in 1..Len(jobs) : JobComplete(jobs[i])
      /\ \A r \in Refreshers : rpc[r] \in {"lock", "write"} => rsend[r][2].coinb1
      /\ \A s \in Sessions : delivered[s] # NoJob => delivered[s].coinb1
  BY DEF CompleteInv
<1>a. /\ rpc \in [Refreshers -> RefreshSteps] /\ delivered \in [Sessions -> {NoJob} \cup Notify]
      /\ rsend \in [Refreshers -> {NoJob} \cup (Sessions \X Notify)]
      /\ jobs \in Seq(Job)
  BY DEF TypeInv, TypeOK, JobManagerTypeOK
<1>1. CASE UNCHANGED <<jobs, rpc, rsend, delivered>>
  BY <1>0, <1>1
<1>2. ASSUME NEW r \in Refreshers, Install(r) PROVE goal
  <2>1. /\ rpc'[r] = "installed"
        /\ \A q \in Refreshers : q # r => rpc'[q] = rpc[q]
        /\ UNCHANGED <<rsend, delivered>>
    BY <1>2, <1>a DEF Install, sessionVars
  <2>2. \A i \in 1..Len(jobs') : JobComplete(jobs'[i])
    BY <1>2, CompleteInstall
  <2> QED
    BY <1>0, <2>1, <2>2
<1>3. ASSUME NEW r \in Refreshers, NEW s \in Sessions, Customize(r, s) PROVE goal
  <2>1. CASE ~Served(r, s)
    BY <1>1, <1>3, <2>1 DEF Customize, jmVars, sessionVars
  <2>2. CASE Served(r, s)
    <3>1. /\ \A q \in Refreshers : q # r => rpc'[q] = rpc[q] /\ rsend'[q] = rsend[q]
          /\ rsend'[r] = <<s, NotifyOf(jobs[rjob[r]], miningAddress[s])>>
          /\ UNCHANGED <<jobs, delivered>>
      BY <1>3, <1>a, <2>2 DEF Customize, jmVars, sessionVars
    <3>2. NotifyOf(jobs[rjob[r]], miningAddress[s]).coinb1
      <4>1. rjob[r] \in 1..Len(jobs) /\ jobs[rjob[r]].coinb2s # {}
        BY <1>a, <2>2 DEF Served, Serves
      <4>2. jobs[rjob[r]].coinb1
        BY <1>0, <4>1 DEF JobComplete
      <4> QED
        BY <4>2 DEF NotifyOf
    <3> QED
      BY <1>0, <3>1, <3>2
  <2> QED
    BY <2>1, <2>2
<1>4. ASSUME NEW r \in Refreshers, SendJobLock(r) PROVE goal
  BY <1>0, <1>4, <1>a DEF SendJobLock, jmVars, sessionVars
<1>5. ASSUME NEW r \in Refreshers, SendJobWrite(r) PROVE goal
  <2>1. rsend[r][2].coinb1
    BY <1>0, <1>5 DEF SendJobWrite
  <2> QED
    BY <1>0, <1>5, <1>a, <2>1 DEF SendJobWrite, jmVars
<1>6. ASSUME NEW r \in Refreshers, Fetch(r) \/ StartBroadcast(r) \/ EndBroadcast(r) PROVE goal
  BY <1>0, <1>6, <1>a DEF Fetch, StartBroadcast, EndBroadcast, jmVars, sessionVars
<1>7. ASSUME NEW s \in Sessions, Fill(s) PROVE goal
  <2>1. want[s] \in Addresses
    BY <1>7 DEF Fill, TypeInv, HeldData
  <2>2. /\ Len(jobs') = Len(jobs)
        /\ \A i \in 1..Len(jobs) : jobs'[i] = FillJob(jobs[i], want[s])
    BY <1>7, <1>a, <2>1, FillJobsEffect DEF Fill
  <2>3. \A job \in Job : JobComplete(job) => JobComplete(FillJob(job, want[s]))
    BY DEF JobComplete, FillJob, Job
  <2>4. \A i \in 1..Len(jobs') : JobComplete(jobs'[i])
    BY <1>0, <1>a, <2>2, <2>3
  <2> QED
    BY <1>0, <1>7, <2>4 DEF Fill, refreshVars
<1>8. ASSUME NEW s \in Sessions, Reply(s) PROVE goal
  <2>1. Serves(Len(jobs), miningAddress[s]) => NotifyOf(jobs[Len(jobs)], miningAddress[s]).coinb1
    <3> SUFFICES ASSUME Serves(Len(jobs), miningAddress[s])
                 PROVE  NotifyOf(jobs[Len(jobs)], miningAddress[s]).coinb1
      OBVIOUS
    <3>1. Len(jobs) \in 1..Len(jobs) /\ jobs[Len(jobs)].coinb2s # {}
      BY <1>a DEF Serves
    <3>2. jobs[Len(jobs)].coinb1
      BY <1>0, <3>1 DEF JobComplete
    <3> QED
      BY <3>2 DEF NotifyOf
  <2> QED
    BY <1>0, <1>8, <1>a, <2>1 DEF Reply, jmVars, refreshVars
<1>9. ASSUME NEW s \in Sessions, Connect(s) \/ Subscribe(s) \/ Remove(s) \/ Assign(s) \/ Unregister(s)
      PROVE  goal
  BY <1>0, <1>9, <1>a DEF Connect, Subscribe, Remove, Assign, Unregister, UnregisterAddress, jmVars, refreshVars
<1>10. ASSUME NEW s \in Sessions, NEW a \in Addresses, Authorize(s, a) PROVE goal
  BY <1>1, <1>10 DEF Authorize, CountAddress, refreshVars
<1>11. CASE NewBlock \/ ZmqFails \/ UNCHANGED vars
  BY <1>1, <1>11 DEF NewBlock, ZmqFails, vars, jmVars, refreshVars, sessionVars
<1> QED
  BY <1>2, <1>3, <1>4, <1>5, <1>6, <1>7, <1>8, <1>9, <1>10, <1>11 DEF Next, BroadcastStep, HandlerStep

LEMMA CompleteInit == Init => CompleteInv
BY DEF Init, JobManagerInit, CompleteInv

\* No miner is ever sent a job without its first coinbase half when every accepted
\* address can be built or a fallback address is configured.
THEOREM NotifiedCompleteHolds == Spec => []NotifiedComplete
<1>1. CompleteInv => NotifiedComplete
  BY DEF CompleteInv, NotifiedComplete, Buildable
<1> QED
  BY <1>1, TypeInvInit, TypeInvStep, CompleteInit, CompleteStep, PTL DEF Spec

\* A miner that authorizes once: its state tells where its handler is, and only an
\* authorized session has work, or work under way, and then for its own address.
PaysInv ==
  /\ \A s \in Sessions : delivered[s] # NoJob =>
        state[s] = "authorized" /\ delivered[s].addr = miningAddress[s]
  /\ \A r \in Refreshers : rpc[r] \in {"lock", "write"} =>
        /\ state[rsend[r][1]] = "authorized"
        /\ rsend[r][2].addr = miningAddress[rsend[r][1]]
  /\ \A s \in Sessions : spc[s] \in {"fill", "assign"} => state[s] = "subscribed"
  /\ \A s \in Sessions : spc[s] = "reply" => state[s] = "authorized"
  /\ \A s \in Sessions : spc[s] = "removed" => state[s] = "gone"

LEMMA PaysStep == TypeInv /\ PaysInv /\ ~Reauthorize /\ [Next]_vars => PaysInv'
<1> SUFFICES ASSUME TypeInv, PaysInv, ~Reauthorize, [Next]_vars PROVE PaysInv'
  OBVIOUS
<1> USE DEF PaysInv
<1>a. /\ rpc \in [Refreshers -> RefreshSteps] /\ delivered \in [Sessions -> {NoJob} \cup Notify]
      /\ rsend \in [Refreshers -> {NoJob} \cup (Sessions \X Notify)]
      /\ \A r \in Refreshers : rpc[r] \in {"lock", "write"} => rsend[r] \in Sessions \X Notify
      /\ state \in [Sessions -> States] /\ spc \in [Sessions -> HandlerSteps]
      /\ miningAddress \in [Sessions -> Addresses \cup {NoAddress}]
  BY DEF TypeInv, TypeOK, HeldData
<1>1. CASE UNCHANGED <<rpc, rsend, state, spc, miningAddress, delivered>>
  BY <1>1
<1>2. ASSUME NEW r \in Refreshers, Fetch(r) \/ Install(r) \/ StartBroadcast(r) \/ EndBroadcast(r) PROVE PaysInv'
  <2>1. /\ UNCHANGED <<state, spc, miningAddress, delivered, rsend>>
        /\ \A q \in Refreshers : rpc'[q] \in {"lock", "write"} => rpc[q] \in {"lock", "write"}
    BY <1>2, <1>a DEF Fetch, Install, StartBroadcast, EndBroadcast, sessionVars
  <2> QED
    BY <2>1
<1>3. ASSUME NEW r \in Refreshers, SendJobLock(r) PROVE PaysInv'
  BY <1>3, <1>a DEF SendJobLock, sessionVars
<1>4. ASSUME NEW r \in Refreshers, NEW s \in Sessions, Customize(r, s) PROVE PaysInv'
  <2>1. CASE ~Served(r, s)
    BY <1>1, <1>4, <2>1 DEF Customize, sessionVars
  <2>2. CASE Served(r, s)
    <3>1. /\ \A q \in Refreshers : q # r => rpc'[q] = rpc[q] /\ rsend'[q] = rsend[q]
          /\ rsend'[r] = <<s, NotifyOf(jobs[rjob[r]], miningAddress[s])>>
          /\ UNCHANGED <<state, spc, miningAddress, delivered>>
      BY <1>4, <1>a, <2>2 DEF Customize, sessionVars
    <3>2. /\ state[s] = "authorized"
          /\ NotifyOf(jobs[rjob[r]], miningAddress[s]).addr = miningAddress[s]
      BY <2>2 DEF Served, NotifyOf
    <3> QED
      BY <3>1, <3>2
  <2> QED
    BY <2>1, <2>2
<1>5. ASSUME NEW r \in Refreshers, SendJobWrite(r) PROVE PaysInv'
  <2> DEFINE x == rsend[r][1]
  <2>1. /\ x \in Sessions /\ state[x] = "authorized" /\ rsend[r][2].addr = miningAddress[x]
        /\ delivered'[x] = rsend[r][2] /\ \A s \in Sessions : s # x => delivered'[s] = delivered[s]
        /\ UNCHANGED <<state, spc, miningAddress>>
    BY <1>5, <1>a DEF SendJobWrite
  <2>2. \A q \in Refreshers : rpc'[q] \in {"lock", "write"} => rpc[q] \in {"lock", "write"} /\ rsend'[q] = rsend[q]
    BY <1>5, <1>a DEF SendJobWrite
  <2> HIDE DEF x
  <2> QED
    BY <1>a, <2>1, <2>2
<1>6. ASSUME NEW s \in Sessions, Connect(s) \/ Subscribe(s) PROVE PaysInv'
  <2>1. /\ state[s] # "authorized" /\ spc[s] = "idle"
        /\ delivered'[s] = delivered[s] \/ delivered'[s] = NoJob
        /\ \A q \in Sessions : q # s => state'[q] = state[q] /\ delivered'[q] = delivered[q]
        /\ UNCHANGED <<rpc, rsend, spc, miningAddress>>
    BY <1>6, <1>a DEF Connect, Subscribe, refreshVars
  <2>2. \A r \in Refreshers : rpc[r] \in {"lock", "write"} => rsend[r][1] # s /\ rsend[r][1] \in Sessions
    BY <1>a, <2>1
  <2>3. delivered'[s] = NoJob
    BY <2>1
  <2> QED
    BY <2>1, <2>2, <2>3
<1>7. ASSUME NEW s \in Sessions, NEW a \in Addresses, Authorize(s, a) PROVE PaysInv'
  BY <1>7, <1>a DEF Authorize, refreshVars
<1>8. ASSUME NEW s \in Sessions, Fill(s) PROVE PaysInv'
  BY <1>8, <1>a DEF Fill, refreshVars
<1>9. ASSUME NEW s \in Sessions, Assign(s) PROVE PaysInv'
  <2>1. /\ state[s] = "subscribed" /\ state'[s] = "authorized" /\ spc'[s] = "reply"
        /\ \A q \in Sessions : q # s => /\ state'[q] = state[q] /\ spc'[q] = spc[q]
                                        /\ miningAddress'[q] = miningAddress[q]
        /\ UNCHANGED <<rpc, rsend, delivered>>
    BY <1>9, <1>a DEF Assign, refreshVars
  <2>2. \A r \in Refreshers : rpc[r] \in {"lock", "write"} => rsend[r][1] # s /\ rsend[r][1] \in Sessions
    BY <1>a, <2>1
  <2> QED
    BY <2>1, <2>2
<1>10. ASSUME NEW s \in Sessions, Reply(s) PROVE PaysInv'
  <2>1. NotifyOf(jobs[Len(jobs)], miningAddress[s]).addr = miningAddress[s]
    BY DEF NotifyOf
  <2> QED
    BY <1>10, <1>a, <2>1 DEF Reply, refreshVars
<1>11. ASSUME NEW s \in Sessions, Remove(s) PROVE PaysInv'
  <2>1. \A r \in Refreshers : rpc[r] \notin {"lock", "write"}
    BY <1>11 DEF Remove, SessionsLocked, Broadcasting
  <2> QED
    BY <1>11, <1>a, <2>1 DEF Remove, refreshVars
<1>12. ASSUME NEW s \in Sessions, Unregister(s) PROVE PaysInv'
  <2>1. /\ state[s] = "gone" /\ spc'[s] = "idle"
        /\ \A q \in Sessions : q # s => spc'[q] = spc[q] /\ miningAddress'[q] = miningAddress[q]
        /\ UNCHANGED <<rpc, rsend, state, delivered>>
    BY <1>12, <1>a DEF Unregister, refreshVars
  <2>2. \A r \in Refreshers : rpc[r] \in {"lock", "write"} => rsend[r][1] # s /\ rsend[r][1] \in Sessions
    BY <1>a, <2>1
  <2> QED
    BY <2>1, <2>2
<1>13. CASE NewBlock \/ ZmqFails \/ UNCHANGED vars
  BY <1>1, <1>13 DEF NewBlock, ZmqFails, vars, refreshVars, sessionVars
<1> QED
  BY <1>2, <1>3, <1>4, <1>5, <1>6, <1>7, <1>8, <1>9, <1>10, <1>11, <1>12, <1>13
     DEF Next, BroadcastStep, HandlerStep

LEMMA PaysInit == Init => PaysInv
BY DEF Init, PaysInv

\* A miner that authorizes once works for its own address only, whatever broadcast
\* was under way while it authorized, left, or its connection slot was reused.
THEOREM PaysOwnAddressHolds == Spec => []PaysOwnAddress
<1> DEFINE Inv == TypeInv /\ (Reauthorize \/ PaysInv)
<1>1. Init => Inv
  BY TypeInvInit, PaysInit
<1>2. Inv /\ [Next]_vars => Inv'
  BY TypeInvStep, PaysStep
<1>3. Inv => PaysOwnAddress
  BY DEF PaysInv, PaysOwnAddress
<1> QED
  BY <1>1, <1>2, <1>3, PTL DEF Spec

-----------------------------------------------------------------------------
(* What a miner is told of a new block.  With polling alone there is one     *)
(* refresh at a time: everyone who has work has it for the current tip, or   *)
(* the newest job is clean and on its way.                                   *)

Newest == jobs[Len(jobs)]

\* The newest job is still to be sent to the session.
OnItsWay(s) ==
  \/ rpc[Poll] = "installed"
  \/ Broadcasting(Poll) /\ s \in rtodo[Poll]
  \/ rpc[Poll] \in {"lock", "write"} /\ rsend[Poll][1] = s

WorkInv ==
  /\ \A i \in 1..Len(jobs) : jobs[i].coinb2s \cap Unbuildable = {}
  /\ Len(jobs) > 0 => Newest.tip = currentTip
  /\ rpc[Poll] = "installed" \/ Broadcasting(Poll) => rjob[Poll] = Len(jobs) /\ Len(jobs) > 0
  /\ \A s \in Sessions : delivered[s] # NoJob =>
        /\ Len(jobs) > 0 /\ miningAddress[s] \in Newest.coinb2s
        /\ delivered[s].tip = currentTip \/ (Newest.clean /\ OnItsWay(s))
  /\ rpc[Poll] \in {"lock", "write"} =>
        /\ rsend[Poll][2].tip = currentTip /\ rsend[Poll][2].clean = Newest.clean
        /\ miningAddress[rsend[Poll][1]] \in Newest.coinb2s
  /\ rpc[Poll] = "write" => spc[rsend[Poll][1]] = "idle"
  /\ \A s \in Sessions : spc[s] = "reply" => delivered[s] = NoJob

PollingOnly == zmq \in {"off", "none"}

\* Without the subscriber only the poll loop refreshes.
ZmqInv == zmq # "up" => rpc[Zmq] = "idle"

CleanInv == ZmqInv /\ (PollingOnly => WorkInv)

\* The job that a refresh appends is the newest one, pruned or not.
LEMMA NewestAppended ==
  ASSUME NEW history \in Seq(Job), Len(history) <= MaxJobHistory, NEW job \in Job,
         NEW pruned, pruned = Prune(Append(history, job))
  PROVE  Len(pruned) > 0 /\ pruned[Len(pruned)] = job
<1> DEFINE longer == Append(history, job)
<1>1. /\ longer \in Seq(Job)
      /\ Len(longer) = Len(history) + 1
      /\ longer[Len(longer)] = job
  OBVIOUS
<1>2. CASE Len(longer) > MaxJobHistory
  <2>1. pruned = Tail(longer)
    BY <1>2 DEF Prune
  <2>2. /\ Len(Tail(longer)) = Len(longer) - 1
        /\ \A i \in 1..Len(Tail(longer)) : Tail(longer)[i] = longer[i + 1]
    BY <1>1
  <2>3. Len(longer) > 1
    BY <1>1, <1>2, ConstTypes DEF ConstAssumptions
  <2> HIDE DEF longer
  <2>4. Len(longer) \in Nat
    BY <1>1
  <2> QED
    BY <1>1, <2>1, <2>2, <2>3, <2>4
<1>3. CASE ~(Len(longer) > MaxJobHistory)
  <2>1. pruned = longer
    BY <1>3 DEF Prune
  <2>2. Len(longer) > 0
    BY <1>1
  <2> QED
    BY <1>1, <2>1, <2>2
<1> QED
  BY <1>2, <1>3

\* Only the subscriber refreshes for itself, and it ends between two refreshes.
LEMMA ZmqStep == TypeInv /\ ZmqInv /\ [Next]_vars => ZmqInv'
<1> SUFFICES ASSUME TypeInv, ZmqInv, [Next]_vars PROVE ZmqInv'
  OBVIOUS
<1> USE DEF ZmqInv
<1>1. rpc \in [Refreshers -> RefreshSteps] /\ zmq \in {"off", "none", "up", "lost"} /\ Zmq \in Refreshers
  BY DEF TypeInv, TypeOK, Refreshers
<1>2. CASE UNCHANGED <<zmq, rpc>>
  BY <1>2
<1>3. CASE NewBlock \/ ZmqFails
  BY <1>3 DEF NewBlock, ZmqFails
<1>4. ASSUME NEW r \in Refreshers, Fetch(r) \/ Install(r) \/ SendJobLock(r) \/ StartBroadcast(r) \/ SendJobWrite(r)
      PROVE  ZmqInv'
  BY <1>1, <1>4 DEF Fetch, Install, SendJobLock, StartBroadcast, SendJobWrite
<1>5. ASSUME NEW r \in Refreshers, NEW s \in Sessions, Customize(r, s) PROVE ZmqInv'
  BY <1>1, <1>5 DEF Customize
<1>6. ASSUME NEW r \in Refreshers, EndBroadcast(r) PROVE ZmqInv'
  BY <1>1, <1>6 DEF EndBroadcast
<1>7. ASSUME NEW s \in Sessions, Connect(s) \/ Subscribe(s) \/ Remove(s) \/ HandlerStep(s)
      PROVE  UNCHANGED <<zmq, rpc>>
  BY <1>7 DEF Connect, Subscribe, Remove, HandlerStep, Fill, Assign, Reply, Unregister, refreshVars
<1>8. ASSUME NEW s \in Sessions, NEW a \in Addresses, Authorize(s, a) PROVE UNCHANGED <<zmq, rpc>>
  BY <1>8 DEF Authorize, refreshVars
<1>9. CASE UNCHANGED vars
  BY <1>2, <1>9 DEF vars, refreshVars
<1> QED
  BY <1>2, <1>3, <1>4, <1>5, <1>6, <1>7, <1>8, <1>9 DEF Next, BroadcastStep

\* A new template leaves nobody who has work without the newest job on its way.
LEMMA WorkInstall ==
  ASSUME TypeInv, PaysInv, AuthorizedCovered, WorkInv, Install(Poll)
  PROVE  WorkInv'
<1>1. PICK coinb1 \in Coinb1Outcomes : jobs' = Prune(Append(jobs, NewJob(rtip[Poll], coinb1)))
  BY DEF Install, InstallTemplate
<1> DEFINE job == NewJob(rtip[Poll], coinb1)
<1>2. /\ job \in Job /\ job.tip = rtip[Poll] /\ job.clean = (rtip[Poll] # currentTip)
      /\ job.coinb2s = Connected \ Unbuildable
  <2>1. coinb1 \in BOOLEAN
    BY ConstTypes DEF Coinb1Outcomes, ConstAssumptions
  <2>2. rtip[Poll] \in Tips
    BY DEF Install, TypeInv, HeldData, Refreshers
  <2> QED
    BY <2>1, <2>2 DEF NewJob, Job, Connected
<1>3. jobs \in Seq(Job) /\ Len(jobs) <= MaxJobHistory
  BY DEF TypeInv, TypeOK, JobManagerTypeOK
<1> HIDE DEF job
<1>4. /\ jobs' \in Seq(Job) /\ OneMore(jobs', jobs, job)
      /\ Len(jobs') > 0 /\ jobs'[Len(jobs')] = job
  BY <1>1, <1>2, <1>3, PruneAppend, NewestAppended DEF job
<1>5. \A i \in 1..Len(jobs') : jobs'[i].coinb2s \cap Unbuildable = {}
  BY <1>2, <1>4 DEF OneMore, WorkInv
<1>6. /\ currentTip' = rtip[Poll] /\ rpc[Poll] = "fetched" /\ rpc'[Poll] = "installed"
      /\ rjob'[Poll] = Len(jobs')
      /\ UNCHANGED <<rtodo, rsend, state, spc, miningAddress, delivered>>
  BY DEF Install, InstallTemplate, TypeInv, TypeOK, Refreshers, sessionVars
<1>7. ASSUME NEW s \in Sessions, delivered[s] # NoJob
      PROVE  /\ miningAddress[s] \in job.coinb2s
             /\ delivered[s].tip = rtip[Poll] \/ job.clean
  <2>1. /\ Len(jobs) > 0 /\ miningAddress[s] \in Newest.coinb2s
        /\ delivered[s].tip = currentTip
    BY <1>6, <1>7 DEF WorkInv, OnItsWay, Broadcasting
  <2>2. Len(jobs) \in 1..Len(jobs) /\ Newest \in Job
    BY <1>3, <2>1 DEF Newest
  <2>3. miningAddress[s] \in Addresses \ Unbuildable
    BY <2>1, <2>2 DEF WorkInv, Newest, Job
  <2>4. connectedAddrs[miningAddress[s]] > 0
    BY <2>3, NoAddressAssumption DEF AuthorizedCovered
  <2>5. miningAddress[s] \in job.coinb2s
    BY <1>2, <2>3, <2>4 DEF Connected
  <2> QED
    BY <1>2, <2>1, <2>5
<1>8. Newest' = job
  BY <1>4 DEF Newest
<1> QED
  BY <1>2, <1>4, <1>5, <1>6, <1>7, <1>8 DEF WorkInv, OnItsWay, Broadcasting

\* Every other step of the poll loop, a handler or the node keeps the invariant.
LEMMA WorkStep ==
  TypeInv /\ PaysInv /\ AuthorizedCovered /\ CleanInv /\ ~Reauthorize /\ [Next]_vars => CleanInv'
<1> SUFFICES ASSUME TypeInv, PaysInv, AuthorizedCovered, CleanInv, ~Reauthorize, [Next]_vars
             PROVE  CleanInv'
  OBVIOUS
<1>0. ZmqInv'
  BY ZmqStep DEF CleanInv
<1> SUFFICES ASSUME PollingOnly' PROVE WorkInv'
  BY <1>0 DEF CleanInv
<1>a. /\ rpc \in [Refreshers -> RefreshSteps] /\ delivered \in [Sessions -> {NoJob} \cup Notify]
      /\ rsend \in [Refreshers -> {NoJob} \cup (Sessions \X Notify)]
      /\ rpc[Poll] \in {"lock", "write"} => rsend[Poll] \in Sessions \X Notify
      /\ rjob \in [Refreshers -> 0..MaxJobHistory] /\ rtodo \in [Refreshers -> SUBSET Sessions]
      /\ state \in [Sessions -> States] /\ spc \in [Sessions -> HandlerSteps]
      /\ miningAddress \in [Sessions -> Addresses \cup {NoAddress}]
      /\ jobs \in Seq(Job) /\ Poll \in Refreshers
  BY DEF TypeInv, TypeOK, JobManagerTypeOK, HeldData, Refreshers
<1>b. PollingOnly
  <2>1. CASE zmq' = zmq
    BY <2>1 DEF PollingOnly
  <2>2. ASSUME NEW r \in Refreshers, EndBroadcast(r) PROVE PollingOnly
    BY <2>2 DEF EndBroadcast, PollingOnly
  <2>3. CASE ZmqFails
    BY <2>3 DEF ZmqFails, PollingOnly
  <2> QED
    BY <2>1, <2>2, <2>3 DEF Next, BroadcastStep, HandlerStep, NewBlock, Fetch, Install, SendJobLock,
       StartBroadcast, Customize, SendJobWrite, Connect, Subscribe, Remove, Fill, Assign, Reply,
       Unregister, Authorize, vars, refreshVars
<1>c. WorkInv /\ rpc[Zmq] = "idle"
  BY <1>b DEF CleanInv, ZmqInv, PollingOnly
\* Sessions with work, and the one a job is written to, are authorized.
<1>d. /\ \A s \in Sessions : delivered[s] # NoJob => state[s] = "authorized"
      /\ rpc[Poll] \in {"lock", "write"} => state[rsend[Poll][1]] = "authorized" /\ rsend[Poll][1] \in Sessions
      /\ \A s \in Sessions : /\ spc[s] \in {"fill", "assign"} => state[s] = "subscribed"
                             /\ spc[s] = "reply" => state[s] = "authorized"
                             /\ spc[s] = "removed" => state[s] = "gone"
  BY <1>a DEF PaysInv
<1> USE DEF WorkInv, OnItsWay, Broadcasting, Newest
<1>1. CASE UNCHANGED <<jobs, currentTip, rpc, rjob, rtodo, rsend, spc, miningAddress, delivered>>
  BY <1>1, <1>c
<1>2. ASSUME NEW r \in Refreshers,
             Fetch(r) \/ Install(r) \/ SendJobLock(r) \/ StartBroadcast(r) \/ SendJobWrite(r) \/ EndBroadcast(r)
      PROVE  r = Poll
  BY <1>2, <1>b, <1>c DEF Refreshers, PollingOnly, Fetch, Install, SendJobLock, StartBroadcast, SendJobWrite,
     EndBroadcast
<1>3. ASSUME NEW r \in Refreshers, NEW s \in Sessions, Customize(r, s) PROVE r = Poll
  BY <1>3, <1>c DEF Refreshers, Customize
<1>4. CASE Fetch(Poll)
  BY <1>4, <1>a, <1>c DEF Fetch, jmVars, sessionVars
<1>5. CASE Install(Poll)
  BY <1>5, <1>c, WorkInstall
<1>6. CASE StartBroadcast(Poll)
  <2>1. /\ rpc[Poll] = "installed" /\ rpc'[Poll] = "broadcast"
        /\ rtodo'[Poll] = {s \in Sessions : state[s] # "gone"}
        /\ UNCHANGED <<jobs, currentTip, rjob, spc, miningAddress, delivered>>
    BY <1>6, <1>a DEF StartBroadcast, jmVars, sessionVars
  <2>2. \A s \in Sessions : delivered[s] # NoJob => s \in rtodo'[Poll]
    BY <1>d, <2>1
  <2> QED
    BY <1>c, <2>1, <2>2
<1>7. ASSUME NEW s \in Sessions, Customize(Poll, s) PROVE WorkInv'
  <2>1. /\ rpc[Poll] = "broadcast" /\ rtodo'[Poll] = rtodo[Poll] \ {s}
        /\ UNCHANGED <<jobs, currentTip, rjob, spc, miningAddress, delivered>>
    BY <1>7, <1>a DEF Customize, jmVars, sessionVars
  <2>2. rjob[Poll] = Len(jobs) /\ Len(jobs) > 0
    BY <1>c, <2>1
  <2>3. CASE Served(Poll, s)
    <3>1. /\ rpc'[Poll] = "lock" /\ rsend'[Poll] = <<s, NotifyOf(Newest, miningAddress[s])>>
      BY <1>7, <1>a, <2>2, <2>3 DEF Customize
    <3>2. miningAddress[s] \in Newest.coinb2s
      BY <2>2, <2>3 DEF Served, Serves
    <3>3. /\ NotifyOf(Newest, miningAddress[s]).tip = Newest.tip
          /\ NotifyOf(Newest, miningAddress[s]).clean = Newest.clean
      BY DEF NotifyOf
    <3>4. rsend'[Poll][1] = s /\ rsend'[Poll][2].tip = Newest.tip /\ rsend'[Poll][2].clean = Newest.clean
      BY <3>1, <3>3
    <3> QED
      BY <1>c, <2>1, <2>2, <3>1, <3>2, <3>4
  <2>4. CASE ~Served(Poll, s)
    <3>1. rpc' = rpc /\ rsend' = rsend
      BY <1>7, <2>4 DEF Customize
    <3>2. delivered[s] = NoJob
      <4>1. SUFFICES ASSUME delivered[s] # NoJob PROVE FALSE
        OBVIOUS
      <4>2. state[s] = "authorized" /\ miningAddress[s] \in Newest.coinb2s
        BY <1>c, <1>d, <4>1
      <4>3. Newest \in Job /\ Len(jobs) \in DOMAIN jobs
        BY <1>a, <2>2
      <4>4. miningAddress[s] # NoAddress
        BY <4>2, <4>3, NoAddressAssumption DEF Job
      <4> QED
        BY <2>2, <2>4, <4>2, <4>3, <4>4 DEF Served, Serves
    <3> QED
      BY <1>c, <2>1, <3>1, <3>2
  <2> QED
    BY <2>3, <2>4
<1>8. CASE SendJobLock(Poll)
  <2>1. /\ rpc[Poll] = "lock" /\ rpc'[Poll] = "write" /\ ~SessionLocked(rsend[Poll][1])
        /\ UNCHANGED <<jobs, currentTip, rjob, rtodo, rsend, spc, miningAddress, delivered>>
    BY <1>8, <1>a DEF SendJobLock, jmVars, sessionVars
  <2>2. spc[rsend[Poll][1]] = "idle"
    BY <1>a, <1>d, <2>1 DEF SessionLocked, HandlerSteps
  <2> QED
    BY <1>c, <2>1, <2>2
<1>9. CASE SendJobWrite(Poll)
  <2> DEFINE x == rsend[Poll][1]
  <2>1. /\ rpc[Poll] = "write" /\ rpc'[Poll] = "broadcast" /\ x \in Sessions
        /\ delivered'[x] = rsend[Poll][2] /\ \A s \in Sessions : s # x => delivered'[s] = delivered[s]
        /\ UNCHANGED <<jobs, currentTip, rjob, rtodo, spc, miningAddress>>
    BY <1>9, <1>a, <1>d DEF SendJobWrite, jmVars
  <2>2. /\ delivered'[x].tip = currentTip /\ miningAddress[x] \in Newest.coinb2s
        /\ spc[x] = "idle" /\ Len(jobs) > 0
    BY <1>c, <2>1
  <2>3. \A s \in Sessions : s # x /\ OnItsWay(s) => s \in rtodo[Poll]
    BY <2>1
  <2> HIDE DEF x
  <2> QED
    BY <1>c, <2>1, <2>2, <2>3
<1>10. CASE EndBroadcast(Poll)
  <2>1. /\ rpc[Poll] = "broadcast" /\ rtodo[Poll] = {} /\ rpc'[Poll] = "idle"
        /\ UNCHANGED <<jobs, currentTip, spc, miningAddress, delivered>>
    BY <1>10, <1>a DEF EndBroadcast, jmVars, sessionVars
  <2> QED
    BY <1>c, <2>1
<1>11. ASSUME NEW s \in Sessions, Connect(s) \/ Subscribe(s) PROVE WorkInv'
  <2>1. /\ delivered'[s] = delivered[s] \/ delivered'[s] = NoJob
        /\ \A q \in Sessions : q # s => delivered'[q] = delivered[q]
        /\ UNCHANGED <<jobs, currentTip, rpc, rjob, rtodo, rsend, spc, miningAddress>>
    BY <1>11, <1>a DEF Connect, Subscribe, refreshVars, jmVars
  <2> QED
    BY <1>c, <2>1
<1>12. ASSUME NEW s \in Sessions, NEW a \in Addresses, Authorize(s, a) PROVE WorkInv'
  <2>1. /\ state[s] = "subscribed" /\ spc'[s] \in {"fill", "assign"}
        /\ \A q \in Sessions : q # s => spc'[q] = spc[q]
        /\ UNCHANGED <<jobs, currentTip, rpc, rjob, rtodo, rsend, miningAddress, delivered>>
    BY <1>12, <1>a DEF Authorize, CountAddress, refreshVars
  <2> QED
    BY <1>c, <1>d, <2>1
<1>13. ASSUME NEW s \in Sessions, Fill(s) PROVE WorkInv'
  <2>1. want[s] \in Addresses
    BY <1>13 DEF Fill, TypeInv, HeldData
  <2>2. Len(jobs') = Len(jobs) /\ \A i \in 1..Len(jobs) : jobs'[i] = FillJob(jobs[i], want[s])
    BY <1>13, <1>a, <2>1, FillJobsEffect DEF Fill
  <2>3. \A i \in 1..Len(jobs) :
          /\ jobs'[i].tip = jobs[i].tip /\ jobs'[i].clean = jobs[i].clean
          /\ jobs[i].coinb2s \subseteq jobs'[i].coinb2s
          /\ jobs[i].coinb2s \cap Unbuildable = {} => jobs'[i].coinb2s \cap Unbuildable = {}
    <3>1. \A i \in 1..Len(jobs) : jobs[i] \in Job
      BY <1>a
    <3>2. ASSUME NEW job \in Job
          PROVE  /\ FillJob(job, want[s]).tip = job.tip /\ FillJob(job, want[s]).clean = job.clean
                 /\ job.coinb2s \subseteq FillJob(job, want[s]).coinb2s
                 /\ job.coinb2s \cap Unbuildable = {} => FillJob(job, want[s]).coinb2s \cap Unbuildable = {}
      BY DEF FillJob, Job
    <3> QED
      BY <2>2, <3>1, <3>2
  <2>4. Len(jobs) > 0 =>
          /\ Newest'.tip = Newest.tip /\ Newest'.clean = Newest.clean
          /\ Newest.coinb2s \subseteq Newest'.coinb2s
    <3>1. Len(jobs) \in Nat
      BY <1>a
    <3> QED
      BY <2>2, <2>3, <3>1
  <2>5. /\ \A q \in Sessions : spc'[q] = "reply" => spc[q] = "reply"
        /\ spc[s] = "fill" /\ \A q \in Sessions : q # s => spc'[q] = spc[q]
        /\ UNCHANGED <<currentTip, rpc, rjob, rtodo, rsend, miningAddress, delivered>>
    BY <1>13, <1>a DEF Fill, FillJobs, refreshVars
  <2>6. \A i \in 1..Len(jobs') : jobs'[i].coinb2s \cap Unbuildable = {}
    BY <1>c, <2>2, <2>3
  <2>7. rpc[Poll] \in {"lock", "write"} => Len(jobs) > 0 /\ rsend[Poll][1] # s
    BY <1>c, <1>d, <2>5
  <2> HIDE DEF Newest
  <2> QED
    BY <1>c, <1>d, <2>2, <2>4, <2>5, <2>6, <2>7
<1>14. ASSUME NEW s \in Sessions, Assign(s) PROVE WorkInv'
  <2>1. /\ state[s] = "subscribed" /\ spc[s] = "assign" /\ spc'[s] = "reply"
        /\ \A q \in Sessions : q # s => spc'[q] = spc[q] /\ miningAddress'[q] = miningAddress[q]
        /\ UNCHANGED <<jobs, currentTip, rpc, rjob, rtodo, rsend, delivered>>
    BY <1>14, <1>a, <1>d DEF Assign, refreshVars, jmVars
  <2>2. delivered[s] = NoJob /\ (rpc[Poll] \in {"lock", "write"} => rsend[Poll][1] # s)
    BY <1>d, <2>1
  <2> QED
    BY <1>c, <1>d, <2>1, <2>2
<1>15. ASSUME NEW s \in Sessions, Reply(s) PROVE WorkInv'
  <2>1. /\ spc[s] = "reply" /\ spc'[s] = "idle" /\ \A q \in Sessions : q # s => spc'[q] = spc[q]
        /\ \A q \in Sessions : q # s => delivered'[q] = delivered[q]
        /\ UNCHANGED <<jobs, currentTip, rpc, rjob, rtodo, rsend, miningAddress>>
    BY <1>15, <1>a DEF Reply, refreshVars, jmVars
  <2>2. CASE Serves(Len(jobs), miningAddress[s])
    <3>1. delivered'[s] = NotifyOf(Newest, miningAddress[s])
      BY <1>15, <1>a, <2>2 DEF Reply
    <3>2. delivered'[s].tip = Newest.tip
      BY <3>1 DEF NotifyOf
    <3>3. Len(jobs) > 0 /\ miningAddress[s] \in Newest.coinb2s
      BY <1>a, <2>2 DEF Serves
    <3>4. Newest' = Newest /\ \A q \in Sessions : OnItsWay(q)' = OnItsWay(q)
      BY <2>1
    <3>5. Newest.tip = currentTip
      BY <1>c, <3>3
    <3>6. \A q \in Sessions : q # s => (delivered'[q] = NoJob \/ delivered'[q].tip = currentTip
                                        \/ (Newest.clean /\ OnItsWay(q)))
      BY <1>c, <2>1
    <3>7. \A q \in Sessions : delivered'[q] # NoJob => miningAddress[q] \in Newest.coinb2s
      BY <1>c, <2>1, <3>3
    <3>8. \A q \in Sessions : spc'[q] = "reply" => delivered'[q] = NoJob
      BY <1>c, <2>1
    <3>9. rpc'[Poll] = "write" => spc'[rsend'[Poll][1]] = "idle"
      BY <1>a, <1>c, <1>d, <2>1
    <3> HIDE DEF OnItsWay, Newest
    <3> QED
      BY <1>c, <2>1, <3>2, <3>3, <3>4, <3>5, <3>6, <3>7, <3>8, <3>9
  <2>3. CASE ~Serves(Len(jobs), miningAddress[s])
    BY <1>15, <1>c, <2>1, <2>3 DEF Reply
  <2> QED
    BY <2>2, <2>3
<1>16. ASSUME NEW s \in Sessions, Remove(s) PROVE WorkInv'
  <2>1. /\ ~Broadcasting(Poll) /\ delivered'[s] = NoJob /\ spc'[s] # "reply"
        /\ \A q \in Sessions : q # s => spc'[q] = spc[q] /\ delivered'[q] = delivered[q]
        /\ UNCHANGED <<jobs, currentTip, rpc, rjob, rtodo, rsend, miningAddress>>
    BY <1>16, <1>a DEF Remove, SessionsLocked, refreshVars, jmVars
  <2> QED
    BY <1>c, <2>1
<1>17. ASSUME NEW s \in Sessions, Unregister(s) PROVE WorkInv'
  <2>1. /\ state[s] = "gone" /\ spc'[s] = "idle"
        /\ \A q \in Sessions : q # s => spc'[q] = spc[q] /\ miningAddress'[q] = miningAddress[q]
        /\ UNCHANGED <<jobs, currentTip, rpc, rjob, rtodo, rsend, delivered>>
    BY <1>17, <1>a, <1>d DEF Unregister, UnregisterAddress, refreshVars
  <2>2. delivered[s] = NoJob /\ (rpc[Poll] \in {"lock", "write"} => rsend[Poll][1] # s)
    BY <1>d, <2>1
  <2> QED
    BY <1>c, <1>d, <2>1, <2>2
<1>18. CASE NewBlock \/ ZmqFails \/ UNCHANGED vars
  BY <1>1, <1>18 DEF NewBlock, ZmqFails, vars, jmVars, refreshVars, sessionVars
<1> QED
  BY <1>2, <1>3, <1>4, <1>5, <1>6, <1>7, <1>8, <1>9, <1>10, <1>11, <1>12, <1>13, <1>14, <1>15, <1>16, <1>17, <1>18
     DEF Next, BroadcastStep, HandlerStep

\* Nobody has work when the process starts.
LEMMA WorkInit == Init => CleanInv
BY RefreshersAssumption DEF Init, JobManagerInit, CleanInv, ZmqInv, WorkInv, Broadcasting, Refreshers

\* The step of the property.
CleanStep ==
  \A s \in Sessions :
    (/\ delivered[s] # NoJob /\ delivered'[s] # NoJob
     /\ delivered'[s].tip # delivered[s].tip
     /\ zmq \in {"off", "none"} /\ ~Reauthorize)
    => delivered'[s].clean

\* Work that a miner has is only replaced by a broadcast, and its answer to an authorization comes
\* when it has none.
LEMMA CleanBroadcast ==
  ASSUME TypeInv, Reauthorize \/ (PaysInv /\ CleanInv), [Next]_vars
  PROVE  CleanStep
<1> SUFFICES ASSUME NEW s \in Sessions, delivered[s] # NoJob, delivered'[s] # NoJob,
                    delivered'[s].tip # delivered[s].tip, zmq \in {"off", "none"}, ~Reauthorize
             PROVE  delivered'[s].clean
  BY DEF CleanStep
<1>1. WorkInv /\ rpc[Zmq] = "idle"
  BY DEF CleanInv, ZmqInv, PollingOnly
<1>2. /\ delivered \in [Sessions -> {NoJob} \cup Notify]
      /\ \A r \in Refreshers : rpc[r] = "write" => rsend[r] \in Sessions \X Notify
  BY DEF TypeInv, TypeOK, HeldData
<1>3. ASSUME NEW r \in Refreshers, SendJobWrite(r) PROVE delivered'[s].clean
  <2>1. r = Poll /\ rpc[r] = "write"
    BY <1>1, <1>3 DEF SendJobWrite, Refreshers
  <2>2. s = rsend[Poll][1] /\ delivered'[s] = rsend[Poll][2]
    BY <1>2, <1>3, <2>1 DEF SendJobWrite
  <2>3. rsend[Poll][2].tip = currentTip /\ rsend[Poll][2].clean = Newest.clean
    BY <1>1, <2>1 DEF WorkInv
  <2>4. Newest.clean
    BY <1>1, <2>2, <2>3 DEF WorkInv
  <2> QED
    BY <2>2, <2>3, <2>4
<1>4. ASSUME NEW q \in Sessions, Reply(q) PROVE FALSE
  <2>1. q # s
    BY <1>1, <1>4 DEF Reply, WorkInv
  <2> QED
    BY <1>2, <1>4, <2>1 DEF Reply
<1>5. ASSUME NEW q \in Sessions, Subscribe(q) \/ Remove(q) PROVE FALSE
  BY <1>2, <1>5 DEF Subscribe, Remove
<1>6. CASE UNCHANGED delivered
  BY <1>6
<1> QED
  BY <1>3, <1>4, <1>5, <1>6
     DEF Next, BroadcastStep, HandlerStep, NewBlock, ZmqFails, Fetch, Install, SendJobLock, StartBroadcast,
         Customize, EndBroadcast, Connect, Fill, Assign, Unregister, Authorize, vars, sessionVars

\* With polling alone no miner that authorizes once is moved to another block by a job that does
\* not tell it to drop its work, however refreshes, authorizations and disconnections interleave.
THEOREM CleanOnTipChangeHolds == Spec => CleanOnTipChange
<1> DEFINE Inv == Reauthorize \/ (PaysInv /\ CleanInv)
<1>1. Init => Inv
  BY PaysInit, WorkInit
<1>2. TypeInv /\ AuthorizedCovered /\ Inv /\ [Next]_vars => Inv'
  BY PaysStep, WorkStep
<1>3. TypeInv /\ Inv /\ [Next]_vars => [CleanStep]_vars
  BY CleanBroadcast
<1> HIDE DEF Inv
<1>4. Spec => [][CleanStep]_vars
  BY <1>1, <1>2, <1>3, TypeInvInit, TypeInvStep, AuthorizedCoveredHolds, PTL DEF Spec
<1> QED
  BY <1>4 DEF CleanOnTipChange, CleanStep
-----------------------------------------------------------------------------
(* The counts are exact when miners authorize once: CountInv bounds them     *)
(* from below for any miner, and here nothing is counted twice or for good.  *)

\* A session holds an address from its authorization until its removal callback.
HolderInv ==
  \A s \in Sessions : miningAddress[s] # NoAddress => state[s] = "authorized" \/ spc[s] = "removed"

ExactInv ==
  /\ HolderInv
  /\ \A a \in Addresses : connectedAddrs[a] = Cardinality(Users(a))

LEMMA UsersFinite == ASSUME NEW a PROVE IsFiniteSet(Users(a)) /\ IsFiniteSet(Users(a)')
BY SessionsAssumption, FS_Subset DEF Users

LEMMA ExactAuthorize ==
  ASSUME TypeInv, PaysInv, ExactInv, ~Reauthorize,
         NEW s \in Sessions, NEW a \in Addresses, Authorize(s, a)
  PROVE  ExactInv'
<1>1. /\ connectedAddrs' = [connectedAddrs EXCEPT ![a] = connectedAddrs[a] + 1]
      /\ UNCHANGED <<state, miningAddress>>
      /\ spc[s] = "idle" /\ state[s] = "subscribed"
      /\ want'[s] = a /\ spc'[s] \in {"fill", "assign"}
      /\ \A q \in Sessions : q # s => spc'[q] = spc[q] /\ want'[q] = want[q]
  BY DEF Authorize, CountAddress, TypeInv, TypeOK
<1>2. connectedAddrs \in [Addresses -> Nat] /\ miningAddress[s] = NoAddress
  BY <1>1 DEF ExactInv, HolderInv, TypeInv, TypeOK, JobManagerTypeOK
<1>3. HolderInv'
  BY <1>1, <1>2 DEF ExactInv, HolderInv
<1>4. ASSUME NEW b \in Addresses PROVE connectedAddrs'[b] = Cardinality(Users(b)')
  <2>1. CASE b = a
    <3>1. s \notin Users(b) /\ Users(b)' = Users(b) \cup {s}
      BY <1>1, <1>2, <2>1, NoAddressAssumption DEF Users
    <3>2. Cardinality(Users(b) \cup {s}) = Cardinality(Users(b)) + 1
      BY <3>1, UsersFinite, FS_AddElement
    <3> QED
      BY <1>1, <1>2, <2>1, <3>1, <3>2 DEF ExactInv
  <2>2. CASE b # a
    <3>1. Users(b)' = Users(b)
      BY <1>1, <1>2, <2>2, NoAddressAssumption DEF Users
    <3> QED
      BY <1>1, <1>2, <2>2, <3>1 DEF ExactInv
  <2> QED
    BY <2>1, <2>2
<1> QED
  BY <1>3, <1>4 DEF ExactInv

LEMMA ExactUnregister ==
  ASSUME TypeInv, ExactInv, NEW s \in Sessions, Unregister(s)
  PROVE  ExactInv'
<1>1. /\ UNCHANGED <<state, want>>
      /\ spc[s] = "removed" /\ spc'[s] = "idle" /\ miningAddress'[s] = NoAddress
      /\ \A q \in Sessions : q # s => spc'[q] = spc[q] /\ miningAddress'[q] = miningAddress[q]
  BY DEF Unregister, TypeInv, TypeOK
<1>2. HolderInv'
  BY <1>1 DEF ExactInv, HolderInv
<1>3. connectedAddrs \in [Addresses -> Nat]
  BY DEF TypeInv, TypeOK, JobManagerTypeOK
<1>4. ASSUME NEW b \in Addresses PROVE connectedAddrs'[b] = Cardinality(Users(b)')
  <2>1. connectedAddrs'[b] = IF b # miningAddress[s] THEN connectedAddrs[b]
                             ELSE IF connectedAddrs[b] <= 1 THEN 0 ELSE connectedAddrs[b] - 1
    BY <1>3, UnregisterEffect DEF Unregister
  <2>2. CASE b = miningAddress[s]
    <3>1. s \in Users(b) /\ Users(b)' = Users(b) \ {s}
      BY <1>1, <2>2, NoAddressAssumption DEF Users
    <3>2. Cardinality(Users(b) \ {s}) = Cardinality(Users(b)) - 1 /\ Cardinality(Users(b) \ {s}) \in Nat
      BY <3>1, UsersFinite, FS_RemoveElement, FS_CardinalityType
    <3>3. connectedAddrs[b] \in Nat /\ connectedAddrs[b] = Cardinality(Users(b))
      BY <1>3 DEF ExactInv
    <3> QED
      BY <2>1, <2>2, <3>1, <3>2, <3>3
  <2>3. CASE b # miningAddress[s]
    <3>1. Users(b)' = Users(b)
      BY <1>1, <2>3, NoAddressAssumption DEF Users
    <3> QED
      BY <2>1, <2>3, <3>1 DEF ExactInv
  <2> QED
    BY <2>2, <2>3
<1> QED
  BY <1>2, <1>4 DEF ExactInv

\* A step that counts nothing and moves no session from one address to another.
LEMMA ExactKept ==
  ASSUME ExactInv, HolderInv', connectedAddrs' = connectedAddrs, \A a \in Addresses : Users(a)' = Users(a)
  PROVE  ExactInv'
BY DEF ExactInv

LEMMA ExactStep == TypeInv /\ PaysInv /\ ExactInv /\ ~Reauthorize /\ [Next]_vars => ExactInv'
<1> SUFFICES ASSUME TypeInv, PaysInv, ExactInv, ~Reauthorize, [Next]_vars PROVE ExactInv'
  OBVIOUS
<1>a. state \in [Sessions -> States] /\ spc \in [Sessions -> HandlerSteps]
      /\ want \in [Sessions -> Addresses \cup {NoAddress}]
      /\ miningAddress \in [Sessions -> Addresses \cup {NoAddress}]
  BY DEF TypeInv, TypeOK
<1>1. CASE UNCHANGED <<connectedAddrs, state, miningAddress, spc, want>>
  BY <1>1 DEF ExactInv, HolderInv, Users
<1>2. ASSUME NEW s \in Sessions, Fill(s) \/ Reply(s) PROVE ExactInv'
  <2>1. /\ UNCHANGED <<connectedAddrs, state, miningAddress, want>>
        /\ spc[s] \in {"fill", "reply"}
        /\ \A q \in Sessions : q # s => spc'[q] = spc[q]
        /\ spc'[s] = IF spc[s] = "fill" THEN "assign" ELSE "idle"
    BY <1>2, <1>a DEF Fill, FillJobs, Reply, jmVars
  <2>2. HolderInv'
    BY <2>1 DEF ExactInv, HolderInv
  <2>3. \A a \in Addresses : Users(a)' = Users(a)
    BY <2>1 DEF Users
  <2> QED
    BY <2>1, <2>2, <2>3, ExactKept
<1>3. ASSUME NEW s \in Sessions, Assign(s) PROVE ExactInv'
  <2>1. /\ connectedAddrs' = connectedAddrs
        /\ spc[s] = "assign" /\ spc'[s] = "reply" /\ state'[s] = "authorized" /\ state[s] = "subscribed"
        /\ miningAddress'[s] = want[s]
        /\ \A q \in Sessions : q # s => /\ spc'[q] = spc[q] /\ want'[q] = want[q] /\ state'[q] = state[q]
                                        /\ miningAddress'[q] = miningAddress[q]
    BY <1>3, <1>a DEF Assign, jmVars, PaysInv
  <2>2. miningAddress[s] = NoAddress
    BY <2>1 DEF ExactInv, HolderInv
  <2>3. HolderInv'
    BY <2>1 DEF ExactInv, HolderInv
  <2>4. \A a \in Addresses : Users(a)' = Users(a)
    BY <2>1, <2>2, NoAddressAssumption DEF Users
  <2> QED
    BY <2>1, <2>3, <2>4, ExactKept
<1>4. ASSUME NEW s \in Sessions, Connect(s) \/ Subscribe(s) PROVE ExactInv'
  <2>1. /\ UNCHANGED <<connectedAddrs, miningAddress, spc, want>>
        /\ state[s] # "authorized" /\ \A q \in Sessions : q # s => state'[q] = state[q]
    BY <1>4, <1>a DEF Connect, Subscribe, jmVars
  <2>2. HolderInv' /\ \A a \in Addresses : Users(a)' = Users(a)
    BY <2>1 DEF ExactInv, HolderInv, Users
  <2> QED
    BY <2>1, <2>2, ExactKept
<1>5. ASSUME NEW s \in Sessions, Remove(s) PROVE ExactInv'
  <2>1. /\ UNCHANGED <<connectedAddrs, miningAddress, want>>
        /\ spc[s] = "idle" /\ spc'[s] = IF miningAddress[s] = NoAddress THEN "idle" ELSE "removed"
        /\ \A q \in Sessions : q # s => state'[q] = state[q] /\ spc'[q] = spc[q]
    BY <1>5, <1>a DEF Remove, jmVars
  <2>2. HolderInv'
    BY <2>1 DEF ExactInv, HolderInv
  <2>3. \A a \in Addresses : Users(a)' = Users(a)
    BY <2>1 DEF Users
  <2> QED
    BY <2>1, <2>2, <2>3, ExactKept
<1>6. ASSUME NEW s \in Sessions, Unregister(s) PROVE ExactInv'
  BY <1>6, ExactUnregister
<1>7. ASSUME NEW s \in Sessions, NEW a \in Addresses, Authorize(s, a) PROVE ExactInv'
  BY <1>7, ExactAuthorize
<1>8. CASE NewBlock \/ ZmqFails \/ UNCHANGED vars
  BY <1>1, <1>8 DEF NewBlock, ZmqFails, vars, jmVars, sessionVars
<1>9. ASSUME NEW r \in Refreshers, Fetch(r) \/ Install(r) \/ SendJobLock(r) \/ BroadcastStep(r) PROVE ExactInv'
  BY <1>1, <1>9 DEF Fetch, Install, InstallTemplate, SendJobLock, BroadcastStep, StartBroadcast, Customize,
                    SendJobWrite, EndBroadcast, jmVars, sessionVars
<1> QED
  BY <1>2, <1>3, <1>4, <1>5, <1>6, <1>7, <1>8, <1>9 DEF Next, HandlerStep

LEMMA ExactInit == Init => ExactInv
<1> SUFFICES ASSUME Init PROVE ExactInv
  OBVIOUS
<1>1. \A a \in Addresses : Users(a) = {} /\ connectedAddrs[a] = 0
  BY NoAddressAssumption DEF Init, JobManagerInit, Users
<1> QED
  BY <1>1, FS_EmptySet DEF Init, ExactInv, HolderInv

\* When miners authorize once, RegisterAddress and UnregisterAddress balance: an address is counted
\* exactly once for each session that uses it, so none stays registered after its last session.
THEOREM CountsItsSessionsHolds == Spec => []CountsItsSessions
<1> DEFINE Inv == TypeInv /\ (Reauthorize \/ (PaysInv /\ ExactInv))
<1>1. Init => Inv
  BY TypeInvInit, PaysInit, ExactInit
<1>2. Inv /\ [Next]_vars => Inv'
  BY TypeInvStep, PaysStep, ExactStep
<1>3. Inv => CountsItsSessions
  BY DEF ExactInv, CountsItsSessions
<1> QED
  BY <1>1, <1>2, <1>3, PTL DEF Spec

-----------------------------------------------------------------------------
(* The refinement of WorkContract.  Besides what is proved above it needs    *)
(* where every block in the pipeline comes from: the node has seen it, and   *)
(* with polling alone the template under way is no older than the last one.  *)

TipInv ==
  /\ currentTip <= nodeTip
  /\ \A r \in Refreshers : rpc[r] = "fetched" => rtip[r] <= nodeTip
  /\ \A i \in 1..Len(jobs) : jobs[i].tip <= nodeTip
  /\ \A r \in Refreshers : rpc[r] \in {"lock", "write"} => rsend[r][2].tip <= nodeTip

\* Also with the subscriber on its way: it starts between two refreshes of the poll loop.
OrderInv == PollingOnly => (rpc[Poll] = "fetched" => currentTip <= rtip[Poll])

\* A removal callback is still due only while the slot is free.
GoneInv == \A s \in Sessions : spc[s] = "removed" => state[s] = "gone"

LEMMA TipInstall ==
  ASSUME TypeInv, TipInv, NEW r \in Refreshers, Install(r)
  PROVE  TipInv'
<1>1. PICK coinb1 \in Coinb1Outcomes : jobs' = Prune(Append(jobs, NewJob(rtip[r], coinb1)))
  BY DEF Install, InstallTemplate
<1> DEFINE job == NewJob(rtip[r], coinb1)
<1>2. /\ rpc[r] = "fetched" /\ rpc'[r] = "installed" /\ currentTip' = rtip[r]
      /\ \A q \in Refreshers : q # r => rpc'[q] = rpc[q]
      /\ UNCHANGED <<nodeTip, rtip, rsend>>
  BY DEF Install, InstallTemplate, TypeInv, TypeOK
<1>3. job \in Job /\ job.tip = rtip[r]
  <2>1. coinb1 \in BOOLEAN
    BY ConstTypes DEF Coinb1Outcomes, ConstAssumptions
  <2>2. rtip[r] \in Tips
    BY <1>2 DEF TypeInv, HeldData
  <2> QED
    BY <2>1, <2>2 DEF NewJob, Job, Connected
<1> HIDE DEF job
<1>4. OneMore(jobs', jobs, job)
  <2>1. jobs \in Seq(Job) /\ Len(jobs) <= MaxJobHistory /\ jobs' = Prune(Append(jobs, job))
    BY <1>1 DEF TypeInv, TypeOK, JobManagerTypeOK, job
  <2> QED
    BY <1>3, <2>1, PruneAppend
<1>5. \A i \in 1..Len(jobs') : jobs'[i].tip <= nodeTip
  BY <1>2, <1>3, <1>4 DEF OneMore, TipInv
<1> QED
  BY <1>2, <1>5 DEF TipInv

LEMMA TipStep == TypeInv /\ TipInv /\ [Next]_vars => TipInv'
<1> SUFFICES ASSUME TypeInv, TipInv, [Next]_vars PROVE TipInv'
  OBVIOUS
<1>a. /\ rpc \in [Refreshers -> RefreshSteps] /\ rtip \in [Refreshers -> Tips \cup {0}]
      /\ rsend \in [Refreshers -> {NoJob} \cup (Sessions \X Notify)]
      /\ jobs \in Seq(Job) /\ nodeTip \in Tips /\ Tips \subseteq Nat
      /\ rjob \in [Refreshers -> 0..MaxJobHistory]
  BY ConstTypes DEF TypeInv, TypeOK, JobManagerTypeOK, ConstAssumptions
<1>1. CASE UNCHANGED <<nodeTip, currentTip, rpc, rtip, jobs, rsend>>
  BY <1>1 DEF TipInv
<1>2. CASE NewBlock
  <2>1. /\ nodeTip' = nodeTip + 1 /\ nodeTip \in Nat
        /\ UNCHANGED <<currentTip, rpc, rtip, jobs, rsend>>
    BY <1>2, <1>a DEF NewBlock, jmVars
  <2>2. /\ currentTip \in Nat /\ \A r \in Refreshers : rtip[r] \in Nat
        /\ \A i \in 1..Len(jobs) : jobs[i].tip \in Nat
        /\ \A r \in Refreshers : rpc[r] \in {"lock", "write"} => rsend[r][2].tip \in Nat
    <3>1. currentTip \in Nat /\ \A r \in Refreshers : rtip[r] \in Nat
      BY <1>a DEF TypeInv, TypeOK, JobManagerTypeOK
    <3>2. \A i \in 1..Len(jobs) : jobs[i] \in Job
      BY <1>a
    <3>3. \A r \in Refreshers : rpc[r] \in {"lock", "write"} => rsend[r] \in Sessions \X Notify
      BY DEF TypeInv, HeldData
    <3>4. \A r \in Refreshers : rpc[r] \in {"lock", "write"} => rsend[r][2] \in Notify
      BY <3>3
    <3> QED
      BY <1>a, <3>1, <3>2, <3>4 DEF Job, Notify
  <2> QED
    BY <2>1, <2>2 DEF TipInv
<1>3. ASSUME NEW r \in Refreshers, Fetch(r) PROVE TipInv'
  BY <1>3, <1>a DEF Fetch, TipInv, jmVars
<1>4. ASSUME NEW r \in Refreshers, Install(r) PROVE TipInv'
  BY <1>4, TipInstall
<1>5. ASSUME NEW r \in Refreshers, NEW s \in Sessions, Customize(r, s) PROVE TipInv'
  <2>1. CASE ~Served(r, s)
    BY <1>1, <1>5, <2>1 DEF Customize, jmVars
  <2>2. CASE Served(r, s)
    <3>1. /\ \A q \in Refreshers : q # r => rpc'[q] = rpc[q] /\ rsend'[q] = rsend[q]
          /\ rpc'[r] = "lock" /\ rsend'[r] = <<s, NotifyOf(jobs[rjob[r]], miningAddress[s])>>
          /\ UNCHANGED <<nodeTip, currentTip, rtip, jobs>>
      BY <1>5, <1>a, <2>2 DEF Customize, jmVars
    <3>2. rjob[r] \in 1..Len(jobs)
      BY <1>a, <2>2 DEF Served, Serves
    <3>3. rsend'[r][2].tip <= nodeTip
      BY <3>1, <3>2 DEF NotifyOf, TipInv
    <3> QED
      BY <3>1, <3>3 DEF TipInv
  <2> QED
    BY <2>1, <2>2
<1>6. ASSUME NEW r \in Refreshers, SendJobLock(r) \/ StartBroadcast(r) \/ EndBroadcast(r) \/ SendJobWrite(r)
      PROVE  TipInv'
  <2>1. /\ UNCHANGED <<nodeTip, currentTip, jobs>>
        /\ \A q \in Refreshers : /\ rpc'[q] = "fetched" => rpc[q] = "fetched" /\ rtip'[q] = rtip[q]
                                 /\ rpc'[q] \in {"lock", "write"} =>
                                      rpc[q] \in {"lock", "write"} /\ rsend'[q] = rsend[q]
    BY <1>6, <1>a DEF SendJobLock, StartBroadcast, EndBroadcast, SendJobWrite, jmVars
  <2> QED
    BY <2>1 DEF TipInv
<1>7. ASSUME NEW s \in Sessions, Fill(s) PROVE TipInv'
  <2>1. want[s] \in Addresses
    BY <1>7 DEF Fill, TypeInv, HeldData
  <2>2. /\ Len(jobs') = Len(jobs)
        /\ \A i \in 1..Len(jobs) : jobs'[i] = FillJob(jobs[i], want[s])
        /\ UNCHANGED <<nodeTip, currentTip, rpc, rtip, rsend>>
    BY <1>7, <1>a, <2>1, FillJobsEffect DEF Fill, FillJobs, refreshVars
  <2>3. \A job \in Job : FillJob(job, want[s]).tip = job.tip
    BY DEF FillJob, Job
  <2>4. \A i \in 1..Len(jobs) : jobs'[i].tip = jobs[i].tip
    BY <1>a, <2>2, <2>3
  <2> QED
    BY <2>2, <2>4 DEF TipInv
<1>8. ASSUME NEW s \in Sessions,
             Connect(s) \/ Subscribe(s) \/ Remove(s) \/ Assign(s) \/ Reply(s) \/ Unregister(s)
      PROVE  TipInv'
  BY <1>1, <1>8 DEF Connect, Subscribe, Remove, Assign, Reply, Unregister, UnregisterAddress, jmVars, refreshVars
<1>9. ASSUME NEW s \in Sessions, NEW a \in Addresses, Authorize(s, a) PROVE TipInv'
  BY <1>1, <1>9 DEF Authorize, CountAddress, refreshVars
<1>10. CASE ZmqFails \/ UNCHANGED vars
  BY <1>1, <1>10 DEF ZmqFails, vars, jmVars, refreshVars
<1> QED
  BY <1>2, <1>3, <1>4, <1>5, <1>6, <1>7, <1>8, <1>9, <1>10 DEF Next, BroadcastStep, HandlerStep

LEMMA OrderStep == TypeInv /\ TipInv /\ ZmqInv /\ OrderInv /\ [Next]_vars => OrderInv'
<1> SUFFICES ASSUME TypeInv, TipInv, ZmqInv, OrderInv, [Next]_vars PROVE OrderInv'
  OBVIOUS
<1> USE DEF OrderInv, PollingOnly
<1>a. rpc \in [Refreshers -> RefreshSteps] /\ rtip \in [Refreshers -> Tips \cup {0}] /\ Poll \in Refreshers
  BY DEF TypeInv, TypeOK, Refreshers
<1>1. CASE UNCHANGED <<zmq, currentTip, rpc, rtip>>
  BY <1>1
<1>2. ASSUME NEW r \in Refreshers, Fetch(r) PROVE OrderInv'
  BY <1>2, <1>a DEF Fetch, TipInv, jmVars
<1>3. ASSUME NEW r \in Refreshers, Install(r) PROVE OrderInv'
  <2>1. rpc[r] = "fetched" /\ rpc'[r] = "installed" /\ zmq' = zmq
    BY <1>3, <1>a DEF Install
  <2>2. PollingOnly => r = Poll
    BY <2>1 DEF ZmqInv, Refreshers
  <2> QED
    BY <2>1, <2>2
<1>4. ASSUME NEW r \in Refreshers, SendJobLock(r) \/ StartBroadcast(r) \/ EndBroadcast(r) \/ SendJobWrite(r)
      PROVE  OrderInv'
  <2>1. /\ currentTip' = currentTip /\ (zmq' \in {"off", "none"} => zmq \in {"off", "none"})
        /\ rpc'[Poll] = "fetched" => rpc[Poll] = "fetched" /\ rtip'[Poll] = rtip[Poll]
    BY <1>4, <1>a DEF SendJobLock, StartBroadcast, EndBroadcast, SendJobWrite, jmVars
  <2> QED
    BY <2>1
<1>5. ASSUME NEW r \in Refreshers, NEW s \in Sessions, Customize(r, s) PROVE OrderInv'
  <2>1. UNCHANGED <<currentTip, zmq, rtip>> /\ (rpc'[Poll] = "fetched" => rpc[Poll] = "fetched")
    BY <1>5, <1>a DEF Customize, jmVars
  <2> QED
    BY <2>1
<1>6. ASSUME NEW s \in Sessions, Connect(s) \/ Subscribe(s) \/ Remove(s) \/ HandlerStep(s) PROVE OrderInv'
  BY <1>1, <1>6 DEF Connect, Subscribe, Remove, HandlerStep, Fill, FillJobs, Assign, Reply, Unregister,
                    UnregisterAddress, jmVars, refreshVars
<1>7. ASSUME NEW s \in Sessions, NEW a \in Addresses, Authorize(s, a) PROVE OrderInv'
  BY <1>1, <1>7 DEF Authorize, CountAddress, refreshVars
<1>8. CASE NewBlock \/ ZmqFails \/ UNCHANGED vars
  BY <1>1, <1>8 DEF NewBlock, ZmqFails, vars, jmVars, refreshVars
<1> QED
  BY <1>2, <1>3, <1>4, <1>5, <1>6, <1>7, <1>8 DEF Next, BroadcastStep

LEMMA GoneStep == TypeInv /\ GoneInv /\ [Next]_vars => GoneInv'
<1> SUFFICES ASSUME TypeInv, GoneInv, [Next]_vars PROVE GoneInv'
  OBVIOUS
<1>a. state \in [Sessions -> States] /\ spc \in [Sessions -> HandlerSteps]
  BY DEF TypeInv, TypeOK
<1>1. CASE UNCHANGED <<state, spc>>
  BY <1>1 DEF GoneInv
<1>2. ASSUME NEW s \in Sessions, Connect(s) \/ Subscribe(s) \/ Remove(s) \/ HandlerStep(s) PROVE GoneInv'
  BY <1>2, <1>a DEF GoneInv, Connect, Subscribe, Remove, HandlerStep, Fill, Assign, Reply, Unregister
<1>3. ASSUME NEW s \in Sessions, NEW a \in Addresses, Authorize(s, a) PROVE GoneInv'
  BY <1>3, <1>a DEF GoneInv, Authorize
<1>4. CASE NewBlock \/ ZmqFails \/ UNCHANGED vars
  BY <1>1, <1>4 DEF NewBlock, ZmqFails, vars, sessionVars
<1>5. ASSUME NEW r \in Refreshers, Fetch(r) \/ Install(r) \/ SendJobLock(r) \/ BroadcastStep(r) PROVE GoneInv'
  BY <1>1, <1>5 DEF Fetch, Install, SendJobLock, BroadcastStep, StartBroadcast, Customize,
                    SendJobWrite, EndBroadcast, sessionVars
<1> QED
  BY <1>2, <1>3, <1>4, <1>5 DEF Next

\* Everything the refinement uses, of one state.
ContractInv ==
  /\ TypeInv /\ CompleteInv /\ TipInv /\ OrderInv /\ ZmqInv /\ GoneInv
  /\ Reauthorize \/ (PaysInv /\ CleanInv)

Account(s) == IF state[s] = "authorized" THEN miningAddress[s] ELSE NoAddress

LEMMA ContractInit == Init => ContractInv /\ Contract!ContractInit
<1> SUFFICES ASSUME Init PROVE ContractInv /\ Contract!ContractInit
  OBVIOUS
<1>1. TipInv
  <2>1. /\ jobs = << >> /\ currentTip = 0 /\ nodeTip \in Nat
        /\ \A r \in Refreshers : rpc[r] = "idle"
    BY ConstTypes DEF Init, JobManagerInit, ConstAssumptions
  <2>2. 1..Len(jobs) = {}
    BY <2>1
  <2> QED
    BY <2>1, <2>2 DEF TipInv
<1>2. OrderInv /\ ZmqInv /\ GoneInv
  BY RefreshersAssumption DEF Init, OrderInv, ZmqInv, GoneInv, Refreshers
<1>3. Contract!ContractInit
  BY DEF Init, JobManagerInit, Contract!ContractInit
<1> QED
  BY <1>1, <1>2, <1>3, TypeInvInit, CompleteInit, PaysInit, WorkInit DEF ContractInv

LEMMA ContractInvStep == ContractInv /\ AuthorizedCovered /\ [Next]_vars => ContractInv'
BY TypeInvStep, CompleteStep, TipStep, OrderStep, ZmqStep, GoneStep, PaysStep, WorkStep DEF ContractInv

\* A job is written to one session: what the contract asks of it, whoever sends it.
LEMMA GiveRefines ==
  ASSUME ContractInv, ContractInv', [Next]_vars, NEW s \in Sessions,
         UNCHANGED <<nodeTip, currentTip, zmq, state, miningAddress>>,
         \A q \in Sessions : q # s => delivered'[q] = delivered[q],
         delivered'[s] # NoJob,
         delivered'[s].tip <= nodeTip,
         ~Reauthorize /\ PollingOnly => delivered'[s].tip = currentTip
  PROVE  Contract!Give(s)
<1>1. Buildable => delivered'[s].coinb1
  BY DEF ContractInv, CompleteInv
<1>2. ~Reauthorize => Account(s) # NoAddress /\ delivered'[s].addr = Account(s)
  <2> SUFFICES ASSUME ~Reauthorize PROVE Account(s) # NoAddress /\ delivered'[s].addr = Account(s)
    OBVIOUS
  <2>1. state[s] = "authorized" /\ delivered'[s].addr = miningAddress[s]
    BY DEF ContractInv, PaysInv
  <2>2. delivered'[s].addr \in Addresses
    BY DEF ContractInv, TypeInv, TypeOK, Notify
  <2> QED
    BY <2>1, <2>2, NoAddressAssumption DEF Account
<1>3. ~Reauthorize /\ PollingOnly =>
        delivered[s] = NoJob \/ delivered[s].tip = currentTip \/ delivered'[s].clean
  <2>1. CleanStep
    BY CleanBroadcast DEF ContractInv
  <2> QED
    BY <2>1 DEF CleanStep, PollingOnly
<1>4. Contract!Others(s)
  BY DEF Contract!Others
<1> QED
  BY <1>1, <1>2, <1>3, <1>4 DEF Contract!Give, Buildable, PollingOnly, Account

LEMMA StepImplements ==
  ContractInv /\ ContractInv' /\ [Next]_vars => [Contract!ContractNext]_(Contract!contractVars)
<1> SUFFICES ASSUME ContractInv, ContractInv', [Next]_vars
             PROVE  Contract!ContractNext \/ UNCHANGED Contract!contractVars
  OBVIOUS
<1> DEFINE goal == Contract!ContractNext \/ UNCHANGED Contract!contractVars
<1>a. /\ state \in [Sessions -> States] /\ spc \in [Sessions -> HandlerSteps]
      /\ delivered \in [Sessions -> {NoJob} \cup Notify]
      /\ miningAddress \in [Sessions -> Addresses \cup {NoAddress}]
      /\ nodeTip \in Nat /\ zmq \in {"off", "none", "up", "lost"}
      /\ jobs \in Seq(Job)
  BY ConstTypes DEF ContractInv, TypeInv, TypeOK, JobManagerTypeOK, ConstAssumptions
<1>1. ASSUME UNCHANGED <<nodeTip, currentTip, zmq, delivered>>,
             \A s \in Sessions : Account(s)' = Account(s)
      PROVE  UNCHANGED Contract!contractVars
  BY <1>1 DEF Contract!contractVars, Account
<1>2. CASE NewBlock
  <2>1. Contract!Advance
    BY <1>2, <1>a DEF NewBlock, Contract!Advance, jmVars, sessionVars
  <2> QED
    BY <2>1 DEF Contract!ContractNext
<1>3. ASSUME NEW r \in Refreshers, Install(r) PROVE goal
  <2>1. /\ rpc[r] = "fetched" /\ currentTip' = rtip[r]
        /\ UNCHANGED <<nodeTip, zmq, state, miningAddress, delivered>>
    BY <1>3 DEF Install, InstallTemplate, sessionVars
  <2>2. currentTip' <= nodeTip
    BY <2>1 DEF ContractInv, TipInv
  <2>3. PollingOnly => currentTip' >= currentTip
    <3>1. PollingOnly => r = Poll
      BY <2>1 DEF ContractInv, ZmqInv, PollingOnly, Refreshers
    <3>2. currentTip \in Int /\ rtip[r] \in Int
      BY ConstTypes DEF ContractInv, TypeInv, TypeOK, JobManagerTypeOK, ConstAssumptions
    <3> QED
      BY <2>1, <3>1, <3>2 DEF ContractInv, OrderInv
  <2>4. Contract!Publish
    BY <2>1, <2>2, <2>3 DEF Contract!Publish, PollingOnly
  <2> QED
    BY <2>4 DEF Contract!ContractNext
<1>4. ASSUME NEW r \in Refreshers, SendJobWrite(r) PROVE goal
  <2>1. rpc[r] = "write" /\ rsend[r] \in Sessions \X Notify
    BY <1>4 DEF SendJobWrite, ContractInv, TypeInv, HeldData
  <2> PICK x \in Sessions : x = rsend[r][1]
    BY <2>1
  <2>2. rsend[r][2] # NoJob
    BY <2>1, NoJobAssumption DEF Notify
  <2>3. /\ delivered'[x] = rsend[r][2]
        /\ \A q \in Sessions : q # x => delivered'[q] = delivered[q]
        /\ UNCHANGED <<nodeTip, currentTip, zmq, state, miningAddress>>
    BY <1>4, <1>a DEF SendJobWrite, jmVars
  <2>4. rsend[r][2].tip <= nodeTip
    BY <2>1 DEF ContractInv, TipInv
  <2>5. ~Reauthorize /\ PollingOnly => rsend[r][2].tip = currentTip
    <3>1. PollingOnly => r = Poll
      BY <2>1 DEF ContractInv, ZmqInv, PollingOnly, Refreshers
    <3> QED
      BY <2>1, <3>1 DEF ContractInv, CleanInv, WorkInv
  <2>6. Contract!Give(x)
    BY <2>2, <2>3, <2>4, <2>5, GiveRefines
  <2> QED
    BY <2>6 DEF Contract!ContractNext
<1>5. ASSUME NEW r \in Refreshers, EndBroadcast(r) PROVE goal
  <2>1. UNCHANGED <<nodeTip, currentTip, state, miningAddress, delivered>>
    BY <1>5 DEF EndBroadcast, jmVars, sessionVars
  <2>2. CASE PollingOnly' = PollingOnly
    BY <2>1, <2>2 DEF Contract!contractVars, PollingOnly
  <2>3. CASE PollingOnly' # PollingOnly
    <3>1. PollingOnly /\ ~PollingOnly'
      BY <1>5, <2>3 DEF EndBroadcast, PollingOnly
    <3>2. Contract!Subscribe
      BY <2>1, <3>1 DEF Contract!Subscribe, PollingOnly
    <3> QED
      BY <3>2 DEF Contract!ContractNext
  <2> QED
    BY <2>2, <2>3
<1>6. ASSUME NEW s \in Sessions, Subscribe(s) \/ Remove(s) PROVE goal
  <2>1. /\ state'[s] # "authorized" /\ delivered'[s] = NoJob
        /\ \A q \in Sessions : q # s => state'[q] = state[q] /\ delivered'[q] = delivered[q]
        /\ UNCHANGED <<nodeTip, currentTip, zmq, miningAddress>>
    BY <1>6, <1>a DEF Subscribe, Remove, jmVars, refreshVars
  <2>2. Contract!Close(s)
    BY <2>1 DEF Contract!Close, Contract!Others
  <2> QED
    BY <2>2 DEF Contract!ContractNext
<1>7. ASSUME NEW s \in Sessions, Assign(s) PROVE goal
  <2>1. /\ state'[s] = "authorized" /\ miningAddress'[s] = want[s] /\ spc[s] = "assign"
        /\ \A q \in Sessions : q # s => state'[q] = state[q] /\ miningAddress'[q] = miningAddress[q]
        /\ UNCHANGED <<nodeTip, currentTip, zmq, delivered>>
    BY <1>7, <1>a DEF Assign, jmVars, refreshVars
  <2>2. want[s] # NoAddress
    BY <2>1, NoAddressAssumption DEF ContractInv, TypeInv, HeldData
  <2>3. ~Reauthorize => state[s] # "authorized" /\ delivered[s] = NoJob
    BY <2>1 DEF ContractInv, PaysInv
  <2>4. Contract!Open(s)
    BY <2>1, <2>2, <2>3 DEF Contract!Open, Contract!Others
  <2> QED
    BY <2>4 DEF Contract!ContractNext
<1>8. ASSUME NEW s \in Sessions, Reply(s) PROVE goal
  <2>1. CASE ~Serves(Len(jobs), miningAddress[s])
    BY <1>1, <1>8, <2>1 DEF Reply, jmVars, refreshVars, Account
  <2>2. CASE Serves(Len(jobs), miningAddress[s])
    <3>1. /\ delivered'[s] = NotifyOf(Newest, miningAddress[s])
          /\ \A q \in Sessions : q # s => delivered'[q] = delivered[q]
          /\ UNCHANGED <<nodeTip, currentTip, zmq, state, miningAddress>>
      BY <1>8, <1>a, <2>2 DEF Reply, jmVars, refreshVars, Newest
    <3>2. NotifyOf(Newest, miningAddress[s]) \in Notify
      BY <2>2, NotifyType DEF Newest, ContractInv, TypeInv, TypeOK
    <3>3. delivered'[s] # NoJob
      BY <3>1, <3>2, NoJobAssumption DEF Notify
    <3>4. Len(jobs) \in 1..Len(jobs) /\ delivered'[s].tip = Newest.tip
      BY <1>a, <2>2, <3>1 DEF Serves, NotifyOf
    <3>5. delivered'[s].tip <= nodeTip
      BY <3>4 DEF ContractInv, TipInv, Newest
    <3>6. ~Reauthorize /\ PollingOnly => delivered'[s].tip = currentTip
      BY <3>4 DEF ContractInv, CleanInv, WorkInv
    <3>7. Contract!Give(s)
      BY <3>1, <3>3, <3>5, <3>6, GiveRefines
    <3> QED
      BY <3>7 DEF Contract!ContractNext
  <2> QED
    BY <2>1, <2>2
<1>9. ASSUME NEW s \in Sessions, Connect(s) \/ Fill(s) \/ Unregister(s) PROVE goal
  <2>1. /\ UNCHANGED <<nodeTip, currentTip, zmq, delivered>>
        /\ \A q \in Sessions : q # s => state'[q] = state[q] /\ miningAddress'[q] = miningAddress[q]
    BY <1>9, <1>a DEF Connect, Fill, FillJobs, Unregister, UnregisterAddress, jmVars, refreshVars
  <2>2. Account(s)' = Account(s)
    BY <1>9, <1>a DEF Connect, Fill, Unregister, Account, ContractInv, GoneInv
  <2>3. \A q \in Sessions : Account(q)' = Account(q)
    BY <2>1, <2>2 DEF Account
  <2> QED
    BY <1>1, <2>1, <2>3
<1>10. ASSUME NEW s \in Sessions, NEW a \in Addresses, Authorize(s, a) PROVE goal
  BY <1>1, <1>10 DEF Authorize, CountAddress, refreshVars, Account
<1>11. ASSUME NEW r \in Refreshers, Fetch(r) \/ SendJobLock(r) \/ StartBroadcast(r) PROVE goal
  BY <1>1, <1>11 DEF Fetch, SendJobLock, StartBroadcast, jmVars, sessionVars, Account
<1>12. ASSUME NEW r \in Refreshers, NEW s \in Sessions, Customize(r, s) PROVE goal
  BY <1>1, <1>12 DEF Customize, jmVars, sessionVars, Account
<1>13. CASE ZmqFails
  BY <1>13 DEF ZmqFails, jmVars, sessionVars, Contract!contractVars
<1>14. CASE UNCHANGED vars
  BY <1>1, <1>14 DEF vars, jmVars, refreshVars, sessionVars, Account
<1> QED
  BY <1>2, <1>3, <1>4, <1>5, <1>6, <1>7, <1>8, <1>9, <1>10, <1>11, <1>12, <1>13, <1>14
     DEF Next, BroadcastStep, HandlerStep

\* The pipeline implements WorkContract, for every number of miners, addresses and retained jobs:
\* no job pays another miner's account or is for a block the node has not seen, and with the poll
\* loop alone neither the coin nor any miner goes back to an earlier block.
THEOREM Implements == Spec => ImplementsContract
<1>1. Spec => []ContractInv
  BY ContractInit, ContractInvStep, AuthorizedCoveredHolds, PTL DEF Spec
<1> QED
  BY <1>1, ContractInit, StepImplements, PTL DEF Spec, ImplementsContract, Contract!ContractSpec

=============================================================================
