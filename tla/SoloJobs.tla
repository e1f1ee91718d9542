------------------------------ MODULE SoloJobs ------------------------------
(***************************************************************************)
(* The solo-mode pipeline of one coin: the job manager, the two goroutines *)
(* that refresh its template (the poll loop and the ZMQ subscriber), the   *)
(* stratum server's broadcast, and the goroutine of each miner session.    *)
(*                                                                         *)
(* A step is what one goroutine does while it holds a lock, or one call it *)
(* makes without holding any.  getblocktemplate is called outside every    *)
(* lock, and the broadcast runs after jm.mu was released, so two refreshes *)
(* overlap freely.                                                         *)
(***************************************************************************)
EXTENDS JobManager, FiniteSets

CONSTANTS
  Sessions,    \* connection slots of the stratum server
  Poll, Zmq,   \* the refreshing goroutines
  NoAddress,   \* miningAddress = ""
  NoJob,       \* nothing was sent to the miner yet
  Reauthorize, \* miners may subscribe and authorize again on a live connection
  MaxCount     \* bound of the model: sessions counted per address

Refreshers == {Poll, Zmq}

ASSUME SessionsAssumption == IsFiniteSet(Sessions)
ASSUME RefreshersAssumption == Poll # Zmq
ASSUME NoAddressAssumption == NoAddress \notin Addresses
ASSUME NoJobAssumption == NoJob \notin [tip : Tips, clean : BOOLEAN,
                                        coinb1 : BOOLEAN, addr : Addresses]
ASSUME BoundsAssumption == Reauthorize \in BOOLEAN /\ MaxCount \in Nat

VARIABLES
  nodeTip,   \* best block of the node (external)
  zmq,       \* "off" before Start ends, then "none" or "up", "lost" after an error
  \* one refreshTemplate and its BroadcastJobPerSession, per goroutine
  rpc,       \* where the goroutine is
  rtip,      \* tip of the template it fetched
  rjob,      \* position in jobs of the job it broadcasts, 0 once pruned
  rtodo,     \* sessions its broadcast has still to visit
  rsend,     \* the customized job in its hands and the session it is for
  \* one Session.Run, per connection
  state,     \* SessionState, "gone" when the slot is not in server.sessions
  spc,       \* where the handler is; s.mu is held unless "idle" or "removed"
  want,      \* address parsed from the worker name being authorized
  miningAddress,
  delivered  \* the last mining.notify written to the connection

refreshVars == <<nodeTip, zmq, rpc, rtip, rjob, rtodo, rsend>>
sessionVars == <<state, spc, want, miningAddress, delivered>>
vars == <<jmVars, refreshVars, sessionVars>>

\* What a miner is sent: a job with the second coinbase half of one address.
Notify == [tip : Tips, clean : BOOLEAN, coinb1 : BOOLEAN, addr : Addresses]

RefreshSteps == {"idle", "fetched", "installed", "broadcast", "lock", "write"}
HandlerSteps == {"idle", "fill", "assign", "reply", "removed"}
States == {"gone", "connected", "subscribed", "authorized"}

TypeOK ==
  /\ JobManagerTypeOK
  /\ nodeTip \in Tips
  /\ zmq \in {"off", "none", "up", "lost"}
  /\ rpc \in [Refreshers -> RefreshSteps]
  /\ rtip \in [Refreshers -> Tips \cup {0}]
  /\ rjob \in [Refreshers -> 0..MaxJobHistory]
  /\ rtodo \in [Refreshers -> SUBSET Sessions]
  /\ rsend \in [Refreshers -> {NoJob} \cup (Sessions \X Notify)]
  /\ state \in [Sessions -> States]
  /\ spc \in [Sessions -> HandlerSteps]
  /\ want \in [Sessions -> Addresses \cup {NoAddress}]
  /\ miningAddress \in [Sessions -> Addresses \cup {NoAddress}]
  /\ delivered \in [Sessions -> {NoJob} \cup Notify]

Init ==
  /\ JobManagerInit
  /\ nodeTip \in {t \in Tips : \A u \in Tips : t <= u}
  /\ zmq = "off"
  /\ rpc = [r \in Refreshers |-> "idle"]
  /\ rtip = [r \in Refreshers |-> 0]
  /\ rjob = [r \in Refreshers |-> 0]
  /\ rtodo = [r \in Refreshers |-> {}]
  /\ rsend = [r \in Refreshers |-> NoJob]
  /\ state = [s \in Sessions |-> "gone"]
  /\ spc = [s \in Sessions |-> "idle"]
  /\ want = [s \in Sessions |-> NoAddress]
  /\ miningAddress = [s \in Sessions |-> NoAddress]
  /\ delivered = [s \in Sessions |-> NoJob]

-----------------------------------------------------------------------------
(* The node                                                                 *)

\* A block is found: the best block hash moves on.
NewBlock ==
  /\ nodeTip + 1 \in Tips
  /\ nodeTip' = nodeTip + 1
  /\ UNCHANGED <<jmVars, zmq, rpc, rtip, rjob, rtodo, rsend, sessionVars>>

-----------------------------------------------------------------------------
(* refreshTemplate and BroadcastJobPerSession                               *)

\* Broadcasts hold sessionsMu for reading: no session comes or goes meanwhile.
Broadcasting(r) == rpc[r] \in {"broadcast", "lock", "write"}
SessionsLocked == \E r \in Refreshers : Broadcasting(r)

\* Session.mu is held by its own handler from handleAuthorize's first statement.
SessionLocked(s) == spc[s] \in {"fill", "assign", "reply"}

\* getblocktemplate answers with the node's tip of that moment.
Fetch(r) ==
  /\ rpc[r] = "idle"
  /\ r = Zmq => zmq = "up"
  /\ rpc' = [rpc EXCEPT ![r] = "fetched"]
  /\ rtip' = [rtip EXCEPT ![r] = nodeTip]
  /\ UNCHANGED <<jmVars, nodeTip, zmq, rjob, rtodo, rsend, sessionVars>>

\* Mutant: a template for the tip already mined on is dropped unless it was forced.
InstallUnlessSameTip(r) ==
  /\ rpc[r] = "fetched"
  /\ IF r = Poll /\ rtip[r] = currentTip
     THEN /\ rpc' = [rpc EXCEPT ![r] = "idle"]
          /\ UNCHANGED <<jmVars, rjob>>
     ELSE /\ InstallTemplate(rtip[r])
          /\ rpc' = [rpc EXCEPT ![r] = "installed"]
          /\ rjob' = [rjob EXCEPT ![r] = Len(jobs')]
  /\ UNCHANGED <<nodeTip, zmq, rtip, rtodo, rsend, sessionVars>>

\* The section under jm.mu.  The other broadcast's position shifts when a job is pruned.
Install(r) ==
  /\ rpc[r] = "fetched"
  /\ InstallTemplate(rtip[r])
  /\ rpc' = [rpc EXCEPT ![r] = "installed"]
  /\ rjob' = [q \in Refreshers |->
                IF q = r THEN Len(jobs')
                ELSE IF Len(jobs') = Len(jobs) /\ rjob[q] > 0 THEN rjob[q] - 1
                ELSE rjob[q]]
  /\ UNCHANGED <<nodeTip, zmq, rtip, rtodo, rsend, sessionVars>>

\* onNewJob, with jm.mu released: sessionsMu.RLock.
StartBroadcast(r) ==
  /\ rpc[r] = "installed"
  /\ rpc' = [rpc EXCEPT ![r] = "broadcast"]
  /\ rtodo' = [rtodo EXCEPT ![r] = {s \in Sessions : state[s] # "gone"}]
  /\ UNCHANGED <<jmVars, nodeTip, zmq, rtip, rjob, rsend, sessionVars>>

\* What the customizer returns a job for.
Served(r, s) ==
  /\ state[s] = "authorized"
  /\ miningAddress[s] # NoAddress
  /\ Serves(rjob[r], miningAddress[s])

NotifyOf(job, a) ==
  [tip |-> job.tip, clean |-> job.clean, coinb1 |-> job.coinb1, addr |-> a]

\* One turn of the broadcast loop up to SendJob: session fields read without s.mu.
Customize(r, s) ==
  /\ rpc[r] = "broadcast"
  /\ s \in rtodo[r]
  /\ rtodo' = [rtodo EXCEPT ![r] = @ \ {s}]
  /\ IF Served(r, s)
     THEN /\ rpc' = [rpc EXCEPT ![r] = "lock"]
          /\ rsend' = [rsend EXCEPT ![r] = <<s, NotifyOf(jobs[rjob[r]], miningAddress[s])>>]
     ELSE UNCHANGED <<rpc, rsend>>
  /\ UNCHANGED <<jmVars, nodeTip, zmq, rtip, rjob, sessionVars>>

\* SendJob waits for s.mu to look at the pending difficulty ...
SendJobLock(r) ==
  /\ rpc[r] = "lock"
  /\ ~SessionLocked(rsend[r][1])
  /\ rpc' = [rpc EXCEPT ![r] = "write"]
  /\ UNCHANGED <<jmVars, nodeTip, zmq, rtip, rjob, rtodo, rsend, sessionVars>>

\* ... and writes the notification after releasing it.
SendJobWrite(r) ==
  /\ rpc[r] = "write"
  /\ rpc' = [rpc EXCEPT ![r] = "broadcast"]
  /\ delivered' = [delivered EXCEPT ![rsend[r][1]] = rsend[r][2]]
  /\ rsend' = [rsend EXCEPT ![r] = NoJob]
  /\ UNCHANGED <<jmVars, nodeTip, zmq, rtip, rjob, rtodo, state, spc, want, miningAddress>>

\* The broadcast returns.  The first refresh is JobManager.Start's: the ZMQ
\* subscriber is started after it, and may fail to.
EndBroadcast(r) ==
  /\ rpc[r] = "broadcast"
  /\ rtodo[r] = {}
  /\ rpc' = [rpc EXCEPT ![r] = "idle"]
  /\ rtip' = [rtip EXCEPT ![r] = 0]
  /\ rjob' = [rjob EXCEPT ![r] = 0]
  /\ zmq' \in IF zmq = "off" THEN {"up", "none"} ELSE {zmq}
  /\ UNCHANGED <<jmVars, nodeTip, rtodo, rsend, sessionVars>>

\* The subscriber's receive loop ends on any error; polling remains.
ZmqFails ==
  /\ zmq = "up"
  /\ rpc[Zmq] = "idle"
  /\ zmq' = "lost"
  /\ UNCHANGED <<jmVars, nodeTip, rpc, rtip, rjob, rtodo, rsend, sessionVars>>

-----------------------------------------------------------------------------
(* The session goroutine                                                    *)

\* acceptLoop: addSession needs sessionsMu for writing.
Connect(s) ==
  /\ state[s] = "gone"
  /\ spc[s] = "idle"
  /\ ~SessionsLocked
  /\ state' = [state EXCEPT ![s] = "connected"]
  /\ UNCHANGED <<jmVars, refreshVars, spc, want, miningAddress, delivered>>

\* handleSubscribe: a new subscription voids the work the miner had.
Subscribe(s) ==
  /\ state[s] # "gone"
  /\ spc[s] = "idle"
  /\ Reauthorize \/ state[s] = "connected"
  /\ state' = [state EXCEPT ![s] = "subscribed"]
  /\ delivered' = [delivered EXCEPT ![s] = NoJob]
  /\ UNCHANGED <<jmVars, refreshVars, spc, want, miningAddress>>

\* handleAuthorize takes s.mu; the authorize handler counts the address.  Only the
\* session that finds it new goes on to build its coinbases.
Authorize(s, a) ==
  /\ state[s] \in {"subscribed", "authorized"}
  /\ spc[s] = "idle"
  /\ Reauthorize \/ state[s] = "subscribed"
  /\ connectedAddrs[a] < MaxCount
  /\ CountAddress(a)
  /\ want' = [want EXCEPT ![s] = a]
  /\ spc' = [spc EXCEPT ![s] = IF IsNew(a) THEN "fill" ELSE "assign"]
  /\ UNCHANGED <<refreshVars, state, miningAddress, delivered>>

\* RegisterAddress, second half, under jm.mu.
Fill(s) ==
  /\ spc[s] = "fill"
  /\ FillJobs(want[s])
  /\ spc' = [spc EXCEPT ![s] = "assign"]
  /\ UNCHANGED <<refreshVars, state, want, miningAddress, delivered>>

\* handleAuthorize after the handler: the address, then the state.
Assign(s) ==
  /\ spc[s] = "assign"
  /\ miningAddress' = [miningAddress EXCEPT ![s] = want[s]]
  /\ want' = [want EXCEPT ![s] = NoAddress]
  /\ state' = [state EXCEPT ![s] = "authorized"]
  /\ spc' = [spc EXCEPT ![s] = "reply"]
  /\ UNCHANGED <<jmVars, refreshVars, delivered>>

\* Mutant: the authorization is answered with the oldest retained job.
ReplyOldest(s) ==
  /\ spc[s] = "reply"
  /\ delivered' = IF Serves(1, miningAddress[s])
                  THEN [delivered EXCEPT ![s] = NotifyOf(jobs[1], miningAddress[s])]
                  ELSE delivered
  /\ spc' = [spc EXCEPT ![s] = "idle"]
  /\ UNCHANGED <<jmVars, refreshVars, state, want, miningAddress>>

\* GetJobForAddress: the newest job, if it can be served; then s.mu is released.
Reply(s) ==
  /\ spc[s] = "reply"
  /\ delivered' = IF Serves(Len(jobs), miningAddress[s])
                  THEN [delivered EXCEPT ![s] = NotifyOf(jobs[Len(jobs)], miningAddress[s])]
                  ELSE delivered
  /\ spc' = [spc EXCEPT ![s] = "idle"]
  /\ UNCHANGED <<jmVars, refreshVars, state, want, miningAddress>>

\* Run ends: removeSession takes the session out of the map ...
Remove(s) ==
  /\ state[s] # "gone"
  /\ spc[s] = "idle"
  /\ ~SessionsLocked
  /\ state' = [state EXCEPT ![s] = "gone"]
  /\ spc' = [spc EXCEPT ![s] = IF miningAddress[s] = NoAddress THEN "idle" ELSE "removed"]
  /\ delivered' = [delivered EXCEPT ![s] = NoJob]
  /\ UNCHANGED <<jmVars, refreshVars, want, miningAddress>>

\* ... and the removal callback unregisters the address it ended with.
Unregister(s) ==
  /\ spc[s] = "removed"
  /\ UnregisterAddress(miningAddress[s])
  /\ miningAddress' = [miningAddress EXCEPT ![s] = NoAddress]
  /\ spc' = [spc EXCEPT ![s] = "idle"]
  /\ UNCHANGED <<refreshVars, state, want, delivered>>

-----------------------------------------------------------------------------
BroadcastStep(r) ==
  \/ StartBroadcast(r)
  \/ \E s \in Sessions : Customize(r, s)
  \/ SendJobWrite(r)
  \/ EndBroadcast(r)

HandlerStep(s) == Fill(s) \/ Assign(s) \/ Reply(s) \/ Unregister(s)

Next ==
  \/ NewBlock
  \/ ZmqFails
  \/ \E r \in Refreshers : Fetch(r) \/ Install(r) \/ SendJobLock(r) \/ BroadcastStep(r)
  \/ \E s \in Sessions : Connect(s) \/ Subscribe(s) \/ Remove(s) \/ HandlerStep(s)
  \/ \E s \in Sessions, a \in Addresses : Authorize(s, a)

Spec == Init /\ [][Next]_vars

\* The poll ticker keeps firing, a goroutine that can run does run, and Go's
\* mutexes hand over to a waiter that starves, so SendJob gets s.mu in the end.
Fairness ==
  /\ WF_vars(Fetch(Poll))
  /\ \A r \in Refreshers : /\ WF_vars(Install(r))
                           /\ WF_vars(BroadcastStep(r))
                           /\ SF_vars(SendJobLock(r))
  /\ \A s \in Sessions : WF_vars(HandlerStep(s))

FairSpec == Spec /\ Fairness

-----------------------------------------------------------------------------
(* Properties                                                               *)

Filling(a) == \E s \in Sessions : spc[s] = "fill" /\ want[s] = a

\* An address counted as connected, whose first session has finished registering
\* it, has a coinbase in every retained job (RegisterAddress and refreshTemplate
\* between them, though each runs under its own lock).
Coinb2Coverage ==
  \A a \in Connected \ Unbuildable :
    Filling(a) \/ \A i \in 1..Len(jobs) : a \in jobs[i].coinb2s

\* An authorized miner's address is counted and, once no session is still building
\* its coinbases, every retained job can be served to that miner and its shares
\* validated: another session's disconnect never takes its work away.
AuthorizedCovered ==
  \A s \in Sessions :
    LET a == miningAddress[s] IN
      (a # NoAddress /\ a \notin Unbuildable) =>
        /\ connectedAddrs[a] > 0
        /\ Filling(a) \/ \A i \in 1..Len(jobs) : a \in jobs[i].coinb2s

\* A job a miner was sent always has its first coinbase half, also when it was
\* built before anyone was connected (the coinb1 repair in RegisterAddress).
NotifiedComplete ==
  (Unbuildable = {} \/ HasFallback) =>
    \A s \in Sessions : delivered[s] # NoJob => delivered[s].coinb1

\* A miner that authorized once on its connection only ever works for its own address,
\* whatever broadcasts were in flight while it authorized or its slot was reused.
PaysOwnAddress ==
  Reauthorize \/ \A s \in Sessions :
    delivered[s] # NoJob => delivered[s].addr = miningAddress[s]

\* With polling alone, a miner is never moved to another block by a job that
\* does not tell it to drop its work (CleanJobs).
CleanOnTipChange ==
  [][ \A s \in Sessions :
        (/\ delivered[s] # NoJob /\ delivered'[s] # NoJob
         /\ delivered'[s].tip # delivered[s].tip
         /\ zmq \in {"off", "none"} /\ ~Reauthorize)
        => delivered'[s].clean ]_vars

\* The sessions an address is counted for: they hold it, until their removal callback
\* has run, or their authorize handler has counted it and they will.
Users(a) == {s \in Sessions :
               miningAddress[s] = a \/ (spc[s] \in {"fill", "assign"} /\ want[s] = a)}

\* When miners authorize once, RegisterAddress and UnregisterAddress balance: an address
\* is counted exactly once for each session that uses it, so that it is dropped with the
\* last of them and no refresh goes on building coinbases for a miner that left.
CountsItsSessions ==
  Reauthorize \/ \A a \in Addresses : connectedAddrs[a] = Cardinality(Users(a))

\* The pipeline as its miners see it: an account opens when a session becomes authorized.
Contract == INSTANCE WorkContract WITH
  Miners <- Sessions, Nobody <- NoAddress, NoWork <- NoJob, Once <- ~Reauthorize,
  Complete <- Unbuildable = {} \/ HasFallback,
  tip <- nodeTip, published <- currentTip, polling <- zmq \in {"off", "none"},
  account <- [s \in Sessions |-> IF state[s] = "authorized" THEN miningAddress[s] ELSE NoAddress],
  work <- delivered

\* Every step of the goroutines is a step of that contract, or none of it: no job pays
\* another miner or is for a block the node has not seen, and with the poll loop alone
\* the coin never goes back to an earlier block, and neither does a job.
ImplementsContract == Contract!ContractSpec

\* A connected, authorized miner is eventually working on the node's best block,
\* even when its authorization found no job, when a stale template overwrote a
\* newer one, or when a broadcast passed it over.
WorksOnTip ==
  \A s \in Sessions :
    (state[s] = "authorized")
      ~> (state[s] # "authorized" \/ (delivered[s] # NoJob /\ delivered[s].tip = nodeTip))
=============================================================================
