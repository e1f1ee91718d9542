--------------------------- MODULE StratumSession ---------------------------
(***************************************************************************)
(* The difficulty of one stratum session                                   *)
(* (pocisys-bchn-sp/pkg/stratum/session.go, vardiff.go): the goroutine     *)
(* that handles the miner's requests, and the goroutines that broadcast    *)
(* jobs to it.  The session's fields change under s.mu, the vardiff window *)
(* under no lock at all, and every message to the miner is written after   *)
(* the lock that guarded its content was released (only mining.authorize   *)
(* writes while it holds s.mu).                                            *)
(*                                                                         *)
(* Abstractions.  A job is its clean_jobs flag; what else it is, and which *)
(* one a miner gets, is in SoloJobs.  How RecordShare computes a           *)
(* difficulty from share times is left open: with enough shares in its     *)
(* window it may settle on any other one.  The miner is the difficulty     *)
(* that was last written to it.                                            *)
(***************************************************************************)
EXTENDS Integers

CONSTANTS
  Poll, Zmq,    \* the goroutines that broadcast jobs
  Diffs,        \* difficulties within the vardiff bounds
  DefaultDiff,  \* stratum.difficulty
  MinShares,    \* shares RecordShare needs in its window (4 in the code)
  Scenarios     \* the configurations and habits explored

ASSUME BroadcastersAssumption == Poll # Zmq
ASSUME DiffsAssumption == Diffs \subseteq Nat \ {0} /\ DefaultDiff \in Diffs
ASSUME SharesAssumption == MinShares \in Nat \ {0}

Configs == [solo : BOOLEAN,        \* mining mode
            onNewBlock : BOOLEAN,  \* vardiff.on_new_block
            zmq : BOOLEAN,         \* the ZMQ goroutine broadcasts too
            chooses : BOOLEAN,     \* suggest_difficulty honoured, d= in passwords
            again : BOOLEAN]       \* subscribe and authorize repeated on a connection

ASSUME ScenariosAssumption == Scenarios \subseteq Configs

VARIABLES
  cfg,          \* configuration and habits of the miner, fixed at the start
  \* the session and its server
  state,        \* SessionState
  difficulty, prevDiff, pendingDiff,
  base,         \* vardiff.currentDiff
  shares,       \* len(vardiff.shareTimes), as far as MinShares
  \* the session goroutine: where it is, and the difficulty in its hands
  hpc, hdiff,
  \* the broadcasting goroutines
  bpc, bdiff, bclean,
  \* the miner: the last difficulty written to it
  told,
  \* history: whether a change of the difficulty went astray on its way to the miner, and
  \* to vardiff's window, and was not made good by a later one yet
  word, window

sessionVars == <<state, difficulty, prevDiff, pendingDiff>>
vardiffVars == <<base, shares>>
handlerVars == <<hpc, hdiff>>
broadcastVars == <<bpc, bdiff, bclean>>
historyVars == <<word, window>>
vars == <<cfg, sessionVars, vardiffVars, handlerVars, broadcastVars, told, historyVars>>

Broadcasters == {Poll, Zmq}

HandlerSteps == {"idle", "authTell", "suggestTell", "record", "queue",
                 "midSet", "midTell", "midReset"}
BroadcastSteps == {"idle", "visit", "lock", "tell", "reset"}
Courses == {"kept", "astray", "mending"}

TypeOK ==
  /\ cfg \in Configs
  /\ state \in {"connected", "subscribed", "authorized"}
  /\ difficulty \in Diffs /\ base \in Diffs
  /\ {prevDiff, pendingDiff, hdiff, told} \subseteq Diffs \cup {0}
  /\ shares \in 0..MinShares
  /\ hpc \in HandlerSteps
  /\ bpc \in [Broadcasters -> BroadcastSteps]
  /\ bdiff \in [Broadcasters -> Diffs \cup {0}]
  /\ bclean \in [Broadcasters -> BOOLEAN]
  /\ {word, window} \subseteq Courses

Init ==
  /\ cfg \in Scenarios
  /\ state = "connected"
  /\ difficulty = DefaultDiff /\ base = DefaultDiff
  /\ prevDiff = 0 /\ pendingDiff = 0
  /\ shares = 0
  /\ hpc = "idle" /\ hdiff = 0
  /\ bpc = [b \in Broadcasters |-> "idle"]
  /\ bdiff = [b \in Broadcasters |-> 0]
  /\ bclean = [b \in Broadcasters |-> FALSE]
  /\ told = 0
  /\ word = "kept" /\ window = "kept"

\* s.mu is held across steps by handleAuthorize alone.
MuFree == hpc # "authTell"

\* A difficulty is in force that the miner was not told yet.
Telling == hpc \in {"suggestTell", "midTell"} \/ \E b \in Broadcasters : bpc[b] = "tell"

\* A difficulty is in force that vardiff's window was not restarted with yet.
Resetting == hpc \in {"midTell", "midReset"} \/ \E b \in Broadcasters : bpc[b] \in {"tell", "reset"}

\* History: a change goes astray when it is made while another is on its way, for either
\* may arrive last; the next one that is alone on its way makes it good.
Sent(course, crossing) ==
  IF crossing THEN "astray" ELSE IF course = "kept" THEN "kept" ELSE "mending"
Arrived(course) == IF course = "mending" THEN "kept" ELSE course

\* Mutant: the difficulty the session had before is not kept.
SetDifficultyOnly(d) ==
  /\ difficulty' = d
  /\ UNCHANGED prevDiff

\* prevDiff, diffChangedAt and difficulty, wherever the difficulty is set under s.mu.
SetDifficulty(d) ==
  /\ prevDiff' = difficulty
  /\ difficulty' = d

-----------------------------------------------------------------------------
(* BroadcastJob and BroadcastJobPerSession, for this session                *)

\* The sessions are locked for reading.
Publish(b, clean) ==
  /\ bpc[b] = "idle"
  /\ b = Zmq => cfg.zmq
  /\ bclean' = [bclean EXCEPT ![b] = clean]
  /\ bpc' = [bpc EXCEPT ![b] = "visit"]
  /\ UNCHANGED <<cfg, sessionVars, vardiffVars, handlerVars, bdiff, told, historyVars>>

\* SendJob is over, or was not called.
Done(b) ==
  /\ bpc' = [bpc EXCEPT ![b] = "idle"]
  /\ bclean' = [bclean EXCEPT ![b] = FALSE]

\* The state is read without s.mu.
Visit(b) ==
  /\ bpc[b] = "visit"
  /\ IF state = "authorized"
     THEN bpc' = [bpc EXCEPT ![b] = "lock"] /\ UNCHANGED bclean
     ELSE Done(b)
  /\ UNCHANGED <<cfg, sessionVars, vardiffVars, handlerVars, bdiff, told, historyVars>>

\* Mutant: only the ZMQ goroutine's broadcasts apply it.
FlushesOnZmq(b) == b = Zmq /\ pendingDiff > 0 /\ (~cfg.onNewBlock \/ bclean[b])

Flushes(b) == pendingDiff > 0 /\ (~cfg.onNewBlock \/ bclean[b])

\* SendJob under s.mu: the pending difficulty takes effect.
Flush(b) ==
  /\ bpc[b] = "lock" /\ MuFree
  /\ IF Flushes(b)
     THEN /\ SetDifficulty(pendingDiff)
          /\ pendingDiff' = 0
          /\ bdiff' = [bdiff EXCEPT ![b] = pendingDiff]
          /\ bpc' = [bpc EXCEPT ![b] = "tell"] /\ UNCHANGED bclean
          /\ word' = Sent(word, Telling) /\ window' = Sent(window, Resetting)
     ELSE /\ Done(b)
          /\ UNCHANGED <<difficulty, prevDiff, pendingDiff, bdiff, historyVars>>
  /\ UNCHANGED <<cfg, state, vardiffVars, handlerVars, told>>

\* mining.set_difficulty is written with s.mu released.
Tell(b) ==
  /\ bpc[b] = "tell"
  /\ told' = bdiff[b]
  /\ word' = Arrived(word)
  /\ bpc' = [bpc EXCEPT ![b] = "reset"]
  /\ UNCHANGED <<cfg, sessionVars, vardiffVars, handlerVars, bdiff, bclean, window>>

\* Mutant: the window restarts from the difficulty that was just replaced.
ResetToPrevious(b) ==
  /\ bpc[b] = "reset"
  /\ base' = prevDiff /\ shares' = 0
  /\ window' = Arrived(window)
  /\ bdiff' = [bdiff EXCEPT ![b] = 0]
  /\ Done(b)
  /\ UNCHANGED <<cfg, sessionVars, handlerVars, told, word>>

\* vardiff.ResetWindow, under no lock; the job is written.
Reset(b) ==
  /\ bpc[b] = "reset"
  /\ base' = bdiff[b] /\ shares' = 0
  /\ window' = Arrived(window)
  /\ bdiff' = [bdiff EXCEPT ![b] = 0]
  /\ Done(b)
  /\ UNCHANGED <<cfg, sessionVars, handlerVars, told, word>>

-----------------------------------------------------------------------------
(* The session goroutine                                                    *)

Subscribe ==
  /\ hpc = "idle"
  /\ cfg.again \/ state = "connected"
  /\ state' = "subscribed"
  /\ UNCHANGED <<cfg, difficulty, prevDiff, pendingDiff, vardiffVars, handlerVars,
                 broadcastVars, told, historyVars>>

\* handleAuthorize up to its answer.  A d= in the password (0: none) sets the
\* difficulty before the solo handler may reject the worker.
Authorize(d, accepted) ==
  /\ hpc = "idle"
  /\ state = "subscribed" \/ (cfg.again /\ state = "authorized")
  /\ d # 0 => cfg.chooses
  /\ accepted \/ cfg.solo
  /\ IF d = 0 THEN UNCHANGED <<difficulty, prevDiff>> ELSE SetDifficulty(d)
  /\ IF accepted
     THEN state' = "authorized" /\ hpc' = "authTell"
     ELSE UNCHANGED <<state, hpc>>
  /\ word' = IF accepted THEN Sent(word, Telling) ELSE IF d = 0 THEN word ELSE "astray"
  /\ window' = IF d = 0 THEN window ELSE "astray"
  /\ UNCHANGED <<cfg, pendingDiff, vardiffVars, hdiff, broadcastVars, told>>

\* The difficulty and the job are written with s.mu held.
AuthorizeTell ==
  /\ hpc = "authTell"
  /\ told' = difficulty
  /\ word' = Arrived(word)
  /\ hpc' = "idle"
  /\ UNCHANGED <<cfg, sessionVars, vardiffVars, hdiff, broadcastVars, window>>

\* handleSuggestDifficulty, clamped to the bounds; allowed in every state.  Vardiff's window
\* is not restarted.
Suggest(d) ==
  /\ hpc = "idle" /\ cfg.chooses
  /\ SetDifficulty(d)
  /\ hpc' = "suggestTell" /\ hdiff' = d
  /\ word' = Sent(word, Telling) /\ window' = "astray"
  /\ UNCHANGED <<cfg, state, pendingDiff, vardiffVars, broadcastVars, told>>

SuggestTell ==
  /\ hpc = "suggestTell"
  /\ told' = hdiff
  /\ word' = Arrived(word)
  /\ hpc' = "idle" /\ hdiff' = 0
  /\ UNCHANGED <<cfg, sessionVars, vardiffVars, broadcastVars, window>>

\* Mutant: shares are measured while a difficulty waits for the next block.
SubmitMeasured ==
  /\ hpc = "idle" /\ state = "authorized"
  /\ hpc' = "record"
  /\ UNCHANGED <<cfg, sessionVars, vardiffVars, hdiff, broadcastVars, told, historyVars>>

\* handleSubmit of an accepted share, up to its look at pendingDiff.
Submit ==
  /\ hpc = "idle" /\ state = "authorized"
  /\ pendingDiff = 0
  /\ hpc' = "record"
  /\ UNCHANGED <<cfg, sessionVars, vardiffVars, hdiff, broadcastVars, told, historyVars>>

\* RecordShare without an adjustment.
RecordShare ==
  /\ hpc = "record"
  /\ shares' = IF shares < MinShares THEN shares + 1 ELSE shares
  /\ hpc' = "idle"
  /\ UNCHANGED <<cfg, sessionVars, base, hdiff, broadcastVars, told, historyVars>>

\* Mutant: the new difficulty is rounded up past its bound.
AdjustRoundedUp(d) ==
  /\ hpc = "record" /\ shares + 1 >= MinShares
  /\ base' = d + 1 /\ shares' = 0
  /\ hdiff' = d
  /\ hpc' = IF cfg.onNewBlock THEN "queue" ELSE "midSet"
  /\ UNCHANGED <<cfg, sessionVars, broadcastVars, told, historyVars>>

\* RecordShare with one: the window restarts, the new difficulty is sent at once or
\* queued for the next block.
Adjust(d) ==
  /\ hpc = "record" /\ shares + 1 >= MinShares
  /\ d # base
  /\ base' = d /\ shares' = 0
  /\ hdiff' = d
  /\ hpc' = IF cfg.onNewBlock THEN "queue" ELSE "midSet"
  /\ UNCHANGED <<cfg, sessionVars, broadcastVars, told, historyVars>>

Queue ==
  /\ hpc = "queue"
  /\ pendingDiff' = hdiff
  /\ hpc' = "idle" /\ hdiff' = 0
  /\ UNCHANGED <<cfg, state, difficulty, prevDiff, vardiffVars, broadcastVars, told, historyVars>>

\* sendMidBlockDifficulty.
MidBlockSet ==
  /\ hpc = "midSet"
  /\ SetDifficulty(hdiff)
  /\ pendingDiff' = 0
  /\ hpc' = "midTell"
  /\ word' = Sent(word, Telling) /\ window' = Sent(window, Resetting)
  /\ UNCHANGED <<cfg, state, vardiffVars, hdiff, broadcastVars, told>>

MidBlockTell ==
  /\ hpc = "midTell"
  /\ told' = hdiff
  /\ word' = Arrived(word)
  /\ hpc' = "midReset"
  /\ UNCHANGED <<cfg, sessionVars, vardiffVars, hdiff, broadcastVars, window>>

\* The server's current job is written again.
MidBlockReset ==
  /\ hpc = "midReset"
  /\ base' = hdiff /\ shares' = 0
  /\ window' = Arrived(window)
  /\ hpc' = "idle" /\ hdiff' = 0
  /\ UNCHANGED <<cfg, sessionVars, broadcastVars, told, word>>

\* The connection ends (removeSession waits for the broadcasts) and the miner comes
\* back as a new session.
Reconnect ==
  /\ hpc = "idle"
  /\ \A b \in Broadcasters : bpc[b] = "idle"
  /\ state # "connected"
  /\ state' = "connected"
  /\ difficulty' = DefaultDiff /\ base' = DefaultDiff
  /\ prevDiff' = 0 /\ pendingDiff' = 0
  /\ shares' = 0
  /\ told' = 0
  /\ word' = "kept" /\ window' = "kept"
  /\ UNCHANGED <<cfg, handlerVars, broadcastVars>>

-----------------------------------------------------------------------------
BroadcastStep(b) == Visit(b) \/ Flush(b) \/ Tell(b) \/ Reset(b)

HandlerStep ==
  \/ AuthorizeTell
  \/ SuggestTell
  \/ RecordShare \/ (\E d \in Diffs : Adjust(d))
  \/ Queue
  \/ MidBlockSet \/ MidBlockTell \/ MidBlockReset

Request ==
  \/ Subscribe
  \/ \E d \in Diffs \cup {0}, accepted \in BOOLEAN : Authorize(d, accepted)
  \/ \E d \in Diffs : Suggest(d)
  \/ Submit
  \/ Reconnect

Next ==
  \/ \E b \in Broadcasters, clean \in BOOLEAN : Publish(b, clean)
  \/ \E b \in Broadcasters : BroadcastStep(b)
  \/ HandlerStep
  \/ Request

Spec == Init /\ [][Next]_vars

\* A goroutine that can run does run, s.mu reaches a waiter that keeps asking for it,
\* and blocks keep being found.
Fairness ==
  /\ \A b \in Broadcasters : WF_vars(BroadcastStep(b)) /\ SF_vars(Flush(b))
  /\ WF_vars(HandlerStep)
  /\ SF_vars(Publish(Poll, TRUE))

FairSpec == Spec /\ Fairness

-----------------------------------------------------------------------------
(* Properties                                                               *)

\* An authorized miner works at the session's difficulty, or at the one before it while a
\* change is on its way: the two the share validator accepts within its grace period.  Where
\* two goroutines' changes crossed on their way to the miner, which no lock prevents, it may
\* work at another one, but no longer than until the next change that is alone on its way.
ToldDifficulty ==
  (word = "kept" /\ state = "authorized" /\ hpc # "authTell") =>
    told = IF Telling THEN prevDiff ELSE difficulty

\* Between a decision of vardiff and its delivery no share is measured; otherwise vardiff
\* computes from the difficulty in force.  Where the miner chose its own, which vardiff is not
\* told, or two deliveries crossed, it does so again from its next delivery on.
VardiffTracks ==
  (/\ window = "kept"
   /\ pendingDiff = 0 /\ hpc \notin {"queue", "midSet"}
   /\ \A b \in Broadcasters : bpc[b] \notin {"tell", "reset"})
    => base = difficulty

\* A queued difficulty leaves the queue only by taking effect, or with the session: no
\* later share, choice of the miner or change in the middle of a block replaces or drops it.
QueuedTakesEffect ==
  [][pendingDiff > 0 =>
       \/ pendingDiff' = pendingDiff
       \/ pendingDiff' = 0 /\ difficulty' = pendingDiff
       \/ state' = "connected"]_vars

\* And it does take effect, unless the miner leaves or starts over.
PendingDelivered == (pendingDiff > 0) ~> (pendingDiff = 0 \/ state # "authorized")
=============================================================================
