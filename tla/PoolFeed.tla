------------------------------ MODULE PoolFeed ------------------------------
(***************************************************************************)
(* PoolLogService (pocisys-hash-monitor/services/pool_logs.py) for one     *)
(* pool whose API it polls, composed with the port it polls: block alerts  *)
(* for the candidates it did not see before, and the share history and     *)
(* best difficulty it keeps on disk.                                       *)
(*                                                                         *)
(* All of it runs on one event loop.  The poll waits while a thread reads  *)
(* the API and at every block alert, which never raises; the user clears   *)
(* the history or edits the pools in between, and the process restarts at  *)
(* any moment.  Writing the history may fail, and leaves the old file.     *)
(*                                                                         *)
(* Abstractions.  Workers are known by their shares; the names beside the  *)
(* best difficulties, the statuses shown and the pool whose API is read    *)
(* for one address are left out; a list of rows is the set of them, and    *)
(* the order of a list is that of the numbers or times its rows carry.     *)
(* Candidates are above height 1, so that none is passed over as a row the *)
(* engine begins with.                                                     *)
(***************************************************************************)
EXTENDS PoolPort

CONSTANTS
  Shown,        \* blocks of a list that are looked at, 10 in the code
  Identity(_),  \* what a candidate is known by: its height, session and worker
  Restarts,     \* whether the process may restart
  Edits,        \* whether the user may clear the history and edit the pools
  Nothing       \* no best yet, no reset yet, no blocks seen yet, no snapshot

ASSUME ShownAssumption == Shown \in Nat

VARIABLES
  configured,   \* the pool is in the configuration
  pc,
  snapshot,     \* what the port answered
  unannounced,  \* identities of the snapshot to be announced
  seen,         \* seen_blocks
  history,      \* share_history
  best, session,  \* all_time_best and session_best
  reset,        \* reset_after
  file,         \* the history on disk
  \* history, for the properties
  news,         \* identities announced, and those there when the process first looked
  cleared,      \* when the user last cleared the history and was told so
  saved         \* the last attempt to write the file succeeded

memoryVars == <<seen, history, best, session, reset>>
diskVars == <<file, saved>>
feedVars == <<configured, pc, snapshot, unannounced, memoryVars, diskVars, news, cleared>>
vars == <<portVars, feedVars>>

Bests == Nat \cup {Nothing}
Times == Nat \cup {Nothing}
Stored == [history : SUBSET Share, best : Bests, reset : Times]
Snapshots == [blocks : SUBSET Ids, shares : SUBSET Share, worker : Bests]

ASSUME NothingAssumption == Nothing \notin Nat /\ Nothing \notin Snapshots

Identities(rowset) == {Identity(i) : i \in rowset}

Memory == [history |-> history, best |-> best, reset |-> reset]

TypeOK ==
  /\ PortTypeOK
  /\ configured \in BOOLEAN
  /\ pc \in {"wait", "asked", "answered", "asking", "merging"}
  /\ snapshot \in Snapshots \cup {Nothing}
  /\ unannounced \subseteq Identities(Ids)
  /\ seen = Nothing \/ seen \subseteq Identities(Ids)
  /\ history \subseteq Share /\ Cardinality(history) <= Kept
  /\ best \in Bests /\ session \in Bests /\ reset \in Times
  /\ file \in Stored /\ saved \in BOOLEAN
  /\ pc \in {"answered", "asking", "merging"} <=> snapshot # Nothing

Init ==
  /\ PortInit
  /\ configured = TRUE
  /\ pc = "wait" /\ snapshot = Nothing /\ unannounced = {}
  /\ seen = Nothing /\ history = {} /\ best = Nothing /\ session = Nothing /\ reset = Nothing
  /\ file = Memory /\ saved = TRUE
  /\ news = {} /\ cleared = Nothing

-----------------------------------------------------------------------------
(* Polling                                                                  *)

Exceeds(a, b) == a # Nothing /\ (b # Nothing => a > b)
Better(a, b) == IF Exceeds(b, a) THEN b ELSE a
Highest(set) == IF set = {} THEN Nothing ELSE Max({Difficulty(s.header) : s \in set})

AsShares(set) == {[header |-> r.header, time |-> r.time] : r \in set}

\* candidates()
Listed == {i \in Ids : candidates[i] # Unlisted}

Older(i, blocks) == Identities({j \in blocks : j < i})

LookedButNewest(blocks) ==
  Identities({i \in blocks : Cardinality(Older(i, blocks)) < Shown /\ \E j \in blocks : j > i})

\* The identities of the list that are looked at: the last ten of it, which are the oldest ones
\* of the port's list, for the list of the stock pool begins with the oldest.
Looked(blocks) == Identities({i \in blocks : Cardinality(Older(i, blocks)) < Shown})

SeenFirst == IF seen = Nothing THEN Looked(snapshot.blocks) ELSE seen

SeenAfter == Looked(snapshot.blocks)

Ask ==
  /\ pc = "wait" /\ configured
  /\ pc' = "asked"
  /\ UNCHANGED <<portVars, configured, snapshot, unannounced, memoryVars, diskVars, news, cleared>>

NoAnswer ==
  /\ pc = "asked"
  /\ pc' = "wait"
  /\ UNCHANGED <<portVars, configured, snapshot, unannounced, memoryVars, diskVars, news, cleared>>

\* A worker's row holds its best share since it connected.
Answer ==
  /\ pc = "asked"
  /\ pc' = "answered"
  /\ \E worker \in {Nothing, Highest(accepted)} :
       snapshot' = [blocks |-> Listed, shares |-> AsShares(shares), worker |-> worker]
  /\ unannounced' = IF seen = Nothing THEN {} ELSE Looked(Listed) \ seen
  /\ news' = IF seen = Nothing THEN Identities(Listed) ELSE news
  /\ UNCHANGED <<portVars, configured, memoryVars, diskVars, cleared>>

Announce(block) ==
  /\ block \in unannounced
  /\ unannounced' = unannounced \ {block}
  /\ news' = news \cup {block}
  /\ UNCHANGED <<portVars, configured, pc, snapshot, memoryVars, diskVars, cleared>>

LatestAll(set) == set

Later(s, t) == s.time > t.time \/ (s.time = t.time /\ s.header > t.header)

\* The newest of the shares, by time; equal times are told apart by their ids.
Latest(set) == {s \in set : Cardinality({t \in set : Later(t, s)}) < Kept}

\* The list of ids, in the order shown.
Ranked(set) == {<<p[1].header, p[2].header>> : p \in {p \in set \X set : ~ Later(p[2], p[1])}}

\* One share may be listed again with another time.
Merged(fresh) == {s \in history : \A f \in fresh : f.header # s.header} \cup fresh

\* A new share, another order of the ids, or a better one.
Changed(fresh) ==
  \/ \E f \in fresh : \A s \in history : s.header # f.header
  \/ Ranked(Latest(Merged(fresh))) # Ranked(history)
  \/ Exceeds(Highest(fresh), session) \/ Exceeds(Highest(fresh), best)

ObservedAlways == snapshot.worker

\* After a reset the workers' bests, which may be older, do not count.
Observed == IF reset = Nothing THEN snapshot.worker ELSE Nothing

Saved == file' = Memory' /\ saved' = TRUE
Unsaved == UNCHANGED file /\ saved' = FALSE

\* The shares are merged, and stored if they changed anything; then the workers' bests, and
\* stored again if they raise the record.  A failure ends the poll, and nothing is tried again.
Merge ==
  LET fresh == {s \in snapshot.shares : Exceeds(s.time, reset)}
      shared == Better(session, Highest(fresh))
      record == Better(best, Highest(fresh))
      changed == Changed(fresh)
  IN  /\ pc' = "wait" /\ snapshot' = Nothing
      /\ UNCHANGED <<portVars, configured, unannounced, reset, news, cleared>>
      /\ history' = Latest(Merged(fresh))
      /\ \/ changed /\ session' = shared /\ best' = record /\ Unsaved
         \/ /\ session' = Better(shared, Observed)
            /\ best' = IF Observed = Nothing THEN record ELSE Better(record, session')
            /\ \/ (changed \/ best' # record) /\ Saved
               \/ ~ changed /\ best' = record /\ UNCHANGED diskVars
               \/ /\ best' # record /\ saved' = FALSE
                  /\ file' = IF changed THEN [Memory' EXCEPT !.best = record] ELSE file

Finish ==
  /\ pc = "answered" /\ unannounced = {} /\ snapshot.shares # {}
  /\ seen' = SeenAfter
  /\ Merge

\* An empty list of shares is asked for again.
AskShares ==
  /\ pc = "answered" /\ unannounced = {} /\ snapshot.shares = {}
  /\ seen' = SeenAfter
  /\ pc' = "asking"
  /\ UNCHANGED <<portVars, configured, snapshot, unannounced, history, best, session, reset, diskVars,
                 news, cleared>>

\* The thread reads the list, or fails.
SharesAnswer ==
  /\ pc = "asking"
  /\ pc' = "merging"
  /\ \E list \in {{}, AsShares(shares)} : snapshot' = [snapshot EXCEPT !.shares = list]
  /\ UNCHANGED <<portVars, configured, unannounced, memoryVars, diskVars, news, cleared>>

FinishLate ==
  /\ pc = "merging"
  /\ Merge
  /\ UNCHANGED seen

-----------------------------------------------------------------------------
(* The user and the process                                                 *)

Reset == IF configured THEN clock ELSE Nothing

ClearUnsaved ==
  /\ Edits
  /\ history' = {} /\ best' = Nothing /\ session' = Nothing /\ reset' = Reset
  /\ cleared' = IF configured THEN clock ELSE cleared
  /\ UNCHANGED <<portVars, configured, pc, snapshot, unannounced, seen, diskVars, news>>

ClearAllButSession ==
  /\ Edits
  /\ history' = {} /\ best' = Nothing /\ reset' = Reset
  /\ Saved
  /\ cleared' = IF configured THEN clock ELSE cleared
  /\ UNCHANGED <<portVars, configured, pc, snapshot, unannounced, seen, session, news>>

\* clear_share_history, which answers with an error when the file is not written.
Clear ==
  /\ Edits
  /\ history' = {} /\ best' = Nothing /\ session' = Nothing /\ reset' = Reset
  /\ \/ Saved /\ cleared' = IF configured THEN clock ELSE cleared
     \/ Unsaved /\ UNCHANGED cleared
  /\ UNCHANGED <<portVars, configured, pc, snapshot, unannounced, seen, news>>

\* reconfigure, with the pool or without it; every edit of the configuration comes here.
Reconfigure(with) ==
  /\ Edits
  /\ configured' = with
  /\ IF with
     THEN UNCHANGED <<memoryVars, cleared>>
     ELSE /\ seen' = Nothing /\ history' = {} /\ best' = Nothing /\ session' = Nothing /\ reset' = Nothing
          /\ cleared' = Nothing
  /\ Saved \/ Unsaved
  /\ UNCHANGED <<portVars, pc, snapshot, unannounced, news>>

\* _load_share_history
Restart ==
  /\ Restarts
  /\ pc' = "wait" /\ snapshot' = Nothing /\ unannounced' = {}
  /\ seen' = Nothing /\ session' = Nothing
  /\ history' = file.history /\ best' = file.best /\ reset' = file.reset
  /\ saved' = TRUE
  /\ UNCHANGED <<portVars, configured, file, news, cleared>>

FeedNext ==
  \/ Ask \/ NoAnswer \/ Answer
  \/ \E block \in Identities(Ids) : Announce(block)
  \/ Finish \/ AskShares \/ SharesAnswer \/ FinishLate
  \/ Clear \/ (\E with \in BOOLEAN : Reconfigure(with)) \/ Restart

Next ==
  \/ PortNext /\ UNCHANGED feedVars
  \/ FeedNext

Spec == Init /\ [][Next]_vars

-----------------------------------------------------------------------------
(* Properties                                                               *)

\* The port keeps the newest shares of all it ever stored, however the threads that store them
\* overtake each other (store.py:111).
NewestKept == shares = Newest(Kept, accepted)

\* Once a poll has remembered what it saw, the user was told of every block candidate of its list
\* that has fewer than Shown older ones in it, but for those that were there when the process
\* started (pool_logs.py:353).  The others it never tells of: they are the newest ones.
BlocksAnnounced ==
  [][pc = "answered" /\ pc' # "answered" /\ seen' # Nothing
     => \A i \in snapshot.blocks :
          Cardinality(Older(i, snapshot.blocks)) < Shown => Identity(i) \in news]_vars

\* No other candidate lies between those known by this identity.
Together(block) ==
  \A i, j, k \in Ids : i < j /\ j < k /\ Identity(i) = block /\ Identity(k) = block => Identity(j) = block

\* A block is announced once as long as the process runs and the pool stays (pool_logs.py:387),
\* though only the last poll is remembered.  Excepted is one thing: of a list too long to be looked
\* at as a whole, the candidates of one identity that have another between them.
AnnouncedOnce ==
  [][\A block \in Identities(Ids) :
       Announce(block) /\ (Together(block) \/ Cardinality(Identities(Listed)) <= Shown) => block \notin news]_vars

\* A share that was accepted before the user cleared the history never comes back, nor does its
\* difficulty as a record, whatever a poll under way still holds and across restarts
\* (pool_logs.py:319 and :433).
ClearedForGood ==
  cleared # Nothing =>
    /\ \A s \in history : s.time > cleared
    /\ \A b \in {best, session} \ {Nothing} : \E r \in accepted : r.time > cleared /\ Difficulty(r.header) >= b

\* While the last attempt to write it succeeded, the file holds what the process remembers, so that
\* a restart loses no share and no record: a merge that finds nothing to store has changed nothing
\* but the time of a share (pool_logs.py:338 and :449).
FileCurrent ==
  saved => /\ Ranked(file.history) = Ranked(history)
           /\ file.best = best /\ file.reset = reset

\* The record is at least the best of the session and of every share in the history.
RecordHolds ==
  /\ ~ Exceeds(session, best)
  /\ ~ Exceeds(Highest(history), best)
=============================================================================
