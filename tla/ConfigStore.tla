----------------------------- MODULE ConfigStore -----------------------------
(* The configuration of the hash monitor: the dictionary the services share, the file it is     *)
(* written to in place, and the requests that replace it (main.py, config_store.py).            *)
(*                                                                                              *)
(* An edit takes the lock and never awaits, so that no other request of the event loop sees its *)
(* middle. Two parties do: the process may end between any two steps, and the thread of an MCP  *)
(* request reads the dictionary while the event loop refills it.                                *)
EXTENDS ConfigEdits

CONSTANTS Foreign,        \* backups made by another installation
          Sent,           \* the settings forms that are sent
          MaxEdits,       \* bound on the edits that are begun
          Torn,           \* the content of a file that is cut off in the middle
          Nothing         \* no edit is being committed

ASSUME StoreAssumption ==
  /\ Foreign \subseteq Backups /\ Sent \subseteq Forms /\ MaxEdits \in Nat
  /\ Torn \notin Configs /\ Nothing \notin Configs

VARIABLES
  up,                     \* the process runs
  memory,                 \* the dictionary; what it last held when the process is down
  file,                   \* config.json: a configuration, or Torn
  new,                    \* the configuration being committed, or Nothing
  step,                   \* the step of the commit that is next, 0 when there is none
  stale,                  \* the services that have not adopted the dictionary since it changed
  backup,                 \* the backup the user has at hand
  edits,                  \* the edits begun so far
  made,                   \* the tokens made so far: 1..made
  told,                   \* the first of them, which were shown to a user
  request                 \* an MCP request: its step, its token, the token when access was enabled
vars == <<up, memory, file, new, step, stale, backup, edits, made, told, request>>

Services == <<"alerts", "control", "feed", "poller", "health">>
ServiceSet == {Services[i] : i \in DOMAIN Services}

NoRequest == [phase |-> "none", token |-> 0, seen |-> 0]

\* A section that has been cleared and not yet refilled reads as if everything in it were off.
Cleared(section) ==
  IF section = "hermes" THEN [enabled |-> FALSE, token |-> 0] ELSE [f \in DOMAIN Default[section] |-> FALSE]

Step(do, what) == [do |-> do, what |-> what]

\* Plausible slips: the dictionary is refilled before it is known that the file could be written;
\* the pool service is told first.
RefillFirst ==
  <<Step("clear", "app"), Step("fill", "app"), Step("clear", "discord"), Step("fill", "discord"),
    Step("clear", "hermes"), Step("fill", "hermes"), Step("fill", "miners"), Step("fill", "pools"),
    Step("write", "file"), Step("adopt", "alerts"), Step("adopt", "control"), Step("adopt", "feed"),
    Step("adopt", "poller"), Step("adopt", "health")>>
FeedFirst ==
  <<Step("write", "file"),
    Step("clear", "app"), Step("fill", "app"), Step("clear", "discord"), Step("fill", "discord"),
    Step("clear", "hermes"), Step("fill", "hermes"), Step("fill", "miners"), Step("fill", "pools"),
    Step("adopt", "feed"), Step("adopt", "alerts"), Step("adopt", "control"), Step("adopt", "poller"),
    Step("adopt", "health")>>

\* commit_config: write the file, refill the dictionary section by section, tell the services.
CommitSteps ==
  <<Step("write", "file"),
    Step("clear", "app"), Step("fill", "app"), Step("clear", "discord"), Step("fill", "discord"),
    Step("clear", "hermes"), Step("fill", "hermes"), Step("fill", "miners"), Step("fill", "pools"),
    Step("adopt", "alerts"), Step("adopt", "control"), Step("adopt", "feed"), Step("adopt", "poller"),
    Step("adopt", "health")>>

Init ==
  /\ up = TRUE /\ memory = Default /\ file = Default
  /\ new = Nothing /\ step = 0 /\ stale = {}
  /\ backup \in Foreign
  /\ edits = 0 /\ made = 0 /\ told = 0
  /\ request = NoRequest

-----------------------------------------------------------------------------
\* Requests that edit: refused ones change nothing. Opening the file for writing empties it.
FreshMiners == MinerIds \ (IdsIn(memory.miners) \cup IdsIn(backup.miners))
FreshPools == PoolIds \ (IdsIn(memory.pools) \cup IdsIn(backup.pools))

Begin(edited) ==
  /\ up /\ new = Nothing /\ edits < MaxEdits
  /\ new' \in edited
  /\ file' = Torn
  /\ step' = 1
  /\ edits' = edits + 1
  /\ UNCHANGED <<up, memory, stale, backup, told, request>>

Commit(edited) == Begin(edited) /\ UNCHANGED made

EditMiners ==
  \/ \E m \in Places : Commit(PostMiner(memory, m, FreshMiners))
  \/ \E i \in DOMAIN memory.miners :
       \/ \E m \in Places : Commit({PutMiner(memory, i, m)})
       \/ Commit({DeleteMiner(memory, i)})
  \/ Commit(Reorder(memory))

EditPools ==
  \/ \E p \in Monitors : Commit(PostPool(memory, p, FreshPools))
  \/ \E i \in DOMAIN memory.pools :
       \/ \E p \in Monitors : Commit({PutPool(memory, i, p)})
       \/ Commit({DeletePool(memory, i)})

EditSettings == \E s \in Sent : Commit(Settings(memory, s))

\* A token is made inside the edit; the answer that shows it follows the commit.
EditToken ==
  \/ made < MaxToken /\ Begin({MakeToken(memory, made + 1)}) /\ made' = made + 1
  \/ Commit({DropToken(memory)})

RestoreBackup == Commit(Restore(memory, backup, FreshMiners, FreshPools))

Download ==
  /\ up /\ new = Nothing
  /\ backup' = SafeBackup(memory)
  /\ UNCHANGED <<up, memory, file, new, step, stale, edits, made, told, request>>

-----------------------------------------------------------------------------
\* The steps of a commit.
Doing(do) == new # Nothing /\ CommitSteps[step].do = do
Section == CommitSteps[step].what
Abandoned == new' = Nothing /\ step' = 0

Write ==
  /\ Doing("write")
  /\ file' = new
  /\ step' = step + 1
  /\ UNCHANGED <<up, memory, new, stale, backup, edits, made, told, request>>

\* The disk is full: the request fails, the dictionary stays, the file is left as it is.
WriteFails ==
  /\ Doing("write")
  /\ Abandoned
  /\ UNCHANGED <<up, memory, file, stale, backup, edits, made, told, request>>

Clear ==
  /\ Doing("clear")
  /\ memory' = [memory EXCEPT ![Section] = Cleared(Section)]
  /\ step' = step + 1
  /\ stale' = ServiceSet
  /\ UNCHANGED <<up, file, new, backup, edits, made, told, request>>

Fill ==
  /\ Doing("fill")
  /\ memory' = [memory EXCEPT ![Section] = new[Section]]
  /\ step' = step + 1
  /\ UNCHANGED <<up, file, new, stale, backup, edits, made, told, request>>

\* The request is answered, which shows a token that was made; one whose answer was lost with the
\* process counts as shown from then on.
Answer == Abandoned /\ told' = made

Adopt ==
  /\ Doing("adopt")
  /\ stale' = stale \ {Section}
  /\ \/ step = Len(CommitSteps) /\ Answer
     \/ step < Len(CommitSteps) /\ step' = step + 1 /\ UNCHANGED <<new, told>>
  /\ UNCHANGED <<up, memory, file, backup, edits, made, request>>

\* The pool service saves its history when it is reconfigured, which may fail: the services after
\* it are not told, and the request succeeds all the same.
AdoptFails ==
  /\ Doing("adopt") /\ Section = "feed"
  /\ stale' = stale \ {"feed"}
  /\ Answer
  /\ UNCHANGED <<up, memory, file, backup, edits, made, request>>

-----------------------------------------------------------------------------
\* The process ends; it starts again from the file, which it must be able to read. A user who finds
\* that it does not start removes the file, and the next start copies the default configuration.
Crash ==
  /\ up
  /\ up' = FALSE
  /\ Abandoned
  /\ request' = NoRequest
  /\ UNCHANGED <<memory, file, stale, backup, edits, made, told>>

Start ==
  /\ ~up /\ file # Torn
  /\ up' = TRUE
  /\ memory' = file
  /\ stale' = {}
  /\ UNCHANGED <<file, new, step, backup, edits, made, told, request>>

RemoveFile ==
  /\ ~up /\ file = Torn
  /\ file' = Default
  /\ UNCHANGED <<up, memory, new, step, stale, backup, edits, made, told, request>>

-----------------------------------------------------------------------------
\* An MCP request, in a thread of its own: is access enabled, then is this the token.
Ask ==
  /\ up /\ request = NoRequest
  /\ memory.hermes.enabled
  /\ \E t \in 1..told : request' = [phase |-> "enabled", token |-> t, seen |-> memory.hermes.token]
  /\ UNCHANGED <<up, memory, file, new, step, stale, backup, edits, made, told>>

\* Plausible slip: an empty digest matches every token.
AuthorizeUnset ==
  /\ request.phase = "enabled"
  /\ request' = IF memory.hermes.token \in {0, request.token} THEN [request EXCEPT !.phase = "accepted"]
                ELSE NoRequest
  /\ UNCHANGED <<up, memory, file, new, step, stale, backup, edits, made, told>>

Authorize ==
  /\ request.phase = "enabled"
  /\ request' = IF memory.hermes.token = request.token THEN [request EXCEPT !.phase = "accepted"] ELSE NoRequest
  /\ UNCHANGED <<up, memory, file, new, step, stale, backup, edits, made, told>>

Respond ==
  /\ request.phase = "accepted"
  /\ request' = NoRequest
  /\ UNCHANGED <<up, memory, file, new, step, stale, backup, edits, made, told>>

Next ==
  \/ EditMiners \/ EditPools \/ EditSettings \/ EditToken \/ RestoreBackup \/ Download
  \/ Write \/ WriteFails \/ Clear \/ Fill \/ Adopt \/ AdoptFails
  \/ Crash \/ Start \/ RemoveFile
  \/ Ask \/ Authorize \/ Respond

Spec == Init /\ [][Next]_vars

-----------------------------------------------------------------------------
\* The variables have their types; and the dictionary is sound at every moment, also for a reader
\* that finds it half refilled (main.py:821), and so is the file whenever it can be read: Discord and
\* Hermes are on only with what they need, and an identifier names one item.
Register ==
  INSTANCE ConfigRegister WITH value <- IF file = Torn THEN memory ELSE file, exposed <- file = Torn

TypeOK ==
  /\ up \in BOOLEAN
  /\ memory \in Configs /\ Register!Sound(memory)
  /\ file \in Configs \cup {Torn}
  /\ new \in Configs \cup {Nothing}
  /\ step \in 0..Len(CommitSteps) /\ (new = Nothing) = (step = 0)
  /\ stale \subseteq ServiceSet
  /\ edits \in 0..MaxEdits /\ made \in 0..MaxToken /\ told \in 0..made
  /\ backup \in Backups
  /\ request \in [phase : {"none", "enabled", "accepted"}, token : 0..told, seen : 0..made]

\* The configuration is one value that every request edits as the one before it left it, whatever
\* the process was doing when it ended; it is lost only if a save did not come to its end
\* (config_store.py:113).
ImplementsRegister == Register!RegisterSpec

\* A request that was let in carried the token that was in force while access was enabled
\* (main.py:821): the two reads never combine an old switch with another token.
AuthorizedTogether == request.phase = "accepted" => request.seen = request.token

\* Once a request was answered, the alerts and the controls work from the configuration that is
\* in force, also when the pool service could not be told (main.py:75).
ControlsFollow == up /\ new = Nothing => stale \cap {"alerts", "control"} = {}
=============================================================================
