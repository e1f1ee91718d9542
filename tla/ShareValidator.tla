--------------------------- MODULE ShareValidator ---------------------------
(***************************************************************************)
(* ValidateShare (pocisys-bchn-sp/pkg/engine/sharevalidator.go), run by    *)
(* the goroutine of each session while the goroutines of the job manager   *)
(* refresh its template and the node's chain moves.  Every step below is   *)
(* one access to shared state (a job manager getter, lastBlockSubmit, what *)
(* jm.mu guards) or one RPC; no lock spans two of them.                    *)
(*                                                                         *)
(* Abstractions.  A block hash is the chain that ends in the block, so a   *)
(* template's previous block hash is a chain.  A share is its session (it  *)
(* contains the extranonce1), its job and a nonce; whether it is well      *)
(* formed, and meets the session's difficulty and the network target, is   *)
(* left open, and the counters of shares are left out.  A refresh that     *)
(* gets no template is no step.  Times are reduced to whether a period is  *)
(* over.                                                                   *)
(***************************************************************************)
EXTENDS Integers, FiniteSets, SequencesExt

CONSTANTS
  Validators,     \* sessions that submit shares
  Refreshers,     \* goroutines that refresh: the poll's, and ZMQ's
  NoTemplate,     \* a refresher that waits for its next turn
  Winning,        \* nonces that meet the network target
  NoShare,        \* no submission in progress
  Coins,          \* coins explored, of "BCH" and "XEC"
  MaxJobHistory,  \* jobs retained (10 in the code)
  MaxJobs,        \* bound of the model: jobs created, for each coin
  MaxHeight       \* bound of the model: blocks on the chain, for each coin

ASSUME SetsAssumption == IsFiniteSet(Validators) /\ IsFiniteSet(Winning)
ASSUME CoinsAssumption == Coins \subseteq {"BCH", "XEC"}
ASSUME BoundsAssumption ==
  /\ MaxJobHistory \in Nat \ {0}
  /\ {MaxJobs, MaxHeight} \subseteq [Coins -> Nat \ {0}]

VARIABLES
  coin,       \* the runner's coin, fixed at the start
  \* the node (external)
  chain,      \* its best chain
  known,      \* blocks of ours it has received
  parked,     \* it once gave up its last block and went back to the block's parent
  \* the job manager
  jobTip,     \* previous block hash of every job created
  currentTip,
  graceOpen,  \* tipChangedAt is less than the stale grace ago
  template,   \* fetched by each refresher and not installed yet
  \* lastBlockSubmit is set and less than ecashBlockCooldown ago
  cooldown,
  \* one ValidateShare per session
  vpc, share,
  \* stats
  credited, blocksFound

nodeVars == <<chain, known, parked>>
managerVars == <<jobTip, currentTip, graceOpen, template>>
statVars == <<credited, blocksFound>>
vars == <<coin, nodeVars, managerVars, cooldown, vpc, share, statVars>>

Blocks == [by : Validators, job : UNION {1..MaxJobs[c] : c \in Coins}, nonce : Winning]
\* Blocks the rest of the network finds: a first one at a height, and a competing one.
Others(n) == [by |-> "others", job |-> 0, nonce |-> n]
Foreign == {Others(1), Others(2)}
Chains == Seq(Blocks \cup Foreign)

Steps == {"idle", "tip", "grace", "cooldown", "best", "submit", "mark", "verify"}

\* Every value is of its kind, and a block past its submission, or counted, has
\* reached the node.
TypeOK ==
  /\ coin \in Coins
  /\ chain \in Chains /\ currentTip \in Chains
  /\ known \subseteq Blocks /\ credited \subseteq known
  /\ jobTip \in Seq(Chains) /\ Len(jobTip) \in 1..MaxJobs[coin]
  /\ template \in [Refreshers -> {NoTemplate} \cup Chains]
  /\ {parked, graceOpen, cooldown} \subseteq BOOLEAN
  /\ vpc \in [Validators -> Steps]
  /\ share \in [Validators -> Blocks \cup {NoShare}]
  /\ blocksFound \in Nat
  /\ \A v \in Validators : vpc[v] \in {"mark", "verify"} => share[v] \in known

\* Start has fetched the first template; no session has submitted yet.
Init ==
  /\ coin \in Coins
  /\ chain = << >> /\ known = {} /\ parked = FALSE
  /\ jobTip = << << >> >>
  /\ currentTip = << >>
  /\ graceOpen \in BOOLEAN
  /\ template = [r \in Refreshers |-> NoTemplate]
  /\ cooldown = FALSE
  /\ vpc = [v \in Validators |-> "idle"]
  /\ share = [v \in Validators |-> NoShare]
  /\ credited = {} /\ blocksFound = 0

-----------------------------------------------------------------------------
(* The node, the job manager and time                                       *)

ForeignBlock ==
  /\ Len(chain) < MaxHeight[coin]
  /\ chain' = Append(chain, Others(1))
  /\ UNCHANGED <<coin, known, parked, managerVars, cooldown, vpc, share, statVars>>

\* The node leaves its last block for a competing one.
Reorg ==
  /\ chain # << >> /\ Last(chain) # Others(2)
  /\ chain' = [chain EXCEPT ![Len(chain)] = Others(2)]
  /\ UNCHANGED <<coin, known, parked, managerVars, cooldown, vpc, share, statVars>>

\* Avalanche has an eCash node park a block it had taken.
Park ==
  /\ coin = "XEC" /\ chain # << >>
  /\ chain' = Front(chain)
  /\ parked' = TRUE
  /\ UNCHANGED <<coin, known, managerVars, cooldown, vpc, share, statVars>>

Fetched == {r \in Refreshers : template[r] # NoTemplate}

\* refreshTemplate: getblocktemplate, without a lock.
Fetch(r) ==
  /\ template[r] = NoTemplate /\ Len(jobTip) + Cardinality(Fetched) < MaxJobs[coin]
  /\ template' = [template EXCEPT ![r] = chain]
  /\ UNCHANGED <<coin, nodeVars, jobTip, currentTip, graceOpen, cooldown, vpc, share, statVars>>

\* Mutant: the tip is stored only by the first refresh.
InstallKeepingTip(r) ==
  /\ template[r] # NoTemplate /\ Len(jobTip) < MaxJobs[coin]
  /\ jobTip' = Append(jobTip, template[r])
  /\ graceOpen' = (graceOpen \/ template[r] # currentTip)
  /\ template' = [template EXCEPT ![r] = NoTemplate]
  /\ UNCHANGED <<coin, nodeVars, currentTip, cooldown, vpc, share, statVars>>

\* The rest of it, under jm.mu.
Install(r) ==
  /\ template[r] # NoTemplate /\ Len(jobTip) < MaxJobs[coin]
  /\ jobTip' = Append(jobTip, template[r])
  /\ currentTip' = template[r]
  /\ graceOpen' = (graceOpen \/ template[r] # currentTip)
  /\ template' = [template EXCEPT ![r] = NoTemplate]
  /\ UNCHANGED <<coin, nodeVars, cooldown, vpc, share, statVars>>

GraceEnds ==
  /\ graceOpen
  /\ graceOpen' = FALSE
  /\ UNCHANGED <<coin, nodeVars, jobTip, currentTip, template, cooldown, vpc, share, statVars>>

CooldownEnds ==
  /\ cooldown
  /\ cooldown' = FALSE
  /\ UNCHANGED <<coin, nodeVars, managerVars, vpc, share, statVars>>

-----------------------------------------------------------------------------
(* ValidateShare                                                            *)

Retained == {j \in 1..Len(jobTip) : j > Len(jobTip) - MaxJobHistory}

Parent(v) == jobTip[share[v].job]

GoTo(v, step) == vpc' = [vpc EXCEPT ![v] = step] /\ UNCHANGED share

\* The answer of ValidateShare; the session then reads its next message.
Return(v) == vpc' = [vpc EXCEPT ![v] = "idle"] /\ share' = [share EXCEPT ![v] = NoShare]

\* GetJob, for a job and nonce the miner may also have submitted before.
Submit(v, x) ==
  /\ vpc[v] = "idle"
  /\ x.by = v /\ x.job \in Retained
  /\ vpc' = [vpc EXCEPT ![v] = "tip"] /\ share' = [share EXCEPT ![v] = x]
  /\ UNCHANGED <<coin, nodeVars, managerVars, cooldown, statVars>>

\* The checks of the share alone: it is malformed, its job has no coinbase for the session's
\* address, it misses the difficulty of now and the one before, or the network target; or
\* it is a block.
CheckHash(v) == Return(v) \/ GoTo(v, IF coin = "XEC" THEN "cooldown" ELSE "submit")

\* CurrentTip.
CheckTip(v) ==
  /\ vpc[v] = "tip"
  /\ IF Parent(v) = currentTip THEN CheckHash(v) ELSE GoTo(v, "grace")
  /\ UNCHANGED <<coin, nodeVars, managerVars, cooldown, statVars>>

\* TipChangedAt.
CheckGrace(v) ==
  /\ vpc[v] = "grace"
  /\ IF graceOpen THEN CheckHash(v) ELSE Return(v)
  /\ UNCHANGED <<coin, nodeVars, managerVars, cooldown, statVars>>

CheckCooldown(v) ==
  /\ vpc[v] = "cooldown"
  /\ IF cooldown THEN Return(v) ELSE GoTo(v, "best")
  /\ UNCHANGED <<coin, nodeVars, managerVars, cooldown, statVars>>

\* getbestblockhash, which lets the block pass when it fails, and the Real Time Target
\* of the moment, which the hash may miss.
CheckBest(v) ==
  /\ vpc[v] = "best"
  /\ GoTo(v, "submit") \/ Return(v)
  /\ UNCHANGED <<coin, nodeVars, managerVars, cooldown, statVars>>

\* The node takes a block it does not know, and makes it its tip when it extends it.
NodeTakes(block, parent) ==
  /\ known' = known \cup {block}
  /\ chain' = IF parent = chain /\ Len(chain) < MaxHeight[coin] THEN Append(chain, block) ELSE chain

Submitted(v) == IF coin = "XEC" THEN "mark" ELSE "verify"

\* Mutant: a call that fails is not told from one that succeeds.
SubmitBlockUnchecked(v) ==
  /\ vpc[v] = "submit"
  /\ NodeTakes(share[v], Parent(v)) \/ UNCHANGED <<chain, known>>
  /\ GoTo(v, Submitted(v))
  /\ UNCHANGED <<coin, parked, managerVars, cooldown, statVars>>

\* BuildBlock and submitblock.  The call may fail before the node gets the block or
\* after; the node answers null only for a new tip.  Nothing is tried again.
SubmitBlock(v) ==
  /\ vpc[v] = "submit"
  /\ \/ Return(v) /\ UNCHANGED <<chain, known>>
     \/ /\ share[v] \notin known
        /\ NodeTakes(share[v], Parent(v))
        /\ \/ Return(v)
           \/ chain' # chain /\ GoTo(v, Submitted(v))
  /\ UNCHANGED <<coin, parked, managerVars, cooldown, statVars>>

\* lastBlockSubmit, under no lock.
MarkSubmitted(v) ==
  /\ vpc[v] = "mark"
  /\ cooldown' = TRUE
  /\ GoTo(v, "verify")
  /\ UNCHANGED <<coin, nodeVars, managerVars, statVars>>

\* Mutant: a getblockhash that fails counts as a confirmation.
VerifyTrusting(v) ==
  /\ vpc[v] = "verify"
  /\ \/ UNCHANGED statVars
     \/ credited' = credited \cup {share[v]} /\ blocksFound' = blocksFound + 1
  /\ Return(v)
  /\ UNCHANGED <<coin, nodeVars, managerVars, cooldown>>

\* getblockhash at the template's height, and RecordBlock.
Verify(v) ==
  /\ vpc[v] = "verify"
  /\ LET height == Len(Parent(v)) + 1 IN
       \/ UNCHANGED statVars
       \/ /\ height <= Len(chain) /\ chain[height] = share[v]
          /\ credited' = credited \cup {share[v]}
          /\ blocksFound' = blocksFound + 1
  /\ Return(v)
  /\ UNCHANGED <<coin, nodeVars, managerVars, cooldown>>

-----------------------------------------------------------------------------
Next ==
  \/ ForeignBlock \/ Reorg \/ Park
  \/ \E r \in Refreshers : Fetch(r) \/ Install(r)
  \/ GraceEnds \/ CooldownEnds
  \/ \E v \in Validators :
       \/ \E x \in Blocks : Submit(v, x)
       \/ CheckTip(v) \/ CheckGrace(v) \/ CheckCooldown(v) \/ CheckBest(v)
       \/ SubmitBlock(v) \/ MarkSubmitted(v) \/ Verify(v)

Spec == Init /\ [][Next]_vars

-----------------------------------------------------------------------------
(* Properties                                                               *)

\* BlocksFound counts blocks, not answers: the miner may send a winning share again,
\* the node may leave the block and have it submitted a second time.
CreditedOnce == blocksFound = Cardinality(credited)

\* A submission of the block was answered with null, and is not verified yet.
Confirming(b) == \E v \in Validators : share[v] = b /\ vpc[v] \in {"mark", "verify"}

Ledger == INSTANCE BlockLedger WITH
  Found <- Blocks, best <- chain, total <- blocksFound,
  fate <- [b \in Blocks |-> IF b \in credited THEN "counted"
                            ELSE IF Confirming(b) THEN "accepted"
                            ELSE IF b \in known THEN "delivered" ELSE "unknown"]

\* Whatever is submitted again, lost or reorganised, each block goes through the ledger
\* once: it is counted only after it had become the node's tip and while it is on the
\* node's chain, and a block whose verification failed is not counted later.
ImplementsLedger == Ledger!LedgerSpec

\* How far a chain has come: it grows, or its last block gives way to a competing one.
Progress(c) == 2 * Len(c) + (IF c # << >> /\ Last(c) = Others(2) THEN 1 ELSE 0)

\* A template that the node had left before it gave out v's was installed after v's.
Overtaken(v) ==
  \E j \in share[v].job + 1..Len(jobTip) : Progress(jobTip[j]) < Progress(Parent(v))

\* A share on the node's own tip, which may be a block, is refused as stale for two
\* reasons only: refreshes overlapped and an older template was installed last, or the
\* node had gone back to an earlier tip.  The share's job, currentTip, the grace period
\* and the node's tip are read at four different moments.
NoBlockLost ==
  [][\A v \in Validators :
       vpc[v] = "grace" /\ ~ graceOpen /\ vpc'[v] = "idle"
       => chain # Parent(v) \/ parked \/ Overtaken(v)]_vars
=============================================================================
