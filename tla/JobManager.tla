----------------------------- MODULE JobManager -----------------------------
(***************************************************************************)
(* The job manager of the stratum engine in solo mode                      *)
(* (pocisys-bchn-sp/pkg/engine/jobmanager.go): the retained mining jobs,   *)
(* the tip they were built on and the payout addresses of the connected    *)
(* miners.  Every operator below is one critical section of the Go code,   *)
(* under jm.mu or addrMu; the module SoloJobs says which goroutine runs    *)
(* them and what may happen in between.                                    *)
(*                                                                         *)
(* Abstractions.  The map of jobs is the sequence of the retained jobs,    *)
(* oldest first: Created and the job counter grow together under jm.mu.    *)
(* A coinbase half is kept only as far as it is present or missing.        *)
(***************************************************************************)
EXTENDS Integers, Sequences

CONSTANTS
  Addresses,      \* payout addresses the coin's ValidateAddress accepts
  Unbuildable,    \* those of them that BuildCoinbase refuses (none for BCH)
  HasFallback,    \* mining.address is configured and can be built
  MaxJobHistory,  \* jobs retained (10 in the code)
  Tips            \* block hashes, in chain order

ASSUME AddressesAssumption == Unbuildable \subseteq Addresses
ASSUME FallbackAssumption  == HasFallback \in BOOLEAN
ASSUME HistoryAssumption   == MaxJobHistory \in Nat \ {0}
ASSUME TipsAssumption      == Tips \subseteq Nat \ {0}

VARIABLES
  jobs,           \* the retained jobs, oldest first
  currentTip,     \* previous block hash of the last template, 0 before it
  connectedAddrs  \* sessions counted per address (an absent key is 0)

jmVars == <<jobs, currentTip, connectedAddrs>>

\* A job: the tip it extends, whether it tells miners to drop their work, whether
\* its first coinbase half is present, the addresses with a second half.
Job == [tip : Tips, clean : BOOLEAN, coinb1 : BOOLEAN, coinb2s : SUBSET Addresses]

JobManagerTypeOK ==
  /\ jobs \in Seq(Job)
  /\ Len(jobs) <= MaxJobHistory
  /\ currentTip \in Tips \cup {0}
  /\ connectedAddrs \in [Addresses -> Nat]

JobManagerInit ==
  /\ jobs = << >>
  /\ currentTip = 0
  /\ connectedAddrs = [a \in Addresses |-> 0]

Connected == {a \in Addresses : connectedAddrs[a] > 0}

-----------------------------------------------------------------------------
(* refreshTemplate, between jm.mu.Lock and the jm.mu.Unlock before onNewJob *)

\* coinb1 comes from the first address the map iteration yields, and from the
\* configured address when that one could not be built or nobody is connected.
Coinb1Outcomes ==
  IF Connected = {} THEN {HasFallback}
  ELSE {HasFallback \/ a \notin Unbuildable : a \in Connected}

NewJob(tip, coinb1) ==
  [tip     |-> tip,
   clean   |-> tip # currentTip,
   coinb1  |-> coinb1,
   coinb2s |-> Connected \ Unbuildable]

\* Mutant: the history may hold one job too many.
PruneLate(history) ==
  IF Len(history) > MaxJobHistory + 1 THEN Tail(history) ELSE history

\* pruneJobs after one insertion: the oldest job goes when the history is full.
Prune(history) ==
  IF Len(history) > MaxJobHistory THEN Tail(history) ELSE history

InstallTemplate(tip) ==
  /\ \E coinb1 \in Coinb1Outcomes :
       jobs' = Prune(Append(jobs, NewJob(tip, coinb1)))
  /\ currentTip' = tip
  /\ UNCHANGED connectedAddrs

-----------------------------------------------------------------------------
(* RegisterAddress: the count under addrMu, then the coinbases under jm.mu  *)

IsNew(a) == connectedAddrs[a] = 0

\* Mutant: an address that is registered already is not counted again.
CountNewAddress(a) ==
  /\ connectedAddrs' = [connectedAddrs EXCEPT ![a] = 1]
  /\ UNCHANGED <<jobs, currentTip>>

CountAddress(a) ==
  /\ connectedAddrs' = [connectedAddrs EXCEPT ![a] = @ + 1]
  /\ UNCHANGED <<jobs, currentTip>>

FillJob(job, a) ==
  IF a \in job.coinb2s \cup Unbuildable THEN job
  ELSE [job EXCEPT !.coinb2s = @ \cup {a}, !.coinb1 = TRUE]

\* Mutant: only the newest job is given the new address's coinbase.
FillNewestJob(a) ==
  /\ jobs' = [i \in 1..Len(jobs) |-> IF i = Len(jobs) THEN FillJob(jobs[i], a) ELSE jobs[i]]
  /\ UNCHANGED <<currentTip, connectedAddrs>>

FillJobs(a) ==
  /\ jobs' = [i \in 1..Len(jobs) |-> FillJob(jobs[i], a)]
  /\ UNCHANGED <<currentTip, connectedAddrs>>

UnregisterAddress(a) ==
  /\ connectedAddrs' = [connectedAddrs EXCEPT ![a] = IF @ <= 1 THEN 0 ELSE @ - 1]
  /\ UNCHANGED <<jobs, currentTip>>

\* GetJobForAddress and GetAddressCoinb2: a job can be served to an address
\* only when it holds that address's second coinbase half.
Serves(i, a) == i \in DOMAIN jobs /\ a \in jobs[i].coinb2s
=============================================================================
