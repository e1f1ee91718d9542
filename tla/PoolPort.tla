------------------------------ MODULE PoolPort ------------------------------
(***************************************************************************)
(* The monitor beside the Public Pool engine (pocisys-public-pool-port/    *)
(* app): a poll loop that checks the engine's block candidates against the *)
(* proof and the node, and HTTP threads that store the shares the engine   *)
(* accepted.  Both write one SQLite database, one transaction at a time.   *)
(*                                                                         *)
(* Abstractions.  The engine serves one pool.  A share is its header; its  *)
(* difficulty is a function of it.  A block candidate is its row number.   *)
(* The state shown of the pool and the node and the hourly history of      *)
(* hashrates are left out.                                                 *)
(***************************************************************************)
EXTENDS Integers, FiniteSetsExt

CONSTANTS
  MaxBlocks,    \* bound on the engine's block candidates; no more than 100 are listed
  MaxTime,      \* bound on the clock
  MaxFound,     \* bound on the candidates and shares that the engine finds, together
  Headers,      \* headers of accepted shares
  Kept,         \* MAX_ACCEPTED_SHARES_PER_POOL, 10 in the code
  Difficulty(_),
  Confirmations,  \* answers of the node: -1 for a block off the best chain
  RpcError,     \* the node does not know the block, or does not answer
  Unlisted      \* no row of the candidate yet

ASSUME BoundsAssumption == MaxBlocks \in 0..100 /\ MaxTime \in Nat /\ MaxFound \in Nat /\ Kept \in Nat \ {0}
ASSUME AnswersAssumption == Confirmations \subseteq Nat \cup {-1} /\ RpcError \notin Int
ASSUME HeadersAssumption == Headers \subseteq Nat /\ \A h \in Headers : Difficulty(h) \in Nat

VARIABLES
  clock,
  \* the engine's database (external): the proof of every block candidate
  proofs,
  \* the port
  unchecked,    \* candidates of the poll under way that were not looked at yet
  candidates,   \* rows of the candidates: the status of each
  received,     \* accepted shares that HTTP threads have read and not stored yet
  shares,       \* rows of the accepted shares
  rows,         \* number of rows inserted so far, for the order of equal times
  \* history
  accepted      \* all shares that were ever stored

portVars == <<clock, proofs, unchecked, candidates, received, shares, rows, accepted>>

Ids == 1..MaxBlocks
Share == [header : Headers, time : 0..MaxTime]
Row == [header : Headers, time : 0..MaxTime, id : Nat]
Statuses == {"candidate", "invalid", "orphaned", "confirming", "confirmed", "mature"}

ASSUME UnlistedAssumption == Unlisted \notin Statuses

PortTypeOK ==
  /\ clock \in 0..MaxTime
  /\ \E n \in 0..MaxBlocks : proofs \in [1..n -> {"valid", "invalid", "unreadable"}]
  /\ unchecked \subseteq DOMAIN proofs
  /\ candidates \in [Ids -> Statuses \cup {Unlisted}]
  /\ received \subseteq Share
  /\ shares \subseteq Row /\ accepted \subseteq Row
  /\ rows \in Nat

Newer(a, b) == a.time > b.time \/ (a.time = b.time /\ a.id > b.id)

\* The first n of the rows, newest first.
Newest(n, set) == {r \in set : Cardinality({s \in set : Newer(s, r)}) < n}

\* The database may hold candidates of an earlier time.
PortInit ==
  /\ clock = 0
  /\ proofs \in {[i \in 1..n |-> "valid"] : n \in 0..MaxBlocks}
  /\ unchecked = {}
  /\ candidates = [i \in Ids |-> IF i \in DOMAIN proofs THEN "candidate" ELSE Unlisted]
  /\ received = {} /\ shares = {} /\ rows = 0 /\ accepted = {}

-----------------------------------------------------------------------------
(* The surroundings                                                         *)

Found == Cardinality(DOMAIN proofs) + rows + Cardinality(received)

Tick ==
  /\ clock < MaxTime
  /\ clock' = clock + 1
  /\ UNCHANGED <<proofs, unchecked, candidates, received, shares, rows, accepted>>

\* The engine stores a share that meets its own idea of the target.
FindBlock(proof) ==
  LET n == Cardinality(DOMAIN proofs)
  IN  /\ n < MaxBlocks /\ Found < MaxFound
      /\ proofs' = [i \in 1..(n + 1) |-> IF i = n + 1 THEN proof ELSE proofs[i]]
      /\ UNCHANGED <<clock, unchecked, candidates, received, shares, rows, accepted>>

-----------------------------------------------------------------------------
(* Block candidates                                                         *)

\* verify_candidates begins with the rows of this moment.
StartVerify ==
  /\ unchecked = {} /\ DOMAIN proofs # {}
  /\ unchecked' = DOMAIN proofs
  /\ UNCHANGED <<clock, proofs, candidates, received, shares, rows, accepted>>

\* confirmation_status
Labelled(confirmations) ==
  CASE confirmations = -1 -> "orphaned"
    [] confirmations = 0 -> "candidate"
    [] confirmations \in 1..5 -> "confirming"
    [] confirmations \in 6..99 -> "confirmed"
    [] OTHER -> "mature"

Verdict(proof, answer) ==
  CASE proof = "invalid" -> "invalid"
    [] proof = "valid" /\ answer = RpcError -> "candidate"
    [] proof = "valid" /\ answer # RpcError -> Labelled(answer)

\* The latest candidates are looked at first; one that cannot be read is left as it is.
Check(i, answer) ==
  /\ i \in unchecked /\ \A j \in unchecked : j <= i
  /\ unchecked' = unchecked \ {i}
  /\ candidates' = IF proofs[i] = "unreadable" THEN candidates
                   ELSE [candidates EXCEPT ![i] = Verdict(proofs[i], answer)]
  /\ UNCHANGED <<clock, proofs, received, shares, rows, accepted>>

-----------------------------------------------------------------------------
(* Accepted shares                                                          *)

\* An HTTP thread reads the share, and the clock.
Receive(h) ==
  /\ Found < MaxFound
  /\ \A s \in received : s.header # h
  /\ received' = received \cup {[header |-> h, time |-> clock]}
  /\ UNCHANGED <<clock, proofs, unchecked, candidates, shares, rows, accepted>>

StoreByArrival(s) ==
  /\ s \in received
  /\ received' = received \ {s}
  /\ LET row == [header |-> s.header, time |-> s.time, id |-> rows + 1]
         known == \E r \in shares : r.header = s.header
     IN  IF known THEN UNCHANGED <<shares, rows, accepted>>
                  ELSE /\ shares' = {r \in shares \cup {row} : r.id > row.id - Kept}
                       /\ rows' = rows + 1
                       /\ accepted' = accepted \cup {row}
  /\ UNCHANGED <<clock, proofs, unchecked, candidates>>

\* A share that is stored already is ignored; the oldest rows are dropped either way.
Store(s) ==
  /\ s \in received
  /\ received' = received \ {s}
  /\ LET row == [header |-> s.header, time |-> s.time, id |-> rows + 1]
         known == \E r \in shares : r.header = s.header
     IN  IF known THEN UNCHANGED <<shares, rows, accepted>>
                  ELSE /\ shares' = Newest(Kept, shares \cup {row})
                       /\ rows' = rows + 1
                       /\ accepted' = accepted \cup {row}
  /\ UNCHANGED <<clock, proofs, unchecked, candidates>>

PortNext ==
  \/ Tick \/ StartVerify
  \/ \E proof \in {"valid", "invalid", "unreadable"} : FindBlock(proof)
  \/ \E i \in Ids, answer \in Confirmations \cup {RpcError} : Check(i, answer)
  \/ \E h \in Headers : Receive(h)
  \/ \E s \in received : Store(s)
=============================================================================
