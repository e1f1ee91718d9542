---------------------------- MODULE BlockLedger ----------------------------
(* What the share validator promises of each block its miners find: the node is given the block   *)
(* once, and it adds one to the blocks found when it became the node's tip, is on its chain when  *)
(* it is counted, and never otherwise. ShareValidator implements it.                              *)
EXTENDS Integers, Sequences

CONSTANT Found        \* blocks that miners find

VARIABLES
  best,               \* the node's best chain
  fate,               \* what became of each block
  total               \* the blocks found, as the dashboard shows them
ledgerVars == <<best, fate, total>>

Fates == {"unknown", "delivered", "accepted", "counted"}

LedgerInit ==
  /\ fate = [b \in Found |-> "unknown"]
  /\ total = 0

\* The node's own business: blocks of others, reorganisations, parked blocks.
Move == UNCHANGED <<fate, total>>

Becomes(b, old, new) == fate[b] = old /\ fate' = [fate EXCEPT ![b] = new]

\* Its answer is lost or it is no new tip: whatever the node does, it is not counted.
Deliver(b) == Becomes(b, "unknown", "delivered") /\ best' \in {best, Append(best, b)} /\ UNCHANGED total

Accept(b) == Becomes(b, "unknown", "accepted") /\ best' = Append(best, b) /\ UNCHANGED total

Count(b) ==
  /\ Becomes(b, "accepted", "counted")
  /\ \E height \in DOMAIN best : best[height] = b
  /\ total' = total + 1
  /\ UNCHANGED best

\* The node cannot confirm the block; it is never looked at again.
Forgo(b) == Becomes(b, "accepted", "delivered") /\ UNCHANGED <<best, total>>

LedgerNext == Move \/ \E b \in Found : Deliver(b) \/ Accept(b) \/ Count(b) \/ Forgo(b)

LedgerSpec == LedgerInit /\ [][LedgerNext]_ledgerVars
=============================================================================
