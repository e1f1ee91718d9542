---------------------------- MODULE WorkContract ----------------------------
(* What the solo pipeline promises its miners, without templates, locks or broadcasts: the coin   *)
(* publishes the block it mines on, and every job a miner is given pays the account it opened and *)
(* is for a block the node has seen. SoloJobs implements it.                                      *)
EXTENDS Integers

CONSTANTS
  Miners,
  Nobody,        \* the account of a miner that has none
  NoWork,        \* what a miner has before its first job
  Once,          \* a miner opens one account on its connection
  Complete       \* every account can be paid, by its own address or by a fallback

VARIABLES
  tip,           \* the node's best block
  published,     \* the block the newest job is for, 0 before the first
  polling,       \* templates come from one poll loop, in order
  account,       \* the account each miner has open
  work           \* the job each miner has
contractVars == <<tip, published, polling, account, work>>

ContractInit ==
  /\ published = 0
  /\ polling = TRUE
  /\ account = [m \in Miners |-> Nobody]
  /\ work = [m \in Miners |-> NoWork]

Advance == tip' > tip /\ UNCHANGED <<published, polling, account, work>>

\* The coin moves to a block of the node, and with one poll loop never back.
Publish ==
  /\ published' <= tip
  /\ polling => published' >= published
  /\ UNCHANGED <<tip, polling, account, work>>

\* A subscriber starts to refresh besides the poll loop; the order is lost for good.
Subscribe == polling /\ polling' = FALSE /\ UNCHANGED <<tip, published, account, work>>

Others(m) ==
  /\ \A n \in Miners \ {m} : account'[n] = account[n] /\ work'[n] = work[n]
  /\ UNCHANGED <<tip, published, polling>>

Open(m) ==
  /\ Others(m)
  /\ account'[m] # Nobody /\ work'[m] = work[m]
  /\ Once => account[m] = Nobody /\ work[m] = NoWork

Close(m) == Others(m) /\ account'[m] = Nobody /\ work'[m] = NoWork

\* A miner that leaves the old block is told to drop its work on it.
Give(m) ==
  /\ Others(m)
  /\ account'[m] = account[m]
  /\ work'[m] # NoWork
  /\ work'[m].tip <= tip
  /\ Complete => work'[m].coinb1
  /\ Once =>
       /\ account[m] # Nobody /\ work'[m].addr = account[m]
       /\ polling =>
            /\ work'[m].tip = published
            /\ work[m] = NoWork \/ work[m].tip = published \/ work'[m].clean

ContractNext ==
  \/ Advance \/ Publish \/ Subscribe
  \/ \E m \in Miners : Open(m) \/ Close(m) \/ Give(m)

ContractSpec == ContractInit /\ [][ContractNext]_contractVars
=============================================================================
