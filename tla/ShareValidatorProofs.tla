------------------------ MODULE ShareValidatorProofs ------------------------
(***************************************************************************)
(* Theorems about ShareValidator, for any sessions, nonces, coins and      *)
(* bounds: types, that no block is counted twice, and what one that the    *)
(* node would take is lost to in the stale check.                          *)
(*                                                                         *)
(* A submission gets past submitblock only when the node did not know its  *)
(* block, and whatever is counted is known to the node.  Two submissions   *)
(* beyond submitblock are never for the same block: a session has one      *)
(* submission at a time, and sessions differ in their extranonce.          *)
(*                                                                         *)
(* Without parking the node's chain makes progress (Progress), so no       *)
(* template is ahead of it, and one as far is on its tip.  The manager's   *)
(* tip is that of its newest job.  A share on the node's tip that fails    *)
(* the comparison is therefore for an older job than the newest, and the   *)
(* newest one's template is behind it.                                     *)
(***************************************************************************)
EXTENDS ShareValidator, FiniteSetTheorems, SequenceTheorems, TLAPS

Beyond(v) == vpc[v] \in {"mark", "verify"}

\* Every submission in progress is its own session's.
OwnShares ==
  /\ vpc \in [Validators -> Steps]
  /\ share \in [Validators -> Blocks \cup {NoShare}]
  /\ \A v \in Validators : vpc[v] # "idle" => share[v] \in Blocks /\ share[v].by = v

\* What is counted reached the node, and is no submission still to be counted.
NotYetCounted ==
  /\ credited \subseteq known
  /\ \A v \in Validators : Beyond(v) => share[v] \in known \ credited

CountedOnce ==
  /\ IsFiniteSet(credited)
  /\ CreditedOnce

IInv == OwnShares /\ NotYetCounted /\ CountedOnce

-----------------------------------------------------------------------------
LEMMA InitHolds == Init => IInv
<1> SUFFICES ASSUME Init PROVE IInv
  OBVIOUS
<1>1. IsFiniteSet({}) /\ Cardinality({}) = 0
  BY FS_EmptySet
<1> QED
  BY <1>1 DEF Init, IInv, OwnShares, NotYetCounted, CountedOnce, CreditedOnce, Beyond, Steps

\* A session takes up a submission only with its own extranonce.
LEMMA OwnSharesStep ==
  ASSUME OwnShares, [Next]_vars
  PROVE  OwnShares'
<1> USE DEF OwnShares, Steps, GoTo, Return, CheckHash, Submitted
<1>1. CASE UNCHANGED <<vpc, share>>
  BY <1>1
<1>2. ASSUME NEW v \in Validators, NEW x \in Blocks, Submit(v, x) PROVE OwnShares'
  BY <1>2 DEF Submit
<1>3. ASSUME NEW v \in Validators, CheckTip(v) PROVE OwnShares'
  BY <1>3 DEF CheckTip
<1>4. ASSUME NEW v \in Validators, CheckGrace(v) PROVE OwnShares'
  BY <1>4 DEF CheckGrace
<1>5. ASSUME NEW v \in Validators, CheckCooldown(v) PROVE OwnShares'
  BY <1>5 DEF CheckCooldown
<1>6. ASSUME NEW v \in Validators, CheckBest(v) PROVE OwnShares'
  BY <1>6 DEF CheckBest
<1>7. ASSUME NEW v \in Validators, SubmitBlock(v) PROVE OwnShares'
  BY <1>7 DEF SubmitBlock
<1>8. ASSUME NEW v \in Validators, MarkSubmitted(v) PROVE OwnShares'
  BY <1>8 DEF MarkSubmitted
<1>9. ASSUME NEW v \in Validators, Verify(v) PROVE OwnShares'
  BY <1>9 DEF Verify
<1> QED
  BY <1>1, <1>2, <1>3, <1>4, <1>5, <1>6, <1>7, <1>8, <1>9
     DEF Next, vars, nodeVars, managerVars, statVars, ForeignBlock, Reorg, Park, Fetch, Install,
         GraceEnds, CooldownEnds

\* The node takes a block that it does not know, once.
LEMMA NotYetCountedStep ==
  ASSUME OwnShares, NotYetCounted, [Next]_vars
  PROVE  NotYetCounted'
<1> USE DEF OwnShares, NotYetCounted, Beyond, Steps, GoTo, Return, CheckHash, Submitted,
     statVars, nodeVars
<1>1. CASE UNCHANGED <<vpc, share, known, credited>>
  BY <1>1
<1>2. ASSUME NEW v \in Validators, NEW x \in Blocks, Submit(v, x) PROVE NotYetCounted'
  BY <1>2 DEF Submit
<1>3. ASSUME NEW v \in Validators, CheckTip(v) PROVE NotYetCounted'
  BY <1>3 DEF CheckTip
<1>4. ASSUME NEW v \in Validators, CheckGrace(v) PROVE NotYetCounted'
  BY <1>4 DEF CheckGrace
<1>5. ASSUME NEW v \in Validators, CheckCooldown(v) PROVE NotYetCounted'
  BY <1>5 DEF CheckCooldown
<1>6. ASSUME NEW v \in Validators, CheckBest(v) PROVE NotYetCounted'
  BY <1>6 DEF CheckBest
<1>7. ASSUME NEW v \in Validators, SubmitBlock(v) PROVE NotYetCounted'
  BY <1>7 DEF SubmitBlock, NodeTakes
<1>8. ASSUME NEW v \in Validators, MarkSubmitted(v) PROVE NotYetCounted'
  BY <1>8 DEF MarkSubmitted
<1>9. ASSUME NEW v \in Validators, Verify(v) PROVE NotYetCounted'
  <2>1. \A w \in Validators \ {v} : Beyond(w) => share[w] # share[v]
    BY <1>9 DEF Verify
  <2>2. credited' \subseteq credited \cup {share[v]} /\ known' = known /\ share[v] \in known
    BY <1>9 DEF Verify
  <2> QED
    BY <1>9, <2>1, <2>2 DEF Verify
<1> QED
  BY <1>1, <1>2, <1>3, <1>4, <1>5, <1>6, <1>7, <1>8, <1>9
     DEF Next, vars, managerVars, ForeignBlock, Reorg, Park, Fetch, Install, GraceEnds,
         CooldownEnds

\* Counting adds one block that was not counted before.
LEMMA CountedOnceStep ==
  ASSUME NotYetCounted, CountedOnce, [Next]_vars
  PROVE  CountedOnce'
<1>1. CASE UNCHANGED <<credited, blocksFound>>
  BY <1>1 DEF CountedOnce, CreditedOnce
<1>2. ASSUME NEW v \in Validators, Verify(v), ~ UNCHANGED <<credited, blocksFound>>
      PROVE  CountedOnce'
  <2>1. credited' = credited \cup {share[v]} /\ blocksFound' = blocksFound + 1
    BY <1>2 DEF Verify, statVars
  <2>2. share[v] \notin credited
    BY <1>2 DEF Verify, NotYetCounted, Beyond
  <2>3. IsFiniteSet(credited') /\ Cardinality(credited') = Cardinality(credited) + 1
    BY <2>1, <2>2, FS_AddElement DEF CountedOnce
  <2> QED
    BY <2>1, <2>3 DEF CountedOnce, CreditedOnce
<1> QED
  BY <1>1, <1>2
     DEF Next, vars, nodeVars, managerVars, statVars, ForeignBlock, Reorg, Park, Fetch, Install,
         GraceEnds, CooldownEnds, Submit, CheckTip, CheckGrace, CheckCooldown, CheckBest,
         SubmitBlock, MarkSubmitted

\* A block is counted once, however often it is submitted, by whatever session, and
\* whatever becomes of the chain and of the calls to the node.
THEOREM CreditedOnceHolds == Spec => []CreditedOnce
<1>1. IInv /\ [Next]_vars => IInv'
  BY OwnSharesStep, NotYetCountedStep, CountedOnceStep DEF IInv
<1>2. IInv => CreditedOnce
  BY DEF IInv, CountedOnce
<1> QED
  BY InitHolds, <1>1, <1>2, PTL DEF Spec

-----------------------------------------------------------------------------
(* Types                                                                    *)

Links == Blocks \cup Foreign

LEMMA ChainsAreSequences == Chains = Seq(Links)
  BY DEF Chains, Links

\* What becomes of the node's chain, and its last block.
LEMMA ChainSteps ==
  ASSUME NEW c \in Chains, NEW b \in Links
  PROVE  /\ Append(c, b) \in Chains
         /\ Len(Append(c, b)) = Len(c) + 1
         /\ Last(Append(c, b)) = b
         /\ c # << >> => LET d == [c EXCEPT ![Len(c)] = b] IN
                           d \in Chains /\ Len(d) = Len(c) /\ Last(d) = b
         /\ c # << >> => Front(c) \in Chains
<1>1. c \in Seq(Links) /\ Len(c) \in Nat
  BY ChainsAreSequences
<1>2. /\ Append(c, b) \in Chains
      /\ Len(Append(c, b)) = Len(c) + 1
      /\ Last(Append(c, b)) = b
  <2> DEFINE d == Append(c, b)
  <2>1. d \in Seq(Links) /\ Len(d) = Len(c) + 1 /\ d[Len(c) + 1] = b
    BY <1>1
  <2>2. d \in Chains
    BY <2>1, ChainsAreSequences
  <2>3. Last(d) = b
    BY <2>1 DEF Last
  <2> QED
    BY <2>1, <2>2, <2>3
<1>3. ASSUME c # << >>
      PROVE  LET d == [c EXCEPT ![Len(c)] = b] IN
               d \in Chains /\ Len(d) = Len(c) /\ Last(d) = b
  <2> DEFINE d == [c EXCEPT ![Len(c)] = b]
  <2>1. Len(c) \in 1..Len(c)
    BY <1>1, <1>3
  <2>2. d \in Seq(Links) /\ Len(d) = Len(c) /\ d[Len(c)] = b
    BY <1>1, <2>1
  <2> QED
    BY <1>1, <2>2, ChainsAreSequences DEF Last
<1>4. ASSUME c # << >> PROVE Front(c) \in Chains
  <2> DEFINE n == Len(c) - 1
             d == SubSeq(c, 1, n)
  <2>1. Len(c) # 0 /\ n \in Nat /\ n <= Len(c)
    BY <1>1, <1>4
  <2>2. d \in Seq(Links) /\ Len(d) = n
    <3>1. \A i \in 1..n : c[i] \in Links
      BY <1>1, <2>1
    <3>2. d \in Seq(Links) /\ Len(d) = IF 1 <= n THEN n - 1 + 1 ELSE 0
      BY <2>1, <3>1, SubSeqProperties
    <3> HIDE DEF n, d
    <3> QED
      BY <2>1, <3>2
  <2>3. d \in Chains
    BY <2>2, ChainsAreSequences
  <2> QED
    BY <2>3 DEF Front
<1> QED
  BY <1>2, <1>3, <1>4

LEMMA TypeInit == Init => TypeOK
<1> SUFFICES ASSUME Init PROVE TypeOK
  OBVIOUS
<1>1. << >> \in Chains
  BY ChainsAreSequences
<1>2. jobTip \in Seq(Chains) /\ Len(jobTip) \in 1..MaxJobs[coin]
  BY <1>1, BoundsAssumption DEF Init
<1> QED
  BY <1>1, <1>2, CoinsAssumption DEF Init, TypeOK, Steps

\* The job manager, the node and time keep the types.
LEMMA TypeSurroundings ==
  ASSUME TypeOK,
         \/ ForeignBlock \/ Reorg \/ Park
         \/ \E r \in Refreshers : Fetch(r) \/ Install(r)
         \/ GraceEnds \/ CooldownEnds
  PROVE  TypeOK'
<1> USE DEF TypeOK, nodeVars, managerVars, statVars
<1>1. CASE ForeignBlock
  <2>1. chain' \in Chains
    BY <1>1, ChainSteps DEF ForeignBlock, Links, Foreign
  <2> QED
    BY <1>1, <2>1 DEF ForeignBlock
<1>2. CASE Reorg
  <2>1. chain' \in Chains
    BY <1>2, ChainSteps DEF Reorg, Links, Foreign
  <2> QED
    BY <1>2, <2>1 DEF Reorg
<1>3. CASE Park
  <2>1. chain' \in Chains
    BY <1>3, ChainSteps, Others(1) \in Links DEF Park, Links, Foreign
  <2> QED
    BY <1>3, <2>1 DEF Park
<1>4. ASSUME NEW r \in Refreshers, Install(r) PROVE TypeOK'
  <2>1. template[r] \in Chains
    BY <1>4 DEF Install
  <2>2. jobTip' \in Seq(Chains) /\ Len(jobTip') = Len(jobTip) + 1
    BY <1>4, <2>1 DEF Install
  <2>3. MaxJobs[coin] \in Nat
    BY BoundsAssumption
  <2> QED
    BY <1>4, <2>1, <2>2, <2>3 DEF Install
<1>7. ASSUME NEW r \in Refreshers, Fetch(r) PROVE TypeOK'
  BY <1>7 DEF Fetch
<1>5. CASE GraceEnds
  BY <1>5 DEF GraceEnds
<1>6. CASE CooldownEnds
  BY <1>6 DEF CooldownEnds
<1> QED
  BY <1>1, <1>2, <1>3, <1>4, <1>5, <1>6, <1>7

\* So does every step of a session.
LEMMA TypeSession ==
  ASSUME TypeOK, OwnShares, NotYetCounted, OwnShares', NotYetCounted', NEW v \in Validators,
         \/ \E x \in Blocks : Submit(v, x)
         \/ CheckTip(v) \/ CheckGrace(v) \/ CheckCooldown(v) \/ CheckBest(v)
         \/ SubmitBlock(v) \/ MarkSubmitted(v) \/ Verify(v)
  PROVE  TypeOK'
<1> USE DEF TypeOK, nodeVars, managerVars, statVars
<1>1. /\ vpc' \in [Validators -> Steps] /\ share' \in [Validators -> Blocks \cup {NoShare}]
      /\ credited' \subseteq known'
      /\ \A w \in Validators : vpc'[w] \in {"mark", "verify"} => share'[w] \in known'
  BY DEF OwnShares, NotYetCounted, Beyond
<1>2. CASE SubmitBlock(v)
  <2>1. share[v] \in Blocks
    BY <1>2 DEF SubmitBlock, OwnShares
  <2>2. chain' \in Chains /\ known' \subseteq Blocks
    BY <1>2, <2>1, ChainSteps DEF SubmitBlock, NodeTakes, Links
  <2> QED
    BY <1>1, <1>2, <2>2 DEF SubmitBlock
<1>3. CASE MarkSubmitted(v)
  BY <1>1, <1>3 DEF MarkSubmitted
<1>4. CASE Verify(v)
  BY <1>1, <1>4 DEF Verify
<1>5. CASE \/ \E x \in Blocks : Submit(v, x)
           \/ CheckTip(v) \/ CheckGrace(v) \/ CheckCooldown(v) \/ CheckBest(v)
  BY <1>1, <1>5 DEF Submit, CheckTip, CheckGrace, CheckCooldown, CheckBest
<1> QED
  BY <1>2, <1>3, <1>4, <1>5

LEMMA TypeStep ==
  ASSUME TypeOK, IInv, [Next]_vars
  PROVE  TypeOK'
<1>1. OwnShares' /\ NotYetCounted'
  BY OwnSharesStep, NotYetCountedStep DEF IInv
<1>2. CASE UNCHANGED vars
  BY <1>2 DEF vars, nodeVars, managerVars, statVars, TypeOK
<1> QED
  BY <1>1, <1>2, TypeSurroundings, TypeSession DEF Next, IInv

LEMMA IInvStep == IInv /\ [Next]_vars => IInv'
BY OwnSharesStep, NotYetCountedStep, CountedOnceStep DEF IInv

\* Everything stays of its kind, and a block beyond submitblock is known to the node.
THEOREM TypeCorrect == Spec => []TypeOK
BY InitHolds, IInvStep, TypeInit, TypeStep, PTL DEF Spec

-----------------------------------------------------------------------------
(* The stale check                                                          *)

\* No template is ahead of the node, and one as far as the node is on its tip.
Behind(c) == Progress(c) <= Progress(chain) /\ (Progress(c) = Progress(chain) => c = chain)

NeverAhead ==
  ~ parked => /\ \A j \in 1..Len(jobTip) : Behind(jobTip[j])
              /\ \A r \in Refreshers : template[r] # NoTemplate => Behind(template[r])

\* The tip is that of the job installed last.
TipOfNewest == Len(jobTip) > 0 /\ currentTip = jobTip[Len(jobTip)]

\* A submission is for a job of the manager.
JobsExist == \A v \in Validators : vpc[v] # "idle" => share[v].job \in 1..Len(jobTip)

\* A share is looked at for its grace only when the node has left its tip, or an older
\* template was installed after its job's.
LeftBehind == \A v \in Validators : vpc[v] = "grace" /\ ~ parked => Parent(v) # chain \/ Overtaken(v)

TipInv == NeverAhead /\ TipOfNewest /\ JobsExist /\ LeftBehind

LEMMA ProgressType == ASSUME NEW c \in Chains PROVE Progress(c) \in Nat
<1>1. Len(c) \in Nat
  BY ChainsAreSequences
<1> QED
  BY <1>1 DEF Progress

\* Nothing but parking takes the chain back.
LEMMA ChainProgress ==
  ASSUME TypeOK, IInv, [Next]_vars, ~ parked'
  PROVE  /\ ~ parked
         /\ chain' \in Chains
         /\ chain' = chain \/ Progress(chain') > Progress(chain)
<1> USE DEF nodeVars, managerVars, statVars
<1>1. chain \in Chains /\ Len(chain) \in Nat
  BY ChainsAreSequences DEF TypeOK
<1>2. ASSUME NEW b \in Links, chain' = Append(chain, b)
      PROVE  chain' \in Chains /\ Progress(chain') > Progress(chain)
  <2>1. chain' \in Chains /\ Len(chain') = Len(chain) + 1
    BY <1>1, <1>2, ChainSteps
  <2> QED
    BY <1>1, <2>1 DEF Progress
<1>3. CASE ForeignBlock
  BY <1>2, <1>3 DEF ForeignBlock, Links, Foreign
<1>4. CASE Reorg
  <2>1. chain # << >> /\ Last(chain) # Others(2) /\ chain' = [chain EXCEPT ![Len(chain)] = Others(2)]
    BY <1>4 DEF Reorg
  <2>2. chain' \in Chains /\ Len(chain') = Len(chain) /\ Last(chain') = Others(2)
    BY <1>1, <2>1, ChainSteps DEF Links, Foreign
  <2>3. chain' # << >>
    BY <2>1
  <2> QED
    BY <1>1, <1>4, <2>1, <2>2, <2>3 DEF Reorg, Progress
<1>5. CASE Park
  BY <1>5 DEF Park
<1>6. ASSUME NEW v \in Validators, SubmitBlock(v)
      PROVE  /\ ~ parked
             /\ chain' \in Chains
             /\ chain' = chain \/ Progress(chain') > Progress(chain)
  <2>1. share[v] \in Links
    BY <1>6 DEF SubmitBlock, IInv, OwnShares, Links
  <2>2. chain' = chain \/ chain' = Append(chain, share[v])
    BY <1>6 DEF SubmitBlock, NodeTakes
  <2> QED
    BY <1>1, <1>2, <1>6, <2>1, <2>2 DEF SubmitBlock
<1>7. CASE UNCHANGED <<chain, parked>>
  BY <1>1, <1>7
<1> QED
  BY <1>3, <1>4, <1>5, <1>6, <1>7
     DEF Next, vars, Fetch, Install, GraceEnds, CooldownEnds, Submit, CheckTip, CheckGrace,
         CheckCooldown, CheckBest, MarkSubmitted, Verify

\* A chain of the past stays behind.
LEMMA StaysBehind ==
  ASSUME TypeOK, IInv, [Next]_vars, ~ parked', NEW c \in Chains, Behind(c)
  PROVE  Progress(c) <= Progress(chain') /\ (Progress(c) = Progress(chain') => c = chain')
<1>1. chain' \in Chains /\ (chain' = chain \/ Progress(chain') > Progress(chain))
  BY ChainProgress
<1>2. Progress(c) \in Nat /\ Progress(chain) \in Nat /\ Progress(chain') \in Nat
  BY <1>1, ProgressType DEF TypeOK
<1> QED
  BY <1>1, <1>2 DEF Behind

\* The jobs and the templates under way change only by a refresh.
LEMMA RefreshSteps ==
  ASSUME [Next]_vars
  PROVE  \/ UNCHANGED managerVars
         \/ UNCHANGED <<jobTip, currentTip, template>>
         \/ \E r \in Refreshers : Fetch(r) \/ Install(r)
BY DEF Next, vars, nodeVars, managerVars, statVars, ForeignBlock, Reorg, Park, GraceEnds,
   CooldownEnds, Submit, CheckTip, CheckGrace, CheckCooldown, CheckBest, SubmitBlock,
   MarkSubmitted, Verify

LEMMA NeverAheadStep ==
  ASSUME TypeOK, IInv, NeverAhead, [Next]_vars
  PROVE  NeverAhead'
<1> SUFFICES ASSUME ~ parked'
             PROVE  /\ \A j \in 1..Len(jobTip') : Behind(jobTip[j])'
                    /\ \A r \in Refreshers : template'[r] # NoTemplate => Behind(template[r])'
  BY DEF NeverAhead
<1>1. ~ parked
  BY ChainProgress
<1>2. jobTip \in Seq(Chains) /\ chain \in Chains /\ \A r \in Refreshers : template[r] # NoTemplate => template[r] \in Chains
  BY DEF TypeOK
<1>3. \A j \in 1..Len(jobTip) : jobTip[j] \in Chains /\ Behind(jobTip[j])
  BY <1>1, <1>2 DEF NeverAhead
<1>4. \A r \in Refreshers : template[r] # NoTemplate => Behind(template[r])
  BY <1>1 DEF NeverAhead
<1> DEFINE Still(c) == Progress(c) <= Progress(chain') /\ (Progress(c) = Progress(chain') => c = chain')
<1>5. \A c \in Chains : Behind(c) => Still(c)
  BY StaysBehind
<1>6. /\ \A j \in 1..Len(jobTip') : Still(jobTip'[j])
      /\ \A r \in Refreshers : template'[r] # NoTemplate => Still(template'[r])
  <2> HIDE DEF Still
  <2>1. CASE UNCHANGED <<jobTip, currentTip, template>>
    BY <1>2, <1>3, <1>4, <1>5, <2>1
  <2>2. ASSUME NEW r \in Refreshers, Fetch(r)
        PROVE  /\ \A j \in 1..Len(jobTip') : Still(jobTip'[j])
               /\ \A q \in Refreshers : template'[q] # NoTemplate => Still(template'[q])
    <3>1. jobTip' = jobTip /\ template' = [template EXCEPT ![r] = chain]
      BY <2>2 DEF Fetch
    <3>2. Behind(chain)
      BY <1>2, ProgressType DEF Behind
    <3> QED
      BY <1>2, <1>3, <1>4, <1>5, <3>1, <3>2 DEF TypeOK
  <2>3. ASSUME NEW r \in Refreshers, Install(r)
        PROVE  /\ \A j \in 1..Len(jobTip') : Still(jobTip'[j])
               /\ \A q \in Refreshers : template'[q] # NoTemplate => Still(template'[q])
    <3>1. /\ jobTip' = Append(jobTip, template[r])
          /\ template[r] # NoTemplate /\ template' = [template EXCEPT ![r] = NoTemplate]
      BY <2>3 DEF Install
    <3>2. Still(template[r])
      BY <1>2, <1>4, <1>5, <3>1
    <3>3. \A j \in 1..Len(jobTip) : Still(jobTip[j])
      BY <1>3, <1>5
    <3>4. \A j \in 1..Len(jobTip') : Still(jobTip'[j])
      BY <1>2, <3>1, <3>2, <3>3
    <3>5. \A q \in Refreshers : template'[q] # NoTemplate => Still(template'[q])
      BY <1>2, <1>4, <1>5, <3>1 DEF TypeOK
    <3> QED
      BY <3>4, <3>5
  <2> QED
    BY <2>1, <2>2, <2>3, RefreshSteps DEF managerVars
<1> QED
  BY <1>6 DEF Behind

LEMMA TipOfNewestStep ==
  ASSUME TypeOK, TipOfNewest, [Next]_vars
  PROVE  TipOfNewest'
<1>1. CASE UNCHANGED <<jobTip, currentTip>>
  BY <1>1 DEF TipOfNewest
<1>2. ASSUME NEW r \in Refreshers, Install(r) PROVE TipOfNewest'
  <2>1. jobTip \in Seq(Chains) /\ template[r] \in Chains
    BY <1>2 DEF TypeOK, Install
  <2>2. currentTip' = template[r] /\ jobTip' = Append(jobTip, template[r])
    BY <1>2 DEF Install
  <2> QED
    BY <2>1, <2>2 DEF TipOfNewest
<1> QED
  BY <1>1, <1>2, RefreshSteps DEF managerVars, Fetch

LEMMA JobsStay ==
  ASSUME TypeOK, [Next]_vars
  PROVE  /\ Len(jobTip) \in Nat /\ Len(jobTip') \in Nat /\ Len(jobTip) <= Len(jobTip')
         /\ \A j \in 1..Len(jobTip) : jobTip'[j] = jobTip[j]
<1>1. jobTip \in Seq(Chains)
  BY DEF TypeOK
<1>2. CASE jobTip' = jobTip
  BY <1>1, <1>2
<1>3. ASSUME NEW r \in Refreshers, Install(r)
      PROVE  /\ Len(jobTip') \in Nat /\ Len(jobTip) <= Len(jobTip')
             /\ \A j \in 1..Len(jobTip) : jobTip'[j] = jobTip[j]
  <2>1. template[r] \in Chains /\ jobTip' = Append(jobTip, template[r])
    BY <1>3 DEF TypeOK, Install
  <2> QED
    BY <1>1, <2>1
<1> QED
  BY <1>1, <1>2, <1>3, RefreshSteps DEF managerVars, Fetch

\* What a step may do to a submission: it begins, ends, or goes on, to the grace check
\* only from a comparison with the manager's tip.
Course(v) ==
  \/ UNCHANGED <<vpc[v], share[v]>>
  \/ vpc'[v] = "tip" /\ share'[v].job \in 1..Len(jobTip)
  \/ vpc'[v] = "idle"
  \/ vpc[v] # "idle" /\ share'[v] = share[v] /\ vpc'[v] # "grace"
  \/ /\ vpc[v] = "tip" /\ share'[v] = share[v]
     /\ Parent(v) # currentTip

LEMMA CourseOfStep ==
  ASSUME TypeOK, OwnShares, [Next]_vars, NEW v \in Validators
  PROVE  Course(v)
<1> USE DEF OwnShares, Steps, GoTo, Return, CheckHash, Submitted, Course
<1>1. CASE UNCHANGED <<vpc, share>>
  BY <1>1
<1>2. ASSUME NEW w \in Validators, NEW x \in Blocks, Submit(w, x) PROVE Course(v)
  <2>1. x.job \in 1..Len(jobTip)
    BY <1>2 DEF Submit, Retained
  <2> QED
    BY <1>2, <2>1 DEF Submit
<1>3. ASSUME NEW w \in Validators, CheckTip(w) PROVE Course(v)
  BY <1>3 DEF CheckTip
<1>4. ASSUME NEW w \in Validators, CheckGrace(w) PROVE Course(v)
  BY <1>4 DEF CheckGrace
<1>5. ASSUME NEW w \in Validators, CheckCooldown(w) PROVE Course(v)
  BY <1>5 DEF CheckCooldown
<1>6. ASSUME NEW w \in Validators, CheckBest(w) PROVE Course(v)
  BY <1>6 DEF CheckBest
<1>7. ASSUME NEW w \in Validators, SubmitBlock(w) PROVE Course(v)
  BY <1>7 DEF SubmitBlock
<1>8. ASSUME NEW w \in Validators, MarkSubmitted(w) PROVE Course(v)
  BY <1>8 DEF MarkSubmitted
<1>9. ASSUME NEW w \in Validators, Verify(w) PROVE Course(v)
  BY <1>9 DEF Verify
<1> QED
  BY <1>1, <1>2, <1>3, <1>4, <1>5, <1>6, <1>7, <1>8, <1>9
     DEF Next, vars, ForeignBlock, Reorg, Park, Fetch, Install, GraceEnds, CooldownEnds

LEMMA JobsExistStep ==
  ASSUME TypeOK, IInv, JobsExist, [Next]_vars
  PROVE  JobsExist'
<1> SUFFICES ASSUME NEW v \in Validators, vpc'[v] # "idle"
             PROVE  share'[v].job \in 1..Len(jobTip')
  BY DEF JobsExist
<1>1. share'[v].job \in 1..Len(jobTip)
  BY CourseOfStep DEF Course, JobsExist, IInv
<1> QED
  BY <1>1, JobsStay

\* A share that fails the comparison is for a tip that the node has left for good, or for an
\* older job than the newest, whose template is behind it.
LEMMA LeftBehindStep ==
  ASSUME TypeOK, IInv, TipInv, [Next]_vars
  PROVE  LeftBehind'
<1> SUFFICES ASSUME NEW v \in Validators, vpc'[v] = "grace", ~ parked'
             PROVE  Parent(v)' # chain' \/ Overtaken(v)'
  BY DEF LeftBehind
<1> DEFINE j == share[v].job
<1>1. /\ ~ parked
      /\ chain' = chain \/ Progress(chain') > Progress(chain)
      /\ chain' \in Chains
  BY ChainProgress
<1>2. /\ share'[v] = share[v]
      /\ \/ vpc[v] = "grace"
         \/ vpc[v] = "tip" /\ Parent(v) # currentTip
  BY CourseOfStep DEF Course, IInv
<1>3. j \in 1..Len(jobTip) /\ Len(jobTip) \in Nat
  BY <1>2, JobsStay DEF TipInv, JobsExist
<1>4. Parent(v)' = jobTip[j] /\ Parent(v) = jobTip[j]
  BY <1>2, <1>3, JobsStay DEF Parent
<1>5. Behind(jobTip[j]) /\ Behind(currentTip)
  BY <1>1, <1>3 DEF TipInv, NeverAhead, TipOfNewest
<1>6. jobTip[j] \in Chains /\ chain \in Chains /\ currentTip \in Chains
  BY <1>3 DEF TypeOK
<1>7. Parent(v) # chain \/ Overtaken(v)
  <2>1. CASE vpc[v] = "grace"
    BY <1>1, <2>1 DEF TipInv, LeftBehind
  <2>2. CASE vpc[v] = "tip" /\ Parent(v) # currentTip /\ Parent(v) = chain
    <3>1. currentTip = jobTip[Len(jobTip)]
      BY DEF TipInv, TipOfNewest
    <3>2. Progress(currentTip) < Progress(Parent(v))
      BY <1>5, <1>6, <2>2, ProgressType DEF Behind
    <3>3. j # Len(jobTip)
      BY <1>4, <2>2, <3>1
    <3>4. Len(jobTip) \in j + 1..Len(jobTip)
      BY <1>3, <3>3
    <3> QED
      BY <3>1, <3>2, <3>4 DEF Overtaken
  <2> QED
    BY <1>2, <2>1, <2>2
<1>8. CASE Overtaken(v)
  <2>1. PICK k \in j + 1..Len(jobTip) : Progress(jobTip[k]) < Progress(jobTip[j])
    BY <1>4, <1>8 DEF Overtaken
  <2>2. k \in 1..Len(jobTip) /\ k \in j + 1..Len(jobTip')
    BY <1>3, <2>1, JobsStay
  <2>3. jobTip'[k] = jobTip[k]
    BY <2>2, JobsStay
  <2> QED
    BY <1>2, <1>4, <2>1, <2>2, <2>3 DEF Overtaken
<1>9. CASE Parent(v) # chain
  <2>1. CASE chain' = chain
    BY <1>4, <1>9, <2>1
  <2>2. CASE Progress(chain') > Progress(chain)
    <3>1. Progress(jobTip[j]) < Progress(chain')
      BY <1>1, <1>5, <1>6, <2>2, ProgressType DEF Behind
    <3> QED
      BY <1>1, <1>4, <1>6, <3>1, ProgressType
  <2> QED
    BY <1>1, <2>1, <2>2
<1> QED
  BY <1>7, <1>8, <1>9

\* While the node parks no block, a share on the node's own tip is refused as stale only after
\* an older template than its job's was installed late.
THEOREM NoBlockLostHolds == Spec => NoBlockLost
<1>1. Init => TipInv
  <2> SUFFICES ASSUME Init PROVE TipInv
    OBVIOUS
  <2>1. /\ Len(jobTip) = 1 /\ jobTip[1] = << >> /\ chain = << >> /\ currentTip = << >>
        /\ \A r \in Refreshers : template[r] = NoTemplate
    BY DEF Init
  <2>2. NeverAhead
    <3>1. Progress(<< >>) <= Progress(<< >>)
      BY DEF Progress
    <3> QED
      BY <2>1, <3>1 DEF NeverAhead, Behind
  <2>3. \A v \in Validators : vpc[v] = "idle"
    BY DEF Init
  <2> QED
    BY <2>1, <2>2, <2>3 DEF TipInv, TipOfNewest, JobsExist, LeftBehind
<1>2. TypeOK /\ IInv /\ TipInv /\ [Next]_vars => TipInv'
  BY NeverAheadStep, TipOfNewestStep, JobsExistStep, LeftBehindStep DEF TipInv
<1>3. TipInv /\ [Next]_vars
      => [\A v \in Validators :
            vpc[v] = "grace" /\ ~ graceOpen /\ vpc'[v] = "idle"
            => chain # Parent(v) \/ parked \/ Overtaken(v)]_vars
  BY DEF TipInv, LeftBehind
<1>4. Spec => []TypeOK /\ []IInv
  BY InitHolds, IInvStep, TypeCorrect, PTL DEF Spec
<1> QED
  BY <1>1, <1>2, <1>3, <1>4, PTL DEF Spec, NoBlockLost
-----------------------------------------------------------------------------
(* The refinement of BlockLedger                                            *)

FateOf(b) == IF b \in credited THEN "counted"
             ELSE IF Confirming(b) THEN "accepted"
             ELSE IF b \in known THEN "delivered" ELSE "unknown"

\* One block's fate changes.
LEMMA FateBecomes ==
  ASSUME NEW b \in Blocks, NEW old, NEW new, FateOf(b) = old, FateOf(b)' = new,
         \A c \in Blocks \ {b} : FateOf(c)' = FateOf(c)
  PROVE  Ledger!Becomes(b, old, new)
<1> DEFINE fate == [c \in Blocks |-> FateOf(c)]
<1>1. fate' = [c \in Blocks |-> FateOf(c)']
  OBVIOUS
<1> HIDE DEF FateOf
<1>2. fate[b] = old /\ fate' = [fate EXCEPT ![b] = new]
  BY <1>1
<1> QED
  BY <1>2 DEF FateOf, Ledger!Becomes

\* Nothing is delivered or counted, and no session enters or leaves the verification.
LEMMA FateKept ==
  ASSUME UNCHANGED <<known, credited, blocksFound>>,
         \A v \in Validators : Beyond(v)' = Beyond(v) /\ (Beyond(v) => share'[v] = share[v])
  PROVE  Ledger!LedgerNext
<1>1. \A b : Confirming(b)' = Confirming(b)
  BY DEF Confirming, Beyond
<1>2. Ledger!Move
  BY <1>1 DEF Ledger!Move
<1> QED
  BY <1>2 DEF Ledger!LedgerNext

\* The node is given a block of which it knew nothing.
LEMMA SubmitImplements ==
  ASSUME OwnShares, NotYetCounted, NEW v \in Validators, SubmitBlock(v)
  PROVE  Ledger!LedgerNext
<1> USE DEF OwnShares, NotYetCounted, Beyond, Steps
<1> PICK b \in Blocks : b = share[v]
  BY DEF SubmitBlock
<1>1. /\ vpc[v] = "submit" /\ UNCHANGED <<credited, blocksFound>>
      /\ \A w \in Validators \ {v} : vpc'[w] = vpc[w] /\ share'[w] = share[w]
  BY DEF SubmitBlock, GoTo, Return, statVars
<1>2. CASE Return(v) /\ UNCHANGED <<chain, known>>
  <2>1. \A w \in Validators : Beyond(w)' = Beyond(w) /\ (Beyond(w) => share'[w] = share[w])
    BY <1>1, <1>2 DEF Return
  <2> QED
    BY <1>1, <1>2, <2>1, FateKept
<1>3. CASE b \notin known /\ NodeTakes(b, Parent(v)) /\ (Return(v) \/ (chain' # chain /\ GoTo(v, Submitted(v))))
  <2>1. known' = known \cup {b} /\ chain' \in {chain, Append(chain, b)}
    BY <1>3 DEF NodeTakes
  <2>2. FateOf(b) = "unknown"
    BY <1>3 DEF FateOf, Confirming
  <2>3. \A c \in Blocks \ {b} : Confirming(c)' = Confirming(c)
    BY <1>1, <1>3 DEF Confirming, GoTo, Return
  <2>4. \A c \in Blocks \ {b} : FateOf(c)' = FateOf(c)
    BY <1>1, <2>1, <2>3 DEF FateOf
  <2>5. CASE Return(v)
    <3>1. ~Confirming(b)'
      BY <1>1, <1>3, <2>5 DEF Confirming, Return
    <3>2. FateOf(b)' = "delivered"
      BY <1>1, <1>3, <2>1, <3>1 DEF FateOf
    <3>3. Ledger!Becomes(b, "unknown", "delivered")
      BY <1>1, <2>2, <2>4, <3>2, FateBecomes
    <3>4. Ledger!Deliver(b)
      BY <1>1, <2>1, <3>3 DEF Ledger!Deliver
    <3> QED
      BY <1>1, <3>4 DEF Ledger!LedgerNext
  <2>6. CASE chain' # chain /\ GoTo(v, Submitted(v))
    <3>1. Confirming(b)'
      BY <1>1, <2>6 DEF Confirming, GoTo, Submitted
    <3>2. FateOf(b)' = "accepted"
      BY <1>1, <1>3, <3>1 DEF FateOf
    <3>3. Ledger!Becomes(b, "unknown", "accepted")
      BY <1>1, <2>2, <2>4, <3>2, FateBecomes
    <3>4. Ledger!Accept(b)
      BY <1>1, <2>1, <2>6, <3>3 DEF Ledger!Accept
    <3> QED
      BY <1>1, <3>4 DEF Ledger!LedgerNext
  <2> QED
    BY <1>3, <2>5, <2>6
<1> QED
  BY <1>2, <1>3 DEF SubmitBlock

\* The block that is verified is nobody else's.
LEMMA VerifyImplements ==
  ASSUME OwnShares, NotYetCounted, NEW v \in Validators, Verify(v)
  PROVE  Ledger!LedgerNext
<1> USE DEF OwnShares, NotYetCounted, Beyond, Steps
<1> PICK b \in Blocks : b = share[v]
  BY DEF Verify
<1>1. /\ vpc[v] = "verify" /\ b \in known \ credited
      /\ vpc'[v] = "idle" /\ UNCHANGED <<chain, known>>
      /\ \A w \in Validators \ {v} : vpc'[w] = vpc[w] /\ share'[w] = share[w]
  BY DEF Verify, Return, nodeVars
<1>2. \A w \in Validators \ {v} : Beyond(w) => share[w] # b
  BY <1>1
<1>3. FateOf(b) = "accepted" /\ ~Confirming(b)'
  BY <1>1, <1>2 DEF FateOf, Confirming
<1>4. \A c \in Blocks \ {b} : Confirming(c)' = Confirming(c)
  BY <1>1 DEF Confirming
<1>5. CASE UNCHANGED statVars
  <2>1. FateOf(b)' = "delivered" /\ \A c \in Blocks \ {b} : FateOf(c)' = FateOf(c)
    BY <1>1, <1>3, <1>4, <1>5 DEF FateOf, statVars
  <2>2. Ledger!Becomes(b, "accepted", "delivered")
    BY <1>1, <1>3, <2>1, FateBecomes
  <2>3. Ledger!Forgo(b)
    BY <1>1, <1>5, <2>2 DEF Ledger!Forgo, statVars
  <2> QED
    BY <1>1, <2>3 DEF Ledger!LedgerNext
<1>6. CASE ~ UNCHANGED statVars
  <2>1. /\ credited' = credited \cup {b} /\ blocksFound' = blocksFound + 1
        /\ Len(Parent(v)) + 1 <= Len(chain) /\ chain[Len(Parent(v)) + 1] = b
    BY <1>6 DEF Verify
  <2>2. FateOf(b)' = "counted" /\ \A c \in Blocks \ {b} : FateOf(c)' = FateOf(c)
    BY <1>1, <1>4, <2>1 DEF FateOf
  <2>3. Ledger!Becomes(b, "accepted", "counted")
    BY <1>1, <1>3, <2>2, FateBecomes
  <2>4. \E height \in DOMAIN chain : chain[height] = b
    BY <2>1
  <2>5. Ledger!Count(b)
    BY <1>1, <2>1, <2>3, <2>4 DEF Ledger!Count
  <2> QED
    BY <1>1, <2>5 DEF Ledger!LedgerNext
<1> QED
  BY <1>5, <1>6

LEMMA StepImplements == OwnShares /\ NotYetCounted /\ [Next]_vars => [Ledger!LedgerNext]_(Ledger!ledgerVars)
<1> SUFFICES ASSUME OwnShares, NotYetCounted, [Next]_vars PROVE Ledger!LedgerNext
  OBVIOUS
<1>1. CASE UNCHANGED <<known, credited, blocksFound, vpc, share>>
  BY <1>1, FateKept DEF Beyond
<1>2. ASSUME NEW v \in Validators,
             (\E x \in Blocks : Submit(v, x)) \/ CheckTip(v) \/ CheckGrace(v) \/ CheckCooldown(v)
               \/ CheckBest(v) \/ MarkSubmitted(v)
      PROVE  Ledger!LedgerNext
  <2>1. /\ UNCHANGED <<known, credited, blocksFound>>
        /\ \A w \in Validators \ {v} : vpc'[w] = vpc[w] /\ share'[w] = share[w]
        /\ \/ vpc[v] \notin {"mark", "verify"} /\ vpc'[v] \notin {"mark", "verify"}
           \/ vpc[v] = "mark" /\ vpc'[v] = "verify" /\ share' = share
    BY <1>2 DEF Submit, CheckTip, CheckGrace, CheckCooldown, CheckBest, MarkSubmitted, CheckHash, GoTo, Return,
                statVars, nodeVars, OwnShares
  <2>2. \A w \in Validators : Beyond(w)' = Beyond(w) /\ (Beyond(w) => share'[w] = share[w])
    BY <2>1 DEF Beyond
  <2> QED
    BY <2>1, <2>2, FateKept
<1> QED
  BY <1>1, <1>2, SubmitImplements, VerifyImplements
     DEF Next, vars, nodeVars, managerVars, statVars, ForeignBlock, Reorg, Park, Fetch, Install, GraceEnds, CooldownEnds

\* The validator implements BlockLedger: whatever is submitted again, lost or reorganised, each
\* block is delivered once, and counted only after it had become the node's tip and while it is on
\* the node's chain; one whose verification failed is never counted.
THEOREM Implements == Spec => ImplementsLedger
<1>1. Init => Ledger!LedgerInit
  BY DEF Init, Ledger!LedgerInit, Confirming
<1> QED
  BY <1>1, InitHolds, IInvStep, StepImplements, PTL DEF Spec, IInv, ImplementsLedger, Ledger!LedgerSpec
=============================================================================
