------------------------- MODULE LuxOSControlProofs -------------------------
(***************************************************************************)
(* What holds of LuxOSControl for any boards, profiles, requests and       *)
(* configuration changes: its types, that two actions overlap only when    *)
(* the lock of one was forgotten, and that it implements MinerControl.     *)
(***************************************************************************)
EXTENDS LuxOSControl, SequenceTheorems, WellFoundedInduction, TLAPS

-----------------------------------------------------------------------------
(* Types.  TypeOK is not inductive: a plan must not end before its          *)
(* notification, nor a round over the boards before its last board.         *)

\* Whatever is left of a plan ends with its notification, and the catalog is read
\* before a command that may be left out.
WellPlanned(plan) ==
  /\ plan \in Plans /\ Len(plan) > 0
  /\ \A i \in 1..Len(plan) : plan[i] = "record" <=> i = Len(plan)
  /\ \A i \in 1..Len(plan) : plan[i] = "list" => i + 2 <= Len(plan)

Stages == {"top", "health", "answer", "recover", "complete", "detected", "failed",
           "restarting", "schedule", "above", "below", "scheduled", "enforcing", "wait"}
BoardStages == {"recover", "complete", "detected", "failed", "restarting"}
Awaiting == {"restarting", "scheduled", "enforcing"}

MinerTyped ==
  /\ up \in BOOLEAN /\ lowWindow \in BOOLEAN /\ profile \in Profiles
  /\ on \in [Boards -> BOOLEAN] /\ ill \in [Boards -> BOOLEAN]
MemoryTyped ==
  /\ timers \subseteq Timers
  /\ cached \in Profiles \cup {NoProfile}
  /\ bad \in [Boards -> 0..Confirmations] /\ incident \subseteq Boards
  /\ lastTarget \in {"low", "full", NoTarget}
  /\ lock \in Actors \cup {Nobody}
ReadingTyped ==
  /\ config \in Configs /\ miner \in Configs \cup {NoMiner}
  /\ snapshot \in Snapshots \cup {NoSnapshot} /\ active \in BOOLEAN
StageTyped ==
  /\ pc \in Stages /\ todo \subseteq Boards
  /\ pc \in BoardStages => todo # {}
ExecTyped ==
  /\ exec \in [Actors -> Execs \cup {NoExec}]
  /\ \A a \in Actors : exec[a] # NoExec => WellPlanned(exec[a].plan)
  /\ exec[Loop] # NoExec <=> pc \in Awaiting
  /\ pc = "scheduled" => exec[Loop].action \in {"low", "full"}

TypeInv == MinerTyped /\ MemoryTyped /\ ReadingTyped /\ StageTyped /\ ExecTyped

\* The strengthened invariant implies the one of the runs.
LEMMA TypeInvStronger == TypeInv => TypeOK
BY DEF TypeInv, MinerTyped, MemoryTyped, ReadingTyped, StageTyped, ExecTyped, TypeOK,
       WellPlanned, Stages, Awaiting

\* Boards are natural numbers, so that a set of them has a lowest.
LEMMA LowestBoard == ASSUME NEW S \in SUBSET Boards, S # {} PROVE Min(S) \in S
<1>1. \E x \in S : \A y \in S : ~ (<<y, x>> \in OpToRel(<, Nat))
  BY WFMin, NatLessThanWellFounded, BoardsAssumption, Zenon
<1>2. \A x, y \in S : <<y, x>> \in OpToRel(<, Nat) <=> y < x
  BY BoardsAssumption DEF OpToRel
<1>3. \A x, y \in S : ~ (y < x) => x =< y
  BY BoardsAssumption
<1>4. \E x \in S : \A y \in S : x =< y
  BY <1>1, <1>2, <1>3, Zenon
<1> QED
  BY <1>4 DEF Min

\* Every timer of the miner and of a board is one.
LEMMA TimerNames ==
  /\ \A n \in Names : Of(n) \in Timers
  /\ \A b \in Boards : Suppress(b) \in Timers /\ Observe(b) \in Timers /\ SixHours(b) \in Timers
BY DEF Timers

\* The fields of a configuration.
LEMMA ConfigFields == \A c \in Configs : c \in ConfigType
BY ConfigsAssumption

-----------------------------------------------------------------------------
(* What the operators the actions share do to the types.                    *)

\* Every plan is well formed when it is drawn up.
LEMMA PlanWellPlanned ==
  ASSUME NEW action \in Actions, NEW c \in Configs
  PROVE  WellPlanned(Plan(action, c))
<1>1. WellPlanned(<<"count", "reboot", "record">>)
  BY DEF WellPlanned, Plans
<1>2. WellPlanned(<<"count", "boards", "record">>)
  BY DEF WellPlanned, Plans
<1>3. WellPlanned(<<"count", "list", "profile", "boards", "record">>)
  BY DEF WellPlanned, Plans
<1>4. WellPlanned(<<"list", "profile", "record">>)
  BY DEF WellPlanned, Plans
<1> QED
  BY <1>1, <1>2, <1>3, <1>4, Zenon DEF Plan

\* Begin starts a typed action of one actor and takes the lock for it.
LEMMA BeginTyped ==
  ASSUME TypeInv, NEW a \in Actors, NEW action \in Actions, NEW b \in Boards, Begin(a, action, b)
  PROVE  /\ exec' \in [Actors -> Execs \cup {NoExec}]
         /\ \A d \in Actors : exec'[d] # NoExec => WellPlanned(exec'[d].plan)
         /\ \A d \in Actors : d # a => exec'[d] = exec[d]
         /\ exec'[a] # NoExec /\ exec'[a].action = action
         /\ timers' \subseteq Timers /\ lock' \in Actors \cup {Nobody}
<1> DEFINE x == [action |-> action, board |-> b, miner |-> config,
                 plan |-> Plan(action, config), ok |-> TRUE, orphan |-> FALSE]
<1>1. config \in Configs /\ exec \in [Actors -> Execs \cup {NoExec}]
  BY DEF TypeInv, ReadingTyped, ExecTyped
<1>2. WellPlanned(Plan(action, config))
  BY <1>1, PlanWellPlanned
<1>3. x \in Execs
  BY <1>1, <1>2 DEF Execs, WellPlanned
<1>4. x # NoExec
  BY <1>3, ActorsAssumption
<1>5. x.plan = Plan(action, config) /\ x.action = action
  OBVIOUS
<1>6. exec' = [exec EXCEPT ![a] = x] /\ lock' = a /\ timers' = timers \cup {Of("action")}
  BY DEF Begin
<1>7. timers' \subseteq Timers
  BY <1>6, TimerNames DEF TypeInv, MemoryTyped, Names
<1> HIDE DEF x
<1>8. \A d \in Actors : exec'[d] = IF d = a THEN x ELSE exec[d]
  BY <1>1, <1>6
<1>9. exec' \in [Actors -> Execs \cup {NoExec}]
  BY <1>1, <1>3, <1>6
<1> QED
  BY <1>2, <1>4, <1>5, <1>6, <1>7, <1>8, <1>9 DEF TypeInv, ExecTyped

\* AfterBoard ends the round over the boards with its last board.
LEMMA AfterBoardTyped ==
  ASSUME TypeInv, pc \in BoardStages, NEW b, AfterBoard(b)
  PROVE  StageTyped' /\ snapshot' \in Snapshots \cup {NoSnapshot} /\ active' \in BOOLEAN
         /\ pc' \in {"schedule", "recover"}
<1>1. todo' \subseteq Boards /\ pc' \in {"schedule", "recover"}
  BY DEF TypeInv, StageTyped, AfterBoard
<1>2. pc' \in BoardStages => todo' # {}
  BY DEF TypeInv, StageTyped, AfterBoard, BoardStages
<1>3. snapshot' \in Snapshots \cup {NoSnapshot} /\ active' \in BOOLEAN
  BY DEF TypeInv, ReadingTyped, AfterBoard
<1> QED
  BY <1>1, <1>2, <1>3 DEF StageTyped, Stages

\* Return ends an action, and the loop goes on to a typed stage.
LEMMA ReturnTyped ==
  ASSUME TypeInv, NEW a \in Actors, exec[a] # NoExec, NEW ok \in BOOLEAN, Return(a, ok), config' = config
  PROVE  MemoryTyped' /\ ReadingTyped' /\ StageTyped' /\ ExecTyped'
<1> DEFINE x == exec[a]
<1>1. x \in Execs /\ x.board \in Boards
  BY DEF TypeInv, ExecTyped, Execs
<1>2. /\ exec' \in [Actors -> Execs \cup {NoExec}] /\ exec'[a] = NoExec
      /\ \A d \in Actors : d # a => exec'[d] = exec[d]
  BY DEF Return, TypeInv, ExecTyped
<1>3. lock' \in Actors \cup {Nobody} /\ cached' = cached /\ miner' = miner
  BY DEF Return, TypeInv, MemoryTyped
<1>4. CASE a = Loop
  <2>1. pc \in Awaiting /\ Resume(x.board, ok)
    BY <1>4 DEF TypeInv, ExecTyped, Return
  <2>2. CASE pc = "restarting"
    <3>1. /\ timers' = timers \cup {Suppress(x.board)} \cup IF ok THEN {Observe(x.board)} ELSE {}
          /\ IF ok
             THEN /\ incident' = incident \cup {x.board}
                  /\ bad' = [bad EXCEPT ![x.board] = 0]
                  /\ AfterBoard(x.board)
             ELSE pc' = "failed" /\ UNCHANGED <<incident, bad, todo, snapshot, active>>
          /\ lastTarget' = lastTarget
      BY <2>1, <2>2 DEF Resume
    <3>2. timers' \subseteq Timers
      BY <1>1, <3>1, TimerNames DEF TypeInv, MemoryTyped
    <3>3. MemoryTyped'
      BY <1>1, <1>3, <3>1, <3>2 DEF TypeInv, MemoryTyped, Confirmations
    <3>4. CASE ok
      BY <1>2, <1>3, <1>4, <2>2, <3>1, <3>3, <3>4, AfterBoardTyped
      DEF TypeInv, ReadingTyped, ExecTyped, BoardStages, Awaiting
    <3>5. CASE ~ ok
      BY <1>2, <1>3, <1>4, <2>2, <3>1, <3>3, <3>5
      DEF TypeInv, ReadingTyped, StageTyped, ExecTyped, BoardStages, Awaiting, Stages
    <3> QED
      BY <3>4, <3>5
  <2>3. CASE pc = "scheduled"
    <3>1. /\ timers' = IF ok THEN timers \ {Of("retry")} ELSE timers \cup {Of("retry")}
          /\ lastTarget' = IF ok THEN x.action ELSE lastTarget
          /\ pc' = "wait" /\ UNCHANGED <<incident, bad, todo, snapshot, active>>
      BY <1>4, <2>1, <2>3 DEF Resume
    <3>2. timers' \subseteq Timers
      BY <3>1, TimerNames DEF TypeInv, MemoryTyped, Names
    <3>3. lastTarget' \in {"low", "full", NoTarget}
      BY <1>4, <2>3, <3>1 DEF TypeInv, MemoryTyped, ExecTyped
    <3> QED
      BY <1>2, <1>3, <1>4, <3>1, <3>2, <3>3
      DEF TypeInv, MemoryTyped, ReadingTyped, StageTyped, ExecTyped, BoardStages, Awaiting, Stages
  <2>4. CASE pc = "enforcing"
    <3>1. /\ timers' = IF ok THEN timers \ {Of("ceiling")} ELSE timers \cup {Of("ceiling")}
          /\ pc' = "wait" /\ UNCHANGED <<incident, bad, lastTarget, todo, snapshot, active>>
      BY <2>1, <2>4, Zenon DEF Resume
    <3>2. timers' \subseteq Timers
      BY <3>1, TimerNames DEF TypeInv, MemoryTyped, Names
    <3> QED
      BY <1>2, <1>3, <1>4, <3>1, <3>2
      DEF TypeInv, MemoryTyped, ReadingTyped, StageTyped, ExecTyped, BoardStages, Awaiting, Stages
  <2> QED
    BY <2>1, <2>2, <2>3, <2>4 DEF Awaiting
<1>5. CASE a # Loop
  <2>1. UNCHANGED <<timers, incident, bad, lastTarget, pc, todo, snapshot, active>>
    BY <1>5 DEF Return
  <2> QED
    BY <1>2, <1>3, <1>5, <2>1 DEF TypeInv, MemoryTyped, ReadingTyped, StageTyped, ExecTyped, Actors
<1> QED
  BY <1>4, <1>5

\* Skip leaves a well-formed rest of the plan.
LEMMA SkipTyped ==
  ASSUME TypeInv, NEW a \in Actors, NEW n \in 1..2,
         exec[a] # NoExec, Head(exec[a].plan) # "record",
         n = 2 => Head(exec[a].plan) = "list",
         Skip(a, n), config' = config
  PROVE  /\ ReadingTyped' /\ StageTyped' /\ ExecTyped'
         /\ incident' \subseteq Boards /\ lastTarget' \in {"low", "full", NoTarget}
         /\ lock' \in Actors \cup {Nobody}
<1> DEFINE x == exec[a]  plan == x.plan  rest == SubSeq(plan, n + 1, Len(plan))
           y == [x EXCEPT !.plan = rest]
<1>1. x \in Execs /\ WellPlanned(plan)
  BY DEF TypeInv, ExecTyped
<1>2. plan \in Plans /\ Len(plan) \in Nat /\ Head(plan) = plan[1]
  BY <1>1 DEF WellPlanned, Plans
<1>3. n + 1 <= Len(plan)
  BY <1>1, <1>2 DEF WellPlanned
<1>4. /\ rest \in Plans /\ Len(rest) = Len(plan) - n
      /\ \A i \in 1..Len(rest) : rest[i] = plan[i + n]
  <2>1. \A i \in (n + 1)..Len(plan) : plan[i] \in {"count", "list", "profile", "boards", "reboot", "record"}
    BY <1>2 DEF Plans
  <2> QED
    BY <1>2, <1>3, <2>1, SubSeqProperties DEF Plans
<1>5. WellPlanned(rest)
  <2> HIDE DEF plan, rest
  <2> QED
    BY <1>1, <1>2, <1>3, <1>4 DEF WellPlanned
<1>6. y \in Execs /\ y.plan = rest /\ y.action = x.action
  BY <1>1, <1>4 DEF Execs
<1>7. y # NoExec
  BY <1>6, ActorsAssumption
<1>8. exec' = [exec EXCEPT ![a] = y] /\ UNCHANGED loopVars
  BY DEF Skip
<1> HIDE DEF x, plan, rest, y
<1>9. /\ exec' \in [Actors -> Execs \cup {NoExec}]
      /\ \A d \in Actors : exec'[d] = IF d = a THEN y ELSE exec[d]
  BY <1>6, <1>8 DEF TypeInv, ExecTyped
<1>10. ExecTyped'
  BY <1>5, <1>6, <1>7, <1>8, <1>9 DEF TypeInv, ExecTyped, loopVars, x, Actors
<1>11. ReadingTyped' /\ StageTyped'
  BY <1>8 DEF TypeInv, ReadingTyped, StageTyped, loopVars
<1> QED
  BY <1>10, <1>11 DEF Skip, TypeInv, MemoryTyped

\* Abort returns, or leaves the notification.
LEMMA AbortTyped ==
  ASSUME TypeInv, NEW a \in Actors, exec[a] # NoExec, Abort(a), config' = config
  PROVE  MemoryTyped' /\ ReadingTyped' /\ StageTyped' /\ ExecTyped'
<1>1. CASE Silent(a)
  BY <1>1, ReturnTyped DEF Abort
<1>2. CASE ~ Silent(a)
  <2> DEFINE x == exec[a]  y == [x EXCEPT !.plan = <<"record">>, !.ok = FALSE]
  <2>1. WellPlanned(<<"record">>)
    BY DEF WellPlanned, Plans
  <2>2. x \in Execs
    BY DEF TypeInv, ExecTyped
  <2>3. y \in Execs /\ y.plan = <<"record">> /\ y.action = x.action
    BY <2>1, <2>2 DEF Execs, WellPlanned
  <2>4. y # NoExec
    BY <2>3, ActorsAssumption
  <2>5. exec' = [exec EXCEPT ![a] = y] /\ UNCHANGED <<memoryVars, loopVars>>
    BY <1>2 DEF Abort
  <2> HIDE DEF x, y
  <2>6. /\ exec' \in [Actors -> Execs \cup {NoExec}]
        /\ \A d \in Actors : exec'[d] = IF d = a THEN y ELSE exec[d]
    BY <2>3, <2>5 DEF TypeInv, ExecTyped
  <2>7. ExecTyped'
    BY <2>1, <2>3, <2>4, <2>5, <2>6 DEF TypeInv, ExecTyped, loopVars, x, Actors
  <2> QED
    BY <2>5, <2>7 DEF TypeInv, MemoryTyped, ReadingTyped, StageTyped, memoryVars, loopVars
<1> QED
  BY <1>1, <1>2

-----------------------------------------------------------------------------
(* Every action keeps the types.                                            *)

\* The service starts typed.
LEMMA InitTyped == Init => TypeInv
<1> SUFFICES ASSUME Init PROVE TypeInv
  OBVIOUS
<1>1. exec = [a \in Actors |-> NoExec] /\ Loop \in Actors
  BY DEF Init, Actors
<1>2. MinerTyped
  BY DEF Init, MinerTyped
<1>3. MemoryTyped
  BY TimerNames DEF Init, MemoryTyped, Confirmations, Names
<1>4. ReadingTyped /\ StageTyped /\ ExecTyped
  BY <1>1 DEF Init, ReadingTyped, StageTyped, ExecTyped, Stages, BoardStages, Awaiting
<1> QED
  BY <1>2, <1>3, <1>4 DEF TypeInv

\* The miner, the time and the configuration keep the types; so does forgetting a miner under an
\* action in progress.
LEMMA SurroundingsTyped ==
  ASSUME TypeInv,
         Reach \/ Window \/ EditConfig \/ (\E b \in Boards : Chips(b)) \/ (\E t \in timers : TimersEnd({t}))
  PROVE  TypeInv'
<1>1. CASE Reach
  BY <1>1 DEF Reach, TypeInv, MinerTyped, MemoryTyped, ReadingTyped, StageTyped, ExecTyped, memoryVars, loopVars
<1>2. CASE Window
  BY <1>2 DEF Window, TypeInv, MinerTyped, MemoryTyped, ReadingTyped, StageTyped, ExecTyped, memoryVars, loopVars
<1>3. CASE \E b \in Boards : Chips(b)
  BY <1>3 DEF Chips, TypeInv, MinerTyped, MemoryTyped, ReadingTyped, StageTyped, ExecTyped, memoryVars, loopVars
<1>4. CASE \E t \in timers : TimersEnd({t})
  BY <1>4 DEF TimersEnd, TypeInv, MinerTyped, MemoryTyped, ReadingTyped, StageTyped, ExecTyped, minerVars, loopVars
<1>5. CASE EditConfig
  <2>1. PICK edit \in Edits :
          /\ config' = edit[2]
          /\ IF edit[2].enabled
             THEN UNCHANGED <<memoryVars, exec>>
             ELSE /\ timers' = timers \cap {Of("warmup")}
                  /\ cached' = NoProfile /\ lastTarget' = NoTarget
                  /\ bad' = [b \in Boards |-> 0] /\ incident' = {}
                  /\ lock' = Nobody
                  /\ exec' = [a \in Actors |->
                                IF exec[a] = NoExec THEN NoExec ELSE [exec[a] EXCEPT !.orphan = TRUE]]
          /\ UNCHANGED <<minerVars, loopVars>>
    BY <1>5 DEF EditConfig
  <2>2. config' \in Configs
    BY <2>1, ConfigsAssumption
  <2>3. MinerTyped' /\ ReadingTyped' /\ StageTyped' /\ pc' = pc
    BY <2>1, <2>2 DEF TypeInv, MinerTyped, ReadingTyped, StageTyped, minerVars, loopVars
  <2>4. CASE edit[2].enabled
    BY <2>1, <2>3, <2>4 DEF TypeInv, MemoryTyped, ExecTyped, memoryVars
  <2>5. CASE ~ edit[2].enabled
    <3>1. MemoryTyped'
      BY <2>1, <2>5 DEF TypeInv, MemoryTyped, Confirmations
    <3> DEFINE orphan(a) == [exec[a] EXCEPT !.orphan = TRUE]
    <3>2. \A a \in Actors : exec[a] # NoExec =>
            orphan(a) \in Execs /\ orphan(a).plan = exec[a].plan /\ orphan(a).action = exec[a].action
      BY DEF TypeInv, ExecTyped, Execs
    <3>3. \A a \in Actors : exec[a] # NoExec => orphan(a) # NoExec
      BY <3>2, ActorsAssumption
    <3>4. \A a \in Actors : exec'[a] = IF exec[a] = NoExec THEN NoExec ELSE orphan(a)
      BY <2>1, <2>5
    <3>5. exec' = [a \in Actors |-> IF exec[a] = NoExec THEN NoExec ELSE orphan(a)]
      BY <2>1, <2>5
    <3> HIDE DEF orphan
    <3>6. exec' \in [Actors -> Execs \cup {NoExec}]
      BY <3>2, <3>5
    <3>7. ExecTyped'
      BY <2>3, <3>2, <3>3, <3>4, <3>6 DEF TypeInv, ExecTyped, Actors
    <3> QED
      BY <2>3, <3>1, <3>7 DEF TypeInv
  <2> QED
    BY <2>4, <2>5
<1> QED
  BY <1>1, <1>2, <1>3, <1>4, <1>5

\* A dashboard request begins an action of its own and leaves the loop's alone.
LEMMA AskTyped == ASSUME TypeInv, NEW a \in Clients, Ask(a) PROVE TypeInv'
<1>1. PICK action \in Actions, b \in Boards : Begin(a, action, b)
  BY DEF Ask
<1>2. a \in Actors /\ a # Loop /\ Loop \in Actors
  BY ActorsAssumption DEF Actors
<1>3. UNCHANGED <<minerVars, config, cached, bad, incident, lastTarget, loopVars>>
  BY DEF Ask
<1>4. MinerTyped' /\ ReadingTyped' /\ StageTyped' /\ pc' = pc
  BY <1>3 DEF TypeInv, MinerTyped, ReadingTyped, StageTyped, minerVars, loopVars
<1>5. MemoryTyped'
  BY <1>1, <1>2, <1>3, BeginTyped DEF TypeInv, MemoryTyped
<1>6. ExecTyped'
  BY <1>1, <1>2, <1>4, BeginTyped DEF TypeInv, ExecTyped
<1> QED
  BY <1>4, <1>5, <1>6 DEF TypeInv

\* The profile an action applies is one of the miner's.
LEMMA TargetTyped == ASSUME NEW x \in Execs PROVE Target(x) \in Profiles
BY ConfigFields DEF Target, Execs, ConfigType

\* Observing a profile change resets every counter.
LEMMA ObserveTyped ==
  ASSUME TypeInv, ObserveProfile
  PROVE  timers' \subseteq Timers /\ bad' \in [Boards -> 0..Confirmations]
BY TimerNames DEF ObserveProfile, TypeInv, MemoryTyped, Confirmations, Names

\* Every step of an action in progress keeps the types, whoever runs it.
LEMMA ExecuteTyped == ASSUME TypeInv, NEW a \in Actors, Execute(a) PROVE TypeInv'
<1> DEFINE x == exec[a]
<1>1. \A await : At(a, await) => exec[a] # NoExec /\ Head(exec[a].plan) = await /\ x \in Execs
  BY DEF At, TypeInv, ExecTyped
<1>2. CASE Count(a)
  <2>1. exec[a] # NoExec /\ Head(exec[a].plan) = "count" /\ UNCHANGED <<minerVars, config>>
    BY <1>1, <1>2 DEF Count
  <2>2. MinerTyped'
    BY <2>1 DEF TypeInv, MinerTyped, minerVars
  <2>3. CASE up
    BY <1>2, <2>1, <2>2, <2>3, SkipTyped DEF Count, TypeInv, MemoryTyped
  <2>4. CASE ~ up
    BY <1>2, <2>1, <2>2, <2>4, AbortTyped DEF Count, TypeInv
  <2> QED
    BY <2>3, <2>4
<1>3. CASE ListProfiles(a)
  <2>1. exec[a] # NoExec /\ Head(exec[a].plan) = "list" /\ UNCHANGED <<minerVars, config>>
    BY <1>1, <1>3 DEF ListProfiles
  <2>2. MinerTyped'
    BY <2>1 DEF TypeInv, MinerTyped, minerVars
  <2>3. CASE Skip(a, 2) /\ cached' = profile /\ UNCHANGED <<timers, bad>>
    BY <2>1, <2>2, <2>3, SkipTyped DEF TypeInv, MinerTyped, MemoryTyped
  <2>4. CASE Skip(a, 1) /\ UNCHANGED <<timers, cached, bad>>
    BY <2>1, <2>2, <2>4, SkipTyped DEF TypeInv, MemoryTyped
  <2>5. CASE Abort(a)
    BY <2>1, <2>2, <2>5, AbortTyped DEF TypeInv
  <2> QED
    BY <1>3, <2>3, <2>4, <2>5 DEF ListProfiles
<1>4. CASE SetProfile(a)
  <2>1. /\ exec[a] # NoExec /\ Head(exec[a].plan) = "profile" /\ x \in Execs
        /\ UNCHANGED <<up, on, ill, lowWindow, config>>
        /\ profile' \in {profile, Target(exec[a])}
    BY <1>1, <1>4 DEF SetProfile
  <2>2. MinerTyped'
    BY <2>1, TargetTyped DEF TypeInv, MinerTyped
  <2>3. CASE up
    <3>1. cached' = Target(exec[a]) /\ ObserveProfile /\ Skip(a, 1)
      BY <1>4, <2>3 DEF SetProfile
    <3>2. /\ cached' \in Profiles /\ timers' \subseteq Timers
          /\ bad' \in [Boards -> 0..Confirmations]
      BY <2>1, <3>1, TargetTyped, ObserveTyped
    <3> QED
      BY <2>1, <2>2, <3>1, <3>2, SkipTyped DEF TypeInv, MemoryTyped
  <2>4. CASE ~ up
    BY <1>4, <2>1, <2>2, <2>4, AbortTyped DEF SetProfile, TypeInv
  <2> QED
    BY <2>3, <2>4
<1>5. CASE SetBoards(a)
  <2>1. PICK done \in SUBSET Boards :
          /\ on' = [b \in Boards |-> IF b \in done THEN exec[a].action = "full" ELSE on[b]]
          /\ IF up
             THEN /\ done = Boards
                  /\ Skip(a, 1) /\ UNCHANGED cached
                  /\ IF exec[a].action = "full" THEN ObserveProfile ELSE UNCHANGED <<timers, bad>>
             ELSE Abort(a)
    BY <1>5 DEF SetBoards
  <2>2. /\ exec[a] # NoExec /\ Head(exec[a].plan) = "boards"
        /\ UNCHANGED <<up, profile, ill, lowWindow, config>>
    BY <1>1, <1>5 DEF SetBoards
  <2>3. on' \in [Boards -> BOOLEAN]
    BY <2>1 DEF TypeInv, MinerTyped
  <2>4. MinerTyped'
    BY <2>2, <2>3 DEF TypeInv, MinerTyped
  <2>5. CASE up
    <3>1. timers' \subseteq Timers /\ bad' \in [Boards -> 0..Confirmations]
      BY <2>1, <2>5, ObserveTyped DEF TypeInv, MemoryTyped
    <3> QED
      BY <2>1, <2>2, <2>4, <2>5, <3>1, SkipTyped DEF TypeInv, MemoryTyped
  <2>6. CASE ~ up
    BY <2>1, <2>2, <2>4, <2>6, AbortTyped DEF TypeInv
  <2> QED
    BY <2>5, <2>6
<1>6. CASE Reboot(a)
  <2>1. /\ exec[a] # NoExec /\ Head(exec[a].plan) = "reboot" /\ x.board \in Boards
        /\ UNCHANGED <<up, profile, ill, lowWindow, config>>
    BY <1>1, <1>6 DEF Reboot, Execs
  <2>2. PICK took \in BOOLEAN :
          on' = IF took THEN [on EXCEPT ![x.board] = x.action # "board_off"] ELSE on
    BY <1>6 DEF Reboot
  <2>3. MinerTyped'
    BY <2>1, <2>2 DEF TypeInv, MinerTyped
  <2>4. CASE Abort(a)
    BY <2>1, <2>3, <2>4, AbortTyped DEF TypeInv
  <2>5. CASE Return(a, TRUE)
    BY <2>1, <2>3, <2>5, ReturnTyped DEF TypeInv
  <2>6. CASE /\ Skip(a, 1) /\ UNCHANGED cached
             /\ IF x.action = "board_off" THEN UNCHANGED <<timers, bad>>
                ELSE timers' = timers \cup {Suppress(x.board)} /\ bad' = [bad EXCEPT ![x.board] = 0]
    <3>1. timers' \subseteq Timers /\ bad' \in [Boards -> 0..Confirmations]
      BY <2>1, <2>6, TimerNames DEF TypeInv, MemoryTyped, Confirmations
    <3> QED
      BY <2>1, <2>3, <2>6, <3>1, SkipTyped DEF TypeInv, MemoryTyped
  <2> QED
    BY <1>6, <2>4, <2>5, <2>6 DEF Reboot
<1>7. CASE Record(a)
  <2>1. exec[a] # NoExec /\ exec[a].ok \in BOOLEAN /\ Return(a, exec[a].ok) /\ UNCHANGED <<minerVars, config>>
    BY <1>1, <1>7 DEF Record, Execs
  <2>2. MinerTyped'
    BY <2>1 DEF TypeInv, MinerTyped, minerVars
  <2> QED
    BY <2>1, <2>2, ReturnTyped DEF TypeInv
<1> QED
  BY <1>2, <1>3, <1>4, <1>5, <1>6, <1>7 DEF Execute

\* A step of the loop that sends nothing: neither the miner, the lock nor an action changes.
LEMMA QuietStep ==
  ASSUME TypeInv,
         UNCHANGED <<minerVars, config, lock, exec>>,
         timers' \subseteq Timers, cached' \in Profiles \cup {NoProfile},
         bad' \in [Boards -> 0..Confirmations], incident' \subseteq Boards,
         lastTarget' \in {"low", "full", NoTarget},
         miner' \in Configs \cup {NoMiner},
         snapshot' \in Snapshots \cup {NoSnapshot}, active' \in BOOLEAN,
         StageTyped', pc \notin Awaiting, pc' \notin Awaiting
  PROVE  TypeInv'
<1>1. MinerTyped' /\ MemoryTyped' /\ ReadingTyped'
  BY DEF TypeInv, MinerTyped, MemoryTyped, ReadingTyped, minerVars
<1>2. ExecTyped'
  BY DEF TypeInv, ExecTyped, Awaiting
<1> QED
  BY <1>1, <1>2 DEF TypeInv

\* A step of the loop that begins an action, on which it then waits.
LEMMA LoopBegins ==
  ASSUME TypeInv, NEW action \in Actions, NEW b \in Boards, Begin(Loop, action, b),
         UNCHANGED <<minerVars, config, cached, bad, incident, lastTarget, miner, snapshot, active, todo>>,
         pc' \in Awaiting, pc' = "restarting" => todo # {}, pc' = "scheduled" => action \in {"low", "full"}
  PROVE  TypeInv'
<1>1. Loop \in Actors
  BY DEF Actors
<1>2. MinerTyped' /\ MemoryTyped' /\ ReadingTyped'
  BY <1>1, BeginTyped DEF TypeInv, MinerTyped, MemoryTyped, ReadingTyped, minerVars
<1>3. StageTyped'
  BY DEF TypeInv, StageTyped, Stages, BoardStages, Awaiting
<1>4. ExecTyped'
  BY <1>1, BeginTyped DEF ExecTyped
<1> QED
  BY <1>2, <1>3, <1>4 DEF TypeInv

\* What every quiet step may rely on.
LEMMA TypeParts ==
  ASSUME TypeInv
  PROVE  /\ timers \subseteq Timers /\ cached \in Profiles \cup {NoProfile}
         /\ bad \in [Boards -> 0..Confirmations] /\ incident \subseteq Boards
         /\ lastTarget \in {"low", "full", NoTarget}
         /\ config \in Configs /\ miner \in Configs \cup {NoMiner}
         /\ snapshot \in Snapshots \cup {NoSnapshot} /\ active \in BOOLEAN
         /\ todo \subseteq Boards
BY DEF TypeInv, MemoryTyped, ReadingTyped, StageTyped

\* The reading of the chip health, whatever came back.
LEMMA HealthTyped == ASSUME TypeInv, StartHealth \/ ReadHealth \/ ProcessHealth PROVE TypeInv'
<1>1. CASE StartHealth
  <2>1. timers' \subseteq Timers /\ miner' \in Configs \cup {NoMiner} /\ pc' \in {"health", "schedule"}
    BY <1>1, TypeParts, TimerNames DEF StartHealth, Names
  <2>2. pc = "top" /\ UNCHANGED <<minerVars, config, cached, bad, incident, lastTarget, lock, snapshot, active, todo, exec>>
    BY <1>1 DEF StartHealth
  <2>3. StageTyped'
    BY <2>1, <2>2, TypeParts DEF StageTyped, Stages, BoardStages
  <2> QED
    BY <2>1, <2>2, <2>3, TypeParts, QuietStep DEF Awaiting
<1>2. CASE ReadHealth
  <2>1. [b \in Boards |-> Status(b)] \in [Boards -> {"healthy", "unhealthy", "unknown"}]
    BY DEF Status
  <2>2. snapshot' \in Snapshots \cup {NoSnapshot}
    BY <1>2, <2>1 DEF ReadHealth, Snapshots, TypeInv, MinerTyped
  <2>3. /\ pc = "health" /\ pc' = "answer"
        /\ UNCHANGED <<minerVars, config, memoryVars, miner, active, todo, exec>>
    BY <1>2 DEF ReadHealth
  <2>4. StageTyped'
    BY <2>3, TypeParts DEF StageTyped, Stages, BoardStages
  <2> QED
    BY <2>2, <2>3, <2>4, TypeParts, QuietStep DEF Awaiting, memoryVars
<1>3. CASE ProcessHealth
  <2>1. /\ pc = "answer" /\ miner' = NoMiner
        /\ UNCHANGED <<minerVars, config, timers, bad, incident, lastTarget, lock, snapshot, exec>>
    BY <1>3 DEF ProcessHealth
  <2>2. CASE snapshot = NoSnapshot
    <3>1. pc' = "schedule" /\ UNCHANGED <<cached, active, todo>>
      BY <1>3, <2>2 DEF ProcessHealth
    <3>2. StageTyped'
      BY <3>1, TypeParts DEF StageTyped, Stages, BoardStages
    <3> QED
      BY <2>1, <3>1, <3>2, TypeParts, QuietStep DEF Awaiting
  <2>3. CASE snapshot # NoSnapshot
    <3>1. /\ cached' = snapshot.profile /\ todo' = Boards /\ pc' = "recover"
          /\ active' = (config.global /\ miner.recover /\ Of("profile") \notin timers
                         /\ ~ (miner.schedule /\ lowWindow))
      BY <1>3, <2>3 DEF ProcessHealth
    <3>2. cached' \in Profiles \cup {NoProfile} /\ active' \in BOOLEAN
      BY <2>3, <3>1, TypeParts DEF Snapshots
    <3>3. StageTyped'
      BY <3>1, BoardsAssumption DEF StageTyped, Stages
    <3> QED
      BY <2>1, <3>1, <3>2, <3>3, TypeParts, QuietStep DEF Awaiting
  <2> QED
    BY <2>2, <2>3
<1> QED
  BY <1>1, <1>2, <1>3

\* A board is looked at while one is left, and its counter stays within its limit.
LEMMA BoardTyped == ASSUME TypeInv, CheckBoard \/ Complete \/ Failed PROVE TypeInv'
<1> DEFINE b == Min(todo)
<1>1. pc \in BoardStages => b \in todo /\ b \in Boards
  BY LowestBoard DEF TypeInv, StageTyped
<1>2. CASE CheckBoard
  <2>1. /\ pc = "recover" /\ (IF b \in incident THEN Watched(b) ELSE Unwatched(b))
        /\ UNCHANGED <<minerVars, config, cached, incident, lastTarget, lock, miner, exec>>
    BY <1>2 DEF CheckBoard
  <2>2. pc \in BoardStages /\ b \in Boards /\ todo # {}
    BY <1>1, <2>1 DEF BoardStages
  <2> HIDE DEF b
  <2>3. bad' \in [Boards -> 0..Confirmations] /\ timers' \subseteq Timers
    <3>1. CASE Watched(b)
      BY <2>2, <3>1, TypeParts DEF Watched, Confirmations
    <3>2. CASE Unwatched(b)
      <4>1. bad[b] + 1 \in Nat /\ {bad[b] + 1, Confirmations} # {}
        BY <2>2, TypeParts DEF Confirmations
      <4>2. Min({bad[b] + 1, Confirmations}) \in 0..Confirmations
        BY <2>2, TypeParts DEF Min, Confirmations
      <4>3. Confirmed(b) \in 0..Confirmations
        BY <4>2 DEF Confirmed, Confirmations
      <4> QED
        BY <2>2, <3>2, <4>3, TypeParts, TimerNames DEF Unwatched
    <3> QED
      BY <2>1, <3>1, <3>2
  <2>4. CASE AfterBoard(b)
    BY <2>1, <2>2, <2>3, <2>4, AfterBoardTyped, TypeParts, QuietStep DEF Awaiting
  <2>5. CASE pc' \in {"complete", "detected"} /\ UNCHANGED <<todo, snapshot, active>>
    <3>1. StageTyped'
      BY <2>2, <2>5, TypeParts DEF StageTyped, Stages
    <3> QED
      BY <2>1, <2>3, <2>5, <3>1, TypeParts, QuietStep DEF Awaiting
  <2> QED
    BY <2>1, <2>4, <2>5 DEF Watched, Unwatched
<1>3. CASE Complete
  <2>1. /\ pc = "complete" /\ incident' = incident \ {b} /\ AfterBoard(b)
        /\ UNCHANGED <<minerVars, config, timers, cached, bad, lastTarget, lock, miner, exec>>
    BY <1>3 DEF Complete
  <2> QED
    BY <2>1, AfterBoardTyped, TypeParts, QuietStep DEF Awaiting, BoardStages
<1>4. CASE Failed
  <2>1. /\ pc = "failed" /\ AfterBoard(b)
        /\ UNCHANGED <<minerVars, config, memoryVars, miner, exec>>
    BY <1>4 DEF Failed
  <2> QED
    BY <2>1, AfterBoardTyped, TypeParts, QuietStep DEF Awaiting, BoardStages, memoryVars
<1> QED
  BY <1>2, <1>3, <1>4

\* A restart is attempted for a board that is still on the list.
LEMMA DetectedTyped == ASSUME TypeInv, Detected PROVE TypeInv'
<1> DEFINE b == Min(todo)
<1>1. /\ pc = "detected"
      /\ UNCHANGED <<minerVars, config, cached, bad, incident, lastTarget, miner, snapshot, active, todo>>
  BY DEF Detected
<1>2. b \in Boards /\ todo # {}
  BY <1>1, LowestBoard DEF TypeInv, StageTyped, BoardStages
<1>3. CASE Begin(Loop, "restart_board", b) /\ pc' = "restarting"
  BY <1>1, <1>2, <1>3, LoopBegins DEF Awaiting, Actions, BoardActions
<1>4. CASE timers' = timers \cup {Suppress(b)} /\ pc' = "failed" /\ UNCHANGED <<lock, exec>>
  <2>1. timers' \subseteq Timers
    BY <1>2, <1>4, TypeParts, TimerNames
  <2>2. StageTyped'
    BY <1>1, <1>2, <1>4, TypeParts DEF StageTyped, Stages
  <2> QED
    BY <1>1, <1>4, <2>1, <2>2, TypeParts, QuietStep DEF Awaiting
<1> QED
  BY <1>3, <1>4 DEF Detected

\* The schedule and the ceiling either do nothing, or begin one action.
LEMMA ScheduleTyped == ASSUME TypeInv, Schedule PROVE TypeInv'
<1>1. pc = "schedule" /\ UNCHANGED <<minerVars, config, cached, bad, incident, miner, snapshot, active, todo>>
  BY DEF Schedule
<1>2. Desired \in {"low", "full"} /\ 0 \in Boards
  BY BoardsAssumption DEF Desired
<1>3. CASE Begin(Loop, Desired, 0) /\ pc' = "scheduled" /\ UNCHANGED lastTarget
  BY <1>1, <1>2, <1>3, LoopBegins DEF Awaiting, Actions
<1>4. CASE /\ timers' \in {timers, timers \ {Of("retry")}, timers \cup {Of("retry")}}
           /\ lastTarget' \in {lastTarget, Desired}
           /\ pc' \in {"wait", "above", "below"} /\ UNCHANGED <<lock, exec>>
  <2>1. timers' \subseteq Timers /\ lastTarget' \in {"low", "full", NoTarget}
    BY <1>2, <1>4, TypeParts, TimerNames DEF Names
  <2>2. StageTyped'
    BY <1>1, <1>4, TypeParts DEF StageTyped, Stages, BoardStages
  <2> QED
    BY <1>1, <1>4, <2>1, <2>2, TypeParts, QuietStep DEF Awaiting
<1>5. CASE FollowSchedule
  BY <1>3, <1>4, <1>5 DEF FollowSchedule
<1>6. CASE WatchCeiling
  BY <1>4, <1>6 DEF WatchCeiling
<1> QED
  BY <1>4, <1>5, <1>6 DEF Schedule

\* The ceiling is enforced by one action of the loop.
LEMMA EnforceTyped == ASSUME TypeInv, Enforce PROVE TypeInv'
<1>1. /\ pc \in {"above", "below"}
      /\ UNCHANGED <<minerVars, config, cached, bad, incident, lastTarget, miner, snapshot, active, todo>>
  BY DEF Enforce
<1>2. CASE Begin(Loop, "full", 0) /\ pc' = "enforcing"
  BY <1>1, <1>2, LoopBegins, BoardsAssumption DEF Awaiting, Actions
<1>3. CASE /\ timers' \in {timers \ {Of("ceiling")}, timers \cup {Of("ceiling")}}
           /\ pc' = "wait" /\ UNCHANGED <<lock, exec>>
  <2>1. timers' \subseteq Timers
    BY <1>3, TypeParts, TimerNames DEF Names
  <2>2. StageTyped'
    BY <1>1, <1>3, TypeParts DEF StageTyped, Stages, BoardStages
  <2> QED
    BY <1>1, <1>3, <2>1, <2>2, TypeParts, QuietStep DEF Awaiting
<1> QED
  BY <1>2, <1>3 DEF Enforce

\* The round ends.
LEMMA WaitTyped == ASSUME TypeInv, Wait PROVE TypeInv'
<1>1. pc = "wait" /\ pc' = "top" /\ UNCHANGED <<minerVars, config, memoryVars, miner, snapshot, active, todo, exec>>
  BY DEF Wait
<1>2. StageTyped'
  BY <1>1, TypeParts DEF StageTyped, Stages, BoardStages
<1> QED
  BY <1>1, <1>2, TypeParts, QuietStep DEF Awaiting, memoryVars

\* Every step keeps the types.
LEMMA NextTyped == ASSUME TypeInv, [Next]_vars PROVE TypeInv'
<1>1. CASE Next
  BY <1>1, SurroundingsTyped, AskTyped, ExecuteTyped, HealthTyped, BoardTyped, DetectedTyped,
     ScheduleTyped, EnforceTyped, WaitTyped DEF Next, Iterate
<1>2. CASE UNCHANGED vars
  BY <1>2 DEF TypeInv, MinerTyped, MemoryTyped, ReadingTyped, StageTyped, ExecTyped, vars, minerVars, memoryVars, loopVars
<1> QED
  BY <1>1, <1>2

\* Every variable keeps its type for any boards, profiles and requests: no counter of bad
\* readings passes its limit, a plan in progress has an await ahead, and the loop has an
\* action of its own exactly where it waits for one.
THEOREM TypeCorrect == Spec => []TypeOK
<1>1. Spec => []TypeInv
  BY InitTyped, NextTyped, PTL DEF Spec
<1>2. TypeInv => TypeOK
  BY TypeInvStronger
<1> QED
  BY <1>1, <1>2, PTL

-----------------------------------------------------------------------------
(* One action at a time.  OneAtATime says nothing of the lock; what is kept *)
(* is that whoever is not an orphan holds it.                               *)

LockHeld == \A a \in InProgress : exec[a].orphan \/ lock = a

\* An action begins only under a free lock, where all others are orphans.
LEMMA BeginHeld ==
  ASSUME TypeInv, LockHeld, NEW a \in Actors, NEW action \in Actions, NEW b \in Boards,
         MayBegin, Begin(a, action, b)
  PROVE  LockHeld'
<1>1. \A d \in Actors : d # a => exec'[d] = exec[d]
  BY BeginTyped
<1>2. \A d \in InProgress : exec[d].orphan
  BY ActorsAssumption DEF MayBegin, LockHeld, InProgress
<1> QED
  BY <1>1, <1>2 DEF LockHeld, InProgress, Begin

\* An action that ends gives back its own lock and no other.
LEMMA ReturnHeld ==
  ASSUME TypeInv, LockHeld, NEW a \in Actors, NEW ok, Return(a, ok)
  PROVE  LockHeld'
<1>1. \A d \in Actors : exec'[d] = IF d = a THEN NoExec ELSE exec[d]
  BY DEF Return, TypeInv, ExecTyped
<1>2. lock' = IF lock = a THEN Nobody ELSE lock
  BY DEF Return
<1> QED
  BY <1>1, <1>2 DEF LockHeld, InProgress

\* An action that goes on keeps its mark and the lock.
LEMMA SkipHeld ==
  ASSUME TypeInv, LockHeld, NEW a \in Actors, exec[a] # NoExec, NEW n, Skip(a, n)
  PROVE  LockHeld'
<1> DEFINE y == [exec[a] EXCEPT !.plan = SubSeq(@, n + 1, Len(@))]
<1>1. exec[a] \in Execs
  BY DEF TypeInv, ExecTyped
<1>2. y.orphan = exec[a].orphan
  BY <1>1 DEF Execs
<1>3. exec' = [exec EXCEPT ![a] = y] /\ lock' = lock
  BY DEF Skip
<1> HIDE DEF y
<1>4. \A d \in Actors : exec'[d] = IF d = a THEN y ELSE exec[d]
  BY <1>3 DEF TypeInv, ExecTyped
<1> QED
  BY <1>2, <1>3, <1>4 DEF LockHeld, InProgress

\* An action that fails keeps the lock until it ends.
LEMMA AbortHeld ==
  ASSUME TypeInv, LockHeld, NEW a \in Actors, exec[a] # NoExec, Abort(a)
  PROVE  LockHeld'
<1>1. CASE Silent(a)
  BY <1>1, ReturnHeld DEF Abort
<1>2. CASE ~ Silent(a)
  <2> DEFINE y == [exec[a] EXCEPT !.plan = <<"record">>, !.ok = FALSE]
  <2>1. exec[a] \in Execs
    BY DEF TypeInv, ExecTyped
  <2>2. y.orphan = exec[a].orphan
    BY <2>1 DEF Execs
  <2>3. exec' = [exec EXCEPT ![a] = y] /\ lock' = lock
    BY <1>2 DEF Abort, memoryVars
  <2> HIDE DEF y
  <2>4. \A d \in Actors : exec'[d] = IF d = a THEN y ELSE exec[d]
    BY <2>3 DEF TypeInv, ExecTyped
  <2> QED
    BY <2>2, <2>3, <2>4 DEF LockHeld, InProgress
<1> QED
  BY <1>1, <1>2

\* Every step of an action goes on, fails or ends.
LEMMA ExecuteHeld ==
  ASSUME TypeInv, LockHeld, NEW a \in Actors, Execute(a)
  PROVE  LockHeld'
<1>1. exec[a] # NoExec
  BY DEF Execute, Count, ListProfiles, SetProfile, SetBoards, Reboot, Record, At
<1>2. Skip(a, 1) \/ Skip(a, 2) \/ Abort(a) \/ Return(a, TRUE) \/ Return(a, exec[a].ok)
  BY Zenon DEF Execute, Count, ListProfiles, SetProfile, SetBoards, Reboot, Record
<1> QED
  BY <1>1, <1>2, SkipHeld, AbortHeld, ReturnHeld, Zenon

\* Every step keeps the lock with the action that is no orphan.
LEMMA NextHeld == ASSUME TypeInv, LockHeld, [Next]_vars PROVE LockHeld'
<1>1. CASE UNCHANGED <<lock, exec>>
  BY <1>1 DEF LockHeld, InProgress
<1>2. CASE EditConfig
  BY <1>1, <1>2 DEF EditConfig, LockHeld, InProgress, memoryVars, TypeInv, ExecTyped, Execs
<1>3. ASSUME NEW a \in Clients, Ask(a) PROVE LockHeld'
  BY <1>3, BeginHeld DEF Ask, Actors
<1>4. CASE \E a \in Actors : Execute(a)
  BY <1>4, ExecuteHeld
<1>5. CASE Iterate
  <2>1. CASE StartHealth \/ ReadHealth \/ ProcessHealth \/ CheckBoard \/ Complete \/ Failed \/ Wait
    BY <1>1, <2>1 DEF StartHealth, ReadHealth, ProcessHealth, CheckBoard, Complete, Failed, Wait, memoryVars
  <2>2. CASE Detected
    <3>1. pc = "detected" /\ Min(todo) \in Boards
      BY <2>2, LowestBoard DEF Detected, TypeInv, StageTyped, BoardStages
    <3> QED
      BY <1>1, <2>2, <3>1, BeginHeld DEF Detected, Actors, Actions, BoardActions
  <2>3. CASE Schedule
    <3>1. Desired \in Actions /\ 0 \in Boards /\ Loop \in Actors
      BY BoardsAssumption DEF Desired, Actions, Actors
    <3>2. UNCHANGED <<lock, exec>> \/ (MayBegin /\ Begin(Loop, Desired, 0))
      BY <2>3 DEF Schedule, FollowSchedule, WatchCeiling
    <3> QED
      BY <1>1, <3>1, <3>2, BeginHeld
  <2>4. CASE Enforce
    <3>1. "full" \in Actions /\ 0 \in Boards /\ Loop \in Actors
      BY BoardsAssumption DEF Actions, Actors
    <3>2. UNCHANGED <<lock, exec>> \/ (MayBegin /\ Begin(Loop, "full", 0))
      BY <2>4 DEF Enforce
    <3> QED
      BY <1>1, <3>1, <3>2, BeginHeld
  <2> QED
    BY <1>5, <2>1, <2>2, <2>3, <2>4 DEF Iterate
<1>6. CASE Reach \/ Window \/ (\E b \in Boards : Chips(b)) \/ (\E t \in timers : TimersEnd({t}))
  BY <1>1, <1>6 DEF Reach, Window, Chips, TimersEnd, memoryVars
<1>7. CASE UNCHANGED vars
  BY <1>1, <1>7 DEF vars, memoryVars
<1> QED
  BY <1>2, <1>3, <1>4, <1>5, <1>6, <1>7 DEF Next

\* Two actions are in progress for one miner only when the user stopped monitoring it under
\* one of them, for any number of requests: the lock is held until the notification is over,
\* by the loop as by a request (luxos_control.py).
THEOREM OneAtATimeHolds == Spec => []OneAtATime
<1>1. Init => LockHeld
  BY DEF Init, LockHeld, InProgress
<1>2. Spec => [](TypeInv /\ LockHeld)
  BY <1>1, InitTyped, NextTyped, NextHeld, PTL DEF Spec
<1>3. LockHeld => OneAtATime
  BY DEF LockHeld, OneAtATime, InProgress
<1> QED
  BY <1>2, <1>3, PTL

-----------------------------------------------------------------------------
(* The control contract.  What is left of a plan tells how far its action  *)
(* is, because it is an end of the plan that was drawn up; and a profile   *)
(* is sent only after the ceiling was looked at.                           *)

Await == {"count", "list", "profile", "boards", "reboot", "record"}

\* The ends of an action's plan.
Rest(x) ==
  IF x.action \in BoardActions
  THEN {<<"count", "reboot", "record">>, <<"reboot", "record">>, <<"record">>}
  ELSE IF x.action = "low" /\ x.miner.mode = "boards_off"
  THEN {<<"count", "boards", "record">>, <<"boards", "record">>, <<"record">>}
  ELSE IF x.action = "full" /\ x.miner.mode = "boards_off"
  THEN {<<"count", "list", "profile", "boards", "record">>, <<"list", "profile", "boards", "record">>,
        <<"profile", "boards", "record">>, <<"boards", "record">>, <<"record">>}
  ELSE {<<"list", "profile", "record">>, <<"profile", "record">>, <<"record">>}

Planned(x) ==
  /\ x.plan \in Rest(x)
  /\ Head(x.plan) = "profile" => Target(x) <= x.miner.normal

PlanInv == \A a \in Actors : exec[a] # NoExec => Planned(exec[a])

\* The end of a plan that agrees with t in every place is t.
LEMMA Remainder ==
  ASSUME NEW s \in Seq(Await), NEW n \in Nat, NEW t \in Seq(Await), Len(s) = Len(t) + n,
         \A i \in 1..Len(t) : t[i] = s[i + n]
  PROVE  SubSeq(s, n + 1, Len(s)) = t
<1> DEFINE u == SubSeq(s, n + 1, Len(s))
<1>1. \A i \in (n + 1)..Len(s) : s[i] \in Await
  OBVIOUS
<1>2. u \in Seq(Await) /\ Len(u) = Len(t) /\ \A i \in 1..Len(u) : u[i] = s[i + n]
  BY <1>1, SubSeqProperties
<1>3. u \in Seq(Await) /\ Len(u) = Len(t) /\ \A i \in 1..Len(u) : u[i] = t[i]
  BY <1>2
<1> QED
  BY <1>3, SeqEqual

After(plan, n) == SubSeq(plan, n + 1, Len(plan))

\* What is left of each plan after its first await, and after a profile that is in use.
LEMMA Remainders ==
  /\ After(<<"count", "reboot", "record">>, 1) = <<"reboot", "record">>
  /\ After(<<"reboot", "record">>, 1) = <<"record">>
  /\ After(<<"count", "boards", "record">>, 1) = <<"boards", "record">>
  /\ After(<<"boards", "record">>, 1) = <<"record">>
  /\ After(<<"count", "list", "profile", "boards", "record">>, 1)
       = <<"list", "profile", "boards", "record">>
  /\ After(<<"list", "profile", "boards", "record">>, 1) = <<"profile", "boards", "record">>
  /\ After(<<"list", "profile", "boards", "record">>, 2) = <<"boards", "record">>
  /\ After(<<"profile", "boards", "record">>, 1) = <<"boards", "record">>
  /\ After(<<"list", "profile", "record">>, 1) = <<"profile", "record">>
  /\ After(<<"list", "profile", "record">>, 2) = <<"record">>
  /\ After(<<"profile", "record">>, 1) = <<"record">>
<1>1. ASSUME NEW a \in Await, NEW b \in Await
      PROVE  After(<<a, b>>, 1) = <<b>>
  <2>1. <<a, b>> \in Seq(Await) /\ <<b>> \in Seq(Await)
    OBVIOUS
  <2>2. \A i \in 1..Len(<<b>>) : <<b>>[i] = <<a, b>>[i + 1]
    OBVIOUS
  <2>3. Len(<<a, b>>) = Len(<<b>>) + 1
    OBVIOUS
  <2>4. SubSeq(<<a, b>>, 1 + 1, Len(<<a, b>>)) = <<b>>
    BY <2>1, <2>2, <2>3, Remainder
  <2> QED
    BY <2>4 DEF After
<1>2. ASSUME NEW a \in Await, NEW b \in Await, NEW c \in Await
      PROVE  After(<<a, b, c>>, 1) = <<b, c>>
  <2>1. <<a, b, c>> \in Seq(Await) /\ <<b, c>> \in Seq(Await)
    OBVIOUS
  <2>2. \A i \in 1..Len(<<b, c>>) : <<b, c>>[i] = <<a, b, c>>[i + 1]
    OBVIOUS
  <2>3. Len(<<a, b, c>>) = Len(<<b, c>>) + 1
    OBVIOUS
  <2>4. SubSeq(<<a, b, c>>, 1 + 1, Len(<<a, b, c>>)) = <<b, c>>
    BY <2>1, <2>2, <2>3, Remainder
  <2> QED
    BY <2>4 DEF After
<1>3. ASSUME NEW a \in Await, NEW b \in Await, NEW c \in Await, NEW d \in Await
      PROVE  After(<<a, b, c, d>>, 1) = <<b, c, d>>
  <2>1. <<a, b, c, d>> \in Seq(Await) /\ <<b, c, d>> \in Seq(Await)
    OBVIOUS
  <2>2. \A i \in 1..Len(<<b, c, d>>) : <<b, c, d>>[i] = <<a, b, c, d>>[i + 1]
    OBVIOUS
  <2>3. Len(<<a, b, c, d>>) = Len(<<b, c, d>>) + 1
    OBVIOUS
  <2>4. SubSeq(<<a, b, c, d>>, 1 + 1, Len(<<a, b, c, d>>)) = <<b, c, d>>
    BY <2>1, <2>2, <2>3, Remainder
  <2> QED
    BY <2>4 DEF After
<1>4. ASSUME NEW a \in Await, NEW b \in Await, NEW c \in Await, NEW d \in Await, NEW e \in Await
      PROVE  After(<<a, b, c, d, e>>, 1) = <<b, c, d, e>>
  <2>1. <<a, b, c, d, e>> \in Seq(Await) /\ <<b, c, d, e>> \in Seq(Await)
    OBVIOUS
  <2>2. \A i \in 1..Len(<<b, c, d, e>>) : <<b, c, d, e>>[i] = <<a, b, c, d, e>>[i + 1]
    OBVIOUS
  <2>3. Len(<<a, b, c, d, e>>) = Len(<<b, c, d, e>>) + 1
    OBVIOUS
  <2>4. SubSeq(<<a, b, c, d, e>>, 1 + 1, Len(<<a, b, c, d, e>>)) = <<b, c, d, e>>
    BY <2>1, <2>2, <2>3, Remainder
  <2> QED
    BY <2>4 DEF After
<1>5. ASSUME NEW a \in Await, NEW b \in Await, NEW c \in Await
      PROVE  After(<<a, b, c>>, 2) = <<c>>
  <2>1. <<a, b, c>> \in Seq(Await) /\ <<c>> \in Seq(Await)
    OBVIOUS
  <2>2. \A i \in 1..Len(<<c>>) : <<c>>[i] = <<a, b, c>>[i + 2]
    OBVIOUS
  <2>3. Len(<<a, b, c>>) = Len(<<c>>) + 2
    OBVIOUS
  <2>4. SubSeq(<<a, b, c>>, 2 + 1, Len(<<a, b, c>>)) = <<c>>
    BY <2>1, <2>2, <2>3, Remainder
  <2> QED
    BY <2>4 DEF After
<1>6. ASSUME NEW a \in Await, NEW b \in Await, NEW c \in Await, NEW d \in Await
      PROVE  After(<<a, b, c, d>>, 2) = <<c, d>>
  <2>1. <<a, b, c, d>> \in Seq(Await) /\ <<c, d>> \in Seq(Await)
    OBVIOUS
  <2>2. \A i \in 1..Len(<<c, d>>) : <<c, d>>[i] = <<a, b, c, d>>[i + 2]
    OBVIOUS
  <2>3. Len(<<a, b, c, d>>) = Len(<<c, d>>) + 2
    OBVIOUS
  <2>4. SubSeq(<<a, b, c, d>>, 2 + 1, Len(<<a, b, c, d>>)) = <<c, d>>
    BY <2>1, <2>2, <2>3, Remainder
  <2> QED
    BY <2>4 DEF After
<1>7. /\ "count" \in Await /\ "list" \in Await /\ "profile" \in Await
      /\ "boards" \in Await /\ "reboot" \in Await /\ "record" \in Await
  BY DEF Await
<1> QED
  BY <1>1, <1>2, <1>3, <1>4, <1>5, <1>6, <1>7

\* How far an action is with each of them.
LEMMA Progress ==
  /\ Stage(<<"count", "reboot", "record">>) = "tuned" /\ Stage(<<"reboot", "record">>) = "tuned"
  /\ Stage(<<"count", "boards", "record">>) = "tuned" /\ Stage(<<"boards", "record">>) = "tuned"
  /\ Stage(<<"count", "list", "profile", "boards", "record">>) = "begun"
  /\ Stage(<<"list", "profile", "boards", "record">>) = "begun"
  /\ Stage(<<"profile", "boards", "record">>) = "begun"
  /\ Stage(<<"list", "profile", "record">>) = "begun" /\ Stage(<<"profile", "record">>) = "begun"
  /\ Stage(<<"record">>) = "over"
BY DEF Stage

\* One actor's action becomes y; all the others are as they were.
LEMMA TaskBecomes ==
  ASSUME TypeInv, NEW a \in Actors, NEW y, exec' = [exec EXCEPT ![a] = y]
  PROVE  /\ Tasks[a] = Task(exec[a]) /\ Tasks'[a] = Task(y)
         /\ Control!Others(a)
         /\ y = NoExec \/ Planned(y) => (PlanInv => PlanInv')
<1>1. \A c \in Actors : exec'[c] = IF c = a THEN y ELSE exec[c]
  BY DEF TypeInv, ExecTyped
<1>2. \A c \in Actors : Tasks[c] = Task(exec[c])
  BY DEF Tasks
<1>3. \A c \in Actors : Tasks'[c] = Task(exec'[c])
  BY DEF Tasks
<1>4. \A c \in Actors \ {a} : Tasks'[c] = Tasks[c]
  BY <1>1, <1>2, <1>3
<1>5. ASSUME y = NoExec \/ Planned(y), PlanInv PROVE PlanInv'
  <2>1. \A c \in Actors : exec'[c] # NoExec => Planned(exec'[c])
    BY <1>1, <1>5 DEF PlanInv
  <2> QED
    BY <2>1 DEF PlanInv
<1> QED
  BY <1>1, <1>2, <1>3, <1>4, <1>5 DEF Control!Others

\* The task of an action that is in progress.
LEMMA TaskFields ==
  ASSUME NEW x \in Execs
  PROVE  /\ Task(x) = [action |-> x.action, board |-> x.board, miner |-> x.miner,
                       stage |-> Stage(x.plan)]
         /\ Task(x) # NoExec
<1>1. x # NoExec
  BY ActorsAssumption
<1>2. Task(x) = [action |-> x.action, board |-> x.board, miner |-> x.miner, stage |-> Stage(x.plan)]
  BY <1>1 DEF Task
<1>3. Task(x) # NoExec
  <2>1. Stage(x.plan) \in {"begun", "tuned", "over"}
    BY DEF Stage
  <2> QED
    BY <1>2, <2>1, AssignmentsAssumption DEF Assignments, Execs
<1> QED
  BY <1>2, <1>3

LEMMA PlanDrawnUp ==
  ASSUME NEW x \in Execs, x.plan = Plan(x.action, x.miner)
  PROVE  /\ Planned(x)
         /\ Stage(x.plan) =
              IF x.action = "full" \/ (x.action = "low" /\ x.miner.mode = "profile")
              THEN "begun" ELSE "tuned"
<1>1. x.action \in Actions /\ x.miner.mode \in {"profile", "boards_off"}
  BY ConfigFields DEF Execs, ConfigType
<1>2. CASE x.action \in BoardActions
  BY <1>2, Progress DEF Plan, Planned, Rest, BoardActions
<1>3. CASE x.action = "low" /\ x.miner.mode = "boards_off"
  BY <1>3, Progress DEF Plan, Planned, Rest, BoardActions
<1>4. CASE x.action = "full" /\ x.miner.mode = "boards_off"
  BY <1>4, Progress DEF Plan, Planned, Rest, BoardActions
<1>5. CASE x.action \in {"low", "full"} /\ x.miner.mode = "profile"
  BY <1>5, Progress DEF Plan, Planned, Rest, BoardActions
<1> QED
  BY <1>1, <1>2, <1>3, <1>4, <1>5 DEF Actions

\* An action begins as the contract lets it.
LEMMA BeginRefines ==
  ASSUME TypeInv, PlanInv, NEW a \in Actors, NEW action \in Actions, NEW b \in Boards,
         exec[a] = NoExec, MayBegin, Begin(a, action, b), UNCHANGED <<profile, on>>,
         \/ a # Loop /\ config.manual
         \/ a = Loop /\ config.recover /\ action = "restart_board"
         \/ a = Loop /\ config.schedule /\ action \in {"low", "full"}
         \/ a = Loop /\ config.manual /\ action = "full"
  PROVE  PlanInv' /\ Control!Begin(a)
<1> DEFINE y == [action |-> action, board |-> b, miner |-> config,
                 plan |-> Plan(action, config), ok |-> TRUE, orphan |-> FALSE]
<1>1. config \in Configs /\ WellPlanned(Plan(action, config))
  BY PlanWellPlanned DEF TypeInv, ReadingTyped
<1>2. y \in Execs
  BY <1>1 DEF Execs, WellPlanned
<1>3. /\ y.action = action /\ y.board = b /\ y.miner = config /\ y.plan = Plan(action, config)
      /\ exec' = [exec EXCEPT ![a] = y] /\ lock' = a
  BY DEF Begin
<1> HIDE DEF y
<1>4. Planned(y)
  BY <1>2, <1>3, PlanDrawnUp
<1>5. /\ Task(y) # NoExec /\ Task(y).action = action /\ Task(y).miner = config
      /\ Task(y).stage = Stage(y.plan)
  BY <1>2, <1>3, TaskFields
<1>6. Task(y).stage = IF Control!SetsProfile(Task(y)) THEN "begun" ELSE "tuned"
  BY <1>2, <1>3, <1>5, PlanDrawnUp DEF Control!SetsProfile
<1>7. Tasks[a] = NoExec /\ Tasks'[a] = Task(y) /\ Control!Others(a) /\ PlanInv'
  BY <1>3, <1>4, TaskBecomes DEF Task
<1>8. Control!Entitled(a, Task(y))
  BY <1>5 DEF Control!Entitled, MayBegin, Monitored
<1>9. lock = Nobody
  BY DEF MayBegin
<1> QED
  BY <1>3, <1>5, <1>6, <1>7, <1>8, <1>9 DEF Control!Begin

\* An action that ends gives back what it held.
LEMMA ReturnRefines ==
  ASSUME TypeInv, PlanInv, NEW a \in Actors, NEW ok, Return(a, ok)
  PROVE  PlanInv' /\ Control!Ends(a)
<1>1. exec' = [exec EXCEPT ![a] = NoExec] /\ lock' = IF lock = a THEN Nobody ELSE lock
  BY DEF Return
<1>2. Tasks'[a] = NoExec /\ Control!Others(a) /\ PlanInv'
  BY <1>1, TaskBecomes DEF Task
<1> QED
  BY <1>1, <1>2 DEF Control!Ends

\* What is left of the plan after a step tells the stage.
LEMMA PlanRefines ==
  ASSUME TypeInv, PlanInv, NEW a \in Actors, exec[a] # NoExec, NEW y \in Execs,
         y.action = exec[a].action, y.board = exec[a].board, y.miner = exec[a].miner,
         Planned(y), exec' = [exec EXCEPT ![a] = y], lock' = lock
  PROVE  PlanInv' /\ Control!Becomes(a, Stage(y.plan))
<1>1. exec[a] \in Execs
  BY DEF TypeInv, ExecTyped
<1>2. Task(y) = [Task(exec[a]) EXCEPT !.stage = Stage(y.plan)]
  BY <1>1, TaskFields
<1> QED
  BY <1>2, TaskBecomes DEF Control!Becomes

\* A step along the plan, when what is left of it fits.
LEMMA SkipRefines ==
  ASSUME TypeInv, PlanInv, NEW a \in Actors, exec[a] # NoExec, NEW n \in 1..2, Skip(a, n),
         NEW rest \in Plans, rest = After(exec[a].plan, n), rest \in Rest(exec[a]),
         Head(rest) = "profile" => Target(exec[a]) <= exec[a].miner.normal
  PROVE  PlanInv' /\ Control!Becomes(a, Stage(rest))
<1> DEFINE x == exec[a]  y == [x EXCEPT !.plan = rest]
<1>1. x \in Execs
  BY DEF TypeInv, ExecTyped
<1>2. y \in Execs /\ y.action = x.action /\ y.board = x.board /\ y.miner = x.miner /\ y.plan = rest
  BY <1>1 DEF Execs
<1>3. exec' = [exec EXCEPT ![a] = y] /\ lock' = lock
  BY DEF Skip, After, TypeInv, ExecTyped
<1>4. Planned(y)
  BY <1>2 DEF Planned, Rest, Target
<1> HIDE DEF y
<1> QED
  BY <1>2, <1>3, <1>4, PlanRefines

\* A failure leaves the notification, or ends the action.
LEMMA AbortRefines ==
  ASSUME TypeInv, PlanInv, NEW a \in Actors, exec[a] # NoExec, Abort(a)
  PROVE  PlanInv' /\ Control!Over(a)
<1>1. CASE Silent(a)
  BY <1>1, ReturnRefines DEF Abort, Control!Over
<1>2. CASE ~ Silent(a)
  <2> DEFINE x == exec[a]  y == [x EXCEPT !.plan = <<"record">>, !.ok = FALSE]
  <2>1. x \in Execs /\ <<"record">> \in Plans
    BY DEF TypeInv, ExecTyped, Plans
  <2>2. y \in Execs /\ y.action = x.action /\ y.board = x.board /\ y.miner = x.miner
        /\ y.plan = <<"record">>
    BY <2>1 DEF Execs
  <2>3. exec' = [exec EXCEPT ![a] = y] /\ lock' = lock
    BY <1>2 DEF Abort, memoryVars, TypeInv, ExecTyped
  <2>4. Planned(y)
    BY <2>2 DEF Planned, Rest
  <2> HIDE DEF y
  <2> QED
    BY <2>2, <2>3, <2>4, PlanRefines, Progress DEF Control!Over
<1> QED
  BY <1>1, <1>2

Boarded(x) == x.action \notin {"low", "full"} \/ x.miner.mode = "boards_off"

\* What is ahead of an action, by what it awaits next.
Fits(x, plan) == plan \in Rest(x) /\ plan \in Plans
Ahead(x) ==
  LET next == After(x.plan, 1) IN
  /\ Head(x.plan) = "count" =>
       Fits(x, next) /\ Head(next) # "profile" /\ Stage(next) = Stage(x.plan)
  /\ Head(x.plan) = "list" =>
       /\ Stage(x.plan) = "begun"
       /\ Fits(x, next) /\ Head(next) = "profile" /\ Stage(next) = "begun"
       /\ Fits(x, After(x.plan, 2)) /\ Head(After(x.plan, 2)) # "profile"
       /\ Stage(After(x.plan, 2)) = IF Boarded(x) THEN "tuned" ELSE "over"
  /\ Head(x.plan) = "profile" =>
       /\ Stage(x.plan) = "begun"
       /\ Fits(x, next) /\ Head(next) # "profile"
       /\ Stage(next) = IF Boarded(x) THEN "tuned" ELSE "over"
  /\ Head(x.plan) = "boards" =>
       Stage(x.plan) = "tuned" /\ x.action \in {"low", "full"} /\ next = <<"record">> /\ Fits(x, next)
  /\ Head(x.plan) = "reboot" =>
       Stage(x.plan) = "tuned" /\ x.action \notin {"low", "full"} /\ next = <<"record">> /\ Fits(x, next)
  /\ Head(x.plan) = "record" => Stage(x.plan) = "over"

\* The next await of each end of a plan.
LEMMA Heads ==
  /\ Head(<<"count", "reboot", "record">>) = "count" /\ <<"count", "reboot", "record">> \in Plans
  /\ Head(<<"reboot", "record">>) = "reboot" /\ <<"reboot", "record">> \in Plans
  /\ Head(<<"count", "boards", "record">>) = "count" /\ <<"count", "boards", "record">> \in Plans
  /\ Head(<<"boards", "record">>) = "boards" /\ <<"boards", "record">> \in Plans
  /\ Head(<<"count", "list", "profile", "boards", "record">>) = "count"
  /\ <<"count", "list", "profile", "boards", "record">> \in Plans
  /\ Head(<<"list", "profile", "boards", "record">>) = "list"
  /\ <<"list", "profile", "boards", "record">> \in Plans
  /\ Head(<<"profile", "boards", "record">>) = "profile"
  /\ <<"profile", "boards", "record">> \in Plans
  /\ Head(<<"list", "profile", "record">>) = "list" /\ <<"list", "profile", "record">> \in Plans
  /\ Head(<<"profile", "record">>) = "profile" /\ <<"profile", "record">> \in Plans
  /\ Head(<<"record">>) = "record" /\ <<"record">> \in Plans
BY DEF Plans

LEMMA AheadHolds ==
  ASSUME NEW x \in Execs, x.plan \in Rest(x)
  PROVE  Ahead(x)
<1>0. x.action \in Actions /\ x.miner.mode \in {"profile", "boards_off"}
  BY ConfigFields DEF Execs, ConfigType
<1>1. CASE x.plan = <<"record">>
  BY <1>1, Progress, Heads DEF Ahead
<1>2. CASE x.action \in BoardActions
  <2>0. Rest(x) = {<<"count", "reboot", "record">>, <<"reboot", "record">>, <<"record">>}
    BY <1>2 DEF Rest, BoardActions
  <2>1. CASE x.plan = <<"count", "reboot", "record">>
    <3>1. /\ Head(x.plan) = "count" /\ Stage(x.plan) = "tuned"
          /\ After(x.plan, 1) = <<"reboot", "record">> /\ Fits(x, <<"reboot", "record">>)
          /\ Head(<<"reboot", "record">>) = "reboot" /\ Stage(<<"reboot", "record">>) = "tuned"
      BY <2>0, <2>1, Remainders, Progress, Heads, Zenon DEF Fits
    <3> QED
      BY <1>2, <3>1 DEF Ahead, Boarded, BoardActions
  <2>2. CASE x.plan = <<"reboot", "record">>
    <3>1. /\ Head(x.plan) = "reboot" /\ Stage(x.plan) = "tuned"
          /\ After(x.plan, 1) = <<"record">> /\ Fits(x, <<"record">>)
          /\ Head(<<"record">>) = "record" /\ Stage(<<"record">>) = "over"
      BY <2>0, <2>2, Remainders, Progress, Heads, Zenon DEF Fits
    <3> QED
      BY <1>2, <3>1 DEF Ahead, Boarded, BoardActions
  <2> QED
    BY <1>1, <2>0, <2>1, <2>2
<1>3. CASE x.action = "low" /\ x.miner.mode = "boards_off"
  <2>0. Rest(x) = {<<"count", "boards", "record">>, <<"boards", "record">>, <<"record">>}
    BY <1>3 DEF Rest, BoardActions
  <2>1. CASE x.plan = <<"count", "boards", "record">>
    <3>1. /\ Head(x.plan) = "count" /\ Stage(x.plan) = "tuned"
          /\ After(x.plan, 1) = <<"boards", "record">> /\ Fits(x, <<"boards", "record">>)
          /\ Head(<<"boards", "record">>) = "boards" /\ Stage(<<"boards", "record">>) = "tuned"
      BY <2>0, <2>1, Remainders, Progress, Heads, Zenon DEF Fits
    <3> QED
      BY <1>3, <3>1 DEF Ahead, Boarded, BoardActions
  <2>2. CASE x.plan = <<"boards", "record">>
    <3>1. /\ Head(x.plan) = "boards" /\ Stage(x.plan) = "tuned"
          /\ After(x.plan, 1) = <<"record">> /\ Fits(x, <<"record">>)
          /\ Head(<<"record">>) = "record" /\ Stage(<<"record">>) = "over"
      BY <2>0, <2>2, Remainders, Progress, Heads, Zenon DEF Fits
    <3> QED
      BY <1>3, <3>1 DEF Ahead, Boarded, BoardActions
  <2> QED
    BY <1>1, <2>0, <2>1, <2>2
<1>4. CASE x.action = "full" /\ x.miner.mode = "boards_off"
  <2>0. Rest(x) = {<<"count", "list", "profile", "boards", "record">>, <<"list", "profile", "boards", "record">>,
                   <<"profile", "boards", "record">>, <<"boards", "record">>, <<"record">>}
    BY <1>4 DEF Rest, BoardActions
  <2>1. CASE x.plan = <<"count", "list", "profile", "boards", "record">>
    <3>1. /\ Head(x.plan) = "count" /\ Stage(x.plan) = "begun"
          /\ After(x.plan, 1) = <<"list", "profile", "boards", "record">> /\ Fits(x, <<"list", "profile", "boards", "record">>)
          /\ Head(<<"list", "profile", "boards", "record">>) = "list" /\ Stage(<<"list", "profile", "boards", "record">>) = "begun"
      BY <2>0, <2>1, Remainders, Progress, Heads, Zenon DEF Fits
    <3> QED
      BY <1>4, <3>1 DEF Ahead, Boarded, BoardActions
  <2>2. CASE x.plan = <<"list", "profile", "boards", "record">>
    <3>1. /\ Head(x.plan) = "list" /\ Stage(x.plan) = "begun"
          /\ After(x.plan, 1) = <<"profile", "boards", "record">> /\ Fits(x, <<"profile", "boards", "record">>)
          /\ Head(<<"profile", "boards", "record">>) = "profile" /\ Stage(<<"profile", "boards", "record">>) = "begun"
          /\ After(x.plan, 2) = <<"boards", "record">> /\ Fits(x, <<"boards", "record">>)
          /\ Head(<<"boards", "record">>) = "boards" /\ Stage(<<"boards", "record">>) = "tuned"
      BY <2>0, <2>2, Remainders, Progress, Heads, Zenon DEF Fits
    <3> QED
      BY <1>4, <3>1 DEF Ahead, Boarded, BoardActions
  <2>3. CASE x.plan = <<"profile", "boards", "record">>
    <3>1. /\ Head(x.plan) = "profile" /\ Stage(x.plan) = "begun"
          /\ After(x.plan, 1) = <<"boards", "record">> /\ Fits(x, <<"boards", "record">>)
          /\ Head(<<"boards", "record">>) = "boards" /\ Stage(<<"boards", "record">>) = "tuned"
      BY <2>0, <2>3, Remainders, Progress, Heads, Zenon DEF Fits
    <3> QED
      BY <1>4, <3>1 DEF Ahead, Boarded, BoardActions
  <2>4. CASE x.plan = <<"boards", "record">>
    <3>1. /\ Head(x.plan) = "boards" /\ Stage(x.plan) = "tuned"
          /\ After(x.plan, 1) = <<"record">> /\ Fits(x, <<"record">>)
          /\ Head(<<"record">>) = "record" /\ Stage(<<"record">>) = "over"
      BY <2>0, <2>4, Remainders, Progress, Heads, Zenon DEF Fits
    <3> QED
      BY <1>4, <3>1 DEF Ahead, Boarded, BoardActions
  <2> QED
    BY <1>1, <2>0, <2>1, <2>2, <2>3, <2>4
<1>5. CASE x.action \in {"low", "full"} /\ x.miner.mode = "profile"
  <2>0. Rest(x) = {<<"list", "profile", "record">>, <<"profile", "record">>, <<"record">>}
    BY <1>5 DEF Rest, BoardActions
  <2>1. CASE x.plan = <<"list", "profile", "record">>
    <3>1. /\ Head(x.plan) = "list" /\ Stage(x.plan) = "begun"
          /\ After(x.plan, 1) = <<"profile", "record">> /\ Fits(x, <<"profile", "record">>)
          /\ Head(<<"profile", "record">>) = "profile" /\ Stage(<<"profile", "record">>) = "begun"
          /\ After(x.plan, 2) = <<"record">> /\ Fits(x, <<"record">>)
          /\ Head(<<"record">>) = "record" /\ Stage(<<"record">>) = "over"
      BY <2>0, <2>1, Remainders, Progress, Heads, Zenon DEF Fits
    <3> QED
      BY <1>5, <3>1 DEF Ahead, Boarded, BoardActions
  <2>2. CASE x.plan = <<"profile", "record">>
    <3>1. /\ Head(x.plan) = "profile" /\ Stage(x.plan) = "begun"
          /\ After(x.plan, 1) = <<"record">> /\ Fits(x, <<"record">>)
          /\ Head(<<"record">>) = "record" /\ Stage(<<"record">>) = "over"
      BY <2>0, <2>2, Remainders, Progress, Heads, Zenon DEF Fits
    <3> QED
      BY <1>5, <3>1 DEF Ahead, Boarded, BoardActions
  <2> QED
    BY <1>1, <2>0, <2>1, <2>2
<1> QED
  BY <1>0, <1>1, <1>2, <1>3, <1>4, <1>5 DEF Actions

\* A step that leaves the stage as it was changes nothing the contract sees of the action.
LEMMA SameStage ==
  ASSUME TypeInv, NEW a \in Actors, exec[a] # NoExec,
         Control!Becomes(a, Stage(exec[a].plan))
  PROVE  UNCHANGED <<lock, Tasks>>
<1>1. exec[a] \in Execs
  BY DEF TypeInv, ExecTyped
<1>2. Tasks[a] = Task(exec[a])
  BY DEF Tasks
<1>3. Task(exec[a]) = [Task(exec[a]) EXCEPT !.stage = Stage(exec[a].plan)]
  BY <1>1, TaskFields
<1>4. \A c \in Actors : Tasks'[c] = Tasks[c]
  BY <1>2, <1>3 DEF Control!Becomes, Control!Others
<1>5. Tasks = [c \in Actors |-> Task(exec[c])] /\ Tasks' = [c \in Actors |-> Task(exec'[c])]
  BY DEF Tasks
<1>6. Tasks' = Tasks
  BY <1>4, <1>5, Zenon
<1> QED
  BY <1>6 DEF Control!Becomes

Refined == PlanInv' /\ ([Control!ControlNext]_<<profile, on, lock, Tasks>>)

\* The action in progress, as the contract sees it.
LEMMA Seen ==
  ASSUME TypeInv, PlanInv, NEW a \in Actors, exec[a] # NoExec
  PROVE  /\ exec[a] \in Execs /\ Planned(exec[a]) /\ Ahead(exec[a])
         /\ Tasks[a] # NoExec /\ Tasks[a].stage = Stage(exec[a].plan)
         /\ Tasks[a].action = exec[a].action /\ Tasks[a].board = exec[a].board
         /\ Control!Goal(Tasks[a]) = Target(exec[a])
         /\ Control!MaySet(Tasks[a]) <=> Target(exec[a]) <= exec[a].miner.normal
         /\ Control!SwitchesBoards(Tasks[a]) <=> Boarded(exec[a])
<1>1. exec[a] \in Execs /\ Planned(exec[a])
  BY DEF TypeInv, ExecTyped, PlanInv
<1>2. Ahead(exec[a])
  BY <1>1, AheadHolds DEF Planned
<1>3. Tasks[a] = [action |-> exec[a].action, board |-> exec[a].board, miner |-> exec[a].miner,
                  stage |-> Stage(exec[a].plan)] /\ Tasks[a] # NoExec
  BY <1>1, TaskFields DEF Tasks
<1> QED
  BY <1>1, <1>2, <1>3 DEF Control!Goal, Target, Control!MaySet, Control!SwitchesBoards, Boarded

\* The questions at the beginning of an action are not seen by the contract, or end it.
LEMMA AskingRefines ==
  ASSUME TypeInv, PlanInv, NEW a \in Actors, Count(a) \/ ListProfiles(a)
  PROVE  Refined
<1> DEFINE x == exec[a]
<1>0. exec[a] # NoExec /\ UNCHANGED <<profile, on>>
  BY DEF Count, ListProfiles, At, minerVars
<1>1. /\ x \in Execs /\ Ahead(x) /\ Tasks[a] # NoExec /\ Tasks[a].stage = Stage(x.plan)
      /\ Control!Goal(Tasks[a]) = Target(x)
      /\ Control!MaySet(Tasks[a]) <=> Target(x) <= x.miner.normal
      /\ Control!SwitchesBoards(Tasks[a]) <=> Boarded(x)
  BY <1>0, Seen
<1> HIDE DEF x
<1>2. CASE Abort(a) /\ Stage(x.plan) \in {"begun", "tuned"}
  <2>1. PlanInv' /\ Control!Over(a)
    BY <1>0, <1>2, AbortRefines
  <2>2. Control!GiveUp(a)
    BY <1>0, <1>1, <1>2, <2>1 DEF Control!GiveUp, Control!Doing
  <2> QED
    BY <2>1, <2>2 DEF Refined, Control!ControlNext
<1>3. CASE Head(x.plan) = "count" /\ Skip(a, 1)
  <2>1. PlanInv' /\ Control!Becomes(a, Stage(x.plan))
    BY <1>0, <1>1, <1>3, SkipRefines DEF Ahead, Fits, x
  <2> QED
    BY <1>0, <2>1, SameStage DEF Refined, x
<1>4. CASE Head(x.plan) = "list" /\ Skip(a, 1) /\ Target(x) <= x.miner.normal
  <2>1. PlanInv' /\ Control!Becomes(a, Stage(x.plan))
    BY <1>0, <1>1, <1>4, SkipRefines DEF Ahead, Fits, x
  <2> QED
    BY <1>0, <2>1, SameStage DEF Refined, x
<1>5. CASE Head(x.plan) = "list" /\ Skip(a, 2) /\ Target(x) <= x.miner.normal /\ profile = Target(x)
  <2>1. PlanInv' /\ Control!Becomes(a, IF Boarded(x) THEN "tuned" ELSE "over")
    BY <1>0, <1>1, <1>5, SkipRefines DEF Ahead, Fits, x
  <2>2. Control!Tune(a)
    BY <1>0, <1>1, <1>5, <2>1 DEF Control!Tune, Control!Doing, Control!Over, Ahead
  <2> QED
    BY <2>1, <2>2 DEF Refined, Control!ControlNext
<1>6. CASE Count(a)
  <2>1. Head(x.plan) = "count" /\ (Skip(a, 1) \/ Abort(a))
    BY <1>6 DEF Count, At, x
  <2>2. Stage(x.plan) \in {"begun", "tuned", "over"}
    BY DEF Stage
  <2>3. Stage(x.plan) # "over"
    BY <1>1, <2>1, Seen DEF Ahead, Stage
  <2> QED
    BY <1>2, <1>3, <2>1, <2>2, <2>3
<1>7. CASE ListProfiles(a)
  <2>1. Head(x.plan) = "list" /\ Stage(x.plan) = "begun"
    BY <1>1, <1>7 DEF ListProfiles, At, Ahead, x
  <2>2. \/ Abort(a)
        \/ /\ Target(x) <= x.miner.normal
           /\ Skip(a, 1) \/ (Skip(a, 2) /\ profile = Target(x))
    BY <1>7 DEF ListProfiles, x
  <2> QED
    BY <1>2, <1>4, <1>5, <2>1, <2>2
<1> QED
  BY <1>6, <1>7

\* The profile is set to the goal of its action, or its command fails.
LEMMA SetProfileRefines ==
  ASSUME TypeInv, PlanInv, NEW a \in Actors, SetProfile(a)
  PROVE  Refined
<1> DEFINE x == exec[a]
<1>0. exec[a] # NoExec /\ Head(x.plan) = "profile" /\ on' = on
  BY DEF SetProfile, At
<1>1. /\ x \in Execs /\ Ahead(x) /\ Planned(x) /\ Tasks[a] # NoExec /\ Tasks[a].stage = Stage(x.plan)
      /\ Control!Goal(Tasks[a]) = Target(x)
      /\ Control!MaySet(Tasks[a]) <=> Target(x) <= x.miner.normal
      /\ Control!SwitchesBoards(Tasks[a]) <=> Boarded(x)
  BY <1>0, Seen
<1>2. \/ profile' = Target(x) /\ Skip(a, 1)
      \/ profile' \in {profile, Target(x)} /\ Abort(a)
  BY DEF SetProfile
<1>3. Stage(x.plan) = "begun" /\ Target(x) <= x.miner.normal
  BY <1>0, <1>1 DEF Ahead, Planned
<1> HIDE DEF x
<1>4. CASE profile' = Target(x) /\ Skip(a, 1)
  <2>1. PlanInv' /\ Control!Becomes(a, IF Boarded(x) THEN "tuned" ELSE "over")
    BY <1>0, <1>1, <1>4, SkipRefines DEF Ahead, Fits, x
  <2>2. Control!Tune(a)
    BY <1>0, <1>1, <1>3, <1>4, <2>1 DEF Control!Tune, Control!Doing, Control!Over
  <2> QED
    BY <2>1, <2>2 DEF Refined, Control!ControlNext
<1>5. CASE profile' \in {profile, Target(x)} /\ Abort(a)
  <2>1. PlanInv' /\ Control!Over(a)
    BY <1>0, <1>5, AbortRefines
  <2>2. Control!GiveUp(a)
    BY <1>0, <1>1, <1>3, <1>5, <2>1 DEF Control!GiveUp, Control!Doing
  <2> QED
    BY <2>1, <2>2 DEF Refined, Control!ControlNext
<1> QED
  BY <1>2, <1>4, <1>5

\* The boards are switched as their action means to, or as many as it reached.
LEMMA SwitchRefines ==
  ASSUME TypeInv, PlanInv, NEW a \in Actors, SetBoards(a) \/ Reboot(a)
  PROVE  Refined
<1> DEFINE x == exec[a]
<1>0. exec[a] # NoExec /\ Head(x.plan) \in {"boards", "reboot"} /\ profile' = profile
  BY DEF SetBoards, Reboot, At
<1>1. /\ x \in Execs /\ Ahead(x) /\ Tasks[a] # NoExec /\ Tasks[a].stage = Stage(x.plan)
      /\ Tasks[a].action = x.action /\ Tasks[a].board = x.board
  BY <1>0, Seen
<1>2. Stage(x.plan) = "tuned" /\ After(x.plan, 1) = <<"record">> /\ Fits(x, <<"record">>)
  BY <1>0, <1>1 DEF Ahead
<1>3. on \in [Boards -> BOOLEAN]
  BY DEF TypeInv, MinerTyped
<1> DEFINE goal == Control!Switched(Tasks[a])
<1>4. ASSUME SetBoards(a)
      PROVE  \/ on' = goal /\ (Skip(a, 1) \/ Return(a, TRUE))
             \/ (\A b \in Boards : on'[b] \in {on[b], goal[b]}) /\ Abort(a)
  <2>1. goal = [b \in Boards |-> x.action = "full"]
    <3>1. x.action \in {"low", "full"}
      BY <1>1, <1>4 DEF SetBoards, At, Ahead
    <3> QED
      BY <1>1, <3>1 DEF Control!Switched
  <2>2. \/ on' = goal /\ Skip(a, 1)
        \/ (\A b \in Boards : on'[b] \in {on[b], goal[b]}) /\ Abort(a)
    <3>1. PICK done \in SUBSET Boards :
            /\ on' = [b \in Boards |-> IF b \in done THEN x.action = "full" ELSE on[b]]
            /\ \/ done = Boards /\ Skip(a, 1)
               \/ Abort(a)
      BY <1>4 DEF SetBoards
    <3> QED
      BY <2>1, <3>1
  <2> QED
    BY <2>2
<1>5. ASSUME Reboot(a)
      PROVE  \/ on' = goal /\ (Skip(a, 1) \/ Return(a, TRUE))
             \/ (\A b \in Boards : on'[b] \in {on[b], goal[b]}) /\ Abort(a)
  <2>1. x.action \notin {"low", "full"} /\ x.board \in Boards
    BY <1>1, <1>5 DEF Reboot, At, Ahead, Execs
  <2>2. goal = [b \in Boards |-> IF b = x.board THEN x.action # "board_off" ELSE on[b]]
    BY <1>1, <2>1 DEF Control!Switched
  <2>3. goal = [on EXCEPT ![x.board] = x.action # "board_off"]
    BY <1>3, <2>1, <2>2
  <2>4. \/ on' = goal /\ (Skip(a, 1) \/ Return(a, TRUE))
        \/ on' \in {on, goal} /\ Abort(a)
    <3>1. PICK took \in BOOLEAN :
            /\ up => took
            /\ on' = IF took THEN [on EXCEPT ![x.board] = x.action # "board_off"] ELSE on
      BY <1>5 DEF Reboot
    <3>2. (~ up /\ Abort(a)) \/ (up /\ (Skip(a, 1) \/ Return(a, TRUE)))
      BY <1>5 DEF Reboot
    <3> QED
      BY <2>3, <3>1, <3>2
  <2> QED
    BY <2>4
<1> HIDE DEF x, goal
<1>6. \/ on' = goal /\ (Skip(a, 1) \/ Return(a, TRUE))
      \/ (\A b \in Boards : on'[b] \in {on[b], goal[b]}) /\ Abort(a)
  BY <1>4, <1>5
<1>7. CASE on' = goal /\ (Skip(a, 1) \/ Return(a, TRUE))
  <2>1. PlanInv' /\ Control!Over(a)
    <3>1. CASE Skip(a, 1)
      <4>1. PlanInv' /\ Control!Becomes(a, "over")
        BY <1>0, <1>2, <3>1, Heads, Progress, SkipRefines DEF Fits, x
      <4> QED
        BY <4>1 DEF Control!Over
    <3>2. CASE Return(a, TRUE)
      BY <3>2, ReturnRefines DEF Control!Over
    <3> QED
      BY <1>7, <3>1, <3>2
  <2>2. Control!Switch(a)
    BY <1>0, <1>1, <1>2, <1>7, <2>1 DEF Control!Switch, Control!Doing, goal
  <2> QED
    BY <2>1, <2>2 DEF Refined, Control!ControlNext
<1>8. CASE (\A b \in Boards : on'[b] \in {on[b], goal[b]}) /\ Abort(a)
  <2>1. PlanInv' /\ Control!Over(a)
    BY <1>0, <1>8, AbortRefines
  <2>2. Control!GiveUp(a)
    BY <1>0, <1>1, <1>2, <1>8, <2>1 DEF Control!GiveUp, Control!Doing, goal
  <2> QED
    BY <2>1, <2>2 DEF Refined, Control!ControlNext
<1> QED
  BY <1>6, <1>7, <1>8

\* Every step of an action in progress.
LEMMA ExecuteRefines ==
  ASSUME TypeInv, PlanInv, NEW a \in Actors, Execute(a)
  PROVE  Refined
<1>1. CASE Record(a)
  <2>1. exec[a] # NoExec /\ Head(exec[a].plan) = "record" /\ UNCHANGED <<profile, on>>
    BY <1>1 DEF Record, At, minerVars
  <2>2. Tasks[a] # NoExec /\ Tasks[a].stage = "over"
    BY <2>1, Seen DEF Ahead
  <2>3. PlanInv' /\ Control!Ends(a)
    BY <1>1, ReturnRefines DEF Record
  <2>4. Control!Leave(a)
    BY <2>1, <2>2, <2>3 DEF Control!Leave, Control!Doing
  <2> QED
    BY <2>3, <2>4 DEF Refined, Control!ControlNext
<1> QED
  BY <1>1, AskingRefines, SetProfileRefines, SwitchRefines DEF Execute

\* The loop begins an action only where the owner armed it.
LEMMA LoopRefines ==
  ASSUME TypeInv, PlanInv, Iterate
  PROVE  Refined
<1>0. UNCHANGED <<profile, on>> /\ Loop \in Actors /\ 0 \in Boards
  BY BoardsAssumption DEF Iterate, StartHealth, ReadHealth, ProcessHealth, CheckBoard, Complete,
     Detected, Failed, Schedule, Enforce, Wait, minerVars, Actors
<1>1. ASSUME UNCHANGED <<lock, exec>> PROVE Refined
  BY <1>0, <1>1 DEF Refined, PlanInv, Tasks
<1>2. ASSUME NEW action \in Actions, NEW b \in Boards, exec[Loop] = NoExec,
             MayBegin, Begin(Loop, action, b),
             \/ config.recover /\ action = "restart_board"
             \/ config.schedule /\ action \in {"low", "full"}
             \/ config.manual /\ action = "full"
      PROVE  Refined
  BY <1>0, <1>2, BeginRefines DEF Refined, Control!ControlNext
<1>3. CASE StartHealth \/ ReadHealth \/ ProcessHealth \/ CheckBoard \/ Complete \/ Failed \/ Wait
  BY <1>1, <1>3 DEF StartHealth, ReadHealth, ProcessHealth, CheckBoard, Complete, Failed, Wait,
     memoryVars
<1>4. CASE Detected
  <2>1. pc = "detected" /\ Min(todo) \in Boards /\ exec[Loop] = NoExec
    BY <1>4, LowestBoard DEF Detected, TypeInv, StageTyped, ExecTyped, BoardStages, Awaiting
  <2> QED
    BY <1>1, <1>2, <1>4, <2>1 DEF Detected, Actions, BoardActions
<1>5. CASE Schedule
  <2>1. exec[Loop] = NoExec /\ Desired \in {"low", "full"}
    BY <1>5 DEF Schedule, TypeInv, ExecTyped, Awaiting, Desired
  <2>2. UNCHANGED <<lock, exec>> \/ (config.schedule /\ MayBegin /\ Begin(Loop, Desired, 0))
    BY <1>5 DEF Schedule, FollowSchedule, WatchCeiling
  <2> QED
    BY <1>0, <1>1, <1>2, <2>1, <2>2 DEF Actions
<1>6. CASE Enforce
  <2>1. exec[Loop] = NoExec
    BY <1>6 DEF Enforce, TypeInv, ExecTyped, Awaiting
  <2>2. UNCHANGED <<lock, exec>> \/ (config.manual /\ MayBegin /\ Begin(Loop, "full", 0))
    BY <1>6 DEF Enforce
  <2> QED
    BY <1>0, <1>1, <1>2, <2>1, <2>2 DEF Actions
<1> QED
  BY <1>3, <1>4, <1>5, <1>6 DEF Iterate

\* A miner that is dropped leaves its actions without the lock, and otherwise as they are.
LEMMA EditRefines ==
  ASSUME TypeInv, PlanInv, EditConfig
  PROVE  Refined
<1>1. UNCHANGED <<profile, on>>
  BY DEF EditConfig, minerVars
<1>2. CASE UNCHANGED <<lock, exec>>
  BY <1>1, <1>2 DEF Refined, PlanInv, Tasks
<1>3. CASE /\ lock' = Nobody
           /\ exec' = [a \in Actors |->
                         IF exec[a] = NoExec THEN NoExec ELSE [exec[a] EXCEPT !.orphan = TRUE]]
  <2>1. ASSUME NEW a \in Actors
        PROVE  /\ Task(exec'[a]) = Task(exec[a])
               /\ exec'[a] # NoExec => exec[a] # NoExec /\ Planned(exec'[a])
    <3>1. CASE exec[a] = NoExec
      BY <1>3, <3>1
    <3>2. CASE exec[a] # NoExec
      <4> DEFINE x == exec[a]  y == [x EXCEPT !.orphan = TRUE]
      <4>1. x \in Execs /\ Planned(x) /\ exec'[a] = y
        BY <1>3, <3>2 DEF TypeInv, ExecTyped, PlanInv
      <4>2. /\ y \in Execs /\ y.action = x.action /\ y.board = x.board /\ y.miner = x.miner
            /\ y.plan = x.plan
        BY <4>1 DEF Execs
      <4> HIDE DEF y
      <4>3. Planned(y)
        BY <4>1, <4>2 DEF Planned, Rest, Target
      <4> QED
        BY <3>2, <4>1, <4>2, <4>3, TaskFields
    <3> QED
      BY <3>1, <3>2
  <2>2. Tasks' = Tasks
    <3>1. Tasks = [a \in Actors |-> Task(exec[a])] /\ Tasks' = [a \in Actors |-> Task(exec'[a])]
      BY DEF Tasks
    <3> QED
      BY <2>1, <3>1, Zenon
  <2>3. PlanInv'
    <3>1. \A a \in Actors : exec'[a] # NoExec => Planned(exec'[a])
      BY <2>1
    <3> QED
      BY <3>1 DEF PlanInv
  <2>4. Control!Drop
    BY <1>1, <1>3, <2>2 DEF Control!Drop
  <2> QED
    BY <2>3, <2>4 DEF Refined, Control!ControlNext
<1> QED
  BY <1>2, <1>3 DEF EditConfig, memoryVars

\* Every step is one of the contract, or none.
LEMMA NextRefines == ASSUME TypeInv, PlanInv, [Next]_vars PROVE Refined
<1>1. CASE UNCHANGED <<profile, on, lock, exec>>
  BY <1>1 DEF Refined, PlanInv, Tasks
<1>2. ASSUME NEW a \in Clients, Ask(a) PROVE Refined
  <2>1. UNCHANGED <<profile, on>> /\ a \in Actors /\ a # Loop /\ exec[a] = NoExec
    BY <1>2, ActorsAssumption DEF Ask, minerVars, Actors
  <2>2. PICK action \in Actions, b \in Boards : Begin(a, action, b)
    BY <1>2 DEF Ask
  <2>3. config.manual /\ MayBegin
    BY <1>2 DEF Ask
  <2> QED
    BY <2>1, <2>2, <2>3, BeginRefines DEF Refined, Control!ControlNext
<1>3. CASE Reach \/ Window \/ (\E b \in Boards : Chips(b)) \/ (\E t \in timers : TimersEnd({t}))
  BY <1>1, <1>3 DEF Reach, Window, Chips, TimersEnd, minerVars, memoryVars
<1>4. CASE UNCHANGED vars
  BY <1>1, <1>4 DEF vars, minerVars, memoryVars
<1> QED
  BY <1>2, <1>3, <1>4, EditRefines, ExecuteRefines, LoopRefines DEF Next

\* The contract of the miner's owner holds for any boards, profiles, requests and changes of
\* the configuration, through commands that fail halfway and miners that are dropped under an
\* action (luxos_control.py).
THEOREM ImplementsControlHolds == Spec => ImplementsControl
<1>1. Init => PlanInv /\ Control!ControlInit
  BY DEF Init, PlanInv, Control!ControlInit, Tasks, Task
<1>2. Spec => [](TypeInv /\ PlanInv)
  <2>1. TypeInv /\ PlanInv /\ [Next]_vars => TypeInv' /\ PlanInv'
    BY NextTyped, NextRefines DEF Refined
  <2> QED
    BY <1>1, <2>1, InitTyped, PTL DEF Spec
<1>3. TypeInv /\ PlanInv /\ [Next]_vars => [Control!ControlNext]_(Control!controlVars)
  BY NextRefines DEF Refined, Control!controlVars
<1> QED
  BY <1>1, <1>2, <1>3, PTL DEF Spec, ImplementsControl, Control!ControlSpec
=============================================================================
