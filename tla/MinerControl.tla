---------------------------- MODULE MinerControl ----------------------------
(* What LuxOS control promises to the owner of a miner: its profile and its boards are touched    *)
(* only by actions that the owner armed, which begin one at a time; each drives the miner no      *)
(* further than its own goal, never above the normal profile it began with, and starts boards     *)
(* after a Sleep only once the profile is set. LuxOSControl implements it.                        *)
EXTENDS Naturals

CONSTANTS Actors, Service,     \* the service itself, and those who ask
          Boards, Idle, Nobody

VARIABLES
  profile, on,     \* the miner
  holder,          \* who may touch it
  task             \* what each actor is at: an action, with the configuration it began under
controlVars == <<profile, on, holder, task>>

\* The owner armed the service for it, or takes the miner in hand.
Entitled(a, t) ==
  LET c == t.miner IN
  /\ c.global /\ c.enabled
  /\ \/ a # Service /\ c.manual
     \/ a = Service /\ c.recover /\ t.action = "restart_board"
     \/ a = Service /\ c.schedule /\ t.action \in {"low", "full"}
     \/ a = Service /\ c.manual /\ t.action = "full"

Goal(t) == IF t.action = "low" THEN t.miner.curtailed ELSE t.miner.normal

\* The boards as the action means to leave them.
Switched(t) ==
  [b \in Boards |-> IF t.action \in {"low", "full"} THEN t.action = "full"
                    ELSE IF b = t.board THEN t.action # "board_off" ELSE on[b]]

SwitchesBoards(t) == t.action \notin {"low", "full"} \/ t.miner.mode = "boards_off"
SetsProfile(t) == t.action = "full" \/ (t.action = "low" /\ t.miner.mode = "profile")

ControlInit ==
  /\ holder = Nobody
  /\ task = [a \in Actors |-> Idle]

Others(a) == \A c \in Actors \ {a} : task'[c] = task[c]
Becomes(a, stage) == Others(a) /\ task'[a] = [task[a] EXCEPT !.stage = stage] /\ UNCHANGED holder
Ends(a) == Others(a) /\ task'[a] = Idle /\ holder' = IF holder = a THEN Nobody ELSE holder
Over(a) == Becomes(a, "over") \/ Ends(a)

Begin(a) ==
  /\ task[a] = Idle /\ holder = Nobody /\ holder' = a
  /\ Others(a) /\ task'[a] # Idle
  /\ Entitled(a, task'[a])
  /\ task'[a].stage = IF SetsProfile(task'[a]) THEN "begun" ELSE "tuned"
  /\ UNCHANGED <<profile, on>>

Doing(a, stage) == task[a] # Idle /\ task[a].stage = stage

MaySet(t) == Goal(t) <= t.miner.normal

Tune(a) ==
  /\ Doing(a, "begun")
  /\ MaySet(task[a]) /\ profile' = Goal(task[a])
  /\ IF SwitchesBoards(task[a]) THEN Becomes(a, "tuned") ELSE Over(a)
  /\ UNCHANGED on

Switch(a) == Doing(a, "tuned") /\ on' = Switched(task[a]) /\ Over(a) /\ UNCHANGED profile

\* The miner fails the action, and may have carried out some of it.
GiveUp(a) ==
  /\ task[a] # Idle /\ Over(a)
  /\ \/ Doing(a, "begun") /\ UNCHANGED <<profile, on>>
     \/ Doing(a, "begun") /\ MaySet(task[a]) /\ profile' = Goal(task[a]) /\ UNCHANGED on
     \/ /\ Doing(a, "tuned") /\ UNCHANGED profile
        /\ \A b \in Boards : on'[b] \in {on[b], Switched(task[a])[b]}

Leave(a) == Doing(a, "over") /\ Ends(a) /\ UNCHANGED <<profile, on>>

\* The owner drops the miner, and whoever holds it no longer does.
Drop == holder' = Nobody /\ UNCHANGED <<profile, on, task>>

ControlNext ==
  \/ \E a \in Actors : Begin(a) \/ Tune(a) \/ Switch(a) \/ GiveUp(a) \/ Leave(a)
  \/ Drop

ControlSpec == ControlInit /\ [][ControlNext]_controlVars
=============================================================================
