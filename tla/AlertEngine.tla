----------------------------- MODULE AlertEngine -----------------------------
(***************************************************************************)
(* AlertEngine.evaluate_miner (pocisys-hash-monitor/services/alerts.py):   *)
(* which alerts a reading calls for, given what is remembered of the last  *)
(* evaluation of the miner, and what is remembered of this one.            *)
(*                                                                         *)
(* Abstractions.  Every kind of alert is switched on and Discord is        *)
(* configured.  A snooze, which keeps a raised alert from Discord and      *)
(* nothing else, is left out: its evaluations just go on without a pause.  *)
(* The three counters of bad shares are one.  A point in time is told by   *)
(* the timers still running.  Fewer than 512 cooldowns are remembered.     *)
(***************************************************************************)
EXTENDS HealthTracker, SequencesExt

CONSTANTS
  Pools,
  NoPool,       \* no pool URL reported
  NoMemory      \* previous has no entry for the miner

Reading ==
  [api : BOOLEAN,                       \* online and api_ok
   hashrate : Nat \cup {Unreported}, expected : Nat \cup {Unreported},
   errors : Nat \cup {Unreported}, temp : Nat \cup {Unreported},
   chips : ChipStates, pool : Pools \cup {NoPool}, connected : {"yes", "no", "unknown"},
   bad : Nat, blocks : Nat, best : Nat \cup {Unreported},
   curtailed : BOOLEAN,                 \* the schedule wants the miner curtailed
   armed : BOOLEAN,                     \* hashboards are recovered automatically
   quiet : BOOLEAN]                     \* a recovery is pending or observed

\* What _poll_one makes of a driver that raised, or a driver of an API that does not answer.
NoAnswer ==
  [api |-> FALSE, hashrate |-> Unreported, expected |-> Unreported, errors |-> Unreported,
   temp |-> Unreported, chips |-> "none", pool |-> NoPool, connected |-> "unknown",
   bad |-> 0, blocks |-> 0, best |-> Unreported, curtailed |-> FALSE, armed |-> FALSE, quiet |-> FALSE]

Memory ==
  [online : BOOLEAN, offlineSince : BOOLEAN, offlineAlerted : BOOLEAN,
   pool : Pools \cup {NoPool}, poolSince : BOOLEAN, poolAlerted : BOOLEAN,
   chipDegraded : BOOLEAN, bad : Nat, blocks : Nat]

\* The alerts in the order in which they are considered.
AlertOrder ==
  <<"offline", "recovered", "hashrate", "temp-critical", "temp-warning", "chip-health",
    "chip-health-recovered", "pool", "pool-reconnected", "pool-switch", "shares", "block-found", "best">>
Alerts == ToSet(AlertOrder)
Place(alert) == CHOOSE i \in DOMAIN AlertOrder : AlertOrder[i] = alert
\* Alerts that wait for a cooldown; the others are forced.
Cooled == {"offline", "hashrate", "temp-critical", "temp-warning", "pool", "shares"}
\* Alerts that a recovery of hashboards keeps quiet.
Quieted == {"recovered", "hashrate", "pool", "pool-reconnected", "pool-switch", "shares"}

ASSUME MemoryAssumption == NoMemory \notin Memory

Known(prior) == prior # NoMemory

ChipStateOptimistic(r, reasons) ==
  IF r.api /\ r.chips # "none" /\ reasons \cap ChipFaults # {} THEN "degraded" ELSE "healthy"

ChipState(r, reasons) ==
  CASE r.api /\ r.chips # "none" /\ reasons \cap ChipFaults # {} -> "degraded"
    [] r.api /\ r.chips = "healthy" /\ reasons \cap ChipFaults = {} -> "healthy"
    [] OTHER -> "unknown"

\* The miner or its pool connection was already down when it was last evaluated.
StillOffline(prior) == Known(prior) /\ ~ prior.online /\ prior.offlineSince
SamePool(prior, r) == Known(prior) => r.pool = prior.pool
StillDisconnected(prior, r) == Known(prior) /\ prior.poolSince /\ SamePool(prior, r)
WasPoolAlerted(prior, r) == Known(prior) /\ prior.poolAlerted /\ SamePool(prior, r)
WasChipDegraded(prior) == Known(prior) /\ prior.chipDegraded

\* The grace periods that begin with this evaluation.
Begins(prior, r) ==
  {g \in {"offline", "pool"} :
     \/ g = "offline" /\ ~ r.api /\ ~ StillOffline(prior)
     \/ g = "pool" /\ r.api /\ r.connected = "no" /\ ~ StillDisconnected(prior, r)}

\* Whether the reading calls for an alert, with the grace periods still running.
Due(alert, prior, r, reasons, grace) ==
  /\ alert \in Quieted => ~ (r.armed /\ r.quiet)
  /\ IF alert = "offline" THEN ~ r.api ELSE r.api
  /\ CASE alert = "offline" -> "offline" \notin grace
       [] alert = "recovered" -> Known(prior) /\ ~ prior.online /\ prior.offlineAlerted
       [] alert = "hashrate" -> "hashrate_below_expected" \in reasons /\ Slow(r)
       [] alert = "temp-critical" -> "asic_temperature_critical" \in reasons /\ Hot(r, Limits.critical)
       [] alert = "temp-warning" ->
            /\ "asic_temperature_warning" \in reasons /\ Hot(r, Limits.warm)
            /\ ~ ("asic_temperature_critical" \in reasons /\ Hot(r, Limits.critical))
       [] alert = "chip-health" ->
            ChipState(r, reasons) = "degraded" /\ ~ WasChipDegraded(prior) /\ ~ r.armed
       [] alert = "chip-health-recovered" ->
            ChipState(r, reasons) = "healthy" /\ WasChipDegraded(prior) /\ ~ r.armed
       [] alert = "pool" -> r.connected = "no" /\ "pool" \notin grace /\ ~ WasPoolAlerted(prior, r)
       [] alert = "pool-reconnected" -> r.connected = "yes" /\ Known(prior) /\ prior.poolAlerted
       [] alert = "pool-switch" ->
            Known(prior) /\ prior.pool # NoPool /\ r.pool # NoPool /\ r.pool # prior.pool
       [] alert = "shares" -> Known(prior) /\ r.bad > prior.bad
       [] alert = "block-found" -> Known(prior) /\ r.blocks > prior.blocks
       [] alert = "best" -> Reported(r.best)

\* The alerts an evaluation may raise; a new best is only looked at when it is reached.
Planned(prior, r, reasons, grace) == {alert \in Alerts : Due(alert, prior, r, reasons, grace)}

\* What is remembered, as far as the alerts still to be raised do not change it.
Remembered(prior, r, reasons) ==
  [online |-> r.api,
   offlineSince |-> ~ r.api,
   offlineAlerted |-> ~ r.api /\ Known(prior) /\ prior.offlineAlerted,
   pool |-> r.pool,
   poolSince |-> r.api /\ (IF r.connected = "unknown" THEN Known(prior) /\ prior.poolSince
                                                     ELSE r.connected = "no"),
   poolAlerted |->
     /\ r.api
     /\ CASE r.connected = "unknown" -> Known(prior) /\ prior.poolAlerted
          [] r.connected = "no" -> WasPoolAlerted(prior, r)
          [] r.connected = "yes" -> FALSE,
   chipDegraded |->
     IF ChipState(r, reasons) = "unknown" THEN WasChipDegraded(prior)
                                          ELSE ChipState(r, reasons) = "degraded",
   bad |-> r.bad,
   blocks |-> r.blocks]

NotedForgotten(memory, alert) == [memory EXCEPT !.poolAlerted = @ \/ alert = "pool"]

\* The alert was raised.
Noted(memory, alert) ==
  [memory EXCEPT !.offlineAlerted = @ \/ alert = "offline", !.poolAlerted = @ \/ alert = "pool"]
=============================================================================
