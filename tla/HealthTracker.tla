---------------------------- MODULE HealthTracker ----------------------------
(***************************************************************************)
(* HealthEngine (pocisys-hash-monitor/services/health.py): what one        *)
(* reading of a miner's API says about it, and the tracker that confirms a *)
(* fault over several readings before it calls the miner Warning or        *)
(* Unhealthy, and a recovery before it calls it Healthy again.             *)
(*                                                                         *)
(* Abstractions.  A miner reports one chip group.  Percentages and         *)
(* temperatures are whole numbers.  Labels, diagnostics and the log of     *)
(* transitions are left out.  Counts stop where they stop to matter.       *)
(***************************************************************************)
EXTENDS Integers

CONSTANTS
  Unreported,   \* a value the API does not report
  Limits        \* the miner's entry: minimum, warm and critical, each a number or Unreported

WarningConfirmations == 2     \* HEALTH_THRESHOLDS
UnhealthyConfirmations == 3
RecoveryConfirmations == 2
ErrorsWarning == 2
ErrorsUnhealthy == 5

\* A chip group: none reported, no known state, a board turned off with chips that do not
\* respond, healthy, a warning, a warning for a score alone, chips that failed.
ChipStates == {"none", "unknown", "off", "healthy", "warning", "score_low", "failed"}

ChipFaults == {"chip_not_responding", "chip_score_low", "chip_warning"}
FaultCodes ==
  ChipFaults \cup {"hashrate_below_expected", "high_hardware_error_rate",
                   "asic_temperature_critical", "asic_temperature_warning"}
ReasonCodes == FaultCodes \cup {"recovery_pending", "api_offline"}

Alarming == {"Warning", "Unhealthy"}
HealthStates == Alarming \cup {"Unknown", "Healthy", "Offline"}

Reported(v) == v # Unreported

\* A quarter of Threshold(r) is the hashrate below which the miner is slow: the configured
\* minimum, or 75 % of what the device expects of its current profile.
HasThreshold(r) == Reported(Limits.minimum) \/ Reported(r.expected)
Threshold(r) == IF Reported(Limits.minimum) THEN 4 * Limits.minimum ELSE 3 * r.expected

Slow(r) == Reported(r.hashrate) /\ HasThreshold(r) /\ 4 * r.hashrate < Threshold(r)
Crawling(r) == 16 * r.hashrate <= Threshold(r)
Hot(r, limit) == Reported(r.temp) /\ Reported(limit) /\ r.temp >= limit

\* The candidates of a reading, by severity.
SevereFaults(r) ==
  {c \in FaultCodes :
     \/ c = "hashrate_below_expected" /\ Slow(r) /\ Crawling(r) /\ ~ r.curtailed
     \/ c = "high_hardware_error_rate" /\ Reported(r.errors) /\ r.errors >= ErrorsUnhealthy
     \/ c = "asic_temperature_critical" /\ Hot(r, Limits.critical)
     \/ c = "chip_not_responding" /\ (r.chips = "failed" \/ (r.chips = "off" /\ ~ r.curtailed))}
MildFaults(r) ==
  {c \in FaultCodes :
     \/ c = "hashrate_below_expected" /\ Slow(r) /\ ~ Crawling(r) /\ ~ r.curtailed
     \/ c = "high_hardware_error_rate" /\ Reported(r.errors) /\ r.errors \in ErrorsWarning..(ErrorsUnhealthy - 1)
     \/ c = "asic_temperature_warning" /\ Hot(r, Limits.warm) /\ ~ Hot(r, Limits.critical)
     \/ c = "chip_score_low" /\ r.chips = "score_low"
     \/ c = "chip_warning" /\ r.chips = "warning"}
Candidates(r) == SevereFaults(r) \cup MildFaults(r)

\* The reading says something the tracker understands.
Supported(r) ==
  \/ Reported(r.hashrate) \/ Reported(r.errors) \/ Reported(r.temp)
  \/ r.chips \notin {"none", "unknown"}

Tracker == [state : HealthStates, counts : [FaultCodes -> 0..UnhealthyConfirmations],
            good : 0..RecoveryConfirmations, reasons : SUBSET ReasonCodes]

NoCounts == [c \in FaultCodes |-> 0]
NewTracker == [state |-> "Unknown", counts |-> NoCounts, good |-> 0, reasons |-> {}]

UpTo(bound, n) == IF n > bound THEN bound ELSE n

CountedKept(t, r) ==
  [c \in FaultCodes |->
     IF c \in Candidates(r) THEN UpTo(UnhealthyConfirmations, t.counts[c] + 1) ELSE t.counts[c]]

Counted(t, r) ==
  [c \in FaultCodes |->
     IF c \in Candidates(r) THEN UpTo(UnhealthyConfirmations, t.counts[c] + 1) ELSE 0]
Good(t, r) == IF Candidates(r) = {} THEN UpTo(RecoveryConfirmations, t.good + 1) ELSE 0

\* The state a reading leads to, with its reasons.
Judgement(t, r) ==
  LET counts == Counted(t, r)
      warned == {c \in FaultCodes : counts[c] >= WarningConfirmations}
      severe == {c \in SevereFaults(r) : counts[c] >= UnhealthyConfirmations}
      settled == [state |-> IF Supported(r) THEN "Healthy" ELSE "Unknown", reasons |-> {}]
  IN  CASE severe # {} -> [state |-> "Unhealthy", reasons |-> severe \cup warned]
        [] severe = {} /\ warned # {} -> [state |-> "Warning", reasons |-> warned]
        [] warned = {} /\ Candidates(r) # {} ->
             IF t.state \in Alarming THEN [state |-> t.state, reasons |-> t.reasons] ELSE settled
        [] Candidates(r) = {} ->
             IF t.state \in Alarming /\ Good(t, r) < RecoveryConfirmations
               THEN [state |-> t.state, reasons |-> {"recovery_pending"}] ELSE settled

\* evaluate
Judge(t, r) ==
  IF ~ r.api
    THEN [state |-> "Offline", counts |-> NoCounts, good |-> 0, reasons |-> {"api_offline"}]
    ELSE [state |-> Judgement(t, r).state, counts |-> Counted(t, r), good |-> Good(t, r),
          reasons |-> Judgement(t, r).reasons]
=============================================================================
