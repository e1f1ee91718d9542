---------------------------- MODULE MCHashMonitor ----------------------------
EXTENDS HashMonitor

CONSTANTS p1, p2

\* Minimum 4 TH/s; 70 and 90 degrees.
MCLimits == [minimum |-> 4, warm |-> 70, critical |-> 90]

Fine ==
  [api |-> TRUE, hashrate |-> 5, expected |-> Unreported, errors |-> 0, temp |-> 60,
   chips |-> "healthy", pool |-> p1, connected |-> "yes", bad |-> 0, blocks |-> 0, best |-> Unreported,
   curtailed |-> FALSE, armed |-> FALSE, quiet |-> FALSE]

\* Chips do not respond.
Broken == [Fine EXCEPT !.chips = "failed"]
\* A board is being restarted, and the miner uses its other pool.
Restarting == [Fine EXCEPT !.chips = "unknown", !.pool = p2, !.armed = TRUE, !.quiet = TRUE]

\* The miner finds a block with its best share.
Lucky == [Fine EXCEPT !.blocks = 1, !.best = 1]

OutcomeReadings == {NoAnswer, Fine, Lucky}
FewReadings == {NoAnswer, Fine, Broken, Restarting}
CountReadings == {NoAnswer, [Fine EXCEPT !.blocks = 1], Fine}
=============================================================================
