-------------------------- MODULE MCStratumSession --------------------------
EXTENDS StratumSession

Scenario(solo, onNewBlock, zmq, chooses, again) ==
  [solo |-> solo, onNewBlock |-> onNewBlock, zmq |-> zmq, chooses |-> chooses, again |-> again]

\* The delivered configuration, as it is and with a miner that starts over on its connection;
\* mid-block changes with everything else; pool mode.
Explored ==
  { Scenario(TRUE,  TRUE,  TRUE,  TRUE,  FALSE),
    Scenario(TRUE,  TRUE,  TRUE,  TRUE,  TRUE),
    Scenario(TRUE,  FALSE, TRUE,  TRUE,  TRUE),
    Scenario(FALSE, FALSE, FALSE, FALSE, FALSE),
    Scenario(FALSE, TRUE,  TRUE,  FALSE, FALSE) }
=============================================================================
