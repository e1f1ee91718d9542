-------------------------- MODULE MCLuxOSControl --------------------------
EXTENDS LuxOSControl

CONSTANT r1

OneBoard == {0}
TwoBoards == {0, 1}
TwoLevels == {1, 2}

Config(manual, schedule, recover, mode, normal) ==
  [global |-> TRUE, enabled |-> TRUE, manual |-> manual, schedule |-> schedule,
   recover |-> recover, mode |-> mode, normal |-> normal, curtailed |-> 1]

Scheduled == Config(TRUE, TRUE, FALSE, "profile", 2)
\* The curtailed profile is above the normal one, and may not be set.
Capped == [Config(TRUE, FALSE, FALSE, "profile", 1) EXCEPT !.curtailed = 2]
Recovering == Config(TRUE, FALSE, TRUE, "profile", 2)
Sleeping == Config(FALSE, TRUE, FALSE, "boards_off", 2)
Removed(c) == [c EXCEPT !.enabled = FALSE]

\* A miner is not monitored for a while.
Explored == {Scheduled, Capped, Recovering, Sleeping, Removed(Capped)}
Changes == {<<Capped, Removed(Capped)>>, <<Removed(Capped), Capped>>}
Asked ==
  {<<Scheduled, "low">>, <<Recovering, "low">>}
    \cup {Capped} \X {"low", "board_off"}

SleepOnly == {Sleeping}
None == {}
=============================================================================
