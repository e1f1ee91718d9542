--------------------------- MODULE MCConfigStore ---------------------------
EXTENDS ConfigStore, TLC
CONSTANTS m1, m2, m3, p1, p2, here, there, Nowhere
ApiOne == [mode |-> "api", api_url |-> here, log_path |-> Nowhere]
Log == [mode |-> "log", api_url |-> Nowhere, log_path |-> here]
MCMonitors == {ApiOne, Log}
Other == [app |-> [enabled |-> TRUE, acked |-> FALSE], asked |-> FALSE, discord |-> TRUE, hermes |-> TRUE,
          miners |-> <<[id |-> m1, at |-> here], [id |-> m1, at |-> there]>>, pools |-> <<>>]
Form(control, ack, discord, webhook, hermes) ==
  [control |-> control, ack |-> ack, discord |-> discord, webhook |-> webhook, hermes |-> hermes]
MCSent == {Form(TRUE, FALSE, FALSE, "keep", FALSE), Form(TRUE, TRUE, TRUE, "new", FALSE),
           Form(FALSE, FALSE, TRUE, "clear", FALSE), Form(FALSE, FALSE, FALSE, "clear", FALSE),
           Form(FALSE, FALSE, FALSE, "keep", TRUE)}
MCForeign == {Other}
Symmetry == Permutations({m2, m3}) \cup Permutations(PoolIds)
=============================================================================
