SPECIFICATION FairSpec
CONSTANTS
  Poll = Poll
  Zmq = Zmq
  Diffs = {1, 2}
  DefaultDiff = 1
  MinShares = 2
  Scenarios <- Explored
INVARIANTS TypeOK ToldDifficulty VardiffTracks
PROPERTIES QueuedTakesEffect PendingDelivered
