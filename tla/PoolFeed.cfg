SPECIFICATION Spec
CONSTANTS
  MaxBlocks = 3
  MaxTime = 1
  MaxFound = 3
  Headers = {1, 2}
  Kept = 1
  Difficulty <- Difficult
  Confirmations <- Answers
  RpcError = RpcError
  Unlisted = Unlisted
  Shown = 1
  Identity <- Candidate
  Restarts = TRUE
  Edits = TRUE
  Nothing = Nothing
INVARIANTS TypeOK NewestKept ClearedForGood FileCurrent RecordHolds
PROPERTIES BlocksAnnounced AnnouncedOnce
CHECK_DEADLOCK FALSE
