----------------------------- MODULE MCPoolFeed -----------------------------
EXTENDS PoolFeed

Difficult(header) == header
Answers == {6}
Candidate(row) == IF row = 1 THEN 1 ELSE 2
=============================================================================
