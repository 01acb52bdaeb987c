\* Two dangerous tool calls of one turn, decided up to twice, with one failure of the
\* broker or the database.  All calls may have ended.
SPECIFICATION PFairSpec
CONSTANTS
  c1 = c1  c2 = c2  p1 = p1  p2 = p2
  Calls = {c1, c2}
  Polls = {p1, p2}
  NoPoll = NoPoll
  MaxDecisions = 2
  MaxFaults = 1
INVARIANTS
  RunsOnlyIfApproved
PROPERTIES
  DecisionIsHeard
  WaitEnds
CHECK_DEADLOCK FALSE
