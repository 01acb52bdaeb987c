\* One task published again while it is worked on, by a worker that never fails.
SPECIFICATION FairSpec
CONSTANTS
  a = a  b = b  c = c  r1 = r1  r2 = r2  x1 = x1  x2 = x2  card1 = card1
  Tasks = {a}
  Runtimes = {r1}
  ExecIds = {x1, x2}
  Cards = {card1}
  Plans <- SameAgain
  MaxAttempts = 1
  Selector <- NoSelector
  TypeCards <- OneCard
  NoRuntime = NoRuntime  NoExec = NoExec  NoCard = NoCard
  Steady = {r1}
  MaxCommands = 0
PROPERTIES
  AttemptsEnd
