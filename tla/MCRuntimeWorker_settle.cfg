\* A chain of three tasks, the first of up to two attempts and the others
\* without a card, so that they fail when they are claimed; a steady worker and
\* one that may be killed and interrupted and whose calls may raise.
SPECIFICATION FairSpec
CONSTANTS
  a = a  b = b  c = c  r1 = r1  r2 = r2  x1 = x1  x2 = x2  card1 = card1
  Tasks = {a, b, c}
  Runtimes = {r1, r2}
  ExecIds = {x1}
  Cards = {card1}
  Plans <- Chain
  MaxAttempts = 2
  Selector <- NoSelector
  TypeCards <- CardForA
  NoRuntime = NoRuntime  NoExec = NoExec  NoCard = NoCard
  Steady = {r1}
  MaxCommands = 0
PROPERTIES
  AttemptsEnd
  SlotsReturn
  TasksSettle
