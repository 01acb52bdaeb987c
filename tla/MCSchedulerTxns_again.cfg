\* Two tasks of two attempts each, published twice while they are worked on and
\* retried, with a card that is activated and retired at any moment.
SPECIFICATION TSpec
CONSTANTS
  a = a  b = b  c = c  r1 = r1  r2 = r2  x1 = x1  x2 = x2  x3 = x3  card1 = card1
  s1 = s1  s2 = s2
  Tasks = {a, b}
  Runtimes = {r1}
  ExecIds = {x1, x2}
  Cards = {card1}
  Plans <- AgainPlans
  MaxAttempts = 2
  Selector <- NoSelector
  TypeCards <- OneCard
  NoRuntime = NoRuntime  NoExec = NoExec  NoCard = NoCard
  Slots = {s1, s2}
  Calls = {"publish", "claim", "complete", "fail", "reclaim", "register", "stop"}
SYMMETRY Symmetry
INVARIANTS
  AttemptHistory
  ReadyIsAnnounced
  TasksAgreeWithAttempts
PROPERTIES
  CompletionIsFinal
  ImplementsTaskBoard
