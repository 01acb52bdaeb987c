\* One task, published up to twice; a worker that may be killed
\* and interrupted and whose calls may raise, before their commit or after it,
\* beside a steady one; two shutdown commands, to either.
SPECIFICATION WSpec
CONSTANTS
  a = a  b = b  c = c  r1 = r1  r2 = r2  x1 = x1  x2 = x2  card1 = card1
  Tasks = {a}
  Runtimes = {r1, r2}
  ExecIds = {x1, x2}
  Cards = {card1}
  Plans <- SameAgain
  MaxAttempts = 1
  Selector <- NoSelector
  TypeCards <- OneCard
  NoRuntime = NoRuntime  NoExec = NoExec  NoCard = NoCard
  Steady = {r2}
  MaxCommands = 2
SYMMETRY Symmetry
INVARIANTS
  TypeOK
  SlotNamesHeldAttempt
  LostAttemptIsNoticed
