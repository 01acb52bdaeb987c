\* Two workers and the two blockers of a third task: every call but
\* stop_runtime, two transactions at a time.
SPECIFICATION TSpec
CONSTANTS
  a = a  b = b  c = c  r1 = r1  r2 = r2  x1 = x1  x2 = x2  x3 = x3  card1 = card1
  s1 = s1  s2 = s2
  Tasks = {a, b, c}
  Runtimes = {r1, r2}
  ExecIds = {x1, x2, x3}
  Cards = {card1}
  Plans <- JoinPlan
  MaxAttempts = 1
  Selector <- NoSelector
  TypeCards <- OneCard
  NoRuntime = NoRuntime  NoExec = NoExec  NoCard = NoCard
  Slots = {s1, s2}
  Calls = {"publish", "claim", "start", "complete", "fail", "cancel", "finish", "reclaim", "register", "renew"}
SYMMETRY Symmetry
INVARIANTS
  RuntimesAgreeWithAttempts
  BlockedCountIsExact
  StartedAfterBlockers
PROPERTIES
  Serializable
