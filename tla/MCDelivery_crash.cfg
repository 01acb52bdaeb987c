\* Two events, a group of two consumers that may lose their memory at any time, and
\* a dispatcher.
SPECIFICATION DSpec
CONSTANTS
  e1 = e1  e2 = e2  c1 = c1  c2 = c2  d1 = d1  d2 = d2
  Events = {e1, e2}
  Consumers = {c1, c2}
  Dispatchers = {d1}
  MaxRetries = 2
  MaxMessages = 2
  SteadyConsumers = {}
  SteadyDispatchers = {d1}
SYMMETRY Symmetry
INVARIANTS
  HandledOnce
  LossLeavesTrace
PROPERTY
  ImplementsHandover
\* every event may have been delivered for good
CHECK_DEADLOCK FALSE
