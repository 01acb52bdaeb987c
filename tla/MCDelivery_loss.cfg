\* One event, one consumer that may lose its memory.
SPECIFICATION DFairSpec
CONSTANTS
  e1 = e1  e2 = e2  c1 = c1  c2 = c2  d1 = d1  d2 = d2
  Events = {e1}
  Consumers = {c1}
  Dispatchers = {d1}
  MaxRetries = 2
  MaxMessages = 1
  SteadyConsumers = {}
  SteadyDispatchers = {d1}
PROPERTIES
  PublishedIsHandled
\* every event may have been delivered for good
CHECK_DEADLOCK FALSE
