\* One event, a group of two consumers that keep their memory and take up to two
\* copies at a time, and two dispatchers, of which one may die.
SPECIFICATION DFairSpec
CONSTANTS
  e1 = e1  e2 = e2  c1 = c1  c2 = c2  d1 = d1  d2 = d2
  Events = {e1}
  Consumers = {c1, c2}
  Dispatchers = {d1, d2}
  MaxRetries = 2
  MaxMessages = 2
  SteadyConsumers = {c1, c2}
  SteadyDispatchers = {d1}
PROPERTIES
  RowStatusIsFinal
  RowsSettle
  PublishedIsHandled
\* every event may have been delivered for good
CHECK_DEADLOCK FALSE
