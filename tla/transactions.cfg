\* Three closures over two connections, any mix of calls, timeouts, failing
\* statements and kills.
SPECIFICATION TxFairSpec
CONSTANTS
  EndpointIds = {ep1}
  Keys = {k1, k2}
  None = None
  MaxEvents = 2
  MaxFaults = 0
  Callers = {c1, c2, c3}
  PoolSize = 2
  MaxCalls = 4
INVARIANTS
  NothingLeaks
  SomebodyProceeds
PROPERTIES
  TransactionsAreAtomic
  CallsReturn
