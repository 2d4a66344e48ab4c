SPECIFICATION RetrySpec
CONSTANTS
  d1 = d1
  d2 = d2
  recovery = recovery
  p1 = p1
  p2 = p2
  Dispatchers = {d1, d2}
  Offline = {recovery}
  Processes = {p1, p2}
  ProcessOf <- TwoProcesses
  Invocations = {i1, i2}
  Operations = {op}
  NoOne = NoOne
  StopCall = StopCall
INVARIANTS OnlyTheOwnerActs WorkKeepsItsRoot
           OwnerReachable RunsWhereAddressed StopComesLast
PROPERTIES StopReturns DrainingReleases
CHECK_DEADLOCK FALSE
