\* Valkey goes away and nothing else fails.
CONSTANTS
  n1 = n1
  n2 = n2
  Node = {n1, n2}
  NoNode = NoNode
  FaultKinds = {"outage"}
  MaxFaults = 1
SPECIFICATION DarkSpec
PROPERTY BuildsWithoutValkey
CHECK_DEADLOCK FALSE
