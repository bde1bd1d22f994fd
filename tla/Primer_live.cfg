\* Two primers, any two faults: the rollout completes.
CONSTANTS
  n1 = n1
  n2 = n2
  Node = {n1, n2}
  NoNode = NoNode
  FaultKinds = {"crash", "term", "gone", "build", "net", "damage", "expire", "outage", "loss"}
  MaxFaults = 3
SPECIFICATION FairSpec
PROPERTY EveryoneServes
CHECK_DEADLOCK FALSE
