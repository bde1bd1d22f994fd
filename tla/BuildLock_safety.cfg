\* Ten-second units: a 60 s key, a 20 s ticker, one lost renewal, and a
\* waiter deadline beyond the key's life.
CONSTANTS
  n1 = n1
  n2 = n2
  n3 = n3
  Node = {n1, n2, n3}
  NoNode = NoNode
  TTL = 6
  Period = 2
  Jitter = 1
  MaxGap = 2
  WaitTimeout = 8
  MaxFaults = 3
SPECIFICATION Spec
SYMMETRY Symmetry
INVARIANTS TypeOK AtMostOneBuilder HeartbeatInv
PROPERTY ImplementsOneBuilder
