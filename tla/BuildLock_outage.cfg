\* Renewals may be lost for longer than the key lives: two builders are then
\* possible, and this run checks what still holds.
CONSTANTS
  n1 = n1
  n2 = n2
  Node = {n1, n2}
  NoNode = NoNode
  TTL = 3
  Period = 1
  Jitter = 1
  MaxGap = 5
  WaitTimeout = 6
  MaxFaults = 3
SPECIFICATION FairSpec
PROPERTIES OnlyHolderTouches WaitersLeave EveryoneServes
