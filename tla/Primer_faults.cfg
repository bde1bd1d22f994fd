\* Three primers, two process, build or transfer faults; Valkey stays.
CONSTANTS
  n1 = n1
  n2 = n2
  n3 = n3
  Node = {n1, n2, n3}
  NoNode = NoNode
  FaultKinds = {"crash", "term", "build", "net", "damage"}
  MaxFaults = 2
SPECIFICATION Spec
SYMMETRY Symmetry
INVARIANTS TypeOK AtMostOneBuilder NoBlindPull SoundArchives EtalonHeld ServingIsListed
PROPERTY ImplementsOneBuilder
CHECK_DEADLOCK FALSE
