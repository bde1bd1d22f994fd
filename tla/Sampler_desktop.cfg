\* The desktop report over pods as the operator leaves them.
CONSTANTS
  p1 = p1
  p2 = p2
  p3 = p3
  p4 = p4
  n1 = n1
  n2 = n2
  w1 = w1
  w2 = w2
  jdk1 = jdk1
  jdk2 = jdk2
  jsa = jsa
  Pods <- MCPods
  Nodes = {n1, n2}
  Workloads = {w1, w2}
  WorkloadOf <- MCWorkloadOf
  NodeOf <- MCNodeOf
  Files = {jdk1, jdk2, jsa}
  JdkOf <- MCJdkOf
  ArchiveOf <- MCArchiveOf
  KindsOf <- MCKindsOf
  NoNode = NoNode
  Heap = 5
  Jdk = 24
  Archive = 12
  Cow = 2
  Word = 4096
  MaxChanges = 0
  MaxFaults = 0
SYMMETRY Replicas
SPECIFICATION Spec
INVARIANT EveryWorkloadPod
CHECK_DEADLOCK FALSE
