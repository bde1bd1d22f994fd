\* The ClassCache is declared first, the workload afterwards.
CONSTANTS
  k1 = k1
  k2 = k2
  c1 = c1
  Container = {c1}
  d1 = d1
  d2 = d2
  Key = {k1, k2}
  NoKey = NoKey
  Dir = {d1, d2}
  NoDir = NoDir
  DefaultDir = d1
  Acts = {"publish", "primers", "create"}
  MaxActs = 3
  MaxFaults = 0
SPECIFICATION Spec
INVARIANT PatchedWhenItExists
CHECK_DEADLOCK FALSE
