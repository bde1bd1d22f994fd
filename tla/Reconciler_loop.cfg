\* Any three acts of primers, pods, users and GitOps tools, and one failed API
\* call or operator crash, around the loop.
CONSTANTS
  k1 = k1
  k2 = k2
  c1 = c1
  Container = {c1}
  d1 = d1
  d2 = d2
  Key = {k1, k2}
  NoKey = NoKey
  Dir = {d1, d2}
  NoDir = NoDir
  DefaultDir = d1
  Acts = {"publish", "primers", "pods", "create", "revert", "dir", "mode", "delete"}
  MaxActs = 3
  MaxFaults = 1
SPECIFICATION FairSpec
INVARIANTS TypeOK SettledPatched SettledNotFailed
PROPERTIES KeyIsThePrimers ComesToRest
CHECK_DEADLOCK FALSE
