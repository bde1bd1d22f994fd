\* Any two acts of users or faults, on two nodes: of two architectures in mode
\* Owned, of one in mode Webhook.
CONSTANTS
  n1 = n1
  n2 = n2
  Node = {n1, n2}
  Release = {1, 2}
  FirstRelease = 1
  Profile = {1, 2}
  FirstProfile = 1
  Key <- MCKey
  NoKey = NoKey
  Clusters <- MCClusters
  Starts <- MCStarts
  c1 = c1
  c2 = c2
  Container = {c1, c2}
  d1 = d1
  d2 = d2
  Dir = {d1, d2}
  NoDir = NoDir
  DefaultDir = d1
  Acts = {"release", "profile", "image", "dir", "mode", "pod", "delete"}
  MaxEvents = 2
SPECIFICATION FairSpec
INVARIANTS TypeOK SpecsAreFresh PublishedIsHeld 
PROPERTIES  CurrentKeyWins 
CHECK_DEADLOCK FALSE
