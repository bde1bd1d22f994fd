\* Two overlapping ticks, two addresses, one ClassCache with two phases, one
\* archive with one peer at most; any two changes of the world or the settings.
CONSTANTS
  a1 = a1
  a2 = a2
  c1 = c1
  k1 = k1
  Addr = {a1, a2}
  FirstAddr = a1
  CC = {c1}
  Phase = {"Pending", "Ready"}
  NoPhase = NoPhase
  Key = {k1}
  Nobody = Nobody
  NoTick = NoTick
  NoDiag = NoDiag
  MaxPeers = 1
  Slot = {1, 2}
  MaxEvents = 2
SPECIFICATION FairSpec
INVARIANTS TypeOK OldDataIsFlagged LogMatchesView
PROPERTIES StaysWithSettings TruthStays SettlesOnTruth StripSettles
