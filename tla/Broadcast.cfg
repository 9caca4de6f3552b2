SPECIFICATION FairSpec
CONSTANTS
  Publishers = {w1, w2}
  Consumers = {c1, c2}
  Values = {p0, p1}
  First = p0
  Nobody = Nobody
  Empty = Empty
INVARIANTS
  LastBroadcastReaches
PROPERTIES
  KeepsContract
  BroadcastEnds
