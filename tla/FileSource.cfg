SPECIFICATION FFairSpec
CONSTANTS
  Watch = Watch
  Publishers = {Watch}
  Consumers = {c1, c2}
  Values = {0, 1, 2, 3}
  MaxWrites = 3
  First = 0
  Nobody = Nobody
  Empty = Empty
INVARIANTS
  SnapshotIsLastSent
PROPERTIES
  NeverBackwards
  HotReload
