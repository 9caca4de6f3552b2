SPECIFICATION CFairSpec
CONSTANTS
  New = New
  Kinds = {"cluster", "namespaced"}
  Publishers = {"cluster", "namespaced", New}
  Consumers = {c1}
  MaxVersion = 1
  MaxFailures = 1
  Values <- MCValues
  First <- MCFirst
  Nobody = Nobody
  Empty = Empty
INVARIANTS
  SoloRebuildRepairs
PROPERTY
  ChangeIsPublished
