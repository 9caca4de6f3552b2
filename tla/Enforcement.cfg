SPECIFICATION FairSpec
CONSTANTS
  AddrBits = 1
  Policies <- MCPolicies
  Updates <- MCUpdates
  PodTable <- MCPodTable
  PodTables <- MCPodTables
  Answers <- MCAnswers
  Packets <- MCPackets
  MaxFaults = 0
  MaxEntries = 65536
  MinTTL = 0
  MaxTTL = 0
  RingSize = 1
  MaxTime = 1
  MaxGen = 1
  MaxUpdates = 1
INVARIANTS
  EveryVerdictOwned
  StaleIsLearned
PROPERTIES
  VerdictsComeBack
  FailsOpen
