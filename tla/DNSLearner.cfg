SPECIFICATION LFairSpec
CONSTANTS
  AddrBits = 1
  Policies <- MCPolicies
  PodTable <- MCPodTable
  Answers <- MCAnswers
  MinTTL = 1
  MaxTTL = 2
  MaxEntries = 1
  MaxTime = 2
  MaxGen = 1
INVARIANTS
  NothingUntracked
  OldVerdictsExpire
  SmallestTTLUsed
PROPERTIES
  OnlyUnrecordedSweptEarly
  ExpiredIsSwept
