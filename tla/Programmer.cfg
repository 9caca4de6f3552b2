SPECIFICATION PFairSpec
CONSTANTS
  AddrBits = 2
  MaxFaults = 1
  Policies <- MCPolicies
  PodTables <- MCPodTables
INVARIANTS
  NoOrphans
  AppliedExactly
  NoGap
  PInv
PROPERTIES
  SelfHeals
  RewalkIsInvisible
