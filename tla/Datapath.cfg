SPECIFICATION Spec
CONSTANTS
  AddrBits = 2
  Sockets <- MCSockets
  Payloads <- MCPayloads
  MapStates <- MCMapStates
  Policies <- MCPolicies
  PodTable <- MCPodTable
  SkippedCidrs <- MCSkippedCidrs
  SkippedSuffixes <- MCSkippedSuffixes
  DNSPort = 53
  RingSize = 2
  MaxPackets = 3
INVARIANTS DenialsAccounted LoggedFaithfully HarmlessUnlessEnforcing
