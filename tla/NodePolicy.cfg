SPECIFICATION Spec
CONSTANTS
  AddrBits = 2
  ClusterNames = {1, 2}
  ClusterSpecs <- MCClusterSpecs
  TenantNames <- MCTenantNames
  TenantSpecs <- MCTenantSpecs
  FilePolicies <- MCFilePolicies
  PodTable <- MCPodTable
  Ports = {1, 2}
  Domains <- MCDomains
INVARIANTS
  AggregateIsValid
  AggregateKeepsMeaning
  FlattenKeepsMeaning
  TenantIsolation
  DatapathMatchesEngine
