SPECIFICATION Spec
CONSTANTS
  AddrBits = 2
  ClusterNames = {1}
  ClusterSpecs <- NodeBlock
  TenantNames <- MCTenantNames
  TenantSpecs <- TenantAllow
  FilePolicies <- MCFilePolicies
  PodTable <- MCPodTable
  Ports = {1, 2}
  Domains <- MCDomains
INVARIANT ClusterRulesPrevail
