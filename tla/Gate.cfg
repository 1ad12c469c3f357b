SPECIFICATION Spec
CONSTANTS
  ann = ann
  bob = bob
  ops = ops
  lab = lab
  team = team
  Users <- MCUsers
  Channels <- MCChannels
  Namespaces <- MCNamespaces
  Team = team
  AllowDMs = FALSE
  Capacity = 2
  Hour = 3
  Policies <- MCPolicies
  Requests <- MCRequests
  MaxEdits = 2
  MaxTime = 3
INVARIANTS
  RateBound
  DecidesOnPolicyOnDisk
PROPERTIES
  RefusedOnlyWhenSpent
