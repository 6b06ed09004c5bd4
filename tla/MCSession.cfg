SPECIFICATION Spec
CONSTANTS
  TenantLists <- MCTenantLists
  ProjectLists <- MCProjectLists
  DefaultTenant = "490"
  DefaultProject = "645-Uniswap"
  FirstProject = "645"
  MaxCalls = 3
  MaxActs = 4
  None = None
INVARIANTS Mirror ProjectListed ListsOfTenant LogoutForgets
CHECK_DEADLOCK FALSE
