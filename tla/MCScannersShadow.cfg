SPECIFICATION Spec
CONSTANTS
  Hosts <- MCHosts
  Fixtures <- MCFixtures
  Policies <- MCPolicies
  MaxChanges = 1
INVARIANTS
  ShadowRulesErrorWithoutShadow
