SPECIFICATION Spec
CONSTANTS
  UnitsPerSecond = 1
  Dumps <- MCDumps
  Contexts <- MCContexts
  Items <- MCItems
  Policies <- MCPolicies
  Deeds <- MCDeeds
  Jitters <- MCJitters
  Scripts <- MCScripts
  MaxPlans = 2
\* Every run ends, so the system stops.
CHECK_DEADLOCK FALSE
INVARIANTS
  RetryIsRetained
