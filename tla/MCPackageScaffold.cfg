SPECIFICATION MCSpec
CONSTANTS
  p1 = p1
  p2 = p2
  None = None
  Partial = Partial
  Procs = {p1, p2}
  PlanFiles = {"plan.json"}
  Paths = {"contexts", "platform", "moved"}
  Operations = 2
  Catalogs <- MCCatalogs
  Policies <- MCPolicies
  Documents <- MCDocuments
  Configs <- MCConfigs
  MaxEdits = 2
  MaxCommands = 3
CHECK_DEADLOCK FALSE
INVARIANTS
  PlanFilesKept
  
PROPERTIES
  DeferralNoticed
  CanonicalPublished
