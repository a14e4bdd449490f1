CONSTANTS
  a = a
  b = b
  c = c
  r1 = r1
  r2 = r2
  x = x
  y = y
  NoTask = NoTask
  Roles = {r1, r2}
  Resources = {x, y}
  RoleOf <- MCRoleOf
  ResourceOf <- MCResourceOf
  Tasks = {a, b, c}
  DependsOn <- BAfterA
  Items = {a, b}
  Candidates = {a}
  Overridable = {a}
  MaxAttempts = 1
  MaxSameFailure = 1
  MaxParallel = 2
  MaxRuns = 2
  MaxSpec = 2
SPECIFICATION StoreSpec
INVARIANTS TypeOK ResourceExclusion ResumedOnce WorkerServesOne InFlightBound
CONSTRAINTS FewClaims OneEdit
PROPERTIES TerminalUnlessOverridden
