CONSTANTS
  a = a
  b = b
  r1 = r1
  r2 = r2
  x = x
  y = y
  NoTask = NoTask
  Tasks = {a}
  Roles = {r1, r2}
  Resources = {x, y}
  RoleOf <- MCRoleOf
  ResourceOf <- MCResourceOf
  DependsOn <- Independent
  Items = {}
  Candidates = {}
  Overridable = {}
  MaxAttempts = 1
  MaxSameFailure = 1
  MaxParallel = 2
  MaxRuns = 1
  MaxSpec = 1
  Parts = {}
  MaxTrouble = 0
SPECIFICATION FairServiceSpec
PROPERTIES StopSettles
