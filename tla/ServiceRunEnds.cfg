CONSTANTS
  a = a
  b = b
  r1 = r1
  r2 = r2
  x = x
  y = y
  NoTask = NoTask
  Tasks = {a, b}
  Roles = {r1, r2}
  Resources = {x, y}
  RoleOf <- MCRoleOf
  ResourceOf <- MCResourceOf
  DependsOn <- Independent
  Items = {}
  Candidates = {}
  Overridable = {}
  MaxAttempts = 1
  MaxSameFailure = 1
  MaxParallel = 2
  MaxRuns = 2
  MaxSpec = 1
  Parts = {"give_up", "torn_end"}
  MaxTrouble = 1
SPECIFICATION FairServiceSpec
CONSTRAINTS StoppedBeside FewRuns Unattended
PROPERTIES RunEnds
