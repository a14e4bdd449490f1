CONSTANTS
  a = a
  b = b
  r1 = r1
  r2 = r2
  x = x
  y = y
  NoTask = NoTask
  Tasks = {a}
  Roles = {r1, r2}
  Resources = {x, y}
  RoleOf <- MCRoleOf
  ResourceOf <- MCResourceOf
  DependsOn <- Independent
  Items = {a}
  Candidates = {}
  Overridable = {}
  MaxAttempts = 2
  MaxSameFailure = 1
  MaxParallel = 2
  MaxRuns = 2
  MaxSpec = 1
  Parts = {"watchdog", "suspension", "late_tick"}
  MaxTrouble = 1
SPECIFICATION ServiceSpec
INVARIANTS OneWorking LiveHasRow
PROPERTIES UsesStore CancelConfirmed
