CONSTANTS
  Names <- MCNames
  Files = {"f"}
  Requests <- MCRequests
  Worked <- MCWorked
  MaxAttempts = 1
  MaxTrouble = 2
  MaxActs = 2
  Parts = {}
SPECIFICATION GoalFairSpec
INVARIANTS GoalTypeOK PlansSound ReplanBudget
PROPERTIES VerdictNotOlder GoalSettles
CHECK_DEADLOCK FALSE
