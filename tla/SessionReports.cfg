CONSTANTS
  a = a
  b = b
  p = p
  q = q
  Tasks = {a}
  Providers = {p}
  MaxSpec = 2
  MaxGen = 3
SPECIFICATION SessionSpec
INVARIANTS SuccessorTakesOver
