CONSTANTS
  s1 = s1
  s2 = s2
  c1 = c1
  c2 = c2
  Starters = {s1, s2}
  Cancels = {c1, c2}
  Faults = {}
  MaxCrashes = 2
SPECIFICATION FairBridgeSpec
INVARIANTS OneProcess FinalMeansGone
PROPERTIES KeepsPromise VerdictStays CancelKept JobSettles
