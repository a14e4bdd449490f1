CONSTANTS
  far = far
  near = near
  pinned = pinned
  free = free
  c1 = c1
  NoProvider = NoProvider
  Providers = {far, near}
  Tasks = {pinned, free}
  Clients = {c1}
  ZoneOf <- MCZones
  Needs <- MCNeeds
  Order <- MCOrder
  First <- MCFirst
  NetworkFailures = 1
  NetworkSuccesses = 2
  ProviderFailures = 2
  ProviderSuccesses = 1
  Batch = 2
  Torn = FALSE
  MaxFlips = 2
  MaxOps = 1
SPECIFICATION ResilienceFairSpec
INVARIANTS OneHalfOpenProbe
PROPERTIES CircuitHeals SuspensionEnds
CHECK_DEADLOCK FALSE
