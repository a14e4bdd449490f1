CONSTANTS
  r1 = r1
  c1 = c1
  c2 = c2
  k1 = k1
  Runners = {r1}
  Callers = {c1, c2, k1}
  OwnerOf <- MCOwnerOf
  HomeOf <- MCHomeOf
  Cron = {1, 2, 4}
  CatchUp = TRUE
  LeaseTime = 2
  Timely = {r1, c1, c2}
  MaxMinute = 4
  MaxFence = 4
  MaxCrashes = 1
SPECIFICATION LeaseSpec
INVARIANTS OneTick
PROPERTIES NewestKeeps ReportsInOrder SlotsAdvance
