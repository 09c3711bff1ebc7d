SPECIFICATION Spec
CONSTANTS
  Threads = {t1, t2}
  Hooked = {t1}
  Rate = 1
  Slack = 1
  Validity = 2
  MaxHead = 2
  MaxWall = 2
INVARIANTS
  DeadlinesRise
  FloorWithinClock
  TipIsAcceptable
  DeadlinesAreReal
