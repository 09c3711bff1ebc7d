SPECIFICATION Spec
CONSTANTS
  MaxNonce = 1
  Runs = {r1, r2}
  MaxAlive = 2
INVARIANTS
  SubmittedOnce
CHECK_DEADLOCK FALSE
