SPECIFICATION Spec
CONSTANTS
  MaxNonce = 3
  Runs = {r1}
  MaxAlive = 1
INVARIANTS
  SubmittedOnce
  SentIsOnFile
PROPERTIES
  FileNeverForgets
