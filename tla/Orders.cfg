SPECIFICATION Spec
CONSTANTS
  MaxNonce = 2
  Threads = {t1, t2}
  AccountKeys = {acct}
  OrderKeys = {ord}
  Hooked = {}
  Keeps = FALSE
SYMMETRY ThreadSymmetry
CONSTRAINT AccountsUnnamed
INVARIANTS
  OrderNoncesAreEarned
  SigningInv
PROPERTIES
  RejectedIsNotPassed
  LedgerSpec
