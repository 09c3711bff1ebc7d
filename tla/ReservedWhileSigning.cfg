SPECIFICATION Spec
CONSTANTS
  MaxNonce = 1
  Threads = {t1, t2}
  AccountKeys = {acct}
  OrderKeys = {}
  Hooked = {t1, t2}
  Keeps = FALSE
SYMMETRY ThreadSymmetry
INVARIANTS
  ReservationCoversSigning
