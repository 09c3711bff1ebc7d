SPECIFICATION FairSpec
CONSTANTS
  MaxNonce = 1
  Threads = {t1, t2}
  AccountKeys = {acct}
  OrderKeys = {}
  Hooked = {t1}
  Keeps = TRUE
INVARIANTS
  TypeOK
  OneSignaturePerUnnamedNonce
  ReservationHasOwner
PROPERTIES
  HoldsAreForgottenSafely
  ReservationsAreFreed
