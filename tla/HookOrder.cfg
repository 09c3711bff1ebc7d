SPECIFICATION DurableSpec
CONSTANTS
  MaxNonce = 0
  Threads = {t1, t2}
  AccountKeys = {acct1, acct2}
  OrderKeys = {}
  Hooked = {t1, t2}
  Keeps = FALSE
INVARIANT SentOnce
