SPECIFICATION Spec
CONSTANTS
  Addresses = {"a1", "a2", "a3", "b", "vm"}
  Edges <- MCEdges
  Book = {"b"}
  Remembered = 2
  Senders = {"a1", "b"}
  Vm = "vm"
  Contract = "a3"
  Quotes <- MCQuotes
  Maxima = {5, 60}
  Heads = {0, 4}
  Cap = 60
  DeployPrice = 20
  BandFloor = 2
  BandCeiling = 4
  NativeMeter = 1
  MaxMeter = 2
  MaxDeployMeter = 3
  MaxCallArgs = 1
  Validity = 2
  MaxValidity = 2
  MaxHead = 4
  MaxLifetime = 1
INVARIANTS
  TypeOK
  OnlyUsedIsRemembered
  SignedIsPriced
  QuotedIsSignable
PROPERTY LookalikesRefused
