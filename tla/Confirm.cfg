SPECIFICATION Spec
CONSTANTS
  Bits = 5
  Txs = {"pay", "call1", "pay2", "call2", "revert", "gift", "gone"}
  ContractCalls = {"call1", "call2", "revert"}
  Chain <- MCChain
  Topics = {"order", "fill"}
  Data = {1, 2}
  AnyData = AnyData
  None = None
  Chains = {"real", "main"}
  RealChain = "real"
  Mainnets = {"main"}
  Networks <- MCNetworks
  GivenEpoch = {0, 1}
  MaxIndex = 4
  MaxEvents = 3
INVARIANTS
  StatusIsProved
  EventIsProven
  HonestGatewayIsBelieved
  PositionsFitSomeTree
