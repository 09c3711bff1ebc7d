SPECIFICATION Spec
CONSTANTS
  None = None
  Chains = {"dev1", "dev2", "test", "main", "old"}
  Mainnets = {"main"}
  Publics = {"test", "main"}
  Retired = {"old"}
  Geneses = {"gd", "gt", "gm"}
  Networks <- MCNetworks
  RealNetworks <- MCRealNetworks
INVARIANTS
  GuardInv
  OneChain
  PublicIsProven
  TrustBindsSignatures
  MainnetIsMeant
