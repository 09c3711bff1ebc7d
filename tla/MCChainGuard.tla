----------------------------- MODULE MCChainGuard -----------------------------
(* Two private chains, the testnet, mainnet and a retired name, with three   *)
(* genesis hashes; every kind of network a Client is opened with.            *)
EXTENDS ChainGuard

Net(chain, mainnet, genesis, roster, epochs) ==
  [chain |-> chain, mainnet |-> mainnet, genesis |-> genesis,
   roster |-> roster, epochs |-> epochs]

MCNetworks ==
  { Net("test", FALSE, "gt", TRUE, TRUE),        \* Network::testnet
    Net("main", TRUE, None, FALSE, FALSE),       \* Network::mainnet
    Net("main", TRUE, "gm", TRUE, TRUE),         \* mainnet with its pins set
    Net("main", FALSE, "gm", FALSE, TRUE),       \* mainnet by name only
    Net(None, FALSE, None, FALSE, FALSE),        \* Network::for_url
    Net(None, FALSE, None, FALSE, TRUE),
    Net(None, FALSE, "gm", FALSE, TRUE),
    Net("dev1", FALSE, None, FALSE, TRUE),
    Net("old", FALSE, "gt", TRUE, TRUE) }        \* a retired name

MCRealNetworks ==
  { [chain |-> "test", genesis |-> "gt"], [chain |-> "main", genesis |-> "gm"],
    [chain |-> "dev1", genesis |-> "gd"], [chain |-> "dev2", genesis |-> "gd"],
    [chain |-> "dev2", genesis |-> "gm"] }
=============================================================================
