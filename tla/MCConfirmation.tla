---------------------------- MODULE MCConfirmation ----------------------------
(* Three blocks: a transfer alone; a call, a transfer and a call of one      *)
(* contract, with events of both calls; a call that reverted.                *)
EXTENDS Confirmation

Event(t, topic, data) == [tx |-> t, topic |-> topic, data |-> data]

MCChain ==
  [h \in 0 .. 2 |->
     CASE h = 0 -> [txs |-> <<"pay">>, events |-> <<>>]
       [] h = 1 -> [txs |-> <<"call1", "pay2", "call2">>,
                    events |-> <<Event("call1", "order", 1), Event("call2", "order", 1),
                                 Event("call2", "order", 2)>>]
       [] h = 2 -> [txs |-> <<"revert", "gift">>, events |-> <<>>]]

MCNetworks ==
  { [chain |-> "real", mainnet |-> FALSE, pinned |-> TRUE],
    [chain |-> None,   mainnet |-> FALSE, pinned |-> FALSE],
    [chain |-> "main", mainnet |-> FALSE, pinned |-> FALSE],
    [chain |-> None,   mainnet |-> TRUE,  pinned |-> FALSE] }
=============================================================================
