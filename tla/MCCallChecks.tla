---------------------------- MODULE MCCallChecks ----------------------------
(* a1 and a2 look alike, and so do a2 and a3, while a1 and a3 do not; vm     *)
(* looks like nothing.  The quotes are the corners of deploy_fee_of.         *)
EXTENDS CallChecks

Alike == { {"a1", "a2"}, {"a2", "a3"} }

MCEdges == {p \in Addresses \X Addresses : {p[1], p[2]} \in Alike}

Priced(transfer, deploy, rate, unit) ==
  [transfer |-> transfer, deploy |-> deploy, rate |-> rate, unit |-> unit]

MCQuotes ==
  { Priced(5, 40, 1, 2),          \* a good quote
    Priced(2, 13, 3, 2),          \* a good one, rounded down
    Priced(0, 2, 7, 1),           \* a network fee that rounds to nothing
    Priced(2, 40, 1, 2),          \* the network fee below its band
    Priced(5, 39, 1, 2),          \* not five dollars
    Priced(9, 60, 1, 4),          \* a product that saturates
    Priced(0, 0, 30, 1),          \* a deploy fee that rounds to nothing
    Priced(5, 0, 0, 2),           \* no rate
    Priced(5, Unquoted, 0, 0) }   \* no deploy fee
=============================================================================
