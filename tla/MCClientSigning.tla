--------------------------- MODULE MCClientSigning ---------------------------
(* Small instances of ClientSigning for TLC. *)
EXTENDS ClientSigning, TLC

\* Threads are interchangeable when each has a hook or none has.
ThreadSymmetry == Permutations(Threads)

\* Bound of the order runs: account nonces are not named there (they are in
\* the account runs), so that the order slot's histories fit.
AccountsUnnamed == \A a \in AccountKeys : named[a] = {}
=============================================================================
