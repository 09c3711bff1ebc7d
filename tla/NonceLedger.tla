----------------------------- MODULE NonceLedger -----------------------------
(* What the signing calls of mod client (src/src/lib.rs) promise, with no    *)
(* session, lock or thread in sight: a ledger of the nonces at which         *)
(* transactions were signed, which callers named, and which were accepted.   *)
EXTENDS Integers

CONSTANTS MaxNonce, AccountKeys, OrderKeys

Nonces == 0 .. MaxNonce
Keys   == AccountKeys \cup OrderKeys
NoSlot == -1

VARIABLES sigs, named, landed

vars == <<sigs, named, landed>>

Init ==
  /\ sigs = [k \in Keys |-> [n \in Nonces |-> 0]]
  /\ named = [k \in Keys |-> {}]
  /\ landed = [k \in Keys |-> {}]

\* A transaction spends f[k] at each key k it touches: exactly one account
\* key and at most one order key.
OneOf(f, K) == \A j, k \in K : f[j] # NoSlot /\ f[k] # NoSlot => j = k

Transaction(f) ==
  /\ f \in [Keys -> Nonces \cup {NoSlot}]
  /\ \E a \in AccountKeys : f[a] # NoSlot
  /\ OneOf(f, AccountKeys)
  /\ OneOf(f, OrderKeys)

\* A nonce may carry a signature if a caller named it; otherwise only the
\* first one, and for an order only once the order before it was accepted.
MaySign(k, n) ==
  \/ n \in named[k]
  \/ /\ sigs[k][n] = 0
     /\ k \in OrderKeys => n = 0 \/ n - 1 \in landed[k]

\* A caller names nonce n of key k.
NameNonce(k, n) ==
  /\ named' = [named EXCEPT ![k] = @ \cup {n}]
  /\ UNCHANGED <<sigs, landed>>

\* One transaction is signed, at all of its keys or at none.
SignAt(f) ==
  /\ Transaction(f)
  /\ \A k \in Keys : f[k] # NoSlot => MaySign(k, f[k])
  /\ sigs' = [k \in Keys |->
                IF f[k] = NoSlot THEN sigs[k]
                ELSE [sigs[k] EXCEPT ![f[k]] = IF @ = 2 THEN 2 ELSE @ + 1]]
  /\ UNCHANGED <<named, landed>>

\* The gateway accepts a transaction that was signed.
LandAt(f) ==
  /\ Transaction(f)
  /\ \A k \in Keys : f[k] # NoSlot => sigs[k][f[k]] > 0
  /\ landed' = [k \in Keys |->
                  IF f[k] = NoSlot THEN landed[k] ELSE landed[k] \cup {f[k]}]
  /\ UNCHANGED <<sigs, named>>

Next ==
  \/ \E k \in Keys, n \in Nonces : NameNonce(k, n)
  \/ \E f \in [Keys -> Nonces \cup {NoSlot}] : SignAt(f) \/ LandAt(f)

Spec == Init /\ [][Next]_vars
=============================================================================
