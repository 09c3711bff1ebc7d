--------------------------- MODULE SigningSession ---------------------------
(* The per-key state of a SigningSession (src/src/lib.rs) and what each of   *)
(* its methods does to it.  A key is "chain/account" or "chain/contract/     *)
(* signer"; the methods touch one key at a time, so a session is a function  *)
(* from keys to the records of KeyState and the operators below map the      *)
(* record before a call to the record after it.                              *)
EXTENDS Integers

CONSTANT MaxNonce       \* stands for u64::MAX, the largest nonce

ASSUME MaxNonceAssumption == MaxNonce \in Nat

Nonces    == 0 .. MaxNonce
Untracked == -1         \* next has no entry for the key
Unnamed   == -1         \* the caller passes no expected nonce

\* What held says of a nonce: no entry, an entry with accepted = false, or
\* an entry with accepted = true.
Marks == {"none", "pending", "accepted"}

SavedKey == [next : Nonces \cup {Untracked}, held : [Nonces -> Marks]]

KeyState == [next     : Nonces \cup {Untracked},
             held     : [Nonces -> Marks],
             reserved : SUBSET Nonces]

NoHolds  == [n \in Nonces |-> "none"]
FreshKey == [next |-> Untracked, held |-> NoHolds, reserved |-> {}]

Larger(a, b) == IF a < b THEN b ELSE a

\* A slip: slot + 1 where the code saturates.
PlainSucc(n) == n + 1

\* u64::saturating_add(1)
SatSucc(n) == IF n = MaxNonce THEN n ELSE n + 1

-----------------------------------------------------------------------------
(* slot(key, reported, expected, order)                                      *)

\* The two refusals that come before slot touches anything: a named nonce
\* other than the reported one, and an unnamed one that goes back.
RefusedOutright(ks, reported, expected) ==
  \/ expected # Unnamed /\ expected # reported
  \/ expected = Unnamed /\ reported < ks.next

\* A slip: naming a nonce drops the entry above it as well.
RetainedOffByOne(ks, reported, expected) ==
  [n \in Nonces |->
     IF \/ n < reported /\ ks.held[n] = "accepted"
        \/ n <= reported + 1 /\ expected # Unnamed
     THEN "none" ELSE ks.held[n]]

\* held after the two retains: accepted entries the chain has passed go, and
\* naming a nonce drops every entry up to it, accepted or not.
Retained(ks, reported, expected) ==
  [n \in Nonces |->
     IF \/ n < reported /\ ks.held[n] = "accepted"
        \/ n <= reported /\ expected # Unnamed
     THEN "none" ELSE ks.held[n]]

\* A slip: only a tracked key is compared.
RaisesTrackedOrder(ks, reported) == ks.next # Untracked /\ reported > ks.next

\* An order nonce is never taken above the tracked one, which is 0 before
\* the key is tracked.
RaisesOrder(ks, reported) == reported > Larger(ks.next, 0)

\* A slip: only the nonce just below is looked at.
HeldJustBelow(ks, reported) ==
  reported > 0 /\ ks.held[reported - 1] = "pending"

HeldBelow(ks, reported) ==
  \E n \in Nonces : n < reported /\ ks.held[n] = "pending"

\* A slip: the reservations of other signings are not looked at.
SlotGrantedOverReserved(ks, reported, expected, order) ==
  /\ ~RefusedOutright(ks, reported, expected)
  /\ expected = Unnamed =>
       /\ ~(order /\ RaisesOrder(ks, reported))
       /\ ks.held[reported] = "none"
       /\ ~HeldBelow(ks, reported)

SlotGranted(ks, reported, expected, order) ==
  /\ ~RefusedOutright(ks, reported, expected)
  /\ expected = Unnamed =>
       /\ ~(order /\ RaisesOrder(ks, reported))
       /\ ks.held[reported] = "none"
       /\ ~HeldBelow(ks, reported)
       /\ reported \notin ks.reserved

Slot(ks, reported, expected, order) ==
  IF RefusedOutright(ks, reported, expected) THEN ks
  ELSE IF SlotGranted(ks, reported, expected, order)
  THEN [next     |-> Larger(ks.next, reported),
        held     |-> Retained(ks, reported, expected),
        reserved |-> ks.reserved \cup {reported}]
  ELSE [ks EXCEPT !.held = Retained(ks, reported, expected)]

-----------------------------------------------------------------------------
(* The other methods.                                                        *)

Release(ks, n) == [ks EXCEPT !.reserved = @ \ {n}]

Signed(ks, n) == [ks EXCEPT !.reserved = @ \ {n}, !.held[n] = "pending"]

Outcome(ks, n, accepted) ==
  IF accepted
  THEN [ks EXCEPT !.held[n] = "accepted", !.next = Larger(@, SatSucc(n))]
  ELSE ks

\* A slip: the held signatures are not saved.
ExportedNextOnly(ks) == [next |-> ks.next, held |-> NoHolds]

\* export_state leaves the reservations out.
Exported(ks) == [next |-> ks.next, held |-> ks.held]

\* import_state merges: the larger next, and every saved entry over the
\* one in memory.
Imported(ks, saved) ==
  [next     |-> Larger(ks.next, saved.next),
   held     |-> [n \in Nonces |-> IF saved.held[n] = "none"
                                  THEN ks.held[n] ELSE saved.held[n]],
   reserved |-> ks.reserved]

\* What a refused import has already merged: next, before the heads are read.
ImportedNext(ks, saved) == [ks EXCEPT !.next = Larger(@, saved.next)]

-----------------------------------------------------------------------------
(* What the methods preserve.                                                *)

\* The session refuses nonce n to a call that does not name it.
Closed(ks, n) == ks.held[n] # "none" \/ n < ks.next

\* An accepted entry lies below next, except at the largest nonce.
AcceptedPassed(ks) ==
  \A n \in Nonces :
    ks.held[n] = "accepted" => n < ks.next \/ (n = MaxNonce /\ ks.next = n)
=============================================================================
