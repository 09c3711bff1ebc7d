----------------------------- MODULE AddressBook -----------------------------
(* The addresses a SigningSession knows and the lookalikes it refuses        *)
(* (src/src/lib.rs): with_address_book, remember_address, check_target.  An  *)
(* address is its payload; two spellings of one payload are one address.     *)
EXTENDS Naturals, Sequences, SequencesExt

CONSTANTS Addresses,
          Edges,        \* shares_edges: a symmetric set of pairs
          Book,         \* the address book the client was given
          Remembered    \* SESSION_REMEMBERED_ADDRESSES

ASSUME AddressAssumption ==
  /\ Book \subseteq Addresses
  /\ Edges \subseteq Addresses \X Addresses
  /\ \A a, b \in Addresses : <<a, b>> \in Edges => <<b, a>> \in Edges
  /\ Remembered \in Nat \ {0}

Lookalike(a, b) == a # b /\ <<a, b>> \in Edges

Knows(list, a) == a \in Book \cup ToSet(list)

\* A slip: the limit is looked at after the address went in.
RememberAddressLate(list, a) ==
  IF Knows(list, a) THEN list
  ELSE IF Len(list) > Remembered THEN Append(Tail(list), a) ELSE Append(list, a)

\* The oldest address makes room for a new one.
RememberAddress(list, a) ==
  IF Knows(list, a) THEN list
  ELSE IF Len(list) >= Remembered THEN Append(Tail(list), a) ELSE Append(list, a)

\* No call has more than two targets.
RememberTargets(list, ts) ==
  CASE Len(ts) = 0 -> list
    [] Len(ts) = 1 -> RememberAddress(list, ts[1])
    [] OTHER       -> RememberAddress(RememberAddress(list, ts[1]), ts[2])

CheckTarget(list, t) == \A x \in Book \cup ToSet(list) : ~Lookalike(x, t)
=============================================================================
