---------------------------- MODULE MCRosterStore ----------------------------
(* A chain of three epochs with four validators, one of them faulty, for the *)
(* roster store.  At every height a fork commits a roster of the faulty      *)
(* validator alone; one honest validator attests it in view 1, another in    *)
(* view 2, and all honest ones attest the chain's header in view 3.          *)
EXTENDS RosterStore, TLC

Member(id, key, stake) == [id |-> id, key |-> key, stake |-> stake]

a == Member(1, "a", 3)
b == Member(2, "b", 3)
c == Member(3, "c", 3)
d == Member(4, "d", 3)

MCFaultyKeys == {"d", "e", "f"}

First  == {a, b, c, d}
Second == {a, b, c, d, Member(5, "e", 3)}     \* one too many: e is not active
Third  == {a, b, c, d, Member(6, "f", 2)}     \* f has too little stake
Evil   == {d}
Twice  == {a, b, c, d, Member(4, "e", 4)}     \* names a validator twice

MCOfferedRosters == {First, Second, Third, Evil, Twice}

MCChainRoster == [e \in 0 .. 2 |-> <<First, Second, Third>>[e + 1]]

Header(h, roster) ==
  [height |-> h, commits |-> [epoch |-> EpochOf(h) + 1, roster |-> roster]]

\* Only the last block of an epoch commits the roster that follows; the one
\* before still commits another.
MCChainHeader ==
  [h \in 0 .. 5 |-> Header(h, <<First, Second, First, Third, Second, First>>[h + 1])]

Forks == {Header(h, Evil) : h \in 0 .. 5}

MCHeaders == {MCChainHeader[h] : h \in 0 .. 5} \cup Forks

Vote(key, block, view) == [key |-> key, block |-> block, view |-> view]

MCHonestVotes ==
  {Vote(k, MCChainHeader[h], 3) : k \in {"a", "b", "c"}, h \in 0 .. 5}
    \cup {Vote("a", fork, 1) : fork \in Forks}
    \cup {Vote("b", fork, 2) : fork \in Forks}

\* [from, view] of the attestations in a certificate.
Patterns ==
  { << <<1, 3>>, <<2, 3>>, <<3, 3>> >>,
    << <<4, 3>>, <<2, 3>>, <<1, 3>> >>,
    << <<1, 3>>, <<4, 3>> >>,
    << <<1, 1>>, <<4, 1>>, <<5, 1>> >>,
    << <<1, 1>>, <<4, 1>> >>,
    << <<1, 1>>, <<2, 2>>, <<4, 1>> >>,
    << <<4, 1>>, <<4, 1>>, <<4, 1>> >>,
    << <<4, 1>>, <<6, 1>>, <<1, 1>> >> }

MCCertificates ==
  { [block |-> h,
     atts  |-> [i \in DOMAIN p |-> [from |-> p[i][1], block |-> h, view |-> p[i][2]]]]
    : h \in MCHeaders, p \in Patterns }

=============================================================================
