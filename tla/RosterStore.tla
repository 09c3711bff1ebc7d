----------------------------- MODULE RosterStore -----------------------------
(* The trusted validator rosters a Client keeps (src/src/lib.rs): how they   *)
(* are anchored, how one is proved from the one before it, which are kept,   *)
(* and the two kinds of call that use them to prove a header final.  A       *)
(* Client is not shared between threads, so calls do not overlap; each       *)
(* gateway request is a step, and the gateway answers anything it can make   *)
(* out of the attestations that exist.                                       *)
EXTENDS Finality, Functions

CONSTANTS MaxEpoch,        \* bound: epochs of the model are 0 .. MaxEpoch
          KeptRosters,     \* KEPT_ROSTERS
          ChainRoster,     \* epoch -> the roster the chain has for it
          ChainHeader,     \* height -> the header the chain has there
          Headers,         \* headers a gateway can answer with
          Certificates,    \* certificates a gateway can answer with
          OfferedRosters,  \* rosters a gateway can answer with
          RosterPinned     \* the Network pins a genesis hash and commitment

Epochs  == 0 .. MaxEpoch
Heights == 0 .. SealingHeight(MaxEpoch)

ASSUME RosterAssumption ==
  /\ MaxEpoch \in Nat
  /\ KeptRosters \in Nat \ {0}
  /\ ChainRoster \in [Epochs -> OfferedRosters]
  /\ ChainHeader \in [Heights -> Headers]
  /\ \A h \in Heights : ChainHeader[h].height = h
  /\ \A h \in Headers : h.height \in Heights
  /\ \A c \in Certificates : c.atts \in Seq([from : Int, block : Headers, view : Int])
  /\ RosterPinned \in BOOLEAN

\* The state of the block that seals an epoch commits the next roster.
ASSUME CommitAssumption ==
  \A e \in 0 .. MaxEpoch - 1 :
    ChainHeader[SealingHeight(e)].commits = [epoch |-> e + 1, roster |-> ChainRoster[e + 1]]

\* A validator that stands behind a header in a view attested it, or is faulty.
Behind(m, h, view) ==
  m.key \in FaultyKeys \/ [key |-> m.key, block |-> h, view |-> view] \in HonestVotes

\* The active validators of an epoch, and those of them that decide alone.
Active(e)  == ActiveSet(ChainRoster[e])
Quorums(e) == {S \in SUBSET Active(e) : 3 * TotalStake(S) > 2 * TotalStake(Active(e))}

Views == UNION {{c.atts[i].view : i \in DOMAIN c.atts} : c \in Certificates}

\* The promise of the chain's consensus, outside this code: no quorum of an
\* epoch stands behind any other header of that epoch in one view.  In two
\* views together a quorum may.
ASSUME ConsensusAssumption ==
  \A e \in Epochs, h \in Headers, view \in Views :
    EpochOf(h.height) = e /\ h # ChainHeader[h.height] =>
      \A S \in Quorums(e) : \E m \in S : ~Behind(m, h, view)

\* A certificate the chain makes: a quorum attests the header in one view, each
\* validator once.
Certifies(c, h, e) ==
  LET from == {c.atts[i].from : i \in DOMAIN c.atts}
  IN  /\ c.block = h /\ c.atts # <<>>
      /\ {m \in Active(e) : m.id \in from} \in Quorums(e)
      /\ \A i \in DOMAIN c.atts :
           /\ c.atts[i].block = h /\ c.atts[i].view = c.atts[1].view
           /\ \E m \in Active(e) : m.id = c.atts[i].from /\ Behind(m, h, c.atts[1].view)
      /\ \A i, j \in DOMAIN c.atts : c.atts[i].from = c.atts[j].from => i = j

\* The other promise: a roster names each validator once, some of them active,
\* and the last block of every epoch before the last is certified.
ASSUME SealedAssumption ==
  /\ \A e \in Epochs : WellFormedRoster(ChainRoster[e]) /\ TotalStake(Active(e)) > 0
  /\ \A e \in 0 .. MaxEpoch - 1 : \E c \in Certificates :
       Certifies(c, ChainHeader[SealingHeight(e)], e)

\* BTreeMap::insert
With(store, e, members) ==
  [x \in DOMAIN store \cup {e} |-> IF x = e THEN members ELSE store[x]]

NoStore  == [e \in {} |-> {}]
NoEpoch  == -1
NoHeader == [height |-> -1, commits |-> [epoch |-> -1, roster |-> {}]]
NoCert   == [block |-> NoHeader, atts |-> <<>>]
NoRoster == [epoch |-> NoEpoch, members |-> {}]

VARIABLES rosters,   \* trusted_roster: epoch -> roster, empty when None
          pc,        \* where the call in progress is
          kind,      \* "head": verify_head; "proof": an account or inclusion proof
          header,    \* the header to prove and its certificate
          cert,
          current,   \* the verified roster the walk has reached
          anchor,    \* history: the epoch trust_roster_at was given last
          found      \* the header the last call found final

vars == <<rosters, pc, kind, header, cert, current, anchor, found>>

\* "anchor": asks for the pinned roster if none is held.  "certify": asks for
\* the header and its certificate.  "walk": proves rosters up to the header's.
PCs == {"idle", "anchor", "certify", "walk"}

TypeOK ==
  /\ DOMAIN rosters \subseteq Epochs
  /\ \A e \in DOMAIN rosters : rosters[e] \in OfferedRosters
  /\ pc \in PCs
  /\ kind \in {"head", "proof"}
  /\ header \in Headers \cup {NoHeader}
  /\ cert \in Certificates \cup {NoCert}
  /\ current \in [epoch : Epochs, members : OfferedRosters] \cup {NoRoster}
  /\ anchor \in Epochs \cup {NoEpoch}
  /\ found \in Headers \cup {NoHeader}

Idle ==
  /\ pc' = "idle"
  /\ kind' = "head"
  /\ header' = NoHeader
  /\ cert' = NoCert
  /\ current' = NoRoster

Init ==
  /\ rosters = NoStore
  /\ pc = "idle" /\ kind = "head"
  /\ header = NoHeader /\ cert = NoCert /\ current = NoRoster
  /\ anchor = NoEpoch
  /\ found = NoHeader

Target == EpochOf(header.height)

-----------------------------------------------------------------------------
\* trust_roster_at: whatever was kept goes.  The caller gives a roster the
\* chain has; the store has no way to find out.
TrustRosterAt(e) ==
  /\ pc = "idle"
  /\ rosters' = With(NoStore, e, ChainRoster[e])
  /\ anchor' = e
  /\ UNCHANGED <<pc, kind, header, cert, current, found>>

\* verify_head anchors first, the proofs ask for their header first.
Begin(k) ==
  /\ pc = "idle"
  /\ kind' = k
  /\ pc' = IF k = "head" THEN "anchor" ELSE "certify"
  /\ found' = NoHeader
  /\ UNCHANGED <<rosters, header, cert, current, anchor>>

\* The walk starts from the last roster kept at or before the target.
StartWalk(store, target) ==
  LET usable == {e \in DOMAIN store : e <= target}
  IN  /\ usable # {}
      /\ current' = [epoch |-> Max(usable), members |-> store[Max(usable)]]
      /\ pc' = "walk"

Anchored(store, target) ==
  IF kind = "head"
  THEN pc' = "certify" /\ UNCHANGED current
  ELSE StartWalk(store, target)

\* anchor_pinned_roster with a roster held.
AlreadyAnchored ==
  /\ pc = "anchor"
  /\ DOMAIN rosters # {}
  /\ Anchored(rosters, Target)
  /\ UNCHANGED <<rosters, kind, header, cert, anchor, found>>

\* anchor_pinned_roster: the gateway offers the roster of epoch 0.
AnchorPinned(members) ==
  /\ pc = "anchor"
  /\ DOMAIN rosters = {}
  /\ RosterPinned
  /\ members = ChainRoster[0]
  /\ rosters' = With(NoStore, 0, members)
  /\ anchor' = 0
  /\ Anchored(rosters', Target)
  /\ UNCHANGED <<kind, header, cert, found>>

\* certified_at: a header of the asked height, with the epoch its height
\* lies in whatever epoch the gateway names.
Certify(h, c) ==
  /\ pc = "certify"
  /\ header' = h
  /\ cert' = c
  /\ IF kind = "head"
     THEN StartWalk(rosters, EpochOf(h.height))
     ELSE pc' = "anchor" /\ UNCHANGED current
  /\ UNCHANGED <<rosters, kind, anchor, found>>

\* A slip: the oldest roster goes, the anchor first of all.
EvictOldest(store) ==
  IF Cardinality(DOMAIN store) <= KeptRosters THEN store
  ELSE Restrict(store, DOMAIN store \ {Min(DOMAIN store)})

\* The second oldest roster goes: the anchor stays.
Evict(store) ==
  IF Cardinality(DOMAIN store) <= KeptRosters THEN store
  ELSE LET younger == DOMAIN store \ {Min(DOMAIN store)}
       IN  IF younger = {} THEN store
           ELSE Restrict(store, DOMAIN store \ {Min(younger)})

\* One turn of the loop of roster_for_epoch.
ProveNext(h, c, members) ==
  /\ pc = "walk"
  /\ current.epoch < Target
  /\ VerifyNextRoster(current, h, c, members)
  /\ current' = [epoch |-> current.epoch + 1, members |-> members]
  /\ rosters' = Evict(With(rosters, current.epoch + 1, members))
  /\ UNCHANGED <<pc, kind, header, cert, anchor, found>>

\* The loop is over: the header is checked with the roster of its epoch.
ProveHeader ==
  /\ pc = "walk"
  /\ current.epoch = Target
  /\ VerifyFinalityInEpoch(current, header, cert)
  /\ found' = header
  /\ Idle
  /\ UNCHANGED <<rosters, anchor>>

\* Nothing to anchor on, no answer, or one that is refused: what earlier
\* turns of the loop proved stays.
Fail ==
  /\ pc # "idle"
  /\ Idle
  /\ UNCHANGED <<rosters, anchor, found>>

Answer ==
  \/ AlreadyAnchored
  \/ \E members \in OfferedRosters : AnchorPinned(members)
  \/ \E h \in Headers, c \in Certificates : Certify(h, c)
  \/ \E h \in Headers, c \in Certificates, members \in OfferedRosters :
       ProveNext(h, c, members)
  \/ ProveHeader

Next ==
  \/ \E e \in Epochs : TrustRosterAt(e)
  \/ \E k \in {"head", "proof"} : Begin(k)
  \/ Answer
  \/ Fail

Spec == Init /\ [][Next]_vars

-----------------------------------------------------------------------------
\* Whatever a gateway answers, every roster the client trusts is the one the
\* chain has for that epoch: the current one of a walk and all the kept ones.
TrustedRostersAreReal ==
  /\ \A e \in DOMAIN rosters : rosters[e] = ChainRoster[e]
  /\ current # NoRoster => current.members = ChainRoster[current.epoch]

\* A header found final is the chain's header of that height (README.md: "a
\* gateway cannot move a deadline by lying about the head").
FoundHeadersAreReal == found # NoHeader => found = ChainHeader[found.height]

\* The cache stays within its bound and eviction never drops the roster the
\* caller anchored on: every epoch from it on can still be reached.
AnchorIsKept ==
  /\ Cardinality(DOMAIN rosters) <= KeptRosters
  /\ DOMAIN rosters = {} <=> anchor = NoEpoch
  /\ DOMAIN rosters # {} => anchor = Min(DOMAIN rosters)

\* An honest gateway is never refused: at every turn of the walk the chain's
\* own sealing block, a certificate of its honest validators and the chain's
\* roster pass the check.
HonestAnswersPass ==
  pc = "walk" /\ current.epoch < Target =>
    \E c \in Certificates :
      VerifyNextRoster(current, ChainHeader[SealingHeight(current.epoch)], c,
                       ChainRoster[current.epoch + 1])
=============================================================================
