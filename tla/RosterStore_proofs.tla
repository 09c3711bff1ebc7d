-------------------------- MODULE RosterStore_proofs --------------------------
(* That the rosters a client trusts and the headers it finds final are the   *)
(* chain's, and that eviction keeps the anchor, for any chain, any rosters,  *)
(* headers and certificates a gateway can offer, any length of an epoch and  *)
(* any size of the cache.                                                    *)
EXTENDS RosterStore, TLAPS, FiniteSetTheorems, WellFoundedInduction

USE EpochLengthAssumption, RosterAssumption

\* The rosters of the store and of a walk are the chain's.  A call that has a
\* header to prove has it from the gateway, and a walk never passes its epoch.
StoreInv ==
  /\ DOMAIN rosters \subseteq Epochs
  /\ \A e \in DOMAIN rosters : rosters[e] = ChainRoster[e]
  /\ pc = "walk" \/ (pc = "anchor" /\ kind = "proof") =>
       header \in Headers /\ cert \in Certificates
  /\ pc = "walk" => /\ current.epoch \in Epochs /\ current.epoch <= Target
                    /\ current.members = ChainRoster[current.epoch]
  /\ pc # "walk" => current = NoRoster
  /\ kind \in {"head", "proof"}

\* The oldest roster is the anchor, and a walk is at or above it.
AnchorInv ==
  /\ IsFiniteSet(DOMAIN rosters) /\ Cardinality(DOMAIN rosters) <= KeptRosters
  /\ anchor = NoEpoch => DOMAIN rosters = {}
  /\ anchor # NoEpoch =>
       /\ anchor \in DOMAIN rosters
       /\ \A e \in DOMAIN rosters : anchor <= e
  /\ pc = "walk" => anchor # NoEpoch /\ anchor <= current.epoch

-----------------------------------------------------------------------------
(* Least and largest elements.                                               *)

\* A set of numbers that is not empty has a least one.
LEMMA MinOf ==
  ASSUME NEW S \in SUBSET Nat, S # {}
  PROVE  Min(S) \in S /\ \A x \in S : Min(S) <= x
<1>1. \E m \in S : \A x \in S : m <= x
  <2> DEFINE R == OpToRel(<, Nat)
  <2>0. \A x, y \in Nat : x < y => <<x, y>> \in R
    BY DEF OpToRel
  <2>1. IsWellFoundedOn(R, Nat)
    BY NatLessThanWellFounded
  <2> HIDE DEF R
  <2>2. PICK m \in S : \A x \in S : ~(<<x, m>> \in R)
    BY <2>1, WFMin
  <2>3. \A x \in S : ~(x < m)
    BY <2>0, <2>2
  <2> QED
    BY <2>3
<1> QED
  BY <1>1 DEF Min

\* The least element is the only one at or below all others.
LEMMA MinIs ==
  ASSUME NEW S \in SUBSET Nat, NEW m \in S, \A x \in S : m <= x
  PROVE  Min(S) = m
<1>1. Min(S) \in S /\ \A x \in S : Min(S) <= x
  BY MinOf
<1>2. Min(S) \in Nat /\ m \in Nat /\ Min(S) <= m /\ m <= Min(S)
  BY <1>1
<1> QED
  BY <1>2

\* A set of numbers up to n that is not empty has a largest one.
LEMMA MaxOf ==
  ASSUME NEW n \in Nat, NEW S \in SUBSET (0 .. n), S # {}
  PROVE  Max(S) \in S /\ \A x \in S : x <= Max(S)
<1> DEFINE gaps == {n - x : x \in S}
<1>0. \A x \in S : x \in Nat /\ x <= n /\ n - x \in Nat
  OBVIOUS
<1>1. gaps \in SUBSET Nat /\ gaps # {}
  BY <1>0
<1>2. Min(gaps) \in gaps /\ \A g \in gaps : Min(gaps) <= g
  BY <1>1, MinOf
<1>3. PICK m \in S : Min(gaps) = n - m
  BY <1>2
<1>4. \A x \in S : n - m <= n - x
  <2> SUFFICES ASSUME NEW x \in S PROVE n - m <= n - x
    OBVIOUS
  <2>1. n - x \in gaps
    OBVIOUS
  <2> HIDE DEF gaps
  <2> QED
    BY <1>2, <1>3, <2>1
<1>5. \A x \in S : m >= x
  BY <1>0, <1>4
<1> QED
  BY <1>5 DEF Max

-----------------------------------------------------------------------------
(* Epochs.                                                                   *)

\* Heights of the model lie in its epochs.
LEMMA EpochType ==
  ASSUME NEW h \in Heights
  PROVE  EpochOf(h) \in Epochs
<1>1. h \in Nat /\ SealingHeight(MaxEpoch) \in Int /\ h <= SealingHeight(MaxEpoch)
  <2>1. (MaxEpoch + 1) * EpochLength \in Nat
    OBVIOUS
  <2> QED
    BY <2>1 DEF Heights, SealingHeight
<1> DEFINE q == h \div EpochLength
<1>2. q \in Nat /\ EpochLength * q <= h
  BY <1>1
<1> HIDE DEF q
<1>3. SUFFICES ASSUME q >= MaxEpoch + 1 PROVE FALSE
  BY <1>2 DEF q, EpochOf, Epochs
<1>4. PICK d \in Nat : q = MaxEpoch + 1 + d
  BY <1>2, <1>3, q - (MaxEpoch + 1) \in Nat
<1>5. EpochLength * q = (MaxEpoch + 1) * EpochLength + d * EpochLength
  BY <1>4
<1>6. d * EpochLength \in Nat /\ (MaxEpoch + 1) * EpochLength \in Nat
  OBVIOUS
<1> QED
  BY <1>1, <1>2, <1>5, <1>6 DEF SealingHeight

\* A sealing height lies in its epoch.
LEMMA SealingType ==
  ASSUME NEW e \in 0 .. MaxEpoch - 1
  PROVE  SealingHeight(e) \in Heights
<1>1. PICK d \in Nat : MaxEpoch = e + 1 + d
  BY MaxEpoch - (e + 1) \in Nat
<1>2. (MaxEpoch + 1) * EpochLength = (e + 1) * EpochLength + (d + 1) * EpochLength
  BY <1>1
<1>3. (d + 1) * EpochLength \in Nat /\ (e + 1) * EpochLength \in Nat \ {0}
  OBVIOUS
<1> QED
  BY <1>2, <1>3 DEF SealingHeight, Heights

\* The last block of an epoch is in it.
LEMMA SealingIsInEpoch ==
  ASSUME NEW e \in Nat
  PROVE  EpochOf(SealingHeight(e)) = e
<1> DEFINE n == (e + 1) * EpochLength - 1
           q == n \div EpochLength
<1>1. (e + 1) * EpochLength = EpochLength * e + EpochLength /\ EpochLength * e \in Nat
  OBVIOUS
<1>2. n \in Nat /\ n = EpochLength * e + (EpochLength - 1)
  BY <1>1
<1> HIDE DEF n
<1>3. q \in Nat /\ EpochLength * q <= n /\ n < EpochLength * q + EpochLength
  BY <1>2
<1> HIDE DEF q
<1>4. ASSUME q >= e + 1 PROVE FALSE
  <2>1. EpochLength * q >= EpochLength * (e + 1)
    BY <1>3, <1>4
  <2>2. EpochLength * (e + 1) = EpochLength * e + EpochLength
    OBVIOUS
  <2> QED
    BY <1>1, <1>2, <1>3, <2>1, <2>2
<1>5. ASSUME q + 1 <= e PROVE FALSE
  <2>1. EpochLength * (q + 1) <= EpochLength * e
    BY <1>3, <1>5
  <2>2. EpochLength * (q + 1) = EpochLength * q + EpochLength
    BY <1>3
  <2> QED
    BY <1>1, <1>2, <1>3, <2>1, <2>2
<1>6. q = e
  BY <1>3, <1>4, <1>5
<1> QED
  BY <1>6 DEF q, n, EpochOf, SealingHeight

-----------------------------------------------------------------------------
(* Certificates.                                                             *)

\* Active validators are members.
LEMMA ActiveAreMembers ==
  ASSUME NEW roster
  PROVE  ActiveSet(roster) \subseteq roster
  BY DEF ActiveSet

\* A header that is final under the chain's roster of its epoch is the chain's:
\* the signers of its certificate are a quorum that stands behind it in the
\* one view of the certificate, by validators the roster names once.
LEMMA FinalIsReal ==
  ASSUME NEW e \in Epochs, NEW h \in Headers, NEW c \in Certificates,
         EpochOf(h.height) = e, VerifyFinality(h, c, ChainRoster[e])
  PROVE  h = ChainHeader[h.height]
<1> DEFINE active  == ActiveSet(ChainRoster[e])
           signers == {c.atts[i].from : i \in DOMAIN c.atts}
           S       == {m \in active : m.id \in signers}
           view    == c.atts[1].view
<1>1. /\ WellFormedRoster(ChainRoster[e]) /\ c.block = h /\ c.atts # <<>>
      /\ \A i \in DOMAIN c.atts : SoundAttestation(c, active, i)
      /\ HasQuorum(TotalStake(S), Total(ChainRoster[e]))
  BY DEF VerifyFinality
<1>2. \A m \in S : Behind(m, h, view)
  <2> SUFFICES ASSUME NEW m \in S PROVE Behind(m, h, view)
    OBVIOUS
  <2>1. PICK i \in DOMAIN c.atts : c.atts[i].from = m.id
    OBVIOUS
  <2>2. /\ c.atts[i].block = h /\ c.atts[i].view = view
        /\ \E n \in active : n.id = m.id /\ Verifies(n.key, c.atts[i])
    BY <1>1, <2>1 DEF SoundAttestation
  <2>3. PICK n \in active : n.id = m.id /\ Verifies(n.key, c.atts[i])
    BY <2>2
  <2>4. n = m
    BY <1>1, <2>3, ActiveAreMembers DEF WellFormedRoster
  <2> QED
    BY <2>2, <2>3, <2>4 DEF Verifies, Behind
<1>3. S \in Quorums(e)
  BY <1>1 DEF HasQuorum, Total, Quorums, Active
<1>4. view \in Views
  <2>1. 1 \in DOMAIN c.atts
    BY <1>1
  <2> QED
    BY <2>1 DEF Views
<1> QED
  BY <1>1, <1>2, <1>3, <1>4, ConsensusAssumption

\* A certificate the chain makes for a header shows it final: verify_finality
\* asks for nothing that a quorum attesting in one view does not give.
LEMMA CertifiedIsFinal ==
  ASSUME NEW e \in Epochs, NEW h, NEW c \in Certificates, Certifies(c, h, e)
  PROVE  VerifyFinality(h, c, ChainRoster[e])
<1>1. WellFormedRoster(ChainRoster[e]) /\ Total(ChainRoster[e]) > 0
  BY SealedAssumption DEF Total, Active
<1>2. c.block = h /\ c.atts # <<>>
  BY DEF Certifies
<1>3. HasQuorum(TotalStake({m \in ActiveSet(ChainRoster[e]) :
                               m.id \in {c.atts[i].from : i \in DOMAIN c.atts}}),
                Total(ChainRoster[e]))
  BY DEF Certifies, Quorums, HasQuorum, Total, Active
<1>4. ASSUME NEW i \in DOMAIN c.atts PROVE SoundAttestation(c, ActiveSet(ChainRoster[e]), i)
  <2>1. c.atts[i].block = c.block /\ c.atts[i].view = c.atts[1].view
    BY <1>2 DEF Certifies
  <2>2. \A j \in 1 .. i - 1 : c.atts[j].from # c.atts[i].from
    <3>1. c.atts \in Seq([from : Int, block : Headers, view : Int])
      OBVIOUS
    <3>2. \A j \in 1 .. i - 1 : j \in DOMAIN c.atts /\ j # i
      BY <3>1
    <3> QED
      BY <3>2 DEF Certifies
  <2>3. PICK m \in ActiveSet(ChainRoster[e]) :
          m.id = c.atts[i].from /\ Behind(m, h, c.atts[1].view)
    BY DEF Certifies, Active
  <2>4. Verifies(m.key, c.atts[i])
    BY <1>2, <2>1, <2>3 DEF Verifies, Behind
  <2> QED
    BY <2>1, <2>2, <2>3, <2>4 DEF SoundAttestation
<1> QED
  BY <1>1, <1>2, <1>3, <1>4 DEF VerifyFinality

-----------------------------------------------------------------------------
(* Parts of the actions.                                                     *)

\* A walk starts at a kept epoch up to the header's.
LEMMA WalkStarts ==
  ASSUME NEW store, DOMAIN store \subseteq Epochs, NEW target, StartWalk(store, target)
  PROVE  /\ pc' = "walk"
         /\ current'.epoch \in DOMAIN store /\ current'.epoch <= target
         /\ current'.members = store[current'.epoch]
<1> DEFINE usable == {e \in DOMAIN store : e <= target}
<1>1. /\ usable # {} /\ pc' = "walk"
      /\ current' = [epoch |-> Max(usable), members |-> store[Max(usable)]]
  BY DEF StartWalk
<1>2. usable \in SUBSET (0 .. MaxEpoch)
  BY DEF Epochs
<1>3. Max(usable) \in usable
  BY <1>1, <1>2, MaxOf
<1> QED
  BY <1>1, <1>3

\* What inserting into a store and evicting from it leave.
LEMMA WithStore ==
  ASSUME NEW store, NEW e, NEW members
  PROVE  /\ DOMAIN With(store, e, members) = DOMAIN store \cup {e}
         /\ \A x \in DOMAIN store \cup {e} :
              With(store, e, members)[x] = IF x = e THEN members ELSE store[x]
  BY DEF With

LEMMA SingleStore ==
  ASSUME NEW e, NEW members
  PROVE  /\ DOMAIN With(NoStore, e, members) = {e}
         /\ With(NoStore, e, members)[e] = members
  BY DEF With, NoStore

LEMMA EvictKeepsRosters ==
  ASSUME NEW store
  PROVE  /\ DOMAIN Evict(store) \subseteq DOMAIN store
         /\ \A e \in DOMAIN Evict(store) : Evict(store)[e] = store[e]
<1>1. CASE Evict(store) = store
  BY <1>1
<1>2. CASE Evict(store) # store
  <2>1. PICK S : S \subseteq DOMAIN store /\ Evict(store) = Restrict(store, S)
    BY <1>2 DEF Evict
  <2> QED
    BY <2>1 DEF Restrict
<1> QED
  BY <1>1, <1>2

\* Eviction takes one epoch when there is one too many, never the oldest.
LEMMA EvictKeepsOldest ==
  ASSUME NEW store, DOMAIN store \in SUBSET Nat, IsFiniteSet(DOMAIN store),
         Cardinality(DOMAIN store) <= KeptRosters + 1,
         NEW oldest \in DOMAIN store, \A e \in DOMAIN store : oldest <= e
  PROVE  /\ IsFiniteSet(DOMAIN Evict(store))
         /\ Cardinality(DOMAIN Evict(store)) <= KeptRosters
         /\ DOMAIN Evict(store) \subseteq DOMAIN store
         /\ oldest \in DOMAIN Evict(store)
<1> DEFINE D == DOMAIN store
           younger == D \ {Min(D)}
<1>0. Cardinality(D) \in Nat
  BY FS_CardinalityType
<1>1. CASE Cardinality(D) <= KeptRosters
  BY <1>1 DEF Evict
<1>2. CASE ~(Cardinality(D) <= KeptRosters)
  <2>1. Min(D) = oldest
    BY MinIs
  <2>2. CASE younger = {}
    <3>1. D = {oldest}
      BY <2>1, <2>2
    <3>2. Cardinality({oldest}) = 1
      BY FS_Singleton
    <3> QED
      BY <1>2, <3>1, <3>2
  <2>3. CASE younger # {}
    <3>1. Min(younger) \in younger
      BY <2>3, MinOf
    <3>2. DOMAIN Evict(store) = D \ {Min(younger)}
      BY <1>2, <2>3 DEF Evict, Restrict
    <3>3. /\ IsFiniteSet(D \ {Min(younger)})
          /\ Cardinality(D \ {Min(younger)}) = Cardinality(D) - 1
      <4>1. Min(younger) \in D
        BY <3>1
      <4> HIDE DEF younger
      <4> QED
        BY <4>1, FS_RemoveElement
    <3> QED
      BY <1>0, <2>1, <3>1, <3>2, <3>3
  <2> QED
    BY <2>2, <2>3
<1> QED
  BY <1>1, <1>2

\* What a turn of the walk proves is the chain's roster of the next epoch.
LEMMA NextRosterIsReal ==
  ASSUME StoreInv, pc = "walk", current.epoch < Target,
         NEW h \in Headers, NEW c \in Certificates, NEW members,
         VerifyNextRoster(current, h, c, members)
  PROVE  /\ current.epoch \in 0 .. MaxEpoch - 1
         /\ current.epoch + 1 \in Epochs /\ current.epoch + 1 <= Target
         /\ members = ChainRoster[current.epoch + 1]
<1>1. /\ current.epoch \in Epochs /\ header \in Headers
      /\ current.members = ChainRoster[current.epoch]
  BY DEF StoreInv
<1>2. Target \in Epochs
  BY <1>1, EpochType DEF Target
<1>3. current.epoch \in 0 .. MaxEpoch - 1 /\ current.epoch + 1 \in Epochs /\ current.epoch + 1 <= Target
  BY <1>1, <1>2 DEF Epochs
<1>4. h = ChainHeader[h.height] /\ h.height = SealingHeight(current.epoch)
  BY <1>1, FinalIsReal DEF VerifyNextRoster, VerifyFinalityInEpoch
<1>5. h.commits = [epoch |-> current.epoch + 1, roster |-> ChainRoster[current.epoch + 1]]
  BY <1>3, <1>4, CommitAssumption
<1>6. h.commits = [epoch |-> current.epoch + 1, roster |-> members]
  BY DEF VerifyNextRoster
<1>7. h.commits.roster = ChainRoster[current.epoch + 1] /\ h.commits.roster = members
  BY <1>5, <1>6
<1> QED
  BY <1>3, <1>7

-----------------------------------------------------------------------------
\* Every roster that is kept, or that a walk stands on, is the chain's.
THEOREM StoreInvariant == Spec => []StoreInv
<1>1. Init => StoreInv
  BY DEF Init, StoreInv, NoStore
<1>2. StoreInv /\ [Next]_vars => StoreInv'
  <2> SUFFICES ASSUME StoreInv, [Next]_vars PROVE StoreInv'
    OBVIOUS
  <2> USE DEF StoreInv
  <2>1. ASSUME NEW e \in Epochs, TrustRosterAt(e) PROVE StoreInv'
    <3>1. DOMAIN rosters' = {e} /\ rosters'[e] = ChainRoster[e]
      BY <2>1, SingleStore DEF TrustRosterAt
    <3> QED
      BY <2>1, <3>1 DEF TrustRosterAt
  <2>2. ASSUME NEW k \in {"head", "proof"}, Begin(k) PROVE StoreInv'
    BY <2>2 DEF Begin
  <2>3. ASSUME pc = "anchor", Anchored(rosters', Target),
               UNCHANGED <<kind, header, cert>>,
               DOMAIN rosters' \subseteq Epochs,
               \A e \in DOMAIN rosters' : rosters'[e] = ChainRoster[e]
        PROVE  StoreInv'
    <3>1. CASE kind = "head"
      BY <2>3, <3>1 DEF Anchored
    <3>2. CASE kind = "proof"
      <4>1. StartWalk(rosters', Target)
        BY <2>3, <3>2 DEF Anchored
      <4>2. /\ pc' = "walk" /\ current'.epoch \in DOMAIN rosters' /\ current'.epoch <= Target
            /\ current'.members = rosters'[current'.epoch]
        BY <2>3, <4>1, WalkStarts
      <4> QED
        BY <2>3, <3>2, <4>2 DEF Target
    <3> QED
      BY <3>1, <3>2
  <2>4. CASE AlreadyAnchored
    BY <2>3, <2>4 DEF AlreadyAnchored
  <2>5. ASSUME NEW members \in OfferedRosters, AnchorPinned(members) PROVE StoreInv'
    <3>1. DOMAIN rosters' = {0} /\ rosters'[0] = ChainRoster[0]
      BY <2>5, SingleStore DEF AnchorPinned
    <3>2. 0 \in Epochs
      BY DEF Epochs
    <3> QED
      BY <2>3, <2>5, <3>1, <3>2 DEF AnchorPinned
  <2>6. ASSUME NEW h \in Headers, NEW c \in Certificates, Certify(h, c) PROVE StoreInv'
    <3>1. CASE kind = "head"
      <4>1. StartWalk(rosters, EpochOf(h.height)) /\ header' = h /\ cert' = c
            /\ UNCHANGED <<rosters, kind>>
        BY <2>6, <3>1 DEF Certify
      <4>2. /\ pc' = "walk" /\ current'.epoch \in DOMAIN rosters
            /\ current'.epoch <= EpochOf(h.height)
            /\ current'.members = rosters[current'.epoch]
        BY <4>1, WalkStarts
      <4> QED
        BY <4>1, <4>2 DEF Target
    <3>2. CASE kind # "head"
      BY <2>6, <3>2 DEF Certify
    <3> QED
      BY <3>1, <3>2
  <2>7. ASSUME NEW h \in Headers, NEW c \in Certificates, NEW members \in OfferedRosters,
               ProveNext(h, c, members)
        PROVE  StoreInv'
    <3> DEFINE e == current.epoch + 1
               store == With(rosters, e, members)
    <3>1. e \in Epochs /\ e <= Target /\ members = ChainRoster[e]
      BY <2>7, NextRosterIsReal DEF ProveNext
    <3>2. DOMAIN store \subseteq Epochs /\ \A x \in DOMAIN store : store[x] = ChainRoster[x]
      <4> HIDE DEF e
      <4>1. DOMAIN store = DOMAIN rosters \cup {e}
        BY WithStore
      <4>2. \A x \in DOMAIN rosters \cup {e} : store[x] = IF x = e THEN members ELSE rosters[x]
        BY DEF With
      <4> HIDE DEF store
      <4> QED
        BY <3>1, <4>1, <4>2
    <3>3. /\ rosters' = Evict(store) /\ current' = [epoch |-> e, members |-> members]
          /\ UNCHANGED <<pc, kind, header, cert>> /\ pc = "walk"
      BY <2>7 DEF ProveNext
    <3> HIDE DEF e, store
    <3>4. DOMAIN rosters' \subseteq Epochs /\ \A x \in DOMAIN rosters' : rosters'[x] = ChainRoster[x]
      BY <3>2, <3>3, EvictKeepsRosters
    <3> QED
      BY <3>1, <3>3, <3>4 DEF Target
  <2>8. CASE ProveHeader
    BY <2>8 DEF ProveHeader, Idle
  <2>9. CASE Fail
    BY <2>9 DEF Fail, Idle
  <2>10. CASE UNCHANGED vars
    BY <2>10 DEF vars, Target
  <2> QED
    BY <2>1, <2>2, <2>4, <2>5, <2>6, <2>7, <2>8, <2>9, <2>10 DEF Next, Answer
<1> QED
  BY <1>1, <1>2, PTL DEF Spec

\* A client trusts only rosters the chain has.
THEOREM RostersAreReal == Spec => []TrustedRostersAreReal
<1>1. StoreInv => TrustedRostersAreReal
  BY DEF StoreInv, TrustedRostersAreReal
<1> QED
  BY <1>1, StoreInvariant, PTL

\* Whatever a gateway answered before, the chain's own sealing block,
\* certificate and roster pass at every turn of a walk: no lie brings a client
\* to a roster from which the truth would be refused (roster_for_epoch).
THEOREM HonestNeverRefused == Spec => []HonestAnswersPass
<1>1. StoreInv => HonestAnswersPass
  <2> DEFINE e == current.epoch
             h == ChainHeader[SealingHeight(e)]
  <2>1. SUFFICES ASSUME StoreInv, pc = "walk", e < Target
                 PROVE  \E c \in Certificates :
                          VerifyNextRoster(current, h, c, ChainRoster[e + 1])
    BY DEF HonestAnswersPass
  <2>2. e \in Epochs /\ header \in Headers /\ current.members = ChainRoster[e]
    BY <2>1 DEF StoreInv
  <2>3. Target \in Epochs
    BY <2>2, EpochType DEF Target
  <2>4. e \in 0 .. MaxEpoch - 1 /\ e \in Nat /\ e + 1 \in Epochs
    BY <2>1, <2>2, <2>3 DEF Epochs
  <2> HIDE DEF e
  <2>5. h.height = SealingHeight(e) /\ EpochOf(h.height) = e
    BY <2>4, SealingType, SealingIsInEpoch
  <2>6. h.commits = [epoch |-> e + 1, roster |-> ChainRoster[e + 1]]
    BY <2>4, CommitAssumption
  <2>7. PICK c \in Certificates : VerifyFinality(h, c, ChainRoster[e])
    <3>1. PICK c \in Certificates : Certifies(c, h, e)
      BY <2>4, SealedAssumption
    <3> QED
      BY <2>2, <3>1, CertifiedIsFinal
  <2>8. ChainRoster[e + 1] # {}
    BY <2>4, SealedAssumption DEF WellFormedRoster
  <2> HIDE DEF h
  <2>9. VerifyNextRoster(current, h, c, ChainRoster[e + 1])
    BY <2>2, <2>5, <2>6, <2>7, <2>8 DEF VerifyNextRoster, VerifyFinalityInEpoch, e
  <2> QED
    BY <2>9
<1> QED
  BY <1>1, StoreInvariant, PTL

\* A header found final is the chain's.
THEOREM FinalHeadersAreReal == Spec => []FoundHeadersAreReal
<1>1. Init => FoundHeadersAreReal
  BY DEF Init, FoundHeadersAreReal
<1>2. StoreInv /\ FoundHeadersAreReal /\ [Next]_vars => FoundHeadersAreReal'
  <2> SUFFICES ASSUME StoreInv, FoundHeadersAreReal, [Next]_vars PROVE FoundHeadersAreReal'
    OBVIOUS
  <2>1. CASE ProveHeader
    <3>1. /\ header \in Headers /\ cert \in Certificates /\ current.epoch \in Epochs
          /\ VerifyFinality(header, cert, ChainRoster[current.epoch])
          /\ EpochOf(header.height) = current.epoch /\ found' = header
      BY <2>1 DEF ProveHeader, StoreInv, VerifyFinalityInEpoch
    <3> QED
      BY <3>1, FinalIsReal DEF FoundHeadersAreReal
  <2>2. CASE UNCHANGED found
    BY <2>2 DEF FoundHeadersAreReal
  <2>3. CASE found' = NoHeader
    BY <2>3 DEF FoundHeadersAreReal
  <2> QED
    BY <2>1, <2>2, <2>3
    DEF Next, Answer, TrustRosterAt, Begin, AlreadyAnchored, AnchorPinned, Certify, ProveNext, Fail, vars
<1> QED
  BY <1>1, <1>2, StoreInvariant, PTL DEF Spec

-----------------------------------------------------------------------------
\* The anchor is the oldest epoch kept, and the cache keeps its bound.
THEOREM AnchorInvariant == Spec => []AnchorInv
<1>1. Init => AnchorInv
  BY FS_EmptySet DEF Init, AnchorInv, NoStore
<1>2. StoreInv /\ AnchorInv /\ [Next]_vars => AnchorInv'
  <2> SUFFICES ASSUME StoreInv, AnchorInv, [Next]_vars PROVE AnchorInv'
    OBVIOUS
  <2>a. DOMAIN rosters \subseteq Epochs /\ DOMAIN rosters \in SUBSET Nat
    BY DEF StoreInv, Epochs
  <2>b. ASSUME NEW e \in Epochs, DOMAIN rosters' = {e}, anchor' = e,
               pc' = "walk" => current'.epoch = e
        PROVE  AnchorInv'
    <3>1. IsFiniteSet({e}) /\ Cardinality({e}) = 1
      BY FS_Singleton
    <3>2. e # NoEpoch /\ e <= e
      BY DEF NoEpoch, Epochs
    <3> QED
      BY <2>b, <3>1, <3>2 DEF AnchorInv
  <2>c. ASSUME UNCHANGED <<rosters, anchor>>, NEW target, StartWalk(rosters, target)
        PROVE  AnchorInv'
    <3>1. pc' = "walk" /\ current'.epoch \in DOMAIN rosters
      BY <2>a, <2>c, WalkStarts
    <3> QED
      BY <2>c, <3>1 DEF AnchorInv
  <2>d. ASSUME UNCHANGED <<rosters, anchor>>, pc' # "walk" PROVE AnchorInv'
    BY <2>d DEF AnchorInv
  <2>1. ASSUME NEW e \in Epochs, TrustRosterAt(e) PROVE AnchorInv'
    <3>1. DOMAIN rosters' = {e} /\ anchor' = e /\ pc' # "walk"
      BY <2>1, SingleStore DEF TrustRosterAt
    <3> QED
      BY <2>b, <3>1
  <2>2. ASSUME NEW k \in {"head", "proof"}, Begin(k) PROVE AnchorInv'
    BY <2>2, <2>d DEF Begin
  <2>3. CASE AlreadyAnchored
    BY <2>3, <2>c, <2>d DEF AlreadyAnchored, Anchored
  <2>4. ASSUME NEW members \in OfferedRosters, AnchorPinned(members) PROVE AnchorInv'
    <3>0. 0 \in Epochs
      BY DEF Epochs
    <3>1. DOMAIN rosters' = {0} /\ anchor' = 0
      BY <2>4, SingleStore DEF AnchorPinned
    <3>2. pc' = "walk" => current'.epoch = 0
      BY <2>4, <3>0, <3>1, WalkStarts DEF AnchorPinned, Anchored
    <3> QED
      BY <2>b, <3>0, <3>1, <3>2
  <2>5. ASSUME NEW h \in Headers, NEW c \in Certificates, Certify(h, c) PROVE AnchorInv'
    BY <2>5, <2>c, <2>d DEF Certify
  <2>6. ASSUME NEW h \in Headers, NEW c \in Certificates, NEW members \in OfferedRosters,
               ProveNext(h, c, members)
        PROVE  AnchorInv'
    <3> DEFINE e == current.epoch + 1
               store == With(rosters, e, members)
    <3>1. /\ rosters' = Evict(store) /\ current'.epoch = e /\ pc = "walk"
          /\ UNCHANGED <<pc, anchor>>
      BY <2>6 DEF ProveNext
    <3>2. /\ e \in Nat /\ anchor # NoEpoch /\ anchor \in DOMAIN rosters /\ anchor \in Nat
          /\ anchor <= e /\ \A x \in DOMAIN rosters : anchor <= x
      BY <2>a, <3>1 DEF AnchorInv, StoreInv, Epochs
    <3>3. DOMAIN store = DOMAIN rosters \cup {e}
      BY WithStore
    <3>4. IsFiniteSet(DOMAIN store) /\ Cardinality(DOMAIN store) <= KeptRosters + 1
      <4>1. IsFiniteSet(DOMAIN rosters) /\ Cardinality(DOMAIN rosters) <= KeptRosters
        BY DEF AnchorInv
      <4>2. Cardinality(DOMAIN rosters) \in Nat
        BY <4>1, FS_CardinalityType
      <4>3. /\ IsFiniteSet(DOMAIN rosters \cup {e})
            /\ Cardinality(DOMAIN rosters \cup {e}) =
                 IF e \in DOMAIN rosters THEN Cardinality(DOMAIN rosters)
                 ELSE Cardinality(DOMAIN rosters) + 1
        BY <4>1, FS_AddElement
      <4> QED
        BY <3>3, <4>1, <4>2, <4>3
    <3>5. DOMAIN store \in SUBSET Nat /\ anchor \in DOMAIN store /\ \A x \in DOMAIN store : anchor <= x
      BY <2>a, <3>2, <3>3
    <3> HIDE DEF e, store
    <3>6. /\ IsFiniteSet(DOMAIN rosters') /\ Cardinality(DOMAIN rosters') <= KeptRosters
          /\ DOMAIN rosters' \subseteq DOMAIN store /\ anchor \in DOMAIN rosters'
      BY <3>1, <3>4, <3>5, EvictKeepsOldest
    <3> QED
      BY <3>1, <3>2, <3>5, <3>6 DEF AnchorInv
  <2>7. CASE ProveHeader \/ Fail
    BY <2>7, <2>d DEF ProveHeader, Fail, Idle
  <2>8. CASE UNCHANGED vars
    BY <2>8 DEF vars, AnchorInv
  <2> QED
    BY <2>1, <2>2, <2>3, <2>4, <2>5, <2>6, <2>7, <2>8 DEF Next, Answer
<1> QED
  BY <1>1, <1>2, StoreInvariant, PTL DEF Spec

\* Eviction never drops the anchor, and the cache stays within its bound.
THEOREM AnchorStays == Spec => []AnchorIsKept
<1>1. StoreInv /\ AnchorInv => AnchorIsKept
  <2> SUFFICES ASSUME StoreInv, AnchorInv PROVE AnchorIsKept
    OBVIOUS
  <2>1. DOMAIN rosters \in SUBSET Nat
    BY DEF StoreInv, Epochs
  <2>2. ASSUME DOMAIN rosters # {} PROVE anchor = Min(DOMAIN rosters)
    <3>1. anchor \in DOMAIN rosters /\ \A e \in DOMAIN rosters : anchor <= e
      BY <2>2 DEF AnchorInv
    <3> QED
      BY <2>1, <3>1, MinIs
  <2> QED
    BY <2>2 DEF AnchorInv, AnchorIsKept
<1> QED
  BY <1>1, StoreInvariant, AnchorInvariant, PTL
=============================================================================
