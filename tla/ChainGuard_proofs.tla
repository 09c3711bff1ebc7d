-------------------------- MODULE ChainGuard_proofs --------------------------
(* That a client signs only for the chain and genesis it chose, for any      *)
(* chains, genesis hashes and networks.                                      *)
EXTENDS ChainGuard, TLAPS

USE ChainsAssumption

\* A granted chain id is the client's choice, and what was chosen before
\* stays chosen: a pinned chain is never replaced.
LEMMA ChainIdChosen ==
  ASSUME TypeOK, NEW chain \in Chains, GuardMainnet, SigningChainId(chain),
         UNCHANGED <<network, acknowledged>>
  PROVE  /\ Chosen(chain)'
         /\ pinned' \in Chains \cup {None}
         /\ network.chain # None => pinned' = None
         /\ \A c \in Chains : Chosen(c) => Chosen(c)'
  BY DEF TypeOK, GuardMainnet, SigningChainId, Chosen

\* Steps that leave the choice of chain alone keep what was chosen.
LEMMA ChosenKept ==
  ASSUME UNCHANGED <<network, acknowledged, pinned>>, NEW c
  PROVE  Chosen(c)' <=> Chosen(c)
  BY DEF Chosen

\* The state is well typed, and only a client of an unnamed network pins.
THEOREM TypeCorrect == Spec => []TypeOK
<1>1. Init => TypeOK
  BY DEF Init, TypeOK, NoInfo
<1>2. TypeOK /\ [Next]_vars => TypeOK'
  <2> SUFFICES ASSUME TypeOK, [Next]_vars PROVE TypeOK'
    OBVIOUS
  <2>1. CASE \E g \in Geneses : TrustRosterAt(g)
    BY <2>1 DEF TypeOK, TrustRosterAt
  <2>2. ASSUME NEW i \in Infos, Begin(i) PROVE TypeOK'
    <3>1. i.chain \in Chains
      BY DEF Infos
    <3>2. pinned' \in Chains \cup {None} /\ (network.chain # None => pinned' = None)
      BY <2>2, <3>1, ChainIdChosen DEF Begin
    <3> QED
      BY <2>2, <3>2 DEF TypeOK, Begin
  <2>3. CASE CheckGenesis
    BY <2>3 DEF TypeOK, CheckGenesis
  <2>4. CASE Anchor
    BY <2>4 DEF TypeOK, Anchor, RosterPinned
  <2>5. CASE VerifyHead
    BY <2>5 DEF TypeOK, VerifyHead
  <2>6. CASE TrustHead
    BY <2>6 DEF TypeOK, TrustHead
  <2>7. ASSUME Sign PROVE TypeOK'
    BY <2>7 DEF TypeOK, Sign, SigningGenesis, NoInfo, Infos
  <2>8. CASE Fail
    BY <2>8 DEF TypeOK, Fail, NoInfo
  <2>9. CASE UNCHANGED vars
    BY <2>9 DEF TypeOK, vars
  <2> QED
    BY <2>1, <2>2, <2>3, <2>4, <2>5, <2>6, <2>7, <2>8, <2>9 DEF Next
<1> QED
  BY <1>1, <1>2, PTL DEF Spec

-----------------------------------------------------------------------------
\* A call keeps what it has established, and a signature what it was made with.
THEOREM GuardInvariant == Spec => []GuardInv
<1>1. Init => GuardInv
  BY DEF Init, GuardInv
<1>2. TypeOK /\ GuardInv /\ [Next]_vars => GuardInv'
  <2> SUFFICES ASSUME TypeOK, GuardInv, [Next]_vars PROVE GuardInv'
    OBVIOUS
  <2> USE DEF Proven
  <2>1. ASSUME NEW g \in Geneses, TrustRosterAt(g) PROVE GuardInv'
    BY <2>1, ChosenKept DEF GuardInv, TrustRosterAt
  <2>2. ASSUME NEW i \in Infos, Begin(i) PROVE GuardInv'
    <3>1. i.chain \in Chains
      BY DEF Infos
    <3>2. Chosen(i.chain)' /\ \A c \in Chains : Chosen(c) => Chosen(c)'
      BY <2>2, <3>1, ChainIdChosen DEF Begin
    <3>3. \A s \in signed : s.chain \in Chains
      BY DEF TypeOK
    <3> QED
      BY <2>2, <3>2, <3>3 DEF GuardInv, Begin
  <2>3. CASE CheckGenesis
    BY <2>3, ChosenKept DEF GuardInv, CheckGenesis
  <2>4. CASE Anchor
    BY <2>4, ChosenKept DEF GuardInv, Anchor, RosterPinned
  <2>5. CASE VerifyHead
    BY <2>5, ChosenKept DEF GuardInv, VerifyHead
  <2>6. CASE TrustHead
    BY <2>6, ChosenKept DEF GuardInv, TrustHead, NeedsRoster
  <2>7. CASE Sign
    <3> DEFINE new == [chain |-> info.chain, genesis |-> info.genesis, trusted |-> trusted]
    <3>1. Chosen(info.chain) /\ Proven(info.chain, trusted)
      BY <2>7 DEF GuardInv, Sign
    <3>2. trusted \in {None, info.genesis}
      BY <2>7 DEF Sign, SigningGenesis
    <3>3. info.chain \in Publics => info.genesis = network.genesis
      BY <2>7 DEF Sign, SigningGenesis
    <3>4. \A s \in signed' : s \in signed \/ s = new
      BY <2>7 DEF Sign
    <3> QED
      BY <2>7, <3>1, <3>2, <3>3, <3>4, ChosenKept DEF GuardInv, Sign
  <2>8. CASE Fail
    BY <2>8, ChosenKept DEF GuardInv, Fail
  <2>9. CASE UNCHANGED vars
    BY <2>9, ChosenKept DEF GuardInv, vars
  <2> QED
    BY <2>1, <2>2, <2>3, <2>4, <2>5, <2>6, <2>7, <2>8, <2>9 DEF Next
<1> QED
  BY <1>1, <1>2, TypeCorrect, PTL DEF Spec

\* All signatures of a client name one chain.
THEOREM SignsForOneChain == Spec => []OneChain
<1>1. GuardInv => OneChain
  BY DEF GuardInv, OneChain, Chosen
<1> QED
  BY <1>1, GuardInvariant, PTL

\* A trusted roster binds every signature to a network it attests to.
THEOREM TrustBinds == Spec => []TrustBindsSignatures
<1>1. GuardInv => TrustBindsSignatures
  BY DEF GuardInv, TrustBindsSignatures, Proven
<1> QED
  BY <1>1, GuardInvariant, PTL

\* Public chains are signed for with their pinned genesis and a proved head.
THEOREM PublicSignaturesProven == Spec => []PublicIsProven
<1>1. GuardInv => PublicIsProven
  BY DEF GuardInv, PublicIsProven, Proven
<1> QED
  BY <1>1, GuardInvariant, PTL

\* Nothing is signed for mainnet without acknowledgement.
THEOREM MainnetAcknowledged == Spec => []MainnetIsMeant
<1>1. GuardInv => MainnetIsMeant
  BY DEF GuardInv, MainnetIsMeant, Chosen
<1> QED
  BY <1>1, GuardInvariant, PTL
=============================================================================
