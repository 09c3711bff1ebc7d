------------------------------ MODULE ChainGuard ------------------------------
(* Which chain and which genesis a Client signs for (src/src/lib.rs,         *)
(* mod client): guard_mainnet, signing_chain_id with the chain it pins,      *)
(* signing_genesis, and the part of validity that asks for a roster.  One    *)
(* call at a time; the gateway answers node_info with any chain and genesis. *)
(* What the head of the chain is, and how a roster proves it, are the        *)
(* subjects of HeadGuard and RosterStore.                                    *)
EXTENDS Naturals, FiniteSets

CONSTANTS Chains,        \* chain names a gateway reports
          Mainnets,      \* is_mainnet_chain
          Publics,       \* is_public_chain
          Retired,       \* RETIRED_CHAIN_NAMES
          Geneses,       \* genesis hashes
          None,
          Networks,      \* what a Client is opened with
          RealNetworks   \* [chain, genesis] whose validators attest heads

(* A network is [chain, mainnet, genesis, roster, epochs]: the configured    *)
(* chain id or None, is_mainnet, the pinned genesis or None, whether a       *)
(* roster commitment and whether an epoch length are pinned.                 *)

ASSUME ChainsAssumption ==
  /\ Mainnets \subseteq Publics
  /\ Publics \subseteq Chains
  /\ None \notin Chains \cup Geneses
  /\ Networks \subseteq [chain : Chains \cup {None}, mainnet : BOOLEAN,
                         genesis : Geneses \cup {None}, roster : BOOLEAN, epochs : BOOLEAN]
  /\ RealNetworks \subseteq [chain : Chains, genesis : Geneses]

VARIABLES network, acknowledged,  \* the fields of the Client, fixed
          pinned,    \* pinned_chain
          trusted,   \* the genesis of trusted_roster
          pc, info,  \* the call in progress and what node_info answered
          signed     \* history: [chain, genesis, trusted] of the signatures

vars == <<network, acknowledged, pinned, trusted, pc, info, signed>>

Infos  == [chain : Chains, genesis : Geneses]
NoInfo == [chain |-> None, genesis |-> None]

TypeOK ==
  /\ network \in Networks
  /\ acknowledged \in BOOLEAN
  /\ pinned \in Chains \cup {None}
  /\ network.chain # None => pinned = None
  /\ trusted \in Geneses \cup {None}
  /\ pc \in {"idle", "genesis", "anchor", "head", "sign"}
  /\ IF pc = "idle" THEN info = NoInfo ELSE info \in Infos
  /\ signed \subseteq [chain : Chains, genesis : Geneses, trusted : Geneses \cup {None}]

Init ==
  /\ network \in Networks
  /\ acknowledged \in BOOLEAN
  /\ pinned = None
  /\ trusted = None
  /\ pc = "idle"
  /\ info = NoInfo
  /\ signed = {}

-----------------------------------------------------------------------------
\* trust_roster_at: the caller may name any genesis.
TrustRosterAt(g) ==
  /\ pc = "idle"
  /\ trusted' = g
  /\ UNCHANGED <<network, acknowledged, pinned, pc, info, signed>>

GuardMainnet == network.mainnet => acknowledged

\* A slip: the chain is compared with the pinned one only when public.
SigningChainIdUnpinned(chain) ==
  /\ chain \notin Retired
  /\ chain \in Mainnets => acknowledged
  /\ IF network.chain # None
     THEN chain = network.chain /\ UNCHANGED pinned
     ELSE /\ chain \in Publics => chain \in Mainnets
          /\ pinned' = chain

\* A slip: only the flag of the network is looked at, never the chain name.
SigningChainIdByFlag(chain) ==
  /\ chain \notin Retired
  /\ IF network.chain # None
     THEN chain = network.chain /\ UNCHANGED pinned
     ELSE /\ chain \in Publics => chain \in Mainnets
          /\ pinned \in {None, chain}
          /\ pinned' = chain

\* A client without a configured chain signs for no public one, but for an
\* acknowledged mainnet, and keeps to the first chain it accepts.
SigningChainId(chain) ==
  /\ chain \notin Retired
  /\ chain \in Mainnets => acknowledged
  /\ IF network.chain # None
     THEN chain = network.chain /\ UNCHANGED pinned
     ELSE /\ chain \in Publics => chain \in Mainnets
          /\ pinned \in {None, chain}
          /\ pinned' = chain

\* A slip: the roster the client trusts has no say.
SigningGenesisPinnedOnly(i) ==
  IF network.genesis # None THEN i.genesis = network.genesis ELSE i.chain \notin Publics

SigningGenesis(i) ==
  /\ trusted \in {None, i.genesis}
  /\ IF network.genesis # None THEN i.genesis = network.genesis ELSE i.chain \notin Publics

\* A call from its start to its deadline; a refusal changes nothing.
Begin(i) ==
  /\ pc = "idle"
  /\ GuardMainnet
  /\ SigningChainId(i.chain)
  /\ info' = i
  /\ pc' = "genesis"
  /\ UNCHANGED <<network, acknowledged, trusted, signed>>

\* validity: the genesis first.
CheckGenesis ==
  /\ pc = "genesis"
  /\ SigningGenesis(info)
  /\ pc' = "anchor"
  /\ UNCHANGED <<network, acknowledged, pinned, trusted, info, signed>>

RosterPinned == network.genesis # None /\ network.roster

\* verify_head, anchor_pinned_roster: a roster is held, or the gateway's is
\* the one the commitment names.
Anchor ==
  /\ pc = "anchor"
  /\ \/ trusted # None /\ UNCHANGED trusted
     \/ trusted = None /\ RosterPinned /\ trusted' = network.genesis
  /\ pc' = "head"
  /\ UNCHANGED <<network, acknowledged, pinned, info, signed>>

\* verify_head: a certificate for the head binds the chain id and the genesis.
VerifyHead ==
  /\ pc = "head"
  /\ network.epochs
  /\ [chain |-> info.chain, genesis |-> trusted] \in RealNetworks
  /\ pc' = "sign"
  /\ UNCHANGED <<network, acknowledged, pinned, trusted, info, signed>>

\* A slip: only the name of the network counts as public.
NeedsRosterByFlag == network.mainnet

\* Without a roster neither mainnet (verify_head) nor any public chain
\* (validity) is signed for.
NeedsRoster ==
  \/ network.mainnet
  \/ info.chain \in Publics
  \/ network.chain \in Mainnets

TrustHead ==
  /\ pc = "anchor"
  /\ trusted = None
  /\ ~RosterPinned
  /\ ~NeedsRoster
  /\ pc' = "sign"
  /\ UNCHANGED <<network, acknowledged, pinned, trusted, info, signed>>

\* The nonce is granted; the genesis is checked again for the signature.
Sign ==
  /\ pc = "sign"
  /\ SigningGenesis(info)
  /\ signed' = signed \cup
       {[chain |-> info.chain, genesis |-> info.genesis, trusted |-> trusted]}
  /\ pc' = "idle"
  /\ info' = NoInfo
  /\ UNCHANGED <<network, acknowledged, pinned, trusted>>

\* An error on the way.  What was pinned and anchored stays.
Fail ==
  /\ pc # "idle"
  /\ pc' = "idle"
  /\ info' = NoInfo
  /\ UNCHANGED <<network, acknowledged, pinned, trusted, signed>>

Next ==
  \/ \E g \in Geneses : TrustRosterAt(g)
  \/ \E i \in Infos : Begin(i)
  \/ CheckGenesis
  \/ Anchor
  \/ VerifyHead
  \/ TrustHead
  \/ Sign
  \/ Fail

Spec == Init /\ [][Next]_vars

-----------------------------------------------------------------------------
\* All signatures of a client name one chain, the configured one if there is
\* one, whatever its gateway says from one call to the next
\* (signing_chain_id, pinned_chain).
OneChain ==
  /\ \A s, t \in signed : s.chain = t.chain
  /\ network.chain # None => \A s \in signed : s.chain = network.chain

\* A signature for a public chain carries the genesis pinned for its network
\* and was made with a trusted roster of a network that attests to its head
\* (README.md:64, "The client signs for a public network only with the genesis
\* hash pinned"; README.md:70, "refuses to sign until it has a trusted roster").
PublicIsProven ==
  \A s \in signed : s.chain \in Publics =>
    /\ s.genesis = network.genesis
    /\ s.trusted = s.genesis
    /\ [chain |-> s.chain, genesis |-> s.genesis] \in RealNetworks

\* With a roster trusted, no signature carries another genesis than the one
\* of that roster, nor names a chain its validators do not attest to: a
\* gateway cannot borrow a real head for another network's signature.
TrustBindsSignatures ==
  \A s \in signed : s.trusted # None =>
    /\ s.genesis = s.trusted
    /\ [chain |-> s.chain, genesis |-> s.genesis] \in RealNetworks

\* Nothing is signed for mainnet, known by the flag of the network or by the
\* name of the chain, without acknowledgement.
MainnetIsMeant ==
  (\E s \in signed : s.chain \in Mainnets) \/ (network.mainnet /\ signed # {})
    => acknowledged

-----------------------------------------------------------------------------
(* The invariant the proofs use: what the call in progress has established   *)
(* about its chain and genesis, and what each signature keeps of it.         *)

\* The chain is the client's choice, and stays so.
Chosen(chain) ==
  /\ chain = IF network.chain # None THEN network.chain ELSE pinned
  /\ chain \in Mainnets \/ network.mainnet => acknowledged

\* g is the genesis of the roster the head was proved with, or None.
Proven(chain, g) ==
  IF g = None THEN chain \notin Publics
  ELSE [chain |-> chain, genesis |-> g] \in RealNetworks

\* What a call may count on at each of its steps, and what holds of every
\* signature for good: its chain was chosen, its head proved with the roster
\* it names, and its genesis that roster's and the pinned one.
GuardInv ==
  /\ pc # "idle" => Chosen(info.chain)
  /\ pc = "head" => trusted # None
  /\ pc = "sign" => Proven(info.chain, trusted)
  /\ \A s \in signed :
       /\ Chosen(s.chain)
       /\ Proven(s.chain, s.trusted)
       /\ s.trusted \in {None, s.genesis}
       /\ s.chain \in Publics => s.genesis = network.genesis
=============================================================================
