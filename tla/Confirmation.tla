----------------------------- MODULE Confirmation -----------------------------
(* How a Client learns what became of a transaction (src/src/lib.rs):        *)
(* transaction, confirm_inclusion, confirm_inclusion_trusted,                *)
(* confirm_transaction and confirm_call_event.  One call at a time, each     *)
(* gateway request a step.  A header that is proved final is the chain's     *)
(* header of its height, which RosterStore establishes; headers bind the     *)
(* transactions and events of a block by Merkle roots.                       *)
EXTENDS MerklePath

CONSTANTS Txs,          \* transaction ids; an id binds its transaction
          ContractCalls,\* those transaction_kind finds to be calls
          Chain,        \* height -> [txs, events], both sequences
          Topics,       \* contract and selector of an event
          Data,         \* data of an event
          AnyData,      \* the caller asks for no particular data
          Chains, RealChain, Mainnets,
          None,
          Networks,     \* [chain, mainnet, pinned]
          GivenEpoch,   \* heights of the epoch whose roster a caller supplies
          MaxIndex,     \* bound: positions a gateway names
          MaxEvents     \* bound: events a gateway lists for a block

Heights == DOMAIN Chain

(* An event of the chain is [tx, topic, data]; the list of get_events has    *)
(* only [topic, data]; a question of confirm_call_event is one too, with     *)
(* AnyData for no data.                                                      *)
Listing == [topic : Topics, data : Data]
Question == [topic : Topics, data : Data \cup {AnyData}]

\* The chain applies a transaction once: an id is in one block at most.
ASSUME ChainAssumption ==
  /\ ContractCalls \subseteq Txs
  /\ \A h \in Heights :
       /\ Chain[h].txs \in Seq(Txs)
       /\ Chain[h].events \in Seq([tx : Txs, topic : Topics, data : Data])
       /\ \A g \in Heights \ {h} : ToSet(Chain[g].txs) \cap ToSet(Chain[h].txs) = {}
  /\ RealChain \in Chains /\ Mainnets \subseteq Chains /\ None \notin Chains
  /\ Networks \subseteq [chain : Chains \cup {None}, mainnet : BOOLEAN, pinned : BOOLEAN]
  /\ GivenEpoch \subseteq Heights
  /\ AnyData \notin Data

Kinds == {"status", "inclusion", "given", "settled", "event"}

VARIABLES network,    \* the Network of the Client, fixed
          trusted,    \* a roster is held
          pc, kind, tx, question,  \* the call in progress
          honest,     \* history: this call is answered truthfully, and in time
          reported,   \* height of the status the gateway reported
          block,      \* height of the block the transaction was proved in
          listed,     \* what get_events answered
          position,   \* 0-based place of the loop of confirm_call_event
          result      \* what the last call returned

vars == <<network, trusted, pc, kind, tx, question, honest, reported, block,
          listed, position, result>>

call == <<network, kind, tx, question, honest>>

Nothing == -1

\* "index": the position of the transaction, or of its event.
Returned(outcome, height, index) == [is |-> outcome, height |-> height, index |-> index]
Failed == Returned("error", Nothing, Nothing)

TypeOK ==
  /\ network \in Networks
  /\ trusted \in BOOLEAN
  /\ pc \in {"idle", "status", "anchor", "node", "info", "proof", "events", "event"}
  /\ kind \in Kinds /\ tx \in Txs /\ question \in Question /\ honest \in BOOLEAN
  /\ reported \in Heights \cup {Nothing}
  /\ block \in Heights \cup {Nothing}
  /\ listed \in Seq(Listing)
  /\ position \in 0 .. Len(listed)
  /\ result \in [is : {"error", "pending", "finalised", "included", "unverified",
                       "applied", "unproven", "event"},
                 height : Heights \cup {Nothing}, index : Nothing .. MaxIndex]

Init ==
  /\ network \in Networks
  /\ trusted = FALSE
  /\ pc = "idle" /\ kind = "status" /\ tx \in Txs /\ question \in Question /\ honest = FALSE
  /\ reported = Nothing /\ block = Nothing
  /\ listed = <<>> /\ position = 0
  /\ result = Failed

Return(r) ==
  /\ result' = r
  /\ pc' = "idle"
  /\ reported' = Nothing /\ block' = Nothing
  /\ listed' = <<>> /\ position' = 0

-----------------------------------------------------------------------------
(* What a truthful gateway says. *)

BlocksOf(t) == {h \in Heights : t \in ToSet(Chain[h].txs)}

TruePosition(h, t) == (CHOOSE i \in DOMAIN Chain[h].txs : Chain[h].txs[i] = t) - 1

TrueListing(h) ==
  [i \in DOMAIN Chain[h].events |->
     [topic |-> Chain[h].events[i].topic, data |-> Chain[h].events[i].data]]

-----------------------------------------------------------------------------
\* trust_roster, after which the result of the call before is of no interest.
TrustRoster ==
  /\ pc = "idle"
  /\ trusted' = TRUE
  /\ honest' = FALSE
  /\ result' = Failed
  /\ UNCHANGED <<network, kind, tx, question, pc, reported, block, listed, position>>

Begin(k, t, q, h) ==
  /\ pc = "idle"
  /\ kind' = k /\ tx' = t /\ honest' = h
  /\ question' = IF k = "event" THEN q ELSE question
  /\ result' = Failed
  /\ pc' = IF k = "status" THEN "status" ELSE "info"
  /\ UNCHANGED <<network, trusted, reported, block, listed, position>>

\* transaction_reported: anything but finalised is passed on.
ReportPending ==
  /\ pc = "status"
  /\ honest => BlocksOf(tx) = {}
  /\ Return(Returned("pending", Nothing, Nothing))
  /\ UNCHANGED <<call, trusted>>

ReportFinalised(h) ==
  /\ pc = "status"
  /\ honest => h \in BlocksOf(tx)
  /\ reported' = h
  /\ pc' = "anchor"
  /\ UNCHANGED <<call, trusted, block, listed, position, result>>

\* anchor_pinned_roster, in transaction and then in roster_for_epoch.
CanAnchor == trusted \/ network.pinned

ConfiguredMainnet == network.mainnet \/ network.chain \in Mainnets

Anchor ==
  /\ CanAnchor
  /\ trusted' = TRUE
  /\ \/ pc = "anchor" /\ pc' = "info"
     \/ pc = "proof" /\ kind # "given" /\ ~trusted /\ UNCHANGED pc
  /\ UNCHANGED <<call, reported, block, listed, position, result>>

NoAnchor ==
  /\ pc = "anchor"
  /\ ~CanAnchor
  /\ IF ConfiguredMainnet
     THEN Return(Failed)
     ELSE pc' = "node" /\ UNCHANGED <<reported, block, listed, position, result>>
  /\ UNCHANGED <<call, trusted>>

\* node_info of transaction: the gateway's word for the chain.
Unverified(chain) ==
  /\ pc = "node"
  /\ honest => chain = RealChain
  /\ chain \notin Mainnets
  /\ Return(Returned("unverified", reported, Nothing))
  /\ UNCHANGED <<call, trusted>>

\* inclusion: checked_chain.  Only a header of the real chain verifies, so
\* another name goes no further than the proof.
CheckedChain(chain) ==
  /\ pc = "info"
  /\ honest => chain = RealChain
  /\ network.chain \in {None, chain}
  /\ chain = RealChain
  /\ pc' = "proof"
  /\ UNCHANGED <<call, trusted, reported, block, listed, position, result>>

\* The header of height h verifies under the roster of its epoch.
FinalUnder(h) == IF kind = "given" THEN h \in GivenEpoch ELSE trusted

IsCall(t) == t \in ContractCalls

\* A slip: transaction answers with the height the gateway reported.
ConfirmedReported(h, index) ==
  CASE kind = "status"  -> Returned(IF IsCall(tx) THEN "included" ELSE "finalised", reported, Nothing)
    [] kind = "settled" -> IF IsCall(tx) THEN Failed ELSE Returned("applied", h, index)
    [] OTHER            -> Returned(IF IsCall(tx) THEN "unproven" ELSE "applied", h, index)

\* What the call makes of a proved transaction: transaction, settled, or
\* the ConfirmedTransaction itself.
Confirmed(h, index) ==
  CASE kind = "status"  -> Returned(IF IsCall(tx) THEN "included" ELSE "finalised", h, Nothing)
    [] kind = "settled" -> IF IsCall(tx) THEN Failed ELSE Returned("applied", h, index)
    [] OTHER            -> Returned(IF IsCall(tx) THEN "unproven" ELSE "applied", h, index)

\* inclusion: the proof the gateway gives for the transaction.
ProveInclusion(h, index, path) ==
  /\ pc = "proof"
  /\ FinalUnder(h)
  /\ VerifyInclusion(Chain[h].txs, tx, path)
  /\ honest => index = TruePosition(h, tx)
  /\ IndexFitsPath(index, path)
  /\ IF kind = "event"
     THEN pc' = "events" /\ block' = h /\ UNCHANGED <<reported, listed, position, result>>
     ELSE Return(Confirmed(h, index))
  /\ UNCHANGED <<call, trusted>>

ListEvents(list) ==
  /\ pc = "events"
  /\ honest => list = TrueListing(block)
  /\ listed' = list
  /\ pc' = "event"
  /\ UNCHANGED <<call, trusted, reported, block, position, result>>

Answers(event) ==
  event.topic = question.topic /\ question.data \in {AnyData, event.data}

\* An entry of the list the caller did not ask for.
SkipEvent ==
  /\ pc = "event"
  /\ position < Len(listed)
  /\ ~Answers(listed[position + 1])
  /\ position' = position + 1
  /\ UNCHANGED <<call, trusted, pc, reported, block, listed, result>>

\* A slip: any transaction's event will do.
ProvesCallOfAny(event, path) ==
  VerifyInclusion(Chain[block].events, event, path) /\ Answers(event)

ProvesCall(event, path) ==
  /\ VerifyInclusion(Chain[block].events, event, path)
  /\ event.tx = tx
  /\ Answers(event)

\* A slip: an event of another transaction ends the search.
ProveEventOnce(event, path) ==
  /\ pc = "event"
  /\ position < Len(listed)
  /\ Answers(listed[position + 1])
  /\ honest => event = Chain[block].events[position + 1]
                 /\ path = PathOf[Len(listed)][position]
  /\ Return(IF ProvesCall(event, path) THEN Returned("event", block, position) ELSE Failed)
  /\ UNCHANGED <<call, trusted>>

\* One that matches: the gateway proves some event, or fails to.
ProveEvent(event, path) ==
  /\ pc = "event"
  /\ position < Len(listed)
  /\ Answers(listed[position + 1])
  /\ honest => event = Chain[block].events[position + 1]
                 /\ path = PathOf[Len(listed)][position]
  /\ IF ProvesCall(event, path)
     THEN Return(Returned("event", block, position))
     ELSE position' = position + 1 /\ UNCHANGED <<pc, reported, block, listed, result>>
  /\ UNCHANGED <<call, trusted>>

NoEvent ==
  /\ pc = "event"
  /\ position = Len(listed)
  /\ Return(Failed)
  /\ UNCHANGED <<call, trusted>>

\* Anything refused, malformed or not answered.  A truthful gateway that can
\* answer does.
Fail ==
  /\ pc # "idle"
  /\ honest => \/ pc = "node" /\ RealChain \in Mainnets
               \/ pc = "info" /\ network.chain \notin {None, RealChain}
               \/ pc = "proof" /\ \A h \in BlocksOf(tx) : ~FinalUnder(h) /\ (kind # "given" => ~network.pinned)
  /\ Return(Failed)
  /\ UNCHANGED <<call, trusted>>

Paths == UNION {[1 .. n -> BOOLEAN] : n \in 0 .. 2}

Next ==
  \/ TrustRoster
  \/ \E k \in Kinds, t \in Txs, q \in Question, h \in BOOLEAN : Begin(k, t, q, h)
  \/ ReportPending
  \/ \E h \in Heights : ReportFinalised(h)
  \/ Anchor
  \/ NoAnchor
  \/ \E c \in Chains : Unverified(c)
  \/ \E c \in Chains : CheckedChain(c)
  \/ \E h \in Heights, index \in 0 .. MaxIndex, path \in Paths : ProveInclusion(h, index, path)
  \/ \E n \in 0 .. MaxEvents : \E list \in [1 .. n -> Listing] : ListEvents(list)
  \/ SkipEvent
  \/ \E event \in [tx : Txs, topic : Topics, data : Data], path \in Paths : ProveEvent(event, path)
  \/ NoEvent
  \/ Fail

Spec == Init /\ [][Next]_vars

-----------------------------------------------------------------------------
\* A status is never better than what was proved (README.md:68): finalised
\* means a transfer in that block of the chain, included a contract call in
\* it, applied a transfer; and a word that nothing proves is passed on only
\* without a roster and never by a client of mainnet.
StatusIsProved ==
  /\ result.is \in {"finalised", "included", "applied", "unproven", "event"} =>
       result.height \in BlocksOf(tx)
  /\ result.is \in {"finalised", "applied"} => ~IsCall(tx)
  /\ result.is \in {"included", "unproven"} => IsCall(tx)
  /\ result.is = "unverified" => ~CanAnchor /\ ~ConfiguredMainnet

\* A call is confirmed by an event only if this very transaction emitted an
\* event of the contract, selector and data asked for, in the block it is in,
\* whatever list and proofs the gateway gave.
EventIsProven ==
  result.is = "event" =>
    \E e \in ToSet(Chain[result.height].events) : e.tx = tx /\ Answers(e)

\* A truthful gateway is believed: with a roster, the status of a transaction
\* in the chain is its true one, and a call that emitted the event asked for
\* is confirmed by it, other transactions' events of the kind notwithstanding.
HonestGatewayIsBelieved ==
  pc = "idle" /\ honest /\ trusted /\ network.chain \in {None, RealChain} =>
    /\ kind = "status" /\ BlocksOf(tx) # {} => result.is \in {"finalised", "included"}
    /\ kind = "event"
         /\ (\E h \in BlocksOf(tx) : \E e \in ToSet(Chain[h].events) : e.tx = tx /\ Answers(e))
       => result.is = "event" /\ Chain[result.height].events[result.index + 1].tx = tx

\* While a proof is awaited, the positions inclusion would accept with a path
\* are exactly those some tree gives to it: an honest position is never
\* refused, and none is accepted that no block could give (index_fits_path).
PositionsFitSomeTree ==
  pc = "proof" => AcceptedPositions = TreePositions
=============================================================================
