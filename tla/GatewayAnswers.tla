---------------------------- MODULE GatewayAnswers ----------------------------
(* How the client reads the JSON objects a gateway answers with              *)
(* (src/src/lib.rs, src/src/contract.rs, src/src/finality.rs).  An object is *)
(* a function from keys to values, Missing where it has none; a text is a    *)
(* sequence of characters.  A reader answers with a set: of what it read, or *)
(* the empty set when it refuses.                                            *)
EXTENDS Positional, SequencesExt

CONSTANTS Numerals,     \* the digits, ASCII ones, with what they count
          Base,         \* the base of decimal texts: 10
          WideMax,      \* u128::MAX
          WordMax,      \* u64::MAX
          ByteMax,      \* u8::MAX
          Protocol,     \* GATEWAY_PROTOCOL
          MaxItems,     \* MAX_ROSTER, MAX_PROOF_STEPS
          HexTexts,     \* texts that are hex
          HashTexts     \* and of 32 bytes

ASSUME AnswerAssumption ==
  /\ Base \in Nat \ {0, 1}
  /\ Numerals \in [DOMAIN Numerals -> 0 .. Base - 1] /\ DOMAIN Numerals \subseteq STRING
  /\ \A n \in 0 .. Base - 1 : \E c \in DOMAIN Numerals : Numerals[c] = n
  /\ \A c, d \in DOMAIN Numerals : Numerals[c] = Numerals[d] => c = d
  /\ "0" \in DOMAIN Numerals /\ Numerals["0"] = 0
  /\ ByteMax \in Nat /\ WordMax \in Nat /\ WideMax \in Nat
  /\ ByteMax <= WordMax /\ WordMax <= WideMax
  /\ Protocol \in Nat /\ MaxItems \in Nat
  /\ HashTexts \subseteq HexTexts

Missing == <<"missing", 0>>
Null == <<"null", 0>>
NoValue == -1            \* None

NumberOf(text) == ValueOf(Base, [i \in DOMAIN text |-> Numerals[text[i]]])

\* whole_number: ASCII digits only, in range.
WholeNumber(text) ==
  IF text # <<>> /\ ToSet(text) \subseteq DOMAIN Numerals /\ NumberOf(text) <= WideMax
  THEN {NumberOf(text)} ELSE {}

\* canonical_decimal: no leading zero.
CanonicalDecimal(text) ==
  IF Len(text) > 1 /\ text[1] = "0" THEN {} ELSE WholeNumber(text)

\* Json::get, then as_str, as_u64, as_bool or as_array.
Typed(o, key, type) == {v[2] : v \in {w \in {o[key]} : w[1] = type}}

FieldStr(o, key) == Typed(o, key, "str")
FieldU64(o, key) == Typed(o, key, "int")
FieldU128(o, key) == UNION {WholeNumber(text) : text \in FieldStr(o, key)}
FieldU8(o, key) == {n \in FieldU64(o, key) : n <= ByteMax}
FieldDigits(o, key) ==
  {n \in UNION {CanonicalDecimal(text) : text \in FieldStr(o, key)} : n <= WordMax}
FieldHash(o, key) == FieldStr(o, key) \cap HashTexts

OptionalU128(o, key) == IF o[key] \in {Missing, Null} THEN {NoValue} ELSE FieldU128(o, key)

\* Every item of a list is read, or the list is refused.
AllRead(readings) ==
  IF {} \in ToSet(readings) THEN {}
  ELSE {[i \in DOMAIN readings |-> CHOOSE r \in readings[i] : TRUE]}

-----------------------------------------------------------------------------
\* gateway_protocol
GatewayProtocol(o) == FieldU64(o, "protocol") \cap {Protocol}

\* The prices inside the fee object.
Prices(fees) ==
  {[transfer |-> t, deploy |-> d, rate |-> r, unit |-> u] :
     t \in FieldU128(fees, "transfer_quon"), d \in OptionalU128(fees, "deploy_fee_quon"),
     r \in OptionalU128(fees, "rate_micro_usd_per_qtov"),
     u \in OptionalU128(fees, "quon_per_qtov")}

\* parse_node_info; "shown" stands for the denomination and the version.
ParseNodeInfo(o) ==
  {[chain |-> c, genesis |-> g, head |-> h, shown |-> s, protocol |-> p, fee |-> f] :
     c \in FieldStr(o, "chain_id"), g \in FieldStr(o, "genesis_hash"),
     h \in FieldU64(o, "head_height"), s \in FieldStr(o, "shown"),
     p \in GatewayProtocol(o), f \in UNION {Prices(fees) : fees \in Typed(o, "fee", "obj")}}

\* parse_account
ParseAccount(o) ==
  {[address |-> a, nonce |-> n, balance |-> b, scheme |-> s,
    hasKey |-> Typed(o, "has_key", "bool") = {TRUE}] :
     a \in FieldStr(o, "address"), n \in FieldU64(o, "nonce"),
     b \in FieldU128(o, "balance"), s \in FieldU8(o, "scheme")}

\* Client::account
AccountOf(address, o) == {a \in ParseAccount(o) : a.address = address}

\* parse_submit
ParseSubmit(o) ==
  {[is |-> "accepted", tx |-> tx] :
     tx \in {t \in FieldStr(o, "tx_id") : FieldStr(o, "verdict") = {<<"accepted">>}
                                            /\ FieldStr(o, "state") # {}}}
  \cup {[is |-> "rejected", tx |-> <<>>] :
     reason \in {r \in FieldStr(o, "reason") : FieldStr(o, "verdict") = {<<"rejected">>}}}

\* parse_transaction
ParseTransaction(o) ==
  LET status == FieldStr(o, "status")
  IN  {[is |-> "finalised", height |-> h] :
         h \in {n \in FieldU64(o, "height") :
                  /\ status = {<<"finalised">>}
                  /\ o["block"] \in {Missing, Null} \/ FieldStr(o, "block") # {}}}
      \cup {[is |-> s, height |-> NoValue] :
              s \in {x \in {"pending", "unknown"} : status = {<<x>>}}}

-----------------------------------------------------------------------------
StorageSlot(o) == {[slot |-> s, value |-> n] : s \in FieldHash(o, "slot"), n \in FieldDigits(o, "value")}

\* parse_storage
ParseStorage(o) == 
  UNION {AllRead([i \in DOMAIN items |-> StorageSlot(items[i])]) : items \in Typed(o, "slots", "arr")}

Matches(slots, key) == {i \in DOMAIN slots : slots[i].slot = key}

\* A slip: storage_value, which takes a slot that is not reported for zero.
StorageValue(slots, key) ==
  IF Matches(slots, key) = {} THEN {0}
  ELSE {slots[i].value : i \in {i \in Matches(slots, key) : \A j \in Matches(slots, key) : i <= j}}

\* storage_value_reported: the first that matches, if any.
StorageValueReported(slots, key) ==
  {slots[i].value : i \in {i \in Matches(slots, key) : \A j \in Matches(slots, key) : i <= j}}

\* Client::slot_value, and contract_nonce, contract_scalar and contract_map by
\* a key of their own each.
SlotValue(key, o) == UNION {StorageValueReported(slots, key) : slots \in ParseStorage(o)}

-----------------------------------------------------------------------------
\* parse_roster: a member, and a list of them.
RosterMember(o) ==
  {[id |-> id, stake |-> stake, key |-> key, root |-> root, slots |-> slots] :
     id \in FieldU64(o, "id"), stake \in FieldDigits(o, "stake"),
     key \in FieldStr(o, "attest_pk") \cap HexTexts, root \in FieldHash(o, "root"),
     slots \in FieldDigits(o, "root_slots")}

ParseRoster(v) ==
  IF v[1] = "arr" /\ Len(v[2]) <= MaxItems THEN AllRead([i \in DOMAIN v[2] |-> RosterMember(v[2][i])])
  ELSE {}

\* parse_steps
ProofStep(o) ==
  {[sibling |-> s, left |-> l] : s \in FieldHash(o, "sibling"), l \in Typed(o, "left", "bool")}

ParseSteps(v) ==
  IF v[1] = "arr" /\ Len(v[2]) <= MaxItems THEN AllRead([i \in DOMAIN v[2] |-> ProofStep(v[2][i])])
  ELSE {}
=============================================================================
