---------------------------- MODULE AnswerCodec ----------------------------
(* What the client reads of a gateway's answers, honest ones and others.     *)
EXTENDS GatewayAnswers, Asking, FiniteSets

CONSTANT Replies   \* a kind of answer, what was asked about, the answer and
                   \* what an honest gateway means by it, or NoTruth

NoTruth == {}

(* What a gateway may answer: an object has its entries, missing or of any   *)
(* type and value; a text is of characters, a list has a length.             *)
IsEntry(e) ==
  /\ e = <<e[1], e[2]>>
  /\ e[1] = "str" => e[2] \in Seq(STRING)
  /\ e[1] = "arr" => e[2] \in Seq(ToSet(e[2]))

HasEntries(o, keys) == \A key \in keys : IsEntry(o[key])

IsList(e, keys) ==
  IsEntry(e) /\ (e[1] = "arr" => \A i \in DOMAIN e[2] : HasEntries(e[2][i], keys))

IsReply(kind, o) ==
  \/ /\ kind = "info"
     /\ HasEntries(o, {"chain_id", "genesis_hash", "head_height", "shown", "protocol", "fee"})
     /\ o["fee"][1] = "obj" =>
          HasEntries(o["fee"][2], {"transfer_quon", "deploy_fee_quon", "rate_micro_usd_per_qtov",
                                   "quon_per_qtov"})
  \/ kind = "account" /\ HasEntries(o, {"address", "nonce", "balance", "scheme", "has_key"})
  \/ kind = "submit" /\ HasEntries(o, {"verdict", "tx_id", "state", "reason"})
  \/ kind = "status" /\ HasEntries(o, {"status", "height", "block"})
  \/ kind = "slot" /\ IsList(o["slots"], {"slot", "value"})
  \/ kind = "roster" /\ IsList(o, {"id", "stake", "attest_pk", "root", "root_slots"})
  \/ kind = "steps" /\ IsList(o, {"sibling", "left"})

-----------------------------------------------------------------------------
(* What an honest gateway answers.                                           *)

\* The one canonical text of a number.
Decimal[n \in 0 .. WideMax] ==
  LET last == CHOOSE c \in DOMAIN Numerals : Numerals[c] = n % Base
  IN  IF n < Base THEN <<last>> ELSE Append(Decimal[n \div Base], last)

SaysNumber(o, key, n) == n \in 0 .. WideMax /\ o[key] = <<"str", Decimal[n]>>
SaysWord(o, key, n) == n <= WordMax /\ SaysNumber(o, key, n)
SaysPrice(o, key, n) == IF n = NoValue THEN o[key] \in {Missing, Null} ELSE SaysNumber(o, key, n)

SaysFee(o, m) ==
  /\ m = [transfer |-> m.transfer, deploy |-> m.deploy, rate |-> m.rate, unit |-> m.unit]
  /\ SaysNumber(o, "transfer_quon", m.transfer)
  /\ SaysPrice(o, "deploy_fee_quon", m.deploy)
  /\ SaysPrice(o, "rate_micro_usd_per_qtov", m.rate)
  /\ SaysPrice(o, "quon_per_qtov", m.unit)

SaysInfo(o, m) ==
  /\ m = [chain |-> m.chain, genesis |-> m.genesis, head |-> m.head, shown |-> m.shown,
          protocol |-> Protocol, fee |-> m.fee]
  /\ o["chain_id"] = <<"str", m.chain>> /\ o["genesis_hash"] = <<"str", m.genesis>>
  /\ o["head_height"] = <<"int", m.head>> /\ o["shown"] = <<"str", m.shown>>
  /\ o["protocol"] = <<"int", Protocol>>
  /\ o["fee"][1] = "obj" /\ SaysFee(o["fee"][2], m.fee)

SaysAccount(about, o, m) ==
  /\ m = [address |-> about, nonce |-> m.nonce, balance |-> m.balance, scheme |-> m.scheme,
          hasKey |-> o["has_key"] = <<"bool", TRUE>>]
  /\ o["address"] = <<"str", about>> /\ o["nonce"] = <<"int", m.nonce>>
  /\ SaysNumber(o, "balance", m.balance)
  /\ m.scheme <= ByteMax /\ o["scheme"] = <<"int", m.scheme>>

SaysVerdict(o, m) ==
  \/ /\ m = [is |-> "accepted", tx |-> m.tx]
     /\ o["verdict"] = <<"str", <<"accepted">>>>
     /\ o["tx_id"] = <<"str", m.tx>> /\ o["state"][1] = "str"
  \/ /\ m = [is |-> "rejected", tx |-> <<>>]
     /\ o["verdict"] = <<"str", <<"rejected">>>> /\ o["reason"][1] = "str"

SaysStatus(o, m) ==
  \/ /\ m = [is |-> "finalised", height |-> m.height]
     /\ o["status"] = <<"str", <<"finalised">>>> /\ o["height"] = <<"int", m.height>>
     /\ o["block"] \in {Missing, Null} \/ o["block"][1] = "str"
  \/ /\ m = [is |-> m.is, height |-> NoValue] /\ m.is \in {"pending", "unknown"}
     /\ o["status"] = <<"str", <<m.is>>>>

SaysSlot(o, m) ==
  /\ m = [slot |-> m.slot, value |-> m.value]
  /\ m.slot \in HashTexts /\ o["slot"] = <<"str", m.slot>>
  /\ SaysWord(o, "value", m.value)

SaysSlotValue(about, o, m) ==
  /\ o["slots"][1] = "arr"
  /\ \A i \in DOMAIN o["slots"][2] :
       \E slot \in HashTexts, n \in 0 .. WordMax : SaysSlot(o["slots"][2][i], [slot |-> slot, value |-> n])
  /\ \E i \in DOMAIN o["slots"][2] :
       /\ SaysSlot(o["slots"][2][i], [slot |-> about, value |-> m])
       /\ \A j \in 1 .. i - 1 : o["slots"][2][j]["slot"] # <<"str", about>>

SaysMember(o, m) ==
  /\ m = [id |-> m.id, stake |-> m.stake, key |-> m.key, root |-> m.root, slots |-> m.slots]
  /\ o["id"] = <<"int", m.id>> /\ SaysWord(o, "stake", m.stake)
  /\ m.key \in HexTexts /\ o["attest_pk"] = <<"str", m.key>>
  /\ m.root \in HashTexts /\ o["root"] = <<"str", m.root>>
  /\ SaysWord(o, "root_slots", m.slots)

SaysStep(o, m) ==
  /\ m = [sibling |-> m.sibling, left |-> m.left]
  /\ m.sibling \in HashTexts /\ o["sibling"] = <<"str", m.sibling>>
  /\ o["left"] = <<"bool", m.left>>

\* A list of as many items as were meant, no more than are read.
SaysList(e, m) ==
  /\ e[1] = "arr" /\ Len(e[2]) <= MaxItems
  /\ m = [i \in DOMAIN e[2] |-> m[i]]

Says(kind, about, o, m) ==
  \/ kind = "info" /\ SaysInfo(o, m)
  \/ kind = "account" /\ SaysAccount(about, o, m)
  \/ kind = "submit" /\ SaysVerdict(o, m)
  \/ kind = "status" /\ SaysStatus(o, m)
  \/ kind = "slot" /\ SaysSlotValue(about, o, m)
  \/ kind = "roster" /\ SaysList(o, m) /\ \A i \in DOMAIN m : SaysMember(o[2][i], m[i])
  \/ kind = "steps" /\ SaysList(o, m) /\ \A i \in DOMAIN m : SaysStep(o[2][i], m[i])

ASSUME RepliesAssumption ==
  \A a \in Replies :
    /\ IsReply(a.kind, a.said)
    /\ a.truth # NoTruth =>
         \E m \in a.truth : a.truth = {m} /\ Says(a.kind, a.about, a.said, m)

-----------------------------------------------------------------------------
\* A request of the client, answered with an object or a list.
Understood(kind, about, o) ==
  CASE kind = "info"    -> ParseNodeInfo(o)
    [] kind = "account" -> AccountOf(about, o)
    [] kind = "submit"  -> ParseSubmit(o)
    [] kind = "status"  -> ParseTransaction(o)
    [] kind = "slot"    -> SlotValue(about, o)
    [] kind = "roster"  -> ParseRoster(o)
    [] kind = "steps"   -> ParseSteps(o)

AskClient(a) ==
  /\ asked' = [codec |-> "answer", kind |-> a.kind, about |-> a.about, said |-> a.said,
               truth |-> a.truth]
  /\ answer' = [ok |-> Understood(a.kind, a.about, a.said) # {},
                read |-> Understood(a.kind, a.about, a.said)]

AskForAnswer == Unasked /\ \E a \in Replies : AskClient(a)

AnswerSpec == NothingAsked /\ [][AskForAnswer \/ AnotherIsAsked({"answer"})]_exchange

-----------------------------------------------------------------------------
\* The answer says in so many words what was read of it.
Reported(r) ==
  LET said == asked.said
  IN  CASE asked.kind = "info" ->
             /\ said["protocol"] = <<"int", Protocol>>
             /\ r.fee.deploy = NoValue => said["fee"][2]["deploy_fee_quon"] \in {Missing, Null}
        [] asked.kind = "account" ->
             said["address"] = <<"str", asked.about>> /\ said["nonce"] = <<"int", r.nonce>>
        [] asked.kind = "submit" -> said["verdict"] = <<"str", <<r.is>>>>
        [] asked.kind = "status" ->
             /\ said["status"] = <<"str", <<r.is>>>>
             /\ r.is = "finalised" => said["height"] = <<"int", r.height>>
        [] asked.kind = "slot" ->
             \E item \in ToSet(said["slots"][2]) :
               item["slot"] = <<"str", asked.about>> /\ SaysNumber(item, "value", r)
        [] asked.kind = "roster" ->
             /\ Len(r) = Len(said[2])
             /\ \A i \in DOMAIN r : SaysNumber(said[2][i], "stake", r[i].stake)
        [] asked.kind = "steps" ->
             \A i \in DOMAIN r : said[2][i]["left"] = <<"bool", r[i].left>>

\* What the client goes by was said by the gateway about what was asked: a
\* nonce is the asked account's, a slot's value is never a default for one
\* that was left out, a missing or odd field is never a price, a verdict or a
\* stake; and an honest answer is read (slot_value, account, parse_submit).
ReadingsAreReported ==
  asked.codec = "answer" =>
    /\ Cardinality(answer.read) <= 1
    /\ \A r \in answer.read : Reported(r)
    /\ asked.truth # NoTruth => answer.read = asked.truth
=============================================================================
