------------------------------- MODULE Codecs -------------------------------
(* The readers and writers of src/src, asked about one input after another:  *)
(* call arguments and orders, JSON texts, cut answers of a gateway, the      *)
(* client's readings of them, recovery phrases.  The inputs are what an MC   *)
(* module gives.                                                             *)
EXTENDS ArgumentCodec, PhraseCodec, AnswerCodec, ResponseCodec, JsonText

CONSTANTS Values, Texts

AskValue(v) ==
  /\ asked' = [codec |-> "value", value |-> v]
  /\ answer' = Parse(Render(v))

AskText(text) ==
  /\ asked' = [codec |-> "text", text |-> text]
  /\ answer' = Parse(text)

AskForText ==
  /\ Unasked
  /\ \/ \E v \in Values : AskValue(v)
     \/ \E text \in Texts : AskText(text)

\* A behaviour asks once.
Next == AskForArguments \/ AskForText \/ AskForResponse \/ AskForAnswer \/ AskForPhrase

Spec == NothingAsked /\ [][Next]_exchange

-----------------------------------------------------------------------------
\* The reader is given the body that the transport took.
ParseBody(body) == Parse([i \in DOMAIN body |-> body[i][2]])

\* What is written reads back as the same value, and a text that is read is
\* the only one for its value, up to white space between the tokens and the
\* escapes: no text has two readings, no object a key twice, nothing follows
\* the value.  An object that was cut is not taken for another one, so a body
\* that only the end of the connection ends is read if it is whole, and then
\* it is (json::parse, Json::render, check_gateway_json).
JsonReadsBack ==
  /\ asked.codec = "value" => answer.ok /\ answer.value = asked.value
  /\ asked.codec = "text" /\ answer.ok =>
       /\ Render(answer.value) = Squeezed(asked.text, FALSE)
       /\ UniqueKeys(answer.value)
  /\ asked.codec = "gateway" /\ answer.ok =>
       (ParseBody(answer.body).ok <=> answer.body = asked.body)
=============================================================================
