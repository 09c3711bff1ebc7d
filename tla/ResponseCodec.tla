---------------------------- MODULE ResponseCodec ----------------------------
(* What the client's transport makes of a gateway's response (http.rs)       *)
(* when the connection ends after some of it, or does not end in time.       *)
EXTENDS HttpResponse, Asking

CONSTANT Bodies   \* what a gateway answers with

ASSUME BodiesAssumption ==
  \A body \in Bodies :
    /\ body \in Seq(ToSet(body)) /\ \A i \in DOMAIN body : body[i] = Piece(body[i][2])
    /\ Len(body) >= 2     \* the braces of an object

AskGateway(body, framing, arrived, closed) ==
  LET raw  == Framed(200, body, framing)
      http == Post(SubSeq(raw, 1, arrived), closed)
  IN  /\ arrived <= Len(raw)
      /\ asked' = [codec |-> "gateway", body |-> body, framing |-> framing,
                   complete |-> closed /\ arrived = Len(raw) /\ arrived <= MaxResponse]
      /\ answer' = [ok |-> http.ok, body |-> http.body]

AskForResponse ==
  /\ Unasked
  /\ \E body \in Bodies, framing \in {"length", "chunked", "close"},
        arrived \in 0 .. MaxResponse + 1, closed \in BOOLEAN :
       AskGateway(body, framing, arrived, closed)

ResponseSpec == NothingAsked /\ [][AskForResponse \/ AnotherIsAsked({"gateway"})]_exchange

-----------------------------------------------------------------------------
\* A gateway's answer that was cut, or did not end in time, is not taken for
\* another one: a framed body is whole or refused, and of a body that only the
\* end of the connection ends, what arrived is taken, for the JSON reader to
\* refuse; a whole answer is read (post, parse_response, dechunk).
AnswersAreWhole ==
  asked.codec = "gateway" =>
    /\ answer.ok /\ asked.framing # "close" => answer.body = asked.body
    /\ answer.ok => IsPrefix(answer.body, asked.body)
    /\ asked.complete => answer.ok /\ answer.body = asked.body
=============================================================================
