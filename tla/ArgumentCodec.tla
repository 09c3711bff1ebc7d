--------------------------- MODULE ArgumentCodec ---------------------------
(* The calls and orders a program builds (src/src/contract.rs), and what the *)
(* contract reads of their memory.                                           *)
EXTENDS CallArguments, Asking

CONSTANTS Fields(_),       \* the fields of a list of so many
          MaxFields, Orders, TypedOrders, WordOrders, WordLists

Order(fields) ==
  [scheme : Nat, ptr : Nat, expiryAt : Nat, region : Nat, nonce : Nat, expiry : Nat,
   fields : Seq(fields)]

ASSUME ArgumentAssumption ==
  /\ MaxFields \in Nat
  /\ \A n \in 0 .. MaxFields : \A f \in Fields(n) : f \in FieldArg
  /\ \A order \in Orders : order \in Order(FieldArg)
  /\ \A order \in TypedOrders : order \in Order([at : Nat, width : Nat, text : TypedText])
  /\ \A order \in WordOrders : order \in Order({})
  /\ \A list \in WordLists : list \in Seq(Nat)

AskArguments(fields) ==
  /\ asked' = [codec |-> "arguments", fields |-> fields]
  /\ answer' = BuildCallArgs(fields)

AskOrder(order) ==
  /\ asked' = [codec |-> "order", fields |-> order.fields, order |-> order]
  /\ answer' = BuildTypedOrder(order)

\* An order whose values are texts of a width.
AskTyped(order) ==
  /\ asked' = [codec |-> "converted", order |-> order,
               fields |-> [i \in DOMAIN order.fields |->
                            [at    |-> order.fields[i].at,
                             value |-> TypedValue(order.fields[i].width, order.fields[i].text)]]]
  /\ answer' = BuildFromTyped(order)

\* An order of words at the offsets of a layout.
AskWords(order, offsets, words) ==
  /\ asked' = [codec |-> "converted", order |-> order,
               fields |-> [i \in DOMAIN words \cap DOMAIN offsets |->
                            [at |-> offsets[i], value |-> <<"word", words[i]>>]]]
  /\ answer' = BuildSigned(order, offsets, words)

AskForArguments ==
  /\ Unasked
  /\ \/ \E n \in 0 .. MaxFields : \E fields \in [1 .. n -> Fields(n)] : AskArguments(fields)
     \/ \E order \in Orders : AskOrder(order)
     \/ \E order \in TypedOrders : AskTyped(order)
     \/ \E order \in WordOrders, offsets \in WordLists, words \in WordLists :
          AskWords(order, offsets, words)

ArgumentCodecs == {"arguments", "order", "converted"}

ArgumentSpec ==
  NothingAsked /\ [][AskForArguments \/ AnotherIsAsked(ArgumentCodecs)]_exchange

-----------------------------------------------------------------------------
Placing == asked.codec \in ArgumentCodecs

\* What the order puts beside its fields.
OrderIsFound ==
  LET order  == [asked.order EXCEPT !.fields = asked.fields]
      region == answer.memory[order.ptr + 1]
      signed == KeyAndSignature \o OrderMessage(order)
  IN  /\ answer.memory[order.scheme + 1] = Scheme
      /\ answer.memory[order.expiryAt + 1] = order.expiry
      /\ region = (IF order.region = 0 THEN DefaultRegion ELSE order.region)
      /\ Reads(answer.memory, region, Len(signed)) = signed

Spans ==
  IF asked.codec = "arguments" THEN FieldSpans(asked.fields)
  ELSE OrderSpans([asked.order EXCEPT !.fields = asked.fields])

\* A contract that reads an accepted call finds every value at its offset, the
\* scheme, the pointer and the expiry at theirs, and behind the pointer what
\* the owner signed; nothing is in the context nor between the values, however
\* the layout was ordered (build_typed_order_call, build_call_args).
ArgumentsReadBack ==
  Placing /\ answer.ok =>
    /\ \A f \in ToSet(asked.fields) : Finds(answer.memory, f.at, f.value)
    /\ asked.codec # "arguments" => OrderIsFound
    /\ BlankElsewhere(answer.memory, Spans)

\* The values fit their fields, and an order names its expiry.
WellFormed ==
  /\ \/ asked.codec = "arguments"
     \/ asked.codec = "order" /\ asked.order.expiry # 0
  /\ \A f \in ToSet(asked.fields) : EnsureFits(f.value)

\* An order or a call whose values fit their fields is accepted exactly when
\* it can be laid: no span starts in the context, ends past the memory, or
\* shares a cell with another one, next to it in the list or not.
ArgumentsAdmitted ==
  /\ Placing /\ answer.ok => Layable(Spans)
  /\ WellFormed /\ Layable(Spans) => answer.ok
=============================================================================
