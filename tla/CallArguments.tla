---------------------------- MODULE CallArguments ----------------------------
(* The argument memory of a contract call (src/src/contract.rs): typed       *)
(* values placed at the offsets of an entry's layout, behind the context the *)
(* host writes, and for a signed order the scheme, the pointer, the expiry   *)
(* and the verify region beside them.  A cell stands for eight bytes.        *)
EXTENDS Integers, Sequences, SequencesExt

CONSTANTS Context,        \* CONTRACT_CONTEXT_BYTES
          MaxMemory,      \* MAX_USER_MEMORY
          Top,            \* u64::MAX
          DefaultRegion,  \* DEFAULT_REGION_OFFSET
          Radix,          \* 2^64: what a cell can hold
          AddressWidth,   \* the cells of an address
          Window          \* NAME_WINDOW

ASSUME MemoryAssumption ==
  /\ Context \in Nat /\ MaxMemory \in Nat /\ Top \in Nat /\ DefaultRegion \in Nat
  /\ Context <= MaxMemory /\ MaxMemory < Top
  /\ Radix \in Nat \ {0, 1} /\ Window \in Nat
  /\ AddressWidth \in Nat /\ AddressWidth > 2

Refused == [ok |-> FALSE, memory |-> <<>>]
Scheme == 1                 \* SCHEME_LATTICE
KeyAndSignature == <<1>>    \* of the owner, over the message

-----------------------------------------------------------------------------
\* A word, a wide number, an address of a few cells, a name of any length.
FieldValue == ({"word", "wide"} \X Nat) \cup ({"address"} \X (Seq(Nat) \ {<<>>}))
                \cup ({"name"} \X Seq(Nat))

FieldArg == [at : Nat, value : FieldValue]

\* A slip: the high word of a wide value comes first.
BytesHighFirst(v) ==
  CASE v[1] = "word"    -> <<v[2]>>
    [] v[1] = "wide"    -> <<v[2] \div Radix, v[2] % Radix>>
    [] v[1] = "address" -> v[2]
    [] v[1] = "name"    -> [i \in 1 .. Window |-> IF i <= Len(v[2]) THEN v[2][i] ELSE 0]
                             \o <<Len(v[2])>>

\* FieldValue::bytes: a wide value is its low word, then its high word; a name
\* is its label in a window of zeros, then its length.
Bytes(v) ==
  CASE v[1] = "word"    -> <<v[2]>>
    [] v[1] = "wide"    -> <<v[2] % Radix, v[2] \div Radix>>
    [] v[1] = "address" -> v[2]
    [] v[1] = "name"    -> [i \in 1 .. Window |-> IF i <= Len(v[2]) THEN v[2][i] ELSE 0]
                             \o <<Len(v[2])>>

EnsureFits(v) == v[1] = "name" => Len(v[2]) <= Window

\* The text of a typed value: a whole number, or hex.
TypedText == ({"number"} \X Nat) \cup ({"hex"} \X (Seq(Nat) \ {<<>>}))

\* field_value_of_width: a number that the width can hold, or an address.
HasWidth(text, width) ==
  \/ text[1] = "number" /\ width \in 1 .. 2 /\ text[2] < Radix ^ width
  \/ text[1] = "hex" /\ width = AddressWidth /\ Len(text[2]) = width
TypedValue(width, text) ==
  CASE text[1] = "hex"                   -> <<"address", text[2]>>
    [] text[1] = "number" /\ width = 1 -> <<"word", text[2]>>
    [] text[1] = "number" /\ width # 1 -> <<"wide", text[2]>>

-----------------------------------------------------------------------------
(* A span is an offset and the cells that go there.                          *)
Span(at, cells) == [at |-> at, cells |-> cells]
End(s) == s.at + Len(s.cells)

\* checked_add, and the end within the contract memory.
NoOverflow(s) == End(s) <= Top /\ End(s) <= MaxMemory

\* A slip: the spans are compared in the order they are listed.
ApartAsListed(spans) == \A i \in 1 .. Len(spans) - 1 : End(spans[i]) <= spans[i + 1].at

\* The order of the spans sorted by offset, those at one offset as listed.
ComesBefore(spans, i, j) ==
  \/ spans[i].at < spans[j].at
  \/ spans[i].at = spans[j].at /\ i < j

RightBefore(spans, i, j) ==
  /\ ComesBefore(spans, i, j)
  /\ \A k \in DOMAIN spans : ~(ComesBefore(spans, i, k) /\ ComesBefore(spans, k, j))

\* Sorted, no span reaches into the next.
Apart(spans) ==
  \A i, j \in DOMAIN spans : RightBefore(spans, i, j) => End(spans[i]) <= spans[j].at

Covered(s) == s.at + 1 .. End(s)
Largest(S) == CHOOSE n \in S : \A m \in S : m <= n
MemoryLength(spans) == Largest({Context} \cup {End(s) : s \in ToSet(spans)})

\* put_word, put_bytes and the copies of the verify region, one after another
\* over zeros: a cell holds what the last of them left.
Writers(spans, cell) == {k \in DOMAIN spans : cell \in Covered(spans[k])}
Written(spans) ==
  [cell \in 1 .. MemoryLength(spans) |->
     IF Writers(spans, cell) = {} THEN 0
     ELSE LET s == spans[Largest(Writers(spans, cell))] IN s.cells[cell - s.at]]

Laid(spans) ==
  IF /\ \A s \in ToSet(spans) : s.at >= Context /\ NoOverflow(s)
     /\ Apart(spans)
  THEN [ok |-> TRUE, memory |-> Written(spans)]
  ELSE Refused

FieldSpans(fields) == [i \in DOMAIN fields |-> Span(fields[i].at, Bytes(fields[i].value))]

BuildCallArgs(fields) ==
  IF \A f \in ToSet(fields) : EnsureFits(f.value) THEN Laid(FieldSpans(fields)) ELSE Refused

\* The parts one after another.
Joined(parts) ==
  LET upTo[k \in 0 .. Len(parts)] == IF k = 0 THEN <<>> ELSE upTo[k - 1] \o parts[k]
  IN  upTo[Len(parts)]

\* canonical_order_message_typed: what the owner signs; the header holds the
\* chain, the contract, the selector, the signer and the layout hash.
OrderMessage(order) ==
  <<order.nonce, order.expiry>> \o Joined([i \in DOMAIN order.fields |-> Bytes(order.fields[i].value)])

RegionOf(order) == IF order.region = 0 THEN DefaultRegion ELSE order.region

OrderSpans(order) ==
  <<Span(order.scheme, <<Scheme>>), Span(order.ptr, <<RegionOf(order)>>),
    Span(order.expiryAt, <<order.expiry>>)>>
    \o FieldSpans(order.fields)
    \o <<Span(RegionOf(order), KeyAndSignature \o OrderMessage(order))>>

\* build_typed_order_call
BuildTypedOrder(order) ==
  IF order.expiry # 0 /\ \A f \in ToSet(order.fields) : EnsureFits(f.value)
  THEN Laid(OrderSpans(order)) ELSE Refused

\* build_order_from_typed: the values are still texts of a width.
BuildFromTyped(order) ==
  IF \A f \in ToSet(order.fields) : HasWidth(f.text, f.width)
  THEN BuildTypedOrder([order EXCEPT !.fields =
         [i \in DOMAIN @ |-> [at |-> @[i].at, value |-> TypedValue(@[i].width, @[i].text)]]])
  ELSE Refused

\* build_signed_order_call: words, as many as the layout has offsets.
BuildSigned(order, offsets, words) ==
  IF Len(offsets) = Len(words)
  THEN BuildTypedOrder([order EXCEPT !.fields =
         [i \in DOMAIN words |-> [at |-> offsets[i], value |-> <<"word", words[i]>>]]])
  ELSE Refused

-----------------------------------------------------------------------------
\* What a contract reads at an offset, by the kind of the field.
Reads(memory, at, width) == SubSeq(memory, at + 1, at + width)

Finds(memory, at, v) ==
  CASE v[1] = "word"    -> memory[at + 1] = v[2]
    [] v[1] = "wide"    -> memory[at + 1] + Radix * memory[at + 2] = v[2]
    [] v[1] = "address" -> Reads(memory, at, Len(v[2])) = v[2]
    [] v[1] = "name"    -> /\ memory[at + Window + 1] = Len(v[2])
                           /\ Reads(memory, at, Len(v[2])) = v[2]

\* Nothing is written outside the spans: the context is the host's to write.
BlankElsewhere(memory, spans) ==
  /\ Len(memory) \in Context .. MaxMemory
  /\ \A i \in DOMAIN memory :
       i <= Context \/ (\A s \in ToSet(spans) : i \notin Covered(s)) => memory[i] = 0

\* The spans can be laid at all: behind the context, within the memory, and
\* no cell belongs to two.
Layable(spans) ==
  /\ \A s \in ToSet(spans) : s.at >= Context /\ End(s) <= MaxMemory
  /\ \A i, j \in DOMAIN spans :
       i # j => Covered(spans[i]) \cap Covered(spans[j]) = {}
=============================================================================
