------------------------------ MODULE JsonText ------------------------------
(* The JSON reader and writer of the wire (src/src/json.rs).  A text is a    *)
(* sequence of tokens: a character, a literal, or the four digits of a       *)
(* unicode escape, "uA" for those of a letter, "uHi" and "uLo" for the two   *)
(* halves of a surrogate pair; "n" is a line break.                          *)
EXTENDS Integers, Sequences, SequencesExt

CONSTANTS MaxDepth,   \* MAX_DEPTH
          MaxWhole    \* bound: the digits of u64::MAX, as a number of digits

ASSUME JsonAssumption == MaxDepth \in Nat /\ MaxWhole \in Nat \ {0}

Digits == {"0", "1"}
Escapes == {"quote", "\\", "n"}     \* the characters the writer escapes
Quote == "quote"

(* Values: <<"null", 0>>, <<"bool", b>>, <<"int", digits>>, <<"str", chars>>, *)
(* <<"arr", values>>, <<"obj", <<key, value>> pairs>>.                       *)
Fail == [ok |-> FALSE, value |-> <<"null", 0>>, rest |-> <<>>]
Read(v, rest) == [ok |-> TRUE, value |-> v, rest |-> rest]

-----------------------------------------------------------------------------
\* write_string
WriteString(s) ==
  <<Quote>>
    \o FlattenSeq([i \in DOMAIN s |-> IF s[i] \in Escapes THEN <<"\\", s[i]>> ELSE <<s[i]>>])
    \o <<Quote>>

\* Texts with a comma between two of them.
Separated(texts) ==
  FlattenSeq([i \in DOMAIN texts |-> IF i = 1 THEN texts[i] ELSE <<",">> \o texts[i]])

\* Json::render
RECURSIVE Render(_)
Render(v) ==
  CASE v[1] = "null" -> <<"null">>
    [] v[1] = "bool" -> <<IF v[2] THEN "true" ELSE "false">>
    [] v[1] = "int"  -> v[2]
    [] v[1] = "str"  -> WriteString(v[2])
    [] v[1] = "arr"  -> <<"[">> \o Separated([i \in DOMAIN v[2] |-> Render(v[2][i])]) \o <<"]">>
    [] v[1] = "obj"  ->
         <<"{">>
           \o Separated([i \in DOMAIN v[2] |-> WriteString(v[2][i][1]) \o <<":">> \o Render(v[2][i][2])])
           \o <<"}">>

-----------------------------------------------------------------------------
Peek(text) == IF text = <<>> THEN "end" ELSE Head(text)

RECURSIVE SkipWs(_)
SkipWs(text) == IF Peek(text) \in {" ", "n"} THEN SkipWs(Tail(text)) ELSE text

\* Parser::unicode_char, after the backslash.
UnicodeChar(text) ==
  CASE Peek(text) = "uA" -> Read("a", Tail(text))
    [] Peek(text) = "uHi" /\ Len(text) >= 3 /\ text[2] = "\\" /\ text[3] = "uLo" ->
         Read("pair", SubSeq(text, 4, Len(text)))
    [] OTHER -> Fail

\* Parser::string, after the opening quote and what was read so far.
RECURSIVE StringFrom(_, _)
StringFrom(text, s) ==
  CASE Peek(text) = Quote -> Read(s, Tail(text))
    [] Peek(text) = "\\" ->
         IF Peek(Tail(text)) \in Escapes
         THEN StringFrom(Tail(Tail(text)), Append(s, text[2]))
         ELSE LET c == UnicodeChar(Tail(text))
              IN  IF c.ok THEN StringFrom(c.rest, Append(s, c.value)) ELSE Fail
    [] Peek(text) \in {"end", "n"} -> Fail     \* not closed, or a raw control character
    [] OTHER -> StringFrom(Tail(text), Append(s, Head(text)))

RECURSIVE WholeFrom(_, _)
WholeFrom(text, n) ==
  IF Peek(text) \in Digits THEN WholeFrom(Tail(text), Append(n, Head(text)))
  ELSE [digits |-> n, rest |-> text]

\* Parser::number: no sign, no fraction, no leading zero, at most 64 bits.
Number(text) ==
  LET read == WholeFrom(text, <<>>)
  IN  IF \/ read.digits = <<>>
         \/ Peek(read.rest) = "."
         \/ Len(read.digits) > 1 /\ Head(read.digits) = "0"
         \/ Len(read.digits) > MaxWhole
      THEN Fail ELSE Read(<<"int", read.digits>>, read.rest)

Literals == [null |-> <<"null", 0>>, true |-> <<"bool", TRUE>>, false |-> <<"bool", FALSE>>]

\* A slip: a repeated key is taken.
NewKeyAlways(key, fields) == TRUE

NewKey(key, fields) == \A i \in DOMAIN fields : fields[i][1] # key

RECURSIVE Value(_, _), Items(_, _, _), Members(_, _, _)

\* Parser::value and Parser::nested, at a depth.
Value(spaced, depth) ==
  LET text == SkipWs(spaced)
      opening == Peek(text)
      inside == IF text = <<>> THEN <<>> ELSE SkipWs(Tail(text))
  IN  CASE opening \in {"{", "["} /\ depth = MaxDepth -> Fail
        [] opening = "{" /\ Peek(inside) = "}" -> Read(<<"obj", <<>>>>, Tail(inside))
        [] opening = "[" /\ Peek(inside) = "]" -> Read(<<"arr", <<>>>>, Tail(inside))
        [] opening = "{" /\ Peek(inside) # "}" -> Members(inside, <<>>, depth + 1)
        [] opening = "[" /\ Peek(inside) # "]" -> Items(inside, <<>>, depth + 1)
        [] opening = Quote ->
             LET s == StringFrom(Tail(text), <<>>)
             IN  IF s.ok THEN Read(<<"str", s.value>>, s.rest) ELSE Fail
        [] opening \in DOMAIN Literals -> Read(Literals[opening], Tail(text))
        [] opening \in Digits -> Number(text)
        [] OTHER -> Fail

\* Parser::array, after its bracket.
Items(text, items, depth) ==
  LET item == Value(text, depth)
      after == SkipWs(item.rest)
      read == Append(items, item.value)
  IN  CASE item.ok /\ Peek(after) = "," -> Items(Tail(after), read, depth)
        [] item.ok /\ Peek(after) = "]" -> Read(<<"arr", read>>, Tail(after))
        [] OTHER -> Fail

\* Parser::object, after its brace.
Members(spaced, fields, depth) ==
  LET text  == SkipWs(spaced)
      key   == IF Peek(text) = Quote THEN StringFrom(Tail(text), <<>>) ELSE Fail
      colon == SkipWs(key.rest)
      value == IF key.ok /\ NewKey(key.value, fields) /\ Peek(colon) = ":"
               THEN Value(Tail(colon), depth) ELSE Fail
      after == SkipWs(value.rest)
      read  == Append(fields, <<key.value, value.value>>)
  IN  CASE value.ok /\ Peek(after) = "," -> Members(Tail(after), read, depth)
        [] value.ok /\ Peek(after) = "}" -> Read(<<"obj", read>>, Tail(after))
        [] OTHER -> Fail

\* parse: one value and nothing after it.
Parse(text) ==
  LET read == Value(text, 0)
  IN  IF read.ok /\ SkipWs(read.rest) = <<>> THEN read ELSE Fail

-----------------------------------------------------------------------------
\* The text as the writer would have it: no white space between tokens, and
\* no unicode escapes.
RECURSIVE Squeezed(_, _)
Squeezed(text, inString) ==
  LET rest(n) == SubSeq(text, n, Len(text))
  IN  CASE text = <<>> -> <<>>
        [] ~inString /\ Peek(text) \in {" ", "n"} -> Squeezed(Tail(text), FALSE)
        [] inString /\ Peek(text) = "\\" /\ Peek(rest(2)) = "uA" ->
             <<"a">> \o Squeezed(rest(3), TRUE)
        [] inString /\ IsPrefix(<<"\\", "uHi", "\\", "uLo">>, text) ->
             <<"pair">> \o Squeezed(rest(5), TRUE)
        [] inString /\ Peek(text) = "\\" /\ Peek(rest(2)) \in Escapes ->
             SubSeq(text, 1, 2) \o Squeezed(rest(3), TRUE)
        [] OTHER ->
             <<Head(text)>> \o Squeezed(Tail(text), IF Head(text) = Quote THEN ~inString ELSE inString)

\* No object of the value names a key twice.
RECURSIVE UniqueKeys(_)
UniqueKeys(v) ==
  CASE v[1] = "arr" -> \A i \in DOMAIN v[2] : UniqueKeys(v[2][i])
    [] v[1] = "obj" ->
         /\ \A i, j \in DOMAIN v[2] : v[2][i][1] = v[2][j][1] => i = j
         /\ \A i \in DOMAIN v[2] : UniqueKeys(v[2][i][2])
    [] OTHER -> TRUE
=============================================================================
