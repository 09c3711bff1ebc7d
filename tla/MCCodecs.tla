------------------------------ MODULE MCCodecs ------------------------------
(* Offsets up to and past the memory and the width; values of every shape up *)
(* to depth two, and texts one token away from theirs; every phrase of up to *)
(* one word more than a phrase has.                                          *)
EXTENDS Codecs

Offsets == 0 .. Top

Field(at, v) == [at |-> at, value |-> v]
MCFieldValues == { <<"word", 1>>, <<"wide", 2>>, <<"address", <<1, 0, 1>>>>,
                 <<"name", <<>>>>, <<"name", <<1>>>>, <<"name", <<1, 1>>>> }
MCFields(n) ==
  IF n < 3 THEN {Field(a, v) : a \in Offsets, v \in MCFieldValues}
  ELSE {Field(a, v) : a \in Offsets, v \in {<<"word", 1>>, <<"wide", 3>>}}

OrderAt(s, p, e, r, fields) ==
  [scheme |-> s, ptr |-> p, expiryAt |-> e, region |-> r, fields |-> fields,
   nonce |-> 1, expiry |-> 1]

\* The fixed places in every order, close together or far apart.
Fixed == {<<1, 2, 3>>, <<3, 2, 1>>, <<2, 4, 6>>, <<1, 2, 2>>, <<0, 1, 2>>, <<1, 2, Top>>}
MCOrders ==
  {OrderAt(f[1], f[2], f[3], r, <<Field(a, v)>>) :
     f \in Fixed, r \in Offsets, a \in Offsets, v \in MCFieldValues}
  \cup {[OrderAt(1, 2, 3, 4, <<>>) EXCEPT !.expiry = n] : n \in 0 .. 1}

MCTypedTexts == ({"number"} \X (0 .. 4)) \cup {<<"hex", [i \in 1 .. n |-> i % 2]>> : n \in 2 .. 4}
MCTypedOrders ==
  {OrderAt(1, 2, 3, 0, <<[at |-> 4, width |-> w, text |-> x]>>) : w \in 0 .. 4, x \in MCTypedTexts}

MCWordOrders == {OrderAt(1, 2, 3, r, <<>>) : r \in {0, 6}}
MCWordLists == {<<>>, <<1>>, <<4>>, <<4, 5>>, <<5, 4>>}

-----------------------------------------------------------------------------
Atoms == { <<"null", 0>>, <<"bool", TRUE>>, <<"int", <<"0">>>>, <<"int", <<"1", "0">>>>,
           <<"str", <<>>>>, <<"str", <<"a">>>>, <<"str", <<"quote">>>>, <<"str", <<"\\", "n">>>> }
FewAtoms == { <<"int", <<"1">>>>, <<"str", <<"a">>>> }
Keys == { <<>>, <<"a">> }

Over(S) ==
  UNION { {<<"arr", <<>>>>, <<"obj", <<>>>>},
          {<<"arr", <<v>>>> : v \in S}, {<<"arr", <<v, w>>>> : v \in S, w \in S},
          {<<"obj", <<<<k, v>>>>>> : k \in Keys, v \in S},
          {<<"obj", <<<<<<"a">>, v>>, <<<<>>, w>>>>>> : v \in S, w \in S} }

MCValues == Atoms \cup Over(Atoms) \cup Over(Over(FewAtoms))

Tokens == {"{", "}", "[", "]", ",", ":", "quote", "\\", "a", "n", " ", ".", "0", "1", "null",
           "uA", "uHi", "uLo"}
Splice(text, i, mid, j) == SubSeq(text, 1, i) \o mid \o SubSeq(text, j, Len(text))
Near(text) ==
  UNION { {text},
          {Splice(text, i - 1, <<>>, i + 1) : i \in DOMAIN text},
          {Splice(text, i, <<t>>, i + 1) : i \in 0 .. Len(text), t \in Tokens},
          {Splice(text, i - 1, <<t>>, i + 1) : i \in DOMAIN text, t \in Tokens} }
Deep == <<"arr", <<<<"arr", <<<<"arr", <<>>>>>>>>>>>>
Twice == <<"obj", <<<<<<"a">>, <<"null", 0>>>>, <<<<"a">>, <<"null", 0>>>>>>>>

Escaped == { <<Quote, "\\", "uHi", "\\", "uLo", Quote>>, <<Quote, "\\", "uA", Quote>> }

MCTexts ==
  UNION {Near(text) : text \in Escaped \cup {Render(v) : v \in Atoms \cup Over(FewAtoms) \cup {Deep, Twice}}}

MCBodies ==
  {[i \in DOMAIN Render(v) |-> Piece(Render(v)[i])] : v \in {v \in Over(FewAtoms) : v[1] = "obj"}}

-----------------------------------------------------------------------------
(* Honest answers, and each of them with one or two entries that are not.    *)
Text(word) == <<"str", <<word>>>>
Digits1 == <<"str", <<"1">>>>
Odd == { Missing, Null, <<"int", 0>>, <<"int", 3>>, <<"bool", TRUE>>, <<"str", <<>>>>, Text("0"),
         <<"str", <<"0", "1">>>>, <<"str", <<"1", "1", "1">>>>, <<"str", <<"1", "x">>>>,
         Text("k2"), Text("accepted"), Text("rejected"), Text("finalised"), Text("unknown") }

MCNumerals == [c \in {"0", "1"} |-> IF c = "0" THEN 0 ELSE 1]
MCHashTexts == {<<"k1">>, <<"k2">>}
MCHexTexts == MCHashTexts \cup {<<"key">>}

Truth(kind, about, said, truth) == [kind |-> kind, about |-> about, said |-> said, truth |-> {truth}]
Lie(kind, about, said) == [kind |-> kind, about |-> about, said |-> said, truth |-> NoTruth]
Alter(o) == {[o EXCEPT ![k] = v, ![l] = w] : k \in DOMAIN o, l \in DOMAIN o, v \in Odd, w \in Odd}
AlterOne(o) == {[o EXCEPT ![k] = v] : k \in DOMAIN o, v \in Odd}

Fee == [transfer_quon |-> Digits1, deploy_fee_quon |-> Missing, rate_micro_usd_per_qtov |-> Null,
        quon_per_qtov |-> Text("0")]
Info == [chain_id |-> Text("c"), genesis_hash |-> Text("g"), head_height |-> <<"int", 1>>,
         shown |-> Text("v"), protocol |-> <<"int", 2>>, fee |-> <<"obj", Fee>>]
AccountSaid == [address |-> Text("a1"), nonce |-> <<"int", 1>>, balance |-> <<"str", <<"1", "0">>>>,
                scheme |-> <<"int", 1>>, has_key |-> Missing]
Accepted == [verdict |-> Text("accepted"), tx_id |-> Text("t"), state |-> Text("s"), reason |-> Missing]
Finalised == [status |-> Text("finalised"), height |-> <<"int", 1>>, block |-> Null]
SlotSaid(key, text) == [slot |-> Text(key), value |-> <<"str", text>>]
Storage(items) == [slots |-> <<"arr", items>>]
Member == [id |-> <<"int", 1>>, stake |-> Digits1, attest_pk |-> Text("key"), root |-> Text("k1"),
           root_slots |-> Digits1]
ProofSaid == [sibling |-> Text("k1"), left |-> <<"bool", FALSE>>]

SlotLists == {<<>>} \cup {<<s>> : s \in AlterOne(SlotSaid("k1", <<"1">>))}
               \cup {<<SlotSaid("k2", <<"0">>), s>> : s \in AlterOne(SlotSaid("k1", <<"1">>))}
               \cup {<<s, SlotSaid("k1", <<"0">>)>> : s \in AlterOne(SlotSaid("k1", <<"1">>))}
Lists(said) == {<<"arr", <<>>>>, Null} \cup {<<"arr", <<said, o>>>> : o \in Alter(said)}
                 \cup {<<"arr", <<said, said, said>>>>}

MCReplies ==
  UNION {
    { Truth("info", <<>>, Info,
        [chain |-> <<"c">>, genesis |-> <<"g">>, head |-> 1, shown |-> <<"v">>, protocol |-> 2,
         fee |-> [transfer |-> 1, deploy |-> NoValue, rate |-> NoValue, unit |-> 0]]),
      Truth("account", <<"a1">>, AccountSaid,
        [address |-> <<"a1">>, nonce |-> 1, balance |-> 2, scheme |-> 1, hasKey |-> FALSE]),
      Truth("submit", <<>>, Accepted, [is |-> "accepted", tx |-> <<"t">>]),
      Truth("status", <<>>, Finalised, [is |-> "finalised", height |-> 1]),
      Truth("slot", <<"k1">>, Storage(<<SlotSaid("k2", <<"0">>), SlotSaid("k1", <<"1", "0">>)>>), 2),
      Truth("roster", <<>>, <<"arr", <<Member>>>>,
        <<[id |-> 1, stake |-> 1, key |-> <<"key">>, root |-> <<"k1">>, slots |-> 1]>>),
      Truth("steps", <<>>, <<"arr", <<ProofSaid>>>>, <<[sibling |-> <<"k1">>, left |-> FALSE]>>) },
    {Lie("info", <<>>, o) : o \in Alter(Info)},
    {Lie("info", <<>>, [Info EXCEPT !.fee = <<"obj", f>>]) : f \in AlterOne(Fee)},
    {Lie("account", <<"a1">>, o) : o \in Alter(AccountSaid)},
    {Lie("account", <<"k2">>, AccountSaid)},
    {Lie("submit", <<>>, o) : o \in Alter(Accepted)},
    {Lie("status", <<>>, o) : o \in Alter(Finalised)},
    {Lie("slot", key, Storage(items)) : key \in {<<"k1">>, <<"k2">>}, items \in SlotLists},
    {Lie("slot", <<"k1">>, [slots |-> v]) : v \in Odd},
    {Lie("roster", <<>>, v) : v \in Lists(Member)},
    {Lie("steps", <<>>, v) : v \in Lists(ProofSaid)} }

-----------------------------------------------------------------------------
MCDigest(seed) == BitsOf((FromBits(seed) * 7 + 3) % 16, 4)
MCStandardDigest(bits) == BitsOf((FromBits(bits) * 5 + 1) % 16, 4)
=============================================================================
