--------------------------- MODULE RecoveryPhrase ---------------------------
(* Recovery phrases (src/src/lib.rs): mnemonic_from_seed and                 *)
(* seed_from_mnemonic.  A word is its place in the list; what is written is  *)
(* the word and its spelling, plain, in capitals or in full-width letters.   *)
EXTENDS Positional, SequencesExt

CONSTANTS SeedBits, ChecksumBits,
          WordBits,          \* 11
          Digest(_),         \* sha3_256, as far as the checksum reads it
          StandardDigest(_), \* sha256, of the standard phrases
          StandardWords      \* the lengths of a standard phrase

ASSUME PhraseAssumption ==
  /\ SeedBits \in Nat /\ ChecksumBits \in Nat /\ WordBits \in Nat \ {0}
  /\ (SeedBits + ChecksumBits) % WordBits = 0
  /\ StandardWords \subseteq Nat
  /\ \A seed \in [1 .. SeedBits -> 0 .. 1] :
       Digest(seed) \in Seq(0 .. 1) /\ Len(Digest(seed)) >= ChecksumBits

PhraseWords == (SeedBits + ChecksumBits) \div WordBits
Unlisted == Pow2[WordBits]      \* a word that is not in the list

Refusal(why) == [ok |-> FALSE, why |-> why, seed |-> <<>>]

\* The bits of a number, the highest first.
BitsOf(n, width) == [i \in 1 .. width |-> (n \div Pow2[width - i]) % 2]

FromBits(bits) == ValueOf(2, bits)

Part(bits, i) == SubSeq(bits, WordBits * (i - 1) + 1, WordBits * i)

\* mnemonic_from_seed
MnemonicFromSeed(seed) ==
  LET bits == seed \o SubSeq(Digest(seed), 1, ChecksumBits)
  IN  [i \in 1 .. PhraseWords |-> [word |-> FromBits(Part(bits, i)), spelling |-> "plain"]]

\* normalized_phrase: the spelling is folded away.
Normalized(phrase) == [i \in DOMAIN phrase |-> phrase[i].word]

\* The bits of one word after another.
EnteredBits(words) ==
  [k \in 1 .. WordBits * Len(words) |->
     BitsOf(words[((k - 1) \div WordBits) + 1], WordBits)[((k - 1) % WordBits) + 1]]

\* is_standard_phrase: one bit in 33 is the checksum of the others.
IsStandardPhrase(bits) ==
  LET checksum == Len(bits) \div (3 * WordBits)
      entropy  == Len(bits) - checksum
  IN  /\ Len(bits) \div WordBits \in StandardWords
      /\ \A i \in 1 .. checksum :
           bits[entropy + i] = StandardDigest(SubSeq(bits, 1, entropy))[i]

\* A slip: only the first bits of the checksum are compared.
ChecksumHoldsInPart(seed, bits) == bits[SeedBits + 1] = Digest(seed)[1]

ChecksumHolds(seed, bits) ==
  \A i \in 1 .. ChecksumBits : bits[SeedBits + i] = Digest(seed)[i]

\* seed_from_mnemonic
SeedFromMnemonic(phrase) ==
  LET words == Normalized(phrase)
      bits  == EnteredBits(words)
      seed  == SubSeq(bits, 1, SeedBits)
  IN  CASE Unlisted \in ToSet(words) -> Refusal("word")
        [] Unlisted \notin ToSet(words) /\ Len(words) # PhraseWords ->
             Refusal(IF IsStandardPhrase(bits) THEN "standard" ELSE "length")
        [] Unlisted \notin ToSet(words) /\ Len(words) = PhraseWords /\ ~ChecksumHolds(seed, bits) ->
             Refusal(IF IsStandardPhrase(bits) THEN "standard" ELSE "checksum")
        [] OTHER -> [ok |-> TRUE, why |-> "none", seed |-> seed]
=============================================================================
