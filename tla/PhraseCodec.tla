---------------------------- MODULE PhraseCodec ----------------------------
(* The phrases a user writes down and types (src/src/lib.rs).                *)
EXTENDS RecoveryPhrase, Asking

AskPhrase(phrase) ==
  /\ asked' = [codec |-> "phrase", phrase |-> phrase]
  /\ answer' = SeedFromMnemonic(phrase)

AskSeed(seed) ==
  /\ asked' = [codec |-> "seed", seed |-> seed]
  /\ answer' = SeedFromMnemonic(MnemonicFromSeed(seed))

AskForPhrase ==
  /\ Unasked
  /\ \/ \E n \in 0 .. PhraseWords + 1, spelling \in {"plain", "capitals"} :
          \E words \in [1 .. n -> 0 .. Unlisted] :
            AskPhrase([i \in 1 .. n |-> [word |-> words[i], spelling |-> spelling]])
     \/ \E seed \in [1 .. SeedBits -> 0 .. 1] : AskSeed(seed)

PhraseSpec == NothingAsked /\ [][AskForPhrase \/ AnotherIsAsked({"phrase", "seed"})]_exchange

-----------------------------------------------------------------------------
\* The phrase of a seed restores it, and a phrase restores a seed only if it
\* is that seed's phrase, however it is spelled: a typo that keeps its words
\* in the list is refused by the whole checksum (mnemonic_from_seed,
\* seed_from_mnemonic).
PhrasesReadBack ==
  /\ asked.codec = "seed" => answer.ok /\ answer.seed = asked.seed
  /\ asked.codec = "phrase" /\ answer.ok =>
       Normalized(MnemonicFromSeed(answer.seed)) = Normalized(asked.phrase)
=============================================================================
