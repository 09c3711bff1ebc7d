----------------------------- MODULE Positional -----------------------------
(* Numbers as the code writes and reads them, digit by digit.                *)
EXTENDS Integers, Sequences

Pow2[e \in Nat] == IF e = 0 THEN 1 ELSE 2 * Pow2[e - 1]

\* What the first digits come to, the highest first.
UpTo(base, digits) ==
  LET upTo[k \in 0 .. Len(digits)] == IF k = 0 THEN 0 ELSE base * upTo[k - 1] + digits[k]
  IN  upTo

ValueOf(base, digits) == UpTo(base, digits)[Len(digits)]
=============================================================================
