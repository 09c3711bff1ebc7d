------------------------------ MODULE MerklePath ------------------------------
(* The paths of leaves in the Merkle trees of a block, and which positions a *)
(* path can stand for (src/src/finality.rs, index_fits_path).  A path is the *)
(* sequence, from the root down, of the sides taken: TRUE for the right one, *)
(* where the sibling is on the left.                                         *)
EXTENDS Positional, SequencesExt

CONSTANT Bits   \* width of an index: 64 in the code

ASSUME BitsAssumption == Bits \in Nat \ {0}

\* The left subtree of n > 1 leaves: the largest power of two below n.
LeftSize(n) == CHOOSE k \in {Pow2[e] : e \in 0 .. Bits} : k < n /\ n <= 2 * k

Sizes == 1 .. Pow2[Bits]

\* The path of leaf i, from 0, of n leaves (prove_inclusion of qtv_block).
PathOf[n \in Sizes] ==
  [i \in 0 .. n - 1 |->
     IF n = 1 THEN <<>>
     ELSE LET left == LeftSize(n)
          IN  IF i < left THEN <<FALSE>> \o PathOf[left][i]
              ELSE <<TRUE>> \o PathOf[n - left][i - left]]

\* verify_inclusion: the leaf is one of the tree, and the path its own.
VerifyInclusion(leaves, leaf, path) ==
  \E i \in DOMAIN leaves : leaves[i] = leaf /\ path = PathOf[Len(leaves)][i - 1]

-----------------------------------------------------------------------------
BitAt(x, b) == (x \div Pow2[b]) % 2

CountOnes[x \in Nat] == IF x = 0 THEN 0 ELSE CountOnes[x \div 2] + (x % 2)

OnlyRight(path) == \A j \in DOMAIN path : path[j]

\* How often the path goes right before it first goes left.
Turn(path) == CHOOSE t \in 0 .. Len(path) - 1 : ~path[t + 1] /\ \A j \in 1 .. t : path[j]

\* The number that the first j sides of a path spell.
Spelled(path) ==
  LET acc[j \in 0 .. Len(path)] ==
        IF j = 0 THEN 0 ELSE 2 * acc[j - 1] + (IF path[j] THEN 1 ELSE 0)
  IN  acc

LowBits(path) == Spelled(path)[Len(path)]

\* A slip: the bit at the first left turn may be set.
IndexFitsPathAnyTurn(index, path) ==
  IF OnlyRight(path) THEN CountOnes[index] = Len(path)
  ELSE LET turn  == Turn(path)
           depth == Len(path) - turn - 1
       IN  /\ depth < Bits
           /\ index % Pow2[depth] = LowBits(SubSeq(path, turn + 2, Len(path)))
           /\ CountOnes[index \div Pow2[depth + 1]] = turn

\* Every right turn before the first left one skips a full subtree, of a
\* smaller power of two each time; the rest of the path spells the low bits.
IndexFitsPath(index, path) ==
  IF OnlyRight(path) THEN CountOnes[index] = Len(path)
  ELSE LET turn  == Turn(path)
           depth == Len(path) - turn - 1
       IN  /\ depth < Bits
           /\ index % Pow2[depth] = LowBits(SubSeq(path, turn + 2, Len(path)))
           /\ BitAt(index, depth) = 0
           /\ CountOnes[index \div Pow2[depth + 1]] = turn

-----------------------------------------------------------------------------
(* What IndexFitsPath accepts, and the reference it is checked against.      *)

Indices == 0 .. Pow2[Bits] - 1

\* One step longer than any path of a tree with Pow2[Bits] leaves.
AllPaths == UNION {[1 .. n -> BOOLEAN] : n \in 0 .. Bits + 1}

AcceptedPositions == [path \in AllPaths |-> {i \in Indices : IndexFitsPath(i, path)}]

\* The positions at which some tree has a leaf with this path.
TreePositions ==
  [path \in AllPaths |->
     {i \in Indices : \E n \in Sizes : i < n /\ PathOf[n][i] = path}]
=============================================================================
