------------------------------- MODULE Merkle -------------------------------
(***************************************************************************)
(* The Merkle trees of the audit service and of the session reconstructor, *)
(* as operators on sequences of leaves.                                    *)
(* SHA-256 of a concatenation is the pair of the parts: no collisions.     *)
(***************************************************************************)
EXTENDS Integers, SequencesExt

Node(left, right) == <<left, right>>
EmptyHash == <<>>

\* The next level; a last node without a sibling is combined with itself.
Parents(level) ==
  [k \in 1 .. (Len(level) + 1) \div 2 |->
     Node(level[2 * k - 1], level[IF 2 * k <= Len(level) THEN 2 * k ELSE 2 * k - 1])]

RECURSIVE Levels(_)
Levels(level) ==
  IF Len(level) <= 1 THEN <<level>> ELSE <<level>> \o Levels(Parents(level))

\* build_merkle_tree: all levels, the leaves first.
BuildMerkleTree(ls) == IF ls = <<>> THEN <<EmptyHash>> ELSE FlattenSeq(Levels(ls))

Root(ls) == Last(BuildMerkleTree(ls))

\* Mutant: a last node without a sibling is not recognised.
SiblingOutside(idx, len) == IF idx % 2 = 0 THEN idx + 1 ELSE idx - 1

\* The sibling of node idx of a level of len nodes, counted from 0.
Sibling(idx, len) ==
  IF idx % 2 = 0 THEN (IF idx + 1 < len THEN idx + 1 ELSE idx) ELSE idx - 1

RECURSIVE ProofFrom(_, _, _, _)
ProofFrom(tree, idx, start, len) ==
  IF len <= 1 THEN <<>>
    ELSE <<tree[start + Sibling(idx, len) + 1]>>
           \o ProofFrom(tree, idx \div 2, start + len, (len + 1) \div 2)

\* merkle_proof
MerkleProof(tree, leafCount, leafIndex) == ProofFrom(tree, leafIndex, 0, leafCount)

\* verify_merkle_proof
VerifyMerkleProof(leaf, leafIndex, proof, root) ==
  LET Up(acc, sibling) ==
        [hash |-> IF acc.idx % 2 = 0 THEN Node(acc.hash, sibling) ELSE Node(sibling, acc.hash),
         idx |-> acc.idx \div 2]
  IN  FoldLeft(Up, [hash |-> leaf, idx |-> leafIndex], proof).hash = root

\* The loop of compute_merkle_proof of the session reconstructor, which
\* appends a copy of the last node to a level of odd length.
RECURSIVE SessionLevels(_, _)
SessionLevels(current, idx) ==
  IF Len(current) <= 1 THEN [root |-> current[1], siblings |-> <<>>]
    ELSE LET padded == IF Len(current) % 2 = 1 THEN Append(current, Last(current)) ELSE current
             next == [k \in 1 .. Len(padded) \div 2 |-> Node(padded[2 * k - 1], padded[2 * k])]
             rest == SessionLevels(next, idx \div 2)
             sibling == padded[(IF idx % 2 = 0 THEN idx + 1 ELSE idx - 1) + 1]
         IN  [root |-> rest.root, siblings |-> <<sibling>> \o rest.siblings]

\* compute_merkle_proof for a list that is not empty.
ComputeMerkleProof(ls, idx) == SessionLevels(ls, idx)

----------------------------------------------------------------------------
(* Reference *)

\* The tree from the root down: the node of height n over the
\* leaves from k * 2^n on; where there are none on the right, the left is used.
RECURSIVE Subtree(_, _, _)
Subtree(ls, n, k) ==
  IF n = 0 THEN ls[k + 1]
    ELSE Node(Subtree(ls, n - 1, 2 * k),
              Subtree(ls, n - 1, IF (2 * k + 1) * 2 ^ (n - 1) < Len(ls) THEN 2 * k + 1 ELSE 2 * k))

Height(ls) == CHOOSE n \in 0 .. Len(ls) : 2 ^ n >= Len(ls) /\ (n = 0 \/ 2 ^ (n - 1) < Len(ls))

ReferenceRoot(ls) == IF ls = <<>> THEN EmptyHash ELSE Subtree(ls, Height(ls), 0)

=============================================================================
