------------------------------ MODULE MerkleLog ------------------------------
(***************************************************************************)
(* The ordered Merkle tree over the authorization log, as pure operators.  *)
(* Sequences are numbered from 1.  The hash of every complete subtree is   *)
(* kept under the pair <<first sequence, level>>, where each level covers  *)
(* twice the entries of the one below, so a proof needs a logarithmic      *)
(* number of stored nodes.                                                 *)
(*                                                                         *)
(* Hashes are collision-free: a hash is the tuple of what was hashed, with *)
(* its domain tag.                                                         *)
(***************************************************************************)
EXTENDS Naturals, FiniteSetsExt, SequencesExt

\* A map with the entries of another one written over it.
Written(new, old) ==
  [key \in DOMAIN new \cup DOMAIN old |-> IF key \in DOMAIN new THEN new[key] ELSE old[key]]

merkleLeafHash(entry) == <<"leaf", entry>>
merkleParentHash(left, right) == <<"node", left, right>>

\* The entries that a subtree of this level covers: 2 ** level.
Width[level \in Nat] == IF level = 0 THEN 1 ELSE 2 * Width[level - 1]

Powers(n) == {Width[k] : k \in 0..n} \cap 1..n
IsPower(n) == n \in Powers(n)
Level(n) == CHOOSE k \in 0..n : Width[k] = n

\* splitRange: a range is <<first sequence, size>>, and the left part of a larger one is
\* the largest power of two below its size.
Ranges == Nat \X (Nat \ {0})
LeftSize(size) == Max(Powers(size - 1))
Left(range) == <<range[1], LeftSize(range[2])>>
Right(range) == <<range[1] + LeftSize(range[2]), range[2] - LeftSize(range[2])>>

\* completeNodeRanges: the stored nodes that together cover a range.
completeNodeRanges[range \in Ranges] ==
  IF IsPower(range[2]) THEN {<<range[1], Level(range[2])>>}
  ELSE completeNodeRanges[Left(range)] \cup completeNodeRanges[Right(range)]

\* The part of a range that holds `sequence`, and its sibling.
InLeft(sequence, range) == sequence < range[1] + LeftSize(range[2])
Child(sequence, range) == IF InLeft(sequence, range) THEN Left(range) ELSE Right(range)
Sibling(sequence, range) == IF InLeft(sequence, range) THEN Right(range) ELSE Left(range)

\* requiredMerkleNodes: the nodes that a proof for `sequence` in the first `total` entries reads.
VisitNodes(sequence) ==
  LET visit[range \in Ranges] ==
        IF range[2] = 1 THEN {}
        ELSE completeNodeRanges[Sibling(sequence, range)] \cup visit[Child(sequence, range)]
  IN visit
requiredMerkleNodes(sequence, total) == VisitNodes(sequence)[<<1, total>>]

\* createMerkleProof: fails unless every node it needs is stored.
Provable(sequence, total, nodes) == requiredMerkleNodes(sequence, total) \subseteq DOMAIN nodes
RangeHash(nodes) ==
  LET rangeHash[range \in Ranges] ==
        IF IsPower(range[2]) THEN nodes[<<range[1], Level(range[2])>>]
        ELSE merkleParentHash(rangeHash[Left(range)], rangeHash[Right(range)])
  IN rangeHash
\* The side on which the sibling of that part lies.
SideAt(sequence, range) == IF InLeft(sequence, range) THEN "right" ELSE "left"
\* A proof one step further up: `hash` is the sibling's.
Extended(below, side, hash) ==
  [root |-> IF side = "right" THEN merkleParentHash(below.root, hash)
                              ELSE merkleParentHash(hash, below.root),
   path |-> Append(below.path, [side |-> side, hash |-> hash])]
VisitProof(entry, sequence, nodes) ==
  LET visit[range \in Ranges] ==
        IF range[2] = 1 THEN [root |-> merkleLeafHash(entry), path |-> <<>>]
        ELSE Extended(visit[Child(sequence, range)], SideAt(sequence, range),
                      RangeHash(nodes)[Sibling(sequence, range)])
  IN visit
createMerkleProof(entry, sequence, total, nodes) == VisitProof(entry, sequence, nodes)[<<1, total>>]

\* merkleProofSides: the side of each sibling, from the leaf up.
VisitSides(sequence) ==
  LET visit[range \in Ranges] ==
        IF range[2] = 1 THEN <<>>
        ELSE Append(visit[Child(sequence, range)], SideAt(sequence, range))
  IN visit
\* Variant: the sides are listed from the root down.
merkleProofSidesFromRoot(sequence, total) == Reverse(VisitSides(sequence)[<<1, total>>])
merkleProofSides(sequence, total) == VisitSides(sequence)[<<1, total>>]

\* verifyMerkleProof: the hash that a path leads to, step by step from the leaf.
Parent(step, hash) ==
  IF step.side = "left" THEN merkleParentHash(step.hash, hash) ELSE merkleParentHash(hash, step.hash)
PathHash(entry, path) ==
  LET hash[n \in Nat] == IF n = 0 THEN merkleLeafHash(entry) ELSE Parent(path[n], hash[n - 1])
  IN hash[Len(path)]
verifyMerkleProof(entry, sequence, total, path, root) ==
  /\ sequence \in 1..total
  /\ [i \in DOMAIN path |-> path[i].side] = merkleProofSides(sequence, total)
  /\ PathHash(entry, path) = root

\* Variant: only the first parent is written.
LevelsOne(sequence) == {k \in 0..1 : sequence % Width[k] = 0}
\* The levels of the subtrees that end at `sequence`.
Levels(sequence) == {k \in 0..sequence : sequence % Width[k] = 0}
\* The subtree of level k that ends at `sequence`, and the left half it is joined from.
Ending(sequence, k) == <<(sequence + 1) - Width[k], k>>
LeftHalf(sequence, k) == <<(sequence + 1) - Width[k], k - 1>>

\* merkleAppendNodes: the nodes that entry `sequence` completes; fails unless the
\* left half of each of them is stored.
LeftHalves(sequence) == {LeftHalf(sequence, k) : k \in Levels(sequence) \ {0}}
merkleAppendNodes(sequence, entry, nodes) ==
  LET hash[k \in Nat] ==
        IF k = 0 THEN merkleLeafHash(entry)
        ELSE merkleParentHash(nodes[LeftHalf(sequence, k)], hash[k - 1])
  IN [node \in {Ending(sequence, k) : k \in Levels(sequence)} |-> hash[node[2]]]
===============================================================================
