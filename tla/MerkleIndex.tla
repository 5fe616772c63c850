----------------------------- MODULE MerkleIndex -----------------------------
(***************************************************************************)
(* The append-only log with its Merkle node index: every append stores the *)
(* nodes the new entry completes, inclusion proofs are created for any     *)
(* earlier checkpoint from the stored nodes, and clients verify them.      *)
(***************************************************************************)
EXTENDS MerkleLog

CONSTANTS
  Entries,    \* entry hashes
  MaxLength   \* bound on the log

ASSUME LengthAssumption == MaxLength \in Nat

VARIABLES
  entries,  \* the log: the sequence of entry hashes
  index     \* index[start, level]: the stored hash of a complete subtree

indexVars == <<entries, index>>

IndexInit == entries = <<>> /\ index = <<>>

\* appendLogEntry: an entry whose nodes cannot be computed is not appended.
AppendEntry(entry) ==
  LET sequence == Len(entries) + 1
  IN /\ Len(entries) < MaxLength
     /\ LeftHalves(sequence) \subseteq DOMAIN index
     /\ entries' = Append(entries, entry)
     /\ index' = Written(merkleAppendNodes(sequence, entry, index), index)

IndexNext == \E entry \in Entries : AppendEntry(entry)
IndexSpec == IndexInit /\ [][IndexNext]_indexVars

\* The proof the store serves: created from the required nodes only.
Proof(log, nodes, sequence, total) ==
  createMerkleProof(log[sequence], sequence, total,
                    Restrict(nodes, requiredMerkleNodes(sequence, total)))

-------------------------------------------------------------------------------
(* Properties, of any log and table of nodes *)

\* The reference: the hash of a range of entries, by halving at the largest power of
\* two, without any stored node.
RangeRoot(log) ==
  LET root[range \in Ranges] ==
        IF range[2] = 1 THEN merkleLeafHash(log[range[1]])
        ELSE merkleParentHash(root[Left(range)], root[Right(range)])
  IN root

Aligned(length) ==
  {node \in (1..length) \X (0..length) :
     (node[1] - 1) % Width[node[2]] = 0 /\ node[1] + Width[node[2]] <= length + 1}

Complete(log, nodes) ==
  /\ DOMAIN nodes = Aligned(Len(log))
  /\ \A node \in DOMAIN nodes : nodes[node] = RangeRoot(log)[<<node[1], Width[node[2]]>>]
  /\ LeftHalves(Len(log) + 1) \subseteq DOMAIN nodes

\* The index holds exactly the complete subtrees of the log, each with the hash
\* of its own entries, so no append or proof ever finds it incomplete.
IndexIsComplete == Complete(entries, index)

\* The proof of an entry at a checkpoint verifies for that entry at that position and
\* for no other.
Identifies(log, claims, proof, sequence, total) ==
  \A position \in DOMAIN log, entry \in claims :
    verifyMerkleProof(entry, position, total, proof.path, proof.root)
      <=> position = sequence /\ entry = log[sequence]

ProofsHold(log, nodes, claims) ==
  \A total \in DOMAIN log : \A sequence \in 1..total :
    LET proof == Proof(log, nodes, sequence, total)
    IN /\ Provable(sequence, total, nodes)
       /\ proof.root = RangeRoot(log)[<<1, total>>]
       /\ Identifies(log, claims, proof, sequence, total)

\* At every checkpoint, past or present, the proof of every entry is created,
\* commits to the root of exactly that prefix of the log, and verifies for that
\* entry at that position and for no other.
ProofsVerify == ProofsHold(entries, index, Entries)
===============================================================================
