----------------------------- MODULE Accumulator -----------------------------
(***************************************************************************)
(* The Merkle tree over the pages of a segment: the tree of the client,    *)
(* the proofs it gives out, the verifiers of the VM, which see a proof one *)
(* hash at a time, and the root of a stream of hashes                      *)
(* (common/src/accumulator.rs). A tree of n leaves has the nodes           *)
(* 0 .. 2n - 2, the root first. A hash is the term that was hashed: two    *)
(* are equal only if their contents are.                                   *)
(***************************************************************************)
EXTENDS Integers, Sequences, SequencesExt, FiniteSets, FiniteSetsExt

HashLeaf(value) == <<0, value>>
HashInternalNode(left, right) == <<1, left, right>>

LeafPos(n, index) == n - 1 + index
Parent(pos) == (pos - 1) \div 2

\* "data" counts from 1, as all sequences, and "index" from 0.
BuildTree(data) ==
  LET n == Len(data)
      tree[i \in 0 .. 2 * n - 2] ==
        IF i >= n - 1 THEN HashLeaf(data[i - n + 2])
        ELSE HashInternalNode(tree[2 * i + 1], tree[2 * i + 2])
  IN tree

\* The nodes from "pos" up to a child of the root.
PathFrom(pos) ==
  LET path[p \in 0 .. pos] == IF p = 0 THEN <<>> ELSE <<p>> \o path[Parent(p)]
  IN path[pos]

Sibling(pos) == IF pos % 2 = 0 THEN pos - 1 ELSE pos + 1

Prove(tree, n, index) ==
  LET path == PathFrom(LeafPos(n, index))
  IN [i \in DOMAIN path |-> tree[Sibling(path[i])]]

\* The leaf is replaced, and then its ancestors are hashed again from below; the proof is that
\* of the tree before the update.
Update(tree, n, index, value) ==
  LET pos == LeafPos(n, index)
      rehash(t, p) == [t EXCEPT ![Parent(p)] = HashInternalNode(t[2 * Parent(p) + 1], t[2 * Parent(p) + 2])]
  IN [proof |-> Prove(tree, n, index),
      tree |-> FoldLeft(rehash, [tree EXCEPT ![pos] = HashLeaf(value)], PathFrom(pos))]

-----------------------------------------------------------------------------
(* The verifiers.                                                              *)

BeginInclusionProof(root, value_hash, index, size) ==
  [current_hash |-> value_hash, pos |-> LeafPos(size, index), root |-> root,
   verified |-> size = 1 /\ value_hash = root]

FeedIgnoringMore(v, sibling_hash) ==
  LET hash == IF v.pos % 2 = 0 THEN HashInternalNode(sibling_hash, v.current_hash)
              ELSE HashInternalNode(v.current_hash, sibling_hash)
  IN IF v.pos = 0 THEN v
     ELSE [v EXCEPT !.current_hash = hash, !.pos = Parent(v.pos),
                    !.verified = IF Parent(v.pos) = 0 THEN hash = v.root ELSE v.verified]

Feed(v, sibling_hash) ==
  LET hash == IF v.pos % 2 = 0 THEN HashInternalNode(sibling_hash, v.current_hash)
              ELSE HashInternalNode(v.current_hash, sibling_hash)
  IN IF v.pos = 0 THEN [v EXCEPT !.verified = FALSE]
     ELSE [v EXCEPT !.current_hash = hash, !.pos = Parent(v.pos),
                    !.verified = IF Parent(v.pos) = 0 THEN hash = v.root ELSE v.verified]

VerifyInclusionProof(root, proof, value_hash, index, size) ==
  FoldLeft(Feed, BeginInclusionProof(root, value_hash, index, size), proof).verified

\* The proof of an update is one of the old value under the old root, and one of the new value
\* under the new root, with the same siblings.
BeginUpdateProof(old_root, new_root, old_value_hash, new_value_hash, index, size) ==
  [old_verifier |-> BeginInclusionProof(old_root, old_value_hash, index, size),
   new_verifier |-> BeginInclusionProof(new_root, new_value_hash, index, size)]

FeedBoth(v, sibling_hash) ==
  [old_verifier |-> Feed(v.old_verifier, sibling_hash), new_verifier |-> Feed(v.new_verifier, sibling_hash)]

VerifyUpdateProof(old_root, new_root, proof, old_value_hash, new_value_hash, index, size) ==
  LET v == FoldLeft(FeedBoth,
             BeginUpdateProof(old_root, new_root, old_value_hash, new_value_hash, index, size), proof)
  IN v.new_verifier.verified /\ v.old_verifier.verified

-----------------------------------------------------------------------------
(* The root of a stream of leaf hashes: a stack of the roots of full subtrees. *)

TrailingZeros(k) == Cardinality({i \in 1 .. k : k % 2 ^ i = 0})

\* One turn of the loop of feed, the top of the stack at its end.
Combine(hashes) ==
  LET rest == Front(Front(hashes))
  IN Append(rest, HashInternalNode(Last(Front(hashes)), Last(hashes)))

RootComputer == [cur_size |-> 0, hashes |-> <<>>]

FeedLeaf(computer, leaf_hash) ==
  LET size == computer.cur_size + 1
  IN [cur_size |-> size,
      hashes |-> FoldLeft(LAMBDA hashes, i : Combine(hashes), Append(computer.hashes, leaf_hash),
                          [i \in 1 .. TrailingZeros(size) |-> i])]

StreamedRoot(hashes) == FoldLeft(FeedLeaf, RootComputer, hashes).hashes[1]

-----------------------------------------------------------------------------
\* What a client may give for a proof: the proof of any leaf, cut, prolonged, turned around,
\* or with a hash replaced by another one of the tree.
Offered(tree, n) ==
  LET hashes == {tree[i] : i \in DOMAIN tree}
      proofs == {Prove(tree, n, i) : i \in 0 .. n - 1}
  IN UNION {{p, Reverse(p)} \cup {SubSeq(p, 1, k) : k \in 0 .. Len(p)} \cup {Append(p, h) : h \in hashes}
            \cup {[p EXCEPT ![k] = h] : k \in DOMAIN p, h \in hashes} : p \in proofs}

\* Of all that is offered, the proof of a leaf verifies, for its value and its index only, and
\* nothing verifies for an index behind the leaves, unless there is one leaf only, whose index
\* nobody looks at.
OnlyProofsVerify(data, index, value) ==
  LET n == Len(data)
      tree == BuildTree(data)
  IN \A proof \in Offered(tree, n) :
       VerifyInclusionProof(tree[0], proof, HashLeaf(value), index, n) <=>
         LET at == IF n = 1 THEN 0 ELSE index
         IN IF at >= n THEN FALSE ELSE data[at + 1] = value /\ proof = Prove(tree, n, at)

\* The tree after an update is the tree of the updated data, and what is offered as a proof of
\* an update verifies for exactly the old and the new value, and exactly these two roots.
OnlyUpdatesVerify(data, index, value) ==
  LET n == Len(data)
      old == BuildTree(data)
      updated == Update(old, n, index, value)
      new == updated.tree
  IN /\ new = BuildTree([data EXCEPT ![index + 1] = value])
     /\ VerifyUpdateProof(old[0], new[0], updated.proof, old[LeafPos(n, index)], HashLeaf(value), index, n)
     /\ \A proof \in Offered(old, n) \cup Offered(new, n), i \in 0 .. n - 1, v \in {data[1], value} :
          VerifyUpdateProof(old[0], new[0], proof, old[LeafPos(n, i)], HashLeaf(v), i, n) =>
            new = BuildTree([data EXCEPT ![i + 1] = v])

\* The streamed root is the root of the tree, no turn of the loop lacks a hash to combine, and
\* the stack holds a hash for every bit of the number of leaves.
StreamsToTheRoot(data) ==
  LET n == Len(data)
      leaves == [i \in 1 .. n |-> HashLeaf(data[i])]
      after(k) == FoldLeft(FeedLeaf, RootComputer, SubSeq(leaves, 1, k)).hashes
  IN /\ StreamedRoot(leaves) = BuildTree(data)[0]
     /\ \A k \in 0 .. n : Len(after(k)) = Cardinality({i \in 0 .. 4 : (k \div 2 ^ i) % 2 = 1})
=============================================================================
