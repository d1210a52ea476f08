----------------------------- MODULE MerkleTree -----------------------------
(***************************************************************************)
(* The Merkle tree of a ledger (services/ledger/merkletree): how the       *)
(* client's tree grows by append, and how it decides by a consistency      *)
(* proof whether a root it was told continues its own history.  Hashing    *)
(* has no collisions: the hash of a leaf or of an inner node is a record   *)
(* of what was hashed, so that a tree and its root hash are one value.     *)
(* height and nodes_count, which nothing reads, are left out.              *)
(***************************************************************************)
EXTENDS Integers, Sequences, SequencesExt

EmptyTree == [empty |-> TRUE]
new_leaf(value) == [leaf |-> value]
hash_nodes(l, r) == [left |-> l, right |-> r]

\* MerkleTree::default
NewMerkleTree == [root |-> EmptyTree, count |-> 0]

\* LeavesIterator: the values of a tree from left to right; no branch of a tree
\* with count leaves is longer than count.
Opened(trees) ==
    FlattenSeq([i \in DOMAIN trees |->
        IF "left" \in DOMAIN trees[i] THEN <<trees[i].left, trees[i].right>> ELSE <<trees[i]>>])
iter(root, count) ==
    LET opened[i \in Nat] == IF i = 0 THEN <<root>> ELSE Opened(opened[i - 1])
        leaves == opened[count]
    IN  [i \in DOMAIN leaves |-> leaves[i].leaf]

\* One round of from_vec: neighbours are joined, a last odd one is kept.
Joined(cur) ==
    [i \in 1 .. (Len(cur) + 1) \div 2 |->
        IF 2 * i <= Len(cur) THEN hash_nodes(cur[2 * i - 1], cur[2 * i]) ELSE cur[2 * i - 1]]

from_vec(values) ==
    IF values = <<>> THEN EmptyTree
    ELSE LET cur[i \in Nat] ==
                 IF i = 0 THEN [v \in DOMAIN values |-> new_leaf(values[v])] ELSE Joined(cur[i - 1])
         IN  cur[Len(values)][1]

PowerOfTwo(v) == \E k \in 0 .. v : v = 2^k

\* Mutant: the new leaf always starts a layer.
AppendLayer(mt, value) ==
    [count |-> mt.count + 1,
     root |-> IF mt.count = 0 THEN new_leaf(value) ELSE hash_nodes(mt.root, new_leaf(value))]

\* MerkleTree::append: a full tree (count_bits is 1) gets a new layer; otherwise
\* the right subtree is made again.
append(mt, value) ==
    [count |-> mt.count + 1,
     root |-> IF mt.count = 0 THEN new_leaf(value)
              ELSE IF PowerOfTwo(mt.count) THEN hash_nodes(mt.root, new_leaf(value))
              ELSE hash_nodes(mt.root.left, from_vec(Append(iter(mt.root.right, mt.count), value)))]

\* Below old_node the old tree is complete.
SkipComplete(w) ==
    IF w.old_node % 2 = 0 THEN w
    ELSE [w EXCEPT !.old_node = @ \div 2, !.new_node = @ \div 2]

\* One level up in both trees.  A left sibling is part of both, a right one of the
\* new tree only; a proof that ends too early makes ok false.
Climb(w) ==
    LET both == w.old_node % 2 # 0
        new  == ~both /\ w.old_node < w.new_node
        sibling == Head(w.proofs)
    IN  IF (both \/ new) /\ w.proofs = <<>> THEN [w EXCEPT !.ok = FALSE]
        ELSE [ok |-> w.ok, old_node |-> w.old_node \div 2, new_node |-> w.new_node \div 2,
              proofs |-> IF both \/ new THEN Tail(w.proofs) ELSE w.proofs,
              old_hash |-> IF both THEN hash_nodes(sibling, w.old_hash) ELSE w.old_hash,
              new_hash |-> IF both THEN hash_nodes(sibling, w.new_hash)
                           ELSE IF new THEN hash_nodes(w.new_hash, sibling) ELSE w.new_hash]

\* MerkleTree::consistency_proof for a tree that is not bigger than the new one;
\* what is left over of the proof is not looked at.
consistency_proof(mt, new_root_hash, new_size, proof) ==
    \/ mt.count = 0
    \/ mt.count = new_size /\ mt.root = new_root_hash
    \/ LET skip[i \in Nat] ==
               IF i = 0 THEN [old_node |-> mt.count - 1, new_node |-> new_size - 1]
               ELSE SkipComplete(skip[i - 1])
           start == skip[new_size]
           own   == start.old_node = 0
           first == IF own THEN mt.root ELSE Head(proof)
           climb[i \in Nat] ==
               IF i = 0 THEN [ok |-> TRUE, old_node |-> start.old_node, new_node |-> start.new_node,
                              proofs |-> IF own THEN proof ELSE Tail(proof),
                              old_hash |-> first, new_hash |-> first]
               ELSE Climb(climb[i - 1])
           top == climb[new_size]
       IN  /\ own \/ proof # <<>>
           /\ top.ok /\ top.new_hash = new_root_hash /\ top.old_hash = mt.root

-----------------------------------------------------------------------------
(* The trees and proofs of RFC 6962, which the nodes use.                  *)

\* The largest power of two below n.
Split(n) == CHOOSE k \in 1 .. n - 1 : PowerOfTwo(k) /\ 2 * k >= n

\* The root of the n transactions behind the first lo.
TreeHash(txns) ==
    LET H[lo, n \in Nat] ==
            IF n = 1 THEN new_leaf(txns[lo + 1])
            ELSE hash_nodes(H[lo, Split(n)], H[lo + Split(n), n - Split(n)])
    IN  IF txns = <<>> THEN EmptyTree ELSE H[0, Len(txns)]

Part(txns, lo, n) == TreeHash(SubSeq(txns, lo + 1, lo + n))

\* That the tree of txns extends the one of its first m; known: the part in
\* question is the whole old tree.
ConsistencyProof(m, txns) ==
    LET P[lo, n, k \in Nat, known \in BOOLEAN] ==
            IF k = n THEN IF known THEN <<>> ELSE <<Part(txns, lo, n)>>
            ELSE LET s == Split(n)
                 IN  IF k <= s THEN Append(P[lo, s, k, known], Part(txns, lo + s, n - s))
                     ELSE Append(P[lo + s, n - s, k - s, FALSE], Part(txns, lo, s))
    IN  IF m = 0 THEN <<>> ELSE P[0, Len(txns), m, TRUE]

\* The client's tree of a list of transactions.
Grown(txns) ==
    LET grown[i \in Nat] == IF i = 0 THEN NewMerkleTree ELSE append(grown[i - 1], txns[i])
    IN  grown[Len(txns)]

\* For every history of at most max transactions over values, the tree that append
\* makes has the root the nodes sign, and a consistency proof made for the size of
\* the client's tree is accepted exactly when its transactions are the beginning
\* of the nodes'; one made for another size never makes it accept another history.
ConsistencyDecides(values, max) ==
    \A n \in 1 .. max : \A txns \in [1 .. n -> values] :
        /\ Grown(txns).root = TreeHash(txns)
        /\ \A m \in 1 .. n : \A mine \in [1 .. m -> values] :
              LET Accepts(k) ==
                      consistency_proof(Grown(mine), TreeHash(txns), n, ConsistencyProof(k, txns))
              IN  IF IsPrefix(mine, txns) THEN Accepts(m) ELSE \A k \in 0 .. n : ~Accepts(k)
=============================================================================
