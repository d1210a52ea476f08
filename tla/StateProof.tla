----------------------------- MODULE StateProof -----------------------------
(***************************************************************************)
(* How a state proof is verified (services/pool/state_proof): the audit    *)
(* path of a transaction in a ledger, and the value of a key or the        *)
(* numbered keys under a prefix in a Patricia trie.  A proof is a set db   *)
(* of trie nodes; as in MerkleTree a node is its own hash.  RADIX is 4     *)
(* here, a byte is below 16, and the bytes 4 to 7 are the digits.  RLP,    *)
(* base64 and UTF-8 decoding are left out: they lose nothing.              *)
(***************************************************************************)
EXTENDS MerkleTree, FiniteSets

-----------------------------------------------------------------------------
(* Audit paths.                                                            *)

\* Mutant: the middle is half of the length, rounded up.
TurnsHalved(length, idx) ==
    LET turns[n, i \in Nat] ==
            IF n = 1 THEN <<>>
            ELSE LET middle == (n + 1) \div 2
                 IN  IF i < middle THEN Append(turns[middle, i], TRUE)
                     ELSE Append(turns[n - middle, i - middle], FALSE)
    IN  turns[length, idx]

\* _calculate_turns, from the leaf up; TRUE: the sibling is on the right.
calculate_turns(length, idx) ==
    LET turns[n, i \in Nat] ==
            IF n = 1 THEN <<>>
            ELSE LET middle == Split(n)
                 IN  IF i < middle THEN Append(turns[middle, i], TRUE)
                     ELSE Append(turns[n - middle, i - middle], FALSE)
    IN  turns[length, idx]

verify_merkle_tree(hashes, root_hash, seq_no, value, length) ==
    LET turns == calculate_turns(length, seq_no - 1)
        hash[i \in Nat] ==
            IF i = 0 THEN new_leaf(value)
            ELSE IF turns[i] THEN hash_nodes(hash[i - 1], hashes[i])
            ELSE hash_nodes(hashes[i], hash[i - 1])
    IN  Len(hashes) = Len(turns) /\ hash[Len(turns)] = root_hash

\* The audit path of RFC 6962 for the transaction seq_no.
AuditPath(seq_no, txns) ==
    LET A[lo, n, k \in Nat] ==
            IF n = 1 THEN <<>>
            ELSE LET s == Split(n)
                 IN  IF k <= s THEN Append(A[lo, s, k], Part(txns, lo + s, n - s))
                     ELSE Append(A[lo + s, n - s, k - s], Part(txns, lo, s))
    IN  A[0, Len(txns), seq_no]

\* The hashes of a tree: of its leaves, and of what they are joined to.
Subtrees(txns) ==
    LET S[lo, n \in Nat] ==
            {Part(txns, lo, n)}
            \cup IF n = 1 THEN {} ELSE S[lo, Split(n)] \cup S[lo + Split(n), n - Split(n)]
    IN  S[0, Len(txns)]

\* What is accepted for the transaction seq_no of a tree of up to max transactions.
\* length is the ledgerSize of the reply, which nothing signs, and the path is what
\* the reply holds (a hash from outside the tree never leads to its root).  Whatever
\* they are, the value is a transaction of the tree; it is the one asked for if the
\* length is the tree's and it has that many; and that one is accepted with its path.
\* With another length it may be any transaction: its number is not compared.  With
\* the length 0 the loop of _calculate_turns does not end; it is not among these.
PathsDecide(max) ==
    \A n \in 1 .. max :
        LET txns == [i \in 1 .. n |-> i]
            root == TreeHash(txns)
            hashes == Subtrees(txns)
        IN  \A length, seq_no, value \in 1 .. max :
                LET turns == Len(calculate_turns(length, seq_no - 1))
                IN  /\ \A path \in [1 .. turns -> hashes] :
                          verify_merkle_tree(path, root, seq_no, value, length) =>
                              /\ value \in 1 .. n
                              /\ length = n /\ seq_no <= n => value = seq_no
                    /\ length = n /\ value = seq_no /\ value <= n =>
                          verify_merkle_tree(AuditPath(seq_no, txns), root, seq_no, value, n)

-----------------------------------------------------------------------------
(* Patricia tries.                                                         *)

RADIX == 4
NoValue == <<>>
Blank == [type |-> "Blank"]
Leaf(path, value) == [type |-> "Leaf", path |-> path, value |-> value]
Extension(path, next) == [type |-> "Extension", path |-> path, next |-> next]
Full(nodes, value) == [type |-> "Full", nodes |-> nodes, value |-> value]
Hash(of) == [type |-> "Hash", of |-> of]

path_to_nibbles(path) ==
    FlattenSeq([i \in DOMAIN path |-> <<path[i] \div RADIX, path[i] % RADIX>>])
nibbles_to_str(nibbles) ==
    [i \in 1 .. Len(nibbles) \div 2 |-> RADIX * nibbles[2 * i - 1] + nibbles[2 * i]]

Without(path, n) == SubSeq(path, n + 1, Len(path))

\* One call of _get_node: it ends, or goes on at the next node.
GetNodeStep(db, w) ==
    LET node == w.node
        Ends(how) == [w EXCEPT !.end = how]
        Goes(next, n) == [node |-> next, path |-> Without(w.path, n),
                          seen |-> w.seen \o SubSeq(w.path, 1, n), end |-> "no"]
    IN  CASE w.end # "no" -> w
          [] w.end = "no" /\ node.type = "Full" ->
                IF w.path = <<>> THEN Ends("found")
                ELSE IF node.nodes[Head(w.path)] = Blank THEN Ends("none")
                ELSE Goes(node.nodes[Head(w.path)], 1)
          [] w.end = "no" /\ node.type = "Hash" ->
                IF node.of \in db THEN Goes(node.of, 0) ELSE Ends("error")
          [] w.end = "no" /\ node.type = "Leaf" ->
                Ends(IF IsPrefix(w.path, node.path) THEN "found" ELSE "none")
          [] w.end = "no" /\ node.type = "Extension" ->
                IF IsPrefix(node.path, w.path) THEN Goes(node.next, Len(node.path))
                ELSE Ends(IF IsPrefix(w.path, node.path) THEN "found" ELSE "none")
          [] w.end = "no" /\ node.type = "Blank" -> Ends("none")

\* get_node: a nibble of the path takes at most a Hash and one more node.
get_node(db, root, path) ==
    LET nibbles == path_to_nibbles(path)
        walk[i \in Nat] ==
            IF i = 0 THEN [node |-> root, path |-> nibbles, seen |-> <<>>, end |-> "no"]
            ELSE GetNodeStep(db, walk[i - 1])
    IN  walk[2 * Len(nibbles) + 2]

\* get_value: an Extension that goes beyond the path has no value for it.
get_value(got) ==
    IF got.end = "found" /\ got.node.type \in {"Full", "Leaf"} THEN got.node.value ELSE NoValue

verify_proof(db, root, key, expected_value) ==
    LET got == get_node(db, root, key)
    IN  root \in db /\ got.end # "error" /\ get_value(got) = expected_value

\* One round of _get_all_values on the nodes that are still to be opened, in order;
\* a Full node's own value comes behind its children.
Entry(node, prefix) == [node |-> node, prefix |-> prefix]
OpenedEntry(db, e) ==
    LET node == e.node
        Nibble(i) == IF node.nodes[i] = Blank THEN <<>>
                     ELSE <<Entry(node.nodes[i], Append(e.prefix, i))>>
    IN  CASE node.type = "Full" ->
                FlattenSeq([i \in 1 .. RADIX |-> Nibble(i - 1)])
                \o IF node.value = NoValue THEN <<>>
                   ELSE <<Entry(Leaf(<<>>, node.value), e.prefix)>>
          [] node.type = "Hash" -> <<IF node.of \in db THEN Entry(node.of, e.prefix) ELSE e>>
          [] node.type = "Extension" -> <<Entry(node.next, e.prefix \o node.path)>>
          [] node.type = "Leaf" -> <<e>>
          [] node.type = "Blank" -> <<>>

\* get_all_values, in the order the trie has them; depth: the nodes on the longest
\* way to a leaf.  A Hash that is left in the end is not in the proof.
get_all_values(db, root, prefix, depth) ==
    LET got == get_node(db, root, prefix)
        found == IF got.end = "found" THEN <<Entry(got.node, got.seen)>> ELSE <<>>
        opened[i \in Nat] ==
            IF i = 0 THEN found
            ELSE LET last == opened[i - 1]
                 IN  FlattenSeq([k \in DOMAIN last |-> OpenedEntry(db, last[k])])
        all == opened[depth]
        ok == got.end # "error" /\ \A k \in DOMAIN all : all[k].node.type = "Leaf"
        Pair(e) == <<nibbles_to_str(e.prefix \o e.node.path), e.node.value>>
    IN  [ok |-> ok, vals |-> IF ok THEN [k \in DOMAIN all |-> Pair(all[k])] ELSE <<>>]

IsNumber(str) == str # <<>> /\ \A i \in DOMAIN str : str[i] \in RADIX .. 2 * RADIX - 1
Number(str) ==
    LET no[i \in Nat] == IF i = 0 THEN 0 ELSE RADIX * no[i - 1] + str[i] - RADIX
    IN  no[Len(str)]
Nothing == -1

\* _verify_proof_range: the pairs under the prefix, sorted by the number that follows
\* it, from the first that is not below from up to next, which must be there.
verify_proof_range(db, root, prefix, from, next, kvs, depth) ==
    LET got == get_all_values(db, root, prefix, depth)
        under == {kv \in ToSet(got.vals) : IsPrefix(prefix, kv[1])}
        Suffix(kv) == Without(kv[1], Len(prefix))
        No(kv) == Number(Suffix(kv))
        with_from == {kv \in under : from = Nothing \/ No(kv) >= from}
        slice == {kv \in with_from : next = Nothing \/ No(kv) < next}
    IN  /\ root \in db /\ got.ok
        /\ \A kv \in under : IsNumber(Suffix(kv))
        /\ next = Nothing \/ \E kv \in with_from : No(kv) = next
        /\ kvs = SetToSortSeq(slice, LAMBDA a, b : No(a) < No(b))

-----------------------------------------------------------------------------
(* The trie the nodes keep: every key has itself as its value.  A child is *)
(* held by its hash, or in place when it is short.                         *)

TrieNode(keys, hashed) ==
    LET paths == {path_to_nibbles(k) : k \in keys}
        Child(node) == IF hashed /\ node # Blank THEN Hash(node) ELSE node
        T[p \in Seq(0 .. RADIX - 1)] ==
            LET under == {q \in paths : IsPrefix(p, q)}
                common == LongestCommonPrefix(under)
                Rest(q) == Without(q, Len(p))
            IN  IF under = {} THEN Blank
                ELSE IF Cardinality(under) = 1
                THEN LET q == CHOOSE q \in under : TRUE IN Leaf(Rest(q), nibbles_to_str(q))
                ELSE IF common # p THEN Extension(Rest(common), Child(T[common]))
                ELSE Full([i \in 0 .. RADIX - 1 |-> Child(T[Append(p, i)])],
                          IF p \in under THEN nibbles_to_str(p) ELSE NoValue)
    IN  T

TrieNodes(keys, hashed) ==
    LET T == TrieNode(keys, hashed)
    IN  {T[p] : p \in {<<>>} \cup UNION {Prefixes(path_to_nibbles(k)) : k \in keys}}

\* The numbers 0, 1, 2 and 4 under the prefix, the prefix itself, and another key.
Prefix == <<8>>
Numbered == {<<8, 4>>, <<8, 5>>, <<8, 6>>, <<8, 5, 4>>}
Keys == Numbered \cup {Prefix, <<9, 5>>}
Depth == 14
Numbers == {Nothing, 1, 3, 4}

\* With all nodes of the trie a lookup accepts what is stored and nothing else, and
\* with nodes missing nothing else.  (A key that is not stored and is the beginning
\* of one stored key only is left out: the Leaf case of _get_node takes it for that.)
LookupsDecide(keys, root, all, db) ==
    \A k \in Keys : k \in keys \/ ~(\E s \in keys : IsStrictPrefix(k, s)) =>
        \A e \in Keys \cup {NoValue} :
            LET accepted == verify_proof(db, root, k, e)
                right == e = IF k \in keys THEN k ELSE NoValue
            IN  (accepted => right) /\ (right /\ db = all => accepted)

\* A range is not accepted with an entry missing or one too many, or without its
\* end; what is stored is, when the proof is whole and all keys under the prefix
\* are numbered.
RangesDecide(keys, root, all, db) ==
    \A from, next \in Numbers :
        LET No(k) == Number(Tail(k))
            stored == keys \cap Numbered
            right == {k \in stored : /\ from = Nothing \/ No(k) >= from
                                     /\ next = Nothing \/ No(k) < next}
            kvs(S) == SetToSortSeq({<<k, k>> : k \in S}, LAMBDA a, b : No(a[1]) < No(b[1]))
            closed == next = Nothing \/ (from <= next /\ \E k \in stored : No(k) = next)
            Accepted(S) == verify_proof_range(db, root, Prefix, from, next, kvs(S), Depth)
        IN  /\ \A k \in stored : ~Accepted((right \ {k}) \cup ({k} \ right))
            /\ Accepted(right) => closed
            /\ db = all /\ Prefix \notin keys /\ closed => Accepted(right)

TriesDecide ==
    \A keys \in SUBSET Keys, hashed \in BOOLEAN :
        LET root == TrieNode(keys, hashed)[<<>>]
            all == TrieNodes(keys, hashed)
            less == IF hashed THEN all ELSE {root}
        IN  \A db \in {all} \cup {all \ {node} : node \in less} :
                LookupsDecide(keys, root, all, db) /\ RangesDecide(keys, root, all, db)
=============================================================================
