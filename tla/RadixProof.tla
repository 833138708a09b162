----------------------------- MODULE RadixProof -----------------------------
(***************************************************************************)
(* src/src/proof-radix.c: hsk_proof_verify checks that a name is in the    *)
(* name tree, with its data, or that it is not.  Hashes are terms: two     *)
(* hashes are equal when they are hashes of the same parts.  The tree of   *)
(* the full nodes, from which the root in a header comes, is the reference.*)
(***************************************************************************)
EXTENDS Integers, Sequences

CONSTANTS
    KeyBits,    \* bits of a key (256)
    Resource    \* data of names

ASSUME KeyAssumption == KeyBits \in Nat

Key == [1..KeyBits -> {0, 1}]

\* Values of the tree: a name state with its data, or one that does not parse.
Malformed == "malformed"
Value == Resource \cup {Malformed}

\* Proofs: [type, depth, nodes, leaf], where leaf holds what the type has.
Node(prefix, hash) == [prefix |-> prefix, node |-> hash]

\* hsk_proof_read refuses depths, counts and prefixes that are too long; the
\* prefix of a short proof is not empty.
Readable(proof) ==
    /\ proof.depth <= KeyBits
    /\ Len(proof.nodes) <= KeyBits
    /\ \A i \in DOMAIN proof.nodes : Len(proof.nodes[i].prefix) <= KeyBits
    /\ proof.type = "SHORT" => Len(proof.leaf.prefix) \in 1..KeyBits

-----------------------------------------------------------------------------
(* Hashes.                                                                 *)

Zeros == <<>>
HashLeaf(key, value) == <<"leaf", key, value>>
HashInternal(prefix, left, right) ==
    IF prefix = <<>> THEN <<"internal", left, right>>
    ELSE <<"skip", prefix, left, right>>

\* hsk_proof_has: the key goes on with the prefix after depth bits.
Has(prefix, key, depth) ==
    /\ Len(prefix) <= KeyBits - depth
    /\ \A i \in 1..Len(prefix) : prefix[i] = key[depth + i]

-----------------------------------------------------------------------------
(* hsk_proof_verify.                                                       *)

Failed(code) == [code |-> code, exists |-> FALSE, data |-> <<>>]

\* Mutation: the key of a collision may be the key itself.
RefusedSameKey(key, proof) ==
    IF proof.type = "SHORT" /\ Has(proof.leaf.prefix, key, proof.depth)
    THEN "ESAMEPATH"
    ELSE "OK"

\* What the leaf of the proof may not be.
Refused(key, proof) ==
    IF proof.type = "SHORT" /\ Has(proof.leaf.prefix, key, proof.depth)
    THEN "ESAMEPATH"
    ELSE IF proof.type = "COLLISION" /\ proof.leaf.key = key
    THEN "ESAMEKEY"
    ELSE "OK"

\* The leaf is made again.
LeafHash(key, proof) ==
    CASE proof.type = "DEADEND"   -> Zeros
      [] proof.type = "SHORT"     -> HashInternal(proof.leaf.prefix,
                                        proof.leaf.left, proof.leaf.right)
      [] proof.type = "COLLISION" -> HashLeaf(proof.leaf.key, proof.leaf.hash)
      [] proof.type = "EXISTS"    -> HashLeaf(key, proof.leaf.value)

\* One round of the loop, from the leaf towards the root.
Climb(key, item, at) ==
    LET size  == Len(item.prefix)
        depth == at.depth - 1
    IN  IF at.code # "OK" THEN at
        ELSE IF at.depth < size + 1 THEN [at EXCEPT !.code = "ENEGDEPTH"]
        ELSE [next  |-> IF key[depth + 1] = 1
                        THEN HashInternal(item.prefix, item.node, at.next)
                        ELSE HashInternal(item.prefix, at.next, item.node),
              depth |-> depth - size,
              code  |-> IF Has(item.prefix, key, depth - size) THEN "OK"
                        ELSE "EPATHMISMATCH"]

\* Where the loop is when it has gone through nodes i + 1 and up: at the leaf,
\* then at the root once it has gone through all of them.
Levels(key, nodes, leaf) ==
    LET at[i \in 0..Len(nodes)] ==
            IF i = Len(nodes) THEN leaf ELSE Climb(key, nodes[i + 1], at[i + 1])
    IN  at

Leaf(key, proof) ==
    [next  |-> LeafHash(key, proof),
     depth |-> proof.depth,
     code  |-> Refused(key, proof)]

Verify(root, key, proof) ==
    LET top == Levels(key, proof.nodes, Leaf(key, proof))[0]
    IN  IF top.code # "OK" THEN Failed(top.code)
        ELSE IF top.depth # 0 THEN Failed("ETOODEEP")
        ELSE IF top.next # root THEN Failed("EHASHMISMATCH")
        ELSE IF proof.type # "EXISTS" THEN Failed("OK")
        ELSE IF proof.leaf.value = Malformed THEN Failed("EENCODING")
        ELSE [code |-> "OK", exists |-> TRUE, data |-> <<proof.leaf.value>>]

-----------------------------------------------------------------------------
(* The tree of the full nodes: a function from some keys to values.  A     *)
(* node of it stands for the keys with the same first depth bits.          *)

Side(keys, depth, bit) == {k \in keys : k[depth + 1] = bit}

\* The depth where the keys part, KeyBits if they never do.
Fork(keys, depth) ==
    CHOOSE d \in depth..KeyBits :
        /\ d = KeyBits \/ \E k, l \in keys : k[d + 1] # l[d + 1]
        /\ \A k, l \in keys : \A i \in (depth + 1)..d : k[i] = l[i]

One(keys) == CHOOSE k \in keys : TRUE

\* The bits they share up to there.
Common(keys, depth) ==
    [i \in 1..(Fork(keys, depth) - depth) |-> One(keys)[depth + i]]

HashTree(tree, keys, depth) ==
    LET hash[n \in (SUBSET DOMAIN tree) \X (0..KeyBits)] ==
            LET d == Fork(n[1], n[2])
            IN  IF n[1] = {} THEN Zeros
                ELSE IF d = KeyBits THEN HashLeaf(One(n[1]), tree[One(n[1])])
                ELSE HashInternal(Common(n[1], n[2]),
                                  hash[<<Side(n[1], d, 0), d + 1>>],
                                  hash[<<Side(n[1], d, 1), d + 1>>])
    IN  hash[<<keys, depth>>]

Root(tree) == HashTree(tree, DOMAIN tree, 0)

\* The proof a full node makes for a key, from the keys under a node.
Prove(tree, key, keys, depth) ==
    LET proof[n \in (SUBSET DOMAIN tree) \X (0..KeyBits)] ==
            LET p    == Common(n[1], n[2])
                d    == Fork(n[1], n[2])
                only == One(n[1])
                H(bit) == HashTree(tree, Side(n[1], d, bit), d + 1)
                Ends(type, leaf) == [type |-> type, depth |-> n[2],
                                     nodes |-> <<>>, leaf |-> leaf]
                rest == proof[<<Side(n[1], d, key[d + 1]), d + 1>>]
            IN  IF n[1] = {} THEN Ends("DEADEND", <<>>)
                ELSE IF d = KeyBits
                THEN IF only = key
                     THEN Ends("EXISTS", [value |-> tree[key]])
                     ELSE Ends("COLLISION", [key |-> only, hash |-> tree[only]])
                ELSE IF ~Has(p, key, n[2])
                THEN Ends("SHORT", [prefix |-> p, left |-> H(0), right |-> H(1)])
                ELSE [rest EXCEPT !.nodes =
                          <<Node(p, H(1 - key[d + 1]))>> \o @]
    IN  proof[<<keys, depth>>]

=============================================================================
