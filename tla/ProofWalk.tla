----------------------------- MODULE ProofWalk -----------------------------
(***************************************************************************)
(* Every name tree of at most MaxNames names, every key, and the proofs    *)
(* whose nodes are found on a way down the tree, whatever the key: what    *)
(* hsk_proof_verify (module RadixProof) makes of them.                     *)
(***************************************************************************)
EXTENDS RadixProof, FiniteSets

CONSTANT MaxNames   \* bound: names in the tree

VARIABLE walk       \* the tree, the key and the way down so far

NoWalk == [tree |-> <<>>, key |-> <<>>, nodes |-> <<>>, under |-> {}, depth |-> 0]

Trees == UNION {[S -> Value] : S \in {S \in SUBSET Key : Cardinality(S) <= MaxNames}}

ChooseTree ==
    /\ walk = NoWalk
    /\ \E tree \in Trees, key \in Key :
          walk' = [NoWalk EXCEPT !.tree = tree, !.key = key, !.under = DOMAIN tree]

\* One node further down, to either side, with its prefix or without.
GoDown ==
    LET d == Fork(walk.under, walk.depth)
    IN  /\ walk.under # {} /\ d < KeyBits
        /\ \E bit \in {0, 1}, p \in {Common(walk.under, walk.depth), <<>>} :
              walk' = [walk EXCEPT
                  !.nodes = Append(@, Node(p, HashTree(walk.tree,
                                Side(walk.under, d, 1 - bit), d + 1))),
                  !.under = Side(@, d, bit),
                  !.depth = d + 1]

WalkSpec == walk = NoWalk /\ [][ChooseTree \/ GoDown]_walk

-----------------------------------------------------------------------------
\* What the proof may claim to find below its nodes.
Short ==
    LET d == Fork(walk.under, walk.depth)
    IN  {[prefix |-> Common(walk.under, walk.depth),
          left   |-> HashTree(walk.tree, Side(walk.under, d, 0), d + 1),
          right  |-> HashTree(walk.tree, Side(walk.under, d, 1), d + 1)]}
Leaves ==
    {<<"DEADEND", <<>>>>}
    \cup {<<"EXISTS", [value |-> v]>> : v \in Value}
    \cup {<<"SHORT", l>> : l \in IF Fork(walk.under, walk.depth) < KeyBits
                                 THEN Short ELSE {}}
    \cup {<<"COLLISION", l>> : l \in [key : walk.under, hash : Value]}
Claims ==
    {[type |-> l[1], leaf |-> l[2], depth |-> d, nodes |-> walk.nodes] :
        l \in Leaves, d \in 0..KeyBits}

Truth(tree, key) ==
    IF key \notin DOMAIN tree THEN Failed("OK")
    ELSE [code |-> "OK", exists |-> TRUE, data |-> <<tree[key]>>]

\* A proof that hsk_proof_verify accepts tells the truth about the tree with
\* the root it was checked against, whoever put it together.
ProofSound ==
    walk # NoWalk =>
        \A proof \in Claims :
            LET v == Verify(Root(walk.tree), walk.key, proof)
            IN  Readable(proof) /\ v.code = "OK" => v = Truth(walk.tree, walk.key)

\* The proof a full node makes for a key is accepted, unless the name's state
\* does not parse.
ProofComplete ==
    walk # NoWalk =>
        LET tree  == walk.tree
            proof == Prove(tree, walk.key, DOMAIN tree, 0)
        IN  /\ Readable(proof)
            /\ Verify(Root(tree), walk.key, proof) =
                  IF walk.key \in DOMAIN tree /\ tree[walk.key] = Malformed
                  THEN Failed("EENCODING")
                  ELSE Truth(tree, walk.key)

\* hsk_proof_verify accepts what is true under a root, and nothing else.
ProofExact == ProofSound /\ ProofComplete

=============================================================================
