---------------------------- MODULE RulesProofs ----------------------------
(***************************************************************************)
(* Theorems about the pure algorithms of modules RadixProof, Seeds and     *)
(* Locator: for keys of any length, every name tree and every proof,       *)
(* hsk_proof_verify accepts what is true and nothing else; for every list  *)
(* of seeds, hsk_pool_set_seeds adds nothing else, and all if none is      *)
(* refused; and for every 32-bit height the locator of                     *)
(* hsk_chain_get_locator fits.                                             *)
(***************************************************************************)
EXTENDS ProofWalk, Seeds, Locator, WellFoundedInduction, TLAPS

\* A nonempty set of numbers has a least one, ...
LEMMA LeastOf ==
    ASSUME NEW T \in SUBSET Nat, T # {}
    PROVE  \E n \in T : \A m \in T : n <= m
<1> DEFINE R == OpToRel(<, Nat)
<1>1. IsWellFoundedOn(R, Nat)
  BY NatLessThanWellFounded, Zenon
<1>2. \A a, b \in Nat : <<a, b>> \in R <=> a < b
  BY DEF OpToRel
<1> HIDE DEF R
<1>3. PICK x \in T : \A y \in T : ~ (<<y, x>> \in R)
  BY <1>1, WFMin, Zenon
<1>4. ASSUME NEW y \in T PROVE x <= y
  <2>1. x \in Nat /\ y \in Nat /\ ~ (<<y, x>> \in R)
    BY <1>3
  <2> QED
    BY <1>2, <2>1
<1> QED
  BY <1>4

\* ... so that what holds of 0, and of n + 1 when it holds of n, holds of all.
LEMMA FromZeroOn ==
    ASSUME NEW T \in SUBSET Nat, 0 \in T, \A n \in T : n + 1 \in T
    PROVE  T = Nat
<1> SUFFICES ASSUME Nat \ T # {} PROVE FALSE
  BY Zenon
<1>1. PICK n \in Nat \ T : \A m \in Nat \ T : n <= m
  BY LeastOf, Zenon
<1>2. n # 0 /\ n - 1 \in Nat
  BY <1>1
<1>3. n - 1 \in T
  BY <1>1, <1>2
<1> QED
  BY <1>1, <1>2, <1>3

----------------------------------------------------------------------------
(* The name tree of the full nodes.                                        *)

\* Keys part somewhere, or never.
LEMMA ForkExists ==
    ASSUME NEW keys \in SUBSET Key, NEW depth \in 0..KeyBits
    PROVE  LET d == Fork(keys, depth)
           IN  /\ d \in depth..KeyBits
               /\ d = KeyBits \/ \E k, l \in keys : k[d + 1] # l[d + 1]
               /\ \A k, l \in keys : \A i \in (depth + 1)..d : k[i] = l[i]
<1> DEFINE Parts(d) == d = KeyBits \/ \E k, l \in keys : k[d + 1] # l[d + 1]
           Shares(d) == \A k, l \in keys : \A i \in (depth + 1)..d : k[i] = l[i]
           T == {d \in depth..KeyBits : Parts(d)}
<1>1. T \subseteq Nat /\ KeyBits \in T
  BY KeyAssumption
<1>2. PICK d \in T : \A e \in T : d <= e
  <2> HIDE DEF T
  <2> QED
    BY <1>1, LeastOf
<1>3. ASSUME NEW k \in keys, NEW l \in keys, NEW i \in (depth + 1)..d
      PROVE  k[i] = l[i]
  <2>1. i - 1 \in depth..KeyBits /\ i - 1 < d /\ (i - 1) + 1 = i
    BY <1>1, <1>2, KeyAssumption
  <2>2. i - 1 \notin T
    <3> HIDE DEF T
    <3> QED
      BY <1>1, <1>2, <2>1
  <2>3. ~ Parts(i - 1)
    BY <2>1, <2>2
  <2> QED
    BY <2>1, <2>3
<1>4. d \in depth..KeyBits /\ Parts(d) /\ Shares(d)
  BY <1>2, <1>3
<1> HIDE DEF Parts, Shares
<1>5. \E e \in depth..KeyBits : Parts(e) /\ Shares(e)
  BY <1>4
<1> DEFINE c == CHOOSE e \in depth..KeyBits : Parts(e) /\ Shares(e)
<1>6. c \in depth..KeyBits /\ Parts(c) /\ Shares(c)
  BY <1>5, Zenon
<1>7. Fork(keys, depth) = c
  BY Zenon DEF Fork, Parts, Shares
<1> HIDE DEF c
<1> QED
  BY <1>6, <1>7, Zenon DEF Parts, Shares

LEMMA SameBits ==
    ASSUME NEW k \in Key, NEW l \in Key, \A i \in 1..KeyBits : k[i] = l[i]
    PROVE  k = l
<1> DEFINE I == 1..KeyBits
<1>1. k = [i \in I |-> k[i]] /\ l = [i \in I |-> l[i]]
  BY DEF Key
<1>2. \A i \in I : k[i] = l[i]
  OBVIOUS
<1> HIDE DEF I
<1>3. [i \in I |-> k[i]] = [i \in I |-> l[i]]
  BY <1>2
<1> QED
  BY <1>1, <1>3, Zenon

\* The nodes of the tree, the two below a node, and the hash of one, when f
\* tells the hashes of those below.
Nodes(tree) == (SUBSET DOMAIN tree) \X (0..KeyBits)
Below(n, bit) == <<Side(n[1], Fork(n[1], n[2]), bit), Fork(n[1], n[2]) + 1>>
NodeHash(f, tree, n) ==
    IF n[1] = {} THEN Zeros
    ELSE IF Fork(n[1], n[2]) = KeyBits THEN HashLeaf(One(n[1]), tree[One(n[1])])
    ELSE HashInternal(Common(n[1], n[2]), f[Below(n, 0)], f[Below(n, 1)])

LEMMA BelowNode ==
    ASSUME NEW tree, DOMAIN tree \subseteq Key, NEW n \in Nodes(tree),
           Fork(n[1], n[2]) # KeyBits, NEW bit
    PROVE  /\ Below(n, bit) \in Nodes(tree)
           /\ Below(n, bit)[2] > n[2]
<1>1. n[1] \subseteq DOMAIN tree /\ n[2] \in 0..KeyBits
  BY DEF Nodes
<1>2. Fork(n[1], n[2]) \in n[2]..KeyBits
  BY <1>1, ForkExists
<1>3. Side(n[1], Fork(n[1], n[2]), bit) \subseteq DOMAIN tree
  BY <1>1 DEF Side
<1>4. Fork(n[1], n[2]) + 1 \in 0..KeyBits /\ Fork(n[1], n[2]) + 1 > n[2]
  BY <1>1, <1>2, KeyAssumption
<1> QED
  BY <1>3, <1>4 DEF Below, Nodes

\* A node is nearer to the leaves than the one above it, so that the hashes
\* are well defined ...
LEMMA HashesExist ==
    ASSUME NEW tree, DOMAIN tree \subseteq Key
    PROVE  \E f : f = [n \in Nodes(tree) |-> NodeHash(f, tree, n)]
<1> DEFINE D == Nodes(tree)
           From(d, f) == /\ f = [n \in D |-> f[n]]
                         /\ \A n \in D : n[2] + d > KeyBits => f[n] = NodeHash(f, tree, n)
           T == {d \in Nat : \E f : From(d, f)}
<1>0. \A n \in D : n[2] \in 0..KeyBits
  BY DEF Nodes
<1>1. 0 \in T
  <2> DEFINE f == [n \in D |-> Zeros]
  <2>1. f = [n \in D |-> f[n]]
    OBVIOUS
  <2>2. \A n \in D : ~ (n[2] + 0 > KeyBits)
    BY <1>0, KeyAssumption
  <2> HIDE DEF f, D
  <2>3. From(0, f)
    BY <2>1, <2>2
  <2> QED
    BY <2>3
<1>2. ASSUME NEW d \in T PROVE d + 1 \in T
  <2>1. PICK f : From(d, f)
    BY <1>2
  <2> DEFINE g == [n \in D |-> NodeHash(f, tree, n)]
  <2>2. ASSUME NEW n \in D, n[2] + (d + 1) > KeyBits PROVE g[n] = NodeHash(g, tree, n)
    <3>1. \A q \in D : q[2] + d > KeyBits => g[q] = f[q]
      BY <2>1
    <3>2. CASE n[1] = {} \/ Fork(n[1], n[2]) = KeyBits
      BY <3>2, Zenon DEF NodeHash
    <3>3. CASE n[1] # {} /\ Fork(n[1], n[2]) # KeyBits
      <4>1. \A bit : Below(n, bit) \in D /\ Below(n, bit)[2] > n[2]
        BY <3>3, BelowNode
      <4>2. \A bit : Below(n, bit)[2] + d > KeyBits
        BY <4>1, <2>2, <1>0, KeyAssumption
      <4>3. \A bit : g[Below(n, bit)] = f[Below(n, bit)]
        <5> HIDE DEF g, D
        <5> QED
          BY <3>1, <4>1, <4>2
      <4> HIDE DEF g
      <4>4. NodeHash(g, tree, n) = NodeHash(f, tree, n)
        BY <4>3, Zenon DEF NodeHash
      <4> QED
        BY <4>4 DEF g
    <3> QED
      BY <3>2, <3>3, Zenon
  <2>3. g = [n \in D |-> g[n]]
    OBVIOUS
  <2> HIDE DEF g
  <2>4. From(d + 1, g)
    BY <2>2, <2>3
  <2> QED
    BY <2>4
<1>3. T = Nat
  <2>1. T \subseteq Nat
    OBVIOUS
  <2> HIDE DEF T
  <2> QED
    BY <1>1, <1>2, <2>1, FromZeroOn, Zenon
<1>4. KeyBits + 1 \in T
  BY <1>3, KeyAssumption
<1>5. PICK f : From(KeyBits + 1, f)
  BY <1>4
<1>6. ASSUME NEW n \in D PROVE f[n] = NodeHash(f, tree, n)
  <2>1. n[2] + (KeyBits + 1) > KeyBits
    BY <1>0, KeyAssumption
  <2> QED
    BY <1>5, <2>1
<1>7. f = [n \in D |-> NodeHash(f, tree, n)]
  BY <1>5, <1>6
<1> QED
  BY <1>7

\* ... and the hash of a node is made of those of the two below it.
LEMMA HashOfNode ==
    ASSUME NEW tree, DOMAIN tree \subseteq Key,
           NEW keys \in SUBSET DOMAIN tree, NEW depth \in 0..KeyBits
    PROVE  HashTree(tree, keys, depth) =
             LET d == Fork(keys, depth)
                 H(bit) == HashTree(tree, Side(keys, d, bit), d + 1)
             IN  IF keys = {} THEN Zeros
                 ELSE IF d = KeyBits THEN HashLeaf(One(keys), tree[One(keys)])
                 ELSE HashInternal(Common(keys, depth), H(0), H(1))
<1> DEFINE f == CHOOSE f : f = [n \in Nodes(tree) |-> NodeHash(f, tree, n)]
           d == Fork(keys, depth)
           n == <<keys, depth>>
<1>1. f = [m \in Nodes(tree) |-> NodeHash(f, tree, m)]
  BY HashesExist, Zenon
<1>2. \A ks, e : HashTree(tree, ks, e) = f[<<ks, e>>]
  BY Zenon DEF HashTree, Nodes, NodeHash, Below
<1> HIDE DEF f
<1>3. n \in Nodes(tree) /\ n[1] = keys /\ n[2] = depth
  BY DEF Nodes
<1>4. f[n] = NodeHash(f, tree, n)
  <2> HIDE DEF n
  <2> QED
    BY <1>1, <1>3
<1>5. \A bit : Below(n, bit) = <<Side(keys, d, bit), d + 1>>
  BY <1>3 DEF Below
<1>6. HashTree(tree, keys, depth) = f[n]
  BY <1>2
<1>7. \A bit : HashTree(tree, Side(keys, d, bit), d + 1) = f[Below(n, bit)]
  BY <1>2, <1>5, Zenon
<1> HIDE DEF n, d
<1> QED
  BY <1>3, <1>4, <1>6, <1>7, Zenon DEF NodeHash, d

\* The prefix of a node is what all its keys go on with.
LEMMA CommonShared ==
    ASSUME NEW keys \in SUBSET Key, keys # {}, NEW depth \in 0..KeyBits
    PROVE  LET p == Common(keys, depth)
           IN  /\ p \in Seq({0, 1})
               /\ Len(p) = Fork(keys, depth) - depth
               /\ \A k \in keys : Has(p, k, depth)
<1> DEFINE d == Fork(keys, depth)
           one == One(keys)
           p == Common(keys, depth)
<1>1. d \in depth..KeyBits /\ \A k, l \in keys : \A i \in (depth + 1)..d : k[i] = l[i]
  BY ForkExists
<1>2. one \in keys
  BY Zenon DEF One
<1>3. p = [i \in 1..(d - depth) |-> one[depth + i]]
  BY DEF Common
<1> HIDE DEF d, one
<1>4. d - depth \in Nat /\ \A i \in 1..(d - depth) : depth + i \in (depth + 1)..d
  BY <1>1
<1>5. \A i \in 1..(d - depth) : one[depth + i] \in {0, 1}
  BY <1>1, <1>2, <1>4, KeyAssumption DEF Key
<1>6. p \in Seq({0, 1}) /\ Len(p) = d - depth
  BY <1>3, <1>4, <1>5
<1>7. ASSUME NEW k \in keys PROVE Has(p, k, depth)
  <2>1. \A i \in 1..(d - depth) : one[depth + i] = k[depth + i]
    BY <1>1, <1>2, <1>4
  <2>2. \A i \in 1..(d - depth) : p[i] = k[depth + i]
    BY <1>3, <2>1
  <2> QED
    BY <1>1, <1>6, <2>2, KeyAssumption DEF Has
<1> QED
  BY <1>6, <1>7 DEF d

\* Hashes of different things differ.
LEMMA HashesDiffer ==
    /\ \A k, v : HashLeaf(k, v) # Zeros
    /\ \A p, l, r : HashInternal(p, l, r) # Zeros
    /\ \A k, v, p, l, r : HashLeaf(k, v) # HashInternal(p, l, r)
    /\ \A k, v, j, w : HashLeaf(k, v) = HashLeaf(j, w) => k = j /\ v = w
    /\ \A p, l, r, q, m, s : HashInternal(p, l, r) = HashInternal(q, m, s) =>
          p = q /\ l = m /\ r = s
BY DEF HashLeaf, HashInternal, Zeros

\* The keys of the tree that agree with a key as far as depth.
Under(tree, key, depth) == {k \in DOMAIN tree : \A i \in 1..depth : k[i] = key[i]}

\* One node further on the way to a key are the keys that agree with it as far
\* as that.
LEMMA UnderSide ==
    ASSUME NEW tree, DOMAIN tree \subseteq Key, NEW key \in Key,
           NEW depth \in 0..KeyBits, Under(tree, key, depth) # {},
           Fork(Under(tree, key, depth), depth) # KeyBits,
           Has(Common(Under(tree, key, depth), depth), key, depth)
    PROVE  LET d == Fork(Under(tree, key, depth), depth)
           IN  Side(Under(tree, key, depth), d, key[d + 1]) = Under(tree, key, d + 1)
<1> DEFINE keys == Under(tree, key, depth)
           d == Fork(keys, depth)
           p == Common(keys, depth)
<1>1. keys \subseteq Key
  BY DEF Under
<1>2. d \in depth..KeyBits
  BY <1>1, ForkExists
<1>3. Len(p) = d - depth /\ \A k \in keys : Has(p, k, depth)
  BY <1>1, CommonShared
<1>4. Has(p, key, depth)
  OBVIOUS
<1>5. \A k \in DOMAIN tree : k \in keys <=> \A i \in 1..depth : k[i] = key[i]
  BY DEF Under
<1> HIDE DEF keys, d, p
<1>6. \A i \in (depth + 1)..d : i - depth \in 1..Len(p) /\ depth + (i - depth) = i
  BY <1>2, <1>3
<1>7. \A k \in keys : \A i \in (depth + 1)..d : k[i] = key[i]
  BY <1>3, <1>4, <1>6 DEF Has
<1>8. ASSUME NEW k \in DOMAIN tree
      PROVE  (k \in keys /\ k[d + 1] = key[d + 1]) <=> \A i \in 1..(d + 1) : k[i] = key[i]
  <2>1. ASSUME k \in keys, k[d + 1] = key[d + 1], NEW i \in 1..(d + 1)
        PROVE  k[i] = key[i]
    <3>1. i \in 1..depth \/ i \in (depth + 1)..d \/ i = d + 1
      BY <1>2
    <3> QED
      BY <2>1, <3>1, <1>5, <1>7
  <2>2. ASSUME \A i \in 1..(d + 1) : k[i] = key[i]
        PROVE  k \in keys /\ k[d + 1] = key[d + 1]
    <3>1. \A i \in 1..depth : i \in 1..(d + 1)
      BY <1>2
    <3>2. d + 1 \in 1..(d + 1)
      BY <1>2
    <3> QED
      BY <2>2, <3>1, <3>2, <1>5
  <2> QED
    BY <2>1, <2>2
<1>9. keys \subseteq DOMAIN tree
  BY DEF keys, Under
<1>10. Side(keys, d, key[d + 1]) = Under(tree, key, d + 1)
  BY <1>8, <1>9 DEF Side, Under
<1> QED
  BY <1>10 DEF d, keys

\* Keys that never part are one.
LEMMA UnderOne ==
    ASSUME NEW tree, DOMAIN tree \subseteq Key, NEW key, NEW depth \in 0..KeyBits,
           Fork(Under(tree, key, depth), depth) = KeyBits,
           NEW k \in Under(tree, key, depth), NEW l \in Under(tree, key, depth)
    PROVE  k = l
<1>1. Under(tree, key, depth) \in SUBSET Key
  BY DEF Under
<1>2. \A i \in (depth + 1)..KeyBits : k[i] = l[i]
  BY <1>1, ForkExists
<1>3. \A i \in 1..depth : k[i] = key[i] /\ l[i] = key[i]
  BY DEF Under
<1>4. \A i \in 1..KeyBits : i \in 1..depth \/ i \in (depth + 1)..KeyBits
  BY KeyAssumption
<1>5. \A i \in 1..KeyBits : k[i] = l[i]
  BY <1>2, <1>3, <1>4
<1>6. k \in Key /\ l \in Key
  BY <1>1
<1> QED
  BY <1>5, <1>6, SameBits, Zenon

\* What the hash of a node tells about it.
LEMMA HashTells ==
    ASSUME NEW tree, DOMAIN tree \subseteq Key,
           NEW keys \in SUBSET DOMAIN tree, NEW depth \in 0..KeyBits
    PROVE  LET h == HashTree(tree, keys, depth)
               d == Fork(keys, depth)
               H(bit) == HashTree(tree, Side(keys, d, bit), d + 1)
           IN  /\ h = Zeros => keys = {}
               /\ \A k, v : h = HashLeaf(k, v) =>
                     keys # {} /\ d = KeyBits /\ k = One(keys) /\ v = tree[k]
               /\ \A p, l, r : h = HashInternal(p, l, r) =>
                     /\ keys # {} /\ d # KeyBits /\ p = Common(keys, depth)
                     /\ l = H(0) /\ r = H(1)
<1> DEFINE h == HashTree(tree, keys, depth)
           d == Fork(keys, depth)
           left == HashTree(tree, Side(keys, d, 0), d + 1)
           right == HashTree(tree, Side(keys, d, 1), d + 1)
<1>1. h = IF keys = {} THEN Zeros
          ELSE IF d = KeyBits THEN HashLeaf(One(keys), tree[One(keys)])
          ELSE HashInternal(Common(keys, depth), left, right)
  BY HashOfNode, Zenon
<1> HIDE DEF h, d, left, right
<1>2. /\ h = Zeros => keys = {}
      /\ \A k, v : h = HashLeaf(k, v) =>
            keys # {} /\ d = KeyBits /\ k = One(keys) /\ v = tree[k]
      /\ \A p, l, r : h = HashInternal(p, l, r) =>
            /\ keys # {} /\ d # KeyBits /\ p = Common(keys, depth)
            /\ l = left /\ r = right
  <2>1. CASE keys = {}
    BY <1>1, <2>1, HashesDiffer, Zenon
  <2>2. CASE keys # {} /\ d = KeyBits
    <3>1. h = HashLeaf(One(keys), tree[One(keys)])
      BY <1>1, <2>2, Zenon
    <3>2. h # Zeros /\ \A p, l, r : h # HashInternal(p, l, r)
      BY <3>1, HashesDiffer
    <3>3. \A k, v : h = HashLeaf(k, v) => k = One(keys) /\ v = tree[One(keys)]
      BY <3>1, HashesDiffer, Zenon
    <3> QED
      BY <2>2, <3>2, <3>3, Zenon
  <2>3. CASE keys # {} /\ d # KeyBits
    <3>1. h = HashInternal(Common(keys, depth), left, right)
      BY <1>1, <2>3, Zenon
    <3>2. h # Zeros /\ \A k, v : h # HashLeaf(k, v)
      BY <3>1, HashesDiffer
    <3>3. \A p, l, r : h = HashInternal(p, l, r) =>
             p = Common(keys, depth) /\ l = left /\ r = right
      <4> SUFFICES ASSUME NEW p, NEW l, NEW r, h = HashInternal(p, l, r)
                   PROVE  p = Common(keys, depth) /\ l = left /\ r = right
        OBVIOUS
      <4>1. HashInternal(p, l, r) = HashInternal(Common(keys, depth), left, right)
        BY <3>1
      <4> QED
        BY <4>1 DEF HashInternal
    <3> QED
      BY <2>3, <3>2, <3>3
  <2> QED
    BY <2>1, <2>2, <2>3, Zenon
<1> QED
  BY <1>2, Zenon DEF h, d, left, right

----------------------------------------------------------------------------
(* hsk_proof_verify.                                                       *)

\* The proofs hsk_proof_read can make, whatever hashes they hold.
IsProof(proof) ==
    /\ proof.type \in {"DEADEND", "SHORT", "COLLISION", "EXISTS"}
    /\ proof.depth \in Nat
    /\ \E S : proof.nodes \in Seq([prefix : Seq({0, 1}), node : S])
    /\ proof.type = "SHORT" => proof.leaf.prefix \in Seq({0, 1})

LEMMA ProofNodes ==
    ASSUME NEW proof, IsProof(proof)
    PROVE  /\ Len(proof.nodes) \in Nat
           /\ \A i \in 1..Len(proof.nodes) : proof.nodes[i].prefix \in Seq({0, 1})
<1>1. PICK S : proof.nodes \in Seq([prefix : Seq({0, 1}), node : S])
  BY Zenon DEF IsProof
<1> DEFINE nodes == proof.nodes
           R == [prefix : Seq({0, 1}), node : S]
<1>2. nodes \in Seq(R) /\ \A r \in R : r.prefix \in Seq({0, 1})
  BY <1>1
<1> HIDE DEF nodes, R
<1>3. Len(nodes) \in Nat /\ \A i \in 1..Len(nodes) : nodes[i] \in R
  BY <1>2
<1> QED
  BY <1>2, <1>3, Zenon DEF nodes

\* The loop of hsk_proof_verify, from the last node to the first.
LevelStep(f, key, nodes, leaf, i) ==
    IF i = Len(nodes) THEN leaf ELSE Climb(key, nodes[i + 1], f[i + 1])

LEMMA LevelsExist ==
    ASSUME NEW key, NEW nodes, NEW leaf, Len(nodes) \in Nat
    PROVE  \E f : f = [i \in 0..Len(nodes) |-> LevelStep(f, key, nodes, leaf, i)]
<1> DEFINE n == Len(nodes)
           From(d, f) == /\ f = [i \in 0..n |-> f[i]]
                         /\ \A i \in 0..n :
                               i + d > n => f[i] = LevelStep(f, key, nodes, leaf, i)
           T == {d \in Nat : \E f : From(d, f)}
<1> HIDE DEF n
<1>1. 0 \in T
  <2> DEFINE f == [i \in 0..n |-> leaf]
  <2>1. f = [i \in 0..n |-> f[i]] /\ \A i \in 0..n : ~ (i + 0 > n)
    BY DEF n
  <2> HIDE DEF f
  <2>2. From(0, f)
    BY <2>1
  <2> QED
    BY <2>2, Zenon
<1>2. ASSUME NEW d \in T PROVE d + 1 \in T
  <2>1. PICK f : From(d, f)
    BY <1>2
  <2> DEFINE g == [i \in 0..n |-> LevelStep(f, key, nodes, leaf, i)]
  <2>2. ASSUME NEW i \in 0..n, i + (d + 1) > n
        PROVE  g[i] = LevelStep(g, key, nodes, leaf, i)
    <3>1. \A j \in 0..n : j + d > n => g[j] = f[j]
      BY <2>1
    <3>2. CASE i = n
      BY <3>2, Zenon DEF LevelStep, n
    <3>3. CASE i # n
      <4>1. i + 1 \in 0..n /\ (i + 1) + d > n
        BY <2>2, <3>3 DEF n
      <4>2. g[i + 1] = f[i + 1]
        <5> HIDE DEF g
        <5> QED
          BY <3>1, <4>1
      <4>3. LevelStep(g, key, nodes, leaf, i) = LevelStep(f, key, nodes, leaf, i)
        <5> HIDE DEF g
        <5> QED
          BY <4>2, Zenon DEF LevelStep
      <4> QED
        BY <4>3
    <3> QED
      BY <3>2, <3>3
  <2>3. g = [i \in 0..n |-> g[i]]
    OBVIOUS
  <2> HIDE DEF g
  <2>4. From(d + 1, g)
    BY <2>2, <2>3
  <2>5. d + 1 \in Nat
    BY <1>2
  <2> HIDE DEF From
  <2> QED
    BY <2>4, <2>5
<1>3. T = Nat
  <2>1. T \subseteq Nat
    OBVIOUS
  <2> HIDE DEF T
  <2> QED
    BY <1>1, <1>2, <2>1, FromZeroOn, Zenon
<1>4. n + 1 \in T
  <2> HIDE DEF T
  <2> QED
    BY <1>3 DEF n
<1>5. PICK f : From(n + 1, f)
  BY <1>4
<1>6. \A i \in 0..n : f[i] = LevelStep(f, key, nodes, leaf, i)
  BY <1>5 DEF n
<1>7. f = [i \in 0..n |-> LevelStep(f, key, nodes, leaf, i)]
  BY <1>5, <1>6
<1> QED
  BY <1>7 DEF n

LEMMA LevelsClimb ==
    ASSUME NEW key, NEW nodes, NEW leaf, Len(nodes) \in Nat
    PROVE  LET at == Levels(key, nodes, leaf)
           IN  /\ at[Len(nodes)] = leaf
               /\ \A i \in 0..(Len(nodes) - 1) :
                     at[i] = Climb(key, nodes[i + 1], at[i + 1])
<1> DEFINE f == CHOOSE f : f = [i \in 0..Len(nodes) |-> LevelStep(f, key, nodes, leaf, i)]
<1>0. \E g : g = [i \in 0..Len(nodes) |-> LevelStep(g, key, nodes, leaf, i)]
  BY LevelsExist
<1>1. f = [i \in 0..Len(nodes) |-> LevelStep(f, key, nodes, leaf, i)]
  BY <1>0, Zenon
<1>2. Levels(key, nodes, leaf) = f
  BY Zenon DEF Levels, LevelStep
<1> HIDE DEF f
<1>3. \A i \in 0..Len(nodes) : f[i] = LevelStep(f, key, nodes, leaf, i)
  BY <1>1
<1>4. f[Len(nodes)] = leaf
  BY <1>3 DEF LevelStep
<1>5. \A i \in 0..(Len(nodes) - 1) : i \in 0..Len(nodes) /\ i # Len(nodes)
  OBVIOUS
<1>6. \A i \in 0..(Len(nodes) - 1) : f[i] = Climb(key, nodes[i + 1], f[i + 1])
  BY <1>3, <1>5, Zenon DEF LevelStep
<1> QED
  BY <1>2, <1>4, <1>6, Zenon

\* A proof that is read has no depth beyond the key's end, and no round of the
\* loop goes beyond its beginning; an error stays.
LEMMA LevelsDepth ==
    ASSUME NEW key \in Key, NEW proof, IsProof(proof), Readable(proof)
    PROVE  LET nodes == proof.nodes
               at == Levels(key, nodes, Leaf(key, proof))
           IN  /\ Len(nodes) \in Nat
               /\ \A i \in 0..Len(nodes) : at[i].depth \in 0..KeyBits
               /\ at[0].code = "OK" => \A i \in 0..Len(nodes) : at[i].code = "OK"
<1> DEFINE nodes == proof.nodes
           n == Len(nodes)
           at == Levels(key, nodes, Leaf(key, proof))
<1>2. n \in Nat /\ \A i \in 1..n : Len(nodes[i].prefix) \in Nat
  BY ProofNodes
<1>3. /\ at[n] = Leaf(key, proof)
      /\ \A i \in 0..(n - 1) : at[i] = Climb(key, nodes[i + 1], at[i + 1])
  BY <1>2, LevelsClimb
<1> HIDE DEF n, nodes, at
<1>4. at[n].depth \in 0..KeyBits
  BY <1>3 DEF Leaf, IsProof, Readable
<1> DEFINE T == {j \in Nat : j <= n => at[n - j].depth \in 0..KeyBits}
<1>5. ASSUME NEW j \in T, j + 1 <= n PROVE at[n - (j + 1)].depth \in 0..KeyBits
  <2> DEFINE i == n - (j + 1)
             a == at[i + 1]
             item == nodes[i + 1]
  <2>1. i \in 0..(n - 1) /\ i + 1 \in 1..n /\ i + 1 = n - j /\ j <= n
    BY <1>2, <1>5
  <2>2. a.depth \in 0..KeyBits /\ Len(item.prefix) \in Nat
    BY <1>2, <2>1
  <2>3. at[i] = Climb(key, item, a)
    BY <1>3, <2>1
  <2> HIDE DEF i, a, item
  <2>4. at[i].depth \in 0..KeyBits
    <3>1. CASE a.code # "OK"
      BY <2>2, <2>3, <3>1 DEF Climb
    <3>2. CASE a.code = "OK" /\ a.depth < Len(item.prefix) + 1
      <4>1. at[i] = [a EXCEPT !.code = "ENEGDEPTH"]
        BY <2>3, <3>2 DEF Climb
      <4> QED
        BY <2>2, <4>1
    <3>3. CASE a.code = "OK" /\ ~ (a.depth < Len(item.prefix) + 1)
      <4>1. at[i].depth = (a.depth - 1) - Len(item.prefix)
        BY <2>3, <3>3 DEF Climb
      <4> QED
        BY <2>2, <3>3, <4>1, KeyAssumption
    <3> QED
      BY <3>1, <3>2, <3>3
  <2> QED
    BY <2>4 DEF i
<1>6. T = Nat
  <2>1. 0 \in T
    BY <1>2, <1>4
  <2>2. \A j \in T : j + 1 \in T
    BY <1>5
  <2>3. T \subseteq Nat
    OBVIOUS
  <2> HIDE DEF T
  <2> QED
    BY <2>1, <2>2, <2>3, FromZeroOn, Zenon
<1>7. ASSUME NEW i \in 0..n PROVE at[i].depth \in 0..KeyBits
  <2>1. n - i \in Nat /\ n - i <= n /\ n - (n - i) = i
    BY <1>2
  <2>2. n - i \in T
    <3> HIDE DEF T
    <3> QED
      BY <1>6, <2>1
  <2> QED
    BY <2>1, <2>2
<1>8. ASSUME at[0].code = "OK", NEW i \in 0..n PROVE at[i].code = "OK"
  <2> DEFINE U == {j \in Nat : j <= n => at[j].code = "OK"}
  <2>1. ASSUME NEW j \in U, j + 1 <= n PROVE at[j + 1].code = "OK"
    <3>1. j \in 0..(n - 1) /\ at[j].code = "OK"
      BY <1>2, <2>1
    <3>2. at[j] = Climb(key, nodes[j + 1], at[j + 1])
      BY <1>3, <3>1
    <3>3. at[j + 1].code # "OK" => at[j] = at[j + 1]
      BY <3>2 DEF Climb
    <3> QED
      BY <3>1, <3>3, Zenon
  <2>2. U = Nat
    <3>1. 0 \in U
      BY <1>8
    <3>2. \A j \in U : j + 1 \in U
      BY <2>1
    <3>3. U \subseteq Nat
      OBVIOUS
    <3> HIDE DEF U
    <3> QED
      BY <3>1, <3>2, <3>3, FromZeroOn, Zenon
  <2>3. i \in U /\ i <= n
    BY <1>2, <2>2
  <2> QED
    BY <2>3
<1> QED
  BY <1>2, <1>7, <1>8 DEF n, nodes, at

\* The loop walks up the way to the key: when it ends with the root of the
\* tree, it was at the node with this key's first bits all along.
LEMMA LevelsOnTheWay ==
    ASSUME NEW tree, DOMAIN tree \subseteq Key, NEW key \in Key,
           NEW proof, IsProof(proof), Readable(proof),
           Levels(key, proof.nodes, Leaf(key, proof))[0].code = "OK",
           Levels(key, proof.nodes, Leaf(key, proof))[0].depth = 0,
           Levels(key, proof.nodes, Leaf(key, proof))[0].next = Root(tree)
    PROVE  /\ LeafHash(key, proof)
                = HashTree(tree, Under(tree, key, proof.depth), proof.depth)
           /\ Refused(key, proof) = "OK"
<1> DEFINE nodes == proof.nodes
           n == Len(nodes)
           at == Levels(key, nodes, Leaf(key, proof))
           H(d) == HashTree(tree, Under(tree, key, d), d)
<1>2. n \in Nat /\ \A i \in 1..n : nodes[i].prefix \in Seq({0, 1})
  BY ProofNodes, Zenon
<1>3. /\ at[n] = Leaf(key, proof)
      /\ \A i \in 0..(n - 1) : at[i] = Climb(key, nodes[i + 1], at[i + 1])
  BY <1>2, LevelsClimb
<1>4. \A i \in 0..n : at[i].depth \in 0..KeyBits /\ at[i].code = "OK"
  BY LevelsDepth
<1>5. at[0].next = H(0) /\ at[0].depth = 0
  <2>1. Under(tree, key, 0) = DOMAIN tree
    BY DEF Under
  <2> QED
    BY <2>1, Zenon DEF Root
<1> HIDE DEF n, nodes, at
<1> DEFINE T == {i \in Nat : i <= n => at[i].next = H(at[i].depth)}
<1>6. ASSUME NEW i \in T, i + 1 <= n PROVE at[i + 1].next = H(at[i + 1].depth)
  <2> DEFINE a == at[i + 1]
             b == at[i]
             item == nodes[i + 1]
             p == item.prefix
             keys == Under(tree, key, b.depth)
             d == Fork(keys, b.depth)
  <2>1. i \in 0..(n - 1) /\ i + 1 \in 0..n /\ i \in 0..n /\ i + 1 \in 1..n
    BY <1>2, <1>6
  <2>2. b = Climb(key, item, a) /\ p \in Seq({0, 1}) /\ b.next = H(b.depth)
    BY <1>2, <1>3, <1>6, <2>1
  <2>3. /\ a.depth \in 0..KeyBits /\ a.code = "OK"
        /\ b.depth \in 0..KeyBits /\ b.code = "OK"
    BY <1>4, <2>1
  <2> HIDE DEF a, b, item
  <2>4. ~ (a.depth < Len(p) + 1)
    BY <2>2, <2>3 DEF Climb
  <2> DEFINE x == IF key[(a.depth - 1) + 1] = 1 THEN item.node ELSE a.next
             y == IF key[(a.depth - 1) + 1] = 1 THEN a.next ELSE item.node
  <2>5. /\ b.depth = (a.depth - 1) - Len(p)
        /\ b.next = HashInternal(p, x, y)
        /\ Has(p, key, (a.depth - 1) - Len(p))
    BY <2>2, <2>3, <2>4 DEF Climb
  <2>6. keys \in SUBSET DOMAIN tree
    BY DEF Under
  <2>7. /\ keys # {} /\ d # KeyBits /\ p = Common(keys, b.depth)
        /\ x = HashTree(tree, Side(keys, d, 0), d + 1)
        /\ y = HashTree(tree, Side(keys, d, 1), d + 1)
    <3>1. b.next = HashTree(tree, keys, b.depth)
      BY <2>2
    <3>2. \A q, l, r : HashTree(tree, keys, b.depth) = HashInternal(q, l, r) =>
             /\ keys # {} /\ d # KeyBits /\ q = Common(keys, b.depth)
             /\ l = HashTree(tree, Side(keys, d, 0), d + 1)
             /\ r = HashTree(tree, Side(keys, d, 1), d + 1)
      <4>1. b.depth \in 0..KeyBits
        BY <2>3
      <4> HIDE DEF keys
      <4> QED
        BY <4>1, <2>6, HashTells, ZenonT(40)
    <3> HIDE DEF keys, d, x, y, p
    <3> QED
      BY <3>1, <3>2, <2>5
  <2>8. Len(p) = d - b.depth /\ d \in b.depth..KeyBits
    BY <2>3, <2>6, <2>7, CommonShared, ForkExists, ZenonT(40)
  <2>9. a.depth = d + 1 /\ (a.depth - 1) + 1 = d + 1
    BY <2>3, <2>5, <2>8, SMTT(30)
  <2>10. Side(keys, d, key[d + 1]) = Under(tree, key, d + 1)
    BY <2>3, <2>5, <2>7, UnderSide, Zenon
  <2>11. key[d + 1] \in {0, 1}
    BY <2>3, <2>7, <2>8, KeyAssumption DEF Key
  <2>12. a.next = HashTree(tree, Side(keys, d, key[d + 1]), d + 1)
    <3>1. CASE key[d + 1] = 1
      <4>1. a.next = y
        BY <3>1, <2>9
      <4> QED
        BY <4>1, <2>7, <3>1, Zenon
    <3>2. CASE key[d + 1] = 0
      <4>1. a.next = x
        BY <3>2, <2>9
      <4> QED
        BY <4>1, <2>7, <3>2, Zenon
    <3> QED
      BY <2>11, <3>1, <3>2
  <2>13. a.next = H(a.depth)
    BY <2>9, <2>10, <2>12, Zenon
  <2> QED
    BY <2>13 DEF a
<1>7. T = Nat
  <2>1. 0 \in T
    BY <1>5
  <2>2. \A j \in T : j + 1 \in T
    BY <1>6
  <2>3. T \subseteq Nat
    OBVIOUS
  <2> HIDE DEF T
  <2> QED
    BY <2>1, <2>2, <2>3, FromZeroOn, Zenon
<1>8. n \in T
  BY <1>2, <1>7
<1>9. at[n].next = H(at[n].depth) /\ at[n].code = "OK"
  BY <1>2, <1>4, <1>8
<1> QED
  BY <1>3, <1>9 DEF Leaf

\* A proof that hsk_proof_verify accepts tells the truth about the key, under
\* the root of any tree, whoever made the proof and out of whatever hashes.
THEOREM VerifySound ==
    ASSUME NEW tree, DOMAIN tree \subseteq Key, NEW key \in Key,
           NEW proof, IsProof(proof), Readable(proof),
           Verify(Root(tree), key, proof).code = "OK"
    PROVE  Verify(Root(tree), key, proof) = Truth(tree, key)
<1> DEFINE top == Levels(key, proof.nodes, Leaf(key, proof))[0]
           v == Verify(Root(tree), key, proof)
           depth == proof.depth
           keys == Under(tree, key, depth)
           h == HashTree(tree, keys, depth)
           d == Fork(keys, depth)
<1>1. v = IF top.code # "OK" THEN Failed(top.code)
          ELSE IF top.depth # 0 THEN Failed("ETOODEEP")
          ELSE IF top.next # Root(tree) THEN Failed("EHASHMISMATCH")
          ELSE IF proof.type # "EXISTS" THEN Failed("OK")
          ELSE IF proof.leaf.value = Malformed THEN Failed("EENCODING")
          ELSE [code |-> "OK", exists |-> TRUE, data |-> <<proof.leaf.value>>]
  BY Zenon DEF Verify
<1>2. v.code = "OK"
  OBVIOUS
<1>3. \A c : Failed(c).code = c
  BY DEF Failed
<1> HIDE DEF v, top
<1>4. /\ top.code = "OK" /\ top.depth = 0 /\ top.next = Root(tree)
      /\ v = IF proof.type # "EXISTS" THEN Failed("OK")
             ELSE [code |-> "OK", exists |-> TRUE, data |-> <<proof.leaf.value>>]
  BY <1>1, <1>2, <1>3, SMTT(30)
<1>5. LeafHash(key, proof) = h /\ Refused(key, proof) = "OK"
  BY <1>4, LevelsOnTheWay DEF top
<1>6. depth \in 0..KeyBits /\ keys \in SUBSET DOMAIN tree
  BY DEF IsProof, Readable, Under
<1>7. key \in DOMAIN tree => key \in keys
  BY DEF Under
<1>8. /\ h = Zeros => keys = {}
      /\ \A k, w : h = HashLeaf(k, w) =>
            keys # {} /\ d = KeyBits /\ k = One(keys) /\ w = tree[k]
      /\ \A p, l, r : h = HashInternal(p, l, r) => keys # {} /\ p = Common(keys, depth)
  <2> HIDE DEF keys, depth
  <2> QED
    BY <1>6, HashTells, Zenon
<1>9. keys # {} => /\ One(keys) \in keys
                   /\ \A k \in keys : Has(Common(keys, depth), k, depth)
  <2>1. keys \in SUBSET Key
    BY <1>6
  <2>2. keys # {} => One(keys) \in keys
    BY Zenon DEF One
  <2> HIDE DEF keys, depth
  <2> QED
    BY <1>6, <2>1, <2>2, CommonShared
<1>10. d = KeyBits => \A k, l \in keys : k = l
  BY <1>6, UnderOne
<1> HIDE DEF keys, h, d, depth
<1>11. CASE proof.type = "DEADEND"
  <2>1. h = Zeros
    BY <1>5, <1>11 DEF LeafHash
  <2> QED
    BY <1>4, <1>7, <1>8, <1>11, <2>1 DEF Truth, v
<1>12. CASE proof.type = "SHORT"
  <2>1. h = HashInternal(proof.leaf.prefix, proof.leaf.left, proof.leaf.right)
    BY <1>5, <1>12 DEF LeafHash
  <2>2. ~ Has(proof.leaf.prefix, key, depth)
    BY <1>5, <1>12 DEF Refused, depth
  <2>3. key \notin keys
    BY <1>8, <1>9, <2>1, <2>2
  <2> QED
    BY <1>4, <1>7, <1>12, <2>3 DEF Truth, v
<1>13. CASE proof.type = "COLLISION"
  <2>1. h = HashLeaf(proof.leaf.key, proof.leaf.hash)
    BY <1>5, <1>13 DEF LeafHash
  <2>2. proof.leaf.key # key
    BY <1>5, <1>13, SMTT(30) DEF Refused
  <2>3. key \notin keys
    BY <1>8, <1>9, <1>10, <2>1, <2>2, SMTT(30)
  <2> QED
    BY <1>4, <1>7, <1>13, <2>3 DEF Truth, v
<1>14. CASE proof.type = "EXISTS"
  <2>1. h = HashLeaf(key, proof.leaf.value)
    BY <1>5, <1>14, SMTT(30) DEF LeafHash
  <2>2. key \in keys /\ proof.leaf.value = tree[key]
    BY <1>8, <1>9, <2>1
  <2> QED
    BY <1>4, <1>6, <1>14, <2>2 DEF Truth, v
<1> QED
  BY <1>11, <1>12, <1>13, <1>14 DEF IsProof

\* The proof for a key from a node, when rest is the one from the node below.
ProofEnds(type, depth, leaf) ==
    [type |-> type, depth |-> depth, nodes |-> <<>>, leaf |-> leaf]
ProofFrom(rest, tree, key, keys, depth) ==
    LET p == Common(keys, depth)
        d == Fork(keys, depth)
        H(bit) == HashTree(tree, Side(keys, d, bit), d + 1)
    IN  IF keys = {} THEN ProofEnds("DEADEND", depth, <<>>)
        ELSE IF d = KeyBits
        THEN IF One(keys) = key
             THEN ProofEnds("EXISTS", depth, [value |-> tree[key]])
             ELSE ProofEnds("COLLISION", depth,
                            [key |-> One(keys), hash |-> tree[One(keys)]])
        ELSE IF ~Has(p, key, depth)
        THEN ProofEnds("SHORT", depth, [prefix |-> p, left |-> H(0), right |-> H(1)])
        ELSE [rest EXCEPT !.nodes = <<Node(p, H(1 - key[d + 1]))>> \o @]
ProofStep(f, tree, key, n) ==
    ProofFrom(f[Below(n, key[Fork(n[1], n[2]) + 1])], tree, key, n[1], n[2])
AreProofs(f, tree, key) == f = [n \in Nodes(tree) |-> ProofStep(f, tree, key, n)]

\* It is well defined ...
LEMMA ProofsExist ==
    ASSUME NEW tree, DOMAIN tree \subseteq Key, NEW key
    PROVE  \E f : AreProofs(f, tree, key)
<1> DEFINE D == Nodes(tree)
           From(d, f) == /\ f = [n \in D |-> f[n]]
                         /\ \A n \in D :
                               n[2] + d > KeyBits => f[n] = ProofStep(f, tree, key, n)
           T == {d \in Nat : \E f : From(d, f)}
<1>0. \A n \in D : n[2] \in 0..KeyBits
  BY DEF Nodes
<1>1. 0 \in T
  <2> DEFINE f == [n \in D |-> Zeros]
  <2>1. f = [n \in D |-> f[n]]
    OBVIOUS
  <2>2. \A n \in D : ~ (n[2] + 0 > KeyBits)
    BY <1>0, KeyAssumption
  <2> HIDE DEF f, D
  <2>3. From(0, f)
    BY <2>1, <2>2
  <2> QED
    BY <2>3
<1>2. ASSUME NEW d \in T PROVE d + 1 \in T
  <2>1. PICK f : From(d, f)
    BY <1>2
  <2> DEFINE g == [n \in D |-> ProofStep(f, tree, key, n)]
  <2>2. ASSUME NEW n \in D, n[2] + (d + 1) > KeyBits
        PROVE  g[n] = ProofStep(g, tree, key, n)
    <3>1. \A q \in D : q[2] + d > KeyBits => g[q] = f[q]
      BY <2>1
    <3>2. CASE n[1] = {} \/ Fork(n[1], n[2]) = KeyBits
      <4>1. ProofStep(g, tree, key, n) = ProofStep(f, tree, key, n)
        <5> HIDE DEF g
        <5> QED
          BY <3>2, Zenon DEF ProofStep, ProofFrom
      <4> QED
        BY <4>1
    <3>3. CASE n[1] # {} /\ Fork(n[1], n[2]) # KeyBits
      <4>1. \A bit : Below(n, bit) \in D /\ Below(n, bit)[2] > n[2]
        BY <3>3, BelowNode
      <4>2. \A bit : Below(n, bit)[2] + d > KeyBits
        BY <4>1, <2>2, <1>0, KeyAssumption
      <4>3. \A bit : g[Below(n, bit)] = f[Below(n, bit)]
        <5> HIDE DEF g, D
        <5> QED
          BY <3>1, <4>1, <4>2
      <4> HIDE DEF g
      <4>4. ProofStep(g, tree, key, n) = ProofStep(f, tree, key, n)
        BY <4>3, Zenon DEF ProofStep
      <4> QED
        BY <4>4 DEF g
    <3> QED
      BY <3>2, <3>3, Zenon
  <2>3. g = [n \in D |-> g[n]]
    OBVIOUS
  <2> HIDE DEF g
  <2>4. From(d + 1, g)
    BY <2>2, <2>3
  <2>5. d + 1 \in Nat
    BY <1>2
  <2> HIDE DEF From
  <2> QED
    BY <2>4, <2>5
<1>3. T = Nat
  <2>1. T \subseteq Nat
    OBVIOUS
  <2> HIDE DEF T
  <2> QED
    BY <1>1, <1>2, <2>1, FromZeroOn, Zenon
<1>4. KeyBits + 1 \in T
  <2> HIDE DEF T
  <2> QED
    BY <1>3, KeyAssumption
<1>5. PICK f : From(KeyBits + 1, f)
  BY <1>4
<1>6. ASSUME NEW n \in D PROVE f[n] = ProofStep(f, tree, key, n)
  <2>1. n[2] + (KeyBits + 1) > KeyBits
    BY <1>0, KeyAssumption
  <2> QED
    BY <1>5, <2>1
<1>7. f = [n \in D |-> ProofStep(f, tree, key, n)]
  BY <1>5, <1>6
<1> QED
  BY <1>7, Zenon DEF AreProofs

\* ... and made of the one from the node below.
LEMMA ProofOfNode ==
    ASSUME NEW tree, DOMAIN tree \subseteq Key, NEW key,
           NEW keys \in SUBSET DOMAIN tree, NEW depth \in 0..KeyBits
    PROVE  LET d == Fork(keys, depth)
           IN  Prove(tree, key, keys, depth) =
                   ProofFrom(Prove(tree, key, Side(keys, d, key[d + 1]), d + 1),
                             tree, key, keys, depth)
<1> DEFINE f == CHOOSE g : AreProofs(g, tree, key)
           d == Fork(keys, depth)
           n == <<keys, depth>>
<1>0. AreProofs(f, tree, key)
  BY ProofsExist, Zenon
<1>1. f = [m \in Nodes(tree) |-> ProofStep(f, tree, key, m)]
  BY <1>0, Zenon DEF AreProofs
<1>2. \A ks, e : Prove(tree, key, ks, e) = f[<<ks, e>>]
  BY Zenon DEF Prove, AreProofs, Nodes, ProofStep, ProofFrom, ProofEnds, Below
<1> HIDE DEF f
<1>3. n \in Nodes(tree) /\ n[1] = keys /\ n[2] = depth
  BY DEF Nodes
<1>4. f[n] = ProofStep(f, tree, key, n)
  <2> HIDE DEF n
  <2> QED
    BY <1>1, <1>3
<1>5. \A bit : Below(n, bit) = <<Side(keys, d, bit), d + 1>>
  BY <1>3 DEF Below
<1>6. Prove(tree, key, keys, depth) = f[n]
  BY <1>2
<1>7. \A bit : Prove(tree, key, Side(keys, d, bit), d + 1) = f[Below(n, bit)]
  BY <1>2, <1>5, Zenon
<1>8. ProofStep(f, tree, key, n)
        = ProofFrom(f[Below(n, key[d + 1])], tree, key, keys, depth)
  <2> HIDE DEF n
  <2> QED
    BY <1>3, Zenon DEF ProofStep
<1> HIDE DEF n
<1> QED
  BY <1>4, <1>6, <1>7, <1>8, Zenon

\* One more node before the others is one more round of the loop after theirs.
LEMMA LevelsCons ==
    ASSUME NEW S, NEW nodes \in Seq(S), NEW item \in S, NEW key, NEW leaf
    PROVE  Levels(key, <<item>> \o nodes, leaf)[0]
             = Climb(key, item, Levels(key, nodes, leaf)[0])
<1> DEFINE n == Len(nodes)
           all == <<item>> \o nodes
           at == Levels(key, nodes, leaf)
           up == Levels(key, all, leaf)
<1>1. n \in Nat /\ Len(all) = n + 1 /\ all[1] = item
  OBVIOUS
<1>2. \A i \in 1..n : all[i + 1] = nodes[i]
  OBVIOUS
<1> HIDE DEF all, n
<1>3. /\ at[n] = leaf
      /\ \A i \in 0..(n - 1) : at[i] = Climb(key, nodes[i + 1], at[i + 1])
  BY <1>1, LevelsClimb DEF n
<1>4. Len(all) \in Nat /\ Len(all) - 1 = n
  BY <1>1
<1>5. /\ up[n + 1] = leaf
      /\ \A i \in 0..n : up[i] = Climb(key, all[i + 1], up[i + 1])
  BY <1>1, <1>4, LevelsClimb
<1> HIDE DEF at, up
<1> DEFINE T == {j \in Nat : j <= n => up[(n - j) + 1] = at[n - j]}
<1>6. 0 \in T
  BY <1>1, <1>3, <1>5
<1>7. ASSUME NEW j \in T, j + 1 <= n PROVE up[(n - (j + 1)) + 1] = at[n - (j + 1)]
  <2> DEFINE i == n - (j + 1)
  <2>1. /\ i \in 0..(n - 1) /\ i + 1 \in 0..n /\ i + 1 \in 1..n
        /\ i + 1 = n - j /\ (n - j) + 1 = (i + 1) + 1 /\ j <= n
    BY <1>1, <1>7
  <2>2. up[(i + 1) + 1] = at[i + 1]
    BY <1>7, <2>1
  <2> HIDE DEF i
  <2>3. up[i + 1] = Climb(key, all[(i + 1) + 1], up[(i + 1) + 1])
    BY <1>5, <2>1
  <2>4. at[i] = Climb(key, nodes[i + 1], at[i + 1]) /\ all[(i + 1) + 1] = nodes[i + 1]
    BY <1>2, <1>3, <2>1
  <2>5. up[i + 1] = at[i]
    BY <2>2, <2>3, <2>4, Zenon
  <2> QED
    BY <2>5 DEF i
<1>8. T = Nat
  <2>1. \A j \in T : j + 1 \in T
    BY <1>7
  <2>2. T \subseteq Nat
    OBVIOUS
  <2> HIDE DEF T
  <2> QED
    BY <1>6, <2>1, <2>2, FromZeroOn, Zenon
<1>9. up[1] = at[0]
  <2>1. n \in T
    <3> HIDE DEF T
    <3> QED
      BY <1>1, <1>8
  <2> QED
    BY <1>1, <2>1
<1>10. up[0] = Climb(key, item, up[1])
  BY <1>1, <1>5
<1> QED
  BY <1>9, <1>10 DEF up, at, all

LEMMA SeqOver ==
    ASSUME NEW A, NEW B, A \subseteq B, NEW s \in Seq(A)
    PROVE  s \in Seq(B)
OBVIOUS

\* What the proof from the node with this key's first bits is, ...
ProofFits(tree, key, depth, proof) ==
    /\ proof = [type |-> proof.type, depth |-> proof.depth,
                nodes |-> proof.nodes, leaf |-> proof.leaf]
    /\ IsProof(proof) /\ Readable(proof)
    /\ Len(proof.nodes) <= KeyBits - depth
    /\ IF key \in DOMAIN tree
       THEN proof.type = "EXISTS" /\ proof.leaf.value = tree[key]
       ELSE proof.type # "EXISTS"
    /\ Levels(key, proof.nodes, Leaf(key, proof))[0]
         = [next  |-> HashTree(tree, Under(tree, key, depth), depth),
            depth |-> depth, code |-> "OK"]

\* ... when it ends there ...
LEMMA ProofEndsFits ==
    ASSUME NEW tree, DOMAIN tree \subseteq Key, NEW key \in Key,
           NEW depth \in 0..KeyBits,
           NEW type \in {"DEADEND", "SHORT", "COLLISION", "EXISTS"}, NEW leaf,
           type = "SHORT" => leaf.prefix \in Seq({0, 1}) /\ Len(leaf.prefix) \in 1..KeyBits,
           IF key \in DOMAIN tree
           THEN type = "EXISTS" /\ leaf.value = tree[key]
           ELSE type # "EXISTS",
           LeafHash(key, ProofEnds(type, depth, leaf))
             = HashTree(tree, Under(tree, key, depth), depth),
           Refused(key, ProofEnds(type, depth, leaf)) = "OK"
    PROVE  ProofFits(tree, key, depth, ProofEnds(type, depth, leaf))
<1> DEFINE proof == ProofEnds(type, depth, leaf)
<1>1. /\ proof = [type |-> type, depth |-> depth, nodes |-> <<>>, leaf |-> leaf]
      /\ proof.type = type /\ proof.depth = depth /\ proof.nodes = <<>>
      /\ proof.leaf = leaf
  BY DEF ProofEnds
<1> HIDE DEF proof
<1>2. Len(proof.nodes) = 0 /\ proof.nodes \in Seq([prefix : Seq({0, 1}), node : {}])
  BY <1>1
<1>3. IsProof(proof)
  BY <1>1, <1>2, KeyAssumption DEF IsProof
<1>4. Readable(proof)
  BY <1>1, <1>2, KeyAssumption DEF Readable
<1>5. Levels(key, proof.nodes, Leaf(key, proof))[0] = Leaf(key, proof)
  <2>1. Len(proof.nodes) \in Nat
    BY <1>2
  <2>2. Levels(key, proof.nodes, Leaf(key, proof))[Len(proof.nodes)] = Leaf(key, proof)
    BY <2>1, LevelsClimb
  <2> QED
    BY <1>2, <2>2, Zenon
<1>6. Leaf(key, proof) = [next  |-> HashTree(tree, Under(tree, key, depth), depth),
                          depth |-> depth, code |-> "OK"]
  BY <1>1 DEF Leaf, proof
<1>7. Len(proof.nodes) <= KeyBits - depth
  BY <1>2, KeyAssumption
<1>8. proof = [type |-> proof.type, depth |-> proof.depth,
               nodes |-> proof.nodes, leaf |-> proof.leaf]
  BY <1>1, Zenon
<1>9. IF key \in DOMAIN tree
      THEN proof.type = "EXISTS" /\ proof.leaf.value = tree[key]
      ELSE proof.type # "EXISTS"
  BY <1>1, Zenon
<1>10. ProofFits(tree, key, depth, proof)
  BY <1>3, <1>4, <1>5, <1>6, <1>7, <1>8, <1>9, Zenon DEF ProofFits
<1> QED
  BY <1>10 DEF proof

\* ... and when it goes on below.
LEMMA ProofGoesOnFits ==
    ASSUME NEW tree, DOMAIN tree \subseteq Key, NEW key \in Key,
           NEW depth \in 0..KeyBits, Under(tree, key, depth) # {},
           Fork(Under(tree, key, depth), depth) # KeyBits,
           Has(Common(Under(tree, key, depth), depth), key, depth),
           NEW rest,
           ProofFits(tree, key, Fork(Under(tree, key, depth), depth) + 1, rest)
    PROVE  LET keys == Under(tree, key, depth)
               p == Common(keys, depth)
               d == Fork(keys, depth)
               other == HashTree(tree, Side(keys, d, 1 - key[d + 1]), d + 1)
           IN  ProofFits(tree, key, depth,
                         [rest EXCEPT !.nodes = <<Node(p, other)>> \o @])
<1> DEFINE keys == Under(tree, key, depth)
           p == Common(keys, depth)
           d == Fork(keys, depth)
           H(bit) == HashTree(tree, Side(keys, d, bit), d + 1)
           other == H(1 - key[d + 1])
           item == Node(p, other)
           nodes == <<item>> \o rest.nodes
           proof == [rest EXCEPT !.nodes = nodes]
           low == [next |-> H(key[d + 1]), depth |-> d + 1, code |-> "OK"]
<1>1. keys \in SUBSET DOMAIN tree /\ keys \in SUBSET Key
  BY DEF Under
<1>2. d \in depth..KeyBits /\ d # KeyBits
  BY <1>1, ForkExists
<1>3. p \in Seq({0, 1}) /\ Len(p) = d - depth
  BY <1>1, CommonShared
<1>4. Side(keys, d, key[d + 1]) = Under(tree, key, d + 1)
  BY UnderSide
<1>5. HashTree(tree, keys, depth) = HashInternal(p, H(0), H(1))
  <2>1. keys # {} /\ d # KeyBits
    BY <1>2
  <2> HIDE DEF keys
  <2> QED
    BY <1>1, <2>1, HashOfNode, Zenon
<1>6. key[d + 1] \in {0, 1}
  BY <1>2, KeyAssumption DEF Key
<1>7. /\ rest = [type |-> rest.type, depth |-> rest.depth,
                 nodes |-> rest.nodes, leaf |-> rest.leaf]
      /\ IsProof(rest) /\ Readable(rest)
      /\ Len(rest.nodes) <= KeyBits - (d + 1)
      /\ Levels(key, rest.nodes, Leaf(key, rest))[0] = low
      /\ IF key \in DOMAIN tree
         THEN rest.type = "EXISTS" /\ rest.leaf.value = tree[key]
         ELSE rest.type # "EXISTS"
  BY <1>4 DEF ProofFits
<1>8. Has(p, key, depth)
  OBVIOUS
<1> HIDE DEF keys, p, d, H
<1>9. item.prefix = p /\ item.node = other
  BY DEF Node
<1>10. /\ proof = [type |-> rest.type, depth |-> rest.depth,
                   nodes |-> nodes, leaf |-> rest.leaf]
       /\ proof.type = rest.type /\ proof.depth = rest.depth
       /\ proof.nodes = nodes /\ proof.leaf = rest.leaf
  <2>1. proof = [type |-> rest.type, depth |-> rest.depth,
                 nodes |-> nodes, leaf |-> rest.leaf]
    <3> HIDE DEF nodes
    <3> QED
      BY <1>7
  <2> HIDE DEF proof, nodes
  <2> QED
    BY <2>1
<1> HIDE DEF proof
<1>11. PICK S : rest.nodes \in Seq([prefix : Seq({0, 1}), node : S])
  BY <1>7, Zenon DEF IsProof
<1> DEFINE R == [prefix : Seq({0, 1}), node : S \cup {other}]
<1>12. rest.nodes \in Seq(R) /\ item \in R
  <2>1. [prefix : Seq({0, 1}), node : S] \subseteq R
    OBVIOUS
  <2>2. item \in R
    BY <1>3 DEF Node
  <2> HIDE DEF R, item
  <2>3. rest.nodes \in Seq(R)
    BY <1>11, <2>1, SeqOver, Zenon
  <2> QED
    BY <2>2, <2>3
<1>13. nodes \in Seq(R) /\ Len(nodes) = Len(rest.nodes) + 1 /\ Len(rest.nodes) \in Nat
  <2> HIDE DEF R, item
  <2> QED
    BY <1>12
<1>14. IsProof(proof)
  BY <1>7, <1>10, <1>13, Zenon DEF IsProof
<1>15. Len(proof.nodes) <= KeyBits - depth
  BY <1>2, <1>7, <1>10, <1>13, KeyAssumption, SMTT(30)
<1>16. Readable(proof)
  <2>1. ASSUME NEW i \in DOMAIN nodes PROVE Len(nodes[i].prefix) <= KeyBits
    <3>1. i \in 1..(Len(rest.nodes) + 1)
      <4> HIDE DEF R, item, nodes
      <4> QED
        BY <1>13, SMTT(30)
    <3>2. CASE i = 1
      <4>1. nodes[1] = item
        <5> HIDE DEF R, item
        <5> QED
          BY <1>12
      <4> QED
        BY <3>2, <4>1, <1>2, <1>3, <1>9, KeyAssumption
    <3>3. CASE i # 1
      <4>1. i - 1 \in 1..Len(rest.nodes) /\ nodes[i] = rest.nodes[i - 1]
        <5> HIDE DEF R, item
        <5> QED
          BY <1>12, <1>13, <3>1, <3>3
      <4>2. i - 1 \in DOMAIN rest.nodes
        <5> HIDE DEF R
        <5> QED
          BY <1>12, <4>1
      <4>3. Len(rest.nodes[i - 1].prefix) <= KeyBits
        BY <1>7, <4>2 DEF Readable
      <4> QED
        BY <4>1, <4>3
    <3> QED
      BY <3>2, <3>3
  <2>2. Len(nodes) <= KeyBits
    BY <1>10, <1>15, KeyAssumption, <1>13
  <2> HIDE DEF nodes
  <2> QED
    BY <1>7, <1>10, <2>1, <2>2 DEF Readable
<1>17. Leaf(key, proof) = Leaf(key, rest)
  BY <1>10, Zenon DEF Leaf, LeafHash, Refused
<1>18. Levels(key, nodes, Leaf(key, proof))[0] = Climb(key, item, low)
  <2>1. Levels(key, nodes, Leaf(key, rest))[0]
          = Climb(key, item, Levels(key, rest.nodes, Leaf(key, rest))[0])
    <3> HIDE DEF R, item
    <3> QED
      BY <1>12, LevelsCons
  <2> QED
    BY <1>7, <1>17, <2>1, Zenon
<1>19. Climb(key, item, low)
         = [next |-> HashTree(tree, keys, depth), depth |-> depth, code |-> "OK"]
  <2>1. low.code = "OK" /\ low.depth = d + 1 /\ low.next = H(key[d + 1])
    OBVIOUS
  <2>2. /\ ~ (d + 1 < Len(p) + 1) /\ (d + 1) - 1 = d
        /\ (d + 1) - 1 - Len(p) = depth
    BY <1>2, <1>3, SMTT(30)
  <2> DEFINE up == IF key[d + 1] = 1 THEN HashInternal(p, other, H(key[d + 1]))
                   ELSE HashInternal(p, H(key[d + 1]), other)
  <2>3. up = HashInternal(p, H(0), H(1))
    <3>1. CASE key[d + 1] = 1
      <4>1. 1 - key[d + 1] = 0
        BY <3>1
      <4> QED
        BY <3>1, <4>1, Zenon
    <3>2. CASE key[d + 1] = 0
      <4>1. 1 - key[d + 1] = 1 /\ key[d + 1] # 1
        BY <3>2
      <4> QED
        BY <3>2, <4>1, Zenon
    <3> QED
      BY <1>6, <3>1, <3>2
  <2> HIDE DEF low, item, up
  <2>4. Climb(key, item, low) = [next |-> up, depth |-> depth, code |-> "OK"]
    BY <1>8, <1>9, <2>1, <2>2 DEF Climb, up
  <2> QED
    BY <1>5, <2>3, <2>4
<1>20. ProofFits(tree, key, depth, proof)
  <2>1. Levels(key, proof.nodes, Leaf(key, proof))[0]
          = [next |-> HashTree(tree, keys, depth), depth |-> depth, code |-> "OK"]
    BY <1>10, <1>18, <1>19, Zenon
  <2>2. proof = [type |-> proof.type, depth |-> proof.depth,
                 nodes |-> proof.nodes, leaf |-> proof.leaf]
    BY <1>10, Zenon
  <2>3. IF key \in DOMAIN tree
        THEN proof.type = "EXISTS" /\ proof.leaf.value = tree[key]
        ELSE proof.type # "EXISTS"
    BY <1>7, <1>10, Zenon
  <2> QED
    BY <1>14, <1>15, <1>16, <2>1, <2>2, <2>3, Zenon DEF ProofFits, keys
<1> QED
  BY <1>20, Zenon DEF proof, item, nodes, other, H, p, d, keys

LEMMA ProofStepFits ==
    ASSUME NEW tree, DOMAIN tree \subseteq Key, NEW key \in Key,
           NEW depth \in 0..KeyBits,
           \A e \in (depth + 1)..KeyBits :
              ProofFits(tree, key, e, Prove(tree, key, Under(tree, key, e), e))
    PROVE  ProofFits(tree, key, depth, Prove(tree, key, Under(tree, key, depth), depth))
<1> DEFINE keys == Under(tree, key, depth)
           p == Common(keys, depth)
           d == Fork(keys, depth)
           H(bit) == HashTree(tree, Side(keys, d, bit), d + 1)
           proof == Prove(tree, key, keys, depth)
           rest == Prove(tree, key, Side(keys, d, key[d + 1]), d + 1)
           short == [prefix |-> p, left |-> H(0), right |-> H(1)]
<1>1. keys \in SUBSET DOMAIN tree /\ keys \in SUBSET Key
  BY DEF Under
<1>2. d \in depth..KeyBits
  BY <1>1, ForkExists
<1>3. key \in DOMAIN tree <=> key \in keys
  BY DEF Under
<1>4. proof = IF keys = {} THEN ProofEnds("DEADEND", depth, <<>>)
              ELSE IF d = KeyBits
              THEN IF One(keys) = key
                   THEN ProofEnds("EXISTS", depth, [value |-> tree[key]])
                   ELSE ProofEnds("COLLISION", depth,
                                  [key |-> One(keys), hash |-> tree[One(keys)]])
              ELSE IF ~Has(p, key, depth)
              THEN ProofEnds("SHORT", depth, short)
              ELSE [rest EXCEPT !.nodes = <<Node(p, H(1 - key[d + 1]))>> \o @]
  <2>1. proof = ProofFrom(rest, tree, key, keys, depth)
    <3> HIDE DEF keys
    <3> QED
      BY <1>1, ProofOfNode
  <2> HIDE DEF proof, rest
  <2> QED
    BY <2>1, Zenon DEF ProofFrom
<1>5. HashTree(tree, keys, depth) =
         IF keys = {} THEN Zeros
         ELSE IF d = KeyBits THEN HashLeaf(One(keys), tree[One(keys)])
         ELSE HashInternal(p, H(0), H(1))
  <2> HIDE DEF keys
  <2> QED
    BY <1>1, HashOfNode, Zenon
<1>6. keys # {} =>
         /\ One(keys) \in keys
         /\ p \in Seq({0, 1}) /\ Len(p) = d - depth
         /\ \A k \in keys : Has(p, k, depth)
  <2>1. keys # {} => One(keys) \in keys
    BY Zenon DEF One
  <2> HIDE DEF keys
  <2> QED
    BY <1>1, <2>1, CommonShared, Zenon
<1>7. d = KeyBits => \A k, l \in keys : k = l
  BY UnderOne
<1>8. \A type, leaf : /\ ProofEnds(type, depth, leaf).type = type
                      /\ ProofEnds(type, depth, leaf).leaf = leaf
                      /\ ProofEnds(type, depth, leaf).depth = depth
  BY DEF ProofEnds
<1>9. CASE keys = {}
  <2>1. /\ LeafHash(key, ProofEnds("DEADEND", depth, <<>>)) = HashTree(tree, keys, depth)
        /\ Refused(key, ProofEnds("DEADEND", depth, <<>>)) = "OK"
    <3> HIDE DEF keys, d, p
    <3> QED
      BY <1>5, <1>8, <1>9 DEF LeafHash, Refused
  <2>2. key \notin DOMAIN tree
    BY <1>3, <1>9
  <2>3. ProofFits(tree, key, depth, ProofEnds("DEADEND", depth, <<>>))
    BY <2>1, <2>2, ProofEndsFits
  <2> QED
    BY <1>4, <1>9, <2>3, Zenon
<1>10. CASE keys # {} /\ d = KeyBits /\ One(keys) = key
  <2> DEFINE leaf == [value |-> tree[key]]
  <2>0. leaf.value = tree[key]
    OBVIOUS
  <2> HIDE DEF leaf
  <2>1. /\ LeafHash(key, ProofEnds("EXISTS", depth, leaf)) = HashTree(tree, keys, depth)
        /\ Refused(key, ProofEnds("EXISTS", depth, leaf)) = "OK"
    <3> HIDE DEF keys, d, p
    <3> QED
      BY <1>5, <1>8, <1>10, <2>0 DEF LeafHash, Refused
  <2>2. key \in DOMAIN tree
    BY <1>3, <1>6, <1>10, Zenon
  <2>3. ProofFits(tree, key, depth, ProofEnds("EXISTS", depth, leaf))
    BY <2>0, <2>1, <2>2, ProofEndsFits
  <2> QED
    BY <1>4, <1>10, <2>3, Zenon DEF leaf
<1>11. CASE keys # {} /\ d = KeyBits /\ One(keys) # key
  <2> DEFINE leaf == [key |-> One(keys), hash |-> tree[One(keys)]]
  <2>0. leaf.key = One(keys) /\ leaf.hash = tree[One(keys)]
    OBVIOUS
  <2> HIDE DEF leaf
  <2>1. /\ LeafHash(key, ProofEnds("COLLISION", depth, leaf)) = HashTree(tree, keys, depth)
        /\ Refused(key, ProofEnds("COLLISION", depth, leaf)) = "OK"
    <3> HIDE DEF keys, d, p
    <3> QED
      BY <1>5, <1>8, <1>11, <2>0 DEF LeafHash, Refused
  <2>2. key \notin DOMAIN tree
    BY <1>3, <1>6, <1>7, <1>11, ZenonT(40)
  <2>3. ProofFits(tree, key, depth, ProofEnds("COLLISION", depth, leaf))
    BY <2>0, <2>1, <2>2, ProofEndsFits
  <2> QED
    BY <1>4, <1>11, <2>3, Zenon DEF leaf
<1>12. CASE keys # {} /\ d # KeyBits /\ ~Has(p, key, depth)
  <2>0. short.prefix = p /\ short.left = H(0) /\ short.right = H(1)
    <3> HIDE DEF p, H
    <3> QED
      OBVIOUS
  <2> HIDE DEF short
  <2>1. /\ LeafHash(key, ProofEnds("SHORT", depth, short)) = HashTree(tree, keys, depth)
        /\ Refused(key, ProofEnds("SHORT", depth, short)) = "OK"
    <3> HIDE DEF keys, d, p, H
    <3> QED
      BY <1>5, <1>8, <1>12, <2>0 DEF LeafHash, Refused
  <2>2. key \notin DOMAIN tree
    BY <1>3, <1>6, <1>12, Zenon
  <2>3. short.prefix \in Seq({0, 1}) /\ Len(short.prefix) \in 1..KeyBits
    <3>1. p \in Seq({0, 1}) /\ Len(p) = d - depth
      BY <1>6, <1>12, Zenon
    <3> HIDE DEF keys, d, p
    <3>2. Len(p) # 0
      BY <1>12, <3>1, KeyAssumption, SMTT(30) DEF Has
    <3> QED
      BY <1>2, <2>0, <3>1, <3>2, KeyAssumption
  <2>4. ProofFits(tree, key, depth, ProofEnds("SHORT", depth, short))
    BY <2>1, <2>2, <2>3, ProofEndsFits
  <2> QED
    BY <1>4, <1>12, <2>4, Zenon
<1>13. CASE keys # {} /\ d # KeyBits /\ Has(p, key, depth)
  <2>1. Side(keys, d, key[d + 1]) = Under(tree, key, d + 1)
    BY <1>13, UnderSide
  <2>2. d + 1 \in (depth + 1)..KeyBits
    <3> HIDE DEF d
    <3> QED
      BY <1>2, <1>13, KeyAssumption
  <2>3. ProofFits(tree, key, d + 1, rest)
    BY <2>1, <2>2, Zenon
  <2> HIDE DEF rest
  <2>4. ProofFits(tree, key, depth,
                  [rest EXCEPT !.nodes = <<Node(p, H(1 - key[d + 1]))>> \o @])
    BY <1>13, <2>3, ProofGoesOnFits, Zenon
  <2> QED
    BY <1>4, <1>13, <2>4, Zenon
<1> QED
  BY <1>9, <1>10, <1>11, <1>12, <1>13, Zenon

LEMMA ProveFits ==
    ASSUME NEW tree, DOMAIN tree \subseteq Key, NEW key \in Key
    PROVE  ProofFits(tree, key, 0, Prove(tree, key, DOMAIN tree, 0))
<1> DEFINE Fits(e) == ProofFits(tree, key, e, Prove(tree, key, Under(tree, key, e), e))
           T == {r \in Nat : \A e \in 0..KeyBits : e + r > KeyBits => Fits(e)}
<1> HIDE DEF Fits
<1>1. 0 \in T
  BY KeyAssumption
<1>2. ASSUME NEW r \in T PROVE r + 1 \in T
  <2>1. ASSUME NEW e \in 0..KeyBits, e + (r + 1) > KeyBits PROVE Fits(e)
    <3>1. \A c \in (e + 1)..KeyBits : c \in 0..KeyBits /\ c + r > KeyBits
      BY <2>1, KeyAssumption
    <3>2. \A c \in (e + 1)..KeyBits : Fits(c)
      BY <1>2, <3>1
    <3> QED
      BY <3>2, ProofStepFits, Zenon DEF Fits
  <2> QED
    BY <2>1
<1>3. T = Nat
  <2>1. T \subseteq Nat
    OBVIOUS
  <2> HIDE DEF T
  <2> QED
    BY <1>1, <1>2, <2>1, FromZeroOn, Zenon
<1>4. KeyBits + 1 \in T
  <2> HIDE DEF T
  <2> QED
    BY <1>3, KeyAssumption
<1>5. Fits(0)
  BY <1>4, KeyAssumption
<1>6. Under(tree, key, 0) = DOMAIN tree
  BY DEF Under
<1> QED
  BY <1>5, <1>6, Zenon DEF Fits

\* hsk_proof_read takes the proof that a full node makes for a key, and
\* hsk_proof_verify accepts it and finds what the tree holds, unless that does
\* not parse.
THEOREM VerifyComplete ==
    ASSUME NEW tree, DOMAIN tree \subseteq Key, NEW key \in Key
    PROVE  LET proof == Prove(tree, key, DOMAIN tree, 0)
           IN  /\ Readable(proof)
               /\ Verify(Root(tree), key, proof) =
                     IF key \in DOMAIN tree /\ tree[key] = Malformed
                     THEN Failed("EENCODING")
                     ELSE Truth(tree, key)
<1> DEFINE proof == Prove(tree, key, DOMAIN tree, 0)
           top == Levels(key, proof.nodes, Leaf(key, proof))[0]
<1>1. ProofFits(tree, key, 0, proof)
  BY ProveFits
<1>2. Verify(Root(tree), key, proof) =
         IF top.code # "OK" THEN Failed(top.code)
         ELSE IF top.depth # 0 THEN Failed("ETOODEEP")
         ELSE IF top.next # Root(tree) THEN Failed("EHASHMISMATCH")
         ELSE IF proof.type # "EXISTS" THEN Failed("OK")
         ELSE IF proof.leaf.value = Malformed THEN Failed("EENCODING")
         ELSE [code |-> "OK", exists |-> TRUE, data |-> <<proof.leaf.value>>]
  BY Zenon DEF Verify
<1> HIDE DEF proof
<1>3. /\ Readable(proof)
      /\ top = [next  |-> HashTree(tree, Under(tree, key, 0), 0),
                depth |-> 0, code |-> "OK"]
      /\ IF key \in DOMAIN tree
         THEN proof.type = "EXISTS" /\ proof.leaf.value = tree[key]
         ELSE proof.type # "EXISTS"
  BY <1>1, Zenon DEF ProofFits
<1>4. Under(tree, key, 0) = DOMAIN tree
  BY DEF Under
<1> HIDE DEF top
<1>5. top.code = "OK" /\ top.depth = 0 /\ top.next = Root(tree)
  BY <1>3, <1>4 DEF Root
<1>6. Verify(Root(tree), key, proof) =
         IF proof.type # "EXISTS" THEN Failed("OK")
         ELSE IF proof.leaf.value = Malformed THEN Failed("EENCODING")
         ELSE [code |-> "OK", exists |-> TRUE, data |-> <<proof.leaf.value>>]
  BY <1>2, <1>5, Zenon
<1>7. CASE key \in DOMAIN tree
  <2>1. proof.type = "EXISTS" /\ proof.leaf.value = tree[key]
    BY <1>3, <1>7, Zenon
  <2>2. CASE tree[key] = Malformed
    BY <1>3, <1>6, <1>7, <2>1, <2>2 DEF proof
  <2>3. CASE tree[key] # Malformed
    BY <1>3, <1>6, <1>7, <2>1, <2>3, ZenonT(40) DEF proof, Truth
  <2> QED
    BY <2>2, <2>3, Zenon
<1>8. CASE key \notin DOMAIN tree
  BY <1>3, <1>6, <1>8 DEF proof, Truth
<1> QED
  BY <1>7, <1>8, Zenon

\* The nodes on any way down a tree have the form of nodes.
WalkInv ==
    walk # NoWalk =>
        /\ DOMAIN walk.tree \subseteq Key
        /\ walk.key \in Key
        /\ walk.under \in SUBSET Key /\ walk.depth \in 0..KeyBits
        /\ \E S : walk.nodes \in Seq([prefix : Seq({0, 1}), node : S])
        /\ walk = [tree |-> walk.tree, key |-> walk.key, nodes |-> walk.nodes,
                   under |-> walk.under, depth |-> walk.depth]

LEMMA WalkStep == WalkInv /\ [ChooseTree \/ GoDown]_walk => WalkInv'
<1> SUFFICES ASSUME WalkInv, [ChooseTree \/ GoDown]_walk PROVE WalkInv'
  OBVIOUS
<1>1. CASE ChooseTree
  <2>1. PICK tree \in Trees, key \in Key :
           walk' = [NoWalk EXCEPT !.tree = tree, !.key = key, !.under = DOMAIN tree]
    BY <1>1, Zenon DEF ChooseTree
  <2>2. DOMAIN tree \in SUBSET Key
    BY DEF Trees
  <2>3. walk' = [tree |-> tree, key |-> key, nodes |-> <<>>,
                 under |-> DOMAIN tree, depth |-> 0]
    BY <2>1, Zenon DEF NoWalk
  <2>4. <<>> \in Seq([prefix : Seq({0, 1}), node : {}])
    OBVIOUS
  <2> DEFINE w == walk'
  <2> HIDE DEF w
  <2>5. /\ w.tree = tree /\ w.key = key /\ w.nodes = <<>> /\ w.under = DOMAIN tree
        /\ w.depth = 0
    BY <2>3 DEF w
  <2> QED
    BY <2>2, <2>3, <2>4, <2>5, KeyAssumption DEF WalkInv, w
<1>2. CASE GoDown
  <2> DEFINE d == Fork(walk.under, walk.depth)
  <2>1. PICK bit \in {0, 1}, p \in {Common(walk.under, walk.depth), <<>>} :
           walk' = [walk EXCEPT
               !.nodes = Append(@, Node(p, HashTree(walk.tree,
                             Side(walk.under, d, 1 - bit), d + 1))),
               !.under = Side(@, d, bit),
               !.depth = d + 1]
    BY <1>2, Zenon DEF GoDown
  <2>2. walk.under # {} /\ d < KeyBits
    BY <1>2, Zenon DEF GoDown
  <2>3. walk # NoWalk
    BY <2>2 DEF NoWalk
  <2>4. /\ DOMAIN walk.tree \subseteq Key /\ walk.key \in Key
        /\ walk.under \in SUBSET Key /\ walk.depth \in 0..KeyBits
        /\ walk = [tree |-> walk.tree, key |-> walk.key, nodes |-> walk.nodes,
                   under |-> walk.under, depth |-> walk.depth]
    BY <2>3, Zenon DEF WalkInv
  <2>5. PICK S : walk.nodes \in Seq([prefix : Seq({0, 1}), node : S])
    BY <2>3, Zenon DEF WalkInv
  <2> DEFINE h == HashTree(walk.tree, Side(walk.under, d, 1 - bit), d + 1)
             item == Node(p, h)
             R == [prefix : Seq({0, 1}), node : S \cup {h}]
             nodes == Append(walk.nodes, item)
             under == Side(walk.under, d, bit)
  <2>6. d \in walk.depth..KeyBits
    BY <2>4, ForkExists, Zenon
  <2>7. d + 1 \in 0..KeyBits
    <3> HIDE DEF d
    <3> QED
      BY <2>2, <2>4, <2>6, KeyAssumption
  <2>8. p \in Seq({0, 1})
    <3>1. Common(walk.under, walk.depth) \in Seq({0, 1})
      BY <2>2, <2>4, CommonShared, Zenon
    <3>2. <<>> \in Seq({0, 1})
      OBVIOUS
    <3> QED
      BY <3>1, <3>2, Zenon
  <2>9. item \in R
    <3> HIDE DEF h
    <3> QED
      BY <2>8 DEF Node
  <2>10. walk.nodes \in Seq(R)
    <3>1. [prefix : Seq({0, 1}), node : S] \subseteq R
      OBVIOUS
    <3> HIDE DEF R
    <3> QED
      BY <2>5, <3>1, SeqOver, Zenon
  <2>11. nodes \in Seq(R)
    <3> HIDE DEF R, item
    <3> QED
      BY <2>9, <2>10
  <2>12. under \in SUBSET Key
    BY <2>4 DEF Side
  <2>13. walk' = [tree |-> walk.tree, key |-> walk.key, nodes |-> nodes,
                  under |-> under, depth |-> d + 1]
    <3>1. walk' = [walk EXCEPT !.nodes = nodes, !.under = under, !.depth = d + 1]
      BY <2>1, Zenon
    <3> HIDE DEF nodes, under, d
    <3> QED
      BY <2>4, <3>1, Zenon
  <2> DEFINE w == walk'
  <2> HIDE DEF w, nodes, under, d, R
  <2>14. /\ w.tree = walk.tree /\ w.key = walk.key /\ w.nodes = nodes
         /\ w.under = under /\ w.depth = d + 1
    BY <2>13 DEF w
  <2>15. w = [tree |-> w.tree, key |-> w.key, nodes |-> w.nodes,
              under |-> w.under, depth |-> w.depth]
    BY <2>13, <2>14, Zenon DEF w
  <2>16. \E Z : w.nodes \in Seq([prefix : Seq({0, 1}), node : Z])
    BY <2>11, <2>14, Zenon DEF R
  <2> QED
    BY <2>4, <2>7, <2>12, <2>14, <2>15, <2>16, Zenon DEF WalkInv, w
<1>3. CASE UNCHANGED walk
  BY <1>3, Zenon DEF WalkInv
<1> QED
  BY <1>1, <1>2, <1>3

\* Every claim that the walk makes has the form of a proof.
LEMMA ClaimsAreProofs ==
    ASSUME WalkInv, walk # NoWalk, NEW proof \in Claims
    PROVE  IsProof(proof)
<1>1. PICK l \in Leaves, d \in 0..KeyBits :
         proof = [type |-> l[1], leaf |-> l[2], depth |-> d, nodes |-> walk.nodes]
  BY DEF Claims
<1>2. /\ proof.type = l[1] /\ proof.leaf = l[2] /\ proof.depth = d
      /\ proof.nodes = walk.nodes
  BY <1>1
<1>3. /\ l[1] \in {"DEADEND", "SHORT", "COLLISION", "EXISTS"}
      /\ l[1] = "SHORT" =>
            Fork(walk.under, walk.depth) < KeyBits /\ l[2] \in Short
  BY DEF Leaves
<1>4. l[1] = "SHORT" => l[2].prefix = Common(walk.under, walk.depth)
  BY <1>3 DEF Short
<1>5. walk.under \in SUBSET Key /\ walk.depth \in 0..KeyBits
  BY Zenon DEF WalkInv
<1>6. l[1] = "SHORT" => walk.under # {}
  <2>1. SUFFICES ASSUME l[1] = "SHORT" PROVE walk.under # {}
    OBVIOUS
  <2> DEFINE e == Fork(walk.under, walk.depth)
  <2>2. e < KeyBits /\ e \in walk.depth..KeyBits
    BY <1>3, <1>5, <2>1, ForkExists
  <2>3. e = KeyBits \/ \E k, j \in walk.under : k[e + 1] # j[e + 1]
    BY <1>5, ForkExists, Zenon
  <2> HIDE DEF e
  <2>4. e # KeyBits
    BY <1>5, <2>2, KeyAssumption
  <2> QED
    BY <2>3, <2>4
<1>7. l[1] = "SHORT" => l[2].prefix \in Seq({0, 1})
  BY <1>4, <1>5, <1>6, CommonShared, Zenon
<1>8. \E S : proof.nodes \in Seq([prefix : Seq({0, 1}), node : S])
  BY <1>2, Zenon DEF WalkInv
<1>9. proof.depth \in Nat
  BY <1>2, KeyAssumption
<1> QED
  BY <1>2, <1>3, <1>7, <1>8, <1>9, Zenon DEF IsProof

\* On every walk, over every tree and for every key, hsk_proof_verify accepts
\* what is true under the root, and nothing else.
THEOREM ProofExactCorrect == WalkSpec => []ProofExact
<1>1. walk = NoWalk => WalkInv
  BY DEF WalkInv
<1>2. WalkInv => ProofExact
  <2> SUFFICES ASSUME WalkInv, walk # NoWalk PROVE ProofExact
    BY DEF ProofExact, ProofSound, ProofComplete
  <2>1. DOMAIN walk.tree \subseteq Key /\ walk.key \in Key
    BY Zenon DEF WalkInv
  <2>2. ProofSound
    <3>1. ASSUME NEW proof \in Claims, Readable(proof),
                 Verify(Root(walk.tree), walk.key, proof).code = "OK"
          PROVE  Verify(Root(walk.tree), walk.key, proof) = Truth(walk.tree, walk.key)
      <4>1. IsProof(proof)
        BY ClaimsAreProofs
      <4> QED
        BY <2>1, <3>1, <4>1, VerifySound
    <3> QED
      BY <3>1, Zenon DEF ProofSound
  <2>3. ProofComplete
    <3>1. LET proof == Prove(walk.tree, walk.key, DOMAIN walk.tree, 0)
          IN  /\ Readable(proof)
              /\ Verify(Root(walk.tree), walk.key, proof) =
                    IF walk.key \in DOMAIN walk.tree /\ walk.tree[walk.key] = Malformed
                    THEN Failed("EENCODING")
                    ELSE Truth(walk.tree, walk.key)
      BY <2>1, VerifyComplete, Zenon
    <3> QED
      BY <3>1, Zenon DEF ProofComplete
  <2> QED
    BY <2>2, <2>3, SMTT(30) DEF ProofExact
<1> QED
  BY <1>1, <1>2, WalkStep, PTL DEF WalkSpec

----------------------------------------------------------------------------
(* hsk_pool_set_seeds.                                                     *)

\* The loop, from the first comma on.
SeedStep(f, list, known, luck, i) ==
    IF i = 0 THEN [start |-> 1, known |-> known]
    ELSE NextPiece(f[i - 1], list, i, i \in luck)
AreSteps(f, list, known, luck) ==
    f = [i \in 0..Len(list) |-> SeedStep(f, list, known, luck, i)]

LEMMA StepsExist ==
    ASSUME NEW list, Len(list) \in Nat, NEW known, NEW luck
    PROVE  \E f : AreSteps(f, list, known, luck)
<1> DEFINE n == Len(list)
           Step(f, i) == SeedStep(f, list, known, luck, i)
           Upto(d, f) == /\ f = [i \in 0..n |-> f[i]]
                         /\ \A i \in 0..n : i < d => f[i] = Step(f, i)
           T == {d \in Nat : \E f : Upto(d, f)}
<1> HIDE DEF n, Step
<1>0. n \in Nat
  BY DEF n
<1>1. 0 \in T
  <2> DEFINE f == [i \in 0..n |-> {}]
  <2>1. f = [i \in 0..n |-> f[i]] /\ \A i \in 0..n : ~ (i < 0)
    BY <1>0
  <2> HIDE DEF f
  <2>2. Upto(0, f)
    BY <2>1
  <2> QED
    BY <2>2, Zenon
<1>2. ASSUME NEW d \in T PROVE d + 1 \in T
  <2>1. PICK f : Upto(d, f)
    BY <1>2
  <2> DEFINE g == [i \in 0..n |-> Step(f, i)]
  <2>2. ASSUME NEW i \in 0..n, i < d + 1 PROVE g[i] = Step(g, i)
    <3>1. \A j \in 0..n : j < d => g[j] = f[j]
      BY <2>1
    <3>2. i = 0 \/ g[i - 1] = f[i - 1]
      <4>1. CASE i # 0
        <5>1. i - 1 \in 0..n /\ i - 1 < d
          BY <1>0, <2>2, <4>1
        <5> HIDE DEF g
        <5> QED
          BY <3>1, <5>1
      <4> QED
        BY <4>1
    <3>3. Step(g, i) = Step(f, i)
      <4> HIDE DEF g
      <4> QED
        BY <3>2, Zenon DEF Step, SeedStep
    <3> QED
      BY <3>3
  <2>3. g = [i \in 0..n |-> g[i]]
    OBVIOUS
  <2> HIDE DEF g
  <2>4. Upto(d + 1, g)
    BY <2>2, <2>3
  <2>5. d + 1 \in Nat
    BY <1>2
  <2> HIDE DEF Upto
  <2> QED
    BY <2>4, <2>5
<1>3. T = Nat
  <2>1. T \subseteq Nat
    OBVIOUS
  <2> HIDE DEF T
  <2> QED
    BY <1>1, <1>2, <2>1, FromZeroOn, Zenon
<1>4. n + 1 \in T
  <2> HIDE DEF T
  <2> QED
    BY <1>0, <1>3
<1>5. PICK f : Upto(n + 1, f)
  BY <1>4
<1>6. \A i \in 0..n : f[i] = Step(f, i)
  BY <1>0, <1>5
<1>7. f = [i \in 0..n |-> Step(f, i)]
  BY <1>5, <1>6
<1> QED
  BY <1>7, Zenon DEF AreSteps, Step, n

\* No text up to the i-th is refused.
Clear(list, known, luck, i) == \A j \in 1..i : ~SeedRefused(list, known, luck, j)

\* The loop is at the text after the last comma while nothing was refused, and
\* at the first that was refused ever after.
StepInv(list, known, luck, i, s) ==
    /\ s.start \in 1..(i + 1)
    /\ s.known = known \cup
          ({list[j] : j \in {j \in 1..i : Clear(list, known, luck, j)}} \ {Empty})
    /\ s.start = i + 1 => Clear(list, known, luck, i)
    /\ s.start # i + 1 => SeedRefused(list, known, luck, s.start)
    /\ s = [start |-> s.start, known |-> s.known]

LEMMA SeqOfOne ==
    ASSUME NEW S, NEW s \in Seq(S), Len(s) = 1
    PROVE  s = <<s[1]>>
OBVIOUS

LEMMA PieceKeepsInv ==
    ASSUME NEW list \in Seq(Text), NEW known \in SUBSET Usable, NEW luck,
           NEW i \in 0..(Len(list) - 1), NEW s, StepInv(list, known, luck, i, s)
    PROVE  StepInv(list, known, luck, i + 1,
                   NextPiece(s, list, i + 1, (i + 1) \in luck))
<1> DEFINE k == i + 1
           t == NextPiece(s, list, k, k \in luck)
           text == SubSeq(list, s.start, k)
           a == list[k]
           Ref(j) == SeedRefused(list, known, luck, j)
           Clr(j) == Clear(list, known, luck, j)
           Set(j) == {list[l] : l \in {l \in 1..j : Clr(l)}} \ {Empty}
<1> SUFFICES StepInv(list, known, luck, k, t)
  OBVIOUS
<1>1. /\ s.start \in 1..k /\ s.known = known \cup Set(i)
      /\ s.start = k => Clr(i)
      /\ s.start # k => Ref(s.start)
      /\ s = [start |-> s.start, known |-> s.known]
  BY Zenon DEF StepInv
<1>2. k \in 1..Len(list) /\ i \in Nat /\ Len(list) \in Nat /\ k \in Nat /\ a \in Text
  OBVIOUS
<1>3. Clr(k) <=> Clr(i) /\ ~Ref(k)
  <2>1. \A j \in 1..k : j \in 1..i \/ j = k
    BY <1>2
  <2>2. \A j \in 1..i : j \in 1..k
    BY <1>2
  <2>3. k \in 1..k
    BY <1>2
  <2> HIDE DEF k, Ref
  <2> QED
    BY <2>1, <2>2, <2>3, Zenon DEF Clear, Ref
<1>4. Set(k) = IF Clr(k) THEN Set(i) \cup ({a} \ {Empty}) ELSE Set(i)
  <2>1. \A j : j \in 1..k <=> j \in 1..i \/ j = k
    BY <1>2
  <2> HIDE DEF k, Clr
  <2>2. {l \in 1..k : Clr(l)} = IF Clr(k) THEN {l \in 1..i : Clr(l)} \cup {k}
                                ELSE {l \in 1..i : Clr(l)}
    BY <2>1
  <2> QED
    BY <2>2
<1>5. /\ Len(text) = (k - s.start) + 1 /\ text[1] = list[s.start]
      /\ text \in Seq(Text)
  BY <1>1, <1>2, SMTT(30)
<1>6. ASSUME Clr(i) PROVE Set(i) = {list[l] : l \in 1..i} \ {Empty}
  <2>1. \A l \in 1..i : \A j \in 1..l : j \in 1..i
    BY <1>2
  <2>2. \A l \in 1..i : Clr(l)
    BY <1>6, <2>1, Zenon DEF Clear
  <2> HIDE DEF Clr
  <2> QED
    BY <2>2
<1> HIDE DEF Set, Clr, Ref
<1>7. CASE s.start # k
  <2>1. Len(text) # 1
    BY <1>1, <1>2, <1>5, <1>7, SMTT(30)
  <2>2. text # <<Empty>> /\ ~Parses(text)
    <3>1. Len(<<Empty>>) = 1
      OBVIOUS
    <3> HIDE DEF text
    <3> QED
      BY <2>1, <3>1, Zenon DEF Parses
  <2>3. t = s
    BY <2>2, Zenon DEF NextPiece
  <2>4. ~Clr(k)
    BY <1>1, <1>2, <1>7, Zenon DEF Clr, Clear, Ref
  <2>5. s.start \in 1..(k + 1) /\ s.start # k + 1
    BY <1>1, <1>2
  <2>6. s.known = known \cup Set(k)
    BY <1>1, <1>4, <2>4, Zenon
  <2> QED
    BY <1>1, <1>7, <2>3, <2>5, <2>6, Zenon DEF StepInv, Set, Clr, Ref
<1>8. CASE s.start = k
  <2>1. Len(text) = 1 /\ text[1] = a /\ Clr(i)
    <3>1. (k - k) + 1 = 1
      BY <1>2
    <3> HIDE DEF text, k
    <3> QED
      BY <1>1, <1>5, <1>8, <3>1, Zenon
  <2>2. text = <<a>>
    <3> HIDE DEF text, a
    <3> QED
      BY <1>5, <2>1, SeqOfOne, Zenon
  <2>3. Ref(k) <=> \/ a \in Useless
                   \/ a \in known \cup {list[j] : j \in 1..i} /\ a # Empty /\ k \notin luck
    <3>1. k - 1 = i
      BY <1>2
    <3> QED
      BY <3>1, Zenon DEF Ref, SeedRefused
  <2>4. a # Empty => (a \in s.known <=> a \in known \cup {list[j] : j \in 1..i})
    BY <1>1, <1>6, <2>1, Zenon
  <2>5. k + 1 \in 1..(k + 1) /\ k \in 1..(k + 1) /\ k # k + 1
    BY <1>2
  <2>6. CASE a = Empty
    <3>1. t = [s EXCEPT !.start = k + 1]
      BY <2>2, <2>6, Zenon DEF NextPiece
    <3>2. t = [start |-> k + 1, known |-> s.known]
      BY <1>1, <3>1, Zenon
    <3>3. t.start = k + 1 /\ t.known = s.known
      BY <3>2
    <3>4. ~Ref(k)
      BY <2>3, <2>6, SeedAssumption
    <3>5. t.known = known \cup Set(k) /\ Clr(k)
      <4>1. Clr(k) /\ Set(k) = Set(i) \cup ({a} \ {Empty})
        BY <1>3, <1>4, <2>1, <3>4, Zenon
      <4>2. {a} \ {Empty} = {}
        BY <2>6
      <4> QED
        BY <1>1, <3>3, <4>1, <4>2
    <3> HIDE DEF t, k
    <3>6. /\ t.start \in 1..(k + 1) /\ t.start = k + 1
          /\ t = [start |-> t.start, known |-> t.known]
      BY <2>5, <3>2, <3>3, Zenon
    <3> QED
      BY <3>5, <3>6, Zenon DEF StepInv, Set, Clr
  <2>7. CASE a # Empty /\ a \in Usable /\ Added(a, s.known, k \in luck)
    <3>1. text # <<Empty>> /\ Parses(text) /\ text[1] = a
      <4>1. <<a>> # <<Empty>>
        BY <2>7
      <4> QED
        BY <2>1, <2>2, <2>7, <4>1, Zenon DEF Parses
    <3>2. t = [start |-> k + 1, known |-> s.known \cup {a}]
      <4> HIDE DEF text, a
      <4> QED
        BY <2>7, <3>1, Zenon DEF NextPiece, text
    <3>3. t.start = k + 1 /\ t.known = s.known \cup {a}
      BY <3>2
    <3>4. ~Ref(k)
      BY <2>3, <2>4, <2>7, SeedAssumption DEF Added
    <3>5. t.known = known \cup Set(k) /\ Clr(k)
      <4>1. Clr(k) /\ Set(k) = Set(i) \cup ({a} \ {Empty})
        BY <1>3, <1>4, <2>1, <3>4, Zenon
      <4>2. {a} \ {Empty} = {a}
        BY <2>7
      <4> QED
        BY <1>1, <3>3, <4>1, <4>2
    <3> HIDE DEF t, k
    <3>6. /\ t.start \in 1..(k + 1) /\ t.start = k + 1
          /\ t = [start |-> t.start, known |-> t.known]
      BY <2>5, <3>2, <3>3, Zenon
    <3> QED
      BY <3>5, <3>6, Zenon DEF StepInv, Set, Clr
  <2>8. CASE a # Empty /\ ~(a \in Usable /\ Added(a, s.known, k \in luck))
    <3>1. text # <<Empty>> /\ ~(Parses(text) /\ Added(text[1], s.known, k \in luck))
      <4>1. <<a>> # <<Empty>>
        BY <2>8
      <4> QED
        BY <2>1, <2>2, <2>8, <4>1, Zenon DEF Parses
    <3>2. t = s
      BY <3>1, Zenon DEF NextPiece
    <3>3. Ref(k)
      BY <1>2, <2>3, <2>4, <2>8 DEF Added, Text
    <3>4. s.known = known \cup Set(k)
      BY <1>1, <1>3, <1>4, <3>3, Zenon
    <3> HIDE DEF t, k
    <3>5. /\ t.start \in 1..(k + 1) /\ t.start # k + 1 /\ Ref(t.start)
          /\ t = [start |-> t.start, known |-> t.known]
          /\ t.known = known \cup Set(k)
      BY <1>1, <1>8, <2>5, <3>2, <3>3, <3>4, Zenon
    <3> QED
      BY <3>5, Zenon DEF StepInv, Set, Clr, Ref
  <2> QED
    BY <2>6, <2>7, <2>8, Zenon
<1> QED
  BY <1>7, <1>8, Zenon

\* The loop adds the seeds before the first that is refused, and none after.
LEMMA SeedsBeforeRefused ==
    ASSUME seeds \in Seq(Text), NEW known \in SUBSET Usable, NEW luck
    PROVE  SetSeeds(seeds, known, luck) = known \cup
              ({seeds[j] : j \in {j \in DOMAIN seeds : Clear(seeds, known, luck, j)}}
                  \ {Empty})
<1> DEFINE n == Len(seeds)
           f == CHOOSE g : AreSteps(g, seeds, known, luck)
           Inv(i) == StepInv(seeds, known, luck, i, f[i])
<1>1. n \in Nat /\ DOMAIN seeds = 1..n
  OBVIOUS
<1>2. AreSteps(f, seeds, known, luck)
  BY <1>1, StepsExist, Zenon
<1>3. SetSeeds(seeds, known, luck) = f[n].known
  BY Zenon DEF SetSeeds, AreSteps, SeedStep
<1> HIDE DEF f, n
<1>4. \A i \in 0..n : f[i] = SeedStep(f, seeds, known, luck, i)
  BY <1>2 DEF AreSteps, n
<1>5. Inv(0)
  <2>1. f[0] = [start |-> 1, known |-> known]
    BY <1>1, <1>4 DEF SeedStep
  <2> DEFINE s == f[0]
  <2>2. s.start = 1 /\ s.known = known /\ s = [start |-> s.start, known |-> s.known]
    BY <2>1
  <2> HIDE DEF s
  <2>3. /\ 1..0 = {} /\ 0 + 1 = 1 /\ 1 \in 1..1
    OBVIOUS
  <2>4. StepInv(seeds, known, luck, 0, s)
    BY <2>2, <2>3 DEF StepInv, Clear
  <2> QED
    BY <2>4 DEF s
<1>6. ASSUME NEW i \in 0..(n - 1), Inv(i) PROVE Inv(i + 1)
  <2>1. i + 1 \in 0..n /\ i + 1 # 0 /\ (i + 1) - 1 = i
    BY <1>1
  <2>2. f[i + 1] = NextPiece(f[i], seeds, i + 1, (i + 1) \in luck)
    BY <1>4, <2>1, Zenon DEF SeedStep
  <2>3. StepInv(seeds, known, luck, i + 1,
                NextPiece(f[i], seeds, i + 1, (i + 1) \in luck))
    BY <1>6, PieceKeepsInv DEF n
  <2> QED
    BY <2>2, <2>3, Zenon
<1> HIDE DEF Inv
<1> DEFINE T == {i \in Nat : i <= n => Inv(i)}
<1>7. T = Nat
  <2>1. 0 \in T
    BY <1>5
  <2>2. ASSUME NEW i \in T PROVE i + 1 \in T
    <3>1. CASE i + 1 <= n
      <4>1. i \in 0..(n - 1) /\ Inv(i)
        BY <1>1, <3>1
      <4> QED
        BY <1>6, <4>1
    <3>2. CASE ~(i + 1 <= n)
      BY <3>2
    <3> QED
      BY <3>1, <3>2
  <2>3. T \subseteq Nat
    OBVIOUS
  <2> HIDE DEF T
  <2> QED
    BY <2>1, <2>2, <2>3, FromZeroOn, Zenon
<1>8. Inv(n)
  <2>1. n \in T
    <3> HIDE DEF T
    <3> QED
      BY <1>1, <1>7
  <2> QED
    BY <1>1, <2>1
<1>9. f[n].known = known \cup
        ({seeds[j] : j \in {j \in 1..n : Clear(seeds, known, luck, j)}} \ {Empty})
  BY <1>8, Zenon DEF Inv, StepInv
<1> QED
  BY <1>1, <1>3, <1>9, Zenon

\* For every list, whatever is known before and whichever known address gains a
\* reference: only seeds of the list are added, and all of them if none of its
\* texts is refused.
THEOREM SeedsTakenCorrect == SeedsSpec => []SeedsTaken
<1> DEFINE Typed == seeds \in Seq(Text)
<1>1. seeds = <<>> => Typed
  BY DEF Text
<1>2. Typed /\ [MoreSeeds]_seeds => Typed'
  BY DEF MoreSeeds
<1>3. Typed => SeedsTaken
  <2> SUFFICES ASSUME Typed, NEW known \in SUBSET Usable, NEW luck \in SUBSET (DOMAIN seeds)
               PROVE  LET given == {seeds[i] : i \in DOMAIN seeds} \cap Usable
                          after == SetSeeds(seeds, known, luck)
                      IN  /\ known \subseteq after /\ after \subseteq known \cup given
                          /\ (\A i \in DOMAIN seeds : ~SeedRefused(seeds, known, luck, i))
                                => given \subseteq after
    BY Zenon DEF SeedsTaken
  <2> DEFINE D == DOMAIN seeds
             Clr(j) == Clear(seeds, known, luck, j)
             given == {seeds[i] : i \in D} \cap Usable
  <2>1. SetSeeds(seeds, known, luck)
            = known \cup ({seeds[j] : j \in {j \in D : Clr(j)}} \ {Empty})
    BY SeedsBeforeRefused, Zenon
  <2>2. D = 1..Len(seeds) /\ Len(seeds) \in Nat /\ \A j \in D : seeds[j] \in Text
    OBVIOUS
  <2>3. \A j \in D : j \in 1..j /\ \A i \in 1..j : i \in D
    BY <2>2
  <2>4. ASSUME NEW j \in D, Clr(j), seeds[j] # Empty PROVE seeds[j] \in given
    <3>1. seeds[j] \notin Useless
      BY <2>3, <2>4, Zenon DEF Clear, SeedRefused
    <3> QED
      BY <2>2, <2>4, <3>1, Zenon DEF Text
  <2>5. ASSUME \A i \in D : ~SeedRefused(seeds, known, luck, i),
               NEW j \in D, seeds[j] \in Usable
        PROVE  Clr(j) /\ seeds[j] # Empty
    BY <2>3, <2>5, SeedAssumption, Zenon DEF Clear
  <2> HIDE DEF Clr, D
  <2> QED
    BY <2>1, <2>4, <2>5 DEF D
<1> HIDE DEF Typed
<1> QED
  BY <1>1, <1>2, <1>3, PTL DEF SeedsSpec

----------------------------------------------------------------------------
(* hsk_chain_get_locator.                                                  *)

\* A multiple is no less.
LEMMA ProductAtLeast ==
    ASSUME NEW k \in Nat \ {0}, NEW d \in Nat \ {0}
    PROVE  k * d >= k
OBVIOUS

\* The states of the loop of hsk_chain_get_locator, the one after r, and what
\* is written from r on when g tells what is written from lower ones.
Triples(top) == (0..top) \X (Nat \ {0}) \X Nat
Lower(r) == <<Down(r[1], r[2], r[3]), NextStep(r[2], r[3]), r[3] + 1>>
Written(g, r) ==
    IF r[1] <= 0 THEN <<>> ELSE <<Down(r[1], r[2], r[3])>> \o g[Lower(r)]
IsLoop(g, top) == g = [r \in Triples(top) |-> Written(g, r)]

\* Every iteration goes down.
LEMMA LoopLower ==
    ASSUME NEW top \in Nat, NEW r \in Triples(top), r[1] > 0
    PROVE  /\ Lower(r) \in Triples(top)
           /\ Lower(r)[1] = Down(r[1], r[2], r[3])
           /\ Lower(r)[2] = NextStep(r[2], r[3])
           /\ Lower(r)[3] = r[3] + 1
           /\ Lower(r)[1] \in 0..(r[1] - 1)
<1>1. r[1] \in 0..top /\ r[2] \in Nat \ {0} /\ r[3] \in Nat
  BY DEF Triples
<1>2. Down(r[1], r[2], r[3]) \in 0..(r[1] - 1)
  BY <1>1 DEF Down
<1>3. NextStep(r[2], r[3]) \in Nat \ {0}
  BY <1>1 DEF NextStep
<1>4. Lower(r) \in Triples(top)
  BY <1>1, <1>2, <1>3 DEF Lower, Triples
<1> QED
  BY <1>2, <1>4 DEF Lower

\* So the loop ends, and what it writes is well defined ...
LEMMA LoopExists ==
    ASSUME NEW top \in Nat
    PROVE  \E g : IsLoop(g, top)
<1> DEFINE D == Triples(top)
           Upto(d, g) == /\ g = [r \in D |-> g[r]]
                         /\ \A r \in D : r[1] < d => g[r] = Written(g, r)
           T == {d \in Nat : \E g : Upto(d, g)}
<1>1. 0 \in T
  <2> DEFINE g == [r \in D |-> <<>>]
  <2>1. \A r \in D : r[1] \in Nat
    BY DEF Triples
  <2>2. g = [r \in D |-> g[r]]
    OBVIOUS
  <2> HIDE DEF g, D
  <2> QED
    BY <2>1, <2>2
<1>2. ASSUME NEW d \in T PROVE d + 1 \in T
  <2>1. PICK g : Upto(d, g)
    BY <1>2, Zenon
  <2> DEFINE h == [r \in D |-> Written(g, r)]
  <2>2. ASSUME NEW r \in D, r[1] < d + 1 PROVE h[r] = Written(h, r)
    <3>1. \A q \in D : q[1] < d => h[q] = g[q]
      BY <2>1
    <3>2. r[1] \in Nat /\ d \in Nat
      BY DEF Triples
    <3>3. CASE r[1] <= 0
      BY <3>3, Zenon DEF Written
    <3>4. CASE ~ (r[1] <= 0)
      <4>1. Lower(r) \in D /\ Lower(r)[1] < d
        BY <2>2, <3>2, <3>4, LoopLower
      <4>2. h[Lower(r)] = g[Lower(r)]
        <5> HIDE DEF h, D
        <5> QED
          BY <3>1, <4>1
      <4> HIDE DEF h
      <4>3. Written(h, r) = Written(g, r)
        BY <4>2, Zenon DEF Written
      <4> QED
        BY <4>3, Zenon DEF h
    <3> QED
      BY <3>3, <3>4, Zenon
  <2>3. h = [r \in D |-> h[r]]
    OBVIOUS
  <2> HIDE DEF h
  <2>4. Upto(d + 1, h)
    BY <2>2, <2>3
  <2> QED
    BY <2>4
<1>3. T = Nat
  <2>1. T \subseteq Nat
    OBVIOUS
  <2> HIDE DEF T
  <2> QED
    BY <1>1, <1>2, <2>1, FromZeroOn, Zenon
<1>4. top + 1 \in T
  BY <1>3
<1>5. PICK g : Upto(top + 1, g)
  BY <1>4
<1>6. ASSUME NEW r \in D PROVE g[r] = Written(g, r)
  <2>1. r[1] < top + 1
    BY DEF Triples
  <2> QED
    BY <1>5, <2>1
<1>7. g = [r \in D |-> Written(g, r)]
  BY <1>5, <1>6
<1> QED
  BY <1>7 DEF IsLoop

\* ... and is what follows the tip in the locator.
LEMMA LocatorLoop ==
    ASSUME NEW top \in Nat
    PROVE  \E g : IsLoop(g, top) /\ GetLocator(top) = <<top>> \o g[<<top, 1, 1>>]
<1> DEFINE f == CHOOSE g : g = [r \in Triples(top) |-> Written(g, r)]
<1>1. \E g : g = [r \in Triples(top) |-> Written(g, r)]
  BY LoopExists DEF IsLoop
<1>2. f = [r \in Triples(top) |-> Written(f, r)]
  BY <1>1, Zenon
<1>3. GetLocator(top) = <<top>> \o f[<<top, 1, 1>>]
  BY DEF GetLocator, Triples, Written, Lower
<1> HIDE DEF f
<1> QED
  BY <1>2, <1>3, Zenon DEF IsLoop

\* The heights s written below height h walk strictly down to 0.
WalksDown(h, s) ==
    /\ s \in Seq(Nat)
    /\ h = 0 => s = <<>>
    /\ h > 0 => /\ Len(s) > 0 /\ s[1] < h /\ s[Len(s)] = 0
                /\ \A i \in 1..(Len(s) - 1) : s[i] > s[i + 1]

\* One more height on top.
LEMMA WalkFurther ==
    ASSUME NEW h \in Nat, h > 0, NEW d \in 0..(h - 1), NEW s, WalksDown(d, s)
    PROVE  /\ WalksDown(h, <<d>> \o s)
           /\ Len(<<d>> \o s) = Len(s) + 1
<1> DEFINE t == <<d>> \o s
<1>1. s \in Seq(Nat) /\ Len(s) \in Nat
  BY DEF WalksDown
<1>2. t \in Seq(Nat) /\ Len(t) = Len(s) + 1 /\ t[1] = d
  BY <1>1
<1>3. \A i \in 1..Len(s) : t[i + 1] = s[i]
  BY <1>1
<1> HIDE DEF t
<1>4. CASE d = 0
  <2>1. Len(s) = 0
    BY <1>4 DEF WalksDown
  <2> QED
    BY <1>2, <1>4, <2>1 DEF WalksDown, t
<1>5. CASE d > 0
  <2>1. /\ Len(s) > 0 /\ s[1] < d /\ s[Len(s)] = 0
        /\ \A i \in 1..(Len(s) - 1) : s[i] > s[i + 1]
    BY <1>5 DEF WalksDown
  <2>2. t[Len(t)] = 0
    BY <1>1, <1>2, <1>3, <2>1, SMTT(30)
  <2>3. ASSUME NEW i \in 1..(Len(t) - 1) PROVE t[i] > t[i + 1]
    <3>1. CASE i = 1
      <4>1. t[2] = s[1]
        BY <1>1, <1>3, <2>1
      <4> QED
        BY <1>1, <1>2, <2>1, <3>1, <4>1
    <3>2. CASE i > 1
      <4>1. i - 1 \in 1..(Len(s) - 1) /\ i \in 1..Len(s) /\ i - 1 + 1 = i
        BY <1>1, <1>2, <3>2
      <4>2. t[i] = s[i - 1] /\ t[i + 1] = s[i] /\ s[i - 1] > s[i]
        BY <1>3, <2>1, <4>1
      <4> QED
        BY <4>2
    <3> QED
      BY <1>1, <1>2, <3>1, <3>2
  <2> QED
    BY <1>1, <1>2, <2>2, <2>3 DEF WalksDown, t
<1> QED
  BY <1>4, <1>5

\* What the loop writes from r: nothing, or one height and what is written
\* from the next state.
LEMMA LoopStep ==
    ASSUME NEW top \in Nat, NEW g, IsLoop(g, top), NEW r \in Triples(top)
    PROVE  /\ r[1] = 0 => g[r] = <<>>
           /\ r[1] > 0 => g[r] = <<Lower(r)[1]>> \o g[Lower(r)]
<1>1. g[r] = Written(g, r)
  BY DEF IsLoop
<1>2. r[1] \in Nat
  BY DEF Triples
<1> QED
  BY <1>1, <1>2, LoopLower DEF Written

LEMMA LoopWalksDown ==
    ASSUME NEW top \in Nat, NEW g, IsLoop(g, top), NEW r \in Triples(top)
    PROVE  WalksDown(r[1], g[r])
<1> DEFINE D == Triples(top)
           T == {d \in Nat : \A q \in D : q[1] < d => WalksDown(q[1], g[q])}
<1>1. \A q \in D : q[1] \in 0..top
  BY DEF Triples
<1>2. 0 \in T
  BY <1>1
<1>3. ASSUME NEW d \in T PROVE d + 1 \in T
  <2>1. ASSUME NEW q \in D, q[1] < d + 1 PROVE WalksDown(q[1], g[q])
    <3>1. CASE q[1] = 0
      <4>1. g[q] = <<>>
        BY <3>1, LoopStep, Zenon
      <4> QED
        BY <3>1, <4>1 DEF WalksDown
    <3>2. CASE q[1] > 0
      <4>1. /\ Lower(q) \in D /\ Lower(q)[1] \in 0..(q[1] - 1)
            /\ g[q] = <<Lower(q)[1]>> \o g[Lower(q)]
        BY <3>2, LoopLower, LoopStep
      <4>2. q[1] \in Nat /\ Lower(q)[1] < d
        BY <1>1, <2>1, <4>1, SMTT(30)
      <4>3. WalksDown(Lower(q)[1], g[Lower(q)])
        BY <4>1, <4>2
      <4> QED
        BY <3>2, <4>1, <4>2, <4>3, WalkFurther, SMTT(30)
    <3> QED
      BY <1>1, <3>1, <3>2
  <2> QED
    BY <2>1
<1>4. T = Nat
  <2>1. T \subseteq Nat
    BY Zenon
  <2> HIDE DEF T
  <2> QED
    BY <1>2, <1>3, <2>1, FromZeroOn, Zenon
<1>5. top + 1 \in T
  BY <1>4
<1> QED
  BY <1>1, <1>5

\* When the step doubles, a height below m steps is walked in k iterations.
WalkedIn(g, top, m, k) ==
    \A r \in Triples(top) :
        r[3] > 10 /\ r[1] < r[2] * m => Len(g[r]) <= k

\* One iteration walks less than half the way, in steps.
LEMMA WalkedInOne ==
    ASSUME NEW top \in Nat, NEW g, IsLoop(g, top)
    PROVE  WalkedIn(g, top, 1, 1)
<1> SUFFICES ASSUME NEW r \in Triples(top), r[1] < r[2] * 1 PROVE Len(g[r]) <= 1
  BY DEF WalkedIn
<1>1. r[1] \in Nat /\ r[2] \in Nat
  BY DEF Triples
<1>2. CASE r[1] = 0
  <2>1. g[r] = <<>>
    BY <1>2, LoopStep, Zenon
  <2> QED
    BY <2>1
<1>3. CASE r[1] > 0
  <2>1. Lower(r) \in Triples(top) /\ Lower(r)[1] = 0
    BY <1>1, <1>3, LoopLower DEF Down
  <2>2. g[Lower(r)] = <<>>
    BY <2>1, LoopStep, Zenon
  <2>3. g[r] = <<Lower(r)[1]>> \o <<>>
    BY <1>3, <2>2, LoopStep, Zenon
  <2> QED
    BY <2>3
<1> QED
  BY <1>1, <1>2, <1>3

LEMMA WalkedInMore ==
    ASSUME NEW top \in Nat, NEW g, IsLoop(g, top),
           NEW m \in Nat, NEW k \in Nat, WalkedIn(g, top, m, k)
    PROVE  WalkedIn(g, top, 2 * m, k + 1)
<1> SUFFICES ASSUME NEW r \in Triples(top), r[3] > 10, r[1] < r[2] * (2 * m)
             PROVE  Len(g[r]) <= k + 1
  BY DEF WalkedIn
<1>1. r[1] \in Nat /\ r[2] \in Nat /\ r[3] \in Nat
  BY DEF Triples
<1>2. CASE r[1] = 0
  <2>1. g[r] = <<>>
    BY <1>2, LoopStep, ZenonT(40)
  <2> QED
    BY <2>1, SMTT(30)
<1>3. CASE r[1] > 0
  <2> DEFINE q == Lower(r)
  <2>1. /\ q \in Triples(top) /\ q[1] \in 0..(r[1] - 1)
        /\ q[2] = r[2] * 2 /\ q[3] = r[3] + 1
        /\ g[r] = <<q[1]>> \o g[q]
    BY <1>1, <1>3, LoopLower, LoopStep, SMTT(30) DEF NextStep
  <2> HIDE DEF q
  <2>2. r[2] * (2 * m) = q[2] * m /\ r[2] * (2 * m) \in Nat
    BY <1>1, <2>1, SMTT(30)
  <2>3. q[3] > 10 /\ q[1] < q[2] * m
    <3> DEFINE a == r[2] * (2 * m)
    <3>1. r[1] < a /\ a = q[2] * m /\ a \in Nat
      BY <2>2
    <3> HIDE DEF a
    <3>2. q[1] < a
      BY <1>1, <2>1, <3>1, SMTT(30)
    <3>3. q[3] > 10
      BY <1>1, <2>1
    <3> QED
      BY <3>1, <3>2, <3>3
  <2>4. Len(g[q]) <= k
    BY <2>1, <2>3, Zenon DEF WalkedIn
  <2>5. Len(g[r]) = Len(g[q]) + 1
    BY <1>1, <1>3, <2>1, LoopWalksDown, WalkFurther, SMTT(30)
  <2>6. Len(g[q]) \in Nat
    BY <2>1, LoopWalksDown DEF WalksDown
  <2> QED
    BY <2>4, <2>5, <2>6, SMTT(30)
<1> QED
  BY <1>1, <1>2, <1>3, SMTT(30)

LEMMA WalkedInFourMore ==
    ASSUME NEW top \in Nat, NEW g, IsLoop(g, top),
           NEW m \in Nat, NEW k \in Nat, WalkedIn(g, top, m, k)
    PROVE  WalkedIn(g, top, 16 * m, k + 4)
<1>1. WalkedIn(g, top, 2 * m, k + 1)
  BY WalkedInMore, Zenon
<1>2. WalkedIn(g, top, 2 * (2 * m), k + 1 + 1)
  BY <1>1, WalkedInMore
<1>3. WalkedIn(g, top, 2 * (2 * (2 * m)), k + 1 + 1 + 1)
  BY <1>2, WalkedInMore
<1>4. WalkedIn(g, top, 2 * (2 * (2 * (2 * m))), k + 1 + 1 + 1 + 1)
  BY <1>3, WalkedInMore
<1>5. 2 * (2 * (2 * (2 * m))) = 16 * m /\ k + 1 + 1 + 1 + 1 = k + 4
  OBVIOUS
<1> QED
  BY <1>4, <1>5

\* hsk_chain_get_by_height takes heights of 32 bits.
HeightLimit == 65536 * 65536

\* Such a height is walked in 33 iterations once the step doubles.
LEMMA WalkedDoubling ==
    ASSUME NEW top \in Nat, NEW g, IsLoop(g, top)
    PROVE  WalkedIn(g, top, HeightLimit, 33)
<1>1. WalkedIn(g, top, 16, 5)
  BY WalkedInOne, WalkedInFourMore
<1>2. WalkedIn(g, top, 256, 9)
  BY <1>1, WalkedInFourMore
<1>3. WalkedIn(g, top, 4096, 13)
  BY <1>2, WalkedInFourMore
<1>4. WalkedIn(g, top, 65536, 17)
  BY <1>3, WalkedInFourMore
<1>5. WalkedIn(g, top, 1048576, 21)
  BY <1>4, WalkedInFourMore
<1>6. WalkedIn(g, top, 16777216, 25)
  BY <1>5, WalkedInFourMore
<1>7. WalkedIn(g, top, 268435456, 29)
  BY <1>6, WalkedInFourMore
<1>8. WalkedIn(g, top, 16 * 268435456, 29 + 4)
  BY <1>7, WalkedInFourMore
<1>9. HeightLimit = 16 * 268435456 /\ 33 = 29 + 4
  BY DEF HeightLimit
<1> QED
  BY <1>8, <1>9

\* With the ten iterations before that, the loop writes at most 43 heights.
LEMMA LoopShort ==
    ASSUME NEW top \in Nat, top < HeightLimit, NEW g, IsLoop(g, top),
           NEW r \in Triples(top), r[3] = 1
    PROVE  Len(g[r]) <= 43
<1> DEFINE D == Triples(top)
           T == {j \in Nat : \A q \in D : q[3] + j = 11 => Len(g[q]) <= 33 + j}
<1>1. \A q \in D : q[1] \in 0..top /\ q[2] \in Nat \ {0} /\ q[3] \in Nat
  BY DEF Triples
<1>2. 0 \in T
  <2>1. ASSUME NEW q \in D, q[3] + 0 = 11 PROVE Len(g[q]) <= 33 + 0
    <3>1. q[1] < q[2] * HeightLimit
      <4>1. q[2] \in Nat \ {0} /\ q[1] \in Nat /\ q[1] <= top
        BY <1>1, <2>1
      <4>2. HeightLimit \in Nat \ {0}
        BY DEF HeightLimit
      <4>3. HeightLimit * q[2] >= HeightLimit /\ HeightLimit * q[2] = q[2] * HeightLimit
        BY <4>1, <4>2, ProductAtLeast
      <4>4. q[2] * HeightLimit \in Nat
        BY <4>1, <4>2
      <4> QED
        BY <4>1, <4>2, <4>3, <4>4
    <3> QED
      BY <1>1, <2>1, <3>1, WalkedDoubling DEF WalkedIn
  <2> QED
    BY <2>1
<1>3. ASSUME NEW j \in T PROVE j + 1 \in T
  <2>1. ASSUME NEW q \in D, q[3] + (j + 1) = 11 PROVE Len(g[q]) <= 33 + (j + 1)
    <3>1. CASE q[1] = 0
      <4>1. g[q] = <<>>
        BY <3>1, LoopStep, Zenon
      <4> QED
        BY <4>1
    <3>2. CASE q[1] > 0
      <4> DEFINE p == Lower(q)
      <4>1. /\ p \in D /\ p[1] \in 0..(q[1] - 1) /\ p[3] = q[3] + 1
            /\ g[q] = <<p[1]>> \o g[p]
        BY <3>2, LoopLower, LoopStep
      <4> HIDE DEF p
      <4>2. Len(g[p]) <= 33 + j
        BY <1>1, <1>3, <2>1, <4>1, SMTT(30)
      <4>3. Len(g[q]) = Len(g[p]) + 1 /\ Len(g[p]) \in Nat
        BY <1>1, <3>2, <4>1, LoopWalksDown, WalkFurther DEF WalksDown
      <4> QED
        BY <4>2, <4>3, SMTT(30)
    <3> QED
      BY <1>1, <3>1, <3>2
  <2> QED
    BY <2>1
<1>4. T = Nat
  <2>1. T \subseteq Nat
    OBVIOUS
  <2> HIDE DEF T
  <2> QED
    BY <1>2, <1>3, <2>1, FromZeroOn, Zenon
<1>5. 10 \in T
  BY <1>4, Zenon
<1> QED
  BY <1>5

\* hsk_chain_get_locator never writes past the hashes of the message, 44 of the
\* 64 being enough though it tests for 2047, and ends with the genesis header, for every height of
\* 32 bits, what hsk_chain_get_by_height takes.
THEOREM LocatorAlwaysFits ==
    ASSUME NEW h \in Nat, h < HeightLimit
    PROVE  LocatorSound(h)
<1>1. PICK g : IsLoop(g, h) /\ GetLocator(h) = <<h>> \o g[<<h, 1, 1>>]
  BY LocatorLoop, Zenon
<1> DEFINE r == <<h, 1, 1>>
           s == g[r]
           t == <<h>> \o s
<1>2. r \in Triples(h) /\ r[1] = h /\ r[3] = 1
  BY DEF Triples
<1>3. WalksDown(h, s) /\ Len(s) <= 43
  BY <1>1, <1>2, LoopWalksDown, LoopShort
<1> HIDE DEF s, r
<1>4. WalksDown(h + 1, t) /\ Len(t) = Len(s) + 1
  BY <1>3, WalkFurther
<1>5. Len(s) \in Nat /\ t[1] = h
  BY <1>3 DEF WalksDown
<1> HIDE DEF t
<1>6. /\ Len(t) <= MaxHashes /\ t[1] = h /\ t[Len(t)] = 0
      /\ \A i \in 1..(Len(t) - 1) : t[i] > t[i + 1]
  BY <1>3, <1>4, <1>5, LocatorAssumption DEF WalksDown
<1>7. GetLocator(h) = t
  BY <1>1 DEF t, s, r
<1> QED
  BY <1>6, <1>7 DEF LocatorSound

\* However chain->height moves, as long as it keeps to 32 bits the locator that
\* hsk_chain_get_locator makes next fits the message and leads from the tip to
\* the genesis header.
THEOREM LocatorFitsCorrect == [](tip \in Nat /\ tip < HeightLimit) => []LocatorFits
<1>1. tip \in Nat /\ tip < HeightLimit => LocatorFits
  BY LocatorAlwaysFits DEF LocatorFits
<1> QED
  BY <1>1, PTL

=============================================================================
