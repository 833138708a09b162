---------------------------- MODULE ChainProofs ----------------------------
(***************************************************************************)
(* Theorems about modules Chain, Reorganize and HeaderSync, for every      *)
(* header tree and every parameter.                                        *)
(*                                                                         *)
(* The inductive invariant of Chain is the conjunction of its invariants:  *)
(* the main chain is right after a reorganization because every stored     *)
(* header is one above its parent, orphans enter the store only with their *)
(* parent and their proof of work, and the tip is never outweighed.  The   *)
(* loops of a reorganization and of the locator, and the peers' chains are *)
(* reasoned about by induction; with them, peers on valid chains only ever *)
(* send acceptable headers.                                                *)
(***************************************************************************)
EXTENDS HeaderSync, Reorganize, FiniteSetTheorems, WellFoundedInduction, TLAPS

\* Stored headers, the main chain index and the tip, without the orphans.
IndexType ==
    /\ hashes \subseteq Block
    /\ hgt \in [Block -> Nat]
    /\ work \in [Block -> Nat]
    /\ heights \in [DOMAIN heights -> Block]
    /\ DOMAIN heights \subseteq Nat
    /\ tip \in Block
    /\ height \in Nat
    /\ synced \in BOOLEAN

IndexInv == IndexType /\ MainChain /\ MostWork /\ HeadersConnected

\* b may be handed to hsk_chain_insert: new, worked, with its parent stored.
Insertable(b) ==
    /\ b \in Block \ hashes
    /\ Prev(b) \in hashes
    /\ Header[b].pow = "SUCCESS"

\* The parent of a header is a header or None (the type of the prev field).
LEMMA PrevType == \A b \in Block : Prev(b) \in Block \cup {None}
BY HeaderAssumption DEF Prev

\* The genesis header and the tip are stored.
LEMMA EndsStored ==
    ASSUME IndexInv
    PROVE  Genesis \in hashes /\ tip \in hashes /\ hgt[tip] = height
BY DEF IndexInv, IndexType, MainChain

\* What hsk_chain_insert does to the stored headers.
LEMMA InsertHashes ==
    ASSUME NEW b \in Block, Insert(b)
    PROVE  /\ InsertCheck(b) = "SUCCESS" => hashes' = hashes \cup {b}
           /\ InsertCheck(b) # "SUCCESS" => hashes' = hashes
BY DEF Insert, index

\* hsk_chain_insert keeps the types of the index.
LEMMA InsertType ==
    ASSUME IndexInv, NEW b, Insertable(b), Insert(b)
    PROVE  IndexType'
<1>1. CASE UNCHANGED index
  BY <1>1 DEF IndexInv, IndexType, index
<1>2. CASE InsertCheck(b) = "SUCCESS"
  <2> DEFINE n == hgt[Prev(b)] + 1
             w == work[Prev(b)] + Proof[b]
  <2>1. /\ b \in Block /\ Prev(b) \in Block /\ n \in Nat /\ w \in Nat
        /\ Header[b].time \in Nat
    BY HeaderAssumption DEF IndexInv, IndexType, Insertable
  <2>2. /\ hashes' \subseteq Block
        /\ hgt' \in [Block -> Nat]
        /\ work' \in [Block -> Nat]
    BY <1>2, <2>1 DEF Insert, IndexInv, IndexType
  <2>3. CASE UNCHANGED <<heights, tip, height, synced>>
    BY <2>2, <2>3 DEF IndexInv, IndexType
  <2>4. CASE /\ Connect(b, n)
             /\ tip' = b
             /\ height' = n
             /\ synced' = MaybeSync(b, n, w)
    <3>1. tip' \in Block /\ height' \in Nat /\ synced' \in BOOLEAN
      BY <2>1, <2>4 DEF MaybeSync, IndexInv, IndexType
    <3>2. heights' \in [DOMAIN heights' -> Block] /\ DOMAIN heights' \subseteq Nat
      <4>1. CASE heights' = [i \in DOMAIN heights \cup {n} |->
                                IF i = n THEN b ELSE heights[i]]
        BY <2>1, <4>1 DEF IndexInv, IndexType
      <4>2. CASE \E f \in DOMAIN heights :
                   /\ f < n
                   /\ \E branch \in [f..n -> hashes \cup {b}] :
                         /\ IsBranch(branch, f, b, n)
                         /\ heights' = Reorganized(branch, f, n)
        <5>0. PICK f \in DOMAIN heights :
                 \E branch \in [f..n -> hashes \cup {b}] :
                     heights' = Reorganized(branch, f, n)
          BY <4>2
        <5>1. PICK branch \in [f..n -> hashes \cup {b}] :
                 heights' = Reorganized(branch, f, n)
          BY <5>0
        <5>2. f \in Nat /\ hashes \cup {b} \subseteq Block
          BY <2>1 DEF IndexInv, IndexType
        <5>3. n \in Nat /\ DOMAIN heights \subseteq Nat
              /\ \A i \in DOMAIN heights : heights[i] \in Block
          BY <2>1, SMTT(30) DEF IndexInv, IndexType
        <5>4. \A i \in f..n : branch[i] \in Block
          BY <5>1, <5>2
        <5> QED
          BY <5>1, <5>2, <5>3, <5>4 DEF Reorganized
      <4> QED
        BY <2>4, <4>1, <4>2 DEF Connect
    <3> QED
      BY <2>2, <3>1, <3>2 DEF IndexType
  <2> QED
    BY <1>2, <2>3, <2>4 DEF Insert
<1> QED
  BY <1>1, <1>2 DEF Insert

\* An insertion changes the height and work of the new header alone, so what
\* the stored headers say of their parents stays true.
LEMMA InsertConnected ==
    ASSUME IndexInv, NEW b, Insertable(b), Insert(b)
    PROVE  HeadersConnected'
<1>1. CASE UNCHANGED index
  BY <1>1 DEF IndexInv, HeadersConnected, index
<1>2. CASE InsertCheck(b) = "SUCCESS"
  <2>1. /\ hashes' = hashes \cup {b}
        /\ hgt' = [hgt EXCEPT ![b] = hgt[Prev(b)] + 1]
        /\ work' = [work EXCEPT ![b] = work[Prev(b)] + Proof[b]]
    BY <1>2 DEF Insert
  <2>2. b \in Block /\ b \notin hashes /\ Prev(b) \in hashes /\ Prev(b) # b
    BY DEF Insertable
  <2>3. /\ Header[b].pow = "SUCCESS"
        /\ ~(Header[b].time <= MTP[Prev(b)])
        /\ Header[b].bits = Target[b]
    BY <1>2 DEF Insertable, InsertCheck
  <2>4. Header[b].time > MTP[Prev(b)]
    BY <2>2, <2>3, HeaderAssumption DEF IndexInv, IndexType
  <2>5. SUFFICES ASSUME NEW c \in hashes' \ {Genesis}
                 PROVE  /\ Prev(c) \in hashes'
                        /\ hgt'[c] = hgt'[Prev(c)] + 1
                        /\ work'[c] = work'[Prev(c)] + Proof[c]
                        /\ Header[c].time > MTP[Prev(c)]
                        /\ Header[c].bits = Target[c]
                        /\ Header[c].pow = "SUCCESS"
    BY DEF HeadersConnected, Prev
  <2>6. CASE c = b
    BY <2>1, <2>2, <2>3, <2>4, <2>6 DEF IndexInv, IndexType
  <2>7. CASE c # b
    BY <2>1, <2>2, <2>7 DEF IndexInv, IndexType, HeadersConnected
  <2> QED
    BY <2>6, <2>7
<1> QED
  BY <1>1, <1>2 DEF Insert

\* The tip moves exactly when a header outweighs it, and then to that header.
LEMMA InsertMostWork ==
    ASSUME IndexInv, NEW b, Insertable(b), Insert(b)
    PROVE  MostWork' /\ (tip' # tip => work'[tip'] > work[tip])
<1>1. CASE UNCHANGED index
  BY <1>1 DEF IndexInv, MostWork, index
<1>2. CASE InsertCheck(b) = "SUCCESS"
  <2> DEFINE w == work[Prev(b)] + Proof[b]
  <2>1. /\ hashes' = hashes \cup {b}
        /\ work' = [work EXCEPT ![b] = w]
        /\ \/ w <= work[tip] /\ tip' = tip
           \/ w > work[tip] /\ tip' = b
    <3>1. w \in Nat /\ work[tip] \in Nat
      BY HeaderAssumption DEF Insertable, IndexInv, IndexType
    <3> QED
      BY <1>2, <3>1 DEF Insert, Outweighs
  <2>2. b \in Block /\ b \notin hashes /\ w \in Nat
    BY HeaderAssumption DEF Insertable, IndexInv, IndexType
  <2> QED
    BY <2>1, <2>2, EndsStored DEF MostWork, IndexInv, IndexType
<1> QED
  BY <1>1, <1>2 DEF Insert

\* After an insertion the heights index is the path to the new tip: it is
\* extended by one, or cut at the fork and continued along the branch.
LEMMA InsertMainChain ==
    ASSUME IndexInv, NEW b, Insertable(b), Insert(b)
    PROVE  MainChain'
<1> DEFINE n == hgt[Prev(b)] + 1
<1>1. CASE UNCHANGED index
  BY <1>1 DEF IndexInv, MainChain, index
<1>2. CASE InsertCheck(b) = "SUCCESS"
  <2>1. /\ b \in Block /\ b \notin hashes /\ Prev(b) \in Block /\ n \in Nat
        /\ n >= 1
    BY DEF Insertable, IndexInv, IndexType
  <2>2. /\ hashes' = hashes \cup {b}
        /\ hgt'[b] = n
        /\ \A c \in hashes : hgt'[c] = hgt[c]
    BY <1>2, <2>1 DEF Insert, IndexInv, IndexType
  <2>3. CASE UNCHANGED <<heights, tip, height>>
    BY <2>2, <2>3 DEF IndexInv, MainChain
  <2>4. CASE Connect(b, n) /\ tip' = b /\ height' = n
    <3>1. CASE /\ Prev(b) = tip
               /\ heights' = [i \in DOMAIN heights \cup {n} |->
                                 IF i = n THEN b ELSE heights[i]]
      <4>1. n = height + 1
        BY <3>1, EndsStored
      <4>2. DOMAIN heights' = 0..n
        BY <3>1, <4>1 DEF IndexInv, IndexType, MainChain
      <4>3. heights'[n] = b /\ \A i \in 0..height : heights'[i] = heights[i]
        BY <3>1, <4>1, SMTT(30) DEF IndexInv, IndexType, MainChain
      <4> QED
        BY <2>1, <2>2, <2>4, <3>1, <4>1, <4>2, <4>3
        DEF IndexInv, IndexType, MainChain
    <3>2. CASE \E f \in DOMAIN heights :
                 /\ f < n
                 /\ \E branch \in [f..n -> hashes \cup {b}] :
                       /\ IsBranch(branch, f, b, n)
                       /\ heights' = Reorganized(branch, f, n)
      <4>1. PICK f \in DOMAIN heights :
               /\ f < n
               /\ \E branch \in [f..n -> hashes \cup {b}] :
                     /\ IsBranch(branch, f, b, n)
                     /\ heights' = Reorganized(branch, f, n)
        BY <3>2
      <4>2. PICK branch \in [f..n -> hashes \cup {b}] :
               /\ IsBranch(branch, f, b, n)
               /\ heights' = Reorganized(branch, f, n)
        BY <4>1
      <4>3. f \in 0..height /\ f \in Nat /\ height \in Nat
        BY DEF IndexInv, IndexType, MainChain
      <4>4. DOMAIN heights' = 0..n
        BY <2>1, <4>1, <4>2, <4>3 DEF Reorganized, IndexInv, MainChain
      <4>5. /\ \A i \in 0..f : heights'[i] = heights[i]
            /\ \A i \in (f + 1)..n : heights'[i] = branch[i]
            /\ heights'[f] = branch[f]
        <5>1. heights' = [i \in 0..n |-> IF i \in (f + 1)..n THEN branch[i]
                                         ELSE heights[i]]
          BY <4>2, <4>4 DEF Reorganized
        <5>2. /\ 0..f \subseteq 0..n /\ (f + 1)..n \subseteq 0..n
              /\ \A i \in 0..f : i \notin (f + 1)..n
              /\ f \in 0..f
          BY <2>1, <4>1, <4>3
        <5>3. branch[f] = heights[f]
          BY <4>2 DEF IsBranch
        <5> QED
          BY <5>1, <5>2, <5>3
      <4>6. \A i \in 0..n : heights'[i] \in hashes' /\ hgt'[heights'[i]] = i
        <5>1. SUFFICES ASSUME NEW i \in 0..n
                       PROVE  heights'[i] \in hashes' /\ hgt'[heights'[i]] = i
          OBVIOUS
        <5>2. CASE i \in 0..f
          BY <2>2, <4>3, <4>5, <5>2 DEF IndexInv, MainChain
        <5>3. CASE i \in (f + 1)..n
          <6>1. /\ i < n => branch[i] \in hashes /\ hgt[branch[i]] = i
                /\ i = n => branch[i] = b
            BY <4>2, <5>3 DEF IsBranch
          <6>2. CASE i = n
            BY <2>2, <4>5, <5>3, <6>1, <6>2
          <6>3. CASE i < n
            BY <2>2, <4>5, <5>3, <6>1, <6>3, Zenon
          <6> QED
            BY <2>1, <4>3, <5>3, <6>2, <6>3
        <5> QED
          BY <2>1, <4>1, <4>3, <5>2, <5>3
      <4>7. \A i \in 1..n : Prev(heights'[i]) = heights'[i - 1]
        <5>1. SUFFICES ASSUME NEW i \in 1..n
                       PROVE  Prev(heights'[i]) = heights'[i - 1]
          OBVIOUS
        <5>2. CASE i \in 1..f
          BY <4>3, <4>5, <5>2 DEF IndexInv, MainChain
        <5>3. CASE i \in (f + 1)..n
          <6>1. Prev(branch[i]) = branch[i - 1]
            BY <4>2, <5>3 DEF IsBranch
          <6>2. i - 1 \in f..n
            BY <2>1, <4>3, <5>3
          <6>3. heights'[i - 1] = branch[i - 1]
            BY <4>3, <4>5, <6>2, <2>1, SMTT(30)
          <6> QED
            BY <4>5, <5>3, <6>1, <6>3
        <5> QED
          BY <2>1, <4>1, <4>3, <5>2, <5>3
      <4>8. heights'[0] = Genesis /\ heights'[n] = b
        BY <2>1, <4>1, <4>2, <4>3, <4>5 DEF IsBranch, IndexInv, MainChain
      <4> QED
        BY <2>4, <4>4, <4>6, <4>7, <4>8 DEF MainChain, Prev
    <3> QED
      BY <2>4, <3>1, <3>2 DEF Connect
  <2> QED
    BY <1>2, <2>3, <2>4 DEF Insert
<1> QED
  BY <1>1, <1>2 DEF Insert

\* The four facts together: hsk_chain_insert preserves the index invariant.
LEMMA InsertIndex ==
    ASSUME IndexInv, NEW b, Insertable(b), Insert(b)
    PROVE  IndexInv'
BY InsertType, InsertConnected, InsertMostWork, InsertMainChain DEF IndexInv

\* The invariants of the whole chain, orphans included.
ChainInv ==
    TypeOK /\ MainChain /\ MostWork /\ HeadersConnected /\ OrphanIndex

\* The part of the invariant that hsk_chain_insert relies on and preserves.
LEMMA ChainInvIndex == ChainInv => IndexInv
BY DEF ChainInv, IndexInv, TypeOK, IndexType

\* Every header that hsk_chain_add inserts, directly or as a resolved orphan,
\* is insertable.
LEMMA AddInsertable ==
    ASSUME ChainInv, NEW b \in Block, AddCheck(b) = "SUCCESS"
    PROVE  Insertable(b)
BY DEF ChainInv, AddCheck, Insertable

\* The orphan hsk_chain_resolve_orphan returns waits for the header just added.
LEMMA ResolveInsertable ==
    ASSUME ChainInv, ResolveOrphan
    PROVE  /\ Insertable(prevs[cursor])
           /\ prevs[cursor] \in orphans
           /\ Prev(prevs[cursor]) = cursor
BY DEF ChainInv, TypeOK, OrphanIndex, ResolveOrphan, Insertable

\* The result codes are those of TypeOK.
LEMMA CheckCodes ==
    ASSUME NEW b \in Block
    PROVE  /\ InsertCheck(b) \in {"ETIMETOOOLD", "EBADDIFFBITS", "SUCCESS"}
           /\ AddCheck(b) \in PowResult \cup
                 {"ETIMETOONEW", "EDUPLICATE", "EDUPLICATEORPHAN", "EORPHAN"}
BY HeaderAssumption DEF InsertCheck, AddCheck, PowResult

\* hsk_chain_init establishes the invariant.
LEMMA InitInv == Init => ChainInv
<1>1. SUFFICES ASSUME Init PROVE ChainInv
  OBVIOUS
<1>2. StartTime \in Nat
  BY ParameterAssumption
<1>3. TypeOK
  BY <1>1, <1>2, BlockAssumption, HeaderAssumption DEF Init, TypeOK, PowResult
<1>4. MainChain /\ MostWork /\ HeadersConnected /\ OrphanIndex
  BY <1>1, BlockAssumption, HeaderAssumption
  DEF Init, MainChain, MostWork, HeadersConnected, OrphanIndex
<1> QED
  BY <1>3, <1>4 DEF ChainInv

\* Each step of the chain preserves the invariant.
LEMMA NextInv == ChainInv /\ [Next]_vars => ChainInv'
<1>1. SUFFICES ASSUME ChainInv, [Next]_vars PROVE ChainInv'
  OBVIOUS
<1>2. ASSUME UNCHANGED index PROVE IndexInv'
  BY <1>1, <1>2, ChainInvIndex
  DEF index, IndexInv, IndexType, MainChain, MostWork, HeadersConnected
<1>3. ASSUME IndexInv', OrphanIndex',
             orphans' \subseteq Block,
             prevs' \in [DOMAIN prevs' -> Block],
             DOMAIN prevs' \subseteq Block \cup {None},
             cursor' \in Block \cup {None},
             rc' \in PowResult \cup {"ETIMETOONEW", "EDUPLICATE",
                       "EDUPLICATEORPHAN", "EORPHAN", "ETIMETOOOLD",
                       "EBADDIFFBITS"},
             now' \in Nat
      PROVE  ChainInv'
  BY <1>3 DEF ChainInv, IndexInv, IndexType, TypeOK
<1>4. ASSUME NEW b \in Block, cursor = None, Reject(b) PROVE ChainInv'
  <2>1. IndexInv'
    BY <1>2, <1>4 DEF Reject
  <2>2. OrphanIndex'
    BY <1>1, <1>4 DEF Reject, index, waiting, ChainInv, OrphanIndex
  <2> QED
    BY <1>1, <1>3, <1>4, <2>1, <2>2, CheckCodes
    DEF Reject, waiting, ChainInv, TypeOK
<1>5. ASSUME NEW b \in Block, cursor = None, AddOrphan(b) PROVE ChainInv'
  <2>1. IndexInv'
    BY <1>2, <1>5 DEF AddOrphan
  <2>2. /\ b \notin hashes /\ b \notin orphans
        /\ Prev(b) \notin hashes
        /\ Header[b].pow = "SUCCESS"
    BY <1>5, HeaderAssumption DEF AddOrphan, AddCheck, PowResult
  <2>3. PICK kept \in {{}, DOMAIN prevs} :
           /\ orphans' \subseteq orphans \cup {b}
           /\ b \in orphans'
           /\ kept # {} => orphans' = orphans \cup {b}
           /\ prevs' = [p \in kept \cup {Prev(b)} |->
                           IF p = Prev(b) THEN b ELSE prevs[p]]
    BY <1>5 DEF AddOrphan
  <2>4. /\ DOMAIN prevs' = kept \cup {Prev(b)}
        /\ prevs'[Prev(b)] = b
        /\ \A p \in kept : p # Prev(b) => prevs'[p] = prevs[p]
        /\ kept \subseteq DOMAIN prevs
    BY <2>3
  <2>5. /\ orphans' \subseteq Block
        /\ prevs' \in [DOMAIN prevs' -> Block]
        /\ DOMAIN prevs' \subseteq Block \cup {None}
    BY <1>1, <1>5, <2>3, <2>4, PrevType DEF ChainInv, TypeOK
  <2>6. UNCHANGED <<hashes, cursor, now>> /\ rc' = "EORPHAN"
    BY <1>5 DEF AddOrphan, index
  <2>7. OrphanIndex'
    <3>1. orphans' \cap hashes' = {} /\ cursor' \in hashes' \cup {None}
      BY <1>1, <2>2, <2>3, <2>6 DEF ChainInv, OrphanIndex
    <3>2. \A o \in orphans' : Header[o].pow = "SUCCESS"
      BY <1>1, <2>2, <2>3 DEF ChainInv, OrphanIndex
    <3>3. ASSUME NEW p \in DOMAIN prevs'
          PROVE  /\ prevs'[p] \in orphans'
                 /\ Prev(prevs'[p]) = p
                 /\ p \in hashes' => p = cursor'
      <4>1. CASE p = Prev(b)
        BY <2>2, <2>3, <2>4, <2>6, <4>1, Zenon
      <4>2. CASE p # Prev(b)
        BY <1>1, <2>3, <2>4, <2>6, <3>3, <4>2, Zenon DEF ChainInv, OrphanIndex
      <4> QED
        BY <4>1, <4>2
    <3> QED
      BY <3>1, <3>2, <3>3 DEF OrphanIndex, Prev
  <2> QED
    BY <1>1, <1>3, <2>1, <2>5, <2>6, <2>7 DEF ChainInv, TypeOK
<1>6. ASSUME NEW b \in Block, cursor = None, AddInsert(b) PROVE ChainInv'
  <2>1. AddCheck(b) = "SUCCESS" /\ Insert(b) /\ UNCHANGED <<waiting, now>>
    BY <1>6 DEF AddInsert
  <2>2. IndexInv'
    BY <1>1, <2>1, AddInsertable, InsertIndex, ChainInvIndex
  <2>3. b \notin orphans
    BY <2>1 DEF AddCheck
  <2>4. \/ hashes' = hashes \cup {b} /\ cursor' = b
        \/ hashes' = hashes /\ cursor' = None
    BY <1>6, <2>1, InsertHashes DEF AddInsert
  <2>5. OrphanIndex'
    <3>1. \A p \in DOMAIN prevs : p \notin hashes
      BY <1>1, <1>6, BlockAssumption DEF ChainInv, TypeOK, OrphanIndex
    <3>2. UNCHANGED <<orphans, prevs>>
      BY <2>1 DEF waiting
    <3> QED
      BY <1>1, <2>3, <2>4, <3>1, <3>2 DEF ChainInv, OrphanIndex, Prev
  <2>6. rc' = InsertCheck(b)
    BY <2>1, Zenon DEF Insert
  <2> QED
    BY <1>1, <1>3, <1>6, <2>1, <2>2, <2>4, <2>5, <2>6, CheckCodes
    DEF waiting, ChainInv, TypeOK, PowResult
<1>7. ASSUME ResolveOrphan PROVE ChainInv'
  <2> DEFINE o == prevs[cursor]
  <2>1. /\ cursor # None /\ cursor \in DOMAIN prevs
        /\ prevs' = [p \in DOMAIN prevs \ {cursor} |-> prevs[p]]
        /\ orphans' = orphans \ {o}
        /\ Insert(o)
        /\ cursor' = IF InsertCheck(o) = "SUCCESS" THEN o ELSE None
        /\ now' = now
    BY <1>7 DEF ResolveOrphan
  <2>2. o \in Block /\ Insertable(o) /\ o \in orphans /\ Prev(o) = cursor
    BY <1>1, <1>7, ResolveInsertable, Zenon DEF Insertable
  <2>3. IndexInv'
    BY <1>1, <2>1, <2>2, InsertIndex, ChainInvIndex, SMTT(30)
  <2>4. \/ hashes' = hashes \cup {o} /\ cursor' = o
        \/ hashes' = hashes /\ cursor' = None
    BY <2>1, <2>2, InsertHashes, SMTT(30)
  <2>5. OrphanIndex'
    <3>1. orphans' \cap hashes' = {} /\ cursor' \in hashes' \cup {None}
      BY <1>1, <2>1, <2>4, SMTT(30) DEF ChainInv, OrphanIndex
    <3>2. \A c \in orphans' : Header[c].pow = "SUCCESS"
      BY <1>1, <2>1, SMTT(30) DEF ChainInv, OrphanIndex
    <3>3. ASSUME NEW p \in DOMAIN prevs'
          PROVE  /\ prevs'[p] \in orphans'
                 /\ Prev(prevs'[p]) = p
                 /\ p \in hashes' => p = cursor'
      <4>1. p \in DOMAIN prevs /\ p # cursor /\ prevs'[p] = prevs[p]
        BY <2>1, <3>3
      <4>2. prevs[p] \in orphans /\ Prev(prevs[p]) = p /\ p \notin hashes
        BY <1>1, <4>1 DEF ChainInv, OrphanIndex
      <4>3. prevs[p] # o
        BY <2>2, <4>1, <4>2, Zenon
      <4> QED
        BY <2>1, <2>4, <4>1, <4>2, <4>3, SMTT(30)
    <3> QED
      BY <3>1, <3>2, <3>3, SMTT(30) DEF OrphanIndex, Prev
  <2>6. rc' = InsertCheck(o)
    BY <2>1 DEF Insert
  <2>7. /\ orphans' \subseteq Block
        /\ prevs' \in [DOMAIN prevs' -> Block]
        /\ DOMAIN prevs' \subseteq Block \cup {None}
        /\ cursor' \in Block \cup {None}
        /\ now' \in Nat
    BY <1>1, <2>1, <2>2, <2>4, Zenon DEF ChainInv, TypeOK
  <2> QED
    BY <1>3, <2>2, <2>3, <2>5, <2>6, <2>7, CheckCodes, Zenon DEF PowResult
<1>8. ASSUME EndResolve PROVE ChainInv'
  <2>1. IndexInv'
    BY <1>2, <1>8, Zenon DEF EndResolve
  <2>2. OrphanIndex'
    BY <1>1, <1>8, Zenon DEF EndResolve, index, waiting, ChainInv, OrphanIndex, Prev
  <2> QED
    BY <1>1, <1>3, <1>8, <2>1, <2>2 DEF EndResolve, waiting, ChainInv, TypeOK
<1>9. ASSUME Tick PROVE ChainInv'
  <2>1. IndexInv'
    BY <1>2, <1>9, Zenon DEF Tick
  <2>2. OrphanIndex'
    BY <1>1, <1>9 DEF Tick, index, waiting, ChainInv, OrphanIndex, Prev
  <2>3. now' \in Nat
    BY <1>9, ParameterAssumption, SMTT(30) DEF Tick
  <2> QED
    BY <1>1, <1>3, <1>9, <2>1, <2>2, <2>3 DEF Tick, waiting, ChainInv, TypeOK
<1>10. ASSUME UNCHANGED vars PROVE ChainInv'
  BY <1>1, <1>10
  DEF vars, index, waiting, ChainInv, TypeOK, MainChain, MostWork,
      HeadersConnected, OrphanIndex, Prev
<1> QED
  BY <1>1, <1>4, <1>5, <1>6, <1>7, <1>8, <1>9, <1>10 DEF Next, Add

\* The invariant holds in every state the chain reaches.
LEMMA ChainCorrect == Spec => []ChainInv
BY InitInv, NextInv, PTL DEF Spec

\* Every variable keeps its type.
THEOREM TypeCorrect == Spec => []TypeOK
BY ChainCorrect, PTL DEF ChainInv

\* The heights index is always the path from the genesis header to the tip,
\* so hsk_chain_safe_root and hsk_chain_get_locator find what they look up.
THEOREM MainChainCorrect == Spec => []MainChain
BY ChainCorrect, PTL DEF ChainInv

\* The tip always has the most work of all stored headers.
THEOREM MostWorkCorrect == Spec => []MostWork
BY ChainCorrect, PTL DEF ChainInv

\* Every stored header has its parent stored and has passed every rule.
THEOREM HeadersConnectedCorrect == Spec => []HeadersConnected
BY ChainCorrect, PTL DEF ChainInv

\* The orphan maps agree with each other and with the store.
THEOREM OrphanIndexCorrect == Spec => []OrphanIndex
BY ChainCorrect, PTL DEF ChainInv

\* The orphan map never holds more than one header above its limit.
THEOREM OrphansBoundedCorrect == Spec => []OrphansBounded
<1>1. Init => OrphansBounded
  BY FS_EmptySet, ParameterAssumption DEF Init, OrphansBounded
<1>2. ChainInv /\ OrphansBounded /\ [Next]_vars => OrphansBounded'
  <2>1. SUFFICES ASSUME ChainInv, OrphansBounded, [Next]_vars
                 PROVE  OrphansBounded'
    OBVIOUS
  <2>2. IsFiniteSet(orphans) /\ Cardinality(orphans) \in Nat /\ OrphanLimit \in Nat
    <3>1. orphans \subseteq Block /\ IsFiniteSet(Block) /\ OrphanLimit \in Nat
      BY <2>1, BlockAssumption, ParameterAssumption DEF ChainInv, TypeOK
    <3>2. IsFiniteSet(orphans)
      BY <3>1, FS_Subset, Zenon
    <3> QED
      BY <3>1, <3>2, FS_CardinalityType, Zenon
  <2>3. CASE UNCHANGED orphans
    BY <2>1, <2>3 DEF OrphansBounded
  <2>4. ASSUME NEW b \in Block, AddOrphan(b) PROVE OrphansBounded'
    <3>1. CASE Cardinality(orphans) > OrphanLimit
      <4>1. orphans' = {b}
        BY <2>4, <3>1 DEF AddOrphan, OrphansFull
      <4>2. Cardinality(orphans') = 1
        BY <4>1, FS_Singleton, Zenon
      <4> QED
        BY <2>2, <4>2 DEF OrphansBounded
    <3>2. CASE ~(Cardinality(orphans) > OrphanLimit)
      <4>1. orphans' = orphans \cup {b}
        BY <2>4, <3>2 DEF AddOrphan, OrphansFull
      <4>2. Cardinality(orphans') = IF b \in orphans THEN Cardinality(orphans)
                                    ELSE Cardinality(orphans) + 1
        BY <2>2, <4>1, FS_AddElement, Zenon
      <4> QED
        BY <2>2, <3>2, <4>2 DEF OrphansBounded
    <3> QED
      BY <3>1, <3>2
  <2>5. ASSUME ResolveOrphan PROVE OrphansBounded'
    <3>1. orphans' \in SUBSET orphans
      BY <2>5 DEF ResolveOrphan
    <3>2. Cardinality(orphans') <= Cardinality(orphans) /\ IsFiniteSet(orphans')
      BY <2>2, <3>1, FS_Subset
    <3>3. Cardinality(orphans') \in Nat
      BY <3>2, FS_CardinalityType
    <3> QED
      BY <2>1, <2>2, <3>2, <3>3 DEF OrphansBounded
  <2> QED
    BY <2>1, <2>3, <2>4, <2>5
    DEF Next, Add, Reject, AddInsert, EndResolve, Tick, vars, waiting
<1> QED
  BY <1>1, <1>2, ChainCorrect, PTL DEF Spec

----------------------------------------------------------------------------
\* Every step leaves the index alone or is an insertion.
LEMMA StepKinds ==
    ASSUME ChainInv, [Next]_vars
    PROVE  \/ UNCHANGED index
           \/ /\ now' = now
              /\ \E b \in Block : Insertable(b) /\ Insert(b)
<1>1. ASSUME NEW b \in Block, AddInsert(b) PROVE now' = now /\ Insertable(b) /\ Insert(b)
  BY <1>1, AddInsertable DEF AddInsert
<1>2. ASSUME ResolveOrphan
      PROVE  /\ now' = now
             /\ Insertable(prevs[cursor]) /\ Insert(prevs[cursor])
             /\ prevs[cursor] \in Block
  BY <1>2, ResolveInsertable DEF ResolveOrphan, Insertable
<1> QED
  BY <1>1, <1>2, Zenon DEF Next, Add, Reject, AddOrphan, EndResolve, Tick, vars

----------------------------------------------------------------------------
\* Facts about division that the safe height rests on.
LEMMA DivMod ==
    ASSUME NEW a \in Int, NEW k \in Nat \ {0}
    PROVE  a \div k \in Int /\ a % k \in 0..(k - 1) /\ a = k * (a \div k) + (a % k)
OBVIOUS

\* A positive multiple is at least as large.
LEMMA ProductAtLeast ==
    ASSUME NEW k \in Nat \ {0}, NEW d \in Nat \ {0}
    PROVE  k * d >= k
OBVIOUS

\* Quotient and remainder are unique.
LEMMA ModUnique ==
    ASSUME NEW a \in Int, NEW k \in Nat \ {0}, NEW q \in Int, NEW r \in 0..(k - 1),
           a = k * q + r
    PROVE  a % k = r
<1> DEFINE p == a \div k
           m == a % k
<1>1. p \in Int /\ m \in 0..(k - 1) /\ a = k * p + m
  BY DivMod, Zenon
<1> HIDE DEF p, m
<1>2. k * p + m = k * q + r
  BY <1>1
<1>3. k * (p - q) = r - m /\ k * (q - p) = m - r
  BY <1>1, <1>2
<1>4. ~(p > q)
  BY <1>1, <1>3, ProductAtLeast
<1>5. ~(q > p)
  BY <1>1, <1>3, ProductAtLeast
<1>6. p = q
  BY <1>1, <1>4, <1>5
<1> QED
  BY <1>1, <1>2, <1>6 DEF m

\* The remainder of the number before h, as FirstWithRoot uses it.
LEMMA ModBefore ==
    ASSUME NEW h \in Nat \ {0}, NEW k \in Nat \ {0}
    PROVE  (h - 1) % k = IF h % k = 0 THEN k - 1 ELSE (h % k) - 1
<1> DEFINE q == h \div k
           r == h % k
<1>1. q \in Int /\ r \in 0..(k - 1) /\ h = k * q + r
  BY DivMod
<1> HIDE DEF q, r
<1>2. CASE r = 0
  <2>1. h - 1 = k * (q - 1) + (k - 1) /\ k - 1 \in 0..(k - 1) /\ q - 1 \in Int
    BY <1>1, <1>2
  <2>2. h - 1 \in Int
    OBVIOUS
  <2>3. (h - 1) % k = k - 1
    BY <2>1, <2>2, ModUnique, Zenon
  <2> QED
    BY <1>2, <2>3 DEF r
<1>3. CASE r # 0
  <2>1. h - 1 = k * q + (r - 1) /\ r - 1 \in 0..(k - 1)
    BY <1>1, <1>3
  <2>2. h - 1 \in Int
    OBVIOUS
  <2>3. (h - 1) % k = r - 1
    BY <1>1, <2>1, <2>2, ModUnique
  <2> QED
    BY <1>3, <2>3 DEF r
<1> QED
  BY <1>2, <1>3

\* Going back by the remainder leads to a multiple.
LEMMA ModBack ==
    ASSUME NEW h \in Nat, NEW k \in Nat \ {0}
    PROVE  /\ h % k \in 0..(k - 1)
           /\ h - (h % k) \in Nat
           /\ (h - (h % k)) % k = 0
<1> DEFINE q == h \div k
           r == h % k
<1>1. q \in Int /\ r \in 0..(k - 1) /\ h = k * q + r
  BY DivMod
<1> HIDE DEF q, r
<1>2. q >= 0
  <2>1. ASSUME q < 0 PROVE FALSE
    <3>1. k * (0 - q) >= k
      BY <1>1, <2>1, ProductAtLeast
    <3> QED
      BY <1>1, <3>1
  <2> QED
    BY <1>1, <2>1
<1>3. h - r = k * q /\ k * q \in Nat
  BY <1>1, <1>2
<1>4. h - r = k * q + 0 /\ 0 \in 0..(k - 1) /\ h - r \in Int
  BY <1>1, <1>3
<1>5. (h - r) % k = 0
  BY <1>1, <1>4, ModUnique
<1> QED
  BY <1>1, <1>3, <1>5 DEF r

\* The root hsk_chain_safe_root uses is that of the genesis header, or has
\* RootDepth headers from its first commitment to the tip.
LEMMA RootBuried ==
    ASSUME NEW h \in Nat
    PROVE  /\ FirstWithRoot(SafeHeight(h)) \in 0..h
           /\ FirstWithRoot(SafeHeight(h)) > 0 =>
                 h - FirstWithRoot(SafeHeight(h)) + 1 >= RootDepth
<1> DEFINE k == TreeInterval
           mod == h % k
<1>1. k \in Nat \ {0} /\ SafeDepth \in Nat \ {0}
  BY ParameterAssumption
<1>2. mod \in 0..(k - 1) /\ h - mod \in Nat /\ (h - mod) % k = 0
  BY <1>1, ModBack, Zenon
<1>3. CASE mod >= SafeDepth
  <2>1. SafeHeight(h) = h /\ h # 0
    BY <1>1, <1>2, <1>3 DEF SafeHeight
  <2>2. (h - 1) % k = mod - 1
    <3>1. (h - 1) % k = IF h % k = 0 THEN k - 1 ELSE (h % k) - 1
      BY <1>1, <2>1, ModBefore, Zenon
    <3>2. mod # 0
      BY <1>1, <1>2, <1>3
    <3> QED
      BY <3>1, <3>2
  <2>3. FirstWithRoot(SafeHeight(h)) = h - (mod - 1)
    BY <2>1, <2>2, Zenon DEF FirstWithRoot
  <2> QED
    BY <1>1, <1>2, <1>3, <2>1, <2>3 DEF RootDepth
<1>4. CASE ~(mod >= SafeDepth)
  <2>1. SafeHeight(h) = h - mod
    BY <1>4, Zenon DEF SafeHeight
  <2>2. CASE h - mod = 0
    BY <1>1, <1>2, <2>1, <2>2 DEF FirstWithRoot
  <2>3. CASE h - mod # 0
    <3>1. ((h - mod) - 1) % k = k - 1
      BY <1>1, <1>2, <2>3, ModBefore, Zenon
    <3>2. FirstWithRoot(SafeHeight(h)) = (h - mod) - (k - 1)
      BY <2>1, <2>3, <3>1, Zenon DEF FirstWithRoot
    <3>3. h - mod >= k
      <4> DEFINE m == h - mod
                 q == m \div k
      <4>1. q \in Int /\ m = k * q + (m % k) /\ m % k = 0 /\ m \in Nat \ {0}
        BY <1>1, <1>2, <2>3, DivMod
      <4> HIDE DEF m, q
      <4>2. m = k * q
        BY <1>1, <4>1
      <4>3. q >= 1
        BY <1>1, <4>1, <4>2
      <4>4. k * q >= k
        BY <1>1, <4>1, <4>3, ProductAtLeast
      <4> QED
        BY <4>2, <4>4 DEF m
    <3> QED
      BY <1>1, <1>2, <3>2, <3>3 DEF RootDepth
  <2> QED
    BY <2>2, <2>3
<1> QED
  BY <1>3, <1>4

\* When an insertion removes the main chain header at height c, it removes
\* every header from c up: a reorganization cuts the chain at one fork.
LEMMA CutAtFork ==
    ASSUME IndexInv, NEW b, Insertable(b), Insert(b), NEW c \in 1..height,
           ~(c \in DOMAIN heights' /\ heights'[c] = heights[c])
    PROVE  \A i \in c..height : i \in DOMAIN heights' => heights'[i] # heights[i]
<1> DEFINE n == hgt[Prev(b)] + 1
<1>1. /\ DOMAIN heights = 0..height /\ height \in Nat /\ c \in DOMAIN heights
      /\ n \in Nat
  BY DEF IndexInv, IndexType, MainChain, Insertable
<1>2. heights' # heights
  BY <1>1, Zenon
<1>3. Connect(b, n)
  BY <1>2 DEF Insert, index
<1>4. Prev(b) # tip
  <2>1. ASSUME Prev(b) = tip PROVE FALSE
    <3>1. /\ n = height + 1
          /\ heights' = [i \in DOMAIN heights \cup {n} |->
                            IF i = n THEN b ELSE heights[i]]
      BY <1>3, <2>1, EndsStored DEF Connect
    <3> QED
      BY <1>1, <3>1
  <2> QED
    BY <2>1
<1>5. PICK f \in DOMAIN heights :
         /\ f < n
         /\ \E branch \in [f..n -> hashes \cup {b}] :
               /\ IsBranch(branch, f, b, n)
               /\ heights' = Reorganized(branch, f, n)
  BY <1>3, <1>4, Zenon DEF Connect
<1>6. PICK branch \in [f..n -> hashes \cup {b}] :
         /\ IsBranch(branch, f, b, n)
         /\ heights' = Reorganized(branch, f, n)
  BY <1>5
<1>7. f < c
  BY <1>1, <1>6 DEF Reorganized
<1>8. SUFFICES ASSUME NEW i \in c..height, i \in DOMAIN heights'
               PROVE  heights'[i] # heights[i]
  BY Zenon
<1>9. i \in (f + 1)..n /\ i \in DOMAIN heights
  BY <1>1, <1>6, <1>7, <1>8 DEF Reorganized
<1>10. heights'[i] = branch[i]
  BY <1>6, <1>8, <1>9, Zenon DEF Reorganized
<1>11. branch[i] # heights[i]
  BY <1>6, <1>9 DEF IsBranch
<1> QED
  BY <1>10, <1>11

\* A reorganization shallower than the depth hsk_chain_safe_root trusts never
\* takes the commitment of the root in use off the main chain, whatever the
\* interval and the depth.
THEOREM SafeRootSurvivesCorrect == Spec => SafeRootSurvives
<1> DEFINE Kept == Disconnected < RootDepth =>
                     LET c == FirstWithRoot(SafeHeight(height))
                     IN  c \in DOMAIN heights' /\ heights'[c] = heights[c]
<1>1. ASSUME ChainInv, [Next]_vars PROVE Kept
  <2> DEFINE c == FirstWithRoot(SafeHeight(height))
             D == {i \in DOMAIN heights :
                      i \in DOMAIN heights' => heights'[i] # heights[i]}
  <2>1. /\ height \in Nat /\ DOMAIN heights = 0..height
        /\ heights[0] = Genesis
    BY <1>1 DEF ChainInv, TypeOK, MainChain
  <2>2. c \in 0..height /\ (c > 0 => height - c + 1 >= RootDepth)
    BY <2>1, RootBuried
  <2> HIDE DEF c
  <2>3. CASE UNCHANGED index
    BY <2>1, <2>2, <2>3, Zenon DEF index, c
  <2>4. ASSUME NEW b \in Block, Insertable(b), Insert(b) PROVE Kept
    <3>1. IndexInv /\ IndexInv'
      BY <1>1, <2>4, ChainInvIndex, InsertIndex, Zenon
    <3>2. CASE c = 0
      BY <2>1, <3>1, <3>2 DEF c, IndexInv, IndexType, MainChain
    <3>3. CASE c \in DOMAIN heights' /\ heights'[c] = heights[c]
      BY <3>3 DEF c
    <3>4. CASE c # 0 /\ ~(c \in DOMAIN heights' /\ heights'[c] = heights[c])
      <4>1. c \in 1..height
        BY <2>1, <2>2, <3>4
      <4>2. \A i \in c..height : i \in DOMAIN heights' => heights'[i] # heights[i]
        BY <2>4, <3>1, <3>4, <4>1, CutAtFork, Zenon
      <4>3. c..height \in SUBSET D /\ D \in SUBSET (0..height)
        BY <2>1, <4>1, <4>2
      <4> HIDE DEF D
      <4>4. /\ IsFiniteSet(D)
            /\ Cardinality(c..height) <= Cardinality(D)
        <5>1. IsFiniteSet(0..height)
          BY <2>1, FS_Interval
        <5>2. IsFiniteSet(D)
          BY <4>3, <5>1, FS_Subset, Zenon
        <5> QED
          BY <4>3, <5>2, FS_Subset, Zenon
      <4>5. Cardinality(D) \in Nat
        BY <4>4, FS_CardinalityType
      <4>6. Cardinality(c..height) = height - c + 1
        BY <2>1, <4>1, FS_Interval
      <4>7. RootDepth \in Nat
        BY ParameterAssumption DEF RootDepth
      <4>8. ~(Cardinality(D) < RootDepth)
        BY <2>1, <2>2, <4>1, <4>4, <4>5, <4>6, <4>7, SMTT(30)
      <4> QED
        BY <4>8 DEF Disconnected, D
    <3> QED
      BY <3>2, <3>3, <3>4
  <2> QED
    BY <1>1, <2>3, <2>4, StepKinds, Zenon
<1>2. ChainInv /\ [Next]_vars => [Kept]_vars
  BY <1>1
<1> QED
  BY <1>2, ChainCorrect, PTL DEF Spec, SafeRootSurvives

----------------------------------------------------------------------------
\* A nonempty set of numbers has a least one, ...
LEMMA LeastOf ==
    ASSUME NEW T \in SUBSET Nat, T # {}
    PROVE  \E n \in T : \A m \in T : n <= m
<1> DEFINE R == OpToRel(<, Nat)
<1>1. IsWellFoundedOn(R, Nat)
  BY NatLessThanWellFounded, Zenon
<1>2. \A a, b \in Nat : <<a, b>> \in R <=> a < b
  BY DEF OpToRel
<1> HIDE DEF R
<1>3. PICK x \in T : \A y \in T : ~ (<<y, x>> \in R)
  BY <1>1, WFMin, Zenon
<1>4. ASSUME NEW y \in T PROVE x <= y
  <2>1. x \in Nat /\ y \in Nat /\ ~ (<<y, x>> \in R)
    BY <1>3
  <2> QED
    BY <1>2, <2>1
<1> QED
  BY <1>4

\* ... so that what holds of 0, and of n + 1 when it holds of n, holds of all.
LEMMA FromZeroOn ==
    ASSUME NEW T \in SUBSET Nat, 0 \in T, \A n \in T : n + 1 \in T
    PROVE  T = Nat
<1> SUFFICES ASSUME Nat \ T # {} PROVE FALSE
  BY Zenon
<1>1. PICK n \in Nat \ T : \A m \in Nat \ T : n <= m
  BY LeastOf, Zenon
<1>2. n # 0 /\ n - 1 \in Nat
  BY <1>1
<1>3. n - 1 \in T
  BY <1>1, <1>2
<1> QED
  BY <1>1, <1>2, <1>3

----------------------------------------------------------------------------
(* The loops of hsk_chain_find_fork and hsk_chain_reorganize.              *)

\* The work of a header is at least its height, so the height of the heaviest
\* chain bounds the walks.
LEMMA HeightsBelowWork ==
    ASSUME IndexInv
    PROVE  \A c \in hashes : hgt[c] <= work[tip]
<1> DEFINE T == {d \in Nat : \A c \in hashes : hgt[c] = d => d <= work[c]}
<1>1. \A c \in hashes : c \in Block /\ hgt[c] \in Nat /\ work[c] \in Nat
  BY DEF IndexInv, IndexType
<1>2. 0 \in T
  BY <1>1
<1>3. ASSUME NEW d \in T PROVE d + 1 \in T
  <2>1. ASSUME NEW c \in hashes, hgt[c] = d + 1 PROVE d + 1 <= work[c]
    <3>1. c # Genesis
      BY <2>1 DEF IndexInv, IndexType, MainChain
    <3>2. /\ Prev(c) \in hashes /\ hgt[c] = hgt[Prev(c)] + 1
          /\ work[c] = work[Prev(c)] + Proof[c]
      BY <3>1, Zenon DEF IndexInv, HeadersConnected
    <3>3. Proof[c] \in Nat \ {0}
      BY <1>1, HeaderAssumption, Zenon
    <3>4. hgt[Prev(c)] = d
      BY <1>1, <1>3, <2>1, <3>2
    <3>5. d <= work[Prev(c)]
      BY <1>3, <3>2, <3>4
    <3> QED
      BY <1>1, <1>3, <3>2, <3>3, <3>5
  <2> QED
    BY <2>1
<1>4. T = Nat
  <2>1. T \subseteq Nat
    OBVIOUS
  <2> HIDE DEF T
  <2> QED
    BY <1>2, <1>3, <2>1, FromZeroOn, Zenon
<1>5. ASSUME NEW c \in hashes PROVE hgt[c] <= work[tip]
  <2>1. hgt[c] \in T
    BY <1>1, <1>4, Zenon
  <2>2. hgt[c] <= work[c] /\ work[c] <= work[tip]
    BY <2>1 DEF IndexInv, MostWork
  <2> QED
    BY <1>1, <2>2, EndsStored
<1> QED
  BY <1>5

\* Each step of a walk through prev_block lowers its rank, for the stored
\* headers and the competitor b.
IsRank(rank, bound, b) ==
    /\ bound \in Nat /\ rank \in [hashes \cup {b, None} -> 0..bound]
    /\ \A c \in hashes \cup {b} :
          /\ c # None
          /\ Back(c) \in hashes \cup {None}
          /\ rank[Back(c)] < rank[c]

LEMMA RankExists ==
    ASSUME IndexInv, NEW b, Insertable(b)
    PROVE  \E rank, bound : IsRank(rank, bound, b)
<1> DEFINE n == hgt[Prev(b)] + 1
           bound == work[tip] + 2
           rank == [c \in hashes \cup {b, None} |->
                       IF c = None THEN 0 ELSE Level(c, b, n) + 1]
<1>1. /\ b \in Block /\ b \notin hashes /\ Prev(b) \in hashes /\ b # None
      /\ None \notin hashes /\ bound \in Nat /\ work[tip] \in Nat
      /\ \A c \in hashes : hgt[c] \in Nat /\ hgt[c] <= work[tip]
  BY BlockAssumption, HeightsBelowWork DEF Insertable, IndexInv, IndexType
<1>2. n \in Nat /\ n <= work[tip] + 1
  BY <1>1
<1>3. /\ rank[None] = 0 /\ rank[b] = n + 1
      /\ \A c \in hashes : rank[c] = hgt[c] + 1
  BY <1>1 DEF Level
<1>4. rank = [c \in hashes \cup {b, None} |-> rank[c]]
  OBVIOUS
<1> HIDE DEF rank
<1>5. \A c \in hashes \cup {b, None} : rank[c] \in 0..bound
  BY <1>1, <1>2, <1>3
<1>6. rank \in [hashes \cup {b, None} -> 0..bound]
  BY <1>4, <1>5
<1>7. ASSUME NEW c \in hashes \cup {b}
      PROVE  c # None /\ Back(c) \in hashes \cup {None} /\ rank[Back(c)] < rank[c]
  <2>1. CASE c = b
    BY <1>1, <1>3, <2>1, SMTT(30) DEF Back
  <2>2. CASE c = Genesis
    BY <1>1, <1>3, <2>2, <1>7, HeaderAssumption, SMTT(30) DEF Back, Prev
  <2>3. CASE c \in hashes \ {Genesis}
    <3>1. Prev(c) \in hashes /\ hgt[c] = hgt[Prev(c)] + 1
      BY <2>3, Zenon DEF IndexInv, HeadersConnected
    <3> QED
      BY <1>1, <1>3, <2>3, <3>1 DEF Back
  <2> QED
    BY <2>1, <2>2, <2>3, Zenon
<1>8. IsRank(rank, bound, b)
  BY <1>1, <1>6, <1>7 DEF IsRank
<1> QED
  BY <1>8

\* One step of the recursion of FindFork and of that of Downto.
Pairs(b) == (hashes \cup {None}) \X (hashes \cup {b, None})
ForkStep(g, r, b, n) ==
    IF None \in {r[1], r[2]} THEN None
    ELSE IF r[1] = r[2] THEN r[1]
    ELSE IF Level(r[2], b, n) > hgt[r[1]] THEN g[<<r[1], Back(r[2])>>]
    ELSE g[<<Back(r[1]), r[2]>>]
AreForks(g, b, n) == g = [r \in Pairs(b) |-> ForkStep(g, r, b, n)]

DownStep(g, d, fork) ==
    IF d = fork THEN {} ELSE {d} \cup (IF d = None THEN {} ELSE g[Back(d)])
AreLists(g, fork, b) ==
    g = [d \in hashes \cup {b, None} |-> DownStep(g, d, fork)]

\* The walks of hsk_chain_find_fork end, so FindFork is what its recursion says.
LEMMA ForksExist ==
    ASSUME IndexInv, NEW b, Insertable(b), NEW n
    PROVE  \E g : AreForks(g, b, n) /\ FindFork(b, n) = g[<<tip, b>>]
<1>1. PICK rank, bound : IsRank(rank, bound, b)
  BY RankExists
<1> DEFINE Rank(r) == rank[r[1]] + rank[r[2]]
<1>2. /\ bound \in Nat
      /\ \A r \in Pairs(b) : Rank(r) \in Nat /\ Rank(r) <= bound + bound
  BY <1>1, SMTT(30) DEF IsRank, Pairs
<1>3. ASSUME NEW r \in Pairs(b), r[1] # None, r[2] # None
      PROVE  /\ <<r[1], Back(r[2])>> \in Pairs(b)
             /\ <<Back(r[1]), r[2]>> \in Pairs(b)
             /\ Rank(<<r[1], Back(r[2])>>) < Rank(r)
             /\ Rank(<<Back(r[1]), r[2]>>) < Rank(r)
  <2>1. r[1] \in hashes /\ r[2] \in hashes \cup {b}
    BY <1>3, Zenon DEF Pairs
  <2>2. /\ Back(r[1]) \in hashes \cup {None} /\ rank[Back(r[1])] < rank[r[1]]
        /\ Back(r[2]) \in hashes \cup {None} /\ rank[Back(r[2])] < rank[r[2]]
    BY <1>1, <2>1, Zenon DEF IsRank
  <2>3. /\ rank[r[1]] \in Nat /\ rank[r[2]] \in Nat
        /\ rank[Back(r[1])] \in Nat /\ rank[Back(r[2])] \in Nat
    BY <1>1, <2>1, <2>2, SMTT(30) DEF IsRank
  <2> QED
    BY <2>1, <2>2, <2>3 DEF Pairs
<1> DEFINE Upto(d, f) == /\ f = [r \in Pairs(b) |-> f[r]]
                         /\ \A r \in Pairs(b) : Rank(r) < d => f[r] = ForkStep(f, r, b, n)
           T == {d \in Nat : \E f : Upto(d, f)}
<1> HIDE DEF Rank
<1>4. 0 \in T
  <2> DEFINE f == [r \in Pairs(b) |-> None]
  <2>1. f = [r \in Pairs(b) |-> f[r]]
    OBVIOUS
  <2> HIDE DEF f
  <2> QED
    BY <1>2, <2>1
<1>5. ASSUME NEW d \in T PROVE d + 1 \in T
  <2>1. PICK f : Upto(d, f)
    BY <1>5
  <2> DEFINE h == [r \in Pairs(b) |-> ForkStep(f, r, b, n)]
  <2>2. ASSUME NEW r \in Pairs(b), Rank(r) < d + 1 PROVE h[r] = ForkStep(h, r, b, n)
    <3>1. \A s \in Pairs(b) : Rank(s) < d => h[s] = f[s]
      BY <2>1
    <3>2. h[r] = ForkStep(f, r, b, n)
      BY Zenon
    <3> HIDE DEF h
    <3>3. CASE None \in {r[1], r[2]}
      BY <3>2, <3>3 DEF ForkStep
    <3>4. CASE r[1] # None /\ r[2] # None
      <4>1. /\ h[<<r[1], Back(r[2])>>] = f[<<r[1], Back(r[2])>>]
            /\ h[<<Back(r[1]), r[2]>>] = f[<<Back(r[1]), r[2]>>]
        <5>1. /\ <<r[1], Back(r[2])>> \in Pairs(b)
              /\ <<Back(r[1]), r[2]>> \in Pairs(b)
          BY <1>3, <3>4, Zenon
        <5>2. /\ Rank(<<r[1], Back(r[2])>>) < d
              /\ Rank(<<Back(r[1]), r[2]>>) < d
          <6>1. d \in Nat
            BY <1>5
          <6> QED
            BY <1>2, <1>3, <2>2, <3>4, <5>1, <6>1, SMTT(30)
        <5> QED
          BY <3>1, <5>1, <5>2, Zenon
      <4> QED
        BY <3>2, <4>1, Zenon DEF ForkStep
    <3> QED
      BY <3>3, <3>4, Zenon
  <2>3. h = [r \in Pairs(b) |-> h[r]]
    OBVIOUS
  <2> HIDE DEF h
  <2>4. Upto(d + 1, h)
    BY <2>2, <2>3
  <2> QED
    BY <2>4
<1>6. T = Nat
  <2>1. T \subseteq Nat
    OBVIOUS
  <2> HIDE DEF T
  <2> QED
    BY <1>4, <1>5, <2>1, FromZeroOn, Zenon
<1>7. bound + bound + 1 \in T
  BY <1>2, <1>6
<1>8. PICK f : Upto(bound + bound + 1, f)
  BY <1>7
<1>9. \A r \in Pairs(b) : f[r] = ForkStep(f, r, b, n)
  BY <1>2, <1>8
<1>10. AreForks(f, b, n)
  BY <1>8, <1>9 DEF AreForks
<1>11. FindFork(b, n) = (CHOOSE g : AreForks(g, b, n))[<<tip, b>>]
  BY Zenon DEF FindFork, AreForks, Pairs, ForkStep
<1>12. AreForks(CHOOSE g : AreForks(g, b, n), b, n)
  BY <1>10, Zenon
<1> QED
  BY <1>11, <1>12, Zenon

\* The same for the lists of hsk_chain_reorganize.
LEMMA ListsExist ==
    ASSUME IndexInv, NEW b, Insertable(b), NEW fork
    PROVE  \E g : /\ AreLists(g, fork, b)
                  /\ \A c : Downto(c, fork, b) = g[c]
<1>1. PICK rank, bound : IsRank(rank, bound, b)
  BY RankExists
<1> DEFINE D == hashes \cup {b, None}
<1>2. bound \in Nat /\ \A d \in D : rank[d] \in Nat /\ rank[d] <= bound
  BY <1>1 DEF IsRank
<1>3. \A d \in D \ {None} : Back(d) \in D /\ rank[Back(d)] < rank[d]
  BY <1>1 DEF IsRank
<1> DEFINE Upto(k, f) == /\ f = [d \in D |-> f[d]]
                         /\ \A d \in D : rank[d] < k => f[d] = DownStep(f, d, fork)
           T == {k \in Nat : \E f : Upto(k, f)}
<1> HIDE DEF D
<1>4. 0 \in T
  <2> DEFINE f == [d \in D |-> {}]
  <2>1. f = [d \in D |-> f[d]]
    OBVIOUS
  <2> HIDE DEF f
  <2> QED
    BY <1>2, <2>1
<1>5. ASSUME NEW k \in T PROVE k + 1 \in T
  <2>1. PICK f : Upto(k, f)
    BY <1>5
  <2> DEFINE h == [d \in D |-> DownStep(f, d, fork)]
  <2>2. ASSUME NEW d \in D, rank[d] < k + 1 PROVE h[d] = DownStep(h, d, fork)
    <3>1. \A c \in D : rank[c] < k => h[c] = f[c]
      BY <2>1
    <3>2. h[d] = DownStep(f, d, fork)
      OBVIOUS
    <3> HIDE DEF h
    <3>3. CASE d = None
      BY <3>2, <3>3 DEF DownStep
    <3>4. CASE d # None
      <4>1. Back(d) \in D /\ rank[Back(d)] < k
        BY <1>2, <1>3, <1>5, <2>2, <3>4
      <4>2. h[Back(d)] = f[Back(d)]
        BY <3>1, <4>1
      <4> QED
        BY <3>2, <4>2, Zenon DEF DownStep
    <3> QED
      BY <3>3, <3>4
  <2>3. h = [d \in D |-> h[d]]
    OBVIOUS
  <2> HIDE DEF h
  <2>4. Upto(k + 1, h)
    BY <2>2, <2>3, Zenon
  <2> QED
    BY <2>4
<1>6. T = Nat
  <2>1. T \subseteq Nat
    OBVIOUS
  <2> HIDE DEF T
  <2> QED
    BY <1>4, <1>5, <2>1, FromZeroOn, Zenon
<1>7. bound + 1 \in T
  BY <1>2, <1>6
<1>8. PICK f : Upto(bound + 1, f)
  BY <1>7
<1>9. \A d \in D : f[d] = DownStep(f, d, fork)
  BY <1>2, <1>8
<1>10. AreLists(f, fork, b)
  BY <1>8, <1>9 DEF AreLists, D
<1>11. \A c : Downto(c, fork, b) = (CHOOSE g : AreLists(g, fork, b))[c]
  BY Zenon DEF Downto, AreLists, DownStep
<1>12. AreLists(CHOOSE g : AreLists(g, fork, b), fork, b)
  BY <1>10, Zenon
<1> QED
  BY <1>11, <1>12, Zenon

\* Where the tip moves, it moves along a branch that leaves the main chain at
\* height f, also when the new header extends the tip.
LEMMA TipMovesAlong ==
    ASSUME IndexInv, NEW b, Insertable(b), Insert(b), tip' # tip
    PROVE  LET n == hgt[Prev(b)] + 1
           IN  /\ tip' = b /\ hgt'[b] = n
               /\ \E f \in 0..height : \E branch \in [f..n -> hashes \cup {b}] :
                     /\ f < n
                     /\ IsBranch(branch, f, b, n)
                     /\ heights' = Reorganized(branch, f, n)
<1> DEFINE n == hgt[Prev(b)] + 1
<1>1. /\ b \in Block /\ b \notin hashes /\ Prev(b) \in hashes /\ n \in Nat
      /\ height \in Nat /\ DOMAIN heights = 0..height
      /\ heights[height] = tip /\ tip \in hashes /\ hgt[tip] = height
  BY EndsStored, SMTT(30) DEF Insertable, IndexInv, IndexType, MainChain
<1>2. Connect(b, n) /\ tip' = b /\ hgt' = [hgt EXCEPT ![b] = n]
  BY DEF Insert, index
<1>3. hgt'[b] = n
  BY <1>1, <1>2, Zenon DEF IndexInv, IndexType
<1>4. CASE /\ Prev(b) = tip
           /\ heights' = [i \in DOMAIN heights \cup {n} |->
                             IF i = n THEN b ELSE heights[i]]
  <2> DEFINE branch == [i \in height..n |-> IF i = n THEN b ELSE tip]
  <2>1. n = height + 1
    BY <1>1, <1>4, Zenon
  <2>2. branch \in [height..n -> hashes \cup {b}]
    <3>1. ASSUME NEW i \in height..n PROVE (IF i = n THEN b ELSE tip) \in hashes \cup {b}
      BY <1>1, ZenonT(40)
    <3> QED
      BY <3>1, Zenon
  <2>3. IsBranch(branch, height, b, n)
    BY <1>1, <1>4, <2>1, SMTT(30) DEF IsBranch
  <2>4. (height + 1)..n = {n} /\ (height + 1)..height = {}
    BY <1>1, <2>1, SMTT(30)
  <2>5. branch[n] = b
    BY <1>1, <2>1
  <2> HIDE DEF branch
  <2>6. heights' = Reorganized(branch, height, n)
    BY <1>4, <2>4, <2>5, Zenon DEF Reorganized
  <2>7. height \in 0..height /\ height < n
    BY <1>1, <2>1
  <2> QED
    BY <1>2, <1>3, <2>2, <2>3, <2>6, <2>7, Zenon
<1>5. CASE \E f \in DOMAIN heights :
             /\ f < n
             /\ \E branch \in [f..n -> hashes \cup {b}] :
                   /\ IsBranch(branch, f, b, n)
                   /\ heights' = Reorganized(branch, f, n)
  BY <1>1, <1>2, <1>3, <1>5, Zenon
<1> QED
  BY <1>2, <1>4, <1>5, Zenon DEF Connect

\* Both chains above the fork, as the loops walk them: from header to header
\* through prev_block, each one level below the one before.
Walks(path, f, m, b, n) ==
    /\ f \in Nat /\ m \in Nat /\ f <= m
    /\ \A i \in f..m :
          path[i] \in hashes \cup {b} /\ Level(path[i], b, n) = i
    /\ \A i \in (f + 1)..m : Back(path[i]) = path[i - 1]
Above(path, f, m) == {path[i] : i \in (f + 1)..m}

LEMMA TipWalks ==
    ASSUME IndexInv, NEW b, Insertable(b), NEW n, NEW f \in 0..height
    PROVE  Walks(heights, f, height, b, n)
<1>1. /\ height \in Nat /\ b \notin hashes
      /\ \A i \in 0..height : heights[i] \in hashes /\ hgt[heights[i]] = i
      /\ \A i \in 1..height : Prev(heights[i]) = heights[i - 1]
  BY Zenon DEF IndexInv, IndexType, MainChain, Insertable
<1>2. ASSUME NEW i \in f..height
      PROVE  heights[i] \in hashes \cup {b} /\ Level(heights[i], b, n) = i
  BY <1>1 DEF Level
<1>3. ASSUME NEW i \in (f + 1)..height PROVE Back(heights[i]) = heights[i - 1]
  <2>1. i \in 1..height /\ i - 1 \in 0..height
    BY <1>1, SMTT(30)
  <2> QED
    BY <1>1, <2>1 DEF Back
<1> QED
  BY <1>1, <1>2, <1>3 DEF Walks

LEMMA BranchWalks ==
    ASSUME IndexInv, NEW b, Insertable(b), NEW n \in Nat, NEW f \in 0..height, f < n,
           NEW branch, IsBranch(branch, f, b, n)
    PROVE  Walks(branch, f, n, b, n)
<1>1. /\ height \in Nat /\ b \notin hashes /\ f \in Nat
      /\ heights[f] \in hashes /\ hgt[heights[f]] = f
  BY Zenon DEF IndexInv, IndexType, MainChain, Insertable
<1>2. /\ branch[f] = heights[f] /\ branch[n] = b
      /\ \A i \in (f + 1)..n :
            /\ Prev(branch[i]) = branch[i - 1]
            /\ i < n => branch[i] \in hashes /\ hgt[branch[i]] = i
  BY SMTT(30) DEF IsBranch
<1>3. ASSUME NEW i \in f..n, i # n PROVE branch[i] \in hashes /\ hgt[branch[i]] = i
  <2>1. CASE i = f
    BY <1>1, <1>2, <2>1, Zenon
  <2>2. CASE i # f
    <3>1. i \in (f + 1)..n /\ i < n
      BY <1>1, <1>3, <2>2
    <3> QED
      BY <1>2, <3>1, Zenon
  <2> QED
    BY <2>1, <2>2, Zenon
<1>4. ASSUME NEW i \in f..n
      PROVE  branch[i] \in hashes \cup {b} /\ Level(branch[i], b, n) = i
  BY <1>1, <1>2, <1>3, Zenon DEF Level
<1>5. ASSUME NEW i \in (f + 1)..n PROVE Back(branch[i]) = branch[i - 1]
  <2>1. i - 1 \in f..n /\ i - 1 # n
    BY <1>1
  <2> QED
    BY <1>2, <1>3, <2>1 DEF Back
<1> QED
  BY <1>1, <1>4, <1>5 DEF Walks

\* hsk_chain_find_fork finds the header where the branch leaves the main chain.
LEMMA ForkFound ==
    ASSUME IndexInv, NEW b, Insertable(b), NEW n \in Nat, NEW f \in 0..height, f < n,
           NEW branch, IsBranch(branch, f, b, n)
    PROVE  FindFork(b, n) = heights[f]
<1>1. /\ Walks(heights, f, height, b, n) /\ Walks(branch, f, n, b, n)
      /\ height \in Nat /\ f \in Nat
      /\ heights[height] = tip /\ branch[n] = b /\ branch[f] = heights[f]
      /\ None \notin hashes \cup {b} /\ b \notin hashes
      /\ DOMAIN heights = 0..height
      /\ \A i \in 0..height : heights[i] \in hashes /\ hgt[heights[i]] = i
  <2>1. Walks(heights, f, height, b, n) /\ Walks(branch, f, n, b, n)
    BY TipWalks, BranchWalks, Zenon
  <2>2. /\ heights[height] = tip /\ DOMAIN heights = 0..height
        /\ \A i \in 0..height : heights[i] \in hashes /\ hgt[heights[i]] = i
    BY Zenon DEF IndexInv, MainChain
  <2>3. height \in Nat /\ f \in Nat
    BY <2>1, Zenon DEF Walks
  <2>4. None \notin hashes \cup {b} /\ b \notin hashes
    BY BlockAssumption DEF IndexInv, IndexType, Insertable
  <2>5. branch[n] = b /\ branch[f] = heights[f]
    BY Zenon DEF IsBranch
  <2> QED
    BY <2>1, <2>2, <2>3, <2>4, <2>5, Zenon
<1>2. PICK g : AreForks(g, b, n) /\ FindFork(b, n) = g[<<tip, b>>]
  BY ForksExist, Zenon
<1> DEFINE Found(i, j) == g[<<heights[i], branch[j]>>] = heights[f]
           T == {k \in Nat : \A i \in f..height, j \in f..n : i + j < k => Found(i, j)}
<1> HIDE DEF Found, T
<1>3. 0 \in T
  <2>1. \A i \in f..height, j \in f..n : ~(i + j < 0)
    BY <1>1
  <2> QED
    BY <2>1, Zenon DEF T
<1>4. ASSUME NEW k \in T PROVE k + 1 \in T
  <2>1. k \in Nat /\ \A i \in f..height, j \in f..n : i + j < k => Found(i, j)
    BY Zenon DEF T
  <2>2. ASSUME NEW i \in f..height, NEW j \in f..n, i + j < k + 1 PROVE Found(i, j)
    <3>1. PICK x, y : x = heights[i] /\ y = branch[j]
      BY Zenon
    <3>2. /\ i \in Nat /\ j \in Nat /\ i \in 0..height /\ f <= j
          /\ x \in hashes /\ hgt[x] = i
      BY <1>1, <3>1
    <3>3. y \in hashes \cup {b} /\ Level(y, b, n) = j
      BY <1>1, <3>1, Zenon DEF Walks
    <3>4. g[<<x, y>>] = ForkStep(g, <<x, y>>, b, n)
      <4>1. <<x, y>> \in Pairs(b)
        BY <3>2, <3>3, Zenon DEF Pairs
      <4> QED
        BY <1>2, <4>1, Zenon DEF AreForks
    <3>5. x # None /\ y # None
      BY <1>1, <3>2, <3>3, Zenon
    <3>6. CASE x = y
      <4>1. i = j
        BY <1>1, <3>2, <3>3, <3>6, Zenon DEF Level
      <4>2. ASSUME i # f PROVE FALSE
        <5>1. i \in (f + 1)..n
          BY <1>1, <3>2, <4>1, <4>2
        <5> QED
          BY <1>1, <3>1, <3>2, <3>6, <4>1, <5>1, ZenonT(40) DEF IsBranch
      <4> QED
        BY <3>1, <3>4, <3>5, <3>6, <4>2, Zenon DEF ForkStep, Found
    <3>7. CASE x # y /\ j > i
      <4>1. /\ j \in (f + 1)..n /\ j - 1 \in f..n /\ i + (j - 1) < k
        BY <1>1, <2>1, <2>2, <3>2, <3>7
      <4>2. Back(y) = branch[j - 1]
        BY <1>1, <3>1, <4>1, Zenon DEF Walks
      <4>3. g[<<x, y>>] = g[<<x, Back(y)>>]
        BY <3>2, <3>3, <3>4, <3>5, <3>7, Zenon DEF ForkStep
      <4>4. Found(i, j - 1)
        BY <2>1, <4>1, Zenon
      <4> QED
        BY <3>1, <4>2, <4>3, <4>4, Zenon DEF Found
    <3>8. CASE x # y /\ ~(j > i)
      <4>1. ASSUME i = f PROVE FALSE
        <5>1. j = f
          BY <1>1, <3>2, <3>8, <4>1, SMTT(30)
        <5> QED
          BY <1>1, <3>1, <3>8, <4>1, <5>1, ZenonT(40)
      <4>2. /\ i \in (f + 1)..height /\ i - 1 \in f..height /\ (i - 1) + j < k
        BY <1>1, <2>1, <2>2, <3>2, <4>1
      <4>3. Back(x) = heights[i - 1]
        BY <1>1, <3>1, <4>2, Zenon DEF Walks
      <4>4. g[<<x, y>>] = g[<<Back(x), y>>]
        BY <3>2, <3>3, <3>4, <3>5, <3>8, Zenon DEF ForkStep
      <4>5. Found(i - 1, j)
        BY <2>1, <4>2, Zenon
      <4> QED
        BY <3>1, <4>3, <4>4, <4>5, Zenon DEF Found
    <3> QED
      BY <3>6, <3>7, <3>8, Zenon
  <2>3. k + 1 \in Nat
    BY <2>1
  <2> QED
    BY <2>2, <2>3, Zenon DEF T
<1>5. T = Nat
  <2>1. T \subseteq Nat
    BY Zenon DEF T
  <2> QED
    BY <1>3, <1>4, <2>1, FromZeroOn, Zenon
<1>6. Found(height, n)
  <2>1. (height + n) + 1 \in T
    BY <1>1, <1>5, SMTT(30)
  <2>2. height \in f..height /\ n \in f..n /\ height + n < (height + n) + 1
    BY <1>1
  <2> QED
    BY <2>1, <2>2, Zenon DEF T
<1> QED
  BY <1>1, <1>2, <1>6, Zenon DEF Found

\* A list of hsk_chain_reorganize holds the headers of the path above the fork.
LEMMA ListFound ==
    ASSUME IndexInv, NEW b, Insertable(b), NEW n, NEW f, NEW m, NEW path,
           Walks(path, f, m, b, n)
    PROVE  Downto(path[m], path[f], b) = Above(path, f, m)
<1>1. /\ f \in Nat /\ m \in Nat /\ f <= m
      /\ \A i \in f..m : path[i] \in hashes \cup {b} /\ Level(path[i], b, n) = i
      /\ \A i \in (f + 1)..m : Back(path[i]) = path[i - 1]
      /\ None \notin hashes \cup {b}
  BY BlockAssumption DEF Walks, IndexInv, IndexType, Insertable
<1>2. PICK g : /\ AreLists(g, path[f], b)
               /\ \A c : Downto(c, path[f], b) = g[c]
  BY ListsExist, Zenon
<1> DEFINE T == {k \in Nat : f + k <= m => g[path[f + k]] = Above(path, f, f + k)}
<1>3. ASSUME NEW k \in f..m
      PROVE  g[path[k]] = IF path[k] = path[f] THEN {} ELSE {path[k]} \cup g[Back(path[k])]
  <2>1. path[k] \in hashes \cup {b, None} /\ path[k] # None
    BY <1>1
  <2>2. g[path[k]] = DownStep(g, path[k], path[f])
    BY <1>2, <2>1 DEF AreLists
  <2> QED
    BY <2>1, <2>2, Zenon DEF DownStep
<1>4. 0 \in T
  <2>1. f \in f..m /\ f + 0 = f /\ (f + 1)..f = {}
    BY <1>1
  <2>2. Above(path, f, f) = {}
    BY <2>1, Zenon DEF Above
  <2> QED
    BY <1>3, <2>1, <2>2, Zenon
<1>5. ASSUME NEW k \in T PROVE k + 1 \in T
  <2>1. SUFFICES ASSUME f + (k + 1) <= m
                 PROVE  g[path[f + (k + 1)]] = Above(path, f, f + (k + 1))
    BY <1>5, SMTT(30)
  <2> DEFINE j == f + (k + 1)
  <2>2. j \in (f + 1)..m /\ j \in f..m /\ j - 1 = f + k /\ f + k <= m /\ f \in f..m /\ j # f
    BY <1>1, <1>5, <2>1, SMTT(30)
  <2>3. path[j] # path[f]
    BY <1>1, <2>2, Zenon
  <2>4. g[path[f + k]] = Above(path, f, f + k)
    BY <1>5, <2>2, Zenon
  <2>5. Back(path[j]) = path[f + k]
    BY <1>1, <2>2, SMTT(30)
  <2>6. g[path[j]] = {path[j]} \cup Above(path, f, f + k)
    BY <1>3, <2>2, <2>3, <2>4, <2>5, ZenonT(40)
  <2>7. (f + 1)..j = ((f + 1)..(f + k)) \cup {j}
    BY <1>1, <1>5, <2>2, SMTT(30)
  <2>8. Above(path, f, j) = {path[j]} \cup Above(path, f, f + k)
    BY <2>7 DEF Above
  <2> QED
    BY <2>6, <2>8, Zenon
<1>6. T = Nat
  <2>1. T \subseteq Nat
    BY Zenon
  <2> HIDE DEF T
  <2> QED
    BY <1>4, <1>5, <2>1, FromZeroOn, Zenon
<1>7. g[path[m]] = Above(path, f, m)
  <2>1. m - f \in T /\ f + (m - f) = m
    <3> HIDE DEF T
    <3> QED
      BY <1>1, <1>6
  <2> QED
    BY <1>1, <2>1
<1> QED
  BY <1>2, <1>7, Zenon

\* What the loops write is the main chain up to the fork, then the branch.
LEMMA LoopsReorganize ==
    ASSUME IndexInv, NEW b, Insertable(b), NEW n \in Nat, NEW f \in 0..height, f < n,
           NEW branch, IsBranch(branch, f, b, n)
    PROVE  Rewritten(b, n) = Reorganized(branch, f, n)
<1> DEFINE fork == FindFork(b, n)
           removed == {hgt[c] : c \in Downto(tip, fork, b)}
           added == Downto(b, fork, b)
<1>1. /\ Walks(heights, f, height, b, n) /\ Walks(branch, f, n, b, n)
      /\ height \in Nat /\ f \in Nat
      /\ heights[height] = tip /\ branch[n] = b /\ branch[f] = heights[f]
      /\ DOMAIN heights = 0..height
      /\ \A i \in 0..height : hgt[heights[i]] = i
  BY TipWalks, BranchWalks DEF IndexInv, IndexType, MainChain, IsBranch
<1>2. fork = heights[f]
  BY ForkFound
<1> HIDE DEF fork, removed, added
<1>3. /\ Downto(tip, fork, b) = {heights[i] : i \in (f + 1)..height}
      /\ added = {branch[i] : i \in (f + 1)..n}
  <2>1. Walks(heights, f, height, b, n) /\ Walks(branch, f, n, b, n)
    BY <1>1, Zenon
  <2>2. Downto(heights[height], heights[f], b) = Above(heights, f, height)
    BY <2>1, ListFound, SMTT(30)
  <2>3. Downto(branch[n], branch[f], b) = Above(branch, f, n)
    BY <2>1, ListFound, SMTT(30)
  <2> QED
    BY <1>1, <1>2, <2>2, <2>3, Zenon DEF Above, added
<1>4. removed = (f + 1)..height
  <2>1. ASSUME NEW i \in (f + 1)..height
        PROVE  heights[i] \in Downto(tip, fork, b) /\ hgt[heights[i]] = i
    <3>1. height \in Nat /\ f \in Nat
      BY <1>1, Zenon
    <3>2. i \in 0..height
      BY <3>1
    <3> QED
      BY <1>1, <1>3, <3>2, Zenon
  <2>2. ASSUME NEW c \in Downto(tip, fork, b) PROVE hgt[c] \in (f + 1)..height
    <3>1. PICK i \in (f + 1)..height : c = heights[i]
      BY <1>3, <2>2, Zenon
    <3> QED
      BY <2>1, <3>1, Zenon
  <2>3. ASSUME NEW x PROVE x \in removed <=> x \in (f + 1)..height
    BY <2>1, <2>2, Zenon DEF removed
  <2> QED
    BY <2>3, Zenon
<1>5. /\ \A i \in (f + 1)..n : branch[i] \in added /\ Level(branch[i], b, n) = i
      /\ \A c \in added : Level(c, b, n) \in (f + 1)..n /\ c = branch[Level(c, b, n)]
  <2>1. \A i \in (f + 1)..n : Level(branch[i], b, n) = i
    BY <1>1 DEF Walks
  <2> QED
    BY <1>3, <2>1, Zenon
<1>6. Rewritten(b, n) =
        [i \in (DOMAIN heights \ removed) \cup {Level(c, b, n) : c \in added} |->
            IF \E c \in added : Level(c, b, n) = i
            THEN CHOOSE c \in added : Level(c, b, n) = i
            ELSE heights[i]]
  BY Zenon DEF Rewritten, fork, removed, added
<1>7. {Level(c, b, n) : c \in added} = (f + 1)..n
  BY <1>5, ZenonT(40)
<1>8. ASSUME NEW i
      PROVE  (IF \E c \in added : Level(c, b, n) = i
              THEN CHOOSE c \in added : Level(c, b, n) = i
              ELSE heights[i])
             = IF i \in (f + 1)..n THEN branch[i] ELSE heights[i]
  <2>1. CASE i \in (f + 1)..n
    <3>1. branch[i] \in added /\ Level(branch[i], b, n) = i
      BY <1>5, <2>1, Zenon
    <3>2. ASSUME NEW c \in added, Level(c, b, n) = i PROVE c = branch[i]
      BY <1>5, <3>2, Zenon
    <3>3. (CHOOSE c \in added : Level(c, b, n) = i) = branch[i]
      BY <3>1, <3>2, ZenonT(40)
    <3> QED
      BY <2>1, <3>1, <3>3, Zenon
  <2>2. CASE i \notin (f + 1)..n
    BY <1>5, <2>2, Zenon
  <2> QED
    BY <2>1, <2>2
<1>9. Rewritten(b, n) =
        [i \in (DOMAIN heights \ ((f + 1)..height)) \cup ((f + 1)..n) |->
            IF i \in (f + 1)..n THEN branch[i] ELSE heights[i]]
  BY <1>4, <1>6, <1>7, <1>8, Zenon
<1> QED
  BY <1>9, ZenonT(40) DEF Reorganized

\* The loops of hsk_chain_reorganize always find the fork, and what they make of
\* the index is the reorganization of module Chain, for every tree of headers
\* and every order of arrival.
THEOREM ReorganizeAsCodedCorrect == Spec => ReorganizeAsCoded
<1> DEFINE AsCoded == tip' # tip => /\ FindFork(tip', hgt'[tip']) \in hashes
                                    /\ heights' = Rewritten(tip', hgt'[tip'])
<1>1. ASSUME ChainInv, [Next]_vars PROVE AsCoded
  <2>1. CASE UNCHANGED index
    BY <2>1, Zenon DEF index
  <2>2. ASSUME NEW b \in Block, Insertable(b), Insert(b), tip' # tip
        PROVE  /\ FindFork(tip', hgt'[tip']) \in hashes
               /\ heights' = Rewritten(tip', hgt'[tip'])
    <3> DEFINE n == hgt[Prev(b)] + 1
    <3>1. IndexInv
      BY <1>1, ChainInvIndex, Zenon
    <3>2. n \in Nat /\ \A i \in 0..height : heights[i] \in hashes
      BY <2>2, <3>1 DEF IndexInv, IndexType, MainChain, Insertable
    <3>3. /\ tip' = b /\ hgt'[b] = n
          /\ \E f \in 0..height : \E branch \in [f..n -> hashes \cup {b}] :
                /\ f < n
                /\ IsBranch(branch, f, b, n)
                /\ heights' = Reorganized(branch, f, n)
      BY <2>2, <3>1, TipMovesAlong, Zenon
    <3> HIDE DEF n
    <3>4. PICK f \in 0..height : \E branch \in [f..n -> hashes \cup {b}] :
                /\ f < n
                /\ IsBranch(branch, f, b, n)
                /\ heights' = Reorganized(branch, f, n)
      BY <3>3, Zenon
    <3>5. PICK branch \in [f..n -> hashes \cup {b}] :
                /\ f < n
                /\ IsBranch(branch, f, b, n)
                /\ heights' = Reorganized(branch, f, n)
      BY <3>4, Zenon
    <3>6. FindFork(b, n) = heights[f]
      BY <2>2, <3>1, <3>2, <3>5, ForkFound, Zenon
    <3>7. Rewritten(b, n) = Reorganized(branch, f, n)
      BY <2>2, <3>1, <3>2, <3>5, LoopsReorganize
    <3> QED
      BY <3>2, <3>3, <3>5, <3>6, <3>7, Zenon
  <2> QED
    BY <1>1, <2>1, <2>2, StepKinds, Zenon
<1>2. ChainInv /\ [Next]_vars => [AsCoded]_vars
  BY <1>1, Zenon
<1> QED
  BY <1>2, ChainCorrect, PTL DEF Spec, ReorganizeAsCoded

----------------------------------------------------------------------------
\* The states of the loop of hsk_chain_get_locator, the one after r, and what
\* is written from r on when g tells what is written from lower ones.
Triples(top) == (0..top) \X (Nat \ {0}) \X Nat
Lower(r) == <<Loc!Down(r[1], r[2], r[3]), Loc!NextStep(r[2], r[3]), r[3] + 1>>
Written(g, r) ==
    IF r[1] <= 0 THEN <<>> ELSE <<Loc!Down(r[1], r[2], r[3])>> \o g[Lower(r)]
IsLoop(g, top) == g = [r \in Triples(top) |-> Written(g, r)]

\* Every iteration goes down.
LEMMA LoopLower ==
    ASSUME NEW top \in Nat, NEW r \in Triples(top), r[1] > 0
    PROVE  /\ Lower(r) \in Triples(top)
           /\ Lower(r)[1] = Loc!Down(r[1], r[2], r[3])
           /\ Lower(r)[2] = Loc!NextStep(r[2], r[3])
           /\ Lower(r)[3] = r[3] + 1
           /\ Lower(r)[1] \in 0..(r[1] - 1)
<1>1. r[1] \in 0..top /\ r[2] \in Nat \ {0} /\ r[3] \in Nat
  BY DEF Triples
<1>2. Loc!Down(r[1], r[2], r[3]) \in 0..(r[1] - 1)
  BY <1>1 DEF Loc!Down
<1>3. Loc!NextStep(r[2], r[3]) \in Nat \ {0}
  BY <1>1 DEF Loc!NextStep
<1>4. Lower(r) \in Triples(top)
  BY <1>1, <1>2, <1>3 DEF Lower, Triples
<1> QED
  BY <1>2, <1>4 DEF Lower

\* So the loop ends, and what it writes is well defined ...
LEMMA LoopExists ==
    ASSUME NEW top \in Nat
    PROVE  \E g : IsLoop(g, top)
<1> DEFINE D == Triples(top)
           Upto(d, g) == /\ g = [r \in D |-> g[r]]
                         /\ \A r \in D : r[1] < d => g[r] = Written(g, r)
           T == {d \in Nat : \E g : Upto(d, g)}
<1>1. 0 \in T
  <2> DEFINE g == [r \in D |-> <<>>]
  <2>1. \A r \in D : r[1] \in Nat
    BY DEF Triples
  <2>2. g = [r \in D |-> g[r]]
    OBVIOUS
  <2> HIDE DEF g, D
  <2> QED
    BY <2>1, <2>2
<1>2. ASSUME NEW d \in T PROVE d + 1 \in T
  <2>1. PICK g : Upto(d, g)
    BY <1>2, Zenon
  <2> DEFINE h == [r \in D |-> Written(g, r)]
  <2>2. ASSUME NEW r \in D, r[1] < d + 1 PROVE h[r] = Written(h, r)
    <3>1. \A q \in D : q[1] < d => h[q] = g[q]
      BY <2>1
    <3>2. r[1] \in Nat /\ d \in Nat
      BY DEF Triples
    <3>3. CASE r[1] <= 0
      BY <3>3, Zenon DEF Written
    <3>4. CASE ~ (r[1] <= 0)
      <4>1. Lower(r) \in D /\ Lower(r)[1] < d
        BY <2>2, <3>2, <3>4, LoopLower, SMTT(30)
      <4>2. h[Lower(r)] = g[Lower(r)]
        <5> HIDE DEF h, D
        <5> QED
          BY <3>1, <4>1
      <4> HIDE DEF h
      <4>3. Written(h, r) = Written(g, r)
        BY <4>2, Zenon DEF Written
      <4> QED
        BY <4>3, Zenon DEF h
    <3> QED
      BY <3>3, <3>4, Zenon
  <2>3. h = [r \in D |-> h[r]]
    OBVIOUS
  <2> HIDE DEF h
  <2>4. Upto(d + 1, h)
    BY <2>2, <2>3
  <2> QED
    BY <2>4
<1>3. T = Nat
  <2>1. T \subseteq Nat
    OBVIOUS
  <2> HIDE DEF T
  <2> QED
    BY <1>1, <1>2, <2>1, FromZeroOn, Zenon
<1>4. top + 1 \in T
  BY <1>3
<1>5. PICK g : Upto(top + 1, g)
  BY <1>4
<1>6. ASSUME NEW r \in D PROVE g[r] = Written(g, r)
  <2>1. r[1] < top + 1
    BY DEF Triples
  <2> QED
    BY <1>5, <2>1
<1>7. g = [r \in D |-> Written(g, r)]
  BY <1>5, <1>6
<1> QED
  BY <1>7 DEF IsLoop

\* ... and is what follows the tip in the locator.
LEMMA LocatorLoop ==
    ASSUME NEW top \in Nat
    PROVE  \E g : IsLoop(g, top) /\ Loc!GetLocator(top) = <<top>> \o g[<<top, 1, 1>>]
<1> DEFINE f == CHOOSE g : g = [r \in Triples(top) |-> Written(g, r)]
<1>1. \E g : g = [r \in Triples(top) |-> Written(g, r)]
  BY LoopExists DEF IsLoop
<1>2. f = [r \in Triples(top) |-> Written(f, r)]
  BY <1>1, Zenon
<1>3. Loc!GetLocator(top) = <<top>> \o f[<<top, 1, 1>>]
  BY SMTT(30) DEF Loc!GetLocator, Triples, Written, Lower
<1> HIDE DEF f
<1> QED
  BY <1>2, <1>3, Zenon DEF IsLoop

\* What the loop writes from r: nothing, or one height and what is written
\* from the next state.
LEMMA LoopStep ==
    ASSUME NEW top \in Nat, NEW g, IsLoop(g, top), NEW r \in Triples(top)
    PROVE  /\ r[1] = 0 => g[r] = <<>>
           /\ r[1] > 0 => g[r] = <<Lower(r)[1]>> \o g[Lower(r)]
<1>1. g[r] = Written(g, r)
  BY DEF IsLoop
<1>2. r[1] \in Nat
  BY DEF Triples
<1> QED
  BY <1>1, <1>2, LoopLower DEF Written

\* The heights s written below height h stay within the chain and end at 0.
EndsAtZero(top, h, s) ==
    /\ s \in Seq(0..top)
    /\ h > 0 => Len(s) > 0 /\ s[Len(s)] = 0

\* One more height on top.
LEMMA EndFurther ==
    ASSUME NEW top \in Nat, NEW d \in 0..top, NEW s, EndsAtZero(top, d, s),
           d = 0 => s = <<>>
    PROVE  /\ <<d>> \o s \in Seq(0..top)
           /\ Len(<<d>> \o s) > 0
           /\ (<<d>> \o s)[Len(<<d>> \o s)] = 0
<1>1. s \in Seq(0..top)
  BY DEF EndsAtZero
<1>2. CASE d = 0
  BY <1>2
<1>3. CASE d > 0
  <2>1. Len(s) > 0 /\ s[Len(s)] = 0
    BY <1>3 DEF EndsAtZero
  <2> QED
    BY <1>1, <2>1
<1> QED
  BY <1>2, <1>3

LEMMA LoopWithin ==
    ASSUME NEW top \in Nat, NEW g, IsLoop(g, top), NEW r \in Triples(top)
    PROVE  EndsAtZero(top, r[1], g[r])
<1> DEFINE D == Triples(top)
           T == {d \in Nat : \A q \in D : q[1] < d => EndsAtZero(top, q[1], g[q])}
<1>1. \A q \in D : q[1] \in 0..top
  BY DEF Triples
<1>2. 0 \in T
  BY <1>1, SMTT(30)
<1>3. ASSUME NEW d \in T PROVE d + 1 \in T
  <2>1. ASSUME NEW q \in D, q[1] < d + 1 PROVE EndsAtZero(top, q[1], g[q])
    <3>1. CASE q[1] = 0
      <4>1. g[q] = <<>>
        BY <3>1, LoopStep, Zenon
      <4> QED
        BY <3>1, <4>1 DEF EndsAtZero
    <3>2. CASE q[1] > 0
      <4>1. /\ Lower(q) \in D /\ Lower(q)[1] \in 0..(q[1] - 1)
            /\ g[q] = <<Lower(q)[1]>> \o g[Lower(q)]
        BY <3>2, LoopLower, LoopStep, ZenonT(40)
      <4>2. Lower(q)[1] \in 0..top /\ Lower(q)[1] < d
        BY <1>1, <2>1, <4>1
      <4>3. EndsAtZero(top, Lower(q)[1], g[Lower(q)])
        BY <4>1, <4>2, Zenon
      <4>4. Lower(q)[1] = 0 => g[Lower(q)] = <<>>
        BY <4>1, LoopStep, Zenon
      <4> DEFINE t == <<Lower(q)[1]>> \o g[Lower(q)]
      <4>5. t \in Seq(0..top) /\ Len(t) > 0 /\ t[Len(t)] = 0
        BY <4>2, <4>3, <4>4, EndFurther, Zenon
      <4>6. g[q] = t
        BY <4>1, Zenon
      <4> HIDE DEF t
      <4> QED
        BY <4>5, <4>6, Zenon DEF EndsAtZero
    <3> QED
      BY <1>1, <3>1, <3>2, SMTT(30)
  <2> QED
    BY <2>1, SMTT(30)
<1>4. T = Nat
  <2>1. T \subseteq Nat
    OBVIOUS
  <2> HIDE DEF T
  <2> QED
    BY <1>2, <1>3, <2>1, FromZeroOn, Zenon
<1>5. top + 1 \in T
  <2> HIDE DEF T
  <2> QED
    BY <1>4
<1> QED
  BY <1>1, <1>5

\* Every locator holds the genesis header.
LEMMA LocatorHasGenesis ==
    ASSUME MainChain, height \in Nat
    PROVE  Genesis \in LocatorNow
<1>1. PICK g : /\ IsLoop(g, height)
               /\ Loc!GetLocator(height) = <<height>> \o g[<<height, 1, 1>>]
  BY LocatorLoop, Zenon
<1> DEFINE s == g[<<height, 1, 1>>]
           t == <<height>> \o s
<1>2. <<height, 1, 1>> \in Triples(height) /\ <<height, 1, 1>>[1] = height
  BY DEF Triples
<1>3. EndsAtZero(height, height, s) /\ (height = 0 => s = <<>>)
  BY <1>1, <1>2, LoopWithin, LoopStep, Zenon
<1> HIDE DEF s
<1>4. t \in Seq(0..height) /\ Len(t) > 0 /\ t[Len(t)] = 0
  <2>1. height \in 0..height
    OBVIOUS
  <2> QED
    BY <1>3, <2>1, EndFurther, Zenon
<1> HIDE DEF t
<1>5. Len(t) \in DOMAIN t /\ t[Len(t)] = 0
  BY <1>4
<1>6. 0 \in Range(t)
  BY <1>5 DEF Range
<1>7. 0 \in Range(Loc!GetLocator(height))
  BY <1>1, <1>6, SMTT(30) DEF t, s
<1>8. heights[0] = Genesis
  BY DEF MainChain
<1> QED
  BY <1>7, <1>8 DEF LocatorNow

\* It holds headers of the main chain.
LEMMA LocatorWithin ==
    ASSUME MainChain, height \in Nat, heights \in [DOMAIN heights -> Block]
    PROVE  LocatorNow \subseteq Block
<1>1. PICK g : /\ IsLoop(g, height)
               /\ Loc!GetLocator(height) = <<height>> \o g[<<height, 1, 1>>]
  BY LocatorLoop, Zenon
<1> DEFINE s == g[<<height, 1, 1>>]
           t == <<height>> \o s
<1>2. <<height, 1, 1>> \in Triples(height)
  BY DEF Triples
<1>3. s \in Seq(0..height)
  BY <1>1, <1>2, LoopWithin, Zenon DEF EndsAtZero
<1> HIDE DEF s
<1>4. t \in Seq(0..height)
  BY <1>3
<1>5. Range(t) \subseteq 0..height
  BY <1>4 DEF Range
<1> QED
  <2>1. Range(Loc!GetLocator(height)) \subseteq 0..height
    BY <1>1, <1>5, Zenon DEF t, s
  <2>2. \A h \in 0..height : heights[h] \in Block
    BY DEF MainChain
  <2> QED
    BY <2>1, <2>2, Zenon DEF LocatorNow

----------------------------------------------------------------------------
\* One step of the recursion of PathTo, and what a path from the genesis header
\* to b is.
PathStep(f, b) == IF Prev(b) \in Block THEN Append(f[Prev(b)], b) ELSE <<b>>
IsPath(s, b) ==
    /\ s \in Seq(Block)
    /\ Len(s) > 0 /\ s[1] = Genesis /\ s[Len(s)] = b
    /\ \A i \in 2..Len(s) : Prev(s[i]) = s[i - 1]

IsDepth(depth) ==
    /\ depth \in [Block -> Nat]
    /\ \A b \in Block \ {Genesis} :
          Prev(b) \in Block /\ depth[b] = depth[Prev(b)] + 1

\* Headers have a depth, bounded by their number.
LEMMA DepthExists == \E depth : IsDepth(depth) /\ \A b \in Block : depth[b] <= Cardinality(Block)
<1>1. Cardinality(Block) \in Nat
  BY BlockAssumption, FS_CardinalityType
<1>2. PICK depth \in [Block -> 0..Cardinality(Block)] :
          \A b \in Block \ {Genesis} :
              Prev(b) \in Block /\ depth[b] = depth[Prev(b)] + 1
  BY TreeAssumption
<1>3. IsDepth(depth) /\ \A b \in Block : depth[b] <= Cardinality(Block)
  BY <1>1, <1>2 DEF IsDepth
<1> QED
  BY <1>3

\* The genesis header has no parent.
LEMMA GenesisFirst == Prev(Genesis) \notin Block
BY BlockAssumption, HeaderAssumption DEF Prev

\* The recursion of PathTo is well founded.
LEMMA PathExists == PathTo = [b \in Block |-> PathStep(PathTo, b)]
<1>1. PICK depth : IsDepth(depth) /\ \A b \in Block : depth[b] <= Cardinality(Block)
  BY DepthExists
<1>2. \A b \in Block : /\ depth[b] \in Nat
                       /\ Prev(b) \in Block => depth[b] = depth[Prev(b)] + 1
  BY <1>1, GenesisFirst, SMTT(30) DEF IsDepth
<1>3. Cardinality(Block) \in Nat
  BY BlockAssumption, FS_CardinalityType
<1> DEFINE Upto(d, f) == /\ f = [b \in Block |-> f[b]]
                         /\ \A b \in Block : depth[b] < d => f[b] = PathStep(f, b)
           T == {d \in Nat : \E f : Upto(d, f)}
<1>4. 0 \in T
  <2> DEFINE f == [b \in Block |-> <<>>]
  <2>1. f = [b \in Block |-> f[b]]
    OBVIOUS
  <2> HIDE DEF f
  <2> QED
    BY <1>2, <2>1
<1>5. ASSUME NEW d \in T PROVE d + 1 \in T
  <2>1. PICK f : Upto(d, f)
    BY <1>5
  <2> DEFINE h == [b \in Block |-> PathStep(f, b)]
  <2>2. ASSUME NEW b \in Block, depth[b] < d + 1 PROVE h[b] = PathStep(h, b)
    <3>1. \A c \in Block : depth[c] < d => h[c] = f[c]
      BY <2>1
    <3>2. Prev(b) \in Block => h[Prev(b)] = f[Prev(b)]
      <4> HIDE DEF h
      <4> QED
        BY <1>2, <2>2, <3>1
    <3> HIDE DEF h
    <3>3. PathStep(h, b) = PathStep(f, b)
      BY <3>2, Zenon DEF PathStep
    <3> QED
      BY <3>3 DEF h
  <2>3. h = [b \in Block |-> h[b]]
    OBVIOUS
  <2> HIDE DEF h
  <2>4. Upto(d + 1, h)
    BY <2>2, <2>3
  <2> QED
    BY <2>4
<1>6. T = Nat
  <2>1. T \subseteq Nat
    OBVIOUS
  <2> HIDE DEF T
  <2> QED
    BY <1>4, <1>5, <2>1, FromZeroOn, Zenon
<1>7. Cardinality(Block) + 1 \in T
  BY <1>3, <1>6, SMTT(30)
<1>8. PICK f : Upto(Cardinality(Block) + 1, f)
  BY <1>7
<1>9. \A b \in Block : f[b] = PathStep(f, b)
  BY <1>1, <1>2, <1>3, <1>8
<1>10. f = [b \in Block |-> PathStep(f, b)]
  BY <1>8, <1>9
<1>11. PathTo = CHOOSE g : g = [b \in Block |-> PathStep(g, b)]
  BY DEF PathTo, PathStep
<1> QED
  BY <1>10, <1>11, Zenon

LEMMA PathsConnect == \A b \in Block : IsPath(PathTo[b], b)
<1>1. PICK depth : IsDepth(depth)
  BY DepthExists
<1> DEFINE T == {d \in Nat : \A b \in Block : depth[b] < d => IsPath(PathTo[b], b)}
<1>2. \A b \in Block : depth[b] \in Nat
  BY <1>1, SMTT(30) DEF IsDepth
<1>3. 0 \in T
  BY <1>2, SMTT(30)
<1>4. ASSUME NEW d \in T PROVE d + 1 \in T
  <2>1. ASSUME NEW b \in Block, depth[b] < d + 1 PROVE IsPath(PathTo[b], b)
    <3>1. PathTo[b] = PathStep(PathTo, b)
      BY PathExists, SMTT(30)
    <3>2. CASE b = Genesis
      <4>1. PathTo[b] = <<b>>
        BY <3>1, <3>2, GenesisFirst, SMTT(30) DEF PathStep
      <4> QED
        BY <3>2, <4>1, BlockAssumption, SMTT(30) DEF IsPath
    <3>3. CASE b # Genesis
      <4> DEFINE s == PathTo[Prev(b)]
                 t == PathTo[b]
      <4>1. Prev(b) \in Block /\ depth[Prev(b)] < d
        BY <1>1, <1>2, <2>1, <3>3, SMTT(30) DEF IsDepth
      <4>2. IsPath(s, Prev(b))
        BY <1>4, <4>1, SMTT(30)
      <4>3. t = Append(s, b)
        BY <3>1, <4>1, SMTT(30) DEF PathStep
      <4> HIDE DEF s, t
      <4>4. s \in Seq(Block) /\ Len(s) \in Nat /\ Len(s) > 0 /\ s[Len(s)] = Prev(b)
        BY <4>2, SMTT(30) DEF IsPath
      <4>5. /\ t \in Seq(Block) /\ Len(t) = Len(s) + 1 /\ t[Len(t)] = b
            /\ \A i \in 1..Len(s) : t[i] = s[i]
        BY <4>3, <4>4, SMTT(30)
      <4>6. ASSUME NEW i \in 2..Len(t) PROVE Prev(t[i]) = t[i - 1]
        <5>1. CASE i = Len(t)
          BY <4>4, <4>5, <5>1, SMTT(30)
        <5>2. CASE i # Len(t)
          <6>1. i \in 2..Len(s) /\ i - 1 \in 1..Len(s) /\ i \in 1..Len(s)
            BY <4>4, <4>5, <5>2, SMTT(30)
          <6> QED
            BY <4>2, <4>5, <6>1, SMTT(30) DEF IsPath
        <5> QED
          BY <5>1, <5>2, SMTT(30)
      <4>7. t[1] = Genesis
        BY <4>2, <4>4, <4>5, SMTT(30) DEF IsPath
      <4>8. IsPath(t, b)
        BY <4>4, <4>5, <4>6, <4>7, SMTT(30) DEF IsPath
      <4> QED
        BY <4>8 DEF t
    <3> QED
      BY <3>2, <3>3
  <2> QED
    BY <2>1, SMTT(30)
<1>5. T = Nat
  <2>1. T \subseteq Nat
    OBVIOUS
  <2> HIDE DEF T
  <2> QED
    BY <1>3, <1>4, <2>1, FromZeroOn, Zenon
<1>6. ASSUME NEW b \in Block PROVE IsPath(PathTo[b], b)
  <2>1. depth[b] + 1 \in T
    BY <1>2, <1>5, SMTT(30)
  <2> QED
    BY <1>2, <2>1, SMTT(30)
<1> QED
  BY <1>6

----------------------------------------------------------------------------
\* Headers that pass every rule, the messages made of them, and the locators
\* that such a message answers.
Acceptable == {b \in Block : ValidHeader(b)}
Message == {m \in Seq(Acceptable) : ValidBatch(m)}
Question == {locator \in SUBSET Block : Genesis \in locator}

\* All peers are honest.
AllHonest == Honest = Peer

\* A peer has a part of its chain, the genesis header included.
Reaches == /\ best \in [Peer -> Block]
           /\ reach \in [Peer -> Nat]
           /\ \A p \in Peer : reach[p] \in 1..Len(PathTo[best[p]])

\* The headers of an honest peer, the genesis header aside, are acceptable.
LEMMA PathAcceptable ==
    ASSUME AllHonest, Reaches, NEW p \in Peer, NEW i \in 2..reach[p]
    PROVE  PathTo[best[p]][i] \in Acceptable
<1> DEFINE s == PathTo[best[p]]
<1>1. IsPath(s, best[p])
  BY PathsConnect, Zenon DEF Reaches
<1>2. ValidHeader(s[i])
  BY Zenon DEF AllHonest, Honest
<1>3. reach[p] \in 1..Len(s)
  BY Zenon DEF Reaches
<1> HIDE DEF s
<1>4. s \in Seq(Block) /\ Len(s) \in Nat /\ i \in DOMAIN s
  BY <1>1, <1>3, SMTT(30) DEF IsPath
<1>5. s[i] \in Acceptable
  BY <1>2, <1>4, SMTT(30) DEF Acceptable
<1> QED
  BY <1>5 DEF s

\* A nonempty set of indices has a greatest one.
LEMMA GreatestOf ==
    ASSUME NEW n \in Nat, NEW S \in SUBSET (1..n), S # {}
    PROVE  Max(S) \in S
<1> DEFINE T == {n - i : i \in S}
<1>1. T \in SUBSET Nat /\ T # {}
  <2>1. \A i \in S : n - i \in Nat
    OBVIOUS
  <2>2. PICK i \in S : TRUE
    BY Zenon
  <2> QED
    BY <2>1, <2>2
<1>2. PICK m \in T : \A k \in T : m <= k
  BY <1>1, LeastOf, Zenon
<1>3. PICK i \in S : m = n - i
  BY <1>2
<1>4. ASSUME NEW j \in S PROVE i >= j
  <2>1. n - j \in T
    OBVIOUS
  <2>2. n - i <= n - j
    BY <1>2, <1>3, <2>1, SMTT(30)
  <2>3. i \in 1..n /\ j \in 1..n
    OBVIOUS
  <2> QED
    BY <2>2, <2>3, SMTT(30)
<1>5. \E x \in S : \A y \in S : x >= y
  BY <1>4, Zenon
<1> QED
  BY <1>5, Zenon DEF Max

LEMMA LesserOf ==
    ASSUME NEW a \in Nat, NEW b \in Nat
    PROVE  Min({a, b}) = IF a <= b THEN a ELSE b
<1> DEFINE c == IF a <= b THEN a ELSE b
<1>1. c \in {a, b} /\ \A y \in {a, b} : c =< y
  OBVIOUS
<1>2. Min({a, b}) \in {a, b} /\ \A y \in {a, b} : Min({a, b}) =< y
  BY <1>1 DEF Min
<1> QED
  BY <1>2

\* What an honest peer answers is a chain of acceptable headers, ...
LEMMA AnswersMessage ==
    ASSUME AllHonest, Reaches, NEW p \in Peer, NEW locator \in Question
    PROVE  Answer(locator, p) \in Message
<1> DEFINE s == PathTo[best[p]]
           r == reach[p]
           S == {i \in 1..r : s[i] \in locator}
           c == Max(S)
           e == Min({r, c + MaxHeaders})
           t == SubSeq(s, c + 1, e)
<1>1. IsPath(s, best[p])
  BY PathsConnect, Zenon DEF Reaches
<1>2. \A i \in 2..r : s[i] \in Acceptable
  BY PathAcceptable
<1>3. Answer(locator, p) = t
  BY DEF Answer
<1>r. r \in 1..Len(s)
  BY Zenon DEF Reaches
<1> HIDE DEF s, r
<1>4. s \in Seq(Block) /\ Len(s) \in Nat /\ r \in Nat /\ r >= 1
  BY <1>1, <1>r, SMTT(30) DEF IsPath
<1>5. S \in SUBSET (1..r) /\ S # {}
  BY <1>1, <1>4 DEF IsPath, Question
<1>6. c \in 1..r
  <2> HIDE DEF S
  <2> QED
    BY <1>4, <1>5, GreatestOf, Zenon
<1> HIDE DEF c
<1>7. e \in c..r
  <2>1. c + MaxHeaders \in Nat /\ c + MaxHeaders >= c
    BY <1>4, <1>6, PeerAssumption, SMTT(30)
  <2>2. e = IF r <= c + MaxHeaders THEN r ELSE c + MaxHeaders
    BY <1>4, <2>1, LesserOf, SMTT(30)
  <2> QED
    BY <1>4, <1>6, <2>1, <2>2, SMTT(30)
<1> HIDE DEF e
<1>e. e \in c..Len(s)
  BY <1>4, <1>6, <1>7, <1>r, SMTT(30)
<1>8. Len(t) = e - c /\ \A i \in 1..(e - c) : t[i] = s[c + i]
  BY <1>4, <1>6, <1>e
<1>9. t \in Seq(Block) /\ DOMAIN t = 1..(e - c)
  BY <1>4, <1>6, <1>e, SMTT(30)
<1> HIDE DEF t
<1>10. ASSUME NEW i \in 1..(e - c)
       PROVE  /\ t[i] \in Acceptable
              /\ i > 1 => Prev(t[i]) = t[i - 1]
  <2>1. c + i \in 2..r /\ c + i \in 2..Len(s) /\ i \in Nat
    BY <1>4, <1>6, <1>7, <1>e, SMTT(30)
  <2>2. t[i] \in Acceptable
    BY <1>2, <1>8, <2>1, SMTT(30)
  <2>3. ASSUME i > 1 PROVE Prev(t[i]) = t[i - 1]
    <3>1. i - 1 \in 1..(e - c) /\ c + (i - 1) = (c + i) - 1
      BY <1>6, <1>7, <2>1, <2>3, SMTT(30)
    <3>2. t[i] = s[c + i] /\ t[i - 1] = s[(c + i) - 1]
      BY <1>8, <3>1
    <3>3. Prev(s[c + i]) = s[(c + i) - 1]
      <4>1. \A j \in 2..Len(s) : Prev(s[j]) = s[j - 1]
        BY <1>1 DEF IsPath
      <4> QED
        BY <2>1, <4>1, Zenon
    <3> QED
      BY <3>2, <3>3
  <2> QED
    BY <2>2, <2>3
<1>11. t \in Seq(Acceptable)
  BY <1>8, <1>9, <1>10, SMTT(30)
<1>12. ValidBatch(t)
  BY <1>9, <1>10 DEF ValidBatch, Acceptable, ValidHeader
<1> QED
  BY <1>3, <1>11, <1>12, SMTT(30) DEF Message

\* ... and so is what it announces.
LEMMA AnnouncesMessage ==
    ASSUME NEW b \in Acceptable
    PROVE  <<b>> \in Message
<1>1. <<b>> \in Seq(Acceptable)
  BY SMTT(30)
<1>2. ValidBatch(<<b>>)
  BY DEF ValidBatch, Acceptable, ValidHeader
<1> QED
  BY <1>1, <1>2, SMTT(30) DEF Message

\* What a node has heard from honest peers.
SyncTypes ==
    /\ state \in [Peer -> {"closed", "HANDSHAKE"}]
    /\ asked \in [Peer -> Seq(Question)]
    /\ inbox \in [Peer -> Seq(Message)]
    /\ sender \in Peer \cup {None}
    /\ batch \in Seq(Acceptable)
    /\ orphans \subseteq Acceptable
HonestInv ==
    /\ ChainInv
    /\ SyncTypes
    /\ sender # None => batch # <<>>
    /\ now = StartTime
    /\ rc \notin {"ETIMETOOOLD", "EBADDIFFBITS", "ETIMETOONEW"}
    /\ banned = {}

\* A peer is asked with a locator that holds the genesis header.
LEMMA AsksQuestion ==
    ASSUME ChainInv, SyncTypes, NEW ps, SendGetHeaders(ps)
    PROVE  asked' \in [Peer -> Seq(Question)]
<1>1. MainChain /\ height \in Nat /\ heights \in [DOMAIN heights -> Block]
  BY DEF ChainInv, TypeOK
<1>2. Genesis \in LocatorNow
  BY <1>1, LocatorHasGenesis
<1>3. LocatorNow \subseteq Block
  BY <1>1, LocatorWithin
<1>4. LocatorNow \in Question
  BY <1>2, <1>3 DEF Question
<1> HIDE DEF Question
<1>5. \A p \in Peer : Append(asked[p], LocatorNow) \in Seq(Question)
  BY <1>4 DEF SyncTypes
<1> QED
  BY <1>5 DEF SendGetHeaders, SyncTypes

\* Acceptable headers, added or resolved, give no error.
LEMMA AddsAcceptable ==
    ASSUME HonestInv, NEW b \in Acceptable, Add(b)
    PROVE  /\ rc' \notin {"ETIMETOOOLD", "EBADDIFFBITS", "ETIMETOONEW"}
           /\ orphans' \subseteq Acceptable
           /\ now' = now
<1>1. /\ b \in Block /\ Header[b].pow = "SUCCESS"
      /\ Header[b].time <= StartTime + FutureDrift /\ InsertCheck(b) = "SUCCESS"
  BY DEF Acceptable, ValidHeader
<1>2. Header[b].time \in Nat /\ now + FutureDrift \in Nat
  <2>1. Header[b].time \in Nat
    BY <1>1, HeaderAssumption
  <2>2. now \in Nat /\ FutureDrift \in Nat
    BY ParameterAssumption, SMTT(30) DEF HonestInv
  <2> QED
    BY <2>1, <2>2
<1>3. AddCheck(b) \in {"EDUPLICATE", "EDUPLICATEORPHAN", "EORPHAN", "SUCCESS"}
  BY <1>1, <1>2, SMTT(30) DEF AddCheck, HonestInv
<1>4. CASE Reject(b)
  BY <1>3, <1>4, SMTT(30) DEF Reject, waiting, HonestInv, SyncTypes
<1>5. CASE AddOrphan(b)
  BY <1>5, SMTT(30) DEF AddOrphan, HonestInv, SyncTypes
<1>6. CASE AddInsert(b)
  BY <1>1, <1>6, Zenon DEF AddInsert, Insert, waiting, HonestInv, SyncTypes
<1> QED
  BY <1>4, <1>5, <1>6, SMTT(30) DEF Add

LEMMA ResolvesAcceptable ==
    ASSUME HonestInv, ResolveOrphan
    PROVE  /\ rc' \notin {"ETIMETOOOLD", "EBADDIFFBITS", "ETIMETOONEW"}
           /\ orphans' \subseteq Acceptable
           /\ now' = now
<1>1. prevs[cursor] \in Acceptable
  BY ResolveInsertable, SMTT(30) DEF HonestInv, SyncTypes
<1>2. InsertCheck(prevs[cursor]) = "SUCCESS"
  BY <1>1, Zenon DEF Acceptable, ValidHeader
<1> QED
  BY <1>2, Zenon DEF ResolveOrphan, Insert, HonestInv, SyncTypes

\* hsk_chain_add of a header of the batch.
LEMMA AddHeaderKeeps ==
    ASSUME HonestInv, AddHeader
    PROVE  HonestInv' /\ UNCHANGED state
<1>1. Head(batch) \in Acceptable /\ Head(batch) \in Block
  <2>1. batch \in Seq(Acceptable) /\ batch # <<>>
    BY DEF AddHeader, HonestInv, SyncTypes
  <2>2. Head(batch) \in Acceptable
    BY <2>1
  <2> QED
    BY <2>2, SMTT(30) DEF Acceptable
<1>2. /\ Next
      /\ rc' \notin {"ETIMETOOOLD", "EBADDIFFBITS", "ETIMETOONEW"}
      /\ orphans' \subseteq Acceptable
      /\ now' = now
  <2>1. CASE Add(Head(batch))
    BY <1>1, <2>1, AddsAcceptable DEF Next
  <2>2. CASE ResolveOrphan
    BY <2>2, ResolvesAcceptable, SMTT(30) DEF Next
  <2>3. CASE EndResolve
    BY <2>3 DEF Next, EndResolve, waiting, HonestInv, SyncTypes
  <2> QED
    BY <2>1, <2>2, <2>3 DEF AddHeader
<1>3. ChainInv'
  BY <1>2, NextInv DEF HonestInv
<1>4. UNCHANGED <<state, banned, asked, inbox, sender, batch>>
  BY DEF AddHeader, net
<1> QED
  BY <1>2, <1>3, <1>4, SMTT(30) DEF HonestInv, SyncTypes

\* hsk_peer_handle_headers after it: nobody is banned or closed.
LEMMA JudgeKeeps ==
    ASSUME HonestInv, Judge
    PROVE  HonestInv' /\ UNCHANGED state
<1>1. /\ ChainInv' /\ UNCHANGED <<now, rc, orphans>>
  BY NextInv, SMTT(30) DEF Judge, chainVars, vars, waiting, HonestInv
<1>2. CASE Idle /\ UNCHANGED net
  BY <1>1, <1>2 DEF Idle, net, HonestInv, SyncTypes
<1>3. ASSUME NEW o, Continue(o) PROVE HonestInv' /\ UNCHANGED state
  <2>1. CASE Len(batch) = 1 /\ EndBatch(o)
    <3>1. asked' \in [Peer -> Seq(Question)]
      BY <2>1, AsksQuestion, SMTT(30) DEF EndBatch, HonestInv
    <3> QED
      BY <1>1, <2>1, <3>1 DEF EndBatch, Idle, HonestInv, SyncTypes
  <2>2. CASE /\ Len(batch) > 1 /\ batch' = Tail(batch)
             /\ UNCHANGED <<net, sender>>
    <3>1. batch' \in Seq(Acceptable) /\ batch' # <<>>
      <4>1. batch \in Seq(Acceptable)
        BY DEF HonestInv, SyncTypes
      <4>2. Tail(batch) \in Seq(Acceptable) /\ Len(Tail(batch)) # 0
        BY <2>2, <4>1
      <4>3. Len(<<>>) = 0
        OBVIOUS
      <4> QED
        BY <2>2, <4>2, <4>3, Zenon
    <3> QED
      BY <1>1, <2>2, <3>1 DEF net, HonestInv, SyncTypes
  <2> QED
    BY <1>3, <2>1, <2>2, SMTT(30) DEF Continue
<1>4. rc \notin BanCodes /\ rc # "ETIMETOONEW"
  BY SMTT(30) DEF HonestInv, BanCodes
<1> QED
  BY <1>2, <1>3, <1>4, Zenon DEF Judge

\* Messages come in whole and are taken one at a time.
LEMMA ReceiveKeeps ==
    ASSUME HonestInv, NEW p \in Peer, Receive(p)
    PROVE  HonestInv' /\ UNCHANGED state
<1>1. /\ ChainInv' /\ UNCHANGED <<now, rc, orphans>>
  BY NextInv, SMTT(30) DEF Receive, chainVars, vars, waiting, HonestInv
<1> DEFINE msg == Head(inbox[p])
<1>2. inbox[p] \in Seq(Message) /\ inbox[p] # <<>>
  BY DEF Receive, HonestInv, SyncTypes
<1>3. msg \in Message /\ Tail(inbox[p]) \in Seq(Message)
  BY <1>2
<1>4. msg \in Seq(Acceptable) /\ ValidBatch(msg)
  BY <1>3, SMTT(30) DEF Message
<1>5. /\ inbox' = [inbox EXCEPT ![p] = Tail(@)]
      /\ UNCHANGED <<state, asked, banned>>
      /\ \/ UNCHANGED handler
         \/ msg # <<>> /\ sender' = p /\ batch' = msg
  BY <1>4, SMTT(30) DEF Receive
<1>6. inbox' \in [Peer -> Seq(Message)]
  BY <1>3, <1>5 DEF HonestInv, SyncTypes
<1> HIDE DEF msg
<1> QED
  BY <1>1, <1>4, <1>5, <1>6, SMTT(30) DEF handler, HonestInv, SyncTypes

\* Only an announcement lengthens the chain of a peer, by one header.
LEMMA ReachesKept ==
    ASSUME Reaches, [SyncNext]_syncVars
    PROVE  Reaches' /\ best' = best /\ \A p \in Peer : reach[p] <= reach'[p]
<1>1. CASE UNCHANGED remote
  <2>1. best' = best /\ reach' = reach
    BY <1>1, Zenon DEF remote
  <2>2. Reaches'
    BY <2>1, Zenon DEF Reaches
  <2>3. \A p \in Peer : reach[p] \in Nat
    BY Zenon DEF Reaches
  <2>4. \A p \in Peer : reach[p] <= reach[p]
    BY <2>3, SMTT(30)
  <2> QED
    BY <2>1, <2>2, <2>4, Zenon
<1>2. ASSUME NEW p \in Peer, PeerAnnounce(p)
      PROVE  Reaches' /\ best' = best /\ \A q \in Peer : reach[q] <= reach'[q]
  <2> DEFINE n == Len(PathTo[best[p]])
  <2>1. /\ best' = best /\ reach[p] < n
        /\ reach' = [reach EXCEPT ![p] = reach[p] + 1]
    BY <1>2, Zenon DEF PeerAnnounce
  <2>2. n \in Nat /\ reach[p] \in 1..n
    <3>1. IsPath(PathTo[best[p]], best[p]) /\ reach[p] \in 1..n
      BY PathsConnect, Zenon DEF Reaches
    <3> DEFINE s == PathTo[best[p]]
    <3> HIDE DEF s
    <3>2. Len(s) \in Nat
      BY <3>1, SMTT(30) DEF s, IsPath
    <3> QED
      BY <3>1, <3>2, Zenon DEF s
  <2> HIDE DEF n
  <2>3. reach[p] + 1 \in Nat /\ reach[p] + 1 \in 1..n /\ reach[p] <= reach[p] + 1
    BY <2>1, <2>2, SMTT(30)
  <2>4. reach' \in [Peer -> Nat] /\ best' \in [Peer -> Block]
    BY <2>1, <2>3, Zenon DEF Reaches
  <2>5. ASSUME NEW q \in Peer
        PROVE  reach'[q] \in 1..Len(PathTo[best'[q]]) /\ reach[q] <= reach'[q]
    <3>1. reach'[q] = IF q = p THEN reach[p] + 1 ELSE reach[q]
      BY <2>1, Zenon DEF Reaches
    <3>2. CASE q = p
      BY <2>1, <2>3, <3>1, <3>2, Zenon DEF n
    <3>3. CASE q # p
      <4>1. reach[q] \in Nat /\ reach[q] \in 1..Len(PathTo[best[q]])
        BY Zenon DEF Reaches
      <4>2. reach[q] <= reach[q]
        BY <4>1, SMTT(30)
      <4> QED
        BY <2>1, <3>1, <3>3, <4>1, <4>2, Zenon
    <3> QED
      BY <3>2, <3>3
  <2> QED
    BY <2>1, <2>4, <2>5, Zenon DEF Reaches
<1>3. ASSUME NEW p \in Peer, Receive(p) PROVE UNCHANGED remote
  BY <1>3, Zenon DEF Receive, Destroy
<1>4. ASSUME Judge PROVE UNCHANGED remote
  <2>1. ASSUME NEW o, Continue(o) PROVE UNCHANGED remote
    BY <2>1, Zenon DEF Continue, EndBatch, net
  <2> QED
    BY <1>4, <2>1, Zenon DEF Judge, Destroy, net
<1>5. ASSUME AddHeader PROVE UNCHANGED remote
  BY <1>5, Zenon DEF AddHeader, net
<1>6. ASSUME UNCHANGED syncVars PROVE UNCHANGED remote
  BY <1>6, Zenon DEF syncVars, net
<1>7. ASSUME NEW p \in Peer, PeerAnswer(p) \/ Handshake(p) PROVE UNCHANGED remote
  BY <1>7, Zenon DEF PeerAnswer, Handshake
<1>8. ASSUME Timer PROVE UNCHANGED remote
  BY <1>8, Zenon DEF Timer
<1> QED
  BY <1>1, <1>2, <1>3, <1>4, <1>5, <1>6, <1>7, <1>8, Zenon DEF SyncNext

\* A peer that is honest was honest before.
LEMMA WasHonest ==
    ASSUME Reaches, [SyncNext]_syncVars, AllHonest'
    PROVE  AllHonest
<1>1. best' = best /\ \A p \in Peer : reach[p] \in Nat /\ reach'[p] \in Nat /\ reach[p] <= reach'[p]
  BY ReachesKept, Zenon DEF Reaches
<1>2. \A p \in Peer : \A i \in 2..reach'[p] : ValidHeader(PathTo[best[p]][i])
  BY <1>1, Zenon DEF AllHonest, Honest
<1>3. \A p \in Peer : \A i \in 2..reach[p] : i \in 2..reach'[p]
  BY <1>1, SMTT(30)
<1>4. \A p \in Peer : \A i \in 2..reach[p] : ValidHeader(PathTo[best[p]][i])
  BY <1>2, <1>3, Zenon
<1> QED
  BY <1>4, Zenon DEF AllHonest, Honest

\* While all peers are honest, every step keeps the invariant, and no step
\* closes a connection.
LEMMA SyncStep ==
    ASSUME AllHonest, Reaches, HonestInv, [SyncNext]_syncVars
    PROVE  /\ AllHonest' => HonestInv'
           /\ banned' = {}
           /\ \A p \in Peer : state[p] # "closed" => state'[p] = state[p]
<1> DEFINE Open == \A p \in Peer : state[p] # "closed" => state'[p] = state[p]
<1>1. ASSUME UNCHANGED chainVars
      PROVE  ChainInv' /\ UNCHANGED <<now, rc, orphans>>
  BY <1>1, NextInv, SMTT(30) DEF chainVars, vars, waiting, HonestInv
<1>2. ASSUME UNCHANGED <<chainVars, state, banned, handler>>,
             asked' \in [Peer -> Seq(Question)], inbox' \in [Peer -> Seq(Message)]
      PROVE  HonestInv' /\ Open
  BY <1>1, <1>2, SMTT(30) DEF handler, HonestInv, SyncTypes
<1>3. ASSUME NEW p \in Peer, PeerAnswer(p) PROVE HonestInv' /\ Open
  <2>1. asked[p] \in Seq(Question) /\ asked[p] # <<>> /\ inbox[p] \in Seq(Message)
    BY <1>3 DEF PeerAnswer, HonestInv, SyncTypes
  <2>2. Head(asked[p]) \in Question /\ Tail(asked[p]) \in Seq(Question)
    BY <2>1
  <2>3. Answer(Head(asked[p]), p) \in Message
    BY <2>2, AnswersMessage, SMTT(30)
  <2>4. Append(inbox[p], Answer(Head(asked[p]), p)) \in Seq(Message)
    BY <2>1, <2>3, SMTT(30)
  <2>5. asked' \in [Peer -> Seq(Question)] /\ inbox' \in [Peer -> Seq(Message)]
    BY <1>3, <2>2, <2>4, SMTT(30) DEF PeerAnswer, HonestInv, SyncTypes
  <2> QED
    BY <1>2, <1>3, <2>5, SMTT(30) DEF PeerAnswer
<1>4. ASSUME NEW p \in Peer, PeerAnnounce(p)
      PROVE  (AllHonest' => HonestInv') /\ UNCHANGED <<state, banned>>
  <2> DEFINE s == PathTo[best[p]]
             k == reach[p] + 1
  <2>1. /\ best' = best /\ reach[p] < Len(s) /\ reach' = [reach EXCEPT ![p] = k]
        /\ inbox' = inbox \/ inbox' = [inbox EXCEPT ![p] = Append(inbox[p], <<s[k]>>)]
        /\ UNCHANGED <<chainVars, state, banned, asked, handler>>
    BY <1>4, Zenon DEF PeerAnnounce
  <2>2. IsPath(s, best[p]) /\ reach[p] \in 1..Len(s) /\ reach \in [Peer -> Nat]
    BY PathsConnect, Zenon DEF Reaches
  <2>3. ASSUME AllHonest' PROVE <<s[k]>> \in Message
    <3>1. reach'[p] = k
      BY <2>1, <2>2, Zenon
    <3>2. \A i \in 2..k : ValidHeader(s[i])
      BY <2>1, <2>3, <3>1, ZenonT(40) DEF AllHonest, Honest
    <3> HIDE DEF s
    <3>3. k \in 2..k /\ s[k] \in Block
      BY <2>1, <2>2, SMTT(30) DEF IsPath
    <3> HIDE DEF k
    <3>4. s[k] \in Acceptable
      BY <3>2, <3>3, Zenon DEF Acceptable
    <3> QED
      BY <3>4, AnnouncesMessage, Zenon
  <2> HIDE DEF s, k
  <2>4. ASSUME AllHonest' PROVE HonestInv'
    <3>1. asked \in [Peer -> Seq(Question)] /\ inbox \in [Peer -> Seq(Message)]
      BY Zenon DEF HonestInv, SyncTypes
    <3>2. Append(inbox[p], <<s[k]>>) \in Seq(Message)
      BY <2>3, <2>4, <3>1, SMTT(30)
    <3>3. inbox' \in [Peer -> Seq(Message)]
      BY <2>1, <3>1, <3>2, Zenon
    <3>4. asked' \in [Peer -> Seq(Question)]
      BY <2>1, <3>1, ZenonT(40)
    <3> QED
      BY <1>2, <2>1, <3>3, <3>4, SMTT(30)
  <2> QED
    BY <2>1, <2>4, Zenon
<1>5. ASSUME NEW p \in Peer, Handshake(p) PROVE HonestInv' /\ Open
  <2>1. asked' \in [Peer -> Seq(Question)]
    BY <1>5, AsksQuestion, SMTT(30) DEF Handshake, HonestInv
  <2>2. /\ state[p] = "closed" /\ state' = [state EXCEPT ![p] = "HANDSHAKE"]
        /\ UNCHANGED <<chainVars, banned, inbox, handler>>
    BY <1>5, SMTT(30) DEF Handshake
  <2>3. state' \in [Peer -> {"closed", "HANDSHAKE"}] /\ Open
    BY <2>2, SMTT(30) DEF HonestInv, SyncTypes
  <2> QED
    BY <1>1, <2>1, <2>2, <2>3, SMTT(30) DEF handler, HonestInv, SyncTypes
<1>6. ASSUME Timer PROVE HonestInv' /\ Open
  <2>1. asked' \in [Peer -> Seq(Question)]
    BY <1>6, AsksQuestion, SMTT(30) DEF Timer, HonestInv
  <2> QED
    BY <1>2, <1>6, <2>1, SMTT(30) DEF Timer, HonestInv, SyncTypes
<1>7. ASSUME UNCHANGED syncVars PROVE HonestInv' /\ Open
  BY <1>2, <1>7, Zenon DEF syncVars, net, HonestInv, SyncTypes
<1> HIDE DEF Open
<1>8. ASSUME UNCHANGED state PROVE Open
  BY <1>8, SMTT(30) DEF Open
<1>9. banned = {} /\ (HonestInv' => banned' = {})
  BY Zenon DEF HonestInv
<1>10. (AllHonest' => HonestInv') /\ banned' = {} /\ Open
  <2>1. ASSUME NEW p \in Peer, PeerAnnounce(p)
        PROVE  (AllHonest' => HonestInv') /\ banned' = {} /\ Open
    BY <1>4, <1>8, <1>9, <2>1, Zenon
  <2>2. CASE AddHeader \/ Judge \/ \E p \in Peer : Receive(p)
    BY <1>8, <1>9, <2>2, AddHeaderKeeps, JudgeKeeps, ReceiveKeeps, Zenon
  <2>3. CASE \/ Timer \/ UNCHANGED syncVars
             \/ \E p \in Peer : PeerAnswer(p) \/ Handshake(p)
    BY <1>3, <1>5, <1>6, <1>7, <1>9, <2>3, Zenon
  <2> QED
    BY <2>1, <2>2, <2>3, Zenon DEF SyncNext
<1> QED
  BY <1>10, Zenon DEF Open

\* As long as all peers are honest, the node bans and disconnects none of them,
\* whatever the tree of their headers, the size of a message and the order in
\* which announcements, answers and orphans of several peers come in.
THEOREM HonestPeersKeptCorrect == SyncSpec => HonestPeersKept
<1> DEFINE SyncInv == Reaches /\ (AllHonest => HonestInv)
<1>1. SyncInit => SyncInv
  <2> SUFFICES ASSUME SyncInit PROVE Reaches /\ HonestInv
    OBVIOUS
  <2>1. ChainInv
    BY InitInv, SMTT(30) DEF SyncInit
  <2>2. Reaches
    <3>1. /\ best \in Following
          /\ reach \in [Peer -> 1..Cardinality(Block)]
          /\ \A p \in Peer : reach[p] <= Len(PathTo[best[p]])
      BY Zenon DEF SyncInit
    <3>2. best \in [Peer -> Block]
      BY <3>1, PeerAssumption, Zenon
    <3>3. ASSUME NEW p \in Peer
          PROVE  reach[p] \in Nat /\ reach[p] \in 1..Len(PathTo[best[p]])
      <4> DEFINE s == PathTo[best[p]]
      <4>1. IsPath(s, best[p]) /\ reach[p] <= Len(s) /\ reach[p] \in 1..Cardinality(Block)
        BY <3>1, <3>2, PathsConnect, Zenon
      <4>2. Cardinality(Block) \in Nat
        BY BlockAssumption, FS_CardinalityType, Zenon
      <4> HIDE DEF s
      <4>3. Len(s) \in Nat
        BY <4>1, SMTT(30) DEF IsPath
      <4>4. reach[p] \in Nat /\ reach[p] \in 1..Len(s)
        BY <4>1, <4>2, <4>3, SMTT(30)
      <4> QED
        BY <4>4, Zenon DEF s
    <3> QED
      BY <3>1, <3>2, <3>3, Zenon DEF Reaches
  <2>3. HonestInv
    <3>1. /\ state = [p \in Peer |-> "closed"] /\ banned = {}
          /\ asked = [p \in Peer |-> <<>>] /\ inbox = [p \in Peer |-> <<>>]
          /\ sender = None /\ batch = <<>>
      BY Zenon DEF SyncInit
    <3>2. orphans = {} /\ rc = "SUCCESS" /\ now = StartTime
      BY Zenon DEF SyncInit, Init
    <3>3. SyncTypes
      BY <3>1, <3>2, SMTT(30) DEF SyncTypes
    <3> QED
      BY <2>1, <3>1, <3>2, <3>3, SMTT(30) DEF HonestInv
  <2> QED
    BY <2>2, <2>3
<1>2. SyncInv /\ [SyncNext]_syncVars => SyncInv'
  BY ReachesKept, WasHonest, SyncStep, Zenon
<1>3. SyncInv /\ [SyncNext]_syncVars =>
          [Honest = Peer =>
              \A p \in Peer : /\ p \notin banned'
                              /\ state[p] # "closed" => state'[p] = state[p]]_syncVars
  <2> SUFFICES ASSUME Reaches, HonestInv, AllHonest, [SyncNext]_syncVars
               PROVE  \A p \in Peer : /\ p \notin banned'
                                      /\ state[p] # "closed" => state'[p] = state[p]
    BY Zenon DEF AllHonest
  <2>1. /\ banned' = {}
        /\ \A p \in Peer : state[p] # "closed" => state'[p] = state[p]
    BY SyncStep, Zenon
  <2> QED
    BY <2>1
<1> HIDE DEF SyncInv
<1> QED
  BY <1>1, <1>2, <1>3, PTL DEF SyncSpec, HonestPeersKept

============================================================================
