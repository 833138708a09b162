----------------------------- MODULE PoolProofs -----------------------------
(***************************************************************************)
(* The pool and its addresses.                                             *)
(*                                                                         *)
(* Who holds a request, and which root answers it, for any number of       *)
(* peers, names and requests.  CompletedOnce counts; the invariant says    *)
(* where a request is instead, which each step changes in one place.       *)
(* NeverStale needs the order of the lists: the newest request of a list   *)
(* has the newest root.                                                    *)
(*                                                                         *)
(* The address manager for any number of addresses and any size of the     *)
(* array: the array of addresses and its index agree, and a proven address *)
(* keeps its entry.  And the clock it works with, for any number of        *)
(* samples: the search keeps them sorted, so the median stands between the *)
(* majority and the rest.                                                  *)
(***************************************************************************)
EXTENDS Pool, AddrMan, FiniteSetTheorems, WellFoundedInduction, TLAPS


-----------------------------------------------------------------------------
(* Sequences.                                                              *)

LEMMA SequenceOf ==
    ASSUME NEW S, NEW n \in Nat, NEW f \in [1..n -> S]
    PROVE  f \in Seq(S)
OBVIOUS

LEMMA SequenceShape ==
    ASSUME NEW S, NEW s \in Seq(S)
    PROVE  Len(s) \in Nat /\ DOMAIN s = 1..Len(s) /\ s \in [1..Len(s) -> S]
OBVIOUS

LEMMA Appended ==
    ASSUME NEW S, NEW s \in Seq(S), NEW e \in S
    PROVE  Append(s, e) \in Seq(S)
OBVIOUS

LEMMA Joined ==
    ASSUME NEW S, NEW s \in Seq(S), NEW t \in Seq(S)
    PROVE  /\ s \o t \in Seq(S) /\ Len(s \o t) = Len(s) + Len(t)
           /\ \A i \in 1..(Len(s) + Len(t)) :
                 (s \o t)[i] = IF i <= Len(s) THEN s[i] ELSE t[i - Len(s)]
<1>1. s \o t \in Seq(S)
  OBVIOUS
<1>2. Len(s \o t) = Len(s) + Len(t)
  OBVIOUS
<1>3. \A i \in 1..(Len(s) + Len(t)) :
         (s \o t)[i] = IF i <= Len(s) THEN s[i] ELSE t[i - Len(s)]
  OBVIOUS
<1> QED
  BY <1>1, <1>2, <1>3

-----------------------------------------------------------------------------
(* The requests.                                                           *)

InList(r, p, n) == r \in Range(names[p][n])
HeldAt(r, p) == \E n \in Name : InList(r, p, n)
Held(r) == \E p \in Peer : HeldAt(r, p)

\* A request is in at most one list.
InOneList(r) ==
    \A p, q \in Peer, n, k \in Name : InList(r, p, n) /\ InList(r, q, k) => p = q /\ n = k

\* Before it reaches the pool a request is nowhere; then it is in one list, or
\* pending, or has completed.
OwnerOf(r) ==
    IF rootOf[r] = None
    THEN done[r] = 0 /\ ~Held(r) /\ r \notin pending /\ r \notin failed
    ELSE r \notin failed =>
            /\ InOneList(r)
            /\ Held(r) => r \notin pending
            /\ done[r] = IF Held(r) \/ r \in pending THEN 0 ELSE 1

\* A list: no request twice, and the newest root first.
ListOK(s, roots) ==
    /\ IsInjective(s)
    /\ \A i \in DOMAIN s : roots[s[i]] <= roots[s[1]]

PoolInv ==
    /\ TypeOK
    /\ \A r \in Req : OwnerOf(r)
    /\ \A p \in Peer, n \in Name : ListOK(names[p][n], rootOf)
    /\ \A r \in Req : rootOf[r] # None => rootOf[r] <= root
    /\ NeverStale

LEMMA AtPeerHeld ==
    ASSUME NEW p \in Peer, NEW r PROVE r \in AtPeer(p) <=> HeldAt(r, p)
BY DEF AtPeer, HeldAt, InList

LEMMA EmptyList == Range(<<>>) = {} /\ \A roots : ListOK(<<>>, roots)
BY DEF Range, ListOK, IsInjective

LEMMA PoolInit == Init => PoolInv
<1> SUFFICES ASSUME Init PROVE PoolInv
    OBVIOUS
<1>1. names = [p \in Peer |-> [n \in Name |-> <<>>]]
    BY DEF Init, NoNames
<1>2. TypeOK
  <2>1. names \in [Peer -> [Name -> Seq(Req)]]
      BY <1>1
  <2>2. wire \in [Peer -> Seq(GetProof)] /\ back \in [Peer -> Seq(Proof)]
      BY DEF Init
  <2> QED  BY <2>1, <2>2 DEF Init, TypeOK
<1>3. \A p \in Peer, n \in Name : names[p][n] = <<>>
    BY <1>1
<1>4. \A r \in Req : ~Held(r)
    BY <1>3, EmptyList DEF Held, HeldAt, InList
<1>5. \A r \in Req : OwnerOf(r)
    BY <1>4 DEF Init, OwnerOf
<1>6. \A p \in Peer, n \in Name : ListOK(names[p][n], rootOf)
    BY <1>3, EmptyList
<1>7. (\A r \in Req : rootOf[r] # None => rootOf[r] <= root) /\ NeverStale
    BY DEF Init, NeverStale
<1> QED  BY <1>2, <1>5, <1>6, <1>7 DEF PoolInv

-----------------------------------------------------------------------------
(* Peers are closed.                                                       *)

LEMMA DestroyStep ==
    ASSUME PoolInv, NEW ps, NEW open, Destroy(ps, open), ps \subseteq Peer,
           UNCHANGED <<root, pending, rootOf, failed, answer>>
    PROVE  PoolInv'
<1>1. /\ names' = [p \in Peer |-> IF p \in ps THEN NoNames ELSE names[p]]
      /\ wire' = [p \in Peer |-> IF p \in ps THEN <<>> ELSE wire[p]]
      /\ back' = [p \in Peer |-> IF p \in ps THEN <<>> ELSE back[p]]
      /\ done' = [r \in Req |-> IF r \in UNION {AtPeer(p) : p \in ps} THEN done[r] + 1
                                ELSE done[r]]
    BY DEF Destroy, CloseAll, Complete
<1>2. TypeOK'
  <2>1. names' \in [Peer -> [Name -> Seq(Req)]]
      BY <1>1 DEF PoolInv, TypeOK, NoNames
  <2>2. wire' \in [Peer -> Seq(GetProof)] /\ back' \in [Peer -> Seq(Proof)]
      BY <1>1 DEF PoolInv, TypeOK
  <2>3. done' \in [Req -> Nat]
      BY <1>1 DEF PoolInv, TypeOK
  <2> QED  BY <2>1, <2>2, <2>3 DEF PoolInv, TypeOK
<1>3. \A p \in Peer, n \in Name :
          names'[p][n] = IF p \in ps THEN <<>> ELSE names[p][n]
    BY <1>1 DEF NoNames
<1>4. \A r \in Req, p \in Peer, n \in Name :
          InList(r, p, n)' <=> p \notin ps /\ InList(r, p, n)
    BY <1>3, EmptyList DEF InList
<1>5. \A r \in Req : Held(r)' <=> \E p \in Peer \ ps : HeldAt(r, p)
    BY <1>4 DEF Held, HeldAt
<1>6. \A r \in Req : r \in UNION {AtPeer(p) : p \in ps} <=> \E p \in ps : HeldAt(r, p)
    BY AtPeerHeld
<1>7. ASSUME NEW r \in Req PROVE OwnerOf(r)'
  <2>1. OwnerOf(r) /\ done[r] \in Nat
      BY DEF PoolInv, TypeOK
  <2>2. done'[r] = IF \E p \in ps : HeldAt(r, p) THEN done[r] + 1 ELSE done[r]
      BY <1>1, <1>6
  <2>3. CASE rootOf[r] = None
      BY <1>5, <2>1, <2>2, <2>3 DEF OwnerOf, Held
  <2>4. CASE rootOf[r] # None /\ r \notin failed
    <3>1. InOneList(r)'
        BY <1>4, <2>1, <2>4 DEF OwnerOf, InOneList
    <3>2. ASSUME NEW p \in ps, HeldAt(r, p) PROVE ~Held(r)' /\ Held(r)
        BY <1>5, <2>1, <2>4, <3>2 DEF OwnerOf, InOneList, HeldAt, Held
    <3>3. ASSUME ~ \E p \in ps : HeldAt(r, p) PROVE Held(r)' <=> Held(r)
        BY <1>5, <3>3 DEF Held
    <3>4. CASE \E p \in ps : HeldAt(r, p)
        BY <2>1, <2>2, <2>4, <3>1, <3>2, <3>4, SMTT(30) DEF OwnerOf
    <3>5. CASE ~ \E p \in ps : HeldAt(r, p)
        BY <2>1, <2>2, <2>4, <3>1, <3>3, <3>5 DEF OwnerOf
    <3> QED  BY <3>4, <3>5
  <2>5. CASE rootOf[r] # None /\ r \in failed
      BY <2>5 DEF OwnerOf
  <2> QED  BY <2>3, <2>4, <2>5
<1>8. \A p \in Peer, n \in Name : ListOK(names'[p][n], rootOf')
    BY <1>3, EmptyList, SMTT(30) DEF PoolInv, ListOK
<1> QED  BY <1>2, <1>7, <1>8 DEF PoolInv, NeverStale

-----------------------------------------------------------------------------
(* A request arrives.                                                      *)

\* The lists that the request does not join keep their order: its root is new,
\* and it is in none of them.
LEMMA OtherListsKept ==
    ASSUME PoolInv, NEW r \in Req, rootOf[r] = None,
           rootOf' = [rootOf EXCEPT ![r] = root],
           NEW p \in Peer, NEW n \in Name
    PROVE  /\ ~InList(r, p, n)
           /\ \A i \in DOMAIN names[p][n] : rootOf'[names[p][n][i]] = rootOf[names[p][n][i]]
           /\ names'[p][n] = names[p][n] => ListOK(names'[p][n], rootOf')
<1>1. ~InList(r, p, n)
    BY DEF PoolInv, OwnerOf, Held, HeldAt
<1>2. names[p][n] \in Seq(Req)
    BY DEF PoolInv, TypeOK
<1>3. \A i \in DOMAIN names[p][n] : names[p][n][i] \in Req /\ names[p][n][i] # r
    BY <1>1, <1>2 DEF InList, Range
<1>4. \A i \in DOMAIN names[p][n] : rootOf'[names[p][n][i]] = rootOf[names[p][n][i]]
    BY <1>3 DEF PoolInv, TypeOK
<1>5. ASSUME names'[p][n] = names[p][n] PROVE ListOK(names'[p][n], rootOf')
  <2>1. \A i \in DOMAIN names[p][n] : 1 \in DOMAIN names[p][n]
      BY <1>2
  <2>2. ListOK(names[p][n], rootOf)
      BY DEF PoolInv
  <2> QED  BY <1>4, <1>5, <2>1, <2>2 DEF ListOK, IsInjective
<1> QED  BY <1>1, <1>4, <1>5

\* The requests other than r are where they were.
LEMMA OthersKept ==
    ASSUME PoolInv, NEW r \in Req, NEW s \in Req \ {r},
           rootOf'[s] = rootOf[s], done'[s] = done[s],
           s \in pending' <=> s \in pending, s \in failed' <=> s \in failed,
           \A p \in Peer, n \in Name : InList(s, p, n)' <=> InList(s, p, n)
    PROVE  OwnerOf(s)'
<1>1. (Held(s)' <=> Held(s)) /\ (InOneList(s)' <=> InOneList(s))
    BY DEF Held, HeldAt, InOneList
<1>2. OwnerOf(s)
    BY DEF PoolInv
<1> QED  BY <1>1, <1>2 DEF OwnerOf

\* hsk_pool_resolve answers with an error, or keeps the request in the list of
\* those that wait for a peer.
LEMMA NoPeerStep == ASSUME PoolInv, NEW r \in Req, Refuse(r) \/ Postpone(r) PROVE PoolInv'
<1>1. /\ rootOf[r] = None /\ rootOf' = [rootOf EXCEPT ![r] = root]
      /\ root' = root /\ names' = names /\ wire' = wire /\ back' = back
      /\ failed' = failed /\ answer' = answer
    BY DEF Refuse, Postpone, peerVars
<1>2. \/ done' = [done EXCEPT ![r] = @ + 1] /\ pending' = pending
      \/ done' = done /\ pending' = pending \cup {r}
  <2>1. CASE Refuse(r)
    <3>1. done' = [s \in Req |-> IF s \in {r} THEN done[s] + 1 ELSE done[s]]
          /\ pending' = pending
        BY <2>1 DEF Refuse, Complete
    <3> QED  BY <3>1, Zenon DEF PoolInv, TypeOK
  <2>2. CASE Postpone(r)
      BY <2>2 DEF Postpone
  <2> QED  BY <2>1, <2>2
<1>3. TypeOK'
  <2>1. rootOf' \in [Req -> Nat \cup {None}]
      BY <1>1 DEF PoolInv, TypeOK
  <2>2. done' \in [Req -> Nat]
      BY <1>2 DEF PoolInv, TypeOK
  <2>3. pending' \subseteq Req
      BY <1>2 DEF PoolInv, TypeOK
  <2> QED  BY <1>1, <2>1, <2>2, <2>3 DEF PoolInv, TypeOK
<1>4. root \in Nat /\ rootOf'[r] = root /\ rootOf'[r] # None
    BY <1>1, PoolAssumption DEF PoolInv, TypeOK
<1>5. \A s \in Req \ {r} : rootOf'[s] = rootOf[s] /\ done'[s] = done[s]
                           /\ (s \in pending' <=> s \in pending)
    BY <1>1, <1>2 DEF PoolInv, TypeOK
<1>6. \A s \in Req, p \in Peer, n \in Name : InList(s, p, n)' <=> InList(s, p, n)
    BY <1>1, Zenon DEF InList
<1>7. \A s \in Req \ {r} : OwnerOf(s)'
    BY <1>1, <1>5, <1>6, OthersKept
<1>8. OwnerOf(r)'
  <2>1. done[r] = 0 /\ ~Held(r) /\ r \notin pending /\ r \notin failed
      BY <1>1 DEF PoolInv, OwnerOf
  <2>2. ~Held(r)' /\ InOneList(r)'
      BY <1>6, <2>1 DEF Held, HeldAt, InOneList
  <2>3. done'[r] = IF r \in pending' THEN 0 ELSE 1
      BY <1>2, <2>1 DEF PoolInv, TypeOK
  <2> QED  BY <1>1, <1>4, <2>1, <2>2, <2>3 DEF OwnerOf
<1>9. \A p \in Peer, n \in Name : ListOK(names'[p][n], rootOf')
    BY <1>1, OtherListsKept, Zenon
<1>10. \A s \in Req : rootOf'[s] # None => rootOf'[s] <= root'
    BY <1>1, <1>4, <1>5, SMTT(30) DEF PoolInv
<1>11. NeverStale'
    BY <1>1, <1>5 DEF PoolInv, NeverStale
<1> QED  BY <1>3, <1>7, <1>8, <1>9, <1>10, <1>11 DEF PoolInv

\* The request joins the list of its name at one peer, as its newest.
LEMMA JoinsList ==
    ASSUME PoolInv, NEW r \in Req, NEW p \in Peer, rootOf[r] = None,
           rootOf' = [rootOf EXCEPT ![r] = root],
           names' = [names EXCEPT ![p][NameOf[r]] = <<r>> \o @],
           root' = root, pending' = pending, answer' = answer,
           wire' \in [Peer -> Seq(GetProof)], back' = back,
           \/ failed' = failed /\ done' = done
           \/ failed' = failed \cup {r} /\ done' = [done EXCEPT ![r] = @ + 1]
    PROVE  PoolInv'
<1> DEFINE m == NameOf[r]
           old == names[p][m]
<1>1. m \in Name /\ old \in Seq(Req) /\ root \in Nat /\ None \notin Nat
  <2>1. m \in Name /\ root \in Nat /\ None \notin Nat
      BY PoolAssumption, Zenon DEF PoolInv, TypeOK
  <2> HIDE DEF m
  <2>2. names[p][m] \in Seq(Req)
      BY <2>1, SMTT(30) DEF PoolInv, TypeOK
  <2> QED  BY <2>1, <2>2
<1>2. /\ <<r>> \o old \in Seq(Req) /\ Len(<<r>> \o old) = Len(old) + 1
      /\ \A i \in 1..(Len(old) + 1) : (<<r>> \o old)[i] = IF i = 1 THEN r ELSE old[i - 1]
      /\ DOMAIN (<<r>> \o old) = 1..(Len(old) + 1)
  <2>1. <<r>> \in Seq(Req) /\ Len(<<r>>) = 1 /\ <<r>>[1] = r /\ Len(old) \in Nat
      BY <1>1, SMTT(30)
  <2> QED  BY <1>1, <2>1, Joined
<1>3. names' \in [Peer -> [Name -> Seq(Req)]]
    BY <1>1, <1>2 DEF PoolInv, TypeOK
<1>4. \A q \in Peer, n \in Name :
          names'[q][n] = IF q = p /\ n = m THEN <<r>> \o old ELSE names[q][n]
    BY <1>1, Zenon DEF PoolInv, TypeOK
<1> HIDE DEF m
<1>5. TypeOK'
  <2>1. rootOf' \in [Req -> Nat \cup {None}]
      BY DEF PoolInv, TypeOK
  <2>2. done' \in [Req -> Nat] /\ failed' \subseteq Req
      BY DEF PoolInv, TypeOK
  <2> QED  BY <1>3, <2>1, <2>2, Zenon DEF PoolInv, TypeOK
<1>6. Range(<<r>> \o old) = Range(old) \cup {r}
  <2>1. DOMAIN old = 1..Len(old) /\ Len(old) \in Nat
      BY <1>1
  <2>2. \A i \in 1..Len(old) : (<<r>> \o old)[i + 1] = old[i] /\ i + 1 \in 1..(Len(old) + 1)
      BY <1>2, <2>1, SMTT(30)
  <2>3. (<<r>> \o old)[1] = r /\ 1 \in 1..(Len(old) + 1)
      BY <1>2, <2>1
  <2>4. \A i \in 2..(Len(old) + 1) : (<<r>> \o old)[i] = old[i - 1] /\ i - 1 \in 1..Len(old)
      BY <1>2, <2>1
  <2>5. 1..(Len(old) + 1) = {1} \cup 2..(Len(old) + 1)
      BY <2>1
  <2>6. ASSUME NEW x \in Range(<<r>> \o old) PROVE x \in Range(old) \cup {r}
      BY <1>2, <2>1, <2>3, <2>4, <2>5, SMTT(30) DEF Range
  <2>7. ASSUME NEW x \in Range(old) PROVE x \in Range(<<r>> \o old)
    <3>1. PICK i \in 1..Len(old) : x = old[i]
        BY <2>1, Zenon DEF Range
    <3>2. i + 1 \in DOMAIN (<<r>> \o old) /\ (<<r>> \o old)[i + 1] = x
        BY <1>2, <2>2, <3>1, Zenon
    <3> QED  BY <3>2 DEF Range
  <2>8. r \in Range(<<r>> \o old)
      BY <1>2, <2>3, Zenon DEF Range
  <2> QED  BY <2>6, <2>7, <2>8
<1>7. \A s \in Req, q \in Peer, n \in Name :
          InList(s, q, n)' <=> InList(s, q, n) \/ (s = r /\ q = p /\ n = m)
    BY <1>4, <1>6 DEF InList
<1>8. \A s \in Req \ {r} : rootOf'[s] = rootOf[s] /\ done'[s] = done[s]
                           /\ (s \in failed' <=> s \in failed)
    BY Zenon DEF PoolInv, TypeOK
<1>9. \A s \in Req \ {r} : OwnerOf(s)'
    BY <1>7, <1>8, OthersKept, Zenon
<1>10. rootOf'[r] = root
    BY Zenon DEF PoolInv, TypeOK
<1>11. OwnerOf(r)'
  <2>1. done[r] = 0 /\ ~Held(r) /\ r \notin pending
      BY DEF PoolInv, OwnerOf
  <2>2. Held(r)' /\ InOneList(r)'
      BY <1>1, <1>7, <2>1 DEF Held, HeldAt, InOneList
  <2>3. r \notin failed' => done'[r] = 0
      BY <2>1, Zenon
  <2> QED  BY <1>1, <1>10, <2>1, <2>2, <2>3, Zenon DEF OwnerOf
<1>12. ListOK(<<r>> \o old, rootOf')
  <2>1. \A i \in DOMAIN old : rootOf'[old[i]] = rootOf[old[i]] /\ old[i] # r /\ old[i] \in Req
    <3>1. /\ ~InList(r, p, m)
          /\ \A i \in DOMAIN names[p][m] : rootOf'[names[p][m][i]] = rootOf[names[p][m][i]]
        BY <1>1, OtherListsKept, ZenonT(30)
    <3>2. \A i \in DOMAIN old : old[i] # r
        BY <3>1 DEF InList, Range
    <3>3. \A i \in DOMAIN old : old[i] \in Req
        BY <1>1
    <3> QED  BY <3>1, <3>2, <3>3
  <2>2. \A i \in DOMAIN old : rootOf[old[i]] # None /\ rootOf[old[i]] <= root
    <3>1. \A i \in DOMAIN old : InList(old[i], p, m)
        BY DEF InList, Range
    <3> QED  BY <1>1, <2>1, <3>1 DEF PoolInv, OwnerOf, Held, HeldAt
  <2>3. DOMAIN old = 1..Len(old) /\ Len(old) \in Nat /\ IsInjective(old)
      BY <1>1 DEF PoolInv, ListOK
  <2>4. IsInjective(<<r>> \o old)
    <3> SUFFICES ASSUME NEW i \in 1..(Len(old) + 1), NEW j \in 1..(Len(old) + 1),
                        (<<r>> \o old)[i] = (<<r>> \o old)[j]
                 PROVE  i = j
        BY <1>2, SMTT(30) DEF IsInjective
    <3>1. \A k \in 1..(Len(old) + 1) : k = 1 \/ k - 1 \in DOMAIN old
        BY <2>3, SMTT(30)
    <3>2. CASE i = 1 \/ j = 1
        BY <1>2, <2>1, <3>1, <3>2, SMTT(30)
    <3>3. CASE i # 1 /\ j # 1
      <4>1. old[i - 1] = old[j - 1] /\ i - 1 \in DOMAIN old /\ j - 1 \in DOMAIN old
          BY <1>2, <3>1, <3>3, Zenon
      <4>2. i - 1 = j - 1
          BY <2>3, <4>1, Zenon DEF IsInjective
      <4> QED  BY <2>3, <4>2
    <3> QED  BY <3>2, <3>3, Zenon
  <2>5. ASSUME NEW i \in DOMAIN (<<r>> \o old)
        PROVE  rootOf'[(<<r>> \o old)[i]] <= rootOf'[(<<r>> \o old)[1]]
    <3>1. (<<r>> \o old)[1] = r
        BY <1>2, <2>3
    <3>2. CASE i = 1
        BY <1>1, <1>10, <3>1, <3>2, SMTT(30)
    <3>3. CASE i # 1
      <4>1. i - 1 \in DOMAIN old /\ (<<r>> \o old)[i] = old[i - 1]
          BY <1>2, <2>3, <3>3
      <4> QED  BY <1>10, <2>1, <2>2, <3>1, <4>1, SMTT(30)
    <3> QED  BY <3>2, <3>3
  <2> QED  BY <2>4, <2>5, Zenon DEF ListOK, IsInjective
<1>13. \A q \in Peer, n \in Name : ListOK(names'[q][n], rootOf')
  <2>1. ASSUME NEW q \in Peer, NEW n \in Name, ~(q = p /\ n = m)
        PROVE  ListOK(names'[q][n], rootOf')
    <3>1. names'[q][n] = names[q][n]
        BY <1>4, <2>1
    <3> QED  BY <3>1, OtherListsKept, Zenon
  <2>2. ListOK(names'[p][m], rootOf')
    <3>1. names'[p][m] = <<r>> \o old
        BY <1>1, <1>4, Zenon
    <3> QED  BY <1>12, <3>1, Zenon
  <2> QED  BY <2>1, <2>2, Zenon
<1>14. \A s \in Req : rootOf'[s] # None => rootOf'[s] <= root'
    BY <1>1, <1>8, <1>10 DEF PoolInv
<1>15. NeverStale'
    BY <1>8, <1>10 DEF PoolInv, NeverStale
<1> QED  BY <1>5, <1>9, <1>11, <1>13, <1>14, <1>15, Zenon DEF PoolInv

\* A getproof that cannot be written closes the peer, after the request joined
\* its list and failed.
LEMMA WriteFailsStep ==
    ASSUME PoolInv, NEW r \in Req, NEW p \in Peer, rootOf[r] = None,
           rootOf' = [rootOf EXCEPT ![r] = root],
           CloseAll({p}, Without({p})),
           done' = [s \in Req |-> IF s = r THEN done[s] + 2
                                  ELSE IF s \in AtPeer(p) THEN done[s] + 1
                                  ELSE done[s]],
           failed' = failed \cup {r}, UNCHANGED <<root, pending, answer>>
    PROVE  PoolInv'
<1>1. /\ names' = [q \in Peer |-> IF q = p THEN NoNames ELSE names[q]]
      /\ wire' = [q \in Peer |-> IF q = p THEN <<>> ELSE wire[q]]
      /\ back' = [q \in Peer |-> IF q = p THEN <<>> ELSE back[q]]
    BY SMTT(30) DEF CloseAll
<1>2. TypeOK'
  <2>1. names' \in [Peer -> [Name -> Seq(Req)]]
      BY <1>1 DEF PoolInv, TypeOK, NoNames
  <2>2. wire' \in [Peer -> Seq(GetProof)] /\ back' \in [Peer -> Seq(Proof)]
      BY <1>1 DEF PoolInv, TypeOK
  <2>3. done' \in [Req -> Nat]
      BY DEF PoolInv, TypeOK
  <2>4. rootOf' \in [Req -> Nat \cup {None}]
      BY Zenon DEF PoolInv, TypeOK
  <2> QED  BY <2>1, <2>2, <2>3, <2>4, SMTT(30) DEF PoolInv, TypeOK
<1>3. \A q \in Peer, n \in Name : names'[q][n] = IF q = p THEN <<>> ELSE names[q][n]
    BY <1>1, Zenon DEF NoNames
<1>4. \A s \in Req, q \in Peer, n \in Name : InList(s, q, n)' <=> q # p /\ InList(s, q, n)
    BY <1>3, EmptyList DEF InList
<1>5. rootOf'[r] = root /\ root \in Nat /\ None \notin Nat
      /\ \A s \in Req \ {r} : rootOf'[s] = rootOf[s]
    BY PoolAssumption, Zenon DEF PoolInv, TypeOK
<1>6. ASSUME NEW s \in Req \ {r} PROVE OwnerOf(s)'
  <2>1. OwnerOf(s) /\ done[s] \in Nat
      BY DEF PoolInv, TypeOK
  <2>2. done'[s] = IF HeldAt(s, p) THEN done[s] + 1 ELSE done[s]
      BY AtPeerHeld, Zenon
  <2>3. Held(s)' <=> \E q \in Peer \ {p} : HeldAt(s, q)
      BY <1>4, Zenon DEF Held, HeldAt
  <2>4. CASE rootOf[s] = None
      BY <1>5, <2>1, <2>2, <2>3, <2>4, Zenon DEF OwnerOf, Held
  <2>5. CASE rootOf[s] # None /\ s \notin failed
    <3>1. InOneList(s)'
        BY <1>4, <2>1, <2>5, Zenon DEF OwnerOf, InOneList
    <3>2. HeldAt(s, p) => ~Held(s)' /\ Held(s)
        BY <2>1, <2>3, <2>5, Zenon DEF OwnerOf, InOneList, HeldAt, Held
    <3>3. ~HeldAt(s, p) => (Held(s)' <=> Held(s))
        BY <2>3, Zenon DEF Held
    <3>4. CASE HeldAt(s, p)
        BY <1>5, <2>1, <2>2, <2>5, <3>1, <3>2, <3>4, SMTT(30) DEF OwnerOf
    <3>5. CASE ~HeldAt(s, p)
        BY <1>5, <2>1, <2>2, <2>5, <3>1, <3>3, <3>5, Zenon DEF OwnerOf
    <3> QED  BY <3>4, <3>5, Zenon
  <2>6. CASE rootOf[s] # None /\ s \in failed
      BY <1>5, <2>6, Zenon DEF OwnerOf
  <2> QED  BY <2>4, <2>5, <2>6, Zenon
<1>7. OwnerOf(r)'
    BY <1>5, Zenon DEF OwnerOf
<1>8. ASSUME NEW q \in Peer, NEW n \in Name PROVE ListOK(names'[q][n], rootOf')
  <2>1. CASE q = p
    <3>1. names'[q][n] = <<>>
        BY <1>3, <2>1
    <3> QED  BY <3>1, EmptyList, Zenon
  <2>2. CASE q # p
    <3>1. names'[q][n] = names[q][n]
        BY <1>3, <2>2, Zenon
    <3> QED  BY <3>1, OtherListsKept, Zenon
  <2> QED  BY <2>1, <2>2
<1>9. \A s \in Req : rootOf'[s] # None => rootOf'[s] <= root'
    BY <1>5, SMTT(30) DEF PoolInv
<1>10. NeverStale'
    BY <1>5 DEF PoolInv, NeverStale
<1> QED  BY <1>2, <1>6, <1>7, <1>8, <1>9, <1>10, Zenon DEF PoolInv

-----------------------------------------------------------------------------
(* A proof arrives.                                                        *)

\* An accepted proof completes the list of its name, whose requests are all at
\* most as new as the first, with which the proof was compared.
LEMMA ProofStep ==
    ASSUME PoolInv, NEW p \in Peer, NEW m \in Proof, Accepted(p, m),
           names' = [names EXCEPT ![p][m.name] = <<>>],
           back' = [back EXCEPT ![p] = Tail(@)], back[p] # <<>>, wire' = wire,
           Complete(Range(names[p][m.name])),
           answer' = [r \in Req |-> IF r \in Range(names[p][m.name]) THEN m.root
                                    ELSE answer[r]],
           UNCHANGED <<root, pending, rootOf, failed>>
    PROVE  PoolInv'
<1> DEFINE k == m.name
           old == names[p][k]
<1>1. k \in Name /\ old \in Seq(Req) /\ m.root \in Nat /\ old # <<>>
    BY DEF PoolInv, TypeOK, Proof, Accepted
<1>2. /\ done' = [r \in Req |-> IF r \in Range(old) THEN done[r] + 1 ELSE done[r]]
      /\ answer' = [r \in Req |-> IF r \in Range(old) THEN m.root ELSE answer[r]]
    BY Zenon DEF Complete
<1>3. \A q \in Peer, n \in Name :
          names'[q][n] = IF q = p /\ n = k THEN <<>> ELSE names[q][n]
    BY <1>1, Zenon DEF PoolInv, TypeOK
<1>4. TypeOK'
  <2>1. names' \in [Peer -> [Name -> Seq(Req)]]
      BY <1>1 DEF PoolInv, TypeOK
  <2>2. back' \in [Peer -> Seq(Proof)]
      BY DEF PoolInv, TypeOK
  <2>3. done' \in [Req -> Nat]
      BY <1>2 DEF PoolInv, TypeOK
  <2>4. answer' \in [Req -> Nat \cup {None}]
      BY <1>1, <1>2, Zenon DEF PoolInv, TypeOK
  <2> QED  BY <2>1, <2>2, <2>3, <2>4, Zenon DEF PoolInv, TypeOK
<1> HIDE DEF k
<1>5. \A r \in Req, q \in Peer, n \in Name :
          InList(r, q, n)' <=> InList(r, q, n) /\ ~(q = p /\ n = k)
    BY <1>3, EmptyList DEF InList
<1>6. ASSUME NEW r \in Req PROVE OwnerOf(r)'
  <2>1. OwnerOf(r) /\ done[r] \in Nat
      BY DEF PoolInv, TypeOK
  <2>2. done'[r] = IF InList(r, p, k) THEN done[r] + 1 ELSE done[r]
      BY <1>2 DEF InList
  <2>3. Held(r)' <=> \E q \in Peer, n \in Name : InList(r, q, n) /\ ~(q = p /\ n = k)
      BY <1>5, Zenon DEF Held, HeldAt
  <2>4. CASE rootOf[r] = None
      BY <1>1, <2>1, <2>2, <2>3, <2>4 DEF OwnerOf, Held, HeldAt
  <2>5. CASE rootOf[r] # None /\ r \notin failed
    <3>1. InOneList(r)'
        BY <1>5, <2>1, <2>5 DEF OwnerOf, InOneList
    <3>2. InList(r, p, k) => ~Held(r)' /\ Held(r)
        BY <1>1, <2>1, <2>3, <2>5, Zenon DEF OwnerOf, InOneList, HeldAt, Held
    <3>3. ~InList(r, p, k) => (Held(r)' <=> Held(r))
        BY <2>3, Zenon DEF Held, HeldAt
    <3>4. CASE InList(r, p, k)
        BY <2>1, <2>2, <2>5, <3>1, <3>2, <3>4 DEF OwnerOf
    <3>5. CASE ~InList(r, p, k)
        BY <2>1, <2>2, <2>5, <3>1, <3>3, <3>5, Zenon DEF OwnerOf
    <3> QED  BY <3>4, <3>5, Zenon
  <2>6. CASE rootOf[r] # None /\ r \in failed
      BY <2>6 DEF OwnerOf
  <2> QED  BY <2>4, <2>5, <2>6, Zenon
<1>7. ASSUME NEW q \in Peer, NEW n \in Name PROVE ListOK(names'[q][n], rootOf')
  <2>1. names'[q][n] = <<>> \/ names'[q][n] = names[q][n]
      BY <1>3
  <2>2. ListOK(names[q][n], rootOf')
      BY DEF PoolInv
  <2> QED  BY <2>1, <2>2, EmptyList
<1>8. NeverStale'
  <2>1. ASSUME NEW r \in Range(old) PROVE rootOf[r] # None /\ rootOf[r] <= m.root
    <3>1. PICK i \in DOMAIN old : r = old[i]
        BY DEF Range
    <3>2. rootOf[old[i]] <= rootOf[old[1]]
        BY <1>1, SMTT(30) DEF PoolInv, ListOK
    <3>3. rootOf[old[1]] = m.root
        BY <1>1 DEF Accepted, RootMatches, k
    <3>4. r \in Req /\ InList(r, p, k)
        BY <1>1, <3>1 DEF InList
    <3>5. rootOf[r] # None
        BY <1>1, <3>4 DEF PoolInv, OwnerOf, Held, HeldAt
    <3> QED  BY <3>1, <3>2, <3>3, <3>5, SMTT(30)
  <2>2. ASSUME NEW r \in Req, answer'[r] # None
        PROVE  rootOf[r] # None /\ answer'[r] >= rootOf[r]
    <3>1. CASE r \in Range(old)
      <4>1. answer'[r] = m.root /\ rootOf[r] # None /\ rootOf[r] <= m.root
          BY <1>2, <2>1, <3>1, Zenon
      <4>2. rootOf[r] \in Nat
          BY <4>1, Zenon DEF PoolInv, TypeOK
      <4> QED  BY <1>1, <4>1, <4>2, Zenon
    <3>2. CASE r \notin Range(old)
        BY <1>2, <2>2, <3>2, Zenon DEF PoolInv, NeverStale
    <3> QED  BY <3>1, <3>2, Zenon
  <2> QED  BY <2>2, SMTT(30) DEF NeverStale
<1> QED  BY <1>4, <1>6, <1>7, <1>8, Zenon DEF PoolInv

\* Only messages on the wire change, or nothing that the invariant is about.
LEMMA QuietStep ==
    ASSUME PoolInv, wire' \in [Peer -> Seq(GetProof)], back' \in [Peer -> Seq(Proof)],
           root' \in Nat, root' >= root,
           UNCHANGED <<names, pending, rootOf, failed, done, answer>>
    PROVE  PoolInv'
<1>1. TypeOK'
    BY Zenon DEF PoolInv, TypeOK
<1>2. \A r \in Req : OwnerOf(r)'
    BY DEF PoolInv, OwnerOf, Held, HeldAt, InOneList, InList
<1>3. \A r \in Req : rootOf'[r] # None => rootOf'[r] <= root'
  <2>1. \A r \in Req : rootOf[r] # None => rootOf[r] \in Nat /\ rootOf[r] <= root
      BY DEF PoolInv, TypeOK
  <2> QED  BY <2>1 DEF PoolInv, TypeOK
<1> QED  BY <1>1, <1>2, <1>3, Zenon DEF PoolInv, NeverStale

-----------------------------------------------------------------------------
(* The steps together.                                                     *)

LEMMA ArrivalStep ==
    ASSUME PoolInv, NEW r \in Req, NEW p \in Peer,
           Coalesce(r, p) \/ Request(r, p) \/ RequestFails(r, p)
    PROVE  PoolInv'
<1> DEFINE m == NameOf[r]
<1>1. ASSUME names[p][m] = <<>>
      PROVE  [names EXCEPT ![p][m] = <<r>>] = [names EXCEPT ![p][m] = <<r>> \o @]
  <2>1. <<r>> \o <<>> = <<r>>
      OBVIOUS
  <2> QED  BY <1>1, <2>1
<1>2. wire \in [Peer -> Seq(GetProof)] /\ m \in Name /\ root \in Nat
    BY PoolAssumption DEF PoolInv, TypeOK
<1>3. CASE Coalesce(r, p)
    BY <1>2, <1>3, JoinsList, Zenon DEF Coalesce
<1>4. CASE Request(r, p)
  <2>1. wire' \in [Peer -> Seq(GetProof)]
    <3>1. [name |-> m, root |-> root] \in GetProof
        BY <1>2, Zenon DEF GetProof
    <3>2. \/ wire' = wire
          \/ wire' = [wire EXCEPT ![p] = Append(@, [name |-> m, root |-> root])]
        BY <1>4 DEF Request
    <3>3. Append(wire[p], [name |-> m, root |-> root]) \in Seq(GetProof)
        BY <1>2, <3>1, Appended, Zenon
    <3> QED  BY <1>2, <3>2, <3>3, Zenon
  <2>2. names' = [names EXCEPT ![p][NameOf[r]] = <<r>> \o @]
      BY <1>1, <1>4, Zenon DEF Request
  <2>3. /\ rootOf[r] = None /\ rootOf' = [rootOf EXCEPT ![r] = root] /\ root' = root
        /\ pending' = pending /\ answer' = answer /\ back' = back
        /\ failed' = failed /\ done' = done
      BY <1>4, Zenon DEF Request
  <2> QED  BY <2>1, <2>2, <2>3, JoinsList, Zenon
<1>5. CASE RequestFails(r, p)
  <2>1. /\ rootOf[r] = None /\ rootOf' = [rootOf EXCEPT ![r] = root] /\ root' = root
        /\ pending' = pending /\ answer' = answer /\ failed' = failed \cup {r}
        /\ names[p][m] = <<>>
      BY <1>5 DEF RequestFails
  <2>2. CASE /\ names' = [names EXCEPT ![p][NameOf[r]] = <<r>>]
             /\ Complete({r})
             /\ UNCHANGED <<list, state, proofs, late, wire, back>>
    <3>1. names' = [names EXCEPT ![p][NameOf[r]] = <<r>> \o @]
        BY <1>1, <2>1, <2>2
    <3>2. done' = [done EXCEPT ![r] = @ + 1]
        BY <2>2, Zenon DEF Complete, PoolInv, TypeOK
    <3>3. wire' \in [Peer -> Seq(GetProof)] /\ back' = back
        BY <1>2, <2>2
    <3> QED  BY <2>1, <3>1, <3>2, <3>3, JoinsList, Zenon
  <2>3. CASE /\ CloseAll({p}, Without({p}))
             /\ done' = [s \in Req |-> IF s = r THEN done[s] + 2
                                       ELSE IF s \in AtPeer(p) THEN done[s] + 1
                                       ELSE done[s]]
    <3>1. UNCHANGED <<root, pending, answer>>
        BY <2>1, Zenon
    <3> QED  BY <2>1, <2>3, <3>1, WriteFailsStep, Zenon
  <2> QED  BY <1>5, <2>2, <2>3, Zenon DEF RequestFails
<1> QED  BY <1>3, <1>4, <1>5

LEMMA PeerProvesStep == ASSUME PoolInv, NEW p \in Peer, PeerProves(p) PROVE PoolInv'
<1>1. /\ wire \in [Peer -> Seq(GetProof)] /\ back \in [Peer -> Seq(Proof)] /\ root \in Nat
    BY ZenonT(40) DEF PoolInv, TypeOK
<1>2. UNCHANGED <<root, names, pending, rootOf, failed, done, answer>>
    BY DEF PeerProves, reqVars
<1>3. CASE /\ wire[p] # <<>>
           /\ wire' = [wire EXCEPT ![p] = Tail(@)]
           /\ back' = [back EXCEPT ![p] = <<[name |-> Head(wire[p]).name,
                                             root |-> Head(wire[p]).root,
                                             valid |-> TRUE]>>]
  <2>1. Head(wire[p]) \in GetProof /\ Tail(wire[p]) \in Seq(GetProof)
      BY <1>1, <1>3
  <2>2. [name |-> Head(wire[p]).name, root |-> Head(wire[p]).root, valid |-> TRUE] \in Proof
      BY <2>1, Zenon DEF GetProof, Proof
  <2>3. wire' \in [Peer -> Seq(GetProof)]
      BY <1>1, <1>3, <2>1, Zenon
  <2>4. back' \in [Peer -> Seq(Proof)]
      BY <1>1, <1>3, <2>2
  <2> QED  BY <1>1, <1>2, <2>3, <2>4, QuietStep, SMTT(30)
<1>4. CASE /\ \E m \in [name : Name, root : 0..root, valid : BOOLEAN] :
                 back' = [back EXCEPT ![p] = <<m>>]
           /\ UNCHANGED wire
  <2>1. PICK m \in [name : Name, root : 0..root, valid : BOOLEAN] :
            back' = [back EXCEPT ![p] = <<m>>]
      BY <1>4, Zenon
  <2>2. m \in Proof
      BY <1>1 DEF Proof
  <2>3. back' \in [Peer -> Seq(Proof)] /\ wire' \in [Peer -> Seq(GetProof)]
      BY <1>1, <1>4, <2>1, <2>2
  <2> QED  BY <1>1, <1>2, <2>3, QuietStep
<1> QED  BY <1>3, <1>4 DEF PeerProves

LEMMA PoolNext == PoolInv /\ [Next]_vars => PoolInv'
<1> SUFFICES ASSUME PoolInv, [Next]_vars PROVE PoolInv'
    OBVIOUS
<1>1. /\ wire \in [Peer -> Seq(GetProof)] /\ back \in [Peer -> Seq(Proof)] /\ root \in Nat
    BY DEF PoolInv, TypeOK
<1>2. ASSUME NEW p \in Peer, Drop(p), UNCHANGED <<root, pending, rootOf, failed, answer>>
      PROVE  PoolInv'
    BY <1>2, DestroyStep DEF Drop
<1>3. ASSUME NEW p \in Peer, Disconnect(p) PROVE PoolInv'
    BY <1>2, <1>3, Zenon DEF Disconnect
<1>4. ASSUME NEW p \in Peer, OnConnect(p) PROVE PoolInv'
  <2>1. CASE Drop(p)
      BY <1>2, <1>4, <2>1, Zenon DEF OnConnect
  <2>2. CASE UNCHANGED <<list, proofs, names, late, wire, back, done>>
      BY <1>1, <1>4, <2>2, QuietStep DEF OnConnect
  <2> QED  BY <1>4, <2>1, <2>2, Zenon DEF OnConnect
<1>5. ASSUME NEW p \in Peer, AfterBrontideConnect(p) PROVE PoolInv'
    BY <1>1, <1>5, QuietStep DEF AfterBrontideConnect, reqVars
<1>6. ASSUME NEW p \in Peer, HandleProof(p) PROVE PoolInv'
  <2> DEFINE m == Head(back[p])
  <2>1. m \in Proof /\ back[p] # <<>>
      BY <1>1, <1>6, SMTT(30) DEF HandleProof
  <2>2. CASE ~Accepted(p, m) /\ Drop(p) /\ UNCHANGED answer
      BY <1>2, <1>6, <2>2 DEF HandleProof
  <2>3. CASE Accepted(p, m) /\ ~(~Accepted(p, m) /\ Drop(p) /\ UNCHANGED answer)
    <3>1. /\ names' = [names EXCEPT ![p][m.name] = <<>>]
          /\ back' = [back EXCEPT ![p] = Tail(@)]
          /\ Complete(Range(names[p][m.name]))
          /\ answer' = [r \in Req |-> IF r \in Range(names[p][m.name]) THEN m.root
                                      ELSE answer[r]]
          /\ wire' = wire
          /\ UNCHANGED <<root, pending, rootOf, failed>>
        BY <1>6, <2>3, Zenon DEF HandleProof
    <3> HIDE DEF m
    <3> QED  BY <2>1, <2>3, <3>1, ProofStep, Zenon
  <2> QED  BY <1>6, <2>2, <2>3, Zenon DEF HandleProof
<1>7. CASE Timer
  <2>1. PICK open \in Refilled(Without(Overdue)) : Destroy(Overdue, open)
      BY <1>7, Zenon DEF Timer
  <2>2. Overdue \subseteq Peer
      BY Zenon DEF Overdue, Active
  <2> QED  BY <1>7, <2>1, <2>2, DestroyStep, Zenon DEF Timer
<1>8. CASE TimePasses \/ ChainSynced
    BY <1>1, <1>8, QuietStep DEF TimePasses, ChainSynced, peerVars, reqVars
<1>9. CASE NewRoot
    BY <1>1, <1>9, QuietStep DEF NewRoot, peerVars, reqVars
<1>10. CASE UNCHANGED vars
    BY <1>1, <1>10, QuietStep DEF vars, peerVars, reqVars
<1> QED  BY <1>3, <1>4, <1>5, <1>6, <1>7, <1>8, <1>9, <1>10, NoPeerStep, ArrivalStep,
            PeerProvesStep, Zenon DEF Next

LEMMA PoolInvariant == Spec => []PoolInv
BY PoolInit, PoolNext, PTL DEF Spec

-----------------------------------------------------------------------------
(* The theorems.                                                           *)

\* A request is counted once: by the list that holds it, by the pending list,
\* or by its completion.
LEMMA CountsOne ==
    ASSUME PoolInv, NEW r \in Req \ failed, rootOf[r] # None
    PROVE  done[r] + Cardinality(Holders(r)) + Cardinality({r} \cap pending) = 1
<1>1. OwnerOf(r) /\ done[r] \in Nat
    BY Zenon DEF PoolInv, TypeOK
<1>2. /\ InOneList(r) /\ (Held(r) => r \notin pending)
      /\ done[r] = IF Held(r) \/ r \in pending THEN 0 ELSE 1
    BY <1>1, Zenon DEF OwnerOf
<1>3. CASE Held(r)
  <2>1. PICK p \in Peer, n \in Name : InList(r, p, n)
      BY <1>3, Zenon DEF Held, HeldAt
  <2>2. Holders(r) = {<<p, n>>}
      BY <1>2, <2>1, SMTT(30) DEF Holders, InOneList, InList
  <2>3. {r} \cap pending = {}
      BY <1>2, <1>3
  <2>4. Cardinality({<<p, n>>}) = 1 /\ Cardinality({}) = 0
      BY FS_Singleton, FS_EmptySet, Zenon
  <2> QED  BY <1>2, <1>3, <2>2, <2>3, <2>4
<1>4. CASE ~Held(r)
  <2>1. Holders(r) = {}
      BY <1>4 DEF Holders, Held, HeldAt, InList
  <2>2. Cardinality({r}) = 1 /\ Cardinality({}) = 0
      BY FS_Singleton, FS_EmptySet, Zenon
  <2>3. CASE r \in pending
    <3>1. {r} \cap pending = {r}
        BY <2>3, Zenon
    <3> QED  BY <1>2, <2>1, <2>2, <2>3, <3>1
  <2>4. CASE r \notin pending
    <3>1. {r} \cap pending = {}
        BY <2>4
    <3> QED  BY <1>2, <1>4, <2>1, <2>2, <2>4, <3>1
  <2> QED  BY <2>3, <2>4, Zenon
<1> QED  BY <1>3, <1>4, Zenon

\* However requests are coalesced, and whichever peers come, answer, stall and
\* go, the pool calls ns.c back at most once for a request whose getproof could
\* be sent, and never loses it from its lists before that.
THEOREM RequestsCompleteOnce == Spec => []CompletedOnce
<1>1. PoolInv => CompletedOnce
    BY CountsOne DEF PoolInv, ListOK, CompletedOnce
<1> QED  BY <1>1, PoolInvariant, PTL

\* hsk_peer_handle_proof completes a request only with a proof under a root that
\* is at least as new as the one the request was made under.
THEOREM AnswersNeverStale == Spec => []NeverStale
<1>1. PoolInv => NeverStale
    BY DEF PoolInv
<1> QED  BY <1>1, PoolInvariant, PTL


-----------------------------------------------------------------------------
(* The addresses.                                                          *)

Field == {"addr", "time", "attempts", "last_success", "last_attempt", "ref_count",
          "used", "removed"}

IsEntry(e) ==
    /\ DOMAIN e = Field
    /\ e.addr \in Addr
    /\ e.ref_count \in 1..MaxRefs
    /\ e.attempts \in 0..MaxAttempts

IsSeq(f) == f \in Seq({f[i] : i \in DOMAIN f})

\* The array is a sequence of entries, and IndexExact.
AddrInv ==
    /\ IsSeq(addrs)
    /\ Len(addrs) <= AddrMax
    /\ \A i \in DOMAIN addrs : IsEntry(addrs[i])
    /\ DOMAIN banned \subseteq Addr /\ peers \subseteq Addr
    /\ IndexExact

LEMMA FunctionIsSeq ==
    ASSUME NEW n \in Nat, NEW f, f = [i \in 1..n |-> f[i]]
    PROVE  IsSeq(f) /\ Len(f) = n /\ DOMAIN f = 1..n
<1> DEFINE S == {f[i] : i \in DOMAIN f}
<1>1. DOMAIN f = 1..n
    OBVIOUS
<1>2. f \in [1..n -> S]
    BY <1>1
<1>3. f \in Seq(S)
    BY <1>2, SequenceOf
<1>4. Len(f) = n
    BY <1>1, <1>3, SequenceShape
<1> QED  BY <1>1, <1>3, <1>4 DEF IsSeq

LEMMA ExceptIsSeq ==
    ASSUME NEW n \in Nat, NEW f, f = [i \in 1..n |-> f[i]], NEW k \in 1..n, NEW e,
           NEW g, g = [f EXCEPT ![k] = e]
    PROVE  IsSeq(g) /\ Len(g) = n /\ DOMAIN g = 1..n
<1>1. g = [i \in 1..n |-> IF i = k THEN e ELSE f[i]]
    BY SMTT(30)
<1>2. g = [i \in 1..n |-> g[i]]
    BY <1>1, SMTT(30)
<1> QED  BY <1>2, FunctionIsSeq

\* An array in use, as a function.
LEMMA AddrsShape ==
    ASSUME AddrInv
    PROVE  /\ Len(addrs) \in 0..AddrMax
           /\ DOMAIN addrs = 1..Len(addrs)
           /\ addrs = [i \in 1..Len(addrs) |-> addrs[i]]
<1> DEFINE S == {addrs[i] : i \in DOMAIN addrs}
<1>1. addrs \in Seq(S)
    BY DEF AddrInv, IsSeq
<1>2. Len(addrs) \in Nat /\ DOMAIN addrs = 1..Len(addrs) /\ addrs \in [1..Len(addrs) -> S]
    BY <1>1, SequenceShape
<1> QED  BY <1>2, AddrAssumption DEF AddrInv

\* The entry of an address that is known.
LEMMA EntryOf ==
    ASSUME AddrInv, NEW a \in DOMAIN map
    PROVE  map[a] \in DOMAIN addrs /\ addrs[map[a]].addr = a /\ IsEntry(addrs[map[a]])
<1>1. PICK i \in DOMAIN addrs : addrs[i].addr = a
    BY Zenon DEF AddrInv, IndexExact
<1>2. map[a] = i
    BY <1>1, Zenon DEF AddrInv, IndexExact
<1> QED  BY <1>1, <1>2, Zenon DEF AddrInv

-----------------------------------------------------------------------------
(* The two ways in which the array changes.                                *)

\* An entry is given another value with the same address.
LEMMA EntryChanges ==
    ASSUME AddrInv, NEW k \in DOMAIN addrs, NEW e, IsEntry(e), e.addr = addrs[k].addr,
           addrs' = [addrs EXCEPT ![k] = e], map' = map,
           DOMAIN banned' \subseteq Addr, peers' \subseteq Addr
    PROVE  AddrInv'
<1>1. /\ Len(addrs) \in 0..AddrMax /\ DOMAIN addrs = 1..Len(addrs)
      /\ addrs = [i \in 1..Len(addrs) |-> addrs[i]]
    BY AddrsShape
<1>2. PICK n \in Nat : /\ n = Len(addrs) /\ DOMAIN addrs = 1..n
                       /\ addrs = [i \in 1..n |-> addrs[i]]
    BY <1>1
<1>3. IsSeq(addrs') /\ Len(addrs') = Len(addrs) /\ DOMAIN addrs' = DOMAIN addrs
  <2>1. k \in 1..n
      BY <1>2
  <2>2. IsSeq(addrs') /\ Len(addrs') = n /\ DOMAIN addrs' = 1..n
      BY <1>2, <2>1, ExceptIsSeq, SMTT(30)
  <2> QED  BY <1>2, <2>2
<1>4. \A i \in DOMAIN addrs : addrs'[i] = IF i = k THEN e ELSE addrs[i]
    BY <1>1
<1>5. \A i \in DOMAIN addrs : IsEntry(addrs'[i]) /\ addrs'[i].addr = addrs[i].addr
    BY <1>4 DEF AddrInv
<1>6. IndexExact'
  <2>1. {addrs'[i].addr : i \in DOMAIN addrs'} = {addrs[i].addr : i \in DOMAIN addrs}
      BY <1>3, <1>5
  <2>2. \A i \in DOMAIN addrs' : map[addrs'[i].addr] = i
      BY <1>3, <1>5, Zenon DEF AddrInv, IndexExact
  <2> QED  BY <2>1, <2>2, SMTT(30) DEF AddrInv, IndexExact
<1> QED  BY <1>1, <1>3, <1>5, <1>6, Zenon DEF AddrInv, IsSeq

\* A new address gets an entry, a free one or that of another address, which
\* leaves the map.
LEMMA EntryPlaced ==
    ASSUME AddrInv, NEW i \in Nat, NEW a \in Addr \ DOMAIN map, NEW t, NEW index,
           \/ i \in DOMAIN addrs /\ index = Evict(i)
           \/ i = Len(addrs) + 1 /\ i <= AddrMax /\ index = map,
           Place(i, a, t, index), UNCHANGED <<banned, peers>>
    PROVE  AddrInv'
<1> DEFINE n == IF i > Len(addrs) THEN i ELSE Len(addrs)
<1>1. /\ Len(addrs) \in 0..AddrMax /\ DOMAIN addrs = 1..Len(addrs)
      /\ addrs = [j \in 1..Len(addrs) |-> addrs[j]]
    BY AddrsShape
<1>2. n \in 0..AddrMax /\ i \in 1..n /\ 1..n = DOMAIN addrs \cup {i}
    BY <1>1, AddrAssumption, SMTT(30)
<1>3. addrs' = [j \in 1..n |-> IF j = i THEN Entry(a, t) ELSE addrs[j]]
    BY DEF Place
<1>4. addrs' = [j \in 1..n |-> addrs'[j]]
    BY <1>3
<1> HIDE DEF n
<1>5. IsSeq(addrs') /\ Len(addrs') = n /\ DOMAIN addrs' = 1..n
    BY <1>2, <1>4, FunctionIsSeq, SMTT(30)
<1>6. IsEntry(Entry(a, t)) /\ Entry(a, t).addr = a
    BY AddrAssumption, SMTT(30) DEF IsEntry, Entry, Field
<1>7. \A j \in 1..n : addrs'[j] = IF j = i THEN Entry(a, t) ELSE addrs[j]
    BY <1>3, Zenon
<1>8. \A j \in 1..n : IsEntry(addrs'[j]) /\ (j # i => j \in DOMAIN addrs)
    BY <1>2, <1>6, <1>7, Zenon DEF AddrInv
<1>9. map' = [b \in DOMAIN index \cup {a} |-> IF b = a THEN i ELSE index[b]]
    BY DEF Place
<1>10. /\ DOMAIN index = {addrs[j].addr : j \in DOMAIN addrs \ {i}}
       /\ \A j \in DOMAIN addrs \ {i} : index[addrs[j].addr] = j
  <2>1. CASE i \in DOMAIN addrs /\ index = Evict(i)
    <3>1. index = [b \in DOMAIN map \ {addrs[i].addr} |-> map[b]]
        BY <2>1, Zenon DEF Evict, Restrict
    <3>2. \A j \in DOMAIN addrs \ {i} : addrs[j].addr # addrs[i].addr
        BY <2>1 DEF AddrInv, IndexExact
    <3> QED  BY <2>1, <3>1, <3>2 DEF AddrInv, IndexExact
  <2>2. CASE i = Len(addrs) + 1 /\ index = map
      BY <1>1, <2>2 DEF AddrInv, IndexExact
  <2> QED  BY <2>1, <2>2, Zenon
<1>11. \A j \in 1..n : addrs'[j].addr = IF j = i THEN a ELSE addrs[j].addr
    BY <1>6, <1>7, Zenon
<1>12. a \notin DOMAIN index
    BY <1>10, ZenonT(40) DEF AddrInv, IndexExact
<1>13. IndexExact'
  <2>1. DOMAIN map' = {addrs'[j].addr : j \in DOMAIN addrs'}
      BY <1>2, <1>5, <1>9, <1>10, <1>11, SMTT(30)
  <2>2. \A j \in DOMAIN addrs' : map'[addrs'[j].addr] = j
      BY <1>2, <1>5, <1>8, <1>9, <1>10, <1>11, <1>12, SMTT(30)
  <2> QED  BY <2>1, <2>2, Zenon DEF IndexExact
<1> QED  BY <1>2, <1>5, <1>8, <1>13, SMTT(30) DEF AddrInv, IsSeq

LEMMA AddEntryStep ==
    ASSUME AddrInv, NEW a \in Addr, NEW t, NEW src, AddEntry(a, t, src),
           UNCHANGED <<banned, peers>>
    PROVE  AddrInv'
<1>1. CASE a \in DOMAIN map
  <2>1. PICK counted \in BOOLEAN :
            addrs' = [addrs EXCEPT ![map[a]] = Seen(@, t, src, counted)]
      BY <1>1 DEF AddEntry
  <2>2. map[a] \in DOMAIN addrs /\ addrs[map[a]].addr = a
      BY <1>1, EntryOf, ZenonT(40)
  <2> DEFINE old == addrs[map[a]]
             e   == Seen(old, t, src, counted)
  <2>3. IsEntry(old)
      BY <2>2 DEF AddrInv
  <2>4. /\ DOMAIN e = DOMAIN old
        /\ e.addr = old.addr /\ e.attempts = old.attempts
        /\ e.ref_count \in {old.ref_count} \cup IF old.ref_count = MaxRefs THEN {}
                                                ELSE {old.ref_count + 1}
      BY <2>3 DEF Seen, IsEntry, Field
  <2>5. addrs' = [addrs EXCEPT ![map[a]] = e]
      BY <2>1, Zenon
  <2> HIDE DEF e, old
  <2>6. IsEntry(e)
    <3>1. e.ref_count \in 1..MaxRefs
        BY <2>3, <2>4, AddrAssumption, SMTT(30) DEF IsEntry
    <3> QED
        BY <2>3, <2>4, <3>1, Zenon DEF IsEntry
  <2>7. map' = map /\ DOMAIN banned' \subseteq Addr /\ peers' \subseteq Addr
      BY <1>1, Zenon DEF AddEntry, AddrInv
  <2> QED  BY <2>2, <2>4, <2>5, <2>6, <2>7, EntryChanges, Zenon DEF old
<1>2. CASE a \notin DOMAIN map /\ Len(addrs) < AddrMax
  <2>1. Place(Len(addrs) + 1, a, t, map)
      BY <1>2 DEF AddEntry, AddNew
  <2>2. Len(addrs) + 1 \in Nat /\ Len(addrs) + 1 <= AddrMax
      BY <1>2, AddrsShape, AddrAssumption, SMTT(30)
  <2> QED  BY <1>2, <2>1, <2>2, EntryPlaced, Zenon
<1>3. CASE a \notin DOMAIN map /\ ~(Len(addrs) < AddrMax)
  <2>1. \/ \E i \in DOMAIN addrs : Place(i, a, t, Evict(i))
        \/ UNCHANGED <<addrs, map>>
      BY <1>3, Zenon DEF AddEntry, AddNew
  <2>2. CASE \E i \in DOMAIN addrs : Place(i, a, t, Evict(i))
    <3>1. PICK i \in DOMAIN addrs : Place(i, a, t, Evict(i))
        BY <2>2
    <3>2. i \in Nat
        BY AddrsShape
    <3> QED  BY <1>3, <3>1, <3>2, EntryPlaced
  <2>3. CASE UNCHANGED <<addrs, map>>
      BY <2>3, Zenon DEF AddrInv, IndexExact
  <2> QED  BY <2>1, <2>2, <2>3, Zenon
<1> QED  BY <1>1, <1>2, <1>3

\* A field other than the address, the references and the attempts changes, or
\* the attempts within their bound.
LEMMA UpdateStep ==
    ASSUME AddrInv, NEW a \in Addr, NEW e, map' = map,
           a \in DOMAIN map =>
               IsEntry(e) /\ e.addr = a /\ addrs' = [addrs EXCEPT ![map[a]] = e],
           a \notin DOMAIN map => addrs' = addrs,
           DOMAIN banned' \subseteq Addr, peers' \subseteq Addr
    PROVE  AddrInv'
<1>1. CASE a \in DOMAIN map
  <2>1. map[a] \in DOMAIN addrs /\ addrs[map[a]].addr = a
      BY <1>1 DEF AddrInv, IndexExact
  <2> QED  BY <1>1, <2>1, EntryChanges, Zenon
<1>2. CASE a \notin DOMAIN map
    BY <1>2 DEF AddrInv, IndexExact
<1> QED  BY <1>1, <1>2, Zenon

-----------------------------------------------------------------------------
(* Each step keeps the invariant.                                          *)

LEMMA RefillStep ==
    ASSUME AddrInv, NEW k \in DOMAIN addrs, NEW i, Refill(addrs[k], i)
    PROVE  AddrInv'
<1> DEFINE old == addrs[k]
           a   == old.addr
<1>1. IsEntry(old) /\ a \in Addr /\ a \in DOMAIN map /\ map[a] = k
    BY DEF AddrInv, IndexExact, IsEntry
<1>2. map' = map /\ DOMAIN banned' \subseteq Addr
    BY DEF Refill, AddrInv, Restrict
<1>3. CASE a \in BadKey
  <2> DEFINE e == [old EXCEPT !.removed = TRUE]
  <2>1. addrs' = [addrs EXCEPT ![k] = e] /\ peers' = peers
      BY <1>1, <1>3 DEF Refill, Update
  <2>2. IsEntry(e) /\ e.addr = a
      BY <1>1 DEF IsEntry, Field
  <2>3. peers' \subseteq Addr
      BY <2>1 DEF AddrInv
  <2> HIDE DEF e
  <2> QED  BY <1>2, <2>1, <2>2, <2>3, EntryChanges, Zenon
<1>4. CASE a \notin BadKey
  <2> DEFINE e == [old EXCEPT !.attempts = @ + 1, !.last_attempt = Now]
  <2>1. /\ addrs' = [addrs EXCEPT ![k] = e] /\ peers' = peers \cup {a}
        /\ old.attempts < MaxAttempts
      BY <1>1, <1>4 DEF Refill, Update, Attempted
  <2>2. DOMAIN e = Field /\ e.addr = a /\ e.ref_count = old.ref_count
        /\ e.attempts = old.attempts + 1
      BY <1>1 DEF IsEntry, Field
  <2>3. IsEntry(e)
      BY <1>1, <2>1, <2>2, AddrAssumption DEF IsEntry
  <2>4. peers' \subseteq Addr
      BY <1>1, <2>1, Zenon DEF AddrInv
  <2> HIDE DEF e
  <2> QED  BY <1>2, <2>1, <2>2, <2>3, <2>4, EntryChanges, Zenon
<1> QED  BY <1>3, <1>4, Zenon

LEMMA MarkSuccessStep ==
    ASSUME AddrInv, NEW a \in Addr, MarkSuccess(a) PROVE AddrInv'
<1> DEFINE old == addrs[map[a]]
           e   == [old EXCEPT !.time = IF Minus(Now, @) > TwentyMinutes THEN Now ELSE @]
<1>1. a \in DOMAIN map => addrs' = [addrs EXCEPT ![map[a]] = e]
    BY DEF MarkSuccess, Update
<1>2. a \notin DOMAIN map => addrs' = addrs
    BY Zenon DEF MarkSuccess, Update
<1>3. a \in DOMAIN map => IsEntry(old) /\ old.addr = a
    BY DEF AddrInv, IndexExact
<1>4. a \in DOMAIN map => IsEntry(e) /\ e.addr = a
    BY <1>3 DEF IsEntry, Field
<1>5. map' = map /\ DOMAIN banned' \subseteq Addr /\ peers' \subseteq Addr
    BY Zenon DEF MarkSuccess, AddrInv
<1> HIDE DEF e
<1> QED  BY <1>1, <1>2, <1>4, <1>5, UpdateStep, Zenon

LEMMA HandleVersionStep ==
    ASSUME AddrInv, NEW a \in Addr, NEW x, HandleVersion(a, x) PROVE AddrInv'
<1> DEFINE now == clock + offset'
           old == addrs[map[a]]
           e   == [old EXCEPT !.last_success = now, !.last_attempt = now,
                              !.attempts = 0, !.used = TRUE]
<1>1. a \in DOMAIN map => addrs' = [addrs EXCEPT ![map[a]] = e]
    BY DEF HandleVersion, Update
<1>2. a \notin DOMAIN map => addrs' = addrs
    BY Zenon DEF HandleVersion, Update
<1>3. a \in DOMAIN map => IsEntry(old) /\ old.addr = a
    BY DEF AddrInv, IndexExact
<1>4. a \in DOMAIN map => IsEntry(e) /\ e.addr = a
  <2>1. a \in DOMAIN map => /\ DOMAIN e = DOMAIN old /\ e.addr = old.addr
                            /\ e.ref_count = old.ref_count /\ e.attempts = 0
      BY <1>3 DEF IsEntry, Field
  <2> QED  BY <1>3, <2>1, AddrAssumption DEF IsEntry
<1>5. map' = map /\ DOMAIN banned' \subseteq Addr /\ peers' \subseteq Addr
    BY DEF HandleVersion, AddrInv
<1> HIDE DEF e
<1> QED  BY <1>1, <1>2, <1>4, <1>5, UpdateStep

LEMMA AddrNextStep ==
    AddrInv /\ [AmNext(Nat, Nat, Int, Addr)]_<<amvars, tdvars>> => AddrInv'
<1> SUFFICES ASSUME AddrInv, [AmNext(Nat, Nat, Int, Addr)]_<<amvars, tdvars>>
             PROVE  AddrInv'
    OBVIOUS
<1>1. ASSUME NEW a \in Addr, AddSeed(a) PROVE AddrInv'
    BY <1>1, AddEntryStep, Zenon DEF AddSeed
<1>2. ASSUME NEW a \in Addr, NEW t \in Nat, HandleAddr(a, t) PROVE AddrInv'
  <2>1. PICK u : AddEntry(a, u, TRUE)
      BY <1>2, Zenon DEF HandleAddr
  <2>2. UNCHANGED <<banned, peers>>
      BY <1>2, Zenon DEF HandleAddr
  <2> QED  BY <2>1, <2>2, AddEntryStep, Zenon
<1>3. ASSUME NEW a \in Addr, Ban(a) \/ RemovePeer(a) PROVE AddrInv'
  <2>1. addrs' = addrs /\ map' = map /\ peers' \subseteq Addr /\ DOMAIN banned' \subseteq Addr
      BY <1>3, Zenon DEF Ban, RemovePeer, AddrInv
  <2> QED  BY <2>1, Zenon DEF AddrInv, IndexExact, IsSeq
<1>4. CASE AmTick \/ UNCHANGED <<amvars, tdvars>>
  <2>1. addrs' = addrs /\ map' = map /\ peers' = peers /\ banned' = banned
      BY <1>4 DEF AmTick, amvars
  <2> QED  BY <2>1 DEF AddrInv, IndexExact, IsSeq
<1> QED  BY <1>1, <1>2, <1>3, <1>4, RefillStep, MarkSuccessStep, HandleVersionStep, Zenon
            DEF AmNext

LEMMA AddrInvariant == AmSpec => []AddrInv
<1>1. AmInit => AddrInv
  <2> SUFFICES ASSUME AmInit PROVE AddrInv
      OBVIOUS
  <2>1. addrs = <<>> /\ DOMAIN addrs = {} /\ DOMAIN map = {} /\ DOMAIN banned = {}
      BY DEF AmInit
  <2>2. IsSeq(addrs) /\ Len(addrs) = 0
      BY <2>1 DEF IsSeq
  <2> QED  BY <2>1, <2>2, AddrAssumption DEF AmInit, AddrInv, IndexExact
<1> QED  BY <1>1, AddrNextStep, PTL DEF AmSpec

-----------------------------------------------------------------------------
(* The clock.                                                              *)

\* A nonempty set of numbers has a least one, ...
LEMMA LeastOf ==
    ASSUME NEW T \in SUBSET Nat, T # {}
    PROVE  \E n \in T : \A m \in T : n <= m
<1> DEFINE R == OpToRel(<, Nat)
<1>1. IsWellFoundedOn(R, Nat)
  BY NatLessThanWellFounded, Zenon
<1>2. \A a, b \in Nat : <<a, b>> \in R <=> a < b
  BY DEF OpToRel
<1> HIDE DEF R
<1>3. PICK x \in T : \A y \in T : ~ (<<y, x>> \in R)
  BY <1>1, WFMin, Zenon
<1>4. ASSUME NEW y \in T PROVE x <= y
  <2>1. x \in Nat /\ y \in Nat /\ ~ (<<y, x>> \in R)
    BY <1>3
  <2> QED
    BY <1>2, <2>1
<1> QED
  BY <1>4

\* ... so that what holds of 0, and of n + 1 when it holds of n, holds of all.
LEMMA FromZeroOn ==
    ASSUME NEW T \in SUBSET Nat, 0 \in T, \A n \in T : n + 1 \in T
    PROVE  T = Nat
<1> SUFFICES ASSUME Nat \ T # {} PROVE FALSE
  BY Zenon
<1>1. PICK n \in Nat \ T : \A m \in Nat \ T : n <= m
  BY LeastOf, Zenon
<1>2. n # 0 /\ n - 1 \in Nat
  BY <1>1
<1>3. n - 1 \in T
  BY <1>1, <1>2, SMTT(30)
<1> QED
  BY <1>1, <1>2, <1>3

\* The intervals of a search in n samples, and one step of it: what is found
\* from r when g tells what is found from smaller intervals.
Intervals(n) == (0..n) \X (-1..(n - 1))
Middle(r) == (r[1] + r[2]) \div 2
Found(s, x, g, r) ==
    IF r[1] > r[2] THEN r[1]
    ELSE IF s[Middle(r) + 1] = x THEN Middle(r)
    ELSE IF s[Middle(r) + 1] < x THEN g[<<Middle(r) + 1, r[2]>>]
    ELSE g[<<r[1], Middle(r) - 1>>]

\* The intervals that a step goes on to are shorter.
LEMMA Narrower ==
    ASSUME NEW n \in Nat, NEW r \in Intervals(n), r[1] <= r[2], NEW d \in Nat, r[2] - r[1] < d + 1
    PROVE  /\ Middle(r) \in r[1]..r[2]
           /\ <<Middle(r) + 1, r[2]>> \in Intervals(n) /\ r[2] - (Middle(r) + 1) < d
           /\ <<r[1], Middle(r) - 1>> \in Intervals(n) /\ (Middle(r) - 1) - r[1] < d
<1>1. /\ r[1] \in 0..n /\ r[2] \in -1..(n - 1)
  BY DEF Intervals
<1>2. Middle(r) \in r[1]..r[2]
  BY <1>1 DEF Middle
<1>3. Middle(r) + 1 \in 0..n /\ Middle(r) - 1 \in -1..(n - 1)
  BY <1>1, <1>2
<1> QED
  BY <1>1, <1>2, <1>3 DEF Intervals

\* So there is a function that every step agrees with, ...
LEMMA SearchExists ==
    ASSUME NEW s, NEW x, NEW n \in Nat
    PROVE  \E g : g = [r \in Intervals(n) |-> Found(s, x, g, r)]
<1> DEFINE D == Intervals(n)
           Upto(d, g) == /\ g = [r \in D |-> g[r]]
                         /\ \A r \in D : r[2] - r[1] < d => g[r] = Found(s, x, g, r)
           T == {d \in Nat : \E g : Upto(d, g)}
<1>1. 0 \in T
  <2> DEFINE g == [r \in D |-> r[1]]
  <2>1. ASSUME NEW r \in D, r[2] - r[1] < 0 PROVE g[r] = Found(s, x, g, r)
    <3>1. r[1] \in Int /\ r[2] \in Int
      BY DEF Intervals
    <3>2. r[1] > r[2]
      BY <2>1, <3>1
    <3> QED
      BY <3>2 DEF Found
  <2>2. g = [r \in D |-> g[r]]
    OBVIOUS
  <2> HIDE DEF g
  <2> QED
    BY <2>1, <2>2, Zenon
<1>2. ASSUME NEW d \in T PROVE d + 1 \in T
  <2>1. PICK g : Upto(d, g)
    BY <1>2, Zenon
  <2> DEFINE h == [r \in D |-> Found(s, x, g, r)]
  <2>2. ASSUME NEW r \in D, r[2] - r[1] < d + 1 PROVE h[r] = Found(s, x, h, r)
    <3>1. \A q \in D : q[2] - q[1] < d => h[q] = g[q]
      BY <2>1, Zenon
    <3>2. CASE r[1] > r[2]
      BY <3>2, Zenon DEF Found
    <3>3. CASE ~ (r[1] > r[2])
      <4>1. r[1] <= r[2] /\ d \in Nat
        BY <3>3 DEF Intervals
      <4>2. /\ <<Middle(r) + 1, r[2]>> \in D /\ r[2] - (Middle(r) + 1) < d
            /\ <<r[1], Middle(r) - 1>> \in D /\ (Middle(r) - 1) - r[1] < d
        BY <2>2, <4>1, Narrower, Zenon
      <4>3. /\ h[<<Middle(r) + 1, r[2]>>] = g[<<Middle(r) + 1, r[2]>>]
            /\ h[<<r[1], Middle(r) - 1>>] = g[<<r[1], Middle(r) - 1>>]
        <5> HIDE DEF h, D
        <5> QED
          BY <3>1, <4>2
      <4>4. Found(s, x, h, r) = Found(s, x, g, r)
        <5> HIDE DEF h
        <5> QED
          BY <4>3, Zenon DEF Found
      <4> QED
        BY <4>4, Zenon
    <3> QED
      BY <3>2, <3>3, Zenon
  <2>3. h = [r \in D |-> h[r]]
    OBVIOUS
  <2> HIDE DEF h
  <2>4. Upto(d + 1, h)
    BY <2>2, <2>3
  <2> QED
    BY <2>4
<1>3. T = Nat
  <2> HIDE DEF T
  <2>1. T \subseteq Nat
    BY DEF T
  <2> QED
    BY <1>1, <1>2, <2>1, FromZeroOn
<1>4. n + 1 \in T
  BY <1>3
<1>5. PICK g : Upto(n + 1, g)
  BY <1>4
<1>6. ASSUME NEW r \in D PROVE g[r] = Found(s, x, g, r)
  <2>1. r[2] - r[1] < n + 1
    BY DEF Intervals
  <2> QED
    BY <1>5, <2>1
<1>7. g = [r \in D |-> Found(s, x, g, r)]
  BY <1>5, <1>6
<1> QED
  BY <1>7

\* ... and it is the one that the position is read from.
LEMMA PositionFound ==
    ASSUME NEW s, NEW x, Len(s) \in Nat
    PROVE  \E g : /\ g = [r \in Intervals(Len(s)) |-> Found(s, x, g, r)]
                  /\ Position(s, x) = g[<<0, Len(s) - 1>>]
<1> DEFINE n == Len(s)
           f == CHOOSE g : g = [r \in Intervals(n) |-> Found(s, x, g, r)]
<1>1. f = [r \in Intervals(n) |-> Found(s, x, f, r)]
  BY SearchExists, Zenon
<1>2. Position(s, x) = f[<<0, n - 1>>]
  BY DEF Position, Found, Intervals, Middle
<1> HIDE DEF f
<1> QED
  BY <1>1, <1>2, Zenon

Sorted(s) == \A i, j \in 1..Len(s) : i <= j => s[i] <= s[j]

\* x belongs behind the first p samples.
Splits(s, x, p) ==
    /\ p \in 0..Len(s)
    /\ \A i \in 1..p : s[i] <= x
    /\ \A i \in (p + 1)..Len(s) : x <= s[i]

\* Binary search finds such a place in sorted samples.
LEMMA PositionSplits ==
    ASSUME NEW s \in Seq(Int), NEW x \in Int, Sorted(s)
    PROVE  Splits(s, x, Position(s, x))
<1> DEFINE n == Len(s)
           D == Intervals(n)
           Around(r) == /\ r[1] <= r[2] + 1
                        /\ \A i \in 1..r[1] : s[i] <= x
                        /\ \A i \in (r[2] + 2)..n : x <= s[i]
<1>1. n \in Nat /\ \A i \in 1..n : s[i] \in Int
  OBVIOUS
<1>2. PICK g : /\ g = [r \in D |-> Found(s, x, g, r)]
               /\ Position(s, x) = g[<<0, n - 1>>]
  BY <1>1, PositionFound, Zenon
<1>3. \A r \in D : g[r] = Found(s, x, g, r)
  BY <1>2, Zenon
<1> DEFINE T == {d \in Nat : \A r \in D : Around(r) /\ r[2] - r[1] < d => Splits(s, x, g[r])}
<1>4. ASSUME NEW r \in D, Around(r), r[1] > r[2] PROVE Splits(s, x, g[r])
  <2>1. g[r] = r[1]
    BY <1>3, <1>4, Zenon DEF Found
  <2>2. r[1] \in 0..n /\ r[2] \in Int /\ r[1] <= r[2] + 1
    BY <1>4 DEF Intervals
  <2>3. r[2] + 2 = r[1] + 1
    BY <1>4, <2>2
  <2> QED
    BY <1>4, <2>1, <2>2, <2>3 DEF Splits
<1>5. 0 \in T
  <2>1. ASSUME NEW r \in D, Around(r), r[2] - r[1] < 0 PROVE Splits(s, x, g[r])
    <3>1. r[1] > r[2]
      BY <2>1 DEF Intervals
    <3> QED
      BY <1>4, <2>1, <3>1, SMTT(30)
  <2> QED
    BY <2>1, Zenon
<1>6. ASSUME NEW d \in T PROVE d + 1 \in T
  <2>1. ASSUME NEW r \in D, Around(r), r[2] - r[1] < d + 1, r[1] <= r[2]
        PROVE  Splits(s, x, g[r])
    <3> DEFINE m == Middle(r)
               up == <<m + 1, r[2]>>
               down == <<r[1], m - 1>>
    <3>1. /\ m \in r[1]..r[2] /\ up \in D /\ r[2] - (m + 1) < d
          /\ down \in D /\ (m - 1) - r[1] < d
      BY <1>1, <1>6, <2>1, Narrower
    <3>2. /\ up[1] = m + 1 /\ up[2] = r[2] /\ down[1] = r[1] /\ down[2] = m - 1
      BY ZenonT(40)
    <3>3. /\ m \in Nat /\ m + 1 \in 1..n /\ r[1] \in 0..n /\ r[2] \in -1..(n - 1)
          /\ s[m + 1] \in Int
      <4>1. r[1] \in 0..n /\ r[2] \in -1..(n - 1)
        BY Zenon DEF Intervals
      <4>2. m \in Nat /\ m + 1 \in 1..n
        <5> DEFINE a == r[1]
                   b == r[2]
        <5>1. n \in Nat /\ m \in a..b /\ a \in 0..n /\ b \in -1..(n - 1)
          BY <1>1, <3>1, <4>1, ZenonT(40)
        <5> HIDE DEF m, n, a, b
        <5> QED
          BY <5>1
      <4> QED
        BY <1>1, <4>1, <4>2
    <3>4. /\ \A i \in 1..(m + 1) : s[i] <= s[m + 1]
          /\ \A i \in (m + 1)..n : s[m + 1] <= s[i]
      <4> HIDE DEF m
      <4>1. ASSUME NEW i \in 1..(m + 1) PROVE s[i] <= s[m + 1]
        <5>1. i \in 1..n /\ i <= m + 1
          BY <1>1, <3>3
        <5> QED
          BY <3>3, <5>1, Zenon DEF Sorted
      <4>2. ASSUME NEW i \in (m + 1)..n PROVE s[m + 1] <= s[i]
        <5>1. i \in 1..n /\ m + 1 <= i
          BY <1>1, <3>3
        <5> QED
          BY <3>3, <5>1, Zenon DEF Sorted
      <4> QED
        BY <4>1, <4>2
    <3>5. g[r] = IF s[m + 1] = x THEN m ELSE IF s[m + 1] < x THEN g[up] ELSE g[down]
      <4>1. g[r] = Found(s, x, g, r)
        BY <1>3, <2>1, Zenon
      <4>2. ~(r[1] > r[2])
        <5> DEFINE a == r[1]
                   b == r[2]
        <5>1. a \in 0..n /\ b \in -1..(n - 1) /\ a <= b
          BY <2>1, <3>3, ZenonT(40)
        <5> HIDE DEF a, b
        <5>2. ~(a > b)
          BY <5>1
        <5> QED
          BY <5>2, Zenon DEF a, b
      <4> QED
        BY <4>1, <4>2, Zenon DEF Found
    <3> HIDE DEF m
    <3>6. CASE s[m + 1] = x
      <4>1. Splits(s, x, m)
        BY <1>1, <3>3, <3>4, <3>6, SMTT(30) DEF Splits
      <4> QED
        BY <3>5, <3>6, <4>1, ZenonT(40)
    <3>7. CASE s[m + 1] < x
      <4>1. ASSUME NEW i \in 1..(m + 1) PROVE s[i] <= x
        <5>1. s[i] \in Int /\ s[m + 1] \in Int /\ s[i] <= s[m + 1]
          <6>1. i \in 1..n
            BY <1>1, <3>3
          <6> QED
            BY <1>1, <3>3, <3>4, <6>1, Zenon
        <5> QED
          BY <3>7, <5>1
      <4>2. Around(up)
        <5>1. m + 1 <= r[2] + 1 /\ \A i \in (r[2] + 2)..n : x <= s[i]
          BY <2>1, <3>1, <3>3, SMTT(30)
        <5> HIDE DEF up
        <5> QED
          BY <3>2, <4>1, <5>1, Zenon
      <4>3. Splits(s, x, g[up])
        <5> HIDE DEF up
        <5> QED
          BY <1>6, <3>1, <3>2, <4>2, SMTT(30)
      <4> QED
        <5>1. s[m + 1] # x
          BY <3>3, <3>7, SMTT(30)
        <5> QED
          BY <3>5, <3>7, <4>3, <5>1, ZenonT(40)
    <3>8. CASE x < s[m + 1]
      <4>1. ASSUME NEW i \in (m + 1)..n PROVE x <= s[i]
        <5>1. s[i] \in Int /\ s[m + 1] \in Int /\ s[m + 1] <= s[i]
          <6>1. i \in 1..n
            BY <1>1, <3>3
          <6> QED
            BY <1>1, <3>3, <3>4, <6>1, ZenonT(40)
        <5> QED
          BY <3>8, <5>1
      <4>2. Around(down)
        <5>1. r[1] <= (m - 1) + 1 /\ (m - 1) + 2 = m + 1
          <6> DEFINE b == r[1]
          <6>1. m \in Nat /\ b \in 0..n /\ m \in b..r[2]
            BY <3>1, <3>3, Zenon
          <6> HIDE DEF b
          <6>2. b <= (m - 1) + 1 /\ (m - 1) + 2 = m + 1
            BY <6>1
          <6> QED
            BY <6>2 DEF b
        <5>2. \A i \in 1..r[1] : s[i] <= x
          BY <2>1, Zenon
        <5> HIDE DEF down
        <5> QED
          BY <3>2, <4>1, <5>1, <5>2, ZenonT(40)
      <4>3. Splits(s, x, g[down])
        <5> HIDE DEF down
        <5> QED
          BY <1>6, <3>1, <3>2, <4>2, Zenon
      <4>4. g[r] = g[down]
        <5>1. s[m + 1] # x /\ ~(s[m + 1] < x)
          BY <3>3, <3>8, SMTT(30)
        <5> QED
          BY <3>5, <5>1, Zenon
      <4> QED
        BY <4>3, <4>4, ZenonT(40)
    <3>9. s[m + 1] = x \/ s[m + 1] < x \/ x < s[m + 1]
      BY <3>3
    <3> QED
      BY <3>6, <3>7, <3>8, <3>9, ZenonT(40)
  <2>2. ASSUME NEW r \in D, Around(r), r[2] - r[1] < d + 1 PROVE Splits(s, x, g[r])
    <3>1. r[1] \in Int /\ r[2] \in Int
      BY SMTT(30) DEF Intervals
    <3>2. r[1] > r[2] \/ r[1] <= r[2]
      BY <3>1, SMTT(30)
    <3> QED
      BY <1>4, <2>1, <2>2, <3>2, Zenon
  <2>3. d + 1 \in Nat
    BY <1>6
  <2> QED
    BY <2>2, <2>3, Zenon
<1>7. T = Nat
  <2>1. T \subseteq Nat
    OBVIOUS
  <2> HIDE DEF T
  <2> QED
    BY <1>5, <1>6, <2>1, FromZeroOn, Zenon
<1>8. n + 1 \in T
  <2> HIDE DEF T
  <2> QED
    BY <1>1, <1>7
<1>9. <<0, n - 1>> \in D /\ Around(<<0, n - 1>>)
  <2>1. <<0, n - 1>>[1] = 0 /\ <<0, n - 1>>[2] = n - 1
    OBVIOUS
  <2>2. <<0, n - 1>> \in D
    BY <1>1 DEF Intervals
  <2> QED
    BY <1>1, <2>1, <2>2
<1>10. Splits(s, x, g[<<0, n - 1>>])
  <2>1. <<0, n - 1>>[2] - <<0, n - 1>>[1] < n + 1
    BY <1>1, SMTT(30)
  <2>2. \A r \in D : Around(r) /\ r[2] - r[1] < n + 1 => Splits(s, x, g[r])
    BY <1>8, Zenon
  <2> HIDE DEF Around, D
  <2> QED
    BY <1>9, <2>1, <2>2, Zenon
<1> QED
  BY <1>2, <1>10, Zenon

\* An insertion keeps the samples sorted, and moves each of them up by at most
\* one place.
LEMMA InsertSorted ==
    ASSUME NEW s \in Seq(Int), NEW x \in Int, Sorted(s)
    PROVE  /\ Insert(s, x) \in Seq(Int) /\ Len(Insert(s, x)) = Len(s) + 1
           /\ Sorted(Insert(s, x))
           /\ \E p \in 0..Len(s) :
                 \A i \in 1..Len(s) : Insert(s, x)[IF i <= p THEN i ELSE i + 1] = s[i]
<1> DEFINE n == Len(s)
           p == Position(s, x)
           t == Insert(s, x)
<1>1. n \in Nat /\ \A i \in 1..n : s[i] \in Int
  OBVIOUS
<1>2. Splits(s, x, p)
  BY PositionSplits, Zenon
<1>3. t = [j \in 1..(n + 1) |-> IF j <= p THEN s[j] ELSE IF j = p + 1 THEN x ELSE s[j - 1]]
  BY DEF Insert
<1> HIDE DEF p, t
<1>4. p \in 0..n
  BY <1>2 DEF Splits
<1>5. t \in Seq(Int) /\ Len(t) = n + 1
  <2>1. t \in [1..(n + 1) -> Int]
    BY <1>1, <1>3, <1>4
  <2> QED
    BY <1>1, <2>1
<1>6. ASSUME NEW i \in 1..(n + 1), NEW j \in 1..(n + 1), i <= j PROVE t[i] <= t[j]
  <2> DEFINE v(k) == IF k <= p THEN s[k] ELSE IF k = p + 1 THEN x ELSE s[k - 1]
  <2>1. t[i] = v(i) /\ t[j] = v(j)
    BY <1>3, Zenon
  <2>2. v(i) <= v(j)
    <3>1. \A k \in 1..p : k \in 1..n /\ s[k] \in Int /\ s[k] <= x
      BY <1>1, <1>2, <1>4, SMTT(30) DEF Splits
    <3>2. \A k \in (p + 2)..(n + 1) : k - 1 \in 1..n /\ s[k - 1] \in Int /\ x <= s[k - 1]
      BY <1>1, <1>2, <1>4, SMTT(30) DEF Splits
    <3>3. CASE i <= p /\ j <= p
      BY <1>6, <3>1, <3>3, SMTT(30) DEF Sorted
    <3>4. CASE i <= p /\ ~ (j <= p)
      BY <1>1, <1>4, <3>1, <3>2, <3>4, SMTT(30)
    <3>5. CASE ~ (i <= p) /\ i = p + 1
      BY <1>1, <1>4, <1>6, <3>2, <3>5, SMTT(30)
    <3>6. CASE ~ (i <= p) /\ i # p + 1
      <4>1. i \in (p + 2)..(n + 1) /\ j \in (p + 2)..(n + 1) /\ ~ (j <= p) /\ j # p + 1
        BY <1>1, <1>4, <1>6, <3>6
      <4>2. s[i - 1] <= s[j - 1]
        <5>1. i - 1 \in 1..n /\ j - 1 \in 1..n /\ i - 1 <= j - 1
          BY <1>1, <1>4, <1>6, <4>1
        <5> QED
          BY <5>1, Zenon DEF Sorted
      <4> QED
        BY <3>6, <4>1, <4>2, Zenon
    <3> QED
      BY <3>3, <3>4, <3>5, <3>6, Zenon
  <2> QED
    BY <2>1, <2>2, Zenon
<1>7. Sorted(t)
  BY <1>5, <1>6, Zenon DEF Sorted
<1>8. ASSUME NEW i \in 1..n PROVE t[IF i <= p THEN i ELSE i + 1] = s[i]
  BY <1>1, <1>3, <1>4
<1> QED
  BY <1>4, <1>5, <1>7, <1>8, Zenon DEF t

\* The samples further off than d.
Off(s, d) == {i \in 1..Len(s) : Abs(s[i]) > d}

LEMMA OffFinite ==
    ASSUME NEW s, Len(s) \in Nat, NEW d
    PROVE  IsFiniteSet(Off(s, d)) /\ Cardinality(Off(s, d)) \in Nat
<1>1. IsFiniteSet(1..Len(s))
  BY FS_Interval
<1>2. Off(s, d) \in SUBSET (1..Len(s))
  BY DEF Off
<1>3. IsFiniteSet(Off(s, d))
  BY <1>1, <1>2, FS_Subset, Zenon
<1> QED
  BY <1>3, FS_CardinalityType, SMTT(30)

\* When the median is further off than d, so is every sample on its side, and
\* these are the majority.
LEMMA MedianOff ==
    ASSUME NEW s \in Seq(Int), Sorted(s), Len(s) % 2 = 1, NEW d \in Nat,
           Abs(s[(Len(s) \div 2) + 1]) > d
    PROVE  2 * Cardinality(Off(s, d)) > Len(s)
<1> DEFINE n == Len(s)
           h == n \div 2
           c == Cardinality(Off(s, d))
<1>1. n \in Nat /\ \A i \in 1..n : s[i] \in Int
  OBVIOUS
<1>2. n = 2 * h + 1 /\ h \in Nat
  BY <1>1
<1>3. IsFiniteSet(Off(s, d)) /\ c \in Nat
  BY <1>1, OffFinite, Zenon
<1>4. ASSUME NEW a \in 1..n, NEW b \in 1..n, b - a = h, \A i \in a..b : Abs(s[i]) > d
      PROVE  h + 1 <= c
  <2>1. Cardinality(a..b) = h + 1
    <3>1. a \in Int /\ b \in Int /\ ~ (a > b) /\ b - a + 1 = h + 1
      <4> HIDE DEF h, n
      <4> QED
        BY <1>1, <1>2, <1>4, SMTT(30)
    <3> QED
      BY <3>1, FS_Interval, Zenon
  <2>2. a..b \in SUBSET Off(s, d)
    <3> HIDE DEF h
    <3> QED
      BY <1>1, <1>4, SMTT(30) DEF Off
  <2> QED
    BY <1>3, <2>1, <2>2, FS_Subset
<1> HIDE DEF h
<1>5. h + 1 \in 1..n /\ s[h + 1] \in Int /\ Abs(s[h + 1]) > d
  <2>1. h + 1 \in 1..n
    <3> HIDE DEF n
    <3> QED
      BY <1>1, <1>2
  <2> QED
    BY <1>1, <2>1 DEF h
<1>6. h + 1 <= c
  <2>1. CASE s[h + 1] > d
    <3>1. ASSUME NEW i \in (h + 1)..n PROVE Abs(s[i]) > d
      <4>1. i \in 1..n /\ h + 1 <= i
        BY <1>1, <1>2
      <4>2. s[h + 1] <= s[i] /\ s[i] \in Int
        BY <1>1, <1>5, <4>1, Zenon DEF Sorted
      <4> QED
        BY <1>5, <2>1, <4>2 DEF Abs
    <3>2. n - (h + 1) = h /\ n \in 1..n
      <4> HIDE DEF n
      <4> QED
        BY <1>1, <1>2
    <3> QED
      BY <1>4, <1>5, <3>1, <3>2, ZenonT(40)
  <2>2. CASE ~ (s[h + 1] > d)
    <3>1. s[h + 1] < -d
      BY <1>5, <2>2, SMTT(30) DEF Abs
    <3>2. ASSUME NEW i \in 1..(h + 1) PROVE Abs(s[i]) > d
      <4>1. i \in 1..n /\ i <= h + 1
        BY <1>1, <1>2
      <4>2. s[i] <= s[h + 1] /\ s[i] \in Int
        BY <1>1, <1>5, <4>1, Zenon DEF Sorted
      <4> QED
        BY <1>5, <3>1, <4>2, SMTT(30) DEF Abs
    <3>3. (h + 1) - 1 = h /\ 1 \in 1..n
      <4> HIDE DEF n
      <4> QED
        BY <1>1, <1>2
    <3> QED
      BY <1>4, <1>5, <3>2, <3>3, Zenon
  <2> QED
    BY <2>1, <2>2
<1> HIDE DEF c, n
<1>7. 2 * c > n
  BY <1>2, <1>3, <1>6, SMTT(30)
<1> QED
  BY <1>7 DEF c, n

\* An insertion brings none of the samples nearer.
LEMMA OffGrows ==
    ASSUME NEW s \in Seq(Int), NEW x \in Int, Sorted(s), NEW d \in Nat
    PROVE  Cardinality(Off(s, d)) <= Cardinality(Off(Insert(s, x), d))
<1> DEFINE n == Len(s)
           t == Insert(s, x)
<1>1. t \in Seq(Int) /\ Len(t) = n + 1 /\ n \in Nat
  <2>1. n \in Nat
    OBVIOUS
  <2> QED
    BY <2>1, InsertSorted, Zenon
<1>2. PICK p \in 0..n : \A i \in 1..n : t[IF i <= p THEN i ELSE i + 1] = s[i]
  BY InsertSorted, Zenon
<1> HIDE DEF t
<1> DEFINE f == [i \in Off(s, d) |-> IF i <= p THEN i ELSE i + 1]
<1>3. f \in [Off(s, d) -> Off(t, d)]
  <2>1. ASSUME NEW i \in Off(s, d) PROVE (IF i <= p THEN i ELSE i + 1) \in Off(t, d)
    <3>1. i \in 1..n /\ Abs(s[i]) > d
      BY DEF Off
    <3>2. (IF i <= p THEN i ELSE i + 1) \in 1..(n + 1)
      BY <1>1, <3>1, SMTT(30)
    <3> QED
      BY <1>1, <1>2, <3>1, <3>2, Zenon DEF Off
  <2> QED
    BY <2>1
<1>4. \A i, j \in Off(s, d) : f[i] = f[j] => i = j
  BY <1>1, SMTT(30) DEF Off
<1>5. f \in Injection(Off(s, d), Off(t, d))
  BY <1>3, <1>4 DEF Injection, IsInjective
<1>6. IsFiniteSet(Off(t, d))
  BY <1>1, OffFinite
<1> QED
  BY <1>5, <1>6, FS_Injection DEF t

\* The invariant: the samples are sorted, and without enough of them there is
\* no offset.
TimeInv ==
    /\ HonestMajority
    /\ Sorted(samples) /\ IsFiniteSet(known)
    /\ Len(samples) < Enough => offset = 0

LEMMA TimeInit == TdInit => TimeInv
<1> SUFFICES ASSUME TdInit PROVE TimeInv
  OBVIOUS
<1>1. samples = <<>> /\ known = {} /\ offset = 0 /\ checked = FALSE
  BY DEF TdInit
<1>2. Len(samples) = 0 /\ samples \in Seq(Int) /\ Cardinality(known) = 0 /\ IsFiniteSet(known)
  BY <1>1, FS_EmptySet
<1>3. TdTypeOK
  <2>1. MaxOffset \in Nat /\ MaxOffset > 0 /\ SampleLimit \in Nat
    BY TimeAssumption
  <2>2. offset \in 0..(MaxOffset - 1) /\ Len(samples) <= SampleLimit
    BY <1>1, <1>2, <2>1
  <2>3. known \subseteq Source /\ checked \in BOOLEAN
    BY <1>1, Zenon
  <2> QED
    BY <1>2, <2>2, <2>3, Zenon DEF TdTypeOK
<1>4. ~ (Len(samples) >= Enough)
  BY <1>2, TimeAssumption
<1>5. HonestMajority
  BY <1>3, <1>4 DEF HonestMajority
<1>6. Sorted(samples)
  BY <1>2 DEF Sorted
<1> QED
  BY <1>1, <1>2, <1>5, <1>6 DEF TimeInv

\* hsk_timedata_add.
LEMMA AddStep ==
    ASSUME TimeInv, NEW a \in Source, NEW x \in Int, TdAdd(a, x) PROVE TimeInv'
<1> DEFINE n == Len(samples)
<1>1. /\ TdTypeOK /\ samples \in Seq(Int) /\ Sorted(samples) /\ IsFiniteSet(known)
      /\ n \in Nat /\ Cardinality(known) = n /\ Enough \in Nat /\ Enough > 0 /\ MaxOffset \in Nat
      /\ SampleLimit \in Nat /\ offset \in 0..(MaxOffset - 1) /\ MaxOffset > 0
  BY TimeAssumption DEF TimeInv, HonestMajority, TdTypeOK
<1>2. CASE n >= SampleLimit \/ a \in known
  <2>1. UNCHANGED <<samples, known, offset, checked>>
    BY <1>2 DEF TdAdd, tdvars
  <2>2. TdTypeOK'
    BY <1>1, <2>1, Zenon DEF TdTypeOK
  <2>3. Sorted(samples)'
    BY <1>1, <2>1, Zenon
  <2>4. HonestMajority'
    BY <2>1, <2>2, Zenon DEF TimeInv, HonestMajority
  <2> QED
    BY <2>1, <2>3, <2>4, Zenon DEF TimeInv
<1>3. CASE ~ (n >= SampleLimit \/ a \in known)
  <2>1. known' = known \cup {a} /\ samples' = Insert(samples, x)
    BY <1>3 DEF TdAdd
  <2>2. /\ samples' \in Seq(Int) /\ Len(samples') = n + 1 /\ Sorted(samples')
    BY <1>1, <2>1, InsertSorted, Zenon
  <2>3. IsFiniteSet(known') /\ Cardinality(known') = n + 1
    BY <1>1, <1>3, <2>1, FS_AddElement, Zenon
  <2>4. ASSUME NEW d \in Nat
        PROVE  /\ Cardinality(Off(samples, d)) <= Cardinality(Off(samples', d))
               /\ Cardinality(Off(samples, d)) \in Nat /\ Cardinality(Off(samples', d)) \in Nat
    <3>1. Len(samples) \in Nat /\ Len(samples') \in Nat
      BY <1>1, <2>2
    <3>2. Cardinality(Off(samples, d)) <= Cardinality(Off(samples', d))
      BY <1>1, <2>1, OffGrows, Zenon
    <3> QED
      BY <3>1, <3>2, OffFinite, Zenon
  <2>5. CASE n + 1 >= Enough /\ (n + 1) % 2 = 1
    <3> DEFINE y == Abs(samples'[((n + 1) \div 2) + 1])
    <3>1. /\ offset' = (IF y >= MaxOffset THEN 0 ELSE y)
          /\ checked' = (checked \/ (y >= MaxOffset
                /\ ~ \E i \in DOMAIN samples' : samples'[i] # 0 /\ Abs(samples'[i]) < Near))
      BY <1>3, <2>2, <2>5, SMTT(30) DEF TdAdd, Evaluate
    <3>2. y \in Nat
      <4>1. ((n + 1) \div 2) + 1 \in 1..(n + 1)
        <5> HIDE DEF n
        <5> QED
          BY <1>1, <2>5
      <4>2. samples'[((n + 1) \div 2) + 1] \in Int
        BY <2>2, <4>1, SMTT(30)
      <4> QED
        BY <4>2 DEF Abs
    <3>3. offset' \in 0..(MaxOffset - 1) /\ checked' \in BOOLEAN /\ offset' <= y
      <4>1. checked' \in BOOLEAN
        BY <3>1, Zenon
      <4> HIDE DEF y
      <4> QED
        BY <1>1, <3>1, <3>2, <4>1
    <3>4. TdTypeOK'
      BY <1>1, <1>3, <2>1, <2>2, <2>3, <3>3, SMTT(30) DEF TdTypeOK
    <3>5. ASSUME NEW d \in 0..MaxOffset, 2 * Cardinality(Off(samples', d)) < n + 1
          PROVE  offset' <= d
      <4>1. ~ (y > d)
        <5>1. d \in Nat
          BY <1>1
        <5>2. Cardinality(Off(samples', d)) \in Nat
          BY <2>4, <5>1, Zenon
        <5>3. ASSUME y > d PROVE 2 * Cardinality(Off(samples', d)) > n + 1
          BY <2>2, <2>5, <5>1, <5>3, MedianOff, Zenon
        <5> QED
          BY <1>1, <3>5, <5>2, <5>3, SMTT(30)
      <4> HIDE DEF y
      <4> QED
        BY <1>1, <3>2, <3>3, <4>1, SMTT(30)
    <3>6. HonestMajority'
      <4>1. (n + 1) - (1 - ((n + 1) % 2)) = n + 1
        BY <1>1, <2>5, SMTT(30)
      <4>2. \A d : Off(samples, d)' = {i \in 1..Len(samples') : Abs(samples'[i]) > d}
        BY DEF Off
      <4> QED
        BY <2>2, <3>4, <3>5, <4>1, Zenon DEF HonestMajority, Off
    <3>7. ~ (Len(samples') < Enough)
      BY <1>1, <2>2, <2>5
    <3> QED
      BY <2>2, <2>3, <3>6, <3>7, ZenonT(40) DEF TimeInv
  <2>6. CASE ~ (n + 1 >= Enough /\ (n + 1) % 2 = 1)
    <3>1. UNCHANGED <<offset, checked>>
      BY <1>3, <2>2, <2>6, Zenon DEF TdAdd
    <3>2. TdTypeOK'
      BY <1>1, <1>3, <2>1, <2>2, <2>3, <3>1, SMTT(30) DEF TdTypeOK
    <3>3. (n + 1) < Enough => offset' = 0
      BY <1>1, <3>1, SMTT(30) DEF TimeInv
    <3>4. ASSUME NEW d \in 0..MaxOffset, n + 1 >= Enough,
                 2 * Cardinality(Off(samples', d)) < (n + 1) - (1 - ((n + 1) % 2))
          PROVE  offset' <= d
      <4> DEFINE b == Cardinality(Off(samples, d))
                 c == Cardinality(Off(samples', d))
      <4>1. b <= c /\ b \in Nat /\ c \in Nat /\ 2 * c < (n + 1) - (1 - ((n + 1) % 2))
        BY <1>1, <2>4, <3>4, SMTT(30)
      <4>2. n < Enough => offset = 0
        BY DEF TimeInv
      <4>3. n >= Enough /\ 2 * b < n - (1 - (n % 2)) => offset <= d
        BY Zenon DEF TimeInv, HonestMajority, Off
      <4> HIDE DEF b, c, n
      <4>4. n % 2 = 1 /\ 2 * b < n - (1 - (n % 2))
        BY <1>1, <2>6, <3>4, <4>1, SMTT(30)
      <4> QED
        BY <1>1, <3>1, <4>2, <4>3, <4>4, SMTT(30)
    <3>5. HonestMajority'
      BY <2>2, <3>2, <3>4, Zenon DEF HonestMajority, Off
    <3> QED
      BY <2>2, <2>3, <3>3, <3>5, Zenon DEF TimeInv
  <2> QED
    BY <2>5, <2>6, SMTT(30)
<1> QED
  BY <1>2, <1>3, Zenon

\* Only a version message adds a sample.
LEMMA TimeNextStep ==
    TimeInv /\ [AmNext(Nat, Nat, Int, Addr)]_<<amvars, tdvars>> => TimeInv'
<1> SUFFICES ASSUME TimeInv, [AmNext(Nat, Nat, Int, Addr)]_<<amvars, tdvars>>
             PROVE  TimeInv'
    OBVIOUS
<1>1. \/ UNCHANGED tdvars
      \/ \E a \in Addr, x \in Int : TdAdd(a, x)
    BY Zenon DEF AmNext, AddSeed, MarkSuccess, RemovePeer, Ban, HandleAddr, Refill, HandleVersion, AmTick
<1>2. CASE UNCHANGED tdvars
  <2>1. UNCHANGED <<samples, known, offset, checked>>
      BY <1>2 DEF tdvars
  <2>2. TdTypeOK' <=> TdTypeOK
      BY <2>1, Zenon DEF TdTypeOK
  <2>3. HonestMajority' <=> HonestMajority
      BY <2>1, <2>2, Zenon DEF HonestMajority
  <2> QED  BY <2>1, <2>3, Zenon DEF TimeInv
<1>3. CASE \E a \in Addr, x \in Int : TdAdd(a, x)
  <2>1. Addr \subseteq Source
      BY AddrAssumption
  <2> QED  BY <1>3, <2>1, AddStep, Zenon
<1> QED  BY <1>1, <1>2, <1>3

LEMMA TimeInvariant == AmSpec => []TimeInv
BY TimeInit, TimeNextStep, PTL DEF AmSpec

-----------------------------------------------------------------------------
(* Who is evicted.                                                         *)

\* The clock is past the first Horizon and some days of its era and does not
\* overflow, and the times of success are times.
ClockInv ==
    /\ clock \in 0..MaxClock /\ Horizon + FiveDays + Day + Penalty < clock
    /\ \A i \in DOMAIN addrs : addrs[i].last_success \in Nat

\* A time of the last Day, which does not go back or get ahead of the clock.
TimeKept(old, new) == old \in (Now - Day)..Now => new \in old..Now

\* No entry but a stale one is given to another address, or loses its time.
Kept ==
    /\ DOMAIN addrs \subseteq DOMAIN addrs'
    /\ \A i \in DOMAIN addrs' : addrs'[i].last_success \in Nat
    /\ \A i \in DOMAIN addrs :
          \/ addrs'[i].addr = addrs[i].addr /\ TimeKept(addrs[i].time, addrs'[i].time)
          \/ IsStale(addrs[i])

LEMMA RemainderOfLess == ASSUME NEW w \in Nat \ {0}, NEW x \in Nat, x < w PROVE x % w = x
OBVIOUS

LEMMA RemainderOfNegative ==
    ASSUME NEW w \in Nat \ {0}, NEW x \in Int, -w < x, x < 0 PROVE x % w = x + w
OBVIOUS

\* The unsigned difference, without and with a wrap.
LEMMA MinusExact ==
    ASSUME NEW x \in Int, NEW y \in Int, y <= x, x - y < Word PROVE Minus(x, y) = x - y
<1> DEFINE d == x - y
<1>1. Word \in Nat \ {0}
    BY AddrAssumption, Zenon
<1>2. d \in Nat /\ d < Word
    OBVIOUS
<1> HIDE DEF d
<1>3. d % Word = d
    BY <1>1, <1>2, RemainderOfLess, Zenon
<1> QED  BY <1>3, Zenon DEF d, Minus

LEMMA MinusWraps ==
    ASSUME NEW x \in Int, NEW y \in Int, x < y, y - x < Word
    PROVE  Minus(x, y) = x - y + Word
<1> DEFINE d == x - y
<1>1. Word \in Nat \ {0}
    BY AddrAssumption, Zenon
<1>2. d \in Int /\ -Word < d /\ d < 0
    BY <1>1
<1> HIDE DEF d
<1>3. d % Word = d + Word
    BY <1>1, <1>2, RemainderOfNegative, Zenon
<1> QED  BY <1>3, Zenon DEF d, Minus

\* The clock in ClockInv, with the limits of its arithmetic.
LEMMA NowRange ==
    ASSUME ClockInv, TdTypeOK
    PROVE  /\ Now \in Nat /\ Horizon + FiveDays + Day + Penalty < Now
           /\ Now + TenMinutes + Horizon < Word
           /\ Word \in Nat \ {0} /\ TenMinutes \in Nat /\ Hour \in Nat /\ Day \in Nat
           /\ Penalty \in Nat /\ FiveDays \in Nat /\ MinFail \in Nat /\ Horizon \in Nat
           /\ Earliest \in Nat /\ Day + Penalty <= Earliest
           /\ TenMinutes <= Penalty /\ Hour <= Day /\ Day <= Horizon
<1>1. /\ Word \in Nat \ {0} /\ TenMinutes \in Nat /\ Hour \in Nat /\ Day \in Nat
      /\ Penalty \in Nat /\ FiveDays \in Nat /\ MinFail \in Nat /\ Horizon \in Nat
      /\ Earliest \in Nat /\ MaxClock \in Nat
      /\ MaxClock + MaxOffset + TenMinutes + Horizon < Word
      /\ Day + Penalty <= Earliest
      /\ TenMinutes <= Penalty /\ Hour <= Day /\ Day <= Horizon
    BY AddrAssumption, Zenon
<1>2. MaxOffset \in Nat /\ offset \in 0..(MaxOffset - 1)
    BY TimeAssumption DEF TdTypeOK
<1>3. clock \in 0..MaxClock /\ Horizon + FiveDays + Day + Penalty < clock
    BY SMTT(30) DEF ClockInv
<1>4. /\ Now \in Nat /\ Horizon + FiveDays + Day + Penalty < Now
      /\ Now + TenMinutes + Horizon < Word
    BY <1>1, <1>2, <1>3, SMTT(30) DEF Now
<1> QED  BY <1>1, <1>4, Zenon

\* An address that answered within MinFail, and was heard of within Horizon, is
\* not stale.
LEMMA ProvenNotStale ==
    ASSUME ClockInv, TdTypeOK, NEW e, e.last_success \in Nat, e.last_success # 0,
           Now - e.last_success <= MinFail, e.time \in (Now - Horizon)..Now
    PROVE  ~IsStale(e)
<1>1. /\ Now \in Nat /\ Horizon < Now /\ Horizon < Word
      /\ TenMinutes \in Nat /\ MinFail \in Nat /\ Horizon \in Nat /\ Word \in Nat
  <2> HIDE DEF Now
  <2> QED  BY NowRange
<1> HIDE DEF Now
<1>2. e.time \in Nat /\ e.time # 0 /\ ~ (e.time > Now + TenMinutes)
    BY <1>1
<1>3. Now - e.time \in 0..Horizon /\ Now - e.time < Word
    BY <1>1, <1>2, SMTT(30)
<1>4. Minus(Now, e.time) = Now - e.time
    BY <1>1, <1>2, <1>3, MinusExact, SMTT(30)
<1>5. ~ (Minus(Now, e.time) > Horizon)
    BY <1>1, <1>3, <1>4, SMTT(30)
<1>6. ~ (Now - e.last_success > MinFail)
    BY <1>1
<1> QED  BY <1>2, <1>5, <1>6, Zenon DEF IsStale

\* What the callers of hsk_addrman_add_entry give it as a time.
Credible(t, src) ==
    \/ t = Now
    \/ src /\ t = Now - FiveDays
    \/ src /\ t \in Nat /\ Earliest < t /\ t <= Now + TenMinutes

\* News of an address that was heard of within the last Day.
LEMMA SeenTime ==
    ASSUME ClockInv, TdTypeOK, NEW old, IsEntry(old), NEW t, NEW src \in BOOLEAN,
           Credible(t, src), NEW counted, old.time \in (Now - Day)..Now
    PROVE  Seen(old, t, src, counted).time \in old.time..Now
<1> DEFINE interval == IF Minus(Now, t) < Day THEN Hour ELSE Day
           penalty  == IF src THEN Penalty ELSE 0
           newer    == IF old.time < Minus(Minus(t, interval), penalty)
                       THEN t ELSE old.time
<1> HIDE DEF Now
<1>1. /\ Now \in Nat /\ Horizon + FiveDays + Day + Penalty < Now
      /\ Now + TenMinutes + Horizon < Word
      /\ Word \in Nat \ {0} /\ TenMinutes \in Nat /\ Hour \in Nat /\ Day \in Nat
      /\ Penalty \in Nat /\ FiveDays \in Nat /\ Horizon \in Nat
      /\ Earliest \in Nat /\ Day + Penalty <= Earliest
      /\ TenMinutes <= Penalty /\ Hour <= Day /\ Day <= Horizon
    BY NowRange
<1>2. Seen(old, t, src, counted).time = newer
  <2>1. DOMAIN old = Field
      BY DEF IsEntry
  <2> QED  BY <2>1 DEF Seen, Field
<1>3. t \in Nat /\ Day + Penalty <= t /\ t <= Now + TenMinutes /\ (t <= Now \/ src)
    BY <1>1, SMTT(30) DEF Credible
<1>4. Now < t => interval = Day /\ penalty = Penalty
  <2>1. ASSUME Now < t PROVE Minus(Now, t) = Now - t + Word
    <3>1. t - Now < Word
        BY <1>1, <1>3, SMTT(30)
    <3> QED  BY <1>1, <1>3, <2>1, <3>1, MinusWraps, SMTT(30)
  <2>2. Now < t => ~ (Minus(Now, t) < Day)
      BY <1>1, <1>3, <2>1, SMTT(30)
  <2> QED  BY <1>1, <1>3, <2>2, SMTT(30)
<1>5. /\ interval \in Nat /\ interval <= Day /\ penalty \in Nat /\ penalty <= Penalty
    BY <1>1
<1> HIDE DEF interval, penalty
<1>6. Minus(Minus(t, interval), penalty) = t - interval - penalty
  <2>1. Minus(t, interval) = t - interval
    <3>1. interval <= t /\ t - interval < Word
        BY <1>1, <1>3, <1>5, SMTT(30)
    <3> QED  BY <1>3, <1>5, <3>1, MinusExact, SMTT(30)
  <2>2. t - interval \in Int /\ penalty <= t - interval /\ t - interval - penalty < Word
      BY <1>1, <1>3, <1>5, SMTT(30)
  <2> QED  BY <1>5, <2>1, <2>2, MinusExact, SMTT(30)
<1>7. CASE old.time < t - interval - penalty
  <2>1. newer = t
      BY <1>6, <1>7, SMTT(30)
  <2>2. old.time < t
      BY <1>3, <1>5, <1>7, <1>1, SMTT(30)
  <2>3. t <= Now
    <3>1. CASE Now < t
      <4>1. old.time < t - Day - Penalty
          BY <1>4, <1>7, <3>1, SMTT(30)
      <4> QED  BY <1>1, <1>3, <4>1, SMTT(30)
    <3> QED  BY <1>1, <1>3, <3>1, SMTT(30)
  <2> QED  BY <1>1, <1>2, <1>3, <2>1, <2>2, <2>3, SMTT(30)
<1>8. CASE ~ (old.time < t - interval - penalty)
  <2>1. newer = old.time
      BY <1>6, <1>8
  <2> QED  BY <1>1, <1>2, <2>1, SMTT(30)
<1> QED  BY <1>7, <1>8, SMTT(30)

\* The two ways in which the array changes.
LEMMA UnchangedTime ==
    ASSUME ClockInv, TdTypeOK, NEW t PROVE TimeKept(t, t)
<1> HIDE DEF Now
<1>1. Now \in Nat /\ Day \in Nat
    BY NowRange
<1> QED  BY <1>1 DEF TimeKept

LEMMA ChangeKeeps ==
    ASSUME AddrInv, ClockInv, TdTypeOK, NEW k \in DOMAIN addrs, NEW e, e.addr = addrs[k].addr,
           e.last_success \in Nat, TimeKept(addrs[k].time, e.time),
           addrs' = [addrs EXCEPT ![k] = e]
    PROVE  Kept
<1>1. DOMAIN addrs' = DOMAIN addrs
    OBVIOUS
<1>2. \A i \in DOMAIN addrs : addrs'[i] = IF i = k THEN e ELSE addrs[i]
    BY AddrsShape
<1>3. \A i \in DOMAIN addrs : TimeKept(addrs[i].time, addrs[i].time)
    BY UnchangedTime, Zenon
<1> QED  BY <1>1, <1>2, <1>3, Zenon DEF Kept, ClockInv

LEMMA PlaceKeeps ==
    ASSUME AddrInv, ClockInv, TdTypeOK, NEW i \in Nat, NEW a, NEW t, NEW index, Place(i, a, t, index),
           \/ i \in DOMAIN addrs /\ IsStale(addrs[i])
           \/ i = Len(addrs) + 1
    PROVE  Kept
<1> DEFINE n == IF i > Len(addrs) THEN i ELSE Len(addrs)
<1>1. Len(addrs) \in Nat /\ DOMAIN addrs = 1..Len(addrs)
    BY AddrsShape, AddrAssumption
<1>2. 1..n = DOMAIN addrs \cup {i} /\ (i \notin DOMAIN addrs \/ IsStale(addrs[i]))
    BY <1>1
<1>3. addrs' = [j \in 1..n |-> IF j = i THEN Entry(a, t) ELSE addrs[j]]
    BY Zenon DEF Place
<1> HIDE DEF n
<1>4. Entry(a, t).last_success = 0 /\ 0 \in Nat
    BY Zenon DEF Entry
<1>5. DOMAIN addrs' = 1..n /\ \A j \in 1..n : addrs'[j] = IF j = i THEN Entry(a, t) ELSE addrs[j]
    BY <1>3
<1>6. \A j \in DOMAIN addrs : TimeKept(addrs[j].time, addrs[j].time)
    BY UnchangedTime, Zenon
<1> QED  BY <1>2, <1>4, <1>5, <1>6, Zenon DEF Kept, ClockInv

LEMMA SameKeeps == ASSUME ClockInv, TdTypeOK, addrs' = addrs PROVE Kept
BY UnchangedTime, Zenon DEF Kept, ClockInv

LEMMA AddEntryKeeps ==
    ASSUME AddrInv, ClockInv, TdTypeOK, NEW a \in Addr, NEW t, NEW src \in BOOLEAN,
           AddEntry(a, t, src), Credible(t, src)
    PROVE  Kept
<1>1. CASE a \in DOMAIN map
  <2>1. PICK counted \in BOOLEAN :
            addrs' = [addrs EXCEPT ![map[a]] = Seen(@, t, src, counted)]
      BY <1>1 DEF AddEntry
  <2>2. map[a] \in DOMAIN addrs
      BY <1>1, EntryOf, ZenonT(40)
  <2> DEFINE old == addrs[map[a]]
             e   == Seen(old, t, src, counted)
  <2>3. IsEntry(old) /\ old.last_success \in Nat
      BY <2>2 DEF AddrInv, ClockInv
  <2>4. e.addr = old.addr /\ e.last_success = old.last_success
      BY <2>3 DEF Seen, IsEntry, Field
  <2>5. addrs' = [addrs EXCEPT ![map[a]] = e]
      BY <2>1, Zenon
  <2>6. TimeKept(old.time, e.time)
      BY <2>3, SeenTime, Zenon DEF TimeKept
  <2> HIDE DEF e
  <2> QED  BY <2>2, <2>3, <2>4, <2>5, <2>6, ChangeKeeps, ZenonT(40)
<1>2. CASE a \notin DOMAIN map /\ Len(addrs) < AddrMax
  <2>1. Place(Len(addrs) + 1, a, t, map) /\ Len(addrs) + 1 \in Nat
      BY <1>2, AddrsShape, AddrAssumption DEF AddEntry, AddNew
  <2> QED  BY <2>1, PlaceKeeps, Zenon
<1>3. CASE a \notin DOMAIN map /\ ~(Len(addrs) < AddrMax)
  <2>1. \/ \E i \in DOMAIN addrs : IsStale(addrs[i]) /\ Place(i, a, t, Evict(i))
        \/ addrs' = addrs
      BY <1>3 DEF AddEntry, AddNew
  <2>2. \A i \in DOMAIN addrs : i \in Nat
      BY AddrsShape
  <2> QED  BY <2>1, <2>2, PlaceKeeps, SameKeeps, Zenon
<1> QED  BY <1>1, <1>2, <1>3

LEMMA UpdateKeeps ==
    ASSUME AddrInv, ClockInv, TdTypeOK, NEW a, NEW e,
           a \in DOMAIN map =>
               /\ e.addr = addrs[map[a]].addr /\ e.last_success \in Nat
               /\ TimeKept(addrs[map[a]].time, e.time)
               /\ addrs' = [addrs EXCEPT ![map[a]] = e],
           a \notin DOMAIN map => addrs' = addrs
    PROVE  Kept
<1>1. CASE a \in DOMAIN map
  <2>1. PICK k \in DOMAIN addrs : k = map[a]
      BY <1>1, EntryOf, Zenon
  <2>2. /\ e.addr = addrs[k].addr /\ e.last_success \in Nat /\ addrs' = [addrs EXCEPT ![k] = e]
        /\ TimeKept(addrs[k].time, e.time)
      BY <1>1, <2>1, Zenon
  <2> QED  BY <2>2, ChangeKeeps, Zenon
<1>2. CASE a \notin DOMAIN map
    BY <1>2, SameKeeps
<1> QED  BY <1>1, <1>2, Zenon

LEMMA RefillKeeps ==
    ASSUME AddrInv, ClockInv, TdTypeOK, NEW k \in DOMAIN addrs, NEW i, Refill(addrs[k], i) PROVE Kept
<1> DEFINE old == addrs[k]
           a   == old.addr
<1>1. IsEntry(old) /\ a \in DOMAIN map /\ map[a] = k /\ old.last_success \in Nat
    BY Zenon DEF AddrInv, IndexExact, IsEntry, ClockInv
<1>2. CASE a \in BadKey
  <2> DEFINE e == [old EXCEPT !.removed = TRUE]
  <2>1. addrs' = [addrs EXCEPT ![k] = e]
      BY <1>1, <1>2 DEF Refill, Update
  <2>2. e.addr = a /\ e.last_success = old.last_success /\ TimeKept(old.time, e.time)
      BY <1>1, UnchangedTime, Zenon DEF IsEntry, Field
  <2> HIDE DEF e
  <2> QED  BY <1>1, <2>1, <2>2, ChangeKeeps, Zenon
<1>3. CASE a \notin BadKey
  <2> DEFINE e == [old EXCEPT !.attempts = @ + 1, !.last_attempt = Now]
  <2>1. addrs' = [addrs EXCEPT ![k] = e]
      BY <1>1, <1>3 DEF Refill, Update, Attempted
  <2>2. e.addr = a /\ e.last_success = old.last_success /\ TimeKept(old.time, e.time)
      BY <1>1, UnchangedTime, Zenon DEF IsEntry, Field
  <2> HIDE DEF e
  <2> QED  BY <1>1, <2>1, <2>2, ChangeKeeps, Zenon
<1> QED  BY <1>2, <1>3

LEMMA MarkSuccessKeeps ==
    ASSUME AddrInv, ClockInv, TdTypeOK, NEW a \in Addr, MarkSuccess(a) PROVE Kept
<1> DEFINE old == addrs[map[a]]
           e   == [old EXCEPT !.time = IF Minus(Now, @) > TwentyMinutes THEN Now ELSE @]
<1>1. a \in DOMAIN map => addrs' = [addrs EXCEPT ![map[a]] = e]
    BY DEF MarkSuccess, Update
<1>2. a \notin DOMAIN map => addrs' = addrs
    BY DEF MarkSuccess, Update
<1>3. a \in DOMAIN map => IsEntry(old) /\ old.last_success \in Nat
    BY Zenon DEF AddrInv, IndexExact, ClockInv
<1>4. a \in DOMAIN map => e.addr = old.addr /\ e.last_success \in Nat
    BY <1>3, Zenon DEF IsEntry, Field
<1>5. a \in DOMAIN map => TimeKept(old.time, e.time)
  <2>1. a \in DOMAIN map => e.time = Now \/ e.time = old.time
      BY <1>3, SMTT(30) DEF IsEntry, Field
  <2> HIDE DEF Now
  <2>2. TimeKept(old.time, Now)
    <3>1. Now \in Nat /\ Day \in Nat
        BY NowRange
    <3> QED  BY <3>1 DEF TimeKept
  <2> QED  BY <2>1, <2>2, UnchangedTime, Zenon
<1> HIDE DEF e
<1> QED  BY <1>1, <1>2, <1>4, <1>5, UpdateKeeps, Zenon

LEMMA HandleVersionKeeps ==
    ASSUME AddrInv, ClockInv, TdTypeOK, TdTypeOK', NEW a \in Addr, NEW x,
           HandleVersion(a, x)
    PROVE  Kept
<1> DEFINE now == clock + offset'
           old == addrs[map[a]]
           e   == [old EXCEPT !.last_success = now, !.last_attempt = now,
                              !.attempts = 0, !.used = TRUE]
<1>1. a \in DOMAIN map => addrs' = [addrs EXCEPT ![map[a]] = e]
    BY DEF HandleVersion, Update
<1>2. a \notin DOMAIN map => addrs' = addrs
    BY DEF HandleVersion, Update
<1>3. a \in DOMAIN map => IsEntry(old)
    BY EntryOf, Zenon
<1>4. now \in Nat
  <2>1. MaxOffset \in Nat /\ offset' \in 0..(MaxOffset - 1)
      BY TimeAssumption DEF TdTypeOK
  <2>2. PICK o \in Nat : offset' = o
      BY <2>1
  <2>3. clock \in Nat
      BY DEF ClockInv
  <2>4. clock + o \in Nat
      BY <2>3
  <2> QED  BY <2>2, <2>4, Zenon
<1>5. a \in DOMAIN map =>
          e.addr = old.addr /\ e.last_success = now /\ e.time = old.time
    BY <1>3 DEF IsEntry, Field
<1>6. TimeKept(old.time, old.time)
    BY UnchangedTime, Zenon
<1> HIDE DEF e, now
<1> QED  BY <1>1, <1>2, <1>4, <1>5, <1>6, UpdateKeeps, Zenon

\* What every step keeps.
LEMMA StepKeeps ==
    ASSUME AddrInv, ClockInv, TdTypeOK, TdTypeOK', [AmNext(Nat, Nat, Int, Addr)]_<<amvars, tdvars>>
    PROVE  Kept /\ ClockInv'
<1>1. ASSUME NEW a \in Addr, AddSeed(a) PROVE Kept
    BY <1>1, AddEntryKeeps, Zenon DEF AddSeed, Credible
<1>2. ASSUME NEW a \in Addr, NEW t \in Nat, HandleAddr(a, t) PROVE Kept
  <2> DEFINE u == IF t <= Earliest \/ t > Now + TenMinutes
                  THEN Now - FiveDays ELSE t
  <2>1. AddEntry(a, u, TRUE)
      BY <1>2, Zenon DEF HandleAddr
  <2>2. Credible(u, TRUE)
    <3> HIDE DEF Now
    <3>1. Now \in Nat /\ TenMinutes \in Nat /\ Earliest \in Nat
        BY NowRange
    <3> QED  BY <3>1 DEF Credible
  <2> HIDE DEF u
  <2> QED  BY <2>1, <2>2, AddEntryKeeps, Zenon
<1>3. ASSUME \/ \E a \in Addr : Ban(a) \/ RemovePeer(a)
             \/ AmTick
             \/ UNCHANGED <<amvars, tdvars>>
      PROVE  Kept
  <2>1. addrs' = addrs
      BY <1>3, Zenon DEF Ban, RemovePeer, AmTick, amvars
  <2> QED  BY <2>1, SameKeeps
<1>4. Kept
    BY <1>1, <1>2, <1>3, RefillKeeps, MarkSuccessKeeps, HandleVersionKeeps, Zenon DEF AmNext
<1>5. clock' = clock \/ (clock < MaxClock /\ clock' = clock + 1)
    BY ZenonT(40) DEF AmNext, AddSeed, MarkSuccess, RemovePeer, Ban, HandleAddr, Refill, HandleVersion,
                 AmTick, amvars
<1>6. clock' \in 0..MaxClock /\ Horizon + FiveDays + Day + Penalty < clock'
  <2>1. /\ Horizon \in Nat /\ FiveDays \in Nat /\ Day \in Nat /\ Penalty \in Nat
        /\ MaxClock \in Nat
      BY AddrAssumption, ZenonT(40)
  <2> QED  BY <1>5, <2>1, SMTT(30) DEF ClockInv
<1> QED  BY <1>4, <1>6, Zenon DEF ClockInv, Kept

-----------------------------------------------------------------------------
(* The theorems.                                                           *)

\* The ranges that hsk_addrman_add_entry asserts of ref_count hold, and the
\* array never outgrows HSK_ADDR_MAX, whichever it is.
THEOREM AddressTypes == AmSpec => []AmTypeOK
<1>1. AddrInv => AmTypeOK
    BY SMTT(30) DEF AddrInv, AmTypeOK, IsEntry
<1> QED  BY <1>1, AddrInvariant, PTL

\* Through seeds, gossip, eviction, dials and bans in any order, the map of
\* addrmgr.c leads from every stored address to its own entry, and from no other.
THEOREM IndexStaysExact == AmSpec => []IndexExact
<1>1. AddrInv => IndexExact
    BY DEF AddrInv
<1> QED  BY <1>1, AddrInvariant, PTL

\* However many peers report their clocks, and whatever they report, the offset
\* that hsk_timedata_add takes from them is no larger than the largest report
\* of the others, as long as these are the majority.
THEOREM MinorityMovesNoClock == AmSpec => []HonestMajority
<1>1. TimeInv => HonestMajority
    BY DEF TimeInv
<1> QED  BY <1>1, TimeInvariant, PTL

\* Seeds and gossip never displace an address that has proven itself while its
\* time is within Horizon and not ahead, and gossip never moves a time of the last
\* Day ahead of a clock that is not set back, whatever the size of the array and
\* the limits, when the clock is past the first Horizon and some days of its era:
\* a time of 0 stands for none in hsk_addrman_is_stale.
THEOREM ProvenStayIn ==
    AmSpec /\ clock > Horizon + FiveDays + Day + Penalty => ProvenKept
<1> DEFINE Proven(e) == e.last_success # 0 /\ Now - e.last_success <= MinFail
           A == \A i \in DOMAIN addrs :
                   LET e == addrs[i]
                   IN  e.last_success # 0 /\ Now - e.last_success <= MinFail =>
                        /\ e.time \in (Now - Horizon)..Now => addrs'[i].addr = e.addr
                        /\ e.time \in (Now - Day)..Now /\ Now <= Now'
                             => addrs'[i].time \in e.time..Now'
<1>1. ASSUME AddrInv, TimeInv, AddrInv', TimeInv', ClockInv,
             [AmNext(Nat, Nat, Int, Addr)]_<<amvars, tdvars>>
      PROVE  A /\ ClockInv'
  <2>1. TdTypeOK' /\ TdTypeOK
      BY <1>1, Zenon DEF TimeInv, HonestMajority
  <2>2. Kept /\ ClockInv'
      BY <1>1, <2>1, StepKeeps, Zenon
  <2>3. ASSUME NEW i \in DOMAIN addrs, Proven(addrs[i]),
               addrs[i].time \in (Now - Horizon)..Now
        PROVE  /\ addrs'[i].addr = addrs[i].addr
               /\ TimeKept(addrs[i].time, addrs'[i].time)
    <3>1. addrs[i].last_success \in Nat
        BY <1>1 DEF ClockInv
    <3>2. ~IsStale(addrs[i])
        BY <1>1, <2>1, <2>3, <3>1, ProvenNotStale, Zenon
    <3> QED  BY <2>2, <3>2, Zenon DEF Kept
  <2>4. ASSUME NEW i \in DOMAIN addrs, Proven(addrs[i]),
               addrs[i].time \in (Now - Day)..Now, Now <= Now'
        PROVE  addrs'[i].time \in addrs[i].time..Now'
    <3>1. PICK n \in Nat : n = Now
        BY <1>1, <2>1, NowRange
    <3>2. PICK m \in Nat : m = Now'
      <4>1. clock' \in Nat
          BY <2>2 DEF ClockInv
      <4>2. MaxOffset \in Nat /\ offset' \in 0..(MaxOffset - 1)
          BY <2>1, TimeAssumption DEF TdTypeOK
      <4>3. PICK o \in Nat : offset' = o
          BY <4>2
      <4>4. PICK c \in Nat : clock' = c
          BY <4>1, Zenon
      <4>5. c + o \in Nat
          OBVIOUS
      <4>6. Now' = c + o
          BY <4>3, <4>4, Zenon DEF Now
      <4> QED  BY <4>5, <4>6, Zenon
    <3>3. Day \in Nat /\ Horizon \in Nat /\ Day <= Horizon
        BY AddrAssumption
    <3> HIDE DEF Now, Proven
    <3>4. addrs[i].time \in (Now - Horizon)..Now
        BY <2>4, <3>1, <3>3
    <3>5. addrs'[i].time \in addrs[i].time..Now
        BY <2>3, <2>4, <3>4, Zenon DEF TimeKept
    <3>6. \A x, y : y \in x..n /\ n <= m /\ x \in (n - Day)..n => y \in x..m
        BY <3>3
    <3> QED  BY <2>4, <3>1, <3>2, <3>5, <3>6, Zenon
  <2> QED  BY <2>2, <2>3, <2>4, Zenon
<1>2. AmInit /\ clock > Horizon + FiveDays + Day + Penalty => ClockInv
  <2>1. /\ Horizon \in Nat /\ FiveDays \in Nat /\ Day \in Nat /\ Penalty \in Nat
        /\ MaxClock \in Nat
      BY AddrAssumption, Zenon
  <2> QED  BY <2>1 DEF AmInit, ClockInv
<1> HIDE DEF A
<1>3. AmSpec /\ clock > Horizon + FiveDays + Day + Penalty => [][A]_<<amvars, tdvars>>
    BY <1>1, <1>2, AddrInvariant, TimeInvariant, PTL DEF AmSpec
<1> QED  BY <1>3 DEF ProvenKept, A

=============================================================================
