------------------------------ MODULE HashMap ------------------------------
(***************************************************************************)
(* src/src/map.c: the open hash table under the address index, the header  *)
(* maps, the pending names and the cache.  The array of keys is a function *)
(* on 0..n-1, as are the flags; a bucket is empty, deleted or live.        *)
(***************************************************************************)
EXTENDS Naturals, FiniteSets, FiniteSetsExt

CONSTANTS
    MapKey,     \* keys
    MapVal,     \* MapVal[k]: values that key k is given
    Hash,       \* Hash[k]: what hash_func gives
    MaxBuckets  \* bound: the table is grown no further

ASSUME MapAssumption ==
    Hash \in [MapKey -> Nat] /\ DOMAIN MapVal = MapKey /\ MaxBuckets \in Nat

VARIABLES
    table,  \* [n, flags, keys, vals, size, occupied, upper]
    truth   \* what was set and not deleted since

mapvars == <<table, truth>>

NoKey == "none"
Nothing == [n |-> 0, flags |-> <<>>, keys |-> <<>>, vals |-> <<>>,
            size |-> 0, occupied |-> 0, upper |-> 0]

\* (uint32_t)(n * 0.77 + 0.5)
UpperBound(n) == (n * 77 + 50) \div 100

\* __hsk_roundup32, and at least four: the next power of two.
Rounded(n) ==
    LET double[p \in 4..(2 * n + 4)] == IF p >= n THEN p ELSE double[2 * p]
    IN  double[4]

\* The bucket after s steps of the probing.
At(k, n, s) == (Hash[k] + (s * (s + 1)) \div 2) % n
Wrapped(k, n, s) == s > 0 /\ At(k, n, s) = At(k, n, 0)

-----------------------------------------------------------------------------
(* Lookup.                                                                 *)

\* The step at which the loop of hsk_map_lookup and hsk_map_put stops: at an
\* empty bucket, at the key, or back at the first bucket.
Stop(m, k) == Min({s \in 0..(2 * m.n) :
    LET i == At(k, m.n, s)
    IN  \/ m.flags[i] = "empty"
        \/ m.flags[i] = "live" /\ m.keys[i] = k
        \/ Wrapped(k, m.n, s)})

\* Mutation: the search ends at a deleted bucket.
LookupShort(m, k) ==
    IF m.n = 0 THEN 0
    ELSE LET i == At(k, m.n, Min({s \in 0..(2 * m.n) :
                    LET j == At(k, m.n, s)
                    IN  \/ m.flags[j] # "live" \/ m.keys[j] = k
                        \/ Wrapped(k, m.n, s)}))
         IN  IF m.flags[i] = "live" /\ m.keys[i] = k THEN i ELSE m.n

\* hsk_map_lookup: a bucket, or n.
Lookup(m, k) ==
    IF m.n = 0 THEN 0
    ELSE LET s == Stop(m, k)
             i == At(k, m.n, s)
         IN  IF Wrapped(k, m.n, s) \/ m.flags[i] # "live" THEN m.n ELSE i

\* hsk_map_has and hsk_map_get.
MapHas(m, k) == Lookup(m, k) # m.n
MapGet(m, k) == IF MapHas(m, k) THEN {m.vals[Lookup(m, k)]} ELSE {}

-----------------------------------------------------------------------------
(* Resizing moves the entries within the same array.                       *)

\* The loops hold the arrays, the old flags and the new ones, the old bucket j
\* that comes next, and the entry in hand, if any, as a pair.
Grown(f, n) == [i \in 0..(n - 1) |-> IF i \in DOMAIN f THEN f[i] ELSE NoKey]
Unmoved(m, n) ==
    [keys |-> Grown(m.keys, n), vals |-> Grown(m.vals, n), old |-> m.flags,
     new |-> [i \in 0..(n - 1) |-> "empty"], j |-> 0, hand |-> <<>>]

\* The outer loop: the entry of bucket j, if it is still there, is taken out.
Take(r) ==
    IF r.old[r.j] = "live"
    THEN [r EXCEPT !.old[r.j] = "deleted", !.j = @ + 1,
                   !.hand = <<r.keys[r.j], r.vals[r.j]>>]
    ELSE [r EXCEPT !.j = @ + 1]

\* The inner loop: the entry in hand goes to the first bucket that is free in
\* the new flags, and what was there in the old table is placed next.
FreeBucket(new, k, n) ==
    At(k, n, Min({s \in 0..(2 * n) : new[At(k, n, s)] = "empty"}))
KickOut(r, n) ==
    LET i == FreeBucket(r.new, r.hand[1], n)
        kicked == i \in DOMAIN r.old /\ r.old[i] = "live"
    IN  [r EXCEPT !.keys[i] = r.hand[1], !.vals[i] = r.hand[2], !.new[i] = "live",
                  !.old = IF kicked THEN [@ EXCEPT ![i] = "deleted"] ELSE @,
                  !.hand = IF kicked THEN <<r.keys[i], r.vals[i]>> ELSE <<>>]

\* An iteration of either loop; the loops are over when it changes nothing.
Moved(r, n) ==
    IF r.hand # <<>> THEN KickOut(r, n)
    ELSE IF r.j \in DOMAIN r.old THEN Take(r)
    ELSE r

\* Every bucket is looked at once, and every entry is placed once.
Rehash(m, n) ==
    LET after[c \in 0..(2 * m.n)] ==
            IF c = 0 THEN Unmoved(m, n) ELSE Moved(after[c - 1], n)
    IN  after[2 * m.n]

\* hsk_map_resize; it never makes a table smaller as it is called here.
Resize(m, to) ==
    LET n == Rounded(to)
        r == Rehash(m, n)
    IN  IF m.size >= UpperBound(n) THEN m
        ELSE [n |-> n, flags |-> r.new, keys |-> r.keys, vals |-> r.vals,
              size |-> m.size, occupied |-> m.size, upper |-> UpperBound(n)]

-----------------------------------------------------------------------------
(* hsk_map_put and the operations on top of it.                            *)

Full(m) == m.occupied >= m.upper
Request(m) == IF m.n > 2 * m.size THEN m.n - 1 ELSE m.n + 1
Ready(m) == IF Full(m) THEN Resize(m, Request(m)) ELSE m

\* The bucket put chooses: the last deleted one on the way, unless the key is
\* there.
Bucket(m, k) ==
    LET s == Stop(m, k)
        i == At(k, m.n, s)
        passed == {t \in 0..s : t < s /\ m.flags[At(k, m.n, t)] = "deleted"}
        site == At(k, m.n, Max(passed))
    IN  IF passed # {} /\ (Wrapped(k, m.n, s) \/ m.flags[i] = "empty")
        THEN site ELSE i

Put(m, k, v) ==
    LET x == Bucket(m, k)
    IN  [m EXCEPT !.keys[x] = k, !.vals[x] = v, !.flags[x] = "live",
                  !.size = @ + (IF m.flags[x] = "live" THEN 0 ELSE 1),
                  !.occupied = @ + (IF m.flags[x] = "empty" THEN 1 ELSE 0)]

MapInit ==
    /\ table = Nothing
    /\ truth = [k \in MapKey |-> {}]

\* hsk_map_set.
MapSet(k, v) ==
    /\ Ready(table).n <= MaxBuckets
    /\ table' = Put(Ready(table), k, v)
    /\ truth' = [truth EXCEPT ![k] = {v}]

\* hsk_map_del and hsk_map_delete.
MapDel(k) ==
    LET x == Lookup(table, k)
    IN  /\ MapHas(table, k)
        /\ table' = [table EXCEPT !.flags[x] = "deleted", !.size = @ - 1,
                              !.keys[x] = NoKey, !.vals[x] = NoKey]
        /\ truth' = [truth EXCEPT ![k] = {}]

\* hsk_map_clear and hsk_map_reset.
MapClear ==
    /\ table' = [table EXCEPT !.flags = [i \in DOMAIN @ |-> "empty"],
                          !.keys = [i \in DOMAIN @ |-> NoKey],
                          !.vals = [i \in DOMAIN @ |-> NoKey],
                          !.size = 0, !.occupied = 0]
    /\ truth' = [k \in MapKey |-> {}]

MapNext ==
    \/ \E k \in MapKey : MapDel(k) \/ \E v \in MapVal[k] : MapSet(k, v)
    \/ MapClear

MapSpec == MapInit /\ [][MapNext]_mapvars

-----------------------------------------------------------------------------
(* Properties.                                                             *)

\* The counters count, and one bucket at least is always empty, so that every
\* search comes to an end.
MapTypeOK ==
    LET Of(f) == Cardinality({i \in DOMAIN table.flags : table.flags[i] = f})
    IN  /\ DOMAIN table.flags = {i \in 0..MaxBuckets : i < table.n}
        /\ table.size = Of("live")
        /\ table.occupied = Of("live") + Of("deleted")
        /\ table.occupied <= table.upper
        /\ table.n > 0 => Of("empty") > 0

\* After any sequence of calls, with collisions, deleted buckets that are used
\* again and tables that were rehashed in place, the map holds exactly what
\* was set and not deleted, and every search for a key comes to its end.
MapExact ==
    /\ MapTypeOK
    /\ \A k \in MapKey : MapGet(table, k) = truth[k]

=============================================================================
