--------------------------- MODULE HashMapProofs ---------------------------
(***************************************************************************)
(* Module HashMap, for any keys, any hash function and every sequence of   *)
(* calls.  The steps of the probing add up to triangular numbers, and the  *)
(* first n of these differ modulo n when n is a power of two: a search     *)
(* meets every bucket before it is back at its first.  The invariant says  *)
(* of each live bucket that a search for its key comes to it before it     *)
(* comes to an empty one; a deleted bucket is not empty, so deletions keep *)
(* that.  The rehash within the arrays has an invariant of its own, over   *)
(* the entries in the old table, in the new one and in hand.               *)
(***************************************************************************)
EXTENDS HashMap, FiniteSetTheorems, WellFoundedInduction, TLAPS

\* A nonempty set of numbers has a least one, ...
LEMMA LeastOf ==
    ASSUME NEW T \in SUBSET Nat, T # {}
    PROVE  \E n \in T : \A m \in T : n <= m
<1> DEFINE R == OpToRel(<, Nat)
<1>1. IsWellFoundedOn(R, Nat)
  BY NatLessThanWellFounded, Zenon
<1>2. \A a, b \in Nat : <<a, b>> \in R <=> a < b
  BY DEF OpToRel
<1> HIDE DEF R
<1>3. PICK x \in T : \A y \in T : ~ (<<y, x>> \in R)
  BY <1>1, WFMin, Zenon
<1>4. ASSUME NEW y \in T PROVE x <= y
  <2>1. x \in Nat /\ y \in Nat /\ ~ (<<y, x>> \in R)
    BY <1>3
  <2> QED
    BY <1>2, <2>1
<1> QED
  BY <1>4

\* ... so that what holds of 0, and of n + 1 when it holds of n, holds of all.
LEMMA FromZeroOn ==
    ASSUME NEW T \in SUBSET Nat, 0 \in T, \A n \in T : n + 1 \in T
    PROVE  T = Nat
<1> SUFFICES ASSUME Nat \ T # {} PROVE FALSE
  BY Zenon
<1>1. PICK n \in Nat \ T : \A m \in Nat \ T : n <= m
  BY LeastOf, Zenon
<1>2. n # 0 /\ n - 1 \in Nat
  BY <1>1
<1>3. n - 1 \in T
  BY <1>1, <1>2
<1> QED
  BY <1>1, <1>2, <1>3

----------------------------------------------------------------------------
(* The probing of map.c.                                                   *)

\* Division.
LEMMA DivMod ==
    ASSUME NEW a \in Int, NEW k \in Nat \ {0}
    PROVE  a \div k \in Int /\ a % k \in 0..(k - 1) /\ a = k * (a \div k) + (a % k)
OBVIOUS

LEMMA ProductAtLeast ==
    ASSUME NEW k \in Nat \ {0}, NEW d \in Nat \ {0}
    PROVE  k * d >= k
OBVIOUS

\* Quotient and remainder are unique.
LEMMA ModUnique ==
    ASSUME NEW a \in Int, NEW k \in Nat \ {0}, NEW q \in Int, NEW r \in 0..(k - 1),
           a = k * q + r
    PROVE  a % k = r
<1> DEFINE p == a \div k
           m == a % k
<1>1. p \in Int /\ m \in 0..(k - 1) /\ a = k * p + m
  BY DivMod, SMTT(30)
<1> HIDE DEF p, m
<1>2. k * p + m = k * q + r
  BY <1>1
<1>3. k * (p - q) = r - m /\ k * (q - p) = m - r
  BY <1>1, <1>2
<1>4. ~(p > q)
  BY <1>1, <1>3, ProductAtLeast
<1>5. ~(q > p)
  BY <1>1, <1>3, ProductAtLeast
<1>6. p = q
  BY <1>1, <1>4, <1>5
<1> QED
  BY <1>1, <1>2, <1>6 DEF m

\* How far the probing is from its first bucket after s steps.
Tri(s) == (s * (s + 1)) \div 2

LEMMA TriExact == \A s \in Nat : Tri(s) \in Nat /\ 2 * Tri(s) = s * (s + 1)
<1> DEFINE T == {s \in Nat : Tri(s) \in Nat /\ 2 * Tri(s) = s * (s + 1)}
<1>1. 0 \in T
  BY DEF Tri
<1>2. ASSUME NEW s \in T PROVE s + 1 \in T
  <2> DEFINE p == s * (s + 1)
  <2>1. s \in Nat /\ p \in Nat /\ 2 * (p \div 2) = p /\ p \div 2 \in Nat
    BY <1>2 DEF Tri
  <2>2. (s + 1) * ((s + 1) + 1) = p + 2 * (s + 1)
    BY <2>1
  <2> HIDE DEF p
  <2>3. (p + 2 * (s + 1)) \div 2 = (p \div 2) + (s + 1)
    BY <2>1
  <2>4. Tri(s + 1) = (p \div 2) + (s + 1)
    BY <2>2, <2>3 DEF Tri
  <2> QED
    BY <2>1, <2>2, <2>4
<1>3. T = Nat
  <2>1. T \subseteq Nat
    OBVIOUS
  <2> HIDE DEF T
  <2> QED
    BY <1>1, <1>2, <2>1, FromZeroOn, Zenon
<1> QED
  BY <1>3

\* The probing of n buckets meets every one, and does not meet the first again
\* before it has met them all.
Probes(n) ==
    /\ n \in Nat /\ n >= 4 /\ \E half \in Nat : n = 2 * half
    /\ \A r \in 0..(n - 1) : \E s \in 0..(n - 1), q \in Int : Tri(s) = n * q + r
    /\ \A s \in 1..(n - 1), q \in Int : Tri(s) # n * q

LEMMA ProbesFour == Probes(4)
<1>1. /\ Tri(0) = 0 /\ Tri(1) = 1 /\ Tri(2) = 3 /\ Tri(3) = 6
  BY DEF Tri
<1>2. ASSUME NEW r \in 0..3 PROVE \E s \in 0..3, q \in Int : Tri(s) = 4 * q + r
  <2>1. r = 0 \/ r = 1 \/ r = 2 \/ r = 3
    OBVIOUS
  <2>2. CASE r = 0
    BY <1>1, <2>2
  <2>3. CASE r = 1
    BY <1>1, <2>3
  <2>4. CASE r = 2
    <3>1. Tri(3) = 4 * 1 + r
      BY <1>1, <2>4
    <3> QED
      BY <3>1
  <2>5. CASE r = 3
    BY <1>1, <2>5
  <2> QED
    BY <2>1, <2>2, <2>3, <2>4, <2>5
<1>3. ASSUME NEW s \in 1..3, NEW q \in Int PROVE Tri(s) # 4 * q
  <2>1. s = 1 \/ s = 2 \/ s = 3
    OBVIOUS
  <2> QED
    BY <1>1, <2>1
<1>4. 4 = 2 * 2
  OBVIOUS
<1> QED
  BY <1>2, <1>3, <1>4 DEF Probes

\* Seen from the far end of twice as many steps.
LEMMA TriMirror ==
    ASSUME NEW n \in Nat, NEW s \in Nat, NEW t \in Nat, s + t = 2 * n - 1
    PROVE  Tri(t) = 2 * n * (n - s) - n + Tri(s)
<1>1. /\ Tri(s) \in Nat /\ 2 * Tri(s) = s * (s + 1)
      /\ Tri(t) \in Nat /\ 2 * Tri(t) = t * (t + 1)
  BY TriExact
<1>2. t = 2 * n - 1 - s
  OBVIOUS
<1>3. (2 * n - 1 - s) * ((2 * n - 1 - s) + 1) = 2 * (2 * n * (n - s) - n) + s * (s + 1)
  OBVIOUS
<1>4. t * (t + 1) = 2 * (2 * n * (n - s) - n) + s * (s + 1)
  BY <1>2, <1>3
<1> QED
  BY <1>1, <1>4

LEMMA ProbesDouble ==
    ASSUME NEW n, Probes(n)
    PROVE  Probes(2 * n)
<1>1. n \in Nat /\ n >= 4 /\ 2 * n \in Nat /\ 2 * n >= 4
  BY DEF Probes
<1>2. ASSUME NEW r \in 0..(2 * n - 1)
      PROVE  \E s \in 0..(2 * n - 1), q \in Int : Tri(s) = 2 * n * q + r
  <2>1. PICK s \in 0..(n - 1), q \in Int : Tri(s) = n * q + r
    <3>1. CASE r < n
      <4>1. r \in 0..(n - 1)
        BY <1>1, <3>1
      <4> QED
        BY <4>1, Zenon DEF Probes
    <3>2. CASE r >= n
      <4>1. r - n \in 0..(n - 1)
        BY <1>1, <3>2
      <4>2. PICK s \in 0..(n - 1), q \in Int : Tri(s) = n * q + (r - n)
        BY <4>1, Zenon DEF Probes
      <4>3. Tri(s) = n * (q - 1) + r /\ q - 1 \in Int
        BY <1>1, <4>2
      <4> QED
        BY <4>3
    <3> QED
      BY <1>1, <3>1, <3>2
  <2>2. PICK h \in Int : q = 2 * h \/ q = 2 * h + 1
    <3>1. q \div 2 \in Int /\ (q = 2 * (q \div 2) \/ q = 2 * (q \div 2) + 1)
      OBVIOUS
    <3> QED
      BY <3>1
  <2>3. CASE q = 2 * h
    <3>1. Tri(s) = 2 * n * h + r
      BY <1>1, <2>1, <2>3
    <3>2. s \in 0..(2 * n - 1)
      BY <1>1
    <3> QED
      BY <3>1, <3>2
  <2>4. CASE q = 2 * h + 1
    <3> DEFINE t == 2 * n - 1 - s
    <3>1. t \in 0..(2 * n - 1) /\ t \in Nat /\ s + t = 2 * n - 1 /\ s \in Nat
      BY <1>1
    <3> HIDE DEF t
    <3>2. Tri(t) = 2 * n * (n - s) - n + Tri(s)
      BY <1>1, <3>1, TriMirror
    <3>3. Tri(s) = n * (2 * h + 1) + r
      BY <2>1, <2>4
    <3>4. n * (2 * h + 1) = 2 * n * h + n
      BY <1>1
    <3>5. 2 * n * (n - s) + 2 * n * h = 2 * n * (n - s + h)
      BY <1>1, <3>1
    <3>6. Tri(t) = 2 * n * (n - s + h) + r /\ n - s + h \in Int
      BY <1>1, <3>1, <3>2, <3>3, <3>4, <3>5
    <3> QED
      BY <3>1, <3>6
  <2> QED
    BY <2>2, <2>3, <2>4
<1>3. ASSUME NEW s \in 1..(2 * n - 1), NEW q \in Int, Tri(s) = 2 * n * q PROVE FALSE
  <2>1. CASE s <= n - 1
    <3>1. Tri(s) = n * (2 * q) /\ 2 * q \in Int /\ s \in 1..(n - 1)
      BY <1>1, <1>3, <2>1
    <3> QED
      BY <3>1, Zenon DEF Probes
  <2>2. CASE s >= n
    <3> DEFINE t == 2 * n - 1 - s
               k == 2 * q - 2 * (n - t) + 1
    <3>1. t \in 0..(n - 1) /\ t \in Nat /\ t + s = 2 * n - 1 /\ s \in Nat
      BY <1>1, <2>2
    <3> HIDE DEF t
    <3>2. Tri(s) = 2 * n * (n - t) - n + Tri(t) /\ Tri(t) \in Nat
      BY <1>1, <3>1, TriMirror, TriExact, Zenon
    <3>3. n * k = 2 * n * q - 2 * n * (n - t) + n
      BY <1>1, <3>1
    <3>4. k \in Int /\ k # 0
      BY <1>1, <3>1
    <3> HIDE DEF k
    <3>5. Tri(t) = n * k
      BY <1>1, <1>3, <3>1, <3>2, <3>3
    <3>6. CASE t = 0
      <4>1. n * k = 0
        BY <3>5, <3>6 DEF Tri
      <4> QED
        BY <1>1, <3>4, <4>1
    <3>7. CASE t # 0
      BY <3>1, <3>4, <3>5, <3>7 DEF Probes
    <3> QED
      BY <3>6, <3>7
  <2> QED
    BY <1>1, <2>1, <2>2
<1> QED
  BY <1>1, <1>2, <1>3 DEF Probes

\* From any first bucket.
LEMMA ProbingMeetsAll ==
    ASSUME NEW n, Probes(n), NEW k \in MapKey
    PROVE  /\ \A s \in Nat : At(k, n, s) \in 0..(n - 1)
           /\ \A i \in 0..(n - 1) : \E s \in 0..(n - 1) : At(k, n, s) = i
           /\ \A s \in 0..(n - 1) : ~Wrapped(k, n, s)
<1> DEFINE h == Hash[k]
<1>0. h \in Nat /\ n \in Nat \ {0} /\ n \in Nat /\ \A s \in Nat : Tri(s) \in Nat
  BY MapAssumption, TriExact DEF Probes
<1>2. \A s \in Nat : At(k, n, s) = (h + Tri(s)) % n
  BY DEF At, Tri
<1> HIDE DEF h
<1>1. PICK a \in Int, b \in 0..(n - 1) : h = n * a + b
  <2>1. h \in Int
    BY <1>0
  <2>2. h \div n \in Int /\ h % n \in 0..(n - 1) /\ h = n * (h \div n) + (h % n)
    BY <1>0, <2>1, DivMod, Zenon
  <2> QED
    BY <2>2
<1>3. ASSUME NEW s \in Nat PROVE At(k, n, s) \in 0..(n - 1)
  <2>1. h + Tri(s) \in Int
    BY <1>0
  <2> QED
    BY <1>0, <1>2, <2>1, DivMod, Zenon
<1>4. ASSUME NEW i \in 0..(n - 1) PROVE \E s \in 0..(n - 1) : At(k, n, s) = i
  <2>1. PICK r \in 0..(n - 1), c \in Int : b + r = n * c + i
    <3>1. CASE i >= b
      <4>1. i - b \in 0..(n - 1) /\ b + (i - b) = n * 0 + i
        BY <1>0, <1>1, <3>1
      <4> QED
        BY <4>1
    <3>2. CASE i < b
      <4>1. i - b + n \in 0..(n - 1) /\ b + (i - b + n) = n * 1 + i
        BY <1>0, <1>1, <3>2
      <4> QED
        BY <4>1
    <3> QED
      BY <1>1, <3>1, <3>2
  <2>2. PICK s \in 0..(n - 1), q \in Int : Tri(s) = n * q + r
    BY Zenon DEF Probes
  <2>3. n * (a + q + c) = n * a + n * q + n * c
    BY <1>0, <1>1
  <2>4. h + Tri(s) = n * (a + q + c) + i /\ a + q + c \in Int /\ h + Tri(s) \in Int
    BY <1>0, <1>1, <2>1, <2>2, <2>3
  <2>5. (h + Tri(s)) % n = i
    BY <1>0, <2>4, ModUnique, Zenon
  <2> QED
    BY <1>2, <2>5
<1>5. ASSUME NEW s \in 0..(n - 1), Wrapped(k, n, s) PROVE FALSE
  <2>1. s \in 1..(n - 1) /\ s \in Nat /\ At(k, n, s) = At(k, n, 0)
    BY <1>0, <1>5 DEF Wrapped
  <2>2. At(k, n, 0) = b
    <3>1. Tri(0) = 0
      BY DEF Tri
    <3>2. h + Tri(0) = n * a + b /\ h + Tri(0) \in Int
      BY <1>0, <1>1, <3>1
    <3> QED
      BY <1>0, <1>1, <1>2, <3>2, ModUnique, Zenon
  <2>3. PICK d \in Int : h + Tri(s) = n * d + b
    <3>1. h + Tri(s) \in Int /\ (h + Tri(s)) % n = b
      BY <1>0, <1>2, <2>1, <2>2
    <3> QED
      BY <1>0, <3>1, DivMod, Zenon
  <2>4. n * (d - a) = n * d - n * a
    BY <1>0, <1>1, <2>3
  <2>5. Tri(s) = n * (d - a) /\ d - a \in Int
    BY <1>0, <1>1, <2>1, <2>3, <2>4
  <2> QED
    BY <2>1, <2>5 DEF Probes
<1> QED
  BY <1>3, <1>4, <1>5

\* One step of the recursion of Rounded.
Doubles(n) == 4..(2 * n + 4)
DoubleStep(g, p, n) == IF p >= n THEN p ELSE g[2 * p]
AreDoubles(g, n) == g = [p \in Doubles(n) |-> DoubleStep(g, p, n)]

LEMMA DoublesExist ==
    ASSUME NEW n \in Nat
    PROVE  \E g : AreDoubles(g, n) /\ Rounded(n) = g[4]
<1>1. /\ \A p \in Doubles(n) : p \in Nat /\ 2 * n + 4 - p \in Nat
      /\ \A p \in Doubles(n) : p < n => 2 * p \in Doubles(n) /\ 2 * p > p
  BY DEF Doubles
<1> DEFINE Upto(d, f) == /\ f = [p \in Doubles(n) |-> f[p]]
                         /\ \A p \in Doubles(n) :
                               2 * n + 4 - p < d => f[p] = DoubleStep(f, p, n)
           T == {d \in Nat : \E f : Upto(d, f)}
<1>2. 0 \in T
  <2> DEFINE f == [p \in Doubles(n) |-> 0]
  <2>1. f = [p \in Doubles(n) |-> f[p]]
    OBVIOUS
  <2> HIDE DEF f
  <2> QED
    BY <1>1, <2>1
<1>3. ASSUME NEW d \in T PROVE d + 1 \in T
  <2>1. PICK f : Upto(d, f)
    BY <1>3
  <2> DEFINE h == [p \in Doubles(n) |-> DoubleStep(f, p, n)]
  <2>2. ASSUME NEW p \in Doubles(n), 2 * n + 4 - p < d + 1 PROVE h[p] = DoubleStep(h, p, n)
    <3>1. \A c \in Doubles(n) : 2 * n + 4 - c < d => h[c] = f[c]
      BY <2>1
    <3>2. h[p] = DoubleStep(f, p, n)
      OBVIOUS
    <3> HIDE DEF h
    <3>3. p < n => h[2 * p] = f[2 * p]
      <4>1. d \in Nat
        BY <1>3
      <4> QED
        BY <1>1, <2>2, <3>1, <4>1
    <3> QED
      BY <1>1, <3>2, <3>3 DEF DoubleStep
  <2>3. h = [p \in Doubles(n) |-> h[p]]
    OBVIOUS
  <2> HIDE DEF h
  <2>4. Upto(d + 1, h)
    BY <2>2, <2>3
  <2> QED
    BY <2>4
<1>4. T = Nat
  <2>1. T \subseteq Nat
    OBVIOUS
  <2> HIDE DEF T
  <2> QED
    BY <1>2, <1>3, <2>1, FromZeroOn, Zenon
<1>5. 2 * n + 5 \in T
  <2> HIDE DEF T
  <2> QED
    BY <1>4
<1>6. PICK f : Upto(2 * n + 5, f)
  BY <1>5
<1>7. \A p \in Doubles(n) : f[p] = DoubleStep(f, p, n)
  BY <1>1, <1>6
<1>8. AreDoubles(f, n)
  BY <1>6, <1>7 DEF AreDoubles
<1>9. Rounded(n) = (CHOOSE g : AreDoubles(g, n))[4]
  BY Zenon DEF Rounded, AreDoubles, Doubles, DoubleStep
<1>10. AreDoubles(CHOOSE g : AreDoubles(g, n), n)
  BY <1>8, Zenon
<1> QED
  BY <1>9, <1>10, Zenon

\* The size that hsk_map_resize chooses is large enough and can be probed.
LEMMA RoundedProbes ==
    ASSUME NEW n \in Nat
    PROVE  Probes(Rounded(n)) /\ Rounded(n) >= n
<1>1. PICK g : AreDoubles(g, n) /\ Rounded(n) = g[4]
  BY DoublesExist
<1> DEFINE Good(p) == Probes(g[p]) /\ g[p] >= n
           T == {d \in Nat : \A p \in Doubles(n) :
                               Probes(p) /\ 2 * n + 4 - p < d => Good(p)}
<1>2. 0 \in T
  BY DEF Doubles
<1>3. ASSUME NEW d \in T PROVE d + 1 \in T
  <2>1. ASSUME NEW p \in Doubles(n), Probes(p), 2 * n + 4 - p < d + 1 PROVE Good(p)
    <3>1. g[p] = DoubleStep(g, p, n)
      BY <1>1 DEF AreDoubles
    <3>2. CASE p >= n
      <4>1. g[p] = p
        BY <3>1, <3>2 DEF DoubleStep
      <4> QED
        BY <2>1, <3>2, <4>1
    <3>3. CASE ~(p >= n)
      <4>1. g[p] = g[2 * p]
        BY <3>1, <3>3 DEF DoubleStep
      <4>2. 2 * p \in Doubles(n) /\ 2 * n + 4 - 2 * p < d /\ Probes(2 * p)
        BY <1>3, <2>1, <3>3, ProbesDouble DEF Doubles
      <4>3. Good(2 * p)
        BY <1>3, <4>2
      <4> QED
        BY <4>1, <4>3
    <3> QED
      BY <3>2, <3>3
  <2> QED
    BY <2>1
<1>4. T = Nat
  <2>1. T \subseteq Nat
    OBVIOUS
  <2> HIDE DEF T
  <2> QED
    BY <1>2, <1>3, <2>1, FromZeroOn, Zenon
<1>5. 2 * n + 5 \in T
  <2> HIDE DEF T
  <2> QED
    BY <1>4
<1>6. 4 \in Doubles(n) /\ 2 * n + 4 - 4 < 2 * n + 5
  BY DEF Doubles
<1>7. Good(4)
  BY <1>5, <1>6, ProbesFour
<1> QED
  BY <1>1, <1>7

----------------------------------------------------------------------------
(* The table.                                                              *)

Flag == {"empty", "deleted", "live"}

\* The arrays of a table of n buckets, of which one is empty.
Field == {"n", "flags", "keys", "vals", "size", "occupied", "upper"}
IsTable(m) ==
    /\ DOMAIN m = Field
    /\ Probes(m.n)
    /\ m.flags \in [0..(m.n - 1) -> Flag]
    /\ DOMAIN m.keys = 0..(m.n - 1) /\ DOMAIN m.vals = 0..(m.n - 1)
    /\ \E i \in 0..(m.n - 1) : m.flags[i] = "empty"

Live(m, i) == m.flags[i] = "live"

\* The least number of a set is in it and below the others.
LEMMA MinOf ==
    ASSUME NEW T \in SUBSET Nat, T # {}
    PROVE  Min(T) \in T /\ \A t \in T : Min(T) <= t
<1>1. \E x \in T : \A y \in T : x <= y
  BY LeastOf, Zenon
<1> QED
  BY <1>1, Zenon DEF Min

\* In a table with an empty bucket the search ends, at an empty bucket or at the
\* key, before it comes back to the first bucket.
LEMMA SearchEnds ==
    ASSUME NEW m, IsTable(m), NEW k \in MapKey
    PROVE  LET s == Stop(m, k)
               i == At(k, m.n, s)
           IN  /\ s \in 0..(m.n - 1) /\ i \in 0..(m.n - 1)
               /\ ~Wrapped(k, m.n, s)
               /\ m.flags[i] = "empty" \/ (Live(m, i) /\ m.keys[i] = k)
               /\ \A t \in 0..(m.n - 1) : t < s =>
                     LET j == At(k, m.n, t)
                     IN  m.flags[j] # "empty" /\ ~(Live(m, j) /\ m.keys[j] = k)
<1> DEFINE Ends(s) == \/ m.flags[At(k, m.n, s)] = "empty"
                      \/ m.flags[At(k, m.n, s)] = "live" /\ m.keys[At(k, m.n, s)] = k
                      \/ Wrapped(k, m.n, s)
           T == {s \in 0..(2 * m.n) : Ends(s)}
<1>0. Probes(m.n)
  BY DEF IsTable
<1>1. m.n \in Nat /\ Probes(m.n) /\ 0..(m.n - 1) \subseteq 0..(2 * m.n)
  <2>1. m.n \in Nat
    BY <1>0 DEF Probes
  <2> QED
    BY <1>0, <2>1
<1>2. PICK i \in 0..(m.n - 1) : m.flags[i] = "empty"
  BY DEF IsTable
<1>3. PICK s0 \in 0..(m.n - 1) : At(k, m.n, s0) = i
  BY <1>1, ProbingMeetsAll
<1>4. s0 \in T
  BY <1>1, <1>2, <1>3
<1>5. Stop(m, k) = Min(T)
  BY DEF Stop
<1>6. T \in SUBSET Nat
  BY <1>1
<1> HIDE DEF T
<1>7. PICK x \in T : x = Min(T) /\ \A t \in T : x <= t
  BY <1>4, <1>6, MinOf, Zenon
<1>8. x \in 0..(m.n - 1)
  <2>1. x \in Nat /\ x <= s0
    BY <1>4, <1>6, <1>7
  <2> QED
    BY <1>1, <2>1
<1>9. At(k, m.n, x) \in 0..(m.n - 1) /\ ~Wrapped(k, m.n, x)
  BY <1>1, <1>8, ProbingMeetsAll
<1>10. Ends(x)
  BY <1>7, Zenon DEF T
<1>11. ASSUME NEW t \in 0..(m.n - 1), t < x
       PROVE  /\ m.flags[At(k, m.n, t)] # "empty"
              /\ ~(Live(m, At(k, m.n, t)) /\ m.keys[At(k, m.n, t)] = k)
  <2>1. t \notin T
    BY <1>1, <1>7, <1>8, <1>11
  <2> QED
    BY <1>1, <2>1 DEF T, Live
<1> QED
  BY <1>5, <1>7, <1>8, <1>9, <1>10, <1>11 DEF Live

\* A search for key k that starts over meets bucket i before an empty one.
Reaches(flags, n, k, i) ==
    \E s \in 0..(n - 1) :
        /\ At(k, n, s) = i
        /\ \A t \in 0..(n - 1) : t < s => flags[At(k, n, t)] # "empty"

\* The table holds what was set: every live bucket an entry where the search
\* for its key leads, every key once, and every key.
Holds(m, tr) ==
    /\ \A i \in 0..(m.n - 1) : Live(m, i) =>
          /\ m.keys[i] \in MapKey
          /\ tr[m.keys[i]] = {m.vals[i]}
          /\ Reaches(m.flags, m.n, m.keys[i], i)
    /\ \A i, j \in 0..(m.n - 1) :
          Live(m, i) /\ Live(m, j) /\ m.keys[i] = m.keys[j] => i = j
    /\ \A k \in MapKey : tr[k] # {} =>
          \E i \in 0..(m.n - 1) : Live(m, i) /\ m.keys[i] = k

\* The search finds the bucket of a key.
LEMMA LookupFinds ==
    ASSUME NEW m, IsTable(m), NEW tr, Holds(m, tr), NEW i \in 0..(m.n - 1), Live(m, i)
    PROVE  Lookup(m, m.keys[i]) = i /\ At(m.keys[i], m.n, Stop(m, m.keys[i])) = i
<1> DEFINE k == m.keys[i]
           s == Stop(m, k)
           j == At(k, m.n, s)
<1>1. k \in MapKey /\ Reaches(m.flags, m.n, k, i)
  BY DEF Holds
<1>2. m.n \in Nat /\ m.n >= 4
  BY DEF IsTable, Probes
<1>3. /\ s \in 0..(m.n - 1) /\ j \in 0..(m.n - 1)
      /\ ~Wrapped(k, m.n, s)
      /\ m.flags[j] = "empty" \/ (Live(m, j) /\ m.keys[j] = k)
      /\ \A t \in 0..(m.n - 1) : t < s =>
            ~(Live(m, At(k, m.n, t)) /\ m.keys[At(k, m.n, t)] = k)
  BY <1>1, SearchEnds
<1>4. PICK t \in 0..(m.n - 1) :
         /\ At(k, m.n, t) = i
         /\ \A u \in 0..(m.n - 1) : u < t => m.flags[At(k, m.n, u)] # "empty"
  BY <1>1 DEF Reaches
<1>5. m.keys[i] = k
  OBVIOUS
<1> HIDE DEF k, s
<1>6. s <= t
  BY <1>2, <1>3, <1>4, <1>5
<1>7. m.flags[j] # "empty"
  <2>1. CASE s < t
    BY <1>3, <1>4, <2>1
  <2>2. CASE s = t
    BY <1>4, <2>2 DEF Live
  <2> QED
    BY <1>2, <1>3, <1>6, <2>1, <2>2
<1>8. j = i
  BY <1>3, <1>5, <1>7 DEF Holds
<1>9. Lookup(m, k) = j
  BY <1>2, <1>3, <1>7 DEF Lookup, s, Live
<1> QED
  BY <1>8, <1>9 DEF k, s

\* The search for a key that is not there ends at an empty bucket.
LEMMA LookupMisses ==
    ASSUME NEW m, IsTable(m), NEW k \in MapKey,
           \A i \in 0..(m.n - 1) : ~(Live(m, i) /\ m.keys[i] = k)
    PROVE  Lookup(m, k) = m.n /\ m.flags[At(k, m.n, Stop(m, k))] = "empty"
<1> DEFINE s == Stop(m, k)
           j == At(k, m.n, s)
<1>1. j \in 0..(m.n - 1) /\ (m.flags[j] = "empty" \/ (Live(m, j) /\ m.keys[j] = k))
  BY SearchEnds
<1>2. m.flags[j] = "empty"
  BY <1>1
<1>3. m.n # 0
  BY DEF IsTable, Probes
<1>4. Lookup(m, k) = m.n
  BY <1>2, <1>3 DEF Lookup
<1> QED
  BY <1>2, <1>4

\* hsk_map_get finds what was set, and nothing else.
LEMMA GetExact ==
    ASSUME NEW m, IsTable(m), NEW tr, Holds(m, tr), NEW k \in MapKey
    PROVE  MapGet(m, k) = tr[k]
<1>1. CASE \E i \in 0..(m.n - 1) : Live(m, i) /\ m.keys[i] = k
  <2>1. PICK i \in 0..(m.n - 1) : Live(m, i) /\ m.keys[i] = k
    BY <1>1
  <2>2. Lookup(m, k) = i
    BY <2>1, LookupFinds
  <2>3. tr[k] = {m.vals[i]}
    BY <2>1 DEF Holds
  <2>4. i # m.n
    BY DEF IsTable, Probes
  <2> QED
    BY <2>2, <2>3, <2>4 DEF MapGet, MapHas
<1>2. CASE ~ \E i \in 0..(m.n - 1) : Live(m, i) /\ m.keys[i] = k
  <2>1. tr[k] = {}
    BY <1>2 DEF Holds
  <2>2. Lookup(m, k) = m.n
    BY <1>2, LookupMisses
  <2> QED
    BY <2>1, <2>2 DEF MapGet, MapHas
<1> QED
  BY <1>1, <1>2

-----------------------------------------------------------------------------
(* The counters.                                                           *)

LiveIn(flags) == {i \in DOMAIN flags : flags[i] = "live"}
UsedIn(flags) == {i \in DOMAIN flags : flags[i] # "empty"}

LEMMA CountsFinite ==
    ASSUME NEW n \in Nat, NEW flags \in [0..(n - 1) -> Flag]
    PROVE  /\ IsFiniteSet(LiveIn(flags)) /\ IsFiniteSet(UsedIn(flags))
           /\ Cardinality(LiveIn(flags)) \in Nat /\ Cardinality(UsedIn(flags)) \in Nat
           /\ Cardinality(LiveIn(flags)) <= Cardinality(UsedIn(flags))
           /\ Cardinality(LiveIn(flags)) <= n
           /\ Cardinality(UsedIn(flags)) < n => \E i \in 0..(n - 1) : flags[i] = "empty"
<1>1. IsFiniteSet(0..(n - 1)) /\ Cardinality(0..(n - 1)) = n
  BY FS_Interval
<1>2. LiveIn(flags) \subseteq UsedIn(flags) /\ UsedIn(flags) \subseteq 0..(n - 1)
  BY DEF LiveIn, UsedIn
<1>3. /\ IsFiniteSet(UsedIn(flags)) /\ Cardinality(UsedIn(flags)) \in Nat
      /\ Cardinality(UsedIn(flags)) <= n
  BY <1>1, <1>2, FS_Subset, FS_CardinalityType
<1>4. /\ IsFiniteSet(LiveIn(flags)) /\ Cardinality(LiveIn(flags)) \in Nat
      /\ Cardinality(LiveIn(flags)) <= Cardinality(UsedIn(flags))
  BY <1>2, <1>3, FS_Subset, FS_CardinalityType
<1>5. ASSUME Cardinality(UsedIn(flags)) < n PROVE \E i \in 0..(n - 1) : flags[i] = "empty"
  <2>1. UsedIn(flags) # 0..(n - 1)
    BY <1>1, <1>3, <1>5
  <2> QED
    BY <2>1, Zenon DEF UsedIn
<1> QED
  BY <1>3, <1>4, <1>5

LEMMA CountsPut ==
    ASSUME NEW n \in Nat, NEW flags \in [0..(n - 1) -> Flag], NEW x \in 0..(n - 1)
    PROVE  LET g == [flags EXCEPT ![x] = "live"]
           IN  /\ Cardinality(LiveIn(g)) =
                     Cardinality(LiveIn(flags)) + (IF flags[x] = "live" THEN 0 ELSE 1)
               /\ Cardinality(UsedIn(g)) =
                     Cardinality(UsedIn(flags)) + (IF flags[x] = "empty" THEN 1 ELSE 0)
<1> DEFINE g == [flags EXCEPT ![x] = "live"]
<1>1. IsFiniteSet(LiveIn(flags)) /\ IsFiniteSet(UsedIn(flags))
      /\ Cardinality(LiveIn(flags)) \in Nat /\ Cardinality(UsedIn(flags)) \in Nat
  BY CountsFinite
<1>2. LiveIn(g) = LiveIn(flags) \cup {x} /\ UsedIn(g) = UsedIn(flags) \cup {x}
  BY DEF LiveIn, UsedIn
<1>3. (x \in LiveIn(flags) <=> flags[x] = "live") /\ (x \in UsedIn(flags) <=> flags[x] # "empty")
  BY DEF LiveIn, UsedIn
<1>4. Cardinality(LiveIn(g)) = IF x \in LiveIn(flags) THEN Cardinality(LiveIn(flags))
                               ELSE Cardinality(LiveIn(flags)) + 1
  BY <1>1, <1>2, FS_AddElement, Zenon
<1>5. Cardinality(UsedIn(g)) = IF x \in UsedIn(flags) THEN Cardinality(UsedIn(flags))
                               ELSE Cardinality(UsedIn(flags)) + 1
  BY <1>1, <1>2, FS_AddElement, Zenon
<1> QED
  BY <1>1, <1>3, <1>4, <1>5

LEMMA CountsDelete ==
    ASSUME NEW n \in Nat, NEW flags \in [0..(n - 1) -> Flag], NEW x \in 0..(n - 1),
           flags[x] = "live"
    PROVE  LET g == [flags EXCEPT ![x] = "deleted"]
           IN  /\ Cardinality(LiveIn(g)) = Cardinality(LiveIn(flags)) - 1
               /\ UsedIn(g) = UsedIn(flags)
<1> DEFINE g == [flags EXCEPT ![x] = "deleted"]
<1>1. IsFiniteSet(LiveIn(flags))
  BY CountsFinite
<1>2. LiveIn(g) = LiveIn(flags) \ {x} /\ UsedIn(g) = UsedIn(flags) /\ x \in LiveIn(flags)
  BY DEF LiveIn, UsedIn
<1> QED
  BY <1>1, <1>2, FS_RemoveElement, Zenon

LEMMA UpperBounds ==
    ASSUME NEW n \in Nat
    PROVE  /\ UpperBound(n) \in Nat
           /\ 100 * UpperBound(n) <= 77 * n + 50
           /\ 77 * n + 50 < 100 * UpperBound(n) + 100
BY DEF UpperBound

\* What hsk_map_put keeps true of the table and its counters.
Counted(m) ==
    /\ m.size = Cardinality(LiveIn(m.flags))
    /\ m.occupied = Cardinality(UsedIn(m.flags))
    /\ m.upper = UpperBound(m.n)
    /\ m.occupied <= m.upper

-----------------------------------------------------------------------------
(* Setting and deleting.                                                   *)

\* Only empty buckets end a search, so it leads where it led as long as none
\* becomes empty.
LEMMA ReachesStill ==
    ASSUME NEW n, Probes(n), NEW f, NEW g, NEW k \in MapKey, NEW i,
           \A b \in 0..(n - 1) : f[b] # "empty" => g[b] # "empty",
           Reaches(f, n, k, i)
    PROVE  Reaches(g, n, k, i)
<1>0. \A t \in Nat : At(k, n, t) \in 0..(n - 1)
  BY ProbingMeetsAll
<1>1. \A t \in 0..(n - 1) : At(k, n, t) \in 0..(n - 1)
  BY <1>0
<1> QED
  BY <1>1 DEF Reaches

\* The greatest number of a finite set of naturals is in it.
LEMMA MaxOf ==
    ASSUME NEW s \in Nat, NEW T \in SUBSET (0..s), T # {}
    PROVE  Max(T) \in T /\ \A t \in T : t <= Max(T)
<1> DEFINE U == {u \in 0..s : s - u \in T}
<1>1. PICK t \in T : TRUE
  BY Zenon
<1>2. U \in SUBSET Nat /\ s - t \in U
  OBVIOUS
<1>3. PICK u \in U : \A w \in U : u <= w
  BY <1>2, LeastOf, Zenon
<1>4. s - u \in T /\ \A y \in T : y <= s - u
  <2>1. ASSUME NEW y \in T PROVE y <= s - u
    <3>1. s - y \in U
      OBVIOUS
    <3> QED
      BY <1>3, <3>1
  <2> QED
    BY <2>1
<1>5. \E x \in T : \A y \in T : x >= y
  <2>1. \A y \in T : s - u >= y
    BY <1>4
  <2> QED
    BY <1>4, <2>1
<1>6. Max(T) \in T /\ \A y \in T : Max(T) >= y
  BY <1>5, Zenon DEF Max
<1> QED
  BY <1>6

\* The bucket hsk_map_put chooses: where the key is, and a free one where the
\* search for the key leads if it is nowhere.
LEMMA BucketFound ==
    ASSUME NEW m, IsTable(m), NEW tr, Holds(m, tr), NEW k \in MapKey
    PROVE  LET x == Bucket(m, k)
           IN  /\ x \in 0..(m.n - 1) /\ Reaches(m.flags, m.n, k, x)
               /\ Live(m, x) => m.keys[x] = k
               /\ \A i \in 0..(m.n - 1) : Live(m, i) /\ m.keys[i] = k => i = x
<1> DEFINE s == Stop(m, k)
           j == At(k, m.n, s)
           passed == {t \in 0..s : t < s /\ m.flags[At(k, m.n, t)] = "deleted"}
           x == Bucket(m, k)
<1>1. Probes(m.n)
  BY DEF IsTable
<1>0. \A t \in Nat : At(k, m.n, t) \in 0..(m.n - 1)
  BY <1>1, ProbingMeetsAll
<1>2. m.n \in Nat /\ \A t \in 0..(m.n - 1) : At(k, m.n, t) \in 0..(m.n - 1)
  BY <1>0, <1>1 DEF Probes
<1>3. /\ s \in 0..(m.n - 1) /\ j \in 0..(m.n - 1)
      /\ ~Wrapped(k, m.n, s)
      /\ m.flags[j] = "empty" \/ (Live(m, j) /\ m.keys[j] = k)
      /\ \A t \in 0..(m.n - 1) : t < s => m.flags[At(k, m.n, t)] # "empty"
  BY SearchEnds
<1>4. x = IF passed # {} /\ (Wrapped(k, m.n, s) \/ m.flags[j] = "empty")
          THEN At(k, m.n, Max(passed)) ELSE j
  BY DEF Bucket
<1>5. Reaches(m.flags, m.n, k, j)
  BY <1>3 DEF Reaches
<1> HIDE DEF s, x
<1>6. CASE Live(m, j) /\ m.keys[j] = k
  <2>1. x = j
    BY <1>3, <1>4, <1>6 DEF Live
  <2>2. \A i \in 0..(m.n - 1) : Live(m, i) /\ m.keys[i] = k => i = j
    BY <1>3, <1>6 DEF Holds
  <2> QED
    BY <1>3, <1>5, <1>6, <2>1, <2>2 DEF x
<1>7. CASE m.flags[j] = "empty"
  <2>1. \A i \in 0..(m.n - 1) : ~(Live(m, i) /\ m.keys[i] = k)
    <3> SUFFICES ASSUME NEW i \in 0..(m.n - 1), Live(m, i), m.keys[i] = k PROVE FALSE
      OBVIOUS
    <3>1. j = i
      BY LookupFinds DEF s
    <3> QED
      BY <1>7, <3>1 DEF Live
  <2>2. CASE passed = {}
    <3>1. x = j
      BY <1>4, <2>2
    <3> QED
      BY <1>3, <1>5, <1>7, <2>1, <3>1 DEF x, Live
  <2>3. CASE passed # {}
    <3> DEFINE t == Max(passed)
    <3>1. t \in passed
      <4>1. s \in Nat /\ passed \in SUBSET (0..s)
        BY <1>2, <1>3
      <4> HIDE DEF passed
      <4> QED
        BY <2>3, <4>1, MaxOf, Zenon
    <3>2. x = At(k, m.n, t)
      BY <1>4, <1>7, <2>3
    <3>3. t \in 0..(m.n - 1) /\ t < s /\ m.flags[At(k, m.n, t)] = "deleted"
      BY <1>2, <1>3, <3>1
    <3> HIDE DEF t
    <3>4. x \in 0..(m.n - 1) /\ ~Live(m, x)
      BY <1>2, <3>2, <3>3 DEF Live
    <3>5. Reaches(m.flags, m.n, k, x)
      BY <1>2, <1>3, <3>2, <3>3 DEF Reaches
    <3> QED
      BY <2>1, <3>4, <3>5 DEF x
  <2> QED
    BY <2>2, <2>3
<1> QED
  BY <1>3, <1>6, <1>7

LEMMA PutFields ==
    ASSUME NEW m, IsTable(m), NEW k, NEW v, NEW x, x = Bucket(m, k)
    PROVE  LET p == Put(m, k, v)
           IN  /\ DOMAIN p = Field /\ p.n = m.n /\ p.upper = m.upper
               /\ p.keys = [m.keys EXCEPT ![x] = k] /\ p.vals = [m.vals EXCEPT ![x] = v]
               /\ p.flags = [m.flags EXCEPT ![x] = "live"]
               /\ p.size = m.size + (IF m.flags[x] = "live" THEN 0 ELSE 1)
               /\ p.occupied = m.occupied + (IF m.flags[x] = "empty" THEN 1 ELSE 0)
BY DEF IsTable, Field, Put

\* hsk_map_put, with a bucket to spare.
LEMMA PutKeeps ==
    ASSUME NEW m, IsTable(m), NEW tr, DOMAIN tr = MapKey, Holds(m, tr), Counted(m),
           m.occupied < m.upper, NEW k \in MapKey, NEW v
    PROVE  LET p == Put(m, k, v)
           IN  IsTable(p) /\ Holds(p, [tr EXCEPT ![k] = {v}]) /\ Counted(p) /\ p.n = m.n
<1> DEFINE x == Bucket(m, k)
           p == Put(m, k, v)
           ts == [tr EXCEPT ![k] = {v}]
<1>1. /\ DOMAIN p = Field /\ p.n = m.n /\ p.upper = m.upper
      /\ p.keys = [m.keys EXCEPT ![x] = k] /\ p.vals = [m.vals EXCEPT ![x] = v]
      /\ p.flags = [m.flags EXCEPT ![x] = "live"]
      /\ p.size = m.size + (IF m.flags[x] = "live" THEN 0 ELSE 1)
      /\ p.occupied = m.occupied + (IF m.flags[x] = "empty" THEN 1 ELSE 0)
  BY PutFields
<1>2. /\ x \in 0..(m.n - 1) /\ Reaches(m.flags, m.n, k, x)
      /\ Live(m, x) => m.keys[x] = k
      /\ \A i \in 0..(m.n - 1) : Live(m, i) /\ m.keys[i] = k => i = x
  BY BucketFound
<1> HIDE DEF x, p
<1>3. /\ Probes(m.n) /\ m.flags \in [0..(m.n - 1) -> Flag]
      /\ DOMAIN m.keys = 0..(m.n - 1) /\ DOMAIN m.vals = 0..(m.n - 1)
  BY DEF IsTable
<1>4. m.n \in Nat /\ m.n >= 4
  BY <1>3 DEF Probes
<1>5. p.flags \in [0..(m.n - 1) -> Flag]
  BY <1>1, <1>3, ZenonT(40) DEF Flag
<1>6. Counted(p) /\ p.occupied < m.n
  <2>1. /\ m.size = Cardinality(LiveIn(m.flags)) /\ m.occupied = Cardinality(UsedIn(m.flags))
        /\ m.upper = UpperBound(m.n)
    BY DEF Counted
  <2>0. /\ Cardinality(LiveIn(p.flags)) =
              Cardinality(LiveIn(m.flags)) + (IF m.flags[x] = "live" THEN 0 ELSE 1)
        /\ Cardinality(UsedIn(p.flags)) =
              Cardinality(UsedIn(m.flags)) + (IF m.flags[x] = "empty" THEN 1 ELSE 0)
    <3>1. p.flags = [m.flags EXCEPT ![x] = "live"] /\ x \in 0..(m.n - 1)
      BY <1>1, <1>2
    <3> DEFINE g == [m.flags EXCEPT ![x] = "live"]
    <3>2. /\ Cardinality(LiveIn(g)) =
                Cardinality(LiveIn(m.flags)) + (IF m.flags[x] = "live" THEN 0 ELSE 1)
          /\ Cardinality(UsedIn(g)) =
                Cardinality(UsedIn(m.flags)) + (IF m.flags[x] = "empty" THEN 1 ELSE 0)
      BY <1>3, <1>4, <3>1, CountsPut, ZenonT(40)
    <3> QED
      BY <3>1, <3>2, Zenon
  <2>2. p.size = Cardinality(LiveIn(p.flags)) /\ p.occupied = Cardinality(UsedIn(p.flags))
    BY <1>1, <2>0, <2>1
  <2>3. Cardinality(UsedIn(m.flags)) \in Nat
    BY <1>3, <1>4, CountsFinite
  <2>4. UpperBound(m.n) \in Nat /\ 100 * UpperBound(m.n) <= 77 * m.n + 50
    BY <1>4, UpperBounds, Zenon
  <2>5. p.occupied <= m.upper /\ p.occupied < m.n
    BY <1>1, <1>4, <2>1, <2>3, <2>4
  <2> QED
    BY <1>1, <2>1, <2>2, <2>5 DEF Counted
<1>7. IsTable(p)
  <2>1. \E i \in 0..(m.n - 1) : p.flags[i] = "empty"
    BY <1>4, <1>5, <1>6, CountsFinite, SMTT(30) DEF Counted
  <2> QED
    BY <1>1, <1>3, <1>5, <2>1 DEF IsTable
<1>8. ASSUME NEW i \in 0..(m.n - 1)
      PROVE  /\ Live(p, i) <=> (i = x \/ Live(m, i))
             /\ p.keys[i] = IF i = x THEN k ELSE m.keys[i]
             /\ p.vals[i] = IF i = x THEN v ELSE m.vals[i]
  BY <1>1, <1>2, <1>3, Zenon DEF Live
<1>9. ASSUME NEW i \in 0..(m.n - 1), NEW l \in MapKey, Reaches(m.flags, m.n, l, i)
      PROVE  Reaches(p.flags, m.n, l, i)
  <2>1. \A b \in 0..(m.n - 1) : m.flags[b] # "empty" => p.flags[b] # "empty"
    BY <1>1, <1>2, <1>3
  <2> QED
    BY <1>3, <1>9, <2>1, ReachesStill, Zenon
<1>10. ASSUME NEW i \in 0..(m.n - 1), Live(p, i)
       PROVE  /\ p.keys[i] \in MapKey /\ ts[p.keys[i]] = {p.vals[i]}
              /\ Reaches(p.flags, m.n, p.keys[i], i)
  <2>1. CASE i = x
    BY <1>2, <1>8, <1>9, <2>1
  <2>2. CASE i # x
    <3>1. Live(m, i) /\ p.keys[i] = m.keys[i] /\ p.vals[i] = m.vals[i]
      BY <1>8, <1>10, <2>2
    <3>2. m.keys[i] # k
      BY <1>2, <2>2, <3>1
    <3>3. m.keys[i] \in MapKey /\ tr[m.keys[i]] = {m.vals[i]} /\ Reaches(m.flags, m.n, m.keys[i], i)
      BY <3>1 DEF Holds
    <3> QED
      BY <1>9, <3>1, <3>2, <3>3
  <2> QED
    BY <2>1, <2>2
<1>11. ASSUME NEW i \in 0..(m.n - 1), NEW j \in 0..(m.n - 1),
              Live(p, i), Live(p, j), p.keys[i] = p.keys[j]
       PROVE  i = j
  BY <1>2, <1>8, <1>11 DEF Holds
<1>12. ASSUME NEW l \in MapKey, ts[l] # {}
       PROVE  \E i \in 0..(m.n - 1) : Live(p, i) /\ p.keys[i] = l
  <2>1. CASE l = k
    BY <1>2, <1>8, <2>1
  <2>2. CASE l # k
    <3>1. tr[l] # {}
      BY <1>12, <2>2
    <3>2. PICK i \in 0..(m.n - 1) : Live(m, i) /\ m.keys[i] = l
      BY <3>1 DEF Holds
    <3>3. i # x
      BY <1>2, <2>2, <3>2
    <3> QED
      BY <1>8, <3>2, <3>3
  <2> QED
    BY <2>1, <2>2
<1>13. Holds(p, ts)
  <2> HIDE DEF ts
  <2> QED
    BY <1>1, <1>10, <1>11, <1>12, Zenon DEF Holds
<1> QED
  BY <1>1, <1>6, <1>7, <1>13 DEF p

\* What hsk_map_del leaves of table m.
Deleted(m, x) == [m EXCEPT !.flags[x] = "deleted", !.size = @ - 1,
                           !.keys[x] = NoKey, !.vals[x] = NoKey]

LEMMA DeleteFields ==
    ASSUME NEW m, IsTable(m), NEW x
    PROVE  LET p == Deleted(m, x)
           IN  /\ DOMAIN p = Field /\ p.n = m.n /\ p.upper = m.upper
               /\ p.occupied = m.occupied /\ p.size = m.size - 1
               /\ p.keys = [m.keys EXCEPT ![x] = NoKey]
               /\ p.vals = [m.vals EXCEPT ![x] = NoKey]
               /\ p.flags = [m.flags EXCEPT ![x] = "deleted"]
BY DEF IsTable, Field, Deleted

\* hsk_map_del leaves a deleted bucket, which ends no search.
LEMMA DeleteKeeps ==
    ASSUME NEW m, IsTable(m), NEW tr, DOMAIN tr = MapKey, Holds(m, tr), Counted(m),
           NEW k \in MapKey, MapHas(m, k)
    PROVE  LET p == Deleted(m, Lookup(m, k))
           IN  IsTable(p) /\ Holds(p, [tr EXCEPT ![k] = {}]) /\ Counted(p) /\ p.n = m.n
<1> DEFINE x == Lookup(m, k)
           p == Deleted(m, x)
           ts == [tr EXCEPT ![k] = {}]
<1>1. /\ DOMAIN p = Field /\ p.n = m.n /\ p.upper = m.upper /\ p.occupied = m.occupied
      /\ p.keys = [m.keys EXCEPT ![x] = NoKey] /\ p.vals = [m.vals EXCEPT ![x] = NoKey]
      /\ p.flags = [m.flags EXCEPT ![x] = "deleted"] /\ p.size = m.size - 1
  BY DeleteFields, Zenon
<1>2. x \in 0..(m.n - 1) /\ Live(m, x) /\ m.keys[x] = k
  <2>1. PICK i \in 0..(m.n - 1) : Live(m, i) /\ m.keys[i] = k
    BY LookupMisses DEF MapHas
  <2>2. x = i
    BY <2>1, LookupFinds
  <2> QED
    BY <2>1, <2>2
<1> HIDE DEF x, p
<1>3. /\ Probes(m.n) /\ m.flags \in [0..(m.n - 1) -> Flag]
      /\ DOMAIN m.keys = 0..(m.n - 1) /\ DOMAIN m.vals = 0..(m.n - 1)
  BY DEF IsTable
<1>4. m.n \in Nat /\ m.n >= 4
  BY <1>3 DEF Probes
<1>5. p.flags \in [0..(m.n - 1) -> Flag]
  BY <1>1, <1>3, ZenonT(40) DEF Flag
<1>6. Counted(p)
  <2>1. /\ m.size = Cardinality(LiveIn(m.flags)) /\ m.occupied = Cardinality(UsedIn(m.flags))
        /\ m.upper = UpperBound(m.n) /\ m.occupied <= m.upper
    BY DEF Counted
  <2>2. m.flags[x] = "live"
    BY <1>2 DEF Live
  <2>3. /\ Cardinality(LiveIn(p.flags)) = Cardinality(LiveIn(m.flags)) - 1
        /\ UsedIn(p.flags) = UsedIn(m.flags)
    <3> DEFINE g == [m.flags EXCEPT ![x] = "deleted"]
    <3>1. p.flags = g /\ x \in 0..(m.n - 1)
      BY <1>1, <1>2
    <3>2. Cardinality(LiveIn(g)) = Cardinality(LiveIn(m.flags)) - 1 /\ UsedIn(g) = UsedIn(m.flags)
      BY <1>3, <1>4, <2>2, <3>1, CountsDelete, Zenon
    <3> QED
      BY <3>1, <3>2, Zenon
  <2> QED
    BY <1>1, <2>1, <2>3 DEF Counted
<1>7. IsTable(p)
  <2>1. \E i \in 0..(m.n - 1) : p.flags[i] = "empty"
    BY <1>1, <1>2, <1>3 DEF IsTable, Live
  <2> QED
    BY <1>1, <1>3, <1>5, <2>1 DEF IsTable
<1>8. ASSUME NEW i \in 0..(m.n - 1)
      PROVE  /\ Live(p, i) <=> (i # x /\ Live(m, i))
             /\ i # x => p.keys[i] = m.keys[i] /\ p.vals[i] = m.vals[i]
  BY <1>1, <1>2, <1>3, Zenon DEF Live
<1>9. \A b \in 0..(m.n - 1) : m.flags[b] # "empty" => p.flags[b] # "empty"
  BY <1>1, <1>2, <1>3
<1>10. ASSUME NEW i \in 0..(m.n - 1), Live(p, i)
       PROVE  /\ p.keys[i] \in MapKey /\ ts[p.keys[i]] = {p.vals[i]}
              /\ Reaches(p.flags, m.n, p.keys[i], i)
  <2>1. Live(m, i) /\ p.keys[i] = m.keys[i] /\ p.vals[i] = m.vals[i] /\ i # x
    BY <1>8, <1>10
  <2>2. m.keys[i] # k
    BY <1>2, <2>1 DEF Holds
  <2>3. m.keys[i] \in MapKey /\ tr[m.keys[i]] = {m.vals[i]} /\ Reaches(m.flags, m.n, m.keys[i], i)
    BY <2>1 DEF Holds
  <2>4. Reaches(p.flags, m.n, m.keys[i], i)
    BY <1>3, <1>9, <2>3, ReachesStill, Zenon
  <2> QED
    BY <2>1, <2>2, <2>3, <2>4
<1>11. ASSUME NEW i \in 0..(m.n - 1), NEW j \in 0..(m.n - 1),
              Live(p, i), Live(p, j), p.keys[i] = p.keys[j]
       PROVE  i = j
  BY <1>8, <1>11 DEF Holds
<1>12. ASSUME NEW l \in MapKey, ts[l] # {}
       PROVE  \E i \in 0..(m.n - 1) : Live(p, i) /\ p.keys[i] = l
  <2>1. l # k /\ tr[l] # {}
    BY <1>12
  <2>2. PICK i \in 0..(m.n - 1) : Live(m, i) /\ m.keys[i] = l
    BY <2>1 DEF Holds
  <2>3. i # x
    BY <1>2, <2>1, <2>2, SMTT(30)
  <2> QED
    BY <1>8, <2>2, <2>3
<1>13. Holds(p, ts)
  <2> HIDE DEF ts
  <2> QED
    BY <1>1, <1>10, <1>11, <1>12 DEF Holds
<1> QED
  BY <1>1, <1>6, <1>7, <1>13 DEF p, x

\* The arrays of a map, which has none before the first key is set.
Arrays(m) ==
    /\ DOMAIN m = Field /\ m.n \in Nat
    /\ m.flags \in [0..(m.n - 1) -> Flag]
    /\ DOMAIN m.keys = 0..(m.n - 1) /\ DOMAIN m.vals = 0..(m.n - 1)

\* hsk_map_clear leaves the buckets, all of them empty.
Cleared(m) == [m EXCEPT !.flags = [i \in DOMAIN @ |-> "empty"],
                        !.keys = [i \in DOMAIN @ |-> NoKey],
                        !.vals = [i \in DOMAIN @ |-> NoKey],
                        !.size = 0, !.occupied = 0]

LEMMA ClearKeeps ==
    ASSUME NEW m, Arrays(m), Counted(m)
    PROVE  LET p == Cleared(m)
           IN  /\ Arrays(p) /\ p.n = m.n /\ Counted(p)
               /\ Holds(p, [k \in MapKey |-> {}])
               /\ IsTable(m) => IsTable(p)
<1> DEFINE p == Cleared(m)
<1>1. /\ DOMAIN p = Field /\ p.n = m.n /\ p.upper = m.upper /\ p.size = 0 /\ p.occupied = 0
      /\ p.flags = [i \in DOMAIN m.flags |-> "empty"]
      /\ p.keys = [i \in DOMAIN m.keys |-> NoKey] /\ p.vals = [i \in DOMAIN m.vals |-> NoKey]
  BY DEF Arrays, Field, Cleared
<1> HIDE DEF p
<1>2. m.n \in Nat /\ DOMAIN m.flags = 0..(m.n - 1)
  BY DEF Arrays
<1>3. Arrays(p)
  BY <1>1 DEF Arrays, Flag
<1>4. \A i \in 0..(m.n - 1) : p.flags[i] = "empty"
  BY <1>1, <1>2
<1>5. LiveIn(p.flags) = {} /\ UsedIn(p.flags) = {}
  BY <1>1 DEF LiveIn, UsedIn
<1>6. Counted(p)
  <2>1. UpperBound(m.n) \in Nat /\ m.upper = UpperBound(m.n)
    BY <1>2, UpperBounds, Zenon DEF Counted
  <2> QED
    BY <1>1, <1>5, <2>1, FS_EmptySet DEF Counted
<1>7. Holds(p, [k \in MapKey |-> {}])
  BY <1>1, <1>4 DEF Holds, Live
<1>8. ASSUME IsTable(m) PROVE IsTable(p)
  BY <1>1, <1>3, <1>4, <1>8 DEF IsTable, Arrays
<1> QED
  BY <1>1, <1>3, <1>6, <1>7, <1>8 DEF p

-----------------------------------------------------------------------------
(* Rehashing in place.                                                     *)

\* The first bucket that is free in the new flags is where a search leads.
LEMMA FreeFound ==
    ASSUME NEW n, Probes(n), NEW new \in [0..(n - 1) -> Flag], NEW k \in MapKey,
           Cardinality(UsedIn(new)) < n
    PROVE  LET i == FreeBucket(new, k, n)
           IN  i \in 0..(n - 1) /\ new[i] = "empty" /\ Reaches(new, n, k, i)
<1> DEFINE T == {s \in 0..(2 * n) : new[At(k, n, s)] = "empty"}
<1>1. n \in Nat
  BY DEF Probes
<1>2. PICK e \in 0..(n - 1) : new[e] = "empty"
  BY <1>1, CountsFinite
<1>3. /\ \A s \in Nat : At(k, n, s) \in 0..(n - 1)
      /\ \A i \in 0..(n - 1) : \E s \in 0..(n - 1) : At(k, n, s) = i
  BY ProbingMeetsAll, Zenon
<1>4. PICK s \in 0..(n - 1) : At(k, n, s) = e
  BY <1>3
<1>5. s \in T /\ T \in SUBSET Nat
  BY <1>1, <1>2, <1>4
<1>6. Min(T) \in T /\ \A t \in T : Min(T) <= t
  <2> HIDE DEF T
  <2> QED
    BY <1>5, MinOf
<1>7. PICK u : u = Min(T)
  BY Zenon
<1>8. u \in 0..(n - 1) /\ new[At(k, n, u)] = "empty"
  BY <1>1, <1>5, <1>6, <1>7
<1>9. \A t \in 0..(n - 1) : t < u => new[At(k, n, t)] # "empty"
  BY <1>1, <1>6, <1>7, <1>8
<1>10. FreeBucket(new, k, n) = At(k, n, u)
  BY <1>7 DEF FreeBucket
<1> HIDE DEF T
<1>11. At(k, n, u) \in 0..(n - 1)
  BY <1>1, <1>3, <1>8
<1>12. Reaches(new, n, k, At(k, n, u))
  BY <1>8, <1>9 DEF Reaches
<1> QED
  BY <1>8, <1>10, <1>11, <1>12

LoopField == {"keys", "vals", "old", "new", "j", "hand"}
InHand(r) == IF r.hand = <<>> THEN 0 ELSE 1

\* Bucket i holds an entry, placed or not yet.
In(r, i) == i \in LiveIn(r.old) \/ i \in LiveIn(r.new)

\* What the loops keep true.  Every key is in one bucket or in hand; where a
\* bucket still waits in the old table, nothing was placed in the new one.
LoopType(r, from, n) ==
    /\ DOMAIN r = LoopField
    /\ r.old \in [0..(from - 1) -> Flag] /\ r.new \in [0..(n - 1) -> {"empty", "live"}]
    /\ DOMAIN r.keys = 0..(n - 1) /\ DOMAIN r.vals = 0..(n - 1)
    /\ r.j \in 0..from
LoopHolds(r, n, tr) ==
    /\ \A i \in LiveIn(r.old) : i \in 0..(n - 1) /\ r.new[i] = "empty"
    /\ \A i : In(r, i) => r.keys[i] \in MapKey /\ tr[r.keys[i]] = {r.vals[i]}
    /\ \A i, b : In(r, i) /\ In(r, b) /\ r.keys[i] = r.keys[b] => i = b
    /\ r.hand # <<>> =>
          /\ r.hand[1] \in MapKey /\ tr[r.hand[1]] = {r.hand[2]}
          /\ \A i : In(r, i) => r.keys[i] # r.hand[1]
    /\ \A k \in MapKey : tr[k] # {} =>
          (\E i : In(r, i) /\ r.keys[i] = k) \/ (r.hand # <<>> /\ r.hand[1] = k)
    /\ \A i \in LiveIn(r.new) : Reaches(r.new, n, r.keys[i], i)
LoopCounts(r, size) ==
    /\ Cardinality(LiveIn(r.old)) + Cardinality(LiveIn(r.new)) + InHand(r) = size
    /\ \A i \in LiveIn(r.old) : i >= r.j

\* The iterations that are left.
Left(r, from) == ((from - r.j) + Cardinality(LiveIn(r.old))) + InHand(r)

Rehashing(r, from, n, tr, size) ==
    LoopType(r, from, n) /\ LoopHolds(r, n, tr) /\ LoopCounts(r, size)

LEMMA LoopFinite ==
    ASSUME NEW r, NEW from \in Nat, NEW n \in Nat, LoopType(r, from, n)
    PROVE  /\ IsFiniteSet(LiveIn(r.old)) /\ Cardinality(LiveIn(r.old)) \in Nat
           /\ IsFiniteSet(LiveIn(r.new)) /\ Cardinality(LiveIn(r.new)) \in Nat
           /\ r.old \in [0..(from - 1) -> Flag] /\ r.new \in [0..(n - 1) -> Flag]
           /\ UsedIn(r.new) = LiveIn(r.new) /\ InHand(r) \in {0, 1}
<1>1. r.old \in [0..(from - 1) -> Flag] /\ r.new \in [0..(n - 1) -> {"empty", "live"}]
  BY DEF LoopType
<1>2. r.new \in [0..(n - 1) -> Flag]
  BY <1>1 DEF Flag
<1>3. UsedIn(r.new) = LiveIn(r.new)
  BY <1>1 DEF UsedIn, LiveIn
<1>4. InHand(r) \in {0, 1}
  BY DEF InHand
<1>5. IsFiniteSet(LiveIn(r.old)) /\ Cardinality(LiveIn(r.old)) \in Nat
  BY <1>1, CountsFinite, Zenon
<1>6. IsFiniteSet(LiveIn(r.new)) /\ Cardinality(LiveIn(r.new)) \in Nat
  BY <1>2, CountsFinite
<1> QED
  BY <1>1, <1>2, <1>3, <1>4, <1>5, <1>6

\* Before the loops.
LEMMA UnmovedStarts ==
    ASSUME NEW m, Arrays(m), NEW tr, Holds(m, tr), Counted(m), NEW n \in Nat, n >= m.n
    PROVE  LET r == Unmoved(m, n)
           IN  Rehashing(r, m.n, n, tr, m.size) /\ Left(r, m.n) <= 2 * m.n
<1> DEFINE r == Unmoved(m, n)
<1>1. /\ DOMAIN r = LoopField /\ r.keys = Grown(m.keys, n) /\ r.vals = Grown(m.vals, n)
      /\ r.old = m.flags /\ r.new = [i \in 0..(n - 1) |-> "empty"] /\ r.j = 0 /\ r.hand = <<>>
  BY DEF Unmoved, LoopField
<1> HIDE DEF r
<1>2. /\ m.n \in Nat /\ m.flags \in [0..(m.n - 1) -> Flag]
      /\ DOMAIN m.keys = 0..(m.n - 1) /\ DOMAIN m.vals = 0..(m.n - 1)
  BY DEF Arrays
<1>3. LoopType(r, m.n, n)
  BY <1>1, <1>2 DEF LoopType, Grown
<1>4. LiveIn(r.new) = {} /\ LiveIn(r.old) = {i \in 0..(m.n - 1) : Live(m, i)}
  BY <1>1, <1>2 DEF LiveIn, Live
<1>5. ASSUME NEW i, In(r, i)
      PROVE  /\ i \in 0..(m.n - 1) /\ i \in 0..(n - 1) /\ Live(m, i)
             /\ r.keys[i] = m.keys[i] /\ r.vals[i] = m.vals[i] /\ r.new[i] = "empty"
  <2>1. i \in 0..(m.n - 1) /\ Live(m, i)
    BY <1>4, <1>5 DEF In
  <2>2. i \in 0..(n - 1)
    BY <1>2, <2>1
  <2> QED
    BY <1>1, <1>2, <2>1, <2>2 DEF Grown
<1>6. \A i \in 0..(m.n - 1) : Live(m, i) => In(r, i)
  BY <1>4, SMTT(30) DEF In
<1>7. LoopHolds(r, n, tr)
  <2>1. \A i \in LiveIn(r.old) : i \in 0..(n - 1) /\ r.new[i] = "empty"
    BY <1>5 DEF In
  <2>2. ASSUME NEW i, In(r, i) PROVE r.keys[i] \in MapKey /\ tr[r.keys[i]] = {r.vals[i]}
    BY <1>5, <2>2 DEF Holds
  <2>3. ASSUME NEW i, NEW b, In(r, i), In(r, b), r.keys[i] = r.keys[b] PROVE i = b
    BY <1>5, <2>3 DEF Holds
  <2>4. ASSUME NEW k \in MapKey, tr[k] # {} PROVE \E i : In(r, i) /\ r.keys[i] = k
    <3>1. PICK i \in 0..(m.n - 1) : Live(m, i) /\ m.keys[i] = k
      BY <2>4 DEF Holds
    <3> QED
      BY <1>5, <1>6, <3>1
  <2> QED
    BY <1>1, <1>4, <2>1, <2>2, <2>3, <2>4 DEF LoopHolds
<1>8. /\ Cardinality(LiveIn(r.new)) = 0 /\ Cardinality(LiveIn(r.old)) = m.size
      /\ m.size \in Nat /\ InHand(r) = 0
  <2>1. Cardinality(LiveIn(r.new)) = 0
    BY <1>4, FS_EmptySet
  <2>2. Cardinality(LiveIn(r.old)) = m.size
    BY <1>1 DEF Counted
  <2>3. Cardinality(LiveIn(m.flags)) \in Nat
    BY <1>2, CountsFinite, SMTT(30)
  <2> QED
    BY <1>1, <2>1, <2>2, <2>3 DEF InHand, Counted
<1>9. m.size <= m.n
  BY <1>2, CountsFinite DEF Counted
<1>10. LoopCounts(r, m.size)
  BY <1>1, <1>2, <1>4, <1>8 DEF LoopCounts
<1>11. Left(r, m.n) <= 2 * m.n
  BY <1>1, <1>2, <1>8, <1>9 DEF Left
<1> QED
  BY <1>3, <1>7, <1>10, <1>11, SMTT(30) DEF Rehashing, r

\* The outer loop takes the entry of a bucket out, or passes by.
LEMMA TakeKeeps ==
    ASSUME NEW r, NEW from \in Nat, NEW n \in Nat, n >= from, NEW tr, NEW size,
           Rehashing(r, from, n, tr, size), r.hand = <<>>, r.j \in 0..(from - 1)
    PROVE  /\ Rehashing(Take(r), from, n, tr, size)
           /\ Left(Take(r), from) = Left(r, from) - 1
<1> DEFINE q == Take(r)
<1>1. LoopType(r, from, n) /\ LoopHolds(r, n, tr) /\ LoopCounts(r, size)
  BY DEF Rehashing
<1>2. /\ IsFiniteSet(LiveIn(r.old)) /\ Cardinality(LiveIn(r.old)) \in Nat
      /\ Cardinality(LiveIn(r.new)) \in Nat /\ r.old \in [0..(from - 1) -> Flag]
  BY <1>1, LoopFinite, Zenon
<1>3. DOMAIN r = LoopField
  BY <1>1 DEF LoopType
<1>4. CASE r.old[r.j] # "live"
  <2>1. /\ DOMAIN q = LoopField /\ q.keys = r.keys /\ q.vals = r.vals /\ q.old = r.old
        /\ q.new = r.new /\ q.j = r.j + 1 /\ q.hand = r.hand
    BY <1>3, <1>4 DEF Take, LoopField
  <2> HIDE DEF q
  <2>2. LoopType(q, from, n)
    BY <1>1, <2>1, SMTT(30) DEF LoopType
  <2>3. LoopHolds(q, n, tr)
    BY <1>1, <2>1 DEF LoopHolds, In
  <2>4. LoopCounts(q, size)
    <3>1. \A i \in LiveIn(r.old) : i >= r.j /\ i # r.j /\ i \in 0..(from - 1)
      BY <1>1, <1>2, <1>4 DEF LoopCounts, LiveIn
    <3> QED
      BY <1>1, <2>1, <3>1 DEF LoopCounts, InHand
  <2>5. Left(q, from) = Left(r, from) - 1
    BY <1>2, <2>1 DEF Left, InHand
  <2> QED
    BY <2>2, <2>3, <2>4, <2>5 DEF Rehashing, q
<1>5. CASE r.old[r.j] = "live"
  <2>1. /\ DOMAIN q = LoopField /\ q.keys = r.keys /\ q.vals = r.vals
        /\ q.old = [r.old EXCEPT ![r.j] = "deleted"] /\ q.new = r.new
        /\ q.j = r.j + 1 /\ q.hand = <<r.keys[r.j], r.vals[r.j]>>
    BY <1>3, <1>5 DEF Take, LoopField
  <2> HIDE DEF q
  <2>2. q.hand # <<>> /\ q.hand[1] = r.keys[r.j] /\ q.hand[2] = r.vals[r.j]
    BY <2>1
  <2>3. LoopType(q, from, n)
    BY <1>1, <2>1 DEF LoopType, Flag
  <2>4. LiveIn(q.old) = LiveIn(r.old) \ {r.j} /\ LiveIn(q.new) = LiveIn(r.new) /\ r.j \in LiveIn(r.old)
    BY <1>2, <1>5, <2>1, SMTT(30) DEF LiveIn
  <2>5. r.j \notin LiveIn(r.new)
    BY <1>1, <2>4 DEF LoopHolds, LiveIn
  <2>6. \A i : In(q, i) <=> (In(r, i) /\ i # r.j)
    BY <2>4, <2>5 DEF In
  <2>7. In(r, r.j)
    BY <2>4 DEF In
  <2>8. LoopHolds(q, n, tr)
    <3>1. \A i \in LiveIn(q.old) : i \in 0..(n - 1) /\ q.new[i] = "empty"
      BY <1>1, <2>1, <2>4, SMTT(30) DEF LoopHolds
    <3>2. ASSUME NEW i, In(q, i) PROVE q.keys[i] \in MapKey /\ tr[q.keys[i]] = {q.vals[i]}
      BY <1>1, <2>1, <2>6, <3>2, SMTT(30) DEF LoopHolds
    <3>3. ASSUME NEW i, NEW b, In(q, i), In(q, b), q.keys[i] = q.keys[b] PROVE i = b
      BY <1>1, <2>1, <2>6, <3>3 DEF LoopHolds
    <3>4. q.hand[1] \in MapKey /\ tr[q.hand[1]] = {q.hand[2]}
      BY <1>1, <2>2, <2>7, ZenonT(40) DEF LoopHolds
    <3>5. ASSUME NEW i, In(q, i) PROVE q.keys[i] # q.hand[1]
      BY <1>1, <2>1, <2>2, <2>6, <2>7, <3>5 DEF LoopHolds
    <3>6. ASSUME NEW k \in MapKey, tr[k] # {}
          PROVE  (\E i : In(q, i) /\ q.keys[i] = k) \/ q.hand[1] = k
      <4>1. PICK i : In(r, i) /\ r.keys[i] = k
        BY <1>1, <3>6, SMTT(30) DEF LoopHolds
      <4> QED
        BY <2>1, <2>2, <2>6, <4>1, SMTT(30)
    <3>7. \A i \in LiveIn(q.new) : Reaches(q.new, n, q.keys[i], i)
      BY <1>1, <2>1 DEF LoopHolds
    <3> QED
      BY <2>2, <3>1, <3>2, <3>3, <3>4, <3>5, <3>6, <3>7, ZenonT(40) DEF LoopHolds
  <2>9. Cardinality(LiveIn(q.old)) = Cardinality(LiveIn(r.old)) - 1
    BY <1>2, <2>4, FS_RemoveElement, ZenonT(40)
  <2>10. InHand(q) = 1 /\ InHand(r) = 0
    BY <2>2 DEF InHand
  <2>11. LoopCounts(q, size)
    <3>1. \A i \in LiveIn(r.old) : i >= r.j /\ i \in 0..(from - 1)
      BY <1>1, <1>2 DEF LoopCounts, LiveIn
    <3>2. \A i \in LiveIn(q.old) : i >= q.j
      BY <2>1, <2>4, <3>1
    <3> QED
      BY <1>1, <1>2, <2>4, <2>9, <2>10, <3>2, SMTT(30) DEF LoopCounts
  <2>12. Left(q, from) = Left(r, from) - 1
    <3>1. q.j = r.j + 1
      BY <2>1
    <3>2. /\ Left(q, from) = ((from - (r.j + 1)) + (Cardinality(LiveIn(r.old)) - 1)) + 1
          /\ Left(r, from) = ((from - r.j) + Cardinality(LiveIn(r.old))) + 0
      BY <2>9, <2>10, <3>1, Zenon DEF Left
    <3>3. PICK c \in Nat, j \in Nat : c = Cardinality(LiveIn(r.old)) /\ j = r.j
      BY <1>2
    <3>4. /\ Left(q, from) = ((from - (j + 1)) + (c - 1)) + 1
          /\ Left(r, from) = ((from - j) + c) + 0
      BY <3>2, <3>3, Zenon
    <3> QED
      BY <3>4
  <2> QED
    BY <2>3, <2>8, <2>11, <2>12 DEF Rehashing, q
<1> QED
  BY <1>4, <1>5

LEMMA KickFields ==
    ASSUME NEW r, DOMAIN r = LoopField, NEW n
    PROVE  LET i == FreeBucket(r.new, r.hand[1], n)
               kicked == i \in DOMAIN r.old /\ r.old[i] = "live"
               q == KickOut(r, n)
           IN  /\ DOMAIN q = LoopField /\ q.j = r.j
               /\ q.keys = [r.keys EXCEPT ![i] = r.hand[1]]
               /\ q.vals = [r.vals EXCEPT ![i] = r.hand[2]]
               /\ q.new = [r.new EXCEPT ![i] = "live"]
               /\ q.old = IF kicked THEN [r.old EXCEPT ![i] = "deleted"] ELSE r.old
               /\ q.hand = IF kicked THEN <<r.keys[i], r.vals[i]>> ELSE <<>>
BY DEF KickOut, LoopField

\* The inner loop places the entry in hand, and what it displaces is in hand
\* next.
LEMMA KickKeeps ==
    ASSUME NEW r, NEW from \in Nat, NEW n, Probes(n), n >= from, NEW tr, NEW size \in Nat,
           size < n, Rehashing(r, from, n, tr, size), r.hand # <<>>
    PROVE  /\ Rehashing(KickOut(r, n), from, n, tr, size)
           /\ Left(KickOut(r, n), from) = Left(r, from) - 1
<1> DEFINE q == KickOut(r, n)
           k == r.hand[1]
           x == FreeBucket(r.new, k, n)
           kicked == x \in DOMAIN r.old /\ r.old[x] = "live"
<1>0. n \in Nat
  BY DEF Probes
<1>1. LoopType(r, from, n) /\ LoopHolds(r, n, tr) /\ LoopCounts(r, size)
  BY DEF Rehashing
<1>2. /\ IsFiniteSet(LiveIn(r.old)) /\ Cardinality(LiveIn(r.old)) \in Nat
      /\ IsFiniteSet(LiveIn(r.new)) /\ Cardinality(LiveIn(r.new)) \in Nat
      /\ r.old \in [0..(from - 1) -> Flag] /\ r.new \in [0..(n - 1) -> Flag]
      /\ UsedIn(r.new) = LiveIn(r.new)
  BY <1>0, <1>1, LoopFinite, Zenon
<1>3. /\ DOMAIN r = LoopField /\ DOMAIN r.keys = 0..(n - 1) /\ DOMAIN r.vals = 0..(n - 1)
      /\ r.j \in 0..from /\ r.new \in [0..(n - 1) -> {"empty", "live"}]
  BY <1>1 DEF LoopType
<1>4. /\ k \in MapKey /\ tr[k] = {r.hand[2]} /\ \A i : In(r, i) => r.keys[i] # k
  BY <1>1 DEF LoopHolds
<1>5. InHand(r) = 1
  BY DEF InHand
<1>6. Cardinality(UsedIn(r.new)) < n
  BY <1>0, <1>1, <1>2, <1>5, SMTT(30) DEF LoopCounts
<1>7. x \in 0..(n - 1) /\ r.new[x] = "empty" /\ Reaches(r.new, n, k, x)
  BY <1>2, <1>4, <1>6, FreeFound
<1>8. /\ DOMAIN q = LoopField /\ q.j = r.j
      /\ q.keys = [r.keys EXCEPT ![x] = k]
      /\ q.vals = [r.vals EXCEPT ![x] = r.hand[2]]
      /\ q.new = [r.new EXCEPT ![x] = "live"]
      /\ q.old = IF kicked THEN [r.old EXCEPT ![x] = "deleted"] ELSE r.old
      /\ q.hand = IF kicked THEN <<r.keys[x], r.vals[x]>> ELSE <<>>
  BY <1>3, KickFields, ZenonT(40)
<1> HIDE DEF q, k, x
<1>9. kicked <=> x \in LiveIn(r.old)
  BY DEF LiveIn
<1>10. LiveIn(q.old) = LiveIn(r.old) \ {x} /\ q.old \in [0..(from - 1) -> Flag]
  <2>1. CASE kicked
    <3>1. q.old = [r.old EXCEPT ![x] = "deleted"]
      BY <1>8, <2>1, Zenon
    <3>2. "deleted" \in Flag
      BY DEF Flag
    <3> HIDE DEF kicked
    <3> QED
      BY <1>2, <3>1, <3>2, Zenon DEF LiveIn
  <2>2. CASE ~kicked
    <3>1. q.old = r.old
      BY <1>8, <2>2, Zenon
    <3>2. x \notin LiveIn(r.old)
      BY <1>9, <2>2
    <3> QED
      BY <1>2, <3>1, <3>2
  <2> QED
    BY <2>1, <2>2
<1>11. LiveIn(q.new) = LiveIn(r.new) \cup {x} /\ x \notin LiveIn(r.new)
  <2>1. q.new = [r.new EXCEPT ![x] = "live"]
    BY <1>8, Zenon
  <2> HIDE DEF kicked
  <2> QED
    BY <1>2, <1>7, <2>1, Zenon DEF LiveIn
<1>12. IF kicked THEN q.hand # <<>> /\ q.hand[1] = r.keys[x] /\ q.hand[2] = r.vals[x]
       ELSE q.hand = <<>>
  <2>1. CASE kicked
    <3>1. q.hand = <<r.keys[x], r.vals[x]>>
      BY <1>8, <2>1, Zenon
    <3>2. q.hand # <<>> /\ q.hand[1] = r.keys[x] /\ q.hand[2] = r.vals[x]
      BY <3>1
    <3> QED
      BY <2>1, <3>2
  <2>2. CASE ~kicked
    BY <1>8, <2>2, Zenon
  <2> QED
    BY <2>1, <2>2, SMTT(30)
<1> HIDE DEF kicked
<1>13. LoopType(q, from, n)
  <2>1. q.new \in [0..(n - 1) -> {"empty", "live"}]
    BY <1>3, <1>7, <1>8
  <2> QED
    BY <1>3, <1>8, <1>10, <2>1, SMTT(30) DEF LoopType
<1>14. \A i : In(r, i) => i \in 0..(n - 1)
  BY <1>1, <1>2, Zenon DEF LoopHolds, In, LiveIn
<1>15. \A i : In(q, i) <=> (In(r, i) \/ i = x)
  BY <1>10, <1>11, SMTT(30) DEF In
<1>16. In(r, x) <=> kicked
  BY <1>9, <1>11 DEF In
<1>17. ASSUME NEW i \in 0..(n - 1)
       PROVE  /\ q.keys[i] = IF i = x THEN k ELSE r.keys[i]
              /\ q.vals[i] = IF i = x THEN r.hand[2] ELSE r.vals[i]
              /\ q.new[i] = IF i = x THEN "live" ELSE r.new[i]
  BY <1>2, <1>3, <1>7, <1>8, ZenonT(40)
<1>18. LoopHolds(q, n, tr)
  <2>1. \A i \in LiveIn(q.old) : i \in 0..(n - 1) /\ q.new[i] = "empty"
    BY <1>1, <1>10, <1>17 DEF LoopHolds
  <2>2. ASSUME NEW i, In(q, i) PROVE q.keys[i] \in MapKey /\ tr[q.keys[i]] = {q.vals[i]}
    <3>1. CASE i = x
      BY <1>4, <1>7, <1>17, <3>1, SMTT(30)
    <3>2. CASE i # x
      <4>1. In(r, i) /\ q.keys[i] = r.keys[i] /\ q.vals[i] = r.vals[i]
        BY <1>14, <1>15, <1>17, <2>2, <3>2
      <4> QED
        BY <1>1, <4>1, SMTT(30) DEF LoopHolds
    <3> QED
      BY <3>1, <3>2
  <2>3. ASSUME NEW i, NEW b, In(q, i), In(q, b), q.keys[i] = q.keys[b] PROVE i = b
    <3>1. \A c : In(q, c) /\ c # x => In(r, c) /\ q.keys[c] = r.keys[c] /\ q.keys[c] # k
      BY <1>4, <1>14, <1>15, <1>17, SMTT(30)
    <3>2. q.keys[x] = k
      BY <1>7, <1>17, SMTT(30)
    <3>3. ASSUME i # x, b # x PROVE i = b
      <4>1. In(r, i) /\ In(r, b) /\ r.keys[i] = r.keys[b]
        BY <2>3, <3>1, <3>3
      <4> QED
        BY <1>1, <4>1, SMTT(30) DEF LoopHolds
    <3> QED
      BY <2>3, <3>1, <3>2, <3>3
  <2>4. ASSUME kicked
        PROVE  /\ q.hand # <<>> /\ q.hand[1] \in MapKey /\ tr[q.hand[1]] = {q.hand[2]}
               /\ \A i : In(q, i) => q.keys[i] # q.hand[1]
    <3>1. q.hand # <<>> /\ q.hand[1] = r.keys[x] /\ q.hand[2] = r.vals[x] /\ In(r, x)
      BY <1>12, <1>16, <2>4
    <3>2. r.keys[x] \in MapKey /\ tr[r.keys[x]] = {r.vals[x]}
      BY <1>1, <3>1, Zenon DEF LoopHolds
    <3>3. ASSUME NEW i, In(q, i) PROVE q.keys[i] # r.keys[x]
      <4>1. CASE i = x
        BY <1>4, <1>7, <1>17, <3>1, <4>1, SMTT(30)
      <4>2. CASE i # x
        <5>1. In(r, i) /\ q.keys[i] = r.keys[i]
          BY <1>14, <1>15, <1>17, <3>3, <4>2, SMTT(30)
        <5> QED
          BY <1>1, <3>1, <4>2, <5>1, SMTT(30) DEF LoopHolds
      <4> QED
        BY <4>1, <4>2
    <3> QED
      BY <3>1, <3>2, <3>3
  <2>5. ASSUME NEW l \in MapKey, tr[l] # {}
        PROVE  (\E i : In(q, i) /\ q.keys[i] = l) \/ (q.hand # <<>> /\ q.hand[1] = l)
    <3>1. CASE l = k
      BY <1>7, <1>15, <1>17, <3>1
    <3>2. CASE l # k
      <4>1. PICK i : In(r, i) /\ r.keys[i] = l
        BY <1>1, <2>5, <3>2, SMTT(30) DEF LoopHolds, k
      <4>2. CASE i = x
        BY <1>12, <1>16, <4>1, <4>2, SMTT(30)
      <4>3. CASE i # x
        BY <1>14, <1>15, <1>17, <4>1, <4>3, SMTT(30)
      <4> QED
        BY <4>2, <4>3, SMTT(30)
    <3> QED
      BY <3>1, <3>2
  <2>6. \A b \in 0..(n - 1) : r.new[b] # "empty" => q.new[b] # "empty"
    BY <1>17
  <2>7. ASSUME NEW i \in LiveIn(q.new) PROVE Reaches(q.new, n, q.keys[i], i)
    <3>1. CASE i = x
      <4>1. q.keys[i] = k
        BY <1>7, <1>17, <3>1
      <4> QED
        BY <1>4, <1>7, <2>6, <3>1, <4>1, ReachesStill, SMTT(30)
    <3>2. CASE i # x
      <4>1. i \in LiveIn(r.new) /\ In(r, i)
        BY <1>11, <3>2 DEF In
      <4>2. q.keys[i] = r.keys[i]
        BY <1>14, <1>17, <3>2, <4>1, SMTT(30)
      <4>3. r.keys[i] \in MapKey /\ Reaches(r.new, n, r.keys[i], i)
        BY <1>1, <4>1 DEF LoopHolds
      <4> QED
        BY <2>6, <4>2, <4>3, ReachesStill, Zenon
    <3> QED
      BY <3>1, <3>2, SMTT(30)
  <2>8. q.hand # <<>> =>
          /\ q.hand[1] \in MapKey /\ tr[q.hand[1]] = {q.hand[2]}
          /\ \A i : In(q, i) => q.keys[i] # q.hand[1]
    BY <1>12, <2>4
  <2> QED
    BY <2>1, <2>2, <2>3, <2>5, <2>7, <2>8, SMTT(30) DEF LoopHolds
<1>19. Cardinality(LiveIn(q.new)) = Cardinality(LiveIn(r.new)) + 1
  BY <1>2, <1>11, FS_AddElement, Zenon
<1>20. /\ Cardinality(LiveIn(q.old)) + InHand(q) = Cardinality(LiveIn(r.old))
       /\ Cardinality(LiveIn(q.old)) \in Nat /\ InHand(q) \in Nat
  <2>1. /\ Cardinality(LiveIn(q.old)) \in Nat
        /\ Cardinality(LiveIn(q.old)) =
              IF kicked THEN Cardinality(LiveIn(r.old)) - 1 ELSE Cardinality(LiveIn(r.old))
    BY <1>2, <1>9, <1>10, FS_RemoveElement, FS_CardinalityType, SMTT(30) DEF kicked
  <2>2. InHand(q) = IF kicked THEN 1 ELSE 0
    BY <1>12, SMTT(30) DEF InHand
  <2> QED
    BY <1>2, <2>1, <2>2, SMTT(30)
<1>21. LoopCounts(q, size)
  <2>1. \A i \in LiveIn(q.old) : i >= q.j
    BY <1>1, <1>8, <1>10, SMTT(30) DEF LoopCounts
  <2> QED
    BY <1>1, <1>2, <1>5, <1>19, <1>20, <2>1, SMTT(30) DEF LoopCounts
<1>22. Left(q, from) = Left(r, from) - 1
  <2>1. q.j = r.j
    BY <1>8, SMTT(30)
  <2> QED
    BY <1>2, <1>3, <1>5, <1>20, <2>1, SMTT(30) DEF Left
<1> QED
  BY <1>13, <1>18, <1>21, <1>22 DEF Rehashing, q

\* An iteration of either loop, or none when they are over.
LEMMA MovedKeeps ==
    ASSUME NEW r, NEW from \in Nat, NEW n, Probes(n), n >= from, NEW tr, NEW size \in Nat,
           size < n, Rehashing(r, from, n, tr, size), NEW c \in Nat, c < 2 * from,
           Left(r, from) <= 2 * from - c
    PROVE  /\ Rehashing(Moved(r, n), from, n, tr, size)
           /\ Left(Moved(r, n), from) <= 2 * from - (c + 1)
<1>0. n \in Nat
  BY DEF Probes
<1>1. LoopType(r, from, n) /\ LoopCounts(r, size)
  BY DEF Rehashing
<1>2. /\ IsFiniteSet(LiveIn(r.old)) /\ Cardinality(LiveIn(r.old)) \in Nat
      /\ r.old \in [0..(from - 1) -> Flag] /\ InHand(r) \in {0, 1} /\ r.j \in 0..from
  BY <1>0, <1>1, LoopFinite, Zenon DEF LoopType
<1>3. Left(r, from) \in Int
  BY <1>2, SMTT(30) DEF Left
<1>4. CASE r.hand # <<>>
  <2>1. Moved(r, n) = KickOut(r, n)
    BY <1>4 DEF Moved
  <2>2. /\ Rehashing(KickOut(r, n), from, n, tr, size)
        /\ Left(KickOut(r, n), from) = Left(r, from) - 1
    BY <1>4, KickKeeps
  <2> QED
    BY <1>3, <2>1, <2>2
<1>5. CASE r.hand = <<>> /\ r.j \in DOMAIN r.old
  <2>1. Moved(r, n) = Take(r)
    BY <1>5 DEF Moved
  <2>2. /\ Rehashing(Take(r), from, n, tr, size)
        /\ Left(Take(r), from) = Left(r, from) - 1
    <3>1. r.j \in 0..(from - 1)
      BY <1>2, <1>5, SMTT(30)
    <3> QED
      BY <1>0, <1>5, <3>1, TakeKeeps, SMTT(30)
  <2> QED
    BY <1>3, <2>1, <2>2
<1>6. CASE r.hand = <<>> /\ r.j \notin DOMAIN r.old
  <2>1. Moved(r, n) = r
    BY <1>6 DEF Moved
  <2>2. r.j = from
    BY <1>2, <1>6
  <2>3. LiveIn(r.old) = {}
    <3>1. \A i \in LiveIn(r.old) : i \in 0..(from - 1) /\ i >= r.j
      BY <1>1, <1>2 DEF LoopCounts, LiveIn
    <3> QED
      BY <2>2, <3>1
  <2>4. Cardinality(LiveIn(r.old)) = 0 /\ InHand(r) = 0
    BY <1>6, <2>3, FS_EmptySet DEF InHand
  <2>5. Left(r, from) = 0
    BY <2>2, <2>4 DEF Left
  <2> QED
    BY <2>1, <2>5
<1> QED
  BY <1>4, <1>5, <1>6

\* The loops, iteration by iteration.
MoveStep(g, c, m, n) == IF c = 0 THEN Unmoved(m, n) ELSE Moved(g[c - 1], n)
AreMoves(g, m, n) == g = [c \in 0..(2 * m.n) |-> MoveStep(g, c, m, n)]

LEMMA MovesExist ==
    ASSUME NEW m, m.n \in Nat, NEW n
    PROVE  \E g : AreMoves(g, m, n) /\ Rehash(m, n) = g[2 * m.n]
<1> DEFINE D == 0..(2 * m.n)
           Upto(d, f) == \A c \in D : c < d => f[c] = MoveStep(f, c, m, n)
           T == {d \in Nat : \E f : Upto(d, f)}
<1>1. 0 \in T
  <2>1. Upto(0, <<>>)
    OBVIOUS
  <2> QED
    BY <2>1
<1>2. ASSUME NEW d \in T PROVE d + 1 \in T
  <2>1. PICK f : Upto(d, f)
    OBVIOUS
  <2> DEFINE h == [c \in D |-> IF c < d THEN f[c] ELSE MoveStep(f, c, m, n)]
  <2>2. ASSUME NEW c \in D, c < d + 1 PROVE h[c] = MoveStep(h, c, m, n)
    <3>1. h[c] = MoveStep(f, c, m, n)
      <4>1. CASE c < d
        BY <2>1, <4>1
      <4>2. CASE ~(c < d)
        BY <4>2
      <4> QED
        BY <4>1, <4>2
    <3>2. c # 0 => c - 1 \in D /\ c - 1 < d /\ h[c - 1] = f[c - 1]
      <4>1. c # 0 => c - 1 \in D /\ c - 1 < d
        BY <2>2
      <4> QED
        BY <4>1
    <3> HIDE DEF h
    <3> QED
      BY <3>1, <3>2, Zenon DEF MoveStep
  <2>3. Upto(d + 1, h)
    BY <2>2
  <2> HIDE DEF h
  <2> QED
    BY <2>3
<1>3. T = Nat
  BY <1>1, <1>2, FromZeroOn, Zenon
<1>4. 2 * m.n + 1 \in Nat
  OBVIOUS
<1>5. 2 * m.n + 1 \in T
  <2> HIDE DEF T
  <2> QED
    BY <1>3, <1>4
<1>6. PICK f : Upto(2 * m.n + 1, f)
  BY <1>5
<1> DEFINE g == [c \in D |-> f[c]]
<1>7. ASSUME NEW c \in D PROVE g[c] = MoveStep(g, c, m, n)
  <2>1. f[c] = MoveStep(f, c, m, n) /\ g[c] = f[c]
    BY <1>6
  <2>2. c # 0 => g[c - 1] = f[c - 1]
    OBVIOUS
  <2> HIDE DEF g
  <2> QED
    BY <2>1, <2>2, Zenon DEF MoveStep
<1>8. AreMoves(g, m, n)
  <2>1. g = [c \in D |-> g[c]]
    OBVIOUS
  <2> HIDE DEF g
  <2> QED
    BY <1>7, <2>1, Zenon DEF AreMoves
<1>9. Rehash(m, n) = (CHOOSE e : AreMoves(e, m, n))[2 * m.n]
  BY Zenon DEF Rehash, AreMoves, MoveStep
<1> QED
  BY <1>8, <1>9, Zenon

\* After the loops every entry is in the new table, where a search finds it.
LEMMA RehashKeeps ==
    ASSUME NEW m, Arrays(m), NEW tr, Holds(m, tr), Counted(m), NEW n, Probes(n), n >= m.n,
           m.size < n
    PROVE  LET r == Rehash(m, n)
           IN  /\ LoopType(r, m.n, n) /\ LoopHolds(r, n, tr)
               /\ LiveIn(r.old) = {} /\ r.hand = <<>>
               /\ Cardinality(LiveIn(r.new)) = m.size
<1>1. m.n \in Nat /\ n \in Nat /\ m.size \in Nat
  <2>1. m.n \in Nat /\ m.flags \in [0..(m.n - 1) -> Flag]
    BY DEF Arrays
  <2> QED
    BY <2>1, CountsFinite DEF Probes, Counted
<1>2. PICK g : AreMoves(g, m, n) /\ Rehash(m, n) = g[2 * m.n]
  BY <1>1, MovesExist
<1>3. \A c \in 0..(2 * m.n) : g[c] = MoveStep(g, c, m, n)
  BY <1>2, Zenon DEF AreMoves
<1> DEFINE Good(c) == Rehashing(g[c], m.n, n, tr, m.size) /\ Left(g[c], m.n) <= 2 * m.n - c
           T == {c \in Nat : c <= 2 * m.n => Good(c)}
<1>4. 0 \in T
  <2>1. g[0] = Unmoved(m, n)
    BY <1>1, <1>3 DEF MoveStep
  <2>2. Rehashing(Unmoved(m, n), m.n, n, tr, m.size) /\ Left(Unmoved(m, n), m.n) <= 2 * m.n
    BY <1>1, UnmovedStarts
  <2> QED
    BY <1>1, <2>1, <2>2
<1>5. ASSUME NEW c \in T PROVE c + 1 \in T
  <2> SUFFICES ASSUME c + 1 <= 2 * m.n PROVE Good(c + 1)
    OBVIOUS
  <2>1. c \in Nat /\ c < 2 * m.n /\ c + 1 \in 0..(2 * m.n) /\ (c + 1) - 1 = c /\ c + 1 # 0
    BY <1>1
  <2>2. Good(c)
    BY <1>1, <2>1
  <2>3. g[c + 1] = Moved(g[c], n)
    BY <1>3, <2>1 DEF MoveStep
  <2>4. /\ Rehashing(Moved(g[c], n), m.n, n, tr, m.size)
        /\ Left(Moved(g[c], n), m.n) <= 2 * m.n - (c + 1)
    BY <1>1, <2>1, <2>2, MovedKeeps, Zenon
  <2> QED
    BY <2>3, <2>4
<1>6. T = Nat
  BY <1>4, <1>5, FromZeroOn, Zenon
<1>7. Good(2 * m.n)
  <2>1. 2 * m.n \in Nat
    BY <1>1
  <2>2. 2 * m.n \in T
    <3> HIDE DEF T
    <3> QED
      BY <1>6, <2>1
  <2> QED
    BY <2>1, <2>2
<1> DEFINE r == Rehash(m, n)
<1>8. Rehashing(r, m.n, n, tr, m.size) /\ Left(r, m.n) <= 0
  BY <1>1, <1>2, <1>7
<1> HIDE DEF r, T
<1>9. LoopType(r, m.n, n) /\ LoopHolds(r, n, tr) /\ LoopCounts(r, m.size)
  BY <1>8 DEF Rehashing
<1>10. /\ IsFiniteSet(LiveIn(r.old)) /\ Cardinality(LiveIn(r.old)) \in Nat
       /\ Cardinality(LiveIn(r.new)) \in Nat /\ InHand(r) \in {0, 1} /\ r.j \in 0..m.n
  BY <1>1, <1>9, LoopFinite, Zenon DEF LoopType
<1>11. Cardinality(LiveIn(r.old)) = 0 /\ InHand(r) = 0
  <2>1. PICK a \in Nat, b \in {0, 1}, j \in 0..m.n :
           a = Cardinality(LiveIn(r.old)) /\ b = InHand(r) /\ j = r.j
    BY <1>10
  <2>2. ((m.n - j) + a) + b <= 0
    BY <1>8, <2>1, Zenon DEF Left
  <2>3. a = 0 /\ b = 0
    BY <1>1, <2>2, SMTT(30)
  <2> QED
    BY <2>1, <2>3
<1>12. LiveIn(r.old) = {} /\ r.hand = <<>>
  BY <1>10, <1>11, FS_EmptySet, SMTT(30) DEF InHand
<1>13. Cardinality(LiveIn(r.new)) = m.size
  BY <1>9, <1>10, <1>11 DEF LoopCounts
<1> QED
  BY <1>9, <1>12, <1>13, SMTT(30) DEF r

\* hsk_map_resize as hsk_map_put calls it: the table it makes is as large as
\* the one before or larger, and has a bucket to spare.
LEMMA ResizeFits ==
    ASSUME NEW n, n = 0 \/ Probes(n), NEW size \in Nat, size <= UpperBound(n)
    PROVE  LET to == IF n > 2 * size THEN n - 1 ELSE n + 1
               N == Rounded(to)
           IN  Probes(N) /\ N >= n /\ size < UpperBound(N) /\ UpperBound(N) < N
<1> DEFINE to == IF n > 2 * size THEN n - 1 ELSE n + 1
<1>1. PICK half \in Nat : n = 2 * half
  BY DEF Probes
<1>2. n \in Nat /\ to \in Nat
  BY <1>1
<1>3. PICK N : N = Rounded(to)
  OBVIOUS
<1>4. Probes(N) /\ N >= to
  BY <1>2, <1>3, RoundedProbes
<1>5. PICK Half \in Nat : N = 2 * Half
  BY <1>4, Zenon DEF Probes
<1>6. N \in Nat /\ N >= 4
  BY <1>4 DEF Probes
<1>7. /\ UpperBound(n) \in Nat /\ 100 * UpperBound(n) <= 77 * n + 50
      /\ UpperBound(N) \in Nat /\ 100 * UpperBound(N) <= 77 * N + 50
      /\ 77 * N + 50 < 100 * UpperBound(N) + 100
  BY <1>2, <1>6, UpperBounds, Zenon
<1>8. N >= n /\ (~(n > 2 * size) => N >= n + 2)
  BY <1>1, <1>4, <1>5
<1> HIDE DEF to
<1>9. size < UpperBound(N)
  <2>1. CASE n > 2 * size
    BY <1>2, <1>6, <1>7, <1>8, <2>1
  <2>2. CASE ~(n > 2 * size)
    BY <1>2, <1>6, <1>7, <1>8, <2>2
  <2> QED
    BY <2>1, <2>2
<1>10. UpperBound(N) < N
  BY <1>6, <1>7
<1> QED
  BY <1>3, <1>4, <1>8, <1>9, <1>10 DEF to

LEMMA ResizeKeeps ==
    ASSUME NEW m, Arrays(m), m.n = 0 \/ Probes(m.n), NEW tr, Holds(m, tr), Counted(m)
    PROVE  LET p == Resize(m, Request(m))
           IN  IsTable(p) /\ Holds(p, tr) /\ Counted(p) /\ p.occupied < p.upper
<1> DEFINE n == Rounded(Request(m))
           r == Rehash(m, n)
           p == Resize(m, Request(m))
<1>1. m.n \in Nat /\ m.size \in Nat /\ m.size <= UpperBound(m.n)
  <2>1. m.n \in Nat /\ m.flags \in [0..(m.n - 1) -> Flag]
    BY DEF Arrays
  <2>2. UpperBound(m.n) \in Nat
    BY <2>1, UpperBounds, Zenon
  <2> QED
    BY <2>1, <2>2, CountsFinite, SMTT(30) DEF Counted
<1>2. Probes(n) /\ n >= m.n /\ m.size < UpperBound(n) /\ UpperBound(n) < n
  BY <1>1, ResizeFits DEF Request
<1>3. n \in Nat /\ UpperBound(n) \in Nat
  BY <1>2, UpperBounds, SMTT(30) DEF Probes
<1>4. /\ LoopType(r, m.n, n) /\ LoopHolds(r, n, tr)
      /\ LiveIn(r.old) = {} /\ r.hand = <<>> /\ Cardinality(LiveIn(r.new)) = m.size
  <2>1. m.size < n
    BY <1>1, <1>2, <1>3
  <2> HIDE DEF n
  <2> QED
    BY <1>2, <2>1, RehashKeeps
<1>5. ~(m.size >= UpperBound(n))
  BY <1>1, <1>2, <1>3
<1>6. p = [n |-> n, flags |-> r.new, keys |-> r.keys, vals |-> r.vals,
           size |-> m.size, occupied |-> m.size, upper |-> UpperBound(n)]
  BY <1>5, Zenon DEF Resize
<1> HIDE DEF n, r, p
<1>7. /\ DOMAIN p = Field /\ p.n = n /\ p.flags = r.new /\ p.keys = r.keys /\ p.vals = r.vals
      /\ p.size = m.size /\ p.occupied = m.size /\ p.upper = UpperBound(n)
  BY <1>6 DEF Field
<1>8. UsedIn(r.new) = LiveIn(r.new) /\ r.new \in [0..(n - 1) -> Flag]
  BY <1>1, <1>3, <1>4, LoopFinite, ZenonT(40)
<1>9. Counted(p) /\ p.occupied < p.upper
  BY <1>1, <1>2, <1>3, <1>4, <1>7, <1>8, SMTT(30) DEF Counted
<1>10. IsTable(p)
  <2>1. \E i \in 0..(n - 1) : r.new[i] = "empty"
    BY <1>1, <1>2, <1>3, <1>4, <1>8, CountsFinite, SMTT(30)
  <2>2. DOMAIN r.keys = 0..(n - 1) /\ DOMAIN r.vals = 0..(n - 1)
    BY <1>4 DEF LoopType
  <2> QED
    BY <1>2, <1>7, <1>8, <2>1, <2>2, SMTT(30) DEF IsTable
<1>11. \A i : In(r, i) <=> i \in 0..(n - 1) /\ Live(p, i)
  BY <1>4, <1>7, <1>8, ZenonT(40) DEF In, LiveIn, Live
<1>12. Holds(p, tr)
  <2>1. ASSUME NEW i \in 0..(n - 1), Live(p, i)
        PROVE  /\ p.keys[i] \in MapKey /\ tr[p.keys[i]] = {p.vals[i]}
               /\ Reaches(p.flags, n, p.keys[i], i)
    <3>1. In(r, i) /\ i \in LiveIn(r.new)
      BY <1>4, <1>11, <2>1, Zenon DEF In
    <3> QED
      BY <1>4, <1>7, <3>1, Zenon DEF LoopHolds
  <2>2. ASSUME NEW i \in 0..(n - 1), NEW j \in 0..(n - 1),
               Live(p, i), Live(p, j), p.keys[i] = p.keys[j]
        PROVE  i = j
    BY <1>4, <1>7, <1>11, <2>2, ZenonT(40) DEF LoopHolds
  <2>3. ASSUME NEW k \in MapKey, tr[k] # {}
        PROVE  \E i \in 0..(n - 1) : Live(p, i) /\ p.keys[i] = k
    <3>1. PICK i : In(r, i) /\ r.keys[i] = k
      BY <1>4, <2>3, ZenonT(40) DEF LoopHolds
    <3> QED
      BY <1>7, <1>11, <3>1
  <2> QED
    BY <1>7, <2>1, <2>2, <2>3 DEF Holds
<1> QED
  BY <1>9, <1>10, <1>12, SMTT(30) DEF p

-----------------------------------------------------------------------------
(* Every sequence of calls.                                                *)

MapInv ==
    /\ Arrays(table) /\ table.n <= MaxBuckets
    /\ table.n = 0 \/ IsTable(table)
    /\ DOMAIN truth = MapKey
    /\ Holds(table, truth)
    /\ Counted(table)

LEMMA MapInvInit == MapInit => MapInv
<1> SUFFICES ASSUME MapInit PROVE MapInv
  OBVIOUS
<1>1. /\ DOMAIN table = Field /\ table.n = 0 /\ table.flags = <<>> /\ table.keys = <<>>
      /\ table.vals = <<>> /\ table.size = 0 /\ table.occupied = 0 /\ table.upper = 0
  BY DEF MapInit, Nothing, Field
<1>2. 0..(0 - 1) = {} /\ UpperBound(0) = 0
  BY DEF UpperBound
<1>3. <<>> \in [{} -> Flag] /\ DOMAIN <<>> = {}
  OBVIOUS
<1>4. Arrays(table)
  BY <1>1, <1>2, <1>3 DEF Arrays
<1>5. LiveIn(<<>>) = {} /\ UsedIn(<<>>) = {}
  BY DEF LiveIn, UsedIn
<1>6. Counted(table)
  <2>1. Cardinality(LiveIn(table.flags)) = 0 /\ Cardinality(UsedIn(table.flags)) = 0
    BY <1>1, <1>5, FS_EmptySet, Zenon
  <2> QED
    BY <1>1, <1>2, <2>1 DEF Counted
<1>7. truth = [k \in MapKey |-> {}]
  BY DEF MapInit
<1>8. Holds(table, truth)
  BY <1>1, <1>2, <1>7 DEF Holds
<1>9. table.n <= MaxBuckets
  BY <1>1, MapAssumption
<1> QED
  BY <1>1, <1>4, <1>6, <1>7, <1>8, <1>9 DEF MapInv

LEMMA MapInvStep ==
    ASSUME MapInv, [MapNext]_mapvars
    PROVE  MapInv'
<1>1. /\ Arrays(table) /\ table.n <= MaxBuckets /\ (table.n = 0 \/ IsTable(table))
      /\ DOMAIN truth = MapKey /\ Holds(table, truth) /\ Counted(table)
  BY DEF MapInv
<1>2. table.n # 0 => IsTable(table)
  BY <1>1
<1>3. ASSUME NEW k \in MapKey, NEW v \in MapVal[k], MapSet(k, v) PROVE MapInv'
  <2> DEFINE m == Ready(table)
  <2>1. m.n <= MaxBuckets /\ table' = Put(m, k, v) /\ truth' = [truth EXCEPT ![k] = {v}]
    BY <1>3, SMTT(30) DEF MapSet
  <2>2. IsTable(m) /\ Holds(m, truth) /\ Counted(m) /\ m.occupied < m.upper
    <3>1. CASE Full(table)
      <4>1. m = Resize(table, Request(table))
        BY <3>1 DEF Ready
      <4>2. table.n = 0 \/ Probes(table.n)
        BY <1>1 DEF IsTable
      <4> HIDE DEF m
      <4> QED
        BY <1>1, <4>1, <4>2, ResizeKeeps
    <3>2. CASE ~Full(table)
      <4>1. m = table
        BY <3>2, SMTT(30) DEF Ready
      <4>2. table.n \in Nat /\ table.occupied \in Nat /\ table.upper \in Nat
        <5>1. table.n \in Nat /\ table.flags \in [0..(table.n - 1) -> Flag]
          BY <1>1 DEF Arrays
        <5>2. UpperBound(table.n) \in Nat
          BY <5>1, UpperBounds, Zenon
        <5> QED
          BY <1>1, <5>1, <5>2, CountsFinite, SMTT(30) DEF Counted
      <4>3. table.occupied < table.upper
        BY <3>2, <4>2 DEF Full
      <4>4. table.n # 0
        <5>1. UpperBound(0) = 0
          BY DEF UpperBound
        <5> QED
          BY <1>1, <4>2, <4>3, <5>1 DEF Counted
      <4> HIDE DEF m
      <4> QED
        BY <1>1, <4>1, <4>3, <4>4
    <3> QED
      BY <3>1, <3>2, SMTT(30)
  <2> HIDE DEF m
  <2>3. IsTable(table') /\ Holds(table', truth') /\ Counted(table') /\ table'.n = m.n
    BY <1>1, <2>1, <2>2, PutKeeps, Zenon
  <2>4. Arrays(table')
    BY <2>3 DEF IsTable, Arrays, Probes
  <2> QED
    BY <1>1, <2>1, <2>3, <2>4, SMTT(30) DEF MapInv
<1>4. ASSUME NEW k \in MapKey, MapDel(k) PROVE MapInv'
  <2>1. /\ MapHas(table, k) /\ table' = Deleted(table, Lookup(table, k))
        /\ truth' = [truth EXCEPT ![k] = {}]
    BY <1>4, SMTT(30) DEF MapDel, Deleted
  <2>2. table.n # 0
    BY <2>1 DEF MapHas, Lookup
  <2>3. IsTable(table') /\ Holds(table', truth') /\ Counted(table') /\ table'.n = table.n
    BY <1>1, <1>2, <2>1, <2>2, DeleteKeeps, Zenon
  <2>4. Arrays(table')
    BY <2>3 DEF IsTable, Arrays, Probes
  <2> QED
    BY <1>1, <2>1, <2>3, <2>4 DEF MapInv
<1>5. ASSUME MapClear PROVE MapInv'
  <2>1. table' = Cleared(table) /\ truth' = [k \in MapKey |-> {}]
    BY <1>5 DEF MapClear, Cleared
  <2>2. /\ Arrays(table') /\ table'.n = table.n /\ Counted(table') /\ Holds(table', truth')
        /\ IsTable(table) => IsTable(table')
    BY <1>1, <2>1, ClearKeeps
  <2> QED
    BY <1>1, <2>1, <2>2 DEF MapInv
<1>6. ASSUME UNCHANGED mapvars PROVE MapInv'
  <2>1. table' = table /\ truth' = truth
    BY <1>6 DEF mapvars
  <2> QED
    BY <1>1, <2>1 DEF MapInv
<1> QED
  BY <1>3, <1>4, <1>5, <1>6 DEF MapNext

LEMMA MapInvExact == MapInv => MapExact
<1> SUFFICES ASSUME MapInv PROVE MapExact
  OBVIOUS
<1>1. /\ Arrays(table) /\ table.n <= MaxBuckets /\ (table.n = 0 \/ IsTable(table))
      /\ Holds(table, truth) /\ Counted(table)
  BY DEF MapInv
<1>2. table.n \in Nat /\ table.flags \in [0..(table.n - 1) -> Flag]
  BY <1>1, SMTT(30) DEF Arrays
<1> DEFINE Of(f) == {i \in DOMAIN table.flags : table.flags[i] = f}
<1>3. DOMAIN table.flags = {i \in 0..MaxBuckets : i < table.n}
  BY <1>1, <1>2, MapAssumption
<1>4. LiveIn(table.flags) = Of("live")
  BY DEF LiveIn
<1>5. Cardinality(UsedIn(table.flags)) = Cardinality(Of("live")) + Cardinality(Of("deleted"))
  <2>1. /\ IsFiniteSet(UsedIn(table.flags)) /\ IsFiniteSet(LiveIn(table.flags))
    BY <1>2, CountsFinite
  <2>2. /\ UsedIn(table.flags) = Of("live") \cup Of("deleted")
        /\ Of("live") \cap Of("deleted") = {}
    BY <1>2 DEF UsedIn, Flag
  <2>3. Of("deleted") \in SUBSET UsedIn(table.flags)
    BY <2>2
  <2> HIDE DEF Of
  <2>4. IsFiniteSet(Of("live")) /\ IsFiniteSet(Of("deleted"))
    BY <1>4, <2>1, <2>3, FS_Subset
  <2>5. /\ Cardinality(Of("live")) \in Nat /\ Cardinality(Of("deleted")) \in Nat
        /\ Cardinality({}) = 0
    BY <2>4, FS_CardinalityType, FS_EmptySet
  <2>6. Cardinality(Of("live") \cup Of("deleted")) =
           Cardinality(Of("live")) + Cardinality(Of("deleted"))
              - Cardinality(Of("live") \cap Of("deleted"))
    BY <2>4, FS_Union, Zenon
  <2>7. PICK l \in Nat, d \in Nat : l = Cardinality(Of("live")) /\ d = Cardinality(Of("deleted"))
    BY <2>5
  <2>8. Cardinality(UsedIn(table.flags)) = l + (d - 0)
    BY <2>2, <2>5, <2>6, <2>7, Zenon
  <2>9. l + (d - 0) = l + d
    OBVIOUS
  <2> QED
    BY <2>7, <2>8, <2>9, Zenon
<1>6. table.n > 0 => Cardinality(Of("empty")) > 0
  <2> SUFFICES ASSUME table.n > 0 PROVE Cardinality(Of("empty")) > 0
    OBVIOUS
  <2>1. PICK i \in 0..(table.n - 1) : table.flags[i] = "empty"
    BY <1>1, <1>2 DEF IsTable
  <2>2. i \in Of("empty") /\ Of("empty") \in SUBSET (0..(table.n - 1))
    BY <1>2, <2>1
  <2>3. IsFiniteSet(0..(table.n - 1))
    BY <1>2, FS_Interval
  <2> HIDE DEF Of
  <2>4. IsFiniteSet(Of("empty")) /\ Cardinality(Of("empty")) \in Nat
    BY <2>2, <2>3, FS_Subset, FS_CardinalityType, Zenon
  <2> QED
    BY <2>2, <2>4, FS_EmptySet
<1>7. MapTypeOK
  BY <1>1, <1>3, <1>4, <1>5, <1>6, SMTT(30) DEF MapTypeOK, Counted
<1>8. ASSUME NEW k \in MapKey PROVE MapGet(table, k) = truth[k]
  <2>1. CASE table.n = 0
    <3>1. 0..(table.n - 1) = {}
      BY <2>1, SMTT(30)
    <3>2. truth[k] = {}
      BY <1>1, <3>1 DEF Holds
    <3> QED
      BY <2>1, <3>2 DEF MapGet, MapHas, Lookup
  <2>2. CASE table.n # 0
    BY <1>1, <2>2, GetExact
  <2> QED
    BY <2>1, <2>2, SMTT(30)
<1> QED
  BY <1>7, <1>8 DEF MapExact

\* After any sequence of hsk_map_set, hsk_map_del and hsk_map_clear, for every
\* set of keys, every hash function and every bound on the buckets, hsk_map_get
\* finds what was set last and not deleted since, and nothing else; the counters
\* count, and a bucket is always left empty, so that every search ends.
THEOREM MapExactCorrect == MapSpec => []MapExact
<1>1. MapInit => MapInv
  BY MapInvInit
<1>2. MapInv /\ [MapNext]_mapvars => MapInv'
  BY MapInvStep
<1>3. MapInv => MapExact
  BY MapInvExact
<1> QED
  BY <1>1, <1>2, <1>3, PTL DEF MapSpec
============================================================================
