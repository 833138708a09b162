------------------------------- MODULE Bignum -------------------------------
(***************************************************************************)
(* src/src/bn.c: numbers of BnSize words of WordBits bits (16 words of 32  *)
(* bits in the code), little end first.  The arithmetic works in place on  *)
(* the caller's variables, which may be one and the same: a memory m maps  *)
(* the name of a variable to its words, and an operation called with names *)
(* reads and writes the memory in the order of the code.                   *)
(***************************************************************************)
EXTENDS Integers, SequencesExt, Bitwise

CONSTANTS WordBits, BnSize

ASSUME BnAssumption == WordBits \in Nat \ {0} /\ BnSize \in Nat \ {0, 1}

Word == 2 ^ WordBits                        \* HSK_BN_MAX + 1
Ascending == [i \in 1..BnSize |-> i - 1]
Descending == Reverse(Ascending)
Flag(b) == IF b THEN 1 ELSE 0

\* hsk_bn_init.
Zero == [i \in 0..(BnSize - 1) |-> 0]

\* hsk_bn_from_int: a 64-bit integer fills two words.
FromInt(v) == [Zero EXCEPT ![0] = v % Word, ![1] = (v \div Word) % Word]

\* hsk_bn_is_zero.
IsZero(n) == \A i \in DOMAIN n : n[i] = 0

\* hsk_bn_cmp: the highest word in which they differ decides.
BnCmp(a, b) ==
    LET i == SelectInSeq(Descending, LAMBDA k : a[k] # b[k])
    IN  IF i = 0 THEN 0
        ELSE IF a[Descending[i]] > b[Descending[i]] THEN 1 ELSE -1

\* hsk_bn_inc: the carry runs on while a word wraps to zero.
BnInc(n) ==
    FoldLeft(LAMBDA s, i :
                 IF s.done THEN s
                 ELSE LET res == (s.n[i] + 1) % Word
                      IN  [n |-> [s.n EXCEPT ![i] = res], done |-> res > s.n[i]],
             [n |-> n, done |-> FALSE], Ascending).n

\* _lshift_word.
LShiftWord(n, nwords) ==
    FoldLeft(LAMBDA s, i : [s EXCEPT ![i] = IF i >= nwords THEN s[i - nwords] ELSE 0],
             n, Descending)

\* The loop over bits of hsk_bn_lshift, and _lshift_one_bit.
LShiftBits(n, nbits) ==
    FoldLeft(LAMBDA s, i :
                 [s EXCEPT ![i] =
                     ((@ * 2 ^ nbits) % Word)
                     + IF i = 0 THEN 0 ELSE s[i - 1] \div 2 ^ (WordBits - nbits)],
             n, Descending)

\* hsk_bn_lshift.
BnLShift(n, nbits) ==
    LET nwords == nbits \div WordBits
        rest   == nbits - nwords * WordBits
        moved  == IF nwords # 0 THEN LShiftWord(n, nwords) ELSE n
    IN  IF rest # 0 THEN LShiftBits(moved, rest) ELSE moved

\* _rshift_one_bit.
RShiftOneBit(n) ==
    FoldLeft(LAMBDA s, i :
                 [s EXCEPT ![i] =
                     (@ \div 2)
                     + IF i = BnSize - 1 THEN 0 ELSE (s[i + 1] * (Word \div 2)) % Word],
             n, Ascending)

-----------------------------------------------------------------------------
\* hsk_bn_add: c = a + b.
BnAdd(m, a, b, c) ==
    FoldLeft(LAMBDA s, i :
                 LET tmp == s.m[a][i] + s.m[b][i] + s.carry
                 IN  [m |-> [s.m EXCEPT ![c][i] = tmp % Word],
                      carry |-> Flag(tmp >= Word)],
             [m |-> m, carry |-> 0], Ascending).m

\* hsk_bn_sub: c = a - b.
BnSub(m, a, b, c) ==
    FoldLeft(LAMBDA s, i :
                 LET res == s.m[a][i] + Word - (s.m[b][i] + s.borrow)
                 IN  [m |-> [s.m EXCEPT ![c][i] = res % Word],
                      borrow |-> Flag(res < Word)],
             [m |-> m, borrow |-> 0], Ascending).m

\* hsk_bn_mul: the rows are added up in variables of its own, and c is
\* assigned at the end.
BnMul(m, a, b, c) ==
    LET Product(i, j) == LShiftWord(FromInt(m[a][i] * m[b][j]), i + j)
        Add(x, y) == BnAdd([x |-> x, y |-> y], "x", "y", "y").y
        Row(i) == FoldLeft(LAMBDA row, j :
                               IF i + j < BnSize THEN Add(Product(i, j), row) ELSE row,
                           Zero, Ascending)
    IN  [m EXCEPT ![c] = FoldLeft(LAMBDA cc, i : Add(Row(i), cc), Zero, Ascending)]

\* hsk_bn_div's first loop: denom, a copy of b, and current are doubled until
\* denom is larger than a, or its highest bit is set.
RECURSIVE Doubled(_, _, _)
Doubled(a, denom, current) ==
    IF BnCmp(denom, a) = 1
    THEN [denom |-> RShiftOneBit(denom), current |-> RShiftOneBit(current)]
    ELSE IF denom[BnSize - 1] >= Word \div 2
    THEN [denom |-> denom, current |-> current]
    ELSE Doubled(a, LShiftBits(denom, 1), LShiftBits(current, 1))

\* Its second loop subtracts denom where it fits, and halves both.
RECURSIVE Halved(_, _, _, _)
Halved(tmp, denom, current, answer) ==
    LET fits == BnCmp(tmp, denom) # -1
        rest == BnSub([tmp |-> tmp, denom |-> denom], "tmp", "denom", "tmp").tmp
        joined == [i \in DOMAIN answer |-> answer[i] | current[i]]
    IN  IF IsZero(current) THEN answer
        ELSE Halved(IF fits THEN rest ELSE tmp, RShiftOneBit(denom),
                    RShiftOneBit(current), IF fits THEN joined ELSE answer)

\* Mutation: c is cleared at the start, where it may still be a.
BnDivClearsFirst(m, a, b, c) ==
    LET n == [m EXCEPT ![c] = Zero]
        d == Doubled(n[a], m[b], FromInt(1))
    IN  [m EXCEPT ![c] = Halved(m[a], d.denom, d.current, Zero)]

\* hsk_bn_div: c = a \div b, for b other than 0.
BnDiv(m, a, b, c) ==
    LET d == Doubled(m[a], m[b], FromInt(1))
    IN  [m EXCEPT ![c] = Halved(m[a], d.denom, d.current, Zero)]

=============================================================================
