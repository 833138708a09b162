----------------------------- MODULE ChainRules -----------------------------
(***************************************************************************)
(* The consensus rules of src/src/chain.c that look at a header's          *)
(* ancestors: median time past and difficulty.  A path is the sequence of  *)
(* headers, [time, bits, work], from the genesis header (height 0) up.     *)
(***************************************************************************)
EXTENDS HeaderPow, SequencesExt

CONSTANTS
    Timespan,         \* headers in the median time past (11)
    Window,           \* headers in the difficulty average (144)
    Spacing,          \* HSK_TARGET_SPACING
    MinActual,        \* HSK_MIN_ACTUAL
    MaxActual,        \* HSK_MAX_ACTUAL
    Bits,             \* HSK_BITS, the easiest difficulty
    Limit,            \* HSK_LIMIT, the target of HSK_BITS
    TargetReset,      \* HSK_TARGET_RESET
    NoRetargetting    \* HSK_NO_RETARGETTING

ASSUME RulesAssumption ==
    /\ {Timespan, Window, Spacing, MinActual, Bits, Limit} \subseteq Nat \ {0}
    /\ MaxActual \in Nat /\ MinActual <= MaxActual
    /\ Limit = PowToTarget(Bits)
    /\ {TargetReset, NoRetargetting} \subseteq BOOLEAN

At(path, h) == path[h + 1]     \* the header at height h
Height(path) == Len(path) - 1

\* hsk_chain_get_mtp: the upper median of the last Timespan times.
GetMTP(path) ==
    LET size   == Min({Timespan, Len(path)})
        times  == [i \in 1..size |-> path[Len(path) + 1 - i].time]
        median == SortSeq(times, LAMBDA a, b : a < b)
    IN  median[(size \div 2) + 1]

\* hsk_header_swap of two of the three headers, when they are out of order.
SwapLater(s, i, j) == IF s[i].time > s[j].time
                      THEN [s EXCEPT ![i] = s[j], ![j] = s[i]]
                      ELSE s

\* hsk_chain_suitable_block: of the headers at h - 2, h - 1 and h, the one
\* with the median time.
SuitableBlock(path, h) ==
    LET s0 == <<At(path, h - 2), At(path, h - 1), At(path, h)>>
        s1 == SwapLater(s0, 1, 3)
        s2 == SwapLater(s1, 1, 2)
        s3 == SwapLater(s2, 2, 3)
    IN  s3[2]

Clamp(actual) == Max({MinActual, Min({MaxActual, actual})})

\* Mutation: the target is not limited.
RetargetNoLimit(first, last) ==
    LET proof  == ((last.work - first.work) * Spacing)
                      \div Clamp(last.time - first.time)
    IN  IF proof = 0 THEN Bits ELSE PowToBits((MaxTarget \div proof) - 1)

\* hsk_chain_retarget: the work of the window, per Spacing of its time.
Retarget(first, last) ==
    LET proof  == ((last.work - first.work) * Spacing)
                      \div Clamp(last.time - first.time)
        target == (MaxTarget \div proof) - 1
    IN  IF proof = 0 \/ target > Limit THEN Bits ELSE PowToBits(target)

\* hsk_chain_get_target: the bits of a header with this time after the path.
GetTarget(time, path) ==
    LET h == Height(path)
    IN  IF \/ NoRetargetting
           \/ TargetReset /\ time > At(path, h).time + Spacing * 2
           \/ h < Window + 2
        THEN Bits
        ELSE Retarget(SuitableBlock(path, h - Window), SuitableBlock(path, h))

\* hsk_header_calc_work.
CalcWork(bits, path) == At(path, Height(path)).work + GetProof(bits)

============================================================================
