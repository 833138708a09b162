------------------------------- MODULE MCRules -------------------------------
(***************************************************************************)
(* The pure algorithms of headers, proofs and messages, each over its own  *)
(* inputs: every chain of at most MaxHeight headers whose times obey       *)
(* hsk_chain_insert and lie at most MaxGap after their parent's; every     *)
(* target; every pair of bn.c's numbers, read off the variable target as   *)
(* quotient and remainder; the locators of                                 *)
(* all heights up to Dense and of larger ones, about doubling; and for     *)
(* every name tree of at most MaxNames names and every key, the proofs     *)
(* whose nodes are found on a way down the tree, whatever the key; and DNS *)
(* messages of at most MaxRecords records, whose names extend one another; *)
(* and every list of at most MaxSeeds seeds.                               *)
(***************************************************************************)
EXTENDS ChainRules, Bignum, Locator, ProofWalk, DnsWire, Seeds

CONSTANTS MaxHeight, MaxGap, Dense, MaxTip, MaxRecords, MaxSeeds

VARIABLES path, target, msg

vars == <<path, target, tip, walk, msg, seeds>>

NoMsg == [s \in Section |-> <<>>]

Init ==
    /\ path = <<[time |-> 2, bits |-> Bits, work |-> GetProof(Bits)]>>
    /\ target = 0
    /\ tip = 0
    /\ walk = NoWalk
    /\ msg = NoMsg
    /\ seeds = <<>>

Extend(time) ==
    LET bits == GetTarget(time, path)
    IN  path' = Append(path, [time |-> time, bits |-> bits,
                              work |-> CalcWork(bits, path)])

NextHeader ==
    /\ target = 0 /\ tip = 0 /\ walk = NoWalk /\ msg = NoMsg /\ seeds = <<>>
    /\ Height(path) < MaxHeight
    /\ \E time \in (GetMTP(path) + 1)..(Last(path).time + MaxGap) : Extend(time)
    /\ UNCHANGED <<target, tip, walk, msg, seeds>>

NextTarget ==
    /\ Height(path) = 0 /\ tip = 0 /\ walk = NoWalk /\ msg = NoMsg /\ seeds = <<>>
    /\ target < MaxTarget - 1
    /\ target' = target + 1
    /\ UNCHANGED <<path, tip, walk, msg, seeds>>

NextTip ==
    /\ Height(path) = 0 /\ target = 0 /\ walk = NoWalk /\ msg = NoMsg /\ seeds = <<>>
    /\ tip' = IF tip < Dense THEN tip + 1 ELSE 2 * tip + 1
    /\ tip' < MaxTip
    /\ UNCHANGED <<path, target, walk, msg, seeds>>

NextTree ==
    /\ Height(path) = 0 /\ target = 0 /\ tip = 0 /\ msg = NoMsg /\ seeds = <<>>
    /\ ChooseTree
    /\ UNCHANGED <<path, target, tip, msg, seeds>>

NextNode == GoDown /\ UNCHANGED <<path, target, tip, msg, seeds>>

Size(m) == Len(m[1]) + Len(m[2]) + Len(m[3]) + Len(m[4])

\* Names that share suffixes, down to the root.
Names == {<<>>, <<"a">>, <<"b", "a">>, <<"c", "b", "a">>}
Records(s) ==
    [name : Names,
     target : IF s = 1 THEN {None} ELSE {None, <<"b", "a">>, <<"c", "b", "a">>}]

\* The question, or one more record at the end of the message.
NextRecord ==
    /\ Height(path) = 0 /\ target = 0 /\ tip = 0 /\ walk = NoWalk /\ seeds = <<>>
    /\ Size(msg) < MaxRecords
    /\ \E s \in IF msg = NoMsg THEN {1} ELSE 2..4 :
          /\ \A t \in (s + 1)..4 : msg[t] = <<>>
          /\ \E r \in Records(s) : msg' = [msg EXCEPT ![s] = Append(@, r)]
    /\ UNCHANGED <<path, target, tip, walk, seeds>>

NextSeed ==
    /\ Height(path) = 0 /\ target = 0 /\ tip = 0 /\ walk = NoWalk /\ msg = NoMsg
    /\ Len(seeds) < MaxSeeds
    /\ MoreSeeds
    /\ UNCHANGED <<path, target, tip, walk, msg>>

Next ==
    \/ NextHeader \/ NextTarget \/ NextTip
    \/ NextTree \/ NextNode
    \/ NextRecord \/ NextSeed
Spec == Init /\ [][Next]_vars

-----------------------------------------------------------------------------
\* hsk_chain_suitable_block's three compare-and-swaps find a median: at least
\* two of the three times are no later, at least two are no earlier.
SuitableIsMedian ==
    \A h \in 2..Height(path) :
        LET t == SuitableBlock(path, h).time
        IN  /\ Cardinality({i \in (h - 2)..h : At(path, i).time <= t}) >= 2
            /\ Cardinality({i \in (h - 2)..h : At(path, i).time >= t}) >= 2

\* However the times were chosen, the adjusted bits always decode to a target
\* from 1 to the limit, so the assertions of hsk_chain_insert and
\* hsk_chain_retarget on the conversions hold, and the work always grows.
TargetValid ==
    \A i \in 0..Height(path) :
        /\ PowToTarget(At(path, i).bits) \in 1..Limit
        /\ i > 0 => At(path, i).work > At(path, i - 1).work

\* Headers that come exactly Spacing apart, with the same bits throughout the
\* window, keep their difficulty: the roundings from target to work and back
\* do not add up.
SteadyChainKeepsBits ==
    LET h == Height(path)
    IN  /\ h >= Window + 2
        /\ \A i \in (h - Window - 1)..h :
              /\ At(path, i).bits = At(path, h).bits
              /\ At(path, i).time = At(path, i - 1).time + Spacing
        => GetTarget(At(path, h).time + Spacing, path) = At(path, h).bits

\* If the same work had taken longer, the next target would not be harder.
SlowerIsNeverHarder ==
    LET h     == Height(path)
        first == SuitableBlock(path, h - Window)
        last  == SuitableBlock(path, h)
        slow  == [last EXCEPT !.time = @ + 1]
    IN  h >= Window + 2 =>
            PowToTarget(Retarget(first, slow))
                >= PowToTarget(Retarget(first, last))

\* What hsk_chain_get_target gives a header, whatever legal times its
\* ancestors have.
RetargetSound ==
    SuitableIsMedian /\ TargetValid /\ SteadyChainKeepsBits /\ SlowerIsNeverHarder

-----------------------------------------------------------------------------
Rounded(t) == PowToTarget(PowToBits(t))

\* hsk_pow_to_bits then hsk_pow_to_target rounds a target down, by less than
\* the last of its three leading digits, and a rounded target is a fixed
\* point: a header whose bits are recomputed from its target is accepted.
RoundTrip ==
    target > 0 =>
        /\ Rounded(target) \in 1..target
        /\ (target - Rounded(target)) * (SignBit \div Base) < target
        /\ PowToBits(Rounded(target)) = PowToBits(target)

\* The values of bn.c's numbers, and the words of a value.
Values == Word ^ BnSize
ValueOf(n) == MapThenSumSet(LAMBDA i : n[i] * Word ^ i, DOMAIN n)
Words(v) == [i \in DOMAIN Zero |-> (v \div Word ^ i) % Word]

\* The word loops of bn.c compute the integer arithmetic that header.c and
\* chain.c mean, modulo the width, also when the result's variable is one of
\* the operands, as in every call of theirs; the other operand is unchanged.
BnExact ==
    LET x == target \div Values
        y == target % Values
        m == [x |-> Words(x), y |-> Words(y), z |-> Zero]
        Result(c, v) == [m EXCEPT ![c] = Words(v % Values)]
    IN  target > 0 /\ x < Values =>
        /\ \A c \in DOMAIN m :
              /\ BnAdd(m, "x", "y", c) = Result(c, x + y)
              /\ BnSub(m, "x", "y", c) = Result(c, x - y)
              /\ BnMul(m, "x", "y", c) = Result(c, x * y)
              /\ y # 0 => BnDiv(m, "x", "y", c) = Result(c, x \div y)
        /\ BnCmp(m.x, m.y) = IF x > y THEN 1 ELSE IF x < y THEN -1 ELSE 0
        /\ ValueOf(BnInc(m.x)) = (x + 1) % Values
        /\ y <= WordBits * BnSize =>
              ValueOf(BnLShift(m.x, y)) = (x * 2 ^ y) % Values

\* The numbers of a header: its bits, its target, and the sums, products and
\* quotients that make its work.
NumbersExact == RoundTrip /\ BnExact

-----------------------------------------------------------------------------
\* The first n records of a message, over its sections.
FirstOf(m, n) ==
    LET before(s) == FoldLeft(LAMBDA k, t : k + Len(m[t]), 0, [t \in 1..(s - 1) |-> t])
        kept(s) == Max({0, Min({Len(m[s]), n - before(s)})})
    IN  [s \in Section |-> SubSeq(m[s], 1, kept(s))]

\* How many pointers a reader must follow for the name at an offset.
RECURSIVE Chained(_, _)
Chained(wire, off) ==
    LET c == wire[off + 1]
    IN  IF c.k = "ptr" THEN 1 + Chained(wire, c.v)
        ELSE IF c.v = 0 THEN 0 ELSE Chained(wire, off + 2)

\* Whether the owner of record k, or the name in its data, takes more of them
\* than hsk_dns_name_parse follows.
DeepOwner(m, k) == Chained(Write(m), Len(Write(FirstOf(m, k - 1)))) > MaxPointers

DeepTarget(m, k) ==
    LET upto == FirstOf(m, k)
        s == Max({t \in Section : upto[t] # <<>>})
        bare == [upto EXCEPT ![s][Len(upto[s])].target = None]
    IN  /\ Last(upto[s]).target # None
        /\ Chained(Write(m), Len(Write(bare)) - 1) > MaxPointers

\* Whatever names share suffixes, and whether their offsets still fit a
\* pointer, hsk_dns_msg_read gives back the message hsk_dns_msg_write wrote,
\* which fits the buffer that hsk_dns_msg_encode took for it; it refuses one, as
\* a whole, exactly when the writer chained more pointers for one of its names
\* than the reader follows.
ReadsBack ==
    msg # NoMsg =>
    LET deep == \E k \in 1..Size(msg) : DeepOwner(msg, k) \/ DeepTarget(msg, k)
    IN  /\ Read(Write(msg)) =
             IF deep THEN Unreadable ELSE <<msg[1], msg[2], msg[3], msg[4]>>
        /\ Len(Write(msg)) <= Uncompressed(msg)

\* hsk_dns_msg_truncate leaves as many of the first records as fit, never more
\* than the size the client takes, and counts that agree; or it gives up,
\* exactly when the owner of one of these, or of the next, cannot be read.
TruncatesToPrefix ==
    msg # NoMsg =>
    LET wire == Write(msg)
    IN  \A max \in 1..(Len(wire) + 1) :
            LET t == Truncate(wire, max)
                n == Max({k \in 0..MaxRecords : Len(Write(FirstOf(msg, k))) <= max})
                deep == /\ Len(wire) > max
                        /\ \E k \in 1..Min({n + 1, Size(msg)}) : DeepOwner(msg, k)
            IN  Len(t) <= max /\ t = IF deep THEN Unreadable ELSE Write(FirstOf(msg, n))

\* A reader with hnsd's limit gets what the server meant, whole or cut to the size
\* the client takes, unless one of its names chains too many pointers.
MessagesExact == ReadsBack /\ TruncatesToPrefix

=============================================================================
