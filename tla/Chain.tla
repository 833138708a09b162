------------------------------- MODULE Chain -------------------------------
(***************************************************************************)
(* The SPV header chain of src/src/chain.c: headers stored by hash, the    *)
(* main chain indexed by height, and the orphans waiting for a parent.     *)
(*                                                                         *)
(* A header is named by its hash.  What it carries never changes, so the   *)
(* fields are constants; what the chain computes when it inserts a header  *)
(* (height and accumulated work) is state.  The median time past and the   *)
(* difficulty a header must carry depend on its ancestors alone, hence are *)
(* constants too; module ChainRules computes them.                         *)
(***************************************************************************)
EXTENDS Integers, FiniteSets

CONSTANTS
    Block,          \* header hashes
    Genesis,        \* the hard-coded first header
    None,           \* no header: the parent of Genesis, the idle cursor
    Header,         \* Header[b]: the prev, time and bits fields of b, and
                    \* pow, the result of hsk_header_verify_pow
    Proof,          \* Proof[b]: hsk_header_get_proof, the work b adds
    MTP,            \* MTP[b]: the median time past of a chain that ends in b
    Target,         \* Target[b]: the bits hsk_chain_get_target asks of b
    FutureDrift,    \* how far ahead of the clock a header may be (2 hours)
    OrphanLimit,    \* the orphan count above which all are dropped (10000)
    TreeInterval,   \* HSK_TREE_INTERVAL
    SafeDepth,      \* blocks that make the newest tree root safe (12)
    LaunchDate,     \* HSK_LAUNCH_DATE
    LastCheckpoint, \* HSK_LAST_CHECKPOINT, 0 without HSK_USE_CHECKPOINTS
    MaxTipAge,      \* HSK_MAX_TIP_AGE
    ChainWork,      \* HSK_CHAINWORK
    StartTime,      \* the clock when the daemon starts
    MaxTime         \* bound: the clock never passes it

ASSUME BlockAssumption ==
    /\ IsFiniteSet(Block)
    /\ Genesis \in Block
    /\ None \notin Block

PowResult == {"SUCCESS", "ENEGTARGET", "EHIGHHASH"}

ASSUME HeaderAssumption ==
    /\ Header \in [Block -> [prev : Block \cup {None}, time : Nat,
                             bits : Nat, pow : PowResult]]
    /\ Proof \in [Block -> Nat \ {0}]
    /\ MTP \in [Block -> Nat]
    /\ Target \in [Block -> Nat]
    /\ Header[Genesis].prev = None

ASSUME ParameterAssumption ==
    /\ {FutureDrift, OrphanLimit, LaunchDate, LastCheckpoint, MaxTipAge,
        ChainWork, StartTime, MaxTime} \subseteq Nat
    /\ {TreeInterval, SafeDepth} \subseteq Nat \ {0}

VARIABLES
    hashes,   \* the keys of chain->hashes
    hgt,      \* hgt[b]: the height field of header b, 0 until inserted
    work,     \* work[b]: the work field of header b, 0 until inserted
    heights,  \* chain->heights, a function on the heights it holds
    tip,      \* chain->tip
    height,   \* chain->height
    synced,   \* chain->synced
    orphans,  \* the keys of chain->orphans
    prevs,    \* chain->prevs: a missing parent to the orphan waiting for it
    cursor,   \* the header whose orphan hsk_chain_add looks up next, or None
    rc,       \* what hsk_chain_add (last hsk_chain_insert) returned
    now       \* hsk_timedata_now

index == <<hashes, hgt, work, heights, tip, height, synced>>
waiting == <<orphans, prevs>>
vars == <<index, waiting, cursor, rc, now>>

Prev(b) == Header[b].prev

(***************************************************************************)
(* hsk_chain_maybe_sync, for the tip and height of the next state.  The    *)
(* flag is never cleared.                                                  *)
(***************************************************************************)
MaybeSync(newTip, newHeight, newWork) ==
    \/ synced
    \/ now < LaunchDate
    \/ /\ newHeight >= LastCheckpoint
       /\ Header[newTip].time >= now - MaxTipAge
       /\ newWork >= ChainWork

Init ==
    /\ hashes = {Genesis}
    /\ hgt = [b \in Block |-> 0]
    /\ work = [b \in Block |-> IF b = Genesis THEN Proof[Genesis] ELSE 0]
    /\ heights = [i \in {0} |-> Genesis]
    /\ tip = Genesis
    /\ height = 0
    /\ orphans = {}
    /\ prevs = [p \in {} |-> None]
    /\ cursor = None
    /\ rc = "SUCCESS"
    /\ now = StartTime
    /\ synced = \/ StartTime < LaunchDate
                \/ /\ LastCheckpoint = 0
                   /\ Header[Genesis].time >= StartTime - MaxTipAge
                   /\ Proof[Genesis] >= ChainWork

(***************************************************************************)
(* hsk_chain_find_fork and the two lists of hsk_chain_reorganize: branch   *)
(* runs from the fork, at height f on the main chain, to the competitor b, *)
(* at height n, and leaves the main chain above f.  The code keys each     *)
(* header by its own height field; module Reorganize has the code's loops  *)
(* and compares.                                                           *)
(***************************************************************************)
IsBranch(branch, f, b, n) ==
    /\ branch[f] = heights[f]
    /\ branch[n] = b
    /\ \A i \in (f + 1)..n :
          /\ Prev(branch[i]) = branch[i - 1]
          /\ i < n => branch[i] \in hashes /\ hgt[branch[i]] = i
          /\ i \in DOMAIN heights => branch[i] # heights[i]

\* Mutation: the old branch is not disconnected.
ReorganizedNoDisconnect(branch, f, n) ==
    [i \in DOMAIN heights \cup ((f + 1)..n) |->
        IF i \in (f + 1)..n THEN branch[i] ELSE heights[i]]

\* The heights from f + 1 to the tip are deleted, those of the branch are set.
Reorganized(branch, f, n) ==
    [i \in (DOMAIN heights \ ((f + 1)..height)) \cup ((f + 1)..n) |->
        IF i \in (f + 1)..n THEN branch[i] ELSE heights[i]]

\* A header with more work than the tip extends it or replaces it.
Connect(b, n) ==
    \/ /\ Prev(b) = tip
       /\ heights' = [i \in DOMAIN heights \cup {n} |->
                         IF i = n THEN b ELSE heights[i]]
    \/ /\ Prev(b) # tip
       /\ \E f \in DOMAIN heights :
             /\ f < n
             /\ \E branch \in [f..n -> hashes \cup {b}] :
                   /\ IsBranch(branch, f, b, n)
                   /\ heights' = Reorganized(branch, f, n)

\* Mutation: the longer chain wins.
OutweighsByHeight(n, w) == n > height

\* A header of height n and work w replaces the tip.
Outweighs(n, w) == w > work[tip]

\* Mutation: a time equal to the median time past is accepted.
InsertCheckNoMedian(b) ==
    IF Header[b].time < MTP[Prev(b)] THEN "ETIMETOOOLD"
    ELSE IF Header[b].bits # Target[b] THEN "EBADDIFFBITS"
    ELSE "SUCCESS"

InsertCheck(b) ==
    IF Header[b].time <= MTP[Prev(b)] THEN "ETIMETOOOLD"
    ELSE IF Header[b].bits # Target[b] THEN "EBADDIFFBITS"
    ELSE "SUCCESS"

\* hsk_chain_insert: the parent of b is stored.
Insert(b) ==
    LET n == hgt[Prev(b)] + 1
        w == work[Prev(b)] + Proof[b]
    IN  /\ rc' = InsertCheck(b)
        /\ \/ /\ InsertCheck(b) # "SUCCESS"
              /\ UNCHANGED index
           \/ /\ InsertCheck(b) = "SUCCESS"
              /\ hashes' = hashes \cup {b}
              /\ hgt' = [hgt EXCEPT ![b] = n]
              /\ work' = [work EXCEPT ![b] = w]
              /\ \/ /\ ~Outweighs(n, w)
                    /\ UNCHANGED <<heights, tip, height, synced>>
                 \/ /\ Outweighs(n, w)
                    /\ Connect(b, n)
                    /\ tip' = b
                    /\ height' = n
                    /\ synced' = MaybeSync(b, n, w)

----------------------------------------------------------------------------
(***************************************************************************)
(* hsk_chain_add.  AddCheck is its sequence of tests; Reject, AddOrphan    *)
(* and AddInsert are its three outcomes.  After a successful insertion it  *)
(* loops, one ResolveOrphan per iteration, and nothing else of the chain   *)
(* runs until the cursor is None again.                                    *)
(***************************************************************************)
AddCheck(b) ==
    IF Header[b].time > now + FutureDrift THEN "ETIMETOONEW"
    ELSE IF b \in hashes THEN "EDUPLICATE"
    ELSE IF b \in orphans THEN "EDUPLICATEORPHAN"
    ELSE IF Header[b].pow # "SUCCESS" THEN Header[b].pow
    ELSE IF Prev(b) \notin hashes THEN "EORPHAN"
    ELSE "SUCCESS"

Reject(b) ==
    /\ AddCheck(b) \notin {"EORPHAN", "SUCCESS"}
    /\ rc' = AddCheck(b)
    /\ UNCHANGED <<index, waiting, cursor, now>>

\* All orphans are dropped before the next one is stored.
OrphansFull == Cardinality(orphans) > OrphanLimit

\* A sibling that waits for the same parent loses its place in prevs.
AddOrphan(b) ==
    /\ AddCheck(b) = "EORPHAN"
    /\ LET kept == IF OrphansFull THEN {} ELSE DOMAIN prevs
       IN  /\ orphans' = (IF OrphansFull THEN {} ELSE orphans) \cup {b}
           /\ prevs' = [p \in kept \cup {Prev(b)} |->
                           IF p = Prev(b) THEN b ELSE prevs[p]]
    /\ rc' = "EORPHAN"
    /\ UNCHANGED <<index, cursor, now>>

AddInsert(b) ==
    /\ AddCheck(b) = "SUCCESS"
    /\ Insert(b)
    /\ cursor' = IF InsertCheck(b) = "SUCCESS" THEN b ELSE None
    /\ UNCHANGED <<waiting, now>>

Add(b) ==
    /\ cursor = None
    /\ Reject(b) \/ AddOrphan(b) \/ AddInsert(b)

\* Mutation: the resolved orphan stays in the orphan map.
ResolveOrphanKept ==
    /\ cursor # None
    /\ cursor \in DOMAIN prevs
    /\ LET o == prevs[cursor]
       IN  /\ prevs' = [p \in DOMAIN prevs \ {cursor} |-> prevs[p]]
           /\ Insert(o)
           /\ cursor' = IF InsertCheck(o) = "SUCCESS" THEN o ELSE None
    /\ UNCHANGED <<orphans, now>>

\* One iteration of the loop: hsk_chain_resolve_orphan, then hsk_chain_insert.
ResolveOrphan ==
    /\ cursor # None
    /\ cursor \in DOMAIN prevs
    /\ LET o == prevs[cursor]
       IN  /\ prevs' = [p \in DOMAIN prevs \ {cursor} |-> prevs[p]]
           /\ orphans' = orphans \ {o}
           /\ Insert(o)
           /\ cursor' = IF InsertCheck(o) = "SUCCESS" THEN o ELSE None
    /\ UNCHANGED now

\* The loop ends: no orphan waits for the last header inserted.
EndResolve ==
    /\ cursor # None
    /\ cursor \notin DOMAIN prevs
    /\ cursor' = None
    /\ UNCHANGED <<index, waiting, rc, now>>

\* Time passes, or a sample of hsk_timedata_add changes the offset, which may
\* set the clock back, but is never negative.
Tick ==
    /\ cursor = None
    /\ now' \in StartTime..MaxTime
    /\ now' # now
    /\ UNCHANGED <<index, waiting, cursor, rc>>

Next ==
    \/ \E b \in Block : Add(b)
    \/ ResolveOrphan
    \/ EndResolve
    \/ Tick

Spec == Init /\ [][Next]_vars

----------------------------------------------------------------------------
\* Mutation: the root of the tip is used.
SafeHeightNewest(h) == h

(***************************************************************************)
(* hsk_chain_safe_root: the height of the header whose name root is used   *)
(* for resolution when the main chain has height h.                        *)
(***************************************************************************)
SafeHeight(h) ==
    LET mod == h % TreeInterval
    IN  h - (IF mod >= SafeDepth THEN 0 ELSE mod)

\* The tree is committed every TreeInterval blocks and its root appears one
\* block later: the height of the first header with the root of header h.
FirstWithRoot(h) == IF h = 0 THEN 0 ELSE h - ((h - 1) % TreeInterval)

\* The depth at which hsk_chain_safe_root takes a root for safe.
RootDepth == IF SafeDepth < TreeInterval THEN SafeDepth ELSE TreeInterval

----------------------------------------------------------------------------
TypeOK ==
    /\ hashes \subseteq Block
    /\ hgt \in [Block -> Nat]
    /\ work \in [Block -> Nat]
    /\ heights \in [DOMAIN heights -> Block]
    /\ DOMAIN heights \subseteq Nat
    /\ tip \in Block
    /\ height \in Nat
    /\ synced \in BOOLEAN
    /\ orphans \subseteq Block
    /\ prevs \in [DOMAIN prevs -> Block]
    /\ DOMAIN prevs \subseteq Block \cup {None}
    /\ cursor \in Block \cup {None}
    /\ rc \in PowResult \cup {"ETIMETOONEW", "EDUPLICATE", "EDUPLICATEORPHAN",
                              "EORPHAN", "ETIMETOOOLD", "EBADDIFFBITS"}
    /\ now \in Nat

\* The heights index is exactly the path from the genesis header to the tip,
\* with no hole and no entry of a disconnected branch: the lookups by height
\* of hsk_chain_safe_root and hsk_chain_get_locator assert that they succeed.
MainChain ==
    /\ DOMAIN heights = 0..height
    /\ heights[0] = Genesis
    /\ heights[height] = tip
    /\ \A i \in 0..height : heights[i] \in hashes /\ hgt[heights[i]] = i
    /\ \A i \in 1..height : Prev(heights[i]) = heights[i - 1]

\* No stored header, on whichever branch, has more work than the tip.
MostWork == \A b \in hashes : work[b] <= work[tip]

\* Every stored header other than the genesis header has its parent stored,
\* one below it in height and in work, and has passed every rule, whether it
\* arrived in order or was resolved as an orphan.
HeadersConnected ==
    \A b \in hashes \ {Genesis} :
        /\ Prev(b) \in hashes
        /\ hgt[b] = hgt[Prev(b)] + 1
        /\ work[b] = work[Prev(b)] + Proof[b]
        /\ Header[b].time > MTP[Prev(b)]
        /\ Header[b].bits = Target[b]
        /\ Header[b].pow = "SUCCESS"

\* The two orphan maps agree: prevs leads to orphans that wait for that very
\* parent, an orphan is never also stored, and an indexed orphan is left
\* waiting for a stored parent only while hsk_chain_add is resolving it.  What
\* that loop inserts has passed the proof-of-work test and has its parent.
OrphanIndex ==
    /\ orphans \cap hashes = {}
    /\ \A o \in orphans : Header[o].pow = "SUCCESS"
    /\ cursor \in hashes \cup {None}
    /\ \A p \in DOMAIN prevs :
          /\ prevs[p] \in orphans
          /\ Prev(prevs[p]) = p
          /\ p \in hashes => p = cursor

\* The test of hsk_chain_add before it stores an orphan bounds their number.
OrphansBounded == Cardinality(orphans) <= OrphanLimit + 1

\* How many main chain headers the step disconnects.
Disconnected ==
    Cardinality({i \in DOMAIN heights :
                    i \in DOMAIN heights' => heights'[i] # heights[i]})

\* A reorganization that disconnects fewer headers than hsk_chain_safe_root
\* trusts keeps the header that first committed the name root in use, so the
\* root stays a root of the main chain.
SafeRootSurvives ==
    [][ Disconnected < RootDepth =>
          LET c == FirstWithRoot(SafeHeight(height))
          IN  c \in DOMAIN heights' /\ heights'[c] = heights[c] ]_vars

============================================================================
