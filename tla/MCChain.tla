------------------------------ MODULE MCChain ------------------------------
(***************************************************************************)
(* A tree of headers for module Chain.  g, a1, a2, a3 are the trunk.  a4   *)
(* comes fast after a3, so ChainRules makes it carry four times the work;  *)
(* b4 and b5 come slowly and carry the minimum, as testnet allows: b5 is   *)
(* the longer branch and a4 the heavier.  c3 ties with a3, and c4 with a4. *)
(* The others break one rule each, or descend from one that does.          *)
(***************************************************************************)
EXTENDS Reorganize, TLC, Sequences

\* The rules of ChainRules, with short windows and the reset of testnet.
Rules == INSTANCE ChainRules WITH
    Base <- 4, Digits <- 8, Timespan <- 3, Window <- 1, Spacing <- 4,
    MinActual <- 1, MaxActual <- 16, Bits <- 351, Limit <- 496,
    TargetReset <- TRUE, NoRetargetting <- FALSE

Fields(prev, time, pow) == [prev |-> prev, time |-> time, pow |-> pow]

Tree ==
    "g"  :> Fields("none", 2, "SUCCESS")
 @@ "a1" :> Fields("g", 3, "SUCCESS")
 @@ "a2" :> Fields("a1", 4, "SUCCESS")
 @@ "a3" :> Fields("a2", 5, "SUCCESS")
 @@ "a4" :> Fields("a3", 6, "SUCCESS")
 @@ "b4" :> Fields("a3", 14, "SUCCESS")
 @@ "b5" :> Fields("b4", 23, "SUCCESS")
 @@ "c3" :> Fields("a2", 6, "SUCCESS")
 @@ "c4" :> Fields("c3", 7, "SUCCESS")
 @@ "old" :> Fields("a3", 4, "SUCCESS")        \* not after the median time
 @@ "oldson" :> Fields("old", 7, "SUCCESS")
 @@ "easy" :> Fields("a3", 7, "SUCCESS")       \* the bits of b4, too early
 @@ "weak" :> Fields("a2", 6, "EHIGHHASH")

MCBlock == DOMAIN Tree

RECURSIVE Path(_)
MCTarget[b \in DOMAIN Tree] ==
    IF b = "g" THEN 351 ELSE Rules!GetTarget(Tree[b].time, Path(Tree[b].prev))
MCBits[b \in DOMAIN Tree] == IF b = "easy" THEN 351 ELSE MCTarget[b]
MCProof[b \in DOMAIN Tree] == Rules!GetProof(MCBits[b])
Path(b) ==
    LET below == IF b = "g" THEN <<>> ELSE Path(Tree[b].prev)
        base  == IF b = "g" THEN 0 ELSE below[Len(below)].work
    IN  Append(below, [time |-> Tree[b].time, bits |-> MCBits[b],
                       work |-> base + MCProof[b]])

MCHeader == [b \in Block |->
                [prev |-> Tree[b].prev, time |-> Tree[b].time,
                 bits |-> MCBits[b], pow |-> Tree[b].pow]]
MCMTP == [b \in Block |-> Rules!GetMTP(Path(b))]
MCProofs == [b \in Block |-> MCProof[b]]
MCTargets == [b \in Block |-> MCTarget[b]]

============================================================================
