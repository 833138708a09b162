---------------------------- MODULE MCHeaderSync ----------------------------
(***************************************************************************)
(* A small tree of headers for module HeaderSync, all of the same work.    *)
(***************************************************************************)
EXTENDS HeaderSync, TLC

Valid(parent) == [b \in DOMAIN parent |->
    [prev |-> parent[b], time |-> 1, bits |-> 1, pow |-> "SUCCESS"]]

\* Two branches that tie until the second is one header longer; and beside the
\* first one that breaks one rule after another: the wrong bits, a time in the
\* future, no proof of work.
MCHeader ==
    [Valid("g" :> "none" @@ "a1" :> "g" @@ "a2" :> "a1" @@ "b2" :> "a1"
        @@ "b3" :> "b2" @@ "x2" :> "a1" @@ "n3" :> "x2" @@ "w4" :> "n3")
     EXCEPT !["x2"].bits = 2, !["n3"].time = 9, !["w4"].pow = "EHIGHHASH"]
MCFollowing == {"p1" :> "a2" @@ "p2" :> "b3", "p1" :> "a2" @@ "p2" :> "w4"}

MCBlock == DOMAIN MCHeader
MCOnes == [b \in MCBlock |-> 1]
MCZeros == [b \in MCBlock |-> 0]

============================================================================
