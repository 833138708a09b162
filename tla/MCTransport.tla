---------------------------- MODULE MCTransport ----------------------------
(***************************************************************************)
(* Three questions, each in behaviours of its own.  A Brontide connection    *)
(* with two messages each way, sizes 0 to 2 of which 2 is too long, and a *)
(* rotation every three seals, so that it falls between a header and its   *)
(* payload; conversations of at most three messages over the plain         *)
(* framing; and one peer under the timer, with limits of zero to three     *)
(* periods.                                                                *)
(***************************************************************************)
EXTENDS Brontide, PeerStream, PeerTimer

VARIABLE layer

vars == <<layer, bvars, psvars, tmvars>>

TodoSizes == [s \in Side |-> IF s = "initiator" THEN <<0, 1>> ELSE <<1, 2>>]

\* The commands that fail have no body, the one that is skipped and the one that
\* does not decode have.
PeerMessage ==
    [kind : {"ok"}, size : 0..2]
    \cup [kind : {"magic", "error", "kill"}, size : {0}]
    \cup [kind : {"unknown", "encoding"}, size : {1}]

Init ==
    /\ layer \in {"brontide", "stream", "timer"}
    /\ BInit /\ PsInit /\ TmInit
    /\ layer # "brontide" => ownKey = TheirKey

Next ==
    /\ \/ layer = "brontide" /\ BNext /\ UNCHANGED <<psvars, tmvars>>
       \/ layer = "stream" /\ PsNext /\ UNCHANGED <<bvars, tmvars>>
       \/ layer = "timer" /\ TmNext /\ UNCHANGED <<bvars, psvars>>
    /\ UNCHANGED layer

Spec == Init /\ [][Next]_vars /\ (layer = "brontide" => BFairness)
=============================================================================
