------------------------------- MODULE MCPool -------------------------------
(***************************************************************************)
(* Two slots, two peers and two requests for one name: both can be         *)
(* coalesced, and the second can follow the proof of the first.            *)
(***************************************************************************)
EXTENDS Pool

CONSTANTS p1, p2, n1, r1, r2

MCNameOf == [r \in {r1, r2} |-> n1]

=============================================================================
