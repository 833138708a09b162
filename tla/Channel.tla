------------------------------ MODULE Channel -------------------------------
(***************************************************************************)
(* What src/src/brontide.c promises pool.c: two streams of whole messages, *)
(* in order, that either side may cut off.  A message whose writing fails  *)
(* ends the connection and is never delivered; a side that has ended is    *)
(* not called again.                                                       *)
(***************************************************************************)
EXTENDS Naturals, Sequences

CONSTANTS Side, Other(_)

VARIABLES
    sent,   \* sent[s]: how many messages side s has written
    got,    \* got[s]: the messages given to side s, by number
    over    \* over[s]: side s has ended

vars == <<sent, got, over>>

Init ==
    /\ sent = [s \in Side |-> 0]
    /\ got = [s \in Side |-> <<>>]
    /\ over = [s \in Side |-> FALSE]

Send(s) ==
    /\ ~over[s]
    /\ sent' = [sent EXCEPT ![s] = @ + 1]
    /\ UNCHANGED <<got, over>>

Deliver(s) ==
    /\ ~over[s]
    /\ Len(got[s]) < sent[Other(s)]
    /\ got' = [got EXCEPT ![s] = Append(@, Len(@) + 1)]
    /\ UNCHANGED <<sent, over>>

End(s) ==
    /\ ~over[s]
    /\ over' = [over EXCEPT ![s] = TRUE]
    /\ UNCHANGED <<sent, got>>

Next == \E s \in Side : Send(s) \/ Deliver(s) \/ End(s)

Safety == Init /\ [][Next]_vars

\* While both sides are there, what was written arrives.
Up == \A s \in Side : ~over[s]

Spec == Safety /\ \A s \in Side : WF_vars(Up /\ Deliver(s))
=============================================================================
