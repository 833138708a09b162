----------------------------- MODULE MCAddrMan -----------------------------
(***************************************************************************)
(* Three questions: every sequence of samples from eight addresses; the    *)
(* address manager with an array of two entries and three addresses, when  *)
(* earlier peers have given their time and the next one adjusts the clock, *)
(* forwards or back; and the hash table with four keys, each in the way of *)
(* another's probing.                                                      *)
(***************************************************************************)
EXTENDS AddrMan, HashMap, TLC

CONSTANTS Old, Sample, Start

SampleValues == -3..3
HashValues == "a" :> 0 @@ "b" :> 8 @@ "c" :> 3 @@ "d" :> 1
MapValues == [k \in MapKey |-> IF k = "a" THEN {"a", "other"} ELSE {k}]

VARIABLE mode

vars == <<mode, amvars, tdvars, mapvars>>

\* What the six earlier peers said, and the offset after the fifth.
Earlier == {<<<<-1, 0, 0, 1, 1, 1>>, 1>>, <<<<0, 0, 0, 1, 1, 1>>, 0>>}

Init ==
    /\ clock = Start /\ AmInit /\ MapInit
    /\ \/ mode \in {"time", "map"} /\ TdInit
       \/ /\ mode = "addr" /\ known = Old /\ checked = FALSE
          /\ \E e \in Earlier : samples = e[1] /\ offset = e[2]

TimeNext == \E a \in Source \ BadKey, x \in Sample : TdAdd(a, x) /\ UNCHANGED amvars

\* The next version message moves the clock: back if it was ahead, or else on.
Move == IF samples[1] = -1 THEN -1 ELSE 1

AddrNext == AmNext({Earliest, Now + 1}, {0, 30, 50, 95}, {Move}, OtherPort)

Next ==
    /\ \/ mode = "time" /\ TimeNext /\ UNCHANGED mapvars
       \/ mode = "addr" /\ AddrNext /\ UNCHANGED mapvars
       \/ mode = "map" /\ MapNext /\ UNCHANGED <<amvars, tdvars>>
    /\ UNCHANGED mode

Spec == Init /\ [][Next]_vars
=============================================================================
