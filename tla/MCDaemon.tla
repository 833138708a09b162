------------------------------ MODULE MCDaemon ------------------------------
(***************************************************************************)
(* The pool and the daemon that builds and frees it, each on its own: a    *)
(* behaviour is either one of the pool at work, on the instance of MCPool, *)
(* or one of the daemon from its start to its end, with two connections    *)
(* and three questions.                                                    *)
(***************************************************************************)
EXTENDS Daemon, MCPool

VARIABLE part   \* "pool" or "daemon"

MCInit ==
    /\ part \in {"pool", "daemon"} /\ Init /\ DInit
    /\ part = "daemon" => list = <<>>

\* The pool works for ever; the daemon ends.
MCNext ==
    /\ \/ part = "pool" /\ Next /\ UNCHANGED dvars
       \/ part = "daemon" /\ [DNext]_dvars /\ UNCHANGED vars
    /\ UNCHANGED part

MCSpec ==
    /\ MCInit /\ [][MCNext]_<<part, dvars, vars>>
    /\ part = "pool" => Fairness
    /\ part = "daemon" => DFairness
=============================================================================
