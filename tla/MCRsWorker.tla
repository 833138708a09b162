----------------------------- MODULE MCRsWorker -----------------------------
(***************************************************************************)
(* Two questions, each in behaviours of its own: four requests, one of     *)
(* them of type ANY, and the worker; and the two async handles of a worker *)
(* under two threads that send to either.                                  *)
(***************************************************************************)
EXTENDS RsWorker, UvAsync

CONSTANTS r1, r2, r3, r4
MCReq == {r1, r2, r3, r4}
MCAnyType == {r4}

VARIABLE about

MCInit ==
    /\ about \in {"worker", "async"}
    /\ Init /\ AsInit
    /\ current = "rs_async" /\ target = [t \in Thread |-> "rs_async"]

MCNext ==
    /\ \/ about = "worker" /\ Next /\ UNCHANGED asvars
       \/ about = "async" /\ AsNext /\ UNCHANGED vars
    /\ UNCHANGED about

MCSpec ==
    MCInit /\ [][MCNext]_<<about, vars, asvars>> /\ (about = "worker" => Fairness)

=============================================================================
