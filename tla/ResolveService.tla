--------------------------- MODULE ResolveService ---------------------------
(***************************************************************************)
(* What src/src/rs_worker.h promises the recursive nameserver: an accepted *)
(* request is answered exactly once, "once _close() is called, calls to    *)
(* _resolve() will fail synchronously", and the stop callback comes after  *)
(* the last answer.                                                        *)
(***************************************************************************)

CONSTANT Req

VARIABLES
    status,   \* status[r]: "new", "accepted", "refused" or "answered"
    phase     \* "running", "closing" or "stopped"

vars == <<status, phase>>

Init ==
    /\ status = [r \in Req |-> "new"]
    /\ phase = "running"

Accept(r) ==
    /\ phase = "running"
    /\ status[r] = "new"
    /\ status' = [status EXCEPT ![r] = "accepted"]
    /\ UNCHANGED phase

Refuse(r) ==
    /\ phase # "stopped"
    /\ status[r] = "new"
    /\ status' = [status EXCEPT ![r] = "refused"]
    /\ UNCHANGED phase

Answer(r) ==
    /\ phase # "stopped"
    /\ status[r] = "accepted"
    /\ status' = [status EXCEPT ![r] = "answered"]
    /\ UNCHANGED phase

Close ==
    /\ phase = "running"
    /\ phase' = "closing"
    /\ UNCHANGED status

Stop ==
    /\ phase = "closing"
    /\ \A r \in Req : status[r] # "accepted"
    /\ phase' = "stopped"
    /\ UNCHANGED status

Next ==
    \/ \E r \in Req : Accept(r) \/ Refuse(r) \/ Answer(r)
    \/ Close
    \/ Stop

Safety == Init /\ [][Next]_vars

Spec == Safety /\ WF_vars(Stop) /\ \A r \in Req : WF_vars(Answer(r))

=============================================================================
