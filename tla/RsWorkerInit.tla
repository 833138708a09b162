---------------------------- MODULE RsWorkerInit ----------------------------
(***************************************************************************)
(* hsk_rs_worker_init of src/src/rs_worker.c on memory from malloc, with   *)
(* any of its four allocations failing, and hsk_rs_worker_uninit cleaning  *)
(* up after it.                                                            *)
(***************************************************************************)
EXTENDS Naturals, Sequences

\* The pointers of hsk_rs_worker_t in the order in which they are allocated.
Field == <<"rs_queue", "rs_pending", "rs_async", "rs_quit_async">>
Name == {Field[i] : i \in DOMAIN Field}

\* The pointers hsk_rs_worker_init sets to NULL first.
Cleared == {"rs_queue", "rs_pending", "rs_async"}

VARIABLES
    ptr,      \* ptr[f]: "null", "owned", or "wild" when never written
    next,     \* index of the next allocation, 0 when done
    result,   \* what hsk_rs_worker_init returned, "" before
    released  \* what the pointers that _uninit released were

vars == <<ptr, next, result, released>>

\* malloc leaves any value in a pointer that is not cleared.
Init ==
    /\ ptr \in [Name -> {"null", "wild"}]
    /\ \A f \in Cleared : ptr[f] = "null"
    /\ next = 1
    /\ result = ""
    /\ released = {}

Alloc ==
    /\ next \in DOMAIN Field
    /\ ptr' = [ptr EXCEPT ![Field[next]] = "owned"]
    /\ next' = IF next = Len(Field) THEN 0 ELSE next + 1
    /\ result' = IF next = Len(Field) THEN "SUCCESS" ELSE ""
    /\ UNCHANGED released

\* An allocation returns NULL, and _uninit releases every other pointer.
Fail ==
    /\ next \in DOMAIN Field
    /\ LET left == [ptr EXCEPT ![Field[next]] = "null"]
       IN  /\ released' = {left[f] : f \in Name} \ {"null"}
           /\ ptr' = [f \in Name |-> "null"]
    /\ next' = 0
    /\ result' = "EFAILURE"

Next == Alloc \/ Fail
Spec == Init /\ [][Next]_vars

\* "_uninit() is also used to clean up a partially-constructed worker if
\* _init() fails": it then releases only what _init allocated.
CleansUpOwned == "wild" \notin released

=============================================================================
