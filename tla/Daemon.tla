------------------------------- MODULE Daemon -------------------------------
(***************************************************************************)
(* src/src/daemon.c and signals.c: the daemon builds its four parts, opens *)
(* them, runs the event loop and, on a signal, closes and frees them in a  *)
(* fixed order, with the life cycles of pool.c, ns.c and rs.c.  The loop   *)
(* calls back whatever is still open, so a part may be called while the    *)
(* others are gone.  Allocations of single handles are taken to succeed.   *)
(***************************************************************************)
EXTENDS Naturals, Sequences, FiniteSets

CONSTANTS
    Conn,   \* connections the pool may hold
    Query   \* questions that reach the root nameserver

\* A connection is no other handle, and no other place of a question.
ASSUME ConnAssumption ==
    \A p \in Conn :
        p \notin {"sigint", "sigterm", "timer", "ns_socket", "rs_socket", "rs_async",
                  "rs_quit_async", "new", "pending", "answered", "freed"}

Object == {"signals", "pool", "ns", "rs"}
Handle == {"sigint", "sigterm", "timer", "ns_socket", "rs_socket",
           "rs_async", "rs_quit_async"} \cup Conn

VARIABLES
    main,     \* where main() is: "init", "pool", "ns", "rs", "loop" (uv_run),
              \* "done", "last" (the second uv_run), "exit" or "failed"
    live,     \* objects that are allocated; hsk_daemon_t points to no other
    handle,   \* handle[h]: "none", "active" or "closing" (uv_close was called)
    worker,   \* rs->rs_worker: "none", "built", "open", "closing" or "quit"
    where,    \* where[q]: "new", a peer that holds q, "pending", "answered"
              \* or "freed" (no answer: the pool is gone)
    stale     \* freed objects that some callback has used

dvars == <<main, live, handle, worker, where, stale>>

DInit ==
    /\ main = "init" /\ live = {} /\ worker = "none" /\ stale = {}
    /\ handle = [h \in Handle |-> "none"]
    /\ where = [q \in Query |-> "new"]

\* A callback that dereferences these objects.
Uses(objects) == stale' = stale \cup (objects \ live)

\* uv_close on every open handle of a set.
UvClose(hs) == [h \in Handle |->
    IF h \in hs /\ handle[h] = "active" THEN "closing" ELSE handle[h]]

Peers == {p \in Conn : handle[p] = "active"}
Held(ps) == {q \in Query : where[q] \in ps}

\* hsk_peer_timeout_reqs: after_resolve of ns.c is called for every request.
Answer(qs) == [q \in Query |-> IF q \in qs THEN "answered" ELSE where[q]]

-----------------------------------------------------------------------------
(* Shutdown.                                                               *)

\* Mutation: the nameserver is freed before the pool that calls it back.
UninitOrderNsFirst == <<"signals", "rs", "ns", "pool">>

UninitOrder == <<"signals", "rs", "pool", "ns">>

FreedBefore(a, b) == \E i, j \in DOMAIN UninitOrder :
    i < j /\ UninitOrder[i] = a /\ UninitOrder[j] = b

\* hsk_daemon_uninit.  Freeing the signals closes their handles; freeing the
\* pool destroys the peers, which calls the nameserver for what they hold, and
\* drops the pending requests.
Uninit(closed) ==
    /\ live' = {}
    /\ handle' = UvClose(closed \cup {"sigint", "sigterm"} \cup Peers)
    /\ where' = [q \in Query |->
          IF where[q] = "pending" THEN "freed" ELSE Answer(Held(Peers))[q]]
    /\ stale' = stale \cup
          (IF Held(Peers) # {} /\ FreedBefore("ns", "pool") THEN {"ns"} ELSE {})

\* Mutation: the socket of the recursive nameserver is left open.
AfterCloseSocketKept ==
    /\ worker' = "none"
    /\ Uninit({"rs_async", "rs_quit_async", "ns_socket", "timer"})

\* after_worker_stop of rs.c frees the worker and closes the socket, and then
\* hsk_daemon_after_close closes the nameserver and the pool.
AfterClose ==
    /\ worker' = "none"
    /\ Uninit({"rs_socket", "rs_async", "rs_quit_async", "ns_socket", "timer"})

Destroyed == "signals" \notin live

\* Mutation: a worker that is already closing is taken for one that is not open.
DaemonCloseAgain ==
    CASE Destroyed         -> UNCHANGED <<live, handle, worker, where, stale>>
      [] worker = "open"   -> worker' = "closing"
                              /\ UNCHANGED <<live, handle, where, stale>>
      [] OTHER             -> AfterClose

\* hsk_daemon_close: with its thread running, the worker is only told to stop,
\* and told again it does nothing.
DaemonClose ==
    CASE Destroyed \/ worker \in {"closing", "quit"} ->
            UNCHANGED <<live, handle, worker, where, stale>>
      [] ~Destroyed /\ worker = "open" ->
            worker' = "closing" /\ UNCHANGED <<live, handle, where, stale>>
      [] ~Destroyed /\ worker \in {"none", "built"} ->
            AfterClose

-----------------------------------------------------------------------------
(* main: hsk_daemon_init, hsk_daemon_open, uv_run.                         *)

InitOrder == <<"signals", "pool", "ns", "rs">>

\* The next object is allocated and configured.
InitNext ==
    /\ main = "init"
    /\ LET o == InitOrder[Cardinality(live) + 1]
       IN  /\ live' = live \cup {o}
           /\ handle' = IF o = "signals"
                        THEN [handle EXCEPT !["sigint"] = "active",
                                            !["sigterm"] = "active"]
                        ELSE handle
           /\ main' = IF o = "rs" THEN "pool" ELSE "init"
    /\ UNCHANGED <<worker, where, stale>>

\* It cannot be, or an option is refused; the loop is never run.
InitFails ==
    /\ main = "init"
    /\ Uninit({})
    /\ main' = "failed"
    /\ UNCHANGED worker

\* hsk_pool_open starts the timer and fills the pool.
PoolOpen(ps) ==
    /\ main = "pool"
    /\ handle' = [h \in Handle |->
          IF h \in ps \cup {"timer"} THEN "active" ELSE handle[h]]
    /\ main' = "ns"
    /\ UNCHANGED <<live, worker, where, stale>>

NsOpen ==
    /\ main = "ns"
    /\ handle' = [handle EXCEPT !["ns_socket"] = "active"]
    /\ main' = "rs"
    /\ UNCHANGED <<live, worker, where, stale>>

\* hsk_ns_open fails to bind: the socket is there.
NsOpenFails ==
    /\ main = "ns"
    /\ handle' = [handle EXCEPT !["ns_socket"] = "active"]
    /\ main' = "done"
    /\ UNCHANGED <<live, worker, where, stale>>

RsHandles == {"rs_socket", "rs_async", "rs_quit_async"}

RsOpen ==
    /\ main = "rs"
    /\ handle' = [h \in Handle |-> IF h \in RsHandles THEN "active" ELSE handle[h]]
    /\ worker' = "open"
    /\ main' = "loop"
    /\ UNCHANGED <<live, where, stale>>

\* hsk_rs_open fails before its socket exists, when it is bound, or when the
\* worker's thread cannot be created.
RsOpenFails(built) ==
    /\ main = "rs" /\ built \in {{}, {"rs_socket"}, RsHandles}
    /\ handle' = [h \in Handle |-> IF h \in built THEN "active" ELSE handle[h]]
    /\ worker' = IF built = RsHandles THEN "built" ELSE "none"
    /\ main' = "done"
    /\ UNCHANGED <<live, where, stale>>

\* A daemon that could not be opened is closed, then the loop runs once more.
MainClose ==
    /\ main = "done"
    /\ DaemonClose
    /\ main' = "last"

\* uv_run returns when no handle is left.
LoopEnds ==
    /\ main \in {"loop", "last"}
    /\ \A h \in Handle : handle[h] = "none"
    /\ main' = IF main = "loop" /\ ~Destroyed THEN "done" ELSE "exit"
    /\ UNCHANGED <<live, handle, worker, where, stale>>

-----------------------------------------------------------------------------
(* Callbacks of the event loop.                                            *)

Running == main \in {"loop", "last"}

\* signal_handler; signal->data is cleared when the signals are freed.
OnSignal(h) ==
    /\ Running /\ handle[h] # "none" /\ h \in {"sigint", "sigterm"}
    /\ DaemonClose
    /\ UNCHANGED main

\* after_timer: hsk_pool_timer drops peers and refills the pool.
OnTimer(dropped, added) ==
    /\ Running /\ handle["timer"] = "active"
    /\ dropped \subseteq Peers
    /\ added \subseteq {p \in Conn : handle[p] = "none"}
    /\ Uses({"pool"} \cup IF Held(dropped) = {} THEN {} ELSE {"ns"})
    /\ handle' = [h \in Handle |->
          IF h \in added THEN "active" ELSE UvClose(dropped)[h]]
    /\ where' = Answer(Held(dropped))
    /\ UNCHANGED <<main, live, worker>>

\* after_recv of ns.c: the question is answered at once, or the pool gives it
\* to a peer, or keeps it when it has none.
OnQuestion(q) ==
    /\ Running /\ handle["ns_socket"] = "active" /\ where[q] = "new"
    /\ Uses({"ns", "pool"})
    /\ \E w \in {"answered"} \cup (IF Peers = {} THEN {"pending"} ELSE Peers) :
          where' = [where EXCEPT ![q] = w]
    /\ UNCHANGED <<main, live, handle, worker>>

\* after_read: a proof arrives.
OnProof(p, q) ==
    /\ Running /\ p \in Peers /\ where[q] = p
    /\ Uses({"pool", "ns"})
    /\ where' = Answer({q})
    /\ UNCHANGED <<main, live, handle, worker>>

\* A failed connection, read or write destroys the peer.
OnPeerError(p) ==
    /\ Running /\ p \in Peers
    /\ Uses({"pool"} \cup IF Held({p}) = {} THEN {} ELSE {"ns"})
    /\ handle' = UvClose({p})
    /\ where' = Answer(Held({p}))
    /\ UNCHANGED <<main, live, worker>>

\* The close callback of a handle frees it; no other object is used.
OnClosed(h) ==
    /\ Running /\ handle[h] = "closing"
    /\ handle' = [handle EXCEPT ![h] = "none"]
    /\ UNCHANGED <<main, live, worker, where, stale>>

\* The worker's thread has ended and says so.
WorkerQuits ==
    /\ worker = "closing"
    /\ worker' = "quit"
    /\ UNCHANGED <<main, live, handle, where, stale>>

\* after_quit_async and after_worker_stop.
OnQuitAsync ==
    /\ Running /\ worker = "quit" /\ handle["rs_quit_async"] = "active"
    /\ AfterClose
    /\ UNCHANGED main

-----------------------------------------------------------------------------
Callbacks ==
    \/ \E h \in Handle : OnSignal(h) \/ OnClosed(h)
    \/ \E d \in SUBSET Conn, a \in SUBSET Conn : OnTimer(d, a)
    \/ \E q \in Query : OnQuestion(q) \/ \E p \in Conn : OnProof(p, q)
    \/ \E p \in Conn : OnPeerError(p)
    \/ OnQuitAsync

Startup ==
    \/ InitNext \/ InitFails
    \/ \E ps \in SUBSET Conn : PoolOpen(ps)
    \/ NsOpen \/ NsOpenFails
    \/ RsOpen \/ \E hs \in SUBSET RsHandles : RsOpenFails(hs)
    \/ MainClose \/ LoopEnds

DNext == Startup \/ Callbacks \/ WorkerQuits

\* main runs on, libuv delivers what is due, and the worker's thread ends once
\* libunbound has answered (ResolveService).
DFairness ==
    /\ WF_dvars(Startup) /\ WF_dvars(WorkerQuits) /\ WF_dvars(OnQuitAsync)
    /\ \A h \in Handle : WF_dvars(OnClosed(h))

DSpec == DInit /\ [][DNext]_dvars /\ DFairness

-----------------------------------------------------------------------------
(* Properties.                                                             *)

DTypeOK ==
    /\ main \in {"init", "pool", "ns", "rs", "loop", "done", "last", "exit",
                 "failed"}
    /\ live \subseteq Object /\ stale \subseteq Object
    /\ handle \in [Handle -> {"none", "active", "closing"}]
    /\ worker \in {"none", "built", "open", "closing", "quit"}
    /\ where \in [Query -> Peers \cup {"new", "pending", "answered", "freed"}]

\* No callback of the event loop, and no callback made while the daemon is
\* being freed (hsk_daemon_uninit destroys the peers, which answer their
\* requests through the nameserver), uses a part that has been freed.
NoFreedPartUsed == DTypeOK /\ stale = {}

\* A signal that arrives again while the worker is closing "has no effect": the
\* worker is not freed under its own thread (hsk_daemon_close).
ThreadEndsFirst ==
    [][(worker \in {"open", "closing"}) => worker' \in {"open", "closing", "quit"}]_dvars

\* Every part and every handle is gone and no question hangs on a peer: what
\* uv_loop_close asks for.
NothingLeft ==
    /\ live = {} /\ worker = "none"
    /\ \A h \in Handle : handle[h] = "none"
    /\ \A q \in Query : where[q] \in {"new", "answered", "freed"}

\* Once the worker is closing or hsk_daemon_open has failed half way, main leaves
\* the loop, with nothing left in it.
ShutdownCompletes ==
    (worker = "closing" \/ main = "done") ~> (main = "exit" /\ NothingLeft)
=============================================================================
