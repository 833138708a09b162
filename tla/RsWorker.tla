------------------------------ MODULE RsWorker ------------------------------
(***************************************************************************)
(* src/src/rs_worker.c and its use by src/src/rs.c: DNS requests handed by *)
(* the libuv event loop to libunbound, the thread that waits for answers,  *)
(* and the two queues, the condition variable and the two async handles    *)
(* between them.  A critical section is one step; libunbound is external.  *)
(***************************************************************************)
EXTENDS Naturals, Sequences

CONSTANTS
    Req,        \* requests that arrive on the socket
    AnyType,    \* those of type ANY, which are answered at once
    None

ASSUME ReqAssumption == None \notin Req /\ AnyType \subseteq Req

VARIABLES
    main,       \* the event loop: "idle", "sending", "draining" or "freeing"
    sending,    \* the request of hsk_rs_worker_resolve, or None
    phase,      \* "running", "closing" or "stopped"
    socket,     \* ns->socket is open
    ub,         \* worker->ub is set
    exit,       \* pending->exit
    pending,    \* requests in the pending list
    asked,      \* requests libunbound has yet to answer
    thread,     \* the libunbound thread: "check", "blocked", "ub_wait",
                \* "removed", "enqueued", "quit" or "done"
    inHand,     \* the request of after_resolve_onthread, or None
    queue,      \* the response queue
    rsAsync,    \* rs_async has been sent and not yet handled
    quitAsync,  \* rs_quit_async has been sent and not yet handled
    refused,    \* requests the event loop answered itself
    sent,       \* requests libunbound has accepted
    calls       \* calls[r]: how often after_resolve was called for r

loop == <<main, sending, phase, socket, ub>>
shared == <<exit, pending, asked, queue, rsAsync, quitAsync>>
worker == <<thread, inHand>>
log == <<refused, sent, calls>>
vars == <<loop, shared, worker, log>>

\* hsk_rs_worker_init and hsk_rs_worker_open: the thread has been created.
Init ==
    /\ main = "idle" /\ sending = None
    /\ phase = "running" /\ socket = TRUE /\ ub = TRUE
    /\ exit = FALSE /\ pending = {} /\ asked = {}
    /\ queue = <<>> /\ rsAsync = FALSE /\ quitAsync = FALSE
    /\ thread = "check" /\ inHand = None
    /\ refused = {} /\ sent = {} /\ calls = [r \in Req |-> 0]

\* uv_cond_signal: the blocked thread tests its condition again.
Signal == thread' = IF thread = "blocked" THEN "check" ELSE thread

Queued == {queue[i] : i \in DOMAIN queue}
Fresh(r) == r \notin refused \cup sent /\ r # sending

-----------------------------------------------------------------------------
(* The event loop.                                                         *)

\* hsk_rs_onrecv answers with an error: type ANY, or the worker is closing.
RefuseAtOnce(r) ==
    /\ main = "idle" /\ socket /\ Fresh(r)
    /\ r \in AnyType \/ exit \/ ~ub
    /\ refused' = refused \cup {r}
    /\ UNCHANGED <<loop, shared, worker, sent, calls>>

\* hsk_rs_worker_resolve enqueues the request before it asks libunbound.
Resolve(r) ==
    /\ main = "idle" /\ socket /\ Fresh(r)
    /\ r \notin AnyType /\ ~exit /\ ub
    /\ pending' = pending \cup {r}
    /\ Signal
    /\ main' = "sending" /\ sending' = r
    /\ UNCHANGED <<phase, socket, ub, exit, asked, queue, rsAsync, quitAsync,
                   inHand, log>>

\* ub_resolve_async takes the request,
SendAccepted ==
    /\ main = "sending"
    /\ asked' = asked \cup {sending}
    /\ sent' = sent \cup {sending}
    /\ main' = "idle" /\ sending' = None
    /\ UNCHANGED <<phase, socket, ub, exit, pending, queue, rsAsync, quitAsync,
                   worker, refused, calls>>

\* or fails, and the request leaves the pending list.
SendFailed ==
    /\ main = "sending"
    /\ pending' = pending \ {sending}
    /\ refused' = refused \cup {sending}
    /\ main' = "idle" /\ sending' = None
    /\ UNCHANGED <<phase, socket, ub, exit, asked, queue, rsAsync, quitAsync,
                   worker, sent, calls>>

\* libuv clears the flag, then runs after_resolve_async.
AfterResolveAsync ==
    /\ main = "idle" /\ rsAsync
    /\ rsAsync' = FALSE
    /\ main' = "draining"
    /\ UNCHANGED <<sending, phase, socket, ub, exit, pending, asked, queue,
                   quitAsync, worker, log>>

\* One response leaves the queue and its callback runs.
Callback ==
    /\ queue # <<>>
    /\ queue' = Tail(queue)
    /\ calls' = [calls EXCEPT ![Head(queue)] = @ + 1]

\* Mutation: a single response per event, although libuv coalesces events.
DrainOne ==
    /\ main = "draining"
    /\ Callback
    /\ main' = "idle"
    /\ UNCHANGED <<sending, phase, socket, ub, exit, pending, asked, rsAsync,
                   quitAsync, worker, refused, sent>>

\* The loop of after_resolve_async takes all of them.
Drain ==
    /\ main = "draining"
    /\ Callback
    /\ UNCHANGED <<loop, exit, pending, asked, rsAsync, quitAsync, worker,
                   refused, sent>>

EndDrain ==
    /\ main = "draining" /\ queue = <<>>
    /\ main' = "idle"
    /\ UNCHANGED <<sending, phase, socket, ub, shared, worker, log>>

\* hsk_rs_close, on a signal and again on every further one.
Close ==
    /\ main = "idle" /\ phase # "stopped"
    /\ phase' = "closing"
    /\ exit' = TRUE
    /\ IF exit THEN UNCHANGED thread ELSE Signal
    /\ UNCHANGED <<main, sending, socket, ub, pending, asked, queue, rsAsync,
                   quitAsync, inHand, log>>

\* Mutation: the socket is closed before the worker is freed.
AfterQuitAsyncSocketFirst ==
    /\ main = "idle" /\ quitAsync
    /\ thread = "done"
    /\ quitAsync' = FALSE /\ rsAsync' = FALSE
    /\ exit' = FALSE /\ ub' = FALSE
    /\ main' = "freeing" /\ socket' = FALSE
    /\ UNCHANGED <<sending, phase, pending, asked, queue, worker, log>>

\* after_quit_async joins the thread, resets the pending list and, through
\* after_worker_stop, starts hsk_rs_worker_free, which closes the handles.
AfterQuitAsync ==
    /\ main = "idle" /\ quitAsync
    /\ thread = "done"
    /\ quitAsync' = FALSE /\ rsAsync' = FALSE
    /\ exit' = FALSE /\ ub' = FALSE
    /\ main' = "freeing"
    /\ UNCHANGED <<sending, phase, socket, pending, asked, queue, worker, log>>

\* hsk_rs_queue_uninit calls back what is still queued.
FreeOne ==
    /\ main = "freeing"
    /\ Callback
    /\ UNCHANGED <<loop, exit, pending, asked, rsAsync, quitAsync, worker,
                   refused, sent>>

\* The rest of after_worker_stop: the socket closes, the daemon is told.
Stop ==
    /\ main = "freeing" /\ queue = <<>>
    /\ main' = "idle" /\ socket' = FALSE /\ phase' = "stopped"
    /\ UNCHANGED <<sending, ub, shared, worker, log>>

-----------------------------------------------------------------------------
(* The libunbound thread, run_unbound_worker.                              *)

\* Mutation: the exit flag wins over pending requests.
PendingWaitExitFirst ==
    /\ thread = "check"
    /\ thread' = CASE exit          -> "quit"
                   [] pending # {}  -> "ub_wait"
                   [] OTHER         -> "blocked"
    /\ UNCHANGED <<loop, shared, inHand, log>>

\* hsk_rs_pending_wait returns, or blocks on the condition variable.
PendingWait ==
    /\ thread = "check"
    /\ thread' = CASE pending # {}           -> "ub_wait"
                   [] pending = {} /\ exit   -> "quit"
                   [] pending = {} /\ ~exit  -> "blocked"
    /\ UNCHANGED <<loop, shared, inHand, log>>

\* uv_cond_wait may also return without a signal.
SpuriousWakeup ==
    /\ thread = "blocked"
    /\ thread' = "check"
    /\ UNCHANGED <<loop, shared, inHand, log>>

\* ub_wait returns when nothing is outstanding.
UbWaitReturns ==
    /\ thread = "ub_wait" /\ asked = {}
    /\ thread' = "check"
    /\ UNCHANGED <<loop, shared, inHand, log>>

\* Mutation: the request stays in the pending list.
UbAnswerKept(r) ==
    /\ thread = "ub_wait" /\ r \in asked
    /\ asked' = asked \ {r}
    /\ inHand' = r
    /\ thread' = "removed"
    /\ UNCHANGED <<loop, exit, pending, queue, rsAsync, quitAsync, log>>

\* ub_wait calls after_resolve_onthread, which first leaves the pending list,
UbAnswer(r) ==
    /\ thread = "ub_wait" /\ r \in asked
    /\ asked' = asked \ {r}
    /\ pending' = pending \ {r}
    /\ inHand' = r
    /\ thread' = "removed"
    /\ UNCHANGED <<loop, exit, queue, rsAsync, quitAsync, log>>

\* then enters the response queue,
Enqueue ==
    /\ thread = "removed"
    /\ queue' = Append(queue, inHand)
    /\ inHand' = None
    /\ thread' = "enqueued"
    /\ UNCHANGED <<loop, exit, pending, asked, rsAsync, quitAsync, log>>

\* and tells the event loop.
AsyncSend ==
    /\ thread = "enqueued"
    /\ rsAsync' = TRUE
    /\ thread' = "ub_wait"
    /\ UNCHANGED <<loop, exit, pending, asked, queue, quitAsync, inHand, log>>

Quit ==
    /\ thread = "quit"
    /\ quitAsync' = TRUE
    /\ thread' = "done"
    /\ UNCHANGED <<loop, exit, pending, asked, queue, rsAsync, inHand, log>>

-----------------------------------------------------------------------------
EventLoop ==
    \/ \E r \in Req : RefuseAtOnce(r) \/ Resolve(r)
    \/ SendAccepted \/ SendFailed
    \/ AfterResolveAsync \/ Drain \/ EndDrain
    \/ Close \/ AfterQuitAsync \/ FreeOne \/ Stop

Worker ==
    \/ PendingWait \/ SpuriousWakeup \/ UbWaitReturns
    \/ \E r \in Req : UbAnswer(r)
    \/ Enqueue \/ AsyncSend \/ Quit

Next == EventLoop \/ Worker

\* Both threads are scheduled, the loop serves every async handle in turn, and
\* libunbound answers or times out each request.
Fairness ==
    /\ SF_vars(AfterResolveAsync) /\ SF_vars(AfterQuitAsync)
    /\ WF_vars(SendAccepted \/ SendFailed)
    /\ WF_vars(Drain \/ EndDrain) /\ WF_vars(FreeOne \/ Stop)
    /\ WF_vars(PendingWait) /\ WF_vars(UbWaitReturns)
    /\ WF_vars(Enqueue \/ AsyncSend \/ Quit)
    /\ \A r \in Req : SF_vars(UbAnswer(r))

Spec == Init /\ [][Next]_vars /\ Fairness

-----------------------------------------------------------------------------
TypeOK ==
    /\ main \in {"idle", "sending", "draining", "freeing"}
    /\ sending \in Req \cup {None}
    /\ phase \in {"running", "closing", "stopped"}
    /\ socket \in BOOLEAN /\ ub \in BOOLEAN /\ exit \in BOOLEAN
    /\ rsAsync \in BOOLEAN /\ quitAsync \in BOOLEAN
    /\ pending \subseteq Req /\ asked \subseteq Req
    /\ thread \in {"check", "blocked", "ub_wait", "removed", "enqueued",
                   "quit", "done"}
    /\ inHand \in Req \cup {None}
    /\ queue \in Seq(Req)
    /\ refused \subseteq Req /\ sent \subseteq Req
    /\ calls \in [Req -> Nat]

\* A request libunbound accepted has exactly one owner until its callback has
\* run: the pending list, the hand of the callback thread or the response
\* queue, once; so no response object is lost or freed twice.
OneOwner ==
    /\ \A i, j \in DOMAIN queue : queue[i] = queue[j] => i = j
    /\ pending \cap Queued = {}
    /\ inHand \notin pending \cup Queued
    /\ \A r \in sent :
          calls[r] = IF r \in pending \cup Queued \cup {inHand} THEN 0 ELSE 1

\* The assertions of rs_worker.c: the context is set while the thread runs, and
\* when it has quit nothing is pending (hsk_rs_pending_reset, _uninit).
AssertionsHold ==
    /\ thread # "done" => ub
    /\ quitAsync \/ main = "freeing" => pending = {} /\ asked = {}
    /\ main = "freeing" => thread = "done" /\ ~exit

\* Every callback finds the socket it answers on: hsk_rs_send needs ns->socket
\* also for the responses that hsk_rs_queue_uninit delivers during shutdown.
AnsweredOnSocket == [][calls' # calls => socket]_vars

\* What the client of ResolveService has seen of a request.
StatusOf(r) ==
    IF r \in refused THEN "refused"
    ELSE IF r \notin sent THEN "new"
    ELSE IF calls[r] = 0 THEN "accepted"
    ELSE IF calls[r] = 1 THEN "answered" ELSE "called twice"

\* The promise of rs_worker.h, with its liveness: no accepted request is left
\* without its callback, and a close always completes.
Service == INSTANCE ResolveService WITH status <- [r \in Req |-> StatusOf(r)]
ServiceSpec == Service!Spec

=============================================================================
