------------------------------ MODULE UvAsync ------------------------------
(***************************************************************************)
(* src/uv/src/unix/async.c: how a thread wakes the event loop.  A handle   *)
(* has a flag, pending, that both sides change with a compare-and-exchange;*)
(* all handles of a loop share one descriptor.  The threads send without a *)
(* lock; only the loop touches its lists of handles.  Memory is            *)
(* sequentially consistent: hnsd's data is published under a mutex that is *)
(* unlocked before the send.                                               *)
(***************************************************************************)
CONSTANTS Handle, Thread

VARIABLES
    active,     \* initialised handles that have not been closed
    flagged,    \* handles whose pending is 1
    readable,   \* the descriptor has something to read
    listed,     \* loop->async_handles
    visiting,   \* the local queue of uv__async_io
    at,         \* the loop: "poll", "visit", "call" or "callback"
    current,    \* the handle of the call
    step,       \* step[t]: "idle", or where t is in uv_async_send
    target,     \* target[t]: the handle t sends to
    due         \* handles sent to since their callback last began

loopvars == <<active, listed, visiting, at, current>>
asvars == <<loopvars, flagged, readable, step, target, due>>

AsInit ==
    /\ active = {} /\ flagged = {} /\ readable = FALSE
    /\ listed = {} /\ visiting = {}
    /\ at = "poll" /\ current \in Handle
    /\ step = [t \in Thread |-> "idle"] /\ target \in [Thread -> Handle]
    /\ due = {}

Sending(t, h) == step[t] # "idle" /\ target[t] = h

-----------------------------------------------------------------------------
(* uv_async_send, on any thread.                                           *)

\* The caller has published its data and calls uv_async_send.
SendBegin(t, h) ==
    /\ step[t] = "idle" /\ h \in active
    /\ step' = [step EXCEPT ![t] = "test"]
    /\ target' = [target EXCEPT ![t] = h]
    /\ due' = due \cup {h}
    /\ UNCHANGED <<loopvars, flagged, readable>>

\* The cheap read: somebody else's send is still to be handled.
SendTest(t) ==
    /\ step[t] = "test"
    /\ step' = [step EXCEPT ![t] = IF target[t] \in flagged THEN "idle" ELSE "exchange"]
    /\ UNCHANGED <<loopvars, flagged, readable, target, due>>

\* cmpxchgi(&handle->pending, 0, 1): one of several senders wins.
SendExchange(t) ==
    /\ step[t] = "exchange"
    /\ step' = [step EXCEPT ![t] = IF target[t] \in flagged THEN "idle" ELSE "write"]
    /\ flagged' = flagged \cup {target[t]}
    /\ UNCHANGED <<loopvars, readable, target, due>>

\* uv__async_send; a descriptor that is full is readable all the same.
SendWrite(t) ==
    /\ step[t] = "write"
    /\ step' = [step EXCEPT ![t] = "idle"]
    /\ readable' = TRUE
    /\ UNCHANGED <<loopvars, flagged, target, due>>

-----------------------------------------------------------------------------
(* The loop.                                                               *)

\* uv__async_io empties the descriptor and moves all handles aside.
IoBegin ==
    /\ at = "poll" /\ readable
    /\ readable' = FALSE
    /\ visiting' = listed /\ listed' = {}
    /\ at' = "visit"
    /\ UNCHANGED <<active, current, flagged, step, target, due>>

\* One handle goes back to the list, and its flag is cleared before its
\* callback is called.
IoVisit(h) ==
    /\ at = "visit" /\ h \in visiting
    /\ visiting' = visiting \ {h} /\ listed' = listed \cup {h}
    /\ flagged' = flagged \ {h}
    /\ IF h \in flagged THEN at' = "call" /\ current' = h
                        ELSE UNCHANGED <<at, current>>
    /\ UNCHANGED <<active, readable, step, target, due>>

\* h->async_cb(h): from here on it sees what was published before.
IoCall ==
    /\ at = "call"
    /\ at' = "callback"
    /\ due' = due \ {current}
    /\ UNCHANGED <<active, listed, visiting, current, flagged, readable, step, target>>

\* Mutation: the flag is cleared only when the callback has returned.
IoReturnClears ==
    /\ at = "callback"
    /\ at' = "visit"
    /\ flagged' = flagged \ {current}
    /\ UNCHANGED <<active, listed, visiting, current, readable, step, target, due>>

\* The callback returns to the loop of uv__async_io,
IoReturn ==
    /\ at = "callback"
    /\ at' = "visit"
    /\ UNCHANGED <<active, listed, visiting, current, flagged, readable, step, target, due>>

\* which ends when every handle has been visited.
IoEnd ==
    /\ at = "visit" /\ visiting = {}
    /\ at' = "poll"
    /\ UNCHANGED <<active, listed, visiting, current, flagged, readable, step, target, due>>

\* uv_async_init, from a callback of an async handle or of anything else.
HandleInit(h) ==
    /\ at \in {"poll", "callback"}
    /\ h \notin active /\ \A t \in Thread : ~Sending(t, h)
    /\ active' = active \cup {h} /\ listed' = listed \cup {h}
    /\ flagged' = flagged \ {h} /\ due' = due \ {h}
    /\ UNCHANGED <<visiting, at, current, readable, step, target>>

\* uv__async_close: the handle leaves whichever list it is in.  The caller must
\* have ended the threads that send to it, as hsk_rs_worker_free has.
HandleClose(h) ==
    /\ at \in {"poll", "callback"}
    /\ h \in active /\ \A t \in Thread : ~Sending(t, h)
    /\ active' = active \ {h}
    /\ listed' = listed \ {h} /\ visiting' = visiting \ {h}
    /\ UNCHANGED <<at, current, flagged, readable, step, target, due>>

Send ==
    \E t \in Thread :
        \/ \E h \in Handle : SendBegin(t, h)
        \/ SendTest(t) \/ SendExchange(t) \/ SendWrite(t)

Io == IoBegin \/ (\E h \in Handle : IoVisit(h)) \/ IoCall \/ IoReturn \/ IoEnd

AsNext == Send \/ Io \/ \E h \in Handle : HandleInit(h) \/ HandleClose(h)

AsSpec == AsInit /\ [][AsNext]_asvars

-----------------------------------------------------------------------------
AsTypeOK ==
    /\ active \subseteq Handle /\ flagged \subseteq Handle /\ due \subseteq Handle
    /\ listed \subseteq Handle /\ visiting \subseteq Handle
    /\ readable \in BOOLEAN
    /\ at \in {"poll", "visit", "call", "callback"} /\ current \in Handle
    /\ step \in [Thread -> {"idle", "test", "exchange", "write"}]
    /\ target \in [Thread -> Handle]

\* A send that has returned is not lost, although it may have written nothing
\* because the flag was set: until the callback begins, the descriptor is
\* readable or the loop is on its way to the handle.  And the loop visits and
\* calls handles that are open, whichever the callbacks before closed.
NoLostWakeup ==
    /\ \A h \in due \cap active :
          (\A t \in Thread : ~Sending(t, h)) =>
              \/ readable
              \/ h \in visiting
              \/ at = "call" /\ current = h
    /\ visiting \subseteq active
    /\ at = "call" => current \in active

\* Why: a flag that is set has a writer, a readable descriptor or a visit to
\* come, and a handle that is due has its flag set, a sender that has yet to
\* look at the flag, or its call.  Every open handle is in one of the lists.
AsInv ==
    /\ AsTypeOK
    /\ listed \cup visiting = active
    /\ at = "poll" => visiting = {}
    /\ at = "call" => current \in active
    /\ \A h \in flagged \cap active :
          readable \/ h \in visiting \/ \E t \in Thread : step[t] = "write" /\ target[t] = h
    /\ \A h \in due \cap active :
          \/ h \in flagged
          \/ \E t \in Thread : step[t] \in {"test", "exchange"} /\ target[t] = h
          \/ at = "call" /\ current = h

=============================================================================
