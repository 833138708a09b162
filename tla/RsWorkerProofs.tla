--------------------------- MODULE RsWorkerProofs ---------------------------
(***************************************************************************)
(* Proofs about RsWorker for every set of requests: each accepted request  *)
(* has one owner, the assertions of the code hold, and the two threads     *)
(* implement the safety part of ResolveService.  At the end, NoLostWakeup  *)
(* of UvAsync, the handles the threads wake each other with, for every set *)
(* of handles and of threads.                                              *)
(***************************************************************************)
EXTENDS RsWorker, UvAsync, TLAPS

\* The inductive invariant.  Handover ties the control state of each thread to
\* what it holds; Shutdown says in which order the flags of a close appear.
Handover ==
    /\ main = "sending" <=> sending # None
    /\ sending # None => phase = "running" /\ ub /\ ~exit
    /\ sending \notin refused \cup sent
    /\ refused \cap sent = {}
    /\ asked \subseteq sent
    /\ pending = IF sending = None THEN asked ELSE asked \cup {sending}
    /\ thread = "removed" <=> inHand # None
    /\ inHand # None => inHand \in sent
    /\ Queued \subseteq sent
    /\ \A r \in Req \ sent : calls[r] = 0

Shutdown ==
    /\ exit => phase = "closing"
    /\ phase = "closing" => exit \/ main = "freeing"
    /\ main = "freeing" => phase = "closing" /\ thread = "done"
    /\ ub <=> ~(main = "freeing" \/ phase = "stopped")
    /\ socket <=> phase # "stopped"
    /\ phase = "stopped" => thread = "done" /\ queue = <<>>
    /\ thread \in {"quit", "done"} => phase # "running" /\ pending = {}
    /\ quitAsync => thread = "done" /\ exit
    /\ exit => main # "freeing"

Inv == TypeOK /\ OneOwner /\ Handover /\ Shutdown

\* Facts about appending to a queue without duplicates and taking its head.
LEMMA AppendFacts ==
    ASSUME NEW S, NEW q \in Seq(S), NEW x \in S
    PROVE  LET p == Append(q, x)
           IN  /\ p \in Seq(S)
               /\ {p[i] : i \in DOMAIN p} = {q[i] : i \in DOMAIN q} \cup {x}
               /\ /\ x \notin {q[i] : i \in DOMAIN q}
                  /\ \A i, j \in DOMAIN q : q[i] = q[j] => i = j
                  => \A i, j \in DOMAIN p : p[i] = p[j] => i = j
<1> DEFINE p == Append(q, x)
<1>1. /\ p \in Seq(S) /\ Len(p) = Len(q) + 1 /\ DOMAIN p = 1..Len(p)
      /\ DOMAIN q = 1..Len(q) /\ Len(q) \in Nat
      /\ \A i \in 1..Len(q) : p[i] = q[i]
      /\ p[Len(q) + 1] = x
  OBVIOUS
<1>2. {p[i] : i \in DOMAIN p} = {q[i] : i \in DOMAIN q} \cup {x}
  <2> HIDE DEF p
  <2> QED  BY <1>1
<1>3. ASSUME x \notin {q[i] : i \in DOMAIN q},
             \A i, j \in DOMAIN q : q[i] = q[j] => i = j
      PROVE  \A i, j \in DOMAIN p : p[i] = p[j] => i = j
  <2> HIDE DEF p
  <2> QED  BY <1>1, <1>3
<1> QED  BY <1>1, <1>2, <1>3

\* What hsk_rs_queue_dequeue leaves of a queue without duplicates.
LEMMA TailFacts ==
    ASSUME NEW S, NEW q \in Seq(S), q # <<>>,
           \A i, j \in DOMAIN q : q[i] = q[j] => i = j
    PROVE  LET p == Tail(q)
           IN  /\ p \in Seq(S)
               /\ Head(q) \in {q[i] : i \in DOMAIN q}
               /\ {p[i] : i \in DOMAIN p} = {q[i] : i \in DOMAIN q} \ {Head(q)}
               /\ \A i, j \in DOMAIN p : p[i] = p[j] => i = j
<1> DEFINE p == Tail(q)
<1>1. /\ p \in Seq(S) /\ Len(p) = Len(q) - 1 /\ DOMAIN p = 1..Len(p)
      /\ DOMAIN q = 1..Len(q) /\ Len(q) \in Nat /\ Len(q) > 0
      /\ \A i \in 1..Len(p) : p[i] = q[i + 1]
      /\ Head(q) = q[1]
  OBVIOUS
<1> HIDE DEF p
<1>2. Head(q) \in {q[i] : i \in DOMAIN q}
  BY <1>1
<1>3. {p[i] : i \in DOMAIN p} \subseteq {q[i] : i \in DOMAIN q} \ {Head(q)}
  BY <1>1, SMTT(30)
<1>4. ASSUME NEW i \in DOMAIN q, q[i] # Head(q)
      PROVE  q[i] \in {p[k] : k \in DOMAIN p}
  <2>1. i - 1 \in DOMAIN p /\ p[i - 1] = q[i]
    BY <1>1, <1>4
  <2> QED  BY <2>1
<1>5. \A i, j \in DOMAIN p : p[i] = p[j] => i = j
  BY <1>1, SMTT(30)
<1> QED  BY <1>1, <1>2, <1>3, <1>4, <1>5 DEF p

\* The first state, with the thread about to test its condition.
LEMMA InitInv == Init => Inv
<1> SUFFICES ASSUME Init PROVE Inv
  OBVIOUS
<1> USE ReqAssumption DEF Init
<1>1. TypeOK
  <2>1. queue \in Seq(Req) /\ calls \in [Req -> Nat]
    OBVIOUS
  <2>2. /\ socket \in BOOLEAN /\ ub \in BOOLEAN /\ exit \in BOOLEAN
        /\ rsAsync \in BOOLEAN /\ quitAsync \in BOOLEAN
    BY Zenon
  <2> QED  BY <2>1, <2>2 DEF TypeOK
<1>2. Queued = {}
  BY DEF Queued
<1>3. OneOwner
  BY <1>2 DEF OneOwner
<1>4. Handover
  BY <1>2 DEF Handover
<1>5. Shutdown
  BY DEF Shutdown
<1> QED  BY <1>1, <1>3, <1>4, <1>5 DEF Inv

\* The steps that leave the queue alone keep what is queued.
LEMMA SameQueue == queue' = queue => Queued' = Queued
  BY DEF Queued

\* The head of the queue has its callback run for the first time.
LEMMA CallbackInv ==
    ASSUME Inv, Callback,
           UNCHANGED <<loop, exit, pending, asked, rsAsync, quitAsync, worker,
                       refused, sent>>
    PROVE  Inv'
<1> USE DEF Callback, loop, worker
<1>1. /\ queue' \in Seq(Req)
      /\ Head(queue) \in Queued /\ Queued' = Queued \ {Head(queue)}
      /\ (\A i, j \in DOMAIN queue : queue[i] = queue[j] => i = j)'
  <2>1. /\ queue \in Seq(Req) /\ queue # <<>>
        /\ \A i, j \in DOMAIN queue : queue[i] = queue[j] => i = j
    BY DEF Inv, TypeOK, OneOwner
  <2>2. /\ Tail(queue) \in Seq(Req)
        /\ Head(queue) \in {queue[i] : i \in DOMAIN queue}
        /\ {Tail(queue)[i] : i \in DOMAIN Tail(queue)}
              = {queue[i] : i \in DOMAIN queue} \ {Head(queue)}
        /\ \A i, j \in DOMAIN Tail(queue) :
              Tail(queue)[i] = Tail(queue)[j] => i = j
    BY <2>1, TailFacts, Zenon
  <2>3. queue' = Tail(queue)
    OBVIOUS
  <2> QED  BY <2>2, <2>3, Zenon DEF Queued
<1>2. Head(queue) \in sent /\ Head(queue) \in Req /\ calls[Head(queue)] = 0
  BY <1>1 DEF Inv, TypeOK, OneOwner, Handover
<1>3. TypeOK'
  BY <1>1, <1>2 DEF Inv, TypeOK
<1>4. OneOwner'
  BY <1>1, <1>2 DEF Inv, OneOwner, Handover, TypeOK
<1>5. Handover'
  BY <1>1, <1>2 DEF Inv, Handover, TypeOK
<1>6. Shutdown'
  BY DEF Inv, Shutdown
<1> QED  BY <1>3, <1>4, <1>5, <1>6 DEF Inv

\* Each action preserves the invariant.
LEMMA NextInv == Inv /\ [Next]_vars => Inv'
<1> SUFFICES ASSUME Inv, [Next]_vars PROVE Inv'
  OBVIOUS
<1> USE ReqAssumption
<1>1. ASSUME NEW r \in Req, RefuseAtOnce(r) PROVE Inv'
  <2> USE <1>1 DEF RefuseAtOnce, Fresh, loop, shared, worker
  <2>1. Queued' = Queued
    BY SameQueue
  <2>2. TypeOK'
    BY DEF Inv, TypeOK
  <2>3. OneOwner'
    BY <2>1 DEF Inv, OneOwner, Handover, TypeOK
  <2>4. Handover'
    BY <2>1 DEF Inv, Handover, Shutdown, TypeOK
  <2>5. Shutdown'
    BY DEF Inv, Handover, Shutdown, TypeOK
  <2> QED  BY <2>2, <2>3, <2>4, <2>5 DEF Inv
<1>2. ASSUME NEW r \in Req, Resolve(r) PROVE Inv'
  <2> USE <1>2 DEF Resolve, Signal, Fresh, log
  <2>1. Queued' = Queued
    BY SameQueue
  <2>2. TypeOK'
    BY DEF Inv, TypeOK
  <2>3. OneOwner'
    BY <2>1 DEF Inv, OneOwner, Handover, TypeOK
  <2>4. Handover'
    BY <2>1 DEF Inv, Handover, Shutdown, TypeOK
  <2>5. Shutdown'
    BY DEF Inv, Handover, Shutdown, TypeOK
  <2> QED  BY <2>2, <2>3, <2>4, <2>5 DEF Inv
<1>3. ASSUME SendAccepted PROVE Inv'
  <2> USE <1>3 DEF SendAccepted, worker
  <2>1. Queued' = Queued
    BY SameQueue
  <2>2. TypeOK'
    BY DEF Inv, TypeOK, Handover
  <2>3. OneOwner'
    BY <2>1 DEF Inv, OneOwner, Handover, TypeOK
  <2>4. Handover'
    BY <2>1 DEF Inv, Handover, Shutdown, TypeOK
  <2>5. Shutdown'
    BY DEF Inv, Handover, Shutdown, TypeOK
  <2> QED  BY <2>2, <2>3, <2>4, <2>5 DEF Inv
<1>4. ASSUME SendFailed PROVE Inv'
  <2> USE <1>4 DEF SendFailed, worker
  <2>1. Queued' = Queued
    BY SameQueue
  <2>2. TypeOK'
    BY DEF Inv, TypeOK, Handover
  <2>3. OneOwner'
    BY <2>1 DEF Inv, OneOwner, Handover, TypeOK
  <2>4. Handover'
    BY <2>1 DEF Inv, Handover, Shutdown, TypeOK
  <2>5. Shutdown'
    BY DEF Inv, Handover, Shutdown, TypeOK
  <2> QED  BY <2>2, <2>3, <2>4, <2>5 DEF Inv
<1>5. ASSUME AfterResolveAsync PROVE Inv'
  <2> USE <1>5 DEF AfterResolveAsync, worker, log
  <2>1. Queued' = Queued
    BY SameQueue
  <2>2. TypeOK'
    BY ZenonT(40) DEF Inv, TypeOK
  <2>3. OneOwner'
    BY <2>1 DEF Inv, OneOwner, Handover, TypeOK
  <2>4. Handover'
    BY <2>1 DEF Inv, Handover, Shutdown, TypeOK
  <2>5. Shutdown'
    BY DEF Inv, Handover, Shutdown, TypeOK
  <2> QED  BY <2>2, <2>3, <2>4, <2>5 DEF Inv
<1>6. ASSUME Drain PROVE Inv'
  <2> USE <1>6 DEF Drain, loop, worker
  <2>1. Callback
    OBVIOUS
  <2> QED  BY <2>1, CallbackInv
<1>7. ASSUME EndDrain PROVE Inv'
  <2> USE <1>7 DEF EndDrain, shared, worker, log
  <2>1. Queued' = Queued
    BY SameQueue
  <2>2. TypeOK'
    BY DEF Inv, TypeOK
  <2>3. OneOwner'
    BY <2>1 DEF Inv, OneOwner, Handover, TypeOK
  <2>4. Handover'
    BY <2>1 DEF Inv, Handover, Shutdown, TypeOK
  <2>5. Shutdown'
    BY DEF Inv, Handover, Shutdown, TypeOK
  <2> QED  BY <2>2, <2>3, <2>4, <2>5 DEF Inv
<1>8. ASSUME Close PROVE Inv'
  <2> USE <1>8 DEF Close, Signal, log
  <2>1. Queued' = Queued
    BY SameQueue
  <2>2. TypeOK'
    BY DEF Inv, TypeOK
  <2>3. OneOwner'
    BY <2>1 DEF Inv, OneOwner, Handover, TypeOK
  <2>4. Handover'
    BY <2>1 DEF Inv, Handover, Shutdown, TypeOK
  <2>5. Shutdown'
    BY DEF Inv, Handover, Shutdown, TypeOK
  <2> QED  BY <2>2, <2>3, <2>4, <2>5 DEF Inv
<1>9. ASSUME AfterQuitAsync PROVE Inv'
  <2> USE <1>9 DEF AfterQuitAsync, worker, log
  <2>1. Queued' = Queued
    BY SameQueue
  <2>2. TypeOK'
    BY Zenon DEF Inv, TypeOK
  <2>3. OneOwner'
    BY <2>1 DEF Inv, OneOwner, Handover, TypeOK
  <2>4. Handover'
    BY <2>1 DEF Inv, Handover, Shutdown, TypeOK
  <2>5. Shutdown'
    BY DEF Inv, Handover, Shutdown, TypeOK
  <2> QED  BY <2>2, <2>3, <2>4, <2>5 DEF Inv
<1>10. ASSUME FreeOne PROVE Inv'
  <2> USE <1>10 DEF FreeOne, loop, worker
  <2>1. Callback
    OBVIOUS
  <2> QED  BY <2>1, CallbackInv
<1>11. ASSUME Stop PROVE Inv'
  <2> USE <1>11 DEF Stop, shared, worker, log
  <2>1. Queued' = Queued
    BY SameQueue
  <2>2. TypeOK'
    BY Zenon DEF Inv, TypeOK
  <2>3. OneOwner'
    BY <2>1 DEF Inv, OneOwner, Handover, TypeOK
  <2>4. Handover'
    BY <2>1 DEF Inv, Handover, Shutdown, TypeOK
  <2>5. Shutdown'
    BY DEF Inv, Handover, Shutdown, TypeOK
  <2> QED  BY <2>2, <2>3, <2>4, <2>5 DEF Inv
<1>12. ASSUME PendingWait PROVE Inv'
  <2> USE <1>12 DEF PendingWait, loop, shared, log
  <2>1. Queued' = Queued
    BY SameQueue
  <2>2. TypeOK'
    BY DEF Inv, TypeOK
  <2>3. OneOwner'
    BY <2>1 DEF Inv, OneOwner, Handover, TypeOK
  <2>4. Handover'
    BY <2>1 DEF Inv, Handover, Shutdown, TypeOK
  <2>5. Shutdown'
    BY DEF Inv, Handover, Shutdown, TypeOK
  <2> QED  BY <2>2, <2>3, <2>4, <2>5 DEF Inv
<1>13. ASSUME SpuriousWakeup PROVE Inv'
  <2> USE <1>13 DEF SpuriousWakeup, loop, shared, log
  <2>1. Queued' = Queued
    BY SameQueue
  <2>2. TypeOK'
    BY DEF Inv, TypeOK
  <2>3. OneOwner'
    BY <2>1 DEF Inv, OneOwner, Handover, TypeOK
  <2>4. Handover'
    BY <2>1 DEF Inv, Handover, Shutdown, TypeOK
  <2>5. Shutdown'
    BY DEF Inv, Handover, Shutdown, TypeOK
  <2> QED  BY <2>2, <2>3, <2>4, <2>5 DEF Inv
<1>14. ASSUME UbWaitReturns PROVE Inv'
  <2> USE <1>14 DEF UbWaitReturns, loop, shared, log
  <2>1. Queued' = Queued
    BY SameQueue
  <2>2. TypeOK'
    BY DEF Inv, TypeOK
  <2>3. OneOwner'
    BY <2>1 DEF Inv, OneOwner, Handover, TypeOK
  <2>4. Handover'
    BY <2>1, Zenon DEF Inv, Handover, Shutdown, TypeOK
  <2>5. Shutdown'
    BY DEF Inv, Handover, Shutdown, TypeOK
  <2> QED  BY <2>2, <2>3, <2>4, <2>5 DEF Inv
<1>15. ASSUME NEW r \in Req, UbAnswer(r) PROVE Inv'
  <2> USE <1>15 DEF UbAnswer, loop, log
  <2>1. Queued' = Queued
    BY SameQueue
  <2>2. TypeOK'
    BY DEF Inv, TypeOK
  <2>3. OneOwner'
    BY <2>1 DEF Inv, OneOwner, Handover, TypeOK
  <2>4. Handover'
    BY <2>1 DEF Inv, Handover, Shutdown, TypeOK
  <2>5. Shutdown'
    BY DEF Inv, Handover, Shutdown, TypeOK
  <2> QED  BY <2>2, <2>3, <2>4, <2>5 DEF Inv
<1>16. ASSUME Enqueue PROVE Inv'
  <2> USE <1>16 DEF Enqueue, loop, log
  <2>1. /\ inHand \in Req /\ queue \in Seq(Req) /\ inHand \notin Queued
        /\ \A i, j \in DOMAIN queue : queue[i] = queue[j] => i = j
    BY SMTT(30) DEF Inv, TypeOK, OneOwner, Handover
  <2>2. /\ queue' \in Seq(Req) /\ Queued' = Queued \cup {inHand}
        /\ (\A i, j \in DOMAIN queue : queue[i] = queue[j] => i = j)'
    BY <2>1, AppendFacts DEF Queued
  <2>3. TypeOK'
    BY <2>2 DEF Inv, TypeOK
  <2>4. OneOwner'
    BY <2>1, <2>2 DEF Inv, OneOwner, Handover, TypeOK
  <2>5. Handover'
    BY <2>2 DEF Inv, Handover, Shutdown, TypeOK
  <2>6. Shutdown'
    BY DEF Inv, Handover, Shutdown, TypeOK
  <2> QED  BY <2>3, <2>4, <2>5, <2>6 DEF Inv
<1>17. ASSUME AsyncSend PROVE Inv'
  <2> USE <1>17 DEF AsyncSend, loop, log
  <2>1. Queued' = Queued
    BY SameQueue
  <2>2. TypeOK'
    BY DEF Inv, TypeOK
  <2>3. OneOwner'
    BY <2>1 DEF Inv, OneOwner, Handover, TypeOK
  <2>4. Handover'
    BY <2>1 DEF Inv, Handover, Shutdown, TypeOK
  <2>5. Shutdown'
    BY DEF Inv, Handover, Shutdown, TypeOK
  <2> QED  BY <2>2, <2>3, <2>4, <2>5 DEF Inv
<1>18. ASSUME Quit PROVE Inv'
  <2> USE <1>18 DEF Quit, loop, log
  <2>1. Queued' = Queued
    BY SameQueue
  <2>2. TypeOK'
    BY DEF Inv, TypeOK
  <2>3. OneOwner'
    BY <2>1 DEF Inv, OneOwner, Handover, TypeOK
  <2>4. Handover'
    BY <2>1 DEF Inv, Handover, Shutdown, TypeOK
  <2>5. Shutdown'
    BY DEF Inv, Handover, Shutdown, TypeOK
  <2> QED  BY <2>2, <2>3, <2>4, <2>5 DEF Inv
<1>19. CASE UNCHANGED vars
  <2> USE <1>19 DEF vars, loop, shared, worker, log
  <2>1. Queued' = Queued
    BY SameQueue
  <2> QED  BY <2>1 DEF Inv, TypeOK, OneOwner, Handover, Shutdown
<1> QED
  BY <1>1, <1>2, <1>3, <1>4, <1>5, <1>6, <1>7, <1>8, <1>9, <1>10, <1>11, <1>12, <1>13, <1>14, <1>15, <1>16, <1>17, <1>18, <1>19
  DEF Next, EventLoop, Worker

\* The invariant holds in every state the two threads reach.
THEOREM InvCorrect == Spec => []Inv
<1>1. Spec => Init /\ [][Next]_vars
  BY DEF Spec
<1> QED  BY <1>1, InitInv, NextInv, PTL

\* Every variable of the two threads keeps its type.
THEOREM TypeCorrect == Spec => []TypeOK
  BY InvCorrect, PTL DEF Inv

\* rs_worker.c: an accepted request is in the pending list, in the hand of the
\* callback thread or in the response queue, once, until its callback ran.
THEOREM OneOwnerCorrect == Spec => []OneOwner
  BY InvCorrect, PTL DEF Inv

\* The assertions of hsk_rs_pending_reset, hsk_rs_pending_uninit,
\* hsk_rs_worker_uninit and run_unbound_worker never fail.
THEOREM AssertionsHoldCorrect == Spec => []AssertionsHold
<1>1. Inv => AssertionsHold
  BY DEF Inv, TypeOK, Handover, Shutdown, AssertionsHold
<1> QED  BY <1>1, InvCorrect, PTL

\* No callback runs after after_worker_stop has closed the socket.
THEOREM AnsweredOnSocketCorrect == Spec => AnsweredOnSocket
<1>1. Inv /\ [Next]_vars => [calls' # calls => socket]_vars
  <2> SUFFICES ASSUME Inv, Next, calls' # calls PROVE socket
    OBVIOUS
  <2>1. Drain \/ FreeOne
    BY DEF Next, EventLoop, Worker, RefuseAtOnce, Resolve, SendAccepted,
       SendFailed, AfterResolveAsync, EndDrain, Close, AfterQuitAsync, Stop,
       PendingWait, SpuriousWakeup, UbWaitReturns, UbAnswer, Enqueue,
       AsyncSend, Quit, log
  <2>2. queue # <<>>
    BY <2>1 DEF Drain, FreeOne, Callback
  <2> QED  BY <2>1, <2>2 DEF Inv, Shutdown, Drain, FreeOne
<1> QED  BY <1>1, InvCorrect, PTL DEF Spec, AnsweredOnSocket

\* The four ways a step changes what the client sees, or leaves it alone.
LEMMA StatusKept ==
    ASSUME UNCHANGED <<log, phase>>
    PROVE  UNCHANGED Service!vars
<1>1. \A r \in Req : StatusOf(r)' = StatusOf(r)
  BY DEF log, StatusOf
<1> QED  BY <1>1 DEF Service!vars, log

\* A request the event loop answers itself: Refuse in the abstract service.
LEMMA StatusRefused ==
    ASSUME NEW r \in Req, Inv, r \notin refused \cup sent, phase # "stopped",
           refused' = refused \cup {r}, UNCHANGED <<sent, calls, phase>>
    PROVE  Service!Refuse(r)
<1>1. StatusOf(r) = "new" /\ StatusOf(r)' = "refused"
  BY DEF StatusOf
<1>2. \A s \in Req \ {r} : StatusOf(s)' = StatusOf(s)
  BY Zenon DEF StatusOf
<1> QED  BY <1>1, <1>2, Zenon DEF Service!Refuse

\* A request libunbound takes: Accept in the abstract service.
LEMMA StatusAccepted ==
    ASSUME NEW r \in Req, Inv, r \notin refused \cup sent, phase = "running",
           sent' = sent \cup {r}, UNCHANGED <<refused, calls, phase>>
    PROVE  Service!Accept(r)
<1>1. StatusOf(r) = "new" /\ StatusOf(r)' = "accepted"
  BY DEF StatusOf, Inv, Handover
<1>2. \A s \in Req \ {r} : StatusOf(s)' = StatusOf(s)
  BY Zenon DEF StatusOf
<1> QED  BY <1>1, <1>2, Zenon DEF Service!Accept

\* A callback: Answer in the abstract service.
LEMMA StatusAnswered ==
    ASSUME Inv, Callback, phase # "stopped", UNCHANGED <<refused, sent, phase>>
    PROVE  \E r \in Req : Service!Answer(r)
<1>1. queue \in Seq(Req) /\ queue # <<>>
  BY DEF Inv, TypeOK, Callback
<1>2. Head(queue) = queue[1] /\ 1 \in DOMAIN queue /\ Head(queue) \in Req
  BY <1>1
<1>3. PICK r \in Req : r = Head(queue)
  BY <1>2
<1>4. r \in sent /\ r \notin refused /\ calls[r] = 0
  <2>1. r \in Queued
    BY <1>2, <1>3 DEF Queued
  <2> QED  BY <2>1 DEF Inv, TypeOK, OneOwner, Handover
<1>5. calls' = [calls EXCEPT ![r] = @ + 1] /\ calls \in [Req -> Nat]
  BY <1>3 DEF Callback, Inv, TypeOK
<1>6. StatusOf(r) = "accepted" /\ StatusOf(r)' = "answered"
  BY <1>4, <1>5 DEF StatusOf
<1>7. \A s \in Req \ {r} : StatusOf(s)' = StatusOf(s)
  BY <1>5 DEF StatusOf
<1>8. Service!Answer(r)
  BY <1>4, <1>6, <1>7, Zenon DEF Service!Answer
<1> QED  BY <1>8

\* Every step of the two threads is a step of ResolveService or none.
LEMMA ServiceStep == Inv /\ [Next]_vars => [Service!Next]_(Service!vars)
<1> SUFFICES ASSUME Inv, [Next]_vars
             PROVE  Service!Next \/ UNCHANGED Service!vars
  OBVIOUS
<1>1. ASSUME NEW r \in Req, RefuseAtOnce(r) PROVE Service!Next
  <2>1. r \notin refused \cup sent /\ phase # "stopped"
    BY <1>1 DEF RefuseAtOnce, Fresh, Inv, Shutdown
  <2>2. Service!Refuse(r)
    BY <1>1, <2>1, StatusRefused DEF RefuseAtOnce, loop
  <2> QED  BY <2>2 DEF Service!Next
<1>2. ASSUME NEW r \in Req, Resolve(r) PROVE UNCHANGED Service!vars
  BY <1>2, StatusKept DEF Resolve
<1>3. ASSUME SendAccepted PROVE Service!Next
  <2>1. sending \in Req /\ sending \notin refused \cup sent /\ phase = "running"
    BY <1>3 DEF SendAccepted, Inv, TypeOK, Handover
  <2>2. Service!Accept(sending)
    BY <1>3, <2>1, StatusAccepted DEF SendAccepted
  <2> QED  BY <2>1, <2>2 DEF Service!Next
<1>4. ASSUME SendFailed PROVE Service!Next
  <2>1. sending \in Req /\ sending \notin refused \cup sent /\ phase = "running"
    BY <1>4 DEF SendFailed, Inv, TypeOK, Handover
  <2>2. Service!Refuse(sending)
    BY <1>4, <2>1, StatusRefused DEF SendFailed
  <2> QED  BY <2>1, <2>2 DEF Service!Next
<1>5. ASSUME Drain \/ FreeOne PROVE Service!Next
  <2>1. Callback /\ UNCHANGED <<refused, sent, phase>>
    BY <1>5 DEF Drain, FreeOne, loop
  <2>2. phase # "stopped"
    BY <2>1 DEF Inv, Shutdown, Callback
  <2>3. \E r \in Req : Service!Answer(r)
    BY <2>1, <2>2, StatusAnswered
  <2> QED  BY <2>3 DEF Service!Next
<1>6. ASSUME Close PROVE Service!Next \/ UNCHANGED Service!vars
  <2>1. \A r \in Req : StatusOf(r)' = StatusOf(r)
    BY <1>6 DEF Close, log, StatusOf
  <2>2. phase \in {"running", "closing"} /\ phase' = "closing"
    BY <1>6 DEF Close, Inv, TypeOK
  <2> QED  BY <2>1, <2>2 DEF Service!Next, Service!Close, Service!vars
<1>7. ASSUME Stop PROVE Service!Next
  <2>1. \A r \in Req : StatusOf(r)' = StatusOf(r)
    BY <1>7 DEF Stop, log, StatusOf
  <2>2. phase = "closing" /\ phase' = "stopped"
    BY <1>7 DEF Stop, Inv, Shutdown
  <2>3. pending = {} /\ inHand = None /\ Queued = {}
    BY <1>7 DEF Stop, Inv, Handover, Shutdown, TypeOK, Queued
  <2>4. \A r \in Req : StatusOf(r) # "accepted"
    BY <2>3, ReqAssumption DEF Inv, OneOwner, StatusOf
  <2> QED  BY <2>1, <2>2, <2>4 DEF Service!Next, Service!Stop
<1>8. ASSUME AfterResolveAsync \/ EndDrain \/ AfterQuitAsync \/ Worker
      PROVE  UNCHANGED Service!vars
  <2>1. UNCHANGED <<log, phase>>
    BY <1>8 DEF AfterResolveAsync, EndDrain, AfterQuitAsync, Worker, PendingWait,
       SpuriousWakeup, UbWaitReturns, UbAnswer, Enqueue, AsyncSend, Quit, loop
  <2> QED  BY <2>1, StatusKept
<1>9. CASE UNCHANGED vars
  BY <1>9, StatusKept DEF vars, loop
<1> QED
  BY <1>1, <1>2, <1>3, <1>4, <1>5, <1>6, <1>7, <1>8, <1>9 DEF Next, EventLoop

\* The two threads, their queues and handles implement what rs_worker.h
\* promises: answered exactly once, refused once closing, stopped at the end.
THEOREM ImplementsService == Spec => Service!Safety
<1>1. Init => Service!Init
  BY DEF Init, Service!Init, StatusOf
<1>2. Inv /\ [Next]_vars => [Service!Next]_(Service!vars)
  BY ServiceStep
<1> QED  BY <1>1, <1>2, InvCorrect, PTL DEF Spec, Service!Safety

-----------------------------------------------------------------------------
(* The async handles of libuv that carry the wakeups between the threads.  *)

\* Before the first uv_async_init nothing is due and no list holds anything.
LEMMA AsInitInv == AsInit => AsInv
BY Zenon DEF AsInit, AsInv, AsTypeOK

\* Each step of a sender keeps the invariant: it leaves the flag to the loop
\* that will see it, or writes to the descriptor.
LEMMA SendKeepsInv == AsInv /\ Send => AsInv'
<1> SUFFICES ASSUME AsInv, NEW t \in Thread,
                    \/ \E h \in Handle : SendBegin(t, h)
                    \/ SendTest(t) \/ SendExchange(t) \/ SendWrite(t)
             PROVE  AsInv'
  BY DEF Send
<1> USE DEF AsInv, AsTypeOK, loopvars
<1>1. CASE \E h \in Handle : SendBegin(t, h)
  <2> PICK h \in Handle : SendBegin(t, h)
    BY <1>1
  <2>1. AsTypeOK' /\ UNCHANGED loopvars
    BY DEF SendBegin
  <2>2. \A u \in Thread : u # t => step'[u] = step[u] /\ target'[u] = target[u]
    BY DEF SendBegin
  <2>3. step[t] = "idle" /\ step'[t] = "test" /\ target'[t] = h
    BY DEF SendBegin
  <2> QED
    BY <2>1, <2>2, <2>3 DEF SendBegin
<1>2. CASE SendTest(t)
  BY <1>2 DEF SendTest
<1>3. CASE SendExchange(t)
  BY <1>3 DEF SendExchange
<1>4. CASE SendWrite(t)
  BY <1>4, SMTT(30) DEF SendWrite
<1> QED
  BY <1>1, <1>2, <1>3, <1>4

\* The loop keeps it: it takes all open handles with the descriptor's content,
\* and clears a flag only on the way to the callback.
LEMMA IoKeepsInv == AsInv /\ Io => AsInv'
<1> SUFFICES ASSUME AsInv, Io PROVE AsInv'
  OBVIOUS
<1> USE DEF AsInv, AsTypeOK
<1>1. CASE IoBegin
  BY <1>1, Zenon DEF IoBegin
<1>2. ASSUME NEW h \in Handle, IoVisit(h) PROVE AsInv'
  BY <1>2 DEF IoVisit
<1>3. CASE IoCall
  BY <1>3 DEF IoCall
<1>4. CASE IoReturn
  BY <1>4 DEF IoReturn
<1>5. CASE IoEnd
  BY <1>5 DEF IoEnd
<1> QED
  BY <1>1, <1>2, <1>3, <1>4, <1>5 DEF Io

\* So do uv_async_init and uv__async_close.
LEMMA HandlesKeepInv ==
    ASSUME AsInv, NEW h \in Handle, HandleInit(h) \/ HandleClose(h)
    PROVE  AsInv'
<1> USE DEF AsInv, AsTypeOK
<1>1. CASE HandleInit(h)
  BY <1>1 DEF HandleInit
<1>2. CASE HandleClose(h)
  BY <1>2 DEF HandleClose
<1> QED
  BY <1>1, <1>2

\* The invariant of AsInv's comment holds throughout.
THEOREM AsInvCorrect == AsSpec => []AsInv
<1>1. AsInv /\ [AsNext]_asvars => AsInv'
  <2> SUFFICES ASSUME AsInv, [AsNext]_asvars PROVE AsInv'
    OBVIOUS
  <2>1. CASE UNCHANGED asvars
    BY <2>1 DEF asvars, loopvars, AsInv, AsTypeOK
  <2> QED
    BY <2>1, SendKeepsInv, IoKeepsInv, HandlesKeepInv DEF AsNext
<1> QED
  BY <1>1, AsInitInv, PTL DEF AsSpec

\* uv_async_send and uv__async_io lose no wakeup and call no closed handle,
\* however many threads send to however many handles.
THEOREM NoLostWakeupCorrect == AsSpec => []NoLostWakeup
<1>1. AsInv => NoLostWakeup
  <2> SUFFICES ASSUME AsInv PROVE NoLostWakeup
    OBVIOUS
  <2>1. ASSUME NEW h \in due \cap active, \A t \in Thread : ~Sending(t, h)
        PROVE  readable \/ h \in visiting \/ (at = "call" /\ current = h)
    BY <2>1 DEF AsInv, AsTypeOK, Sending
  <2> QED
    BY <2>1 DEF NoLostWakeup, AsInv
<1> QED
  BY <1>1, AsInvCorrect, PTL

=============================================================================
