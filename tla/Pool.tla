-------------------------------- MODULE Pool --------------------------------
(***************************************************************************)
(* The peers of src/src/pool.c and the name requests they carry: dialling, *)
(* choosing a prover, coalescing requests for one name, proofs, overdue    *)
(* peers, and what src/src/ns.c gets back for each request.  Header        *)
(* traffic is in HeaderSync.  A peer that is DISCONNECTING is out of the   *)
(* list and ignores every event, so it counts as closed here.              *)
(***************************************************************************)
EXTENDS Naturals, Sequences, FiniteSets, Functions

CONSTANTS
    Peer,         \* addresses the address manager hands out
    Encrypted,    \* those with a brontide key
    Honest,       \* those that prove exactly what they are asked
    MaxSize,      \* pool->max_size
    Name,         \* names (their hashes)
    Req,          \* DNS requests that reach the pool
    NameOf,       \* NameOf[r]: the name request r is about
    MaxRoot,      \* bound: how often the name root changes
    None

ASSUME PoolAssumption ==
    NameOf \in [Req -> Name] /\ MaxRoot \in Nat /\ None \notin Nat

VARIABLES
    synced,     \* hsk_chain_synced
    root,       \* hsk_chain_safe_root, numbered in the order of commitment
    list,       \* the peer list
    state,      \* state[p]: "closed", "CONNECTING", "READING" or "HANDSHAKE"
    proofs,     \* peer->proofs
    names,      \* names[p][n]: requests for n at p, the newest first
    late,       \* late[p]: names requested more than five seconds ago
    wire,       \* wire[p]: getproof messages on their way to p
    back,       \* back[p]: proof messages on their way from p
    pending,    \* the requests in pool->pending
    rootOf,     \* rootOf[r]: req->root, or None before the request
    failed,     \* requests whose getproof could not be sent
    done,       \* done[r]: how often ns.c was told the result of r
    answer      \* answer[r]: the root of the proof that answered r, or None

peerVars == <<list, state, proofs, names, late, wire, back>>
reqVars == <<pending, rootOf, failed, done, answer>>
vars == <<synced, root, peerVars, reqVars>>

NoNames == [n \in Name |-> <<>>]

\* hsk_pool_refill: a new connection when there is room, an address to try
\* that is not in use, and the socket opens.
Refilled(peers) ==
    {peers} \cup IF Len(peers) < MaxSize
                 THEN {Append(peers, p) : p \in Peer \ Range(peers)} ELSE {}

StateOf(peers) == [p \in Peer |-> IF p \in Range(peers) THEN "CONNECTING"
                                  ELSE "closed"]

Init ==
    /\ synced = FALSE
    /\ root = 0
    /\ list \in Refilled(<<>>)
    /\ state = StateOf(list)
    /\ proofs = [p \in Peer |-> 0]
    /\ names = [p \in Peer |-> NoNames]
    /\ late = [p \in Peer |-> {}]
    /\ wire = [p \in Peer |-> <<>>]
    /\ back = [p \in Peer |-> <<>>]
    /\ pending = {} /\ failed = {}
    /\ rootOf = [r \in Req |-> None]
    /\ done = [r \in Req |-> 0]
    /\ answer = [r \in Req |-> None]

-----------------------------------------------------------------------------
(* Completing requests and closing peers.                                  *)

AtPeer(p) == UNION {Range(names[p][n]) : n \in Name}

\* The callback, or the error return, for every request of rs.
Complete(rs) == done' = [r \in Req |-> IF r \in rs THEN done[r] + 1 ELSE done[r]]

\* The peers ps leave the list with all they hold; the list is open then, and
\* a peer that is new in it has just been dialled.
CloseAll(ps, open) ==
    /\ list' = open
    /\ state' = [p \in Peer |-> IF p \notin Range(open) THEN "closed"
                                ELSE IF p \in Range(list) \ ps THEN state[p]
                                ELSE "CONNECTING"]
    /\ proofs' = [p \in Peer |-> IF p \in ps THEN 0 ELSE proofs[p]]
    /\ names' = [p \in Peer |-> IF p \in ps THEN NoNames ELSE names[p]]
    /\ late' = [p \in Peer |-> IF p \in ps THEN {} ELSE late[p]]
    /\ wire' = [p \in Peer |-> IF p \in ps THEN <<>> ELSE wire[p]]
    /\ back' = [p \in Peer |-> IF p \in ps THEN <<>> ELSE back[p]]

\* Mutation: the requests of a closed peer are dropped without a callback.
DestroyForgetful(ps, open) == CloseAll(ps, open) /\ UNCHANGED done

\* hsk_peer_close of the peers ps: their requests time out.
Destroy(ps, open) ==
    /\ CloseAll(ps, open)
    /\ Complete(UNION {AtPeer(p) : p \in ps})

Without(ps) == SelectSeq(list, LAMBDA p : p \notin ps)
Drop(p) == Destroy({p}, Without({p}))

\* EOF, a read or write error, a malformed message, or one of the timer's
\* other stall tests.
Disconnect(p) ==
    /\ state[p] \in {"READING", "HANDSHAKE"}
    /\ Drop(p)
    /\ UNCHANGED <<synced, root, pending, rootOf, failed, answer>>

\* on_connect, for an open or a refused connection.
OnConnect(p) ==
    /\ state[p] = "CONNECTING"
    /\ \/ /\ state' = [state EXCEPT ![p] = IF p \in Encrypted THEN "READING"
                                           ELSE "HANDSHAKE"]
          /\ UNCHANGED <<list, proofs, names, late, wire, back, done>>
       \/ Drop(p)
    /\ UNCHANGED <<synced, root, pending, rootOf, failed, answer>>

\* after_brontide_connect.
AfterBrontideConnect(p) ==
    /\ state[p] = "READING"
    /\ state' = [state EXCEPT ![p] = "HANDSHAKE"]
    /\ UNCHANGED <<synced, root, list, proofs, names, late, wire, back, reqVars>>

-----------------------------------------------------------------------------
(* Requests.                                                               *)

Active == {p \in Peer : p \in Range(list) /\ state[p] = "HANDSHAKE"}
Outstanding(p) == {n \in Name : names[p][n] # <<>>}

\* The loop of hsk_pool_pick_prover over the first i peers: the best prover,
\* which starts as the head of the list whatever its state, and the one before.
BestTwo[i \in Nat] ==
    IF i = 0 THEN <<Head(list), None>>
    ELSE LET p == list[i]
             b == BestTwo[i - 1]
         IN  IF /\ state[p] = "HANDSHAKE"
                /\ proofs[p] > proofs[b[1]]
                /\ Cardinality(Outstanding(p)) <= Cardinality(Outstanding(b[1]))
             THEN <<p, b[1]>> ELSE b

\* The peers the random draws of hsk_pool_pick_prover can end with.
Provers ==
    IF Active = {} THEN {}
    ELSE (Active \cup Range(BestTwo[Len(list)])) \ {None}

\* hsk_pool_resolve fails before the request is stored.
Refuse(r) ==
    /\ rootOf[r] = None
    /\ ~synced
    /\ rootOf' = [rootOf EXCEPT ![r] = root]
    /\ Complete({r})
    /\ UNCHANGED <<synced, root, peerVars, pending, failed, answer>>

\* No peer: the request goes to the pending list.
Postpone(r) ==
    /\ rootOf[r] = None
    /\ synced /\ Provers = {}
    /\ rootOf' = [rootOf EXCEPT ![r] = root]
    /\ pending' = pending \cup {r}
    /\ UNCHANGED <<synced, root, peerVars, failed, done, answer>>

\* The prover has the name on request already.
Coalesce(r, p) ==
    /\ rootOf[r] = None
    /\ synced /\ p \in Provers
    /\ names[p][NameOf[r]] # <<>>
    /\ rootOf' = [rootOf EXCEPT ![r] = root]
    /\ names' = [names EXCEPT ![p][NameOf[r]] = <<r>> \o @]
    /\ UNCHANGED <<synced, root, list, state, proofs, late, wire, back, pending,
                   failed, done, answer>>

\* getproof goes out, to a peer that has finished its handshake.
Request(r, p) ==
    /\ rootOf[r] = None
    /\ synced /\ p \in Provers
    /\ names[p][NameOf[r]] = <<>>
    /\ rootOf' = [rootOf EXCEPT ![r] = root]
    /\ names' = [names EXCEPT ![p][NameOf[r]] = <<r>>]
    /\ wire' = IF state[p] = "HANDSHAKE"
               THEN [wire EXCEPT ![p] = Append(@, [name |-> NameOf[r],
                                                   root |-> root])]
               ELSE wire
    /\ UNCHANGED <<synced, root, list, state, proofs, late, back, pending, failed,
                   done, answer>>

\* getproof cannot be sent: out of memory, with the request left at the peer,
\* or a failed write, which closes the peer; both return an error as well.
RequestFails(r, p) ==
    /\ rootOf[r] = None
    /\ synced /\ p \in Provers
    /\ state[p] = "HANDSHAKE"
    /\ names[p][NameOf[r]] = <<>>
    /\ rootOf' = [rootOf EXCEPT ![r] = root]
    /\ \/ /\ names' = [names EXCEPT ![p][NameOf[r]] = <<r>>]
          /\ Complete({r})
          /\ UNCHANGED <<list, state, proofs, late, wire, back>>
       \/ /\ CloseAll({p}, Without({p}))
          /\ done' = [s \in Req |-> IF s = r THEN done[s] + 2
                                    ELSE IF s \in AtPeer(p) THEN done[s] + 1
                                    ELSE done[s]]
    /\ failed' = failed \cup {r}
    /\ UNCHANGED <<synced, root, pending, answer>>

\* Mutation: the proof is compared with the oldest request of the list.
RootMatchesOldest(p, m) ==
    LET reqs == names[p][m.name] IN rootOf[reqs[Len(reqs)]] = m.root

\* The proof's root must be that of the newest request.
RootMatches(p, m) == rootOf[Head(names[p][m.name])] = m.root

Accepted(p, m) == names[p][m.name] # <<>> /\ RootMatches(p, m) /\ m.valid

\* hsk_peer_handle_proof; an error closes the peer.
HandleProof(p) ==
    /\ back[p] # <<>>
    /\ LET m == Head(back[p])
       IN  \/ /\ ~Accepted(p, m)
              /\ Drop(p)
              /\ UNCHANGED answer
           \/ /\ Accepted(p, m)
              /\ names' = [names EXCEPT ![p][m.name] = <<>>]
              /\ late' = [late EXCEPT ![p] = @ \ {m.name}]
              /\ proofs' = [proofs EXCEPT ![p] = @ + 1]
              /\ back' = [back EXCEPT ![p] = Tail(@)]
              /\ Complete(Range(names[p][m.name]))
              /\ answer' = [r \in Req |-> IF r \in Range(names[p][m.name])
                                          THEN m.root ELSE answer[r]]
              /\ UNCHANGED <<list, state, wire>>
    /\ UNCHANGED <<synced, root, pending, rootOf, failed>>

\* Mutation: hsk_peer_is_overdue skips the first name of the map.
OverdueButOne == {p \in Active : Cardinality(late[p]) > 1}

\* hsk_peer_is_overdue, for the peers hsk_pool_timer looks at.
Overdue == {p \in Active : late[p] # {}}

\* hsk_pool_timer: close the peers with an overdue request, then refill.
Timer ==
    /\ \E open \in Refilled(Without(Overdue)) : Destroy(Overdue, open)
    /\ UNCHANGED <<synced, root, pending, rootOf, failed, answer>>

-----------------------------------------------------------------------------
(* The environment: the clock, the chain and the remote peers.             *)

\* Five seconds go by.
TimePasses ==
    /\ late' = [p \in Peer |-> Outstanding(p)]
    /\ UNCHANGED <<synced, root, list, state, proofs, names, wire, back, reqVars>>

\* The chain reports it is synced; a later block commits to a new root.
ChainSynced ==
    /\ ~synced /\ synced' = TRUE
    /\ UNCHANGED <<root, peerVars, reqVars>>
NewRoot ==
    /\ root < MaxRoot /\ root' = root + 1
    /\ UNCHANGED <<synced, peerVars, reqVars>>

\* An honest peer answers with a valid proof under the root it was asked for;
\* another one with any proof message at all, or not.
PeerProves(p) ==
    /\ state[p] = "HANDSHAKE" /\ back[p] = <<>>
    /\ \/ /\ wire[p] # <<>>
          /\ wire' = [wire EXCEPT ![p] = Tail(@)]
          /\ back' = [back EXCEPT ![p] = <<[name |-> Head(wire[p]).name,
                                            root |-> Head(wire[p]).root,
                                            valid |-> TRUE]>>]
       \/ /\ p \notin Honest
          /\ \E m \in [name : Name, root : 0..root, valid : BOOLEAN] :
                back' = [back EXCEPT ![p] = <<m>>]
          /\ UNCHANGED wire
    /\ UNCHANGED <<synced, root, list, state, proofs, names, late, reqVars>>

Next ==
    \/ \E p \in Peer : \/ Disconnect(p) \/ OnConnect(p) \/ AfterBrontideConnect(p)
                       \/ HandleProof(p) \/ PeerProves(p)
    \/ \E r \in Req : Refuse(r) \/ Postpone(r)
    \/ \E r \in Req, p \in Peer : Coalesce(r, p) \/ Request(r, p) \/ RequestFails(r, p)
    \/ Timer
    \/ TimePasses \/ ChainSynced \/ NewRoot

\* The loop serves sockets and the timer, the clock runs, and the operating
\* system ends every connection attempt.
Fairness ==
    /\ WF_vars(TimePasses) /\ WF_vars(Timer)
    /\ \A p \in Peer : WF_vars(OnConnect(p)) /\ WF_vars(HandleProof(p))

Spec == Init /\ [][Next]_vars /\ Fairness

-----------------------------------------------------------------------------
(* Properties.                                                             *)

GetProof == [name : Name, root : Nat]
Proof == [name : Name, root : Nat, valid : BOOLEAN]

\* The requests, what is asked for them and what comes back.
TypeOK ==
    /\ root \in Nat
    /\ names \in [Peer -> [Name -> Seq(Req)]]
    /\ wire \in [Peer -> Seq(GetProof)]
    /\ back \in [Peer -> Seq(Proof)]
    /\ pending \subseteq Req /\ failed \subseteq Req
    /\ rootOf \in [Req -> Nat \cup {None}]
    /\ done \in [Req -> Nat]
    /\ answer \in [Req -> Nat \cup {None}]

\* The lists that hold request r, each of which will call ns.c back.
Holders(r) == {h \in Peer \X Name : r \in Range(names[h[1]][h[2]])}

\* ns.c frees its request in the callback or on an error return: a request
\* is held by exactly one list of the pool, once, until it completes, and
\* completes at most once, whatever peers come and go.  A request whose getproof
\* could not be sent is excepted: the error return completes it a second time.
CompletedOnce ==
    /\ \A p \in Peer, n \in Name : IsInjective(names[p][n])
    /\ \A r \in Req \ failed : rootOf[r] # None =>
          done[r] + Cardinality(Holders(r)) + Cardinality({r} \cap pending) = 1

\* A resolver must not answer from an older state than the one it was asked
\* in: the proof that completes a request, coalesced or not, is valid under
\* a root at least as new as the request's.
NeverStale ==
    \A r \in Req : answer[r] # None => rootOf[r] # None /\ answer[r] >= rootOf[r]

\* A request stored at an unencrypted peer, sent or not, completes: by a proof,
\* a disconnect, or the timer's overdue test.
StoredCompleted ==
    \A r \in Req, p \in Peer \ Encrypted : r \in AtPeer(p) ~> done[r] > 0

\* The comment of hsk_pool_resolve calls the list of requests that found no
\* peer "pending": with a peer there from some time on, every request that
\* reaches the pool completes.
RequestsCompleted ==
    <>[](Active # {}) => \A r \in Req : rootOf[r] # None ~> done[r] > 0

=============================================================================
