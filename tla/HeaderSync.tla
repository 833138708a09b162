----------------------------- MODULE HeaderSync -----------------------------
(***************************************************************************)
(* The header chain fed by the peers of src/src/pool.c: getheaders, the    *)
(* batches peers send back, and what the pool makes of each result of      *)
(* hsk_chain_add.  The peers are external: each follows a chain of its own *)
(* that grows, answers getheaders from it and announces what is new on it. *)
(***************************************************************************)
EXTENDS Chain, Sequences, FiniteSetsExt

CONSTANTS
    Peer,          \* peers the pool connects to
    Following,     \* what the peers may follow: a header for each, where its
                   \* chain ends
    MaxHeaders,    \* headers in a full message (2000)
    MaxInbox       \* bound: messages of a peer waiting to be read

\* Every header goes back to the genesis header: no hash chain closes on itself.
ASSUME TreeAssumption ==
    \E depth \in [Block -> 0..Cardinality(Block)] :
        \A b \in Block \ {Genesis} :
            Prev(b) \in Block /\ depth[b] = depth[Prev(b)] + 1

ASSUME PeerAssumption ==
    /\ Following \subseteq [Peer -> Block]
    /\ None \notin Peer
    /\ MaxHeaders \in Nat \ {0}

Loc == INSTANCE Locator WITH MaxHashes <- 64, HashesSize <- 2048, tip <- height

VARIABLES
    state,       \* state[p]: "closed", or "HANDSHAKE" once connected
    banned,      \* the addresses hsk_addrman_add_ban has recorded
    asked,       \* asked[p]: locators of the getheaders on their way to p
    best,        \* best[p]: where the chain that p follows ends
    reach,       \* reach[p]: how many headers of its chain peer p has so far
    inbox,       \* inbox[p]: headers messages on their way from p
    sender,      \* the peer whose message is being handled, or None
    batch,       \* the headers of that message still to add
    adding,      \* the head of the batch is with hsk_chain_add
    orphan,      \* the flag of hsk_peer_handle_headers
    full,        \* the message had MaxHeaders headers
    blockTime    \* pool->block_time is set

remote == <<best, reach>>
net == <<state, banned, asked, inbox, remote>>
handler == <<sender, batch, adding, orphan, full>>
chainVars == <<index, waiting, cursor, rc, now>>
syncVars == <<chainVars, net, handler, blockTime>>

\* The headers from genesis to b.
PathTo[b \in Block] ==
    IF Prev(b) \in Block THEN Append(PathTo[Prev(b)], b) ELSE <<b>>

LocatorNow == {heights[h] : h \in Range(Loc!GetLocator(height))}

\* A peer's answer: what follows the first hash of the locator it knows.
Answer(locator, p) ==
    LET path   == PathTo[best[p]]
        common == Max({i \in 1..reach[p] : path[i] \in locator})
    IN  SubSeq(path, common + 1, Min({reach[p], common + MaxHeaders}))

SyncInit ==
    /\ Init
    /\ state = [p \in Peer |-> "closed"]
    /\ banned = {}
    /\ asked = [p \in Peer |-> <<>>]
    /\ inbox = [p \in Peer |-> <<>>]
    /\ best \in Following
    /\ reach \in {r \in [Peer -> 1..Cardinality(Block)] :
                    \A p \in Peer : r[p] <= Len(PathTo[best[p]])}
    /\ sender = None
    /\ batch = <<>>
    /\ adding = FALSE
    /\ orphan = FALSE
    /\ full = FALSE
    /\ blockTime = FALSE

----------------------------------------------------------------------------
\* The environment: what a peer does with the connection.
PeerAnswer(p) ==
    /\ asked[p] # <<>>
    /\ Len(inbox[p]) < MaxInbox
    /\ asked' = [asked EXCEPT ![p] = Tail(@)]
    /\ inbox' = [inbox EXCEPT ![p] = Append(@, Answer(Head(asked[p]), p))]
    /\ UNCHANGED <<chainVars, state, banned, remote, handler, blockTime>>

\* The peer's chain gets its next header, which a connected peer announces, as
\* sendheaders has asked it to.
PeerAnnounce(p) ==
    /\ reach[p] < Len(PathTo[best[p]])
    /\ reach' = [reach EXCEPT ![p] = @ + 1]
    /\ \/ /\ state[p] = "closed"
          /\ UNCHANGED inbox
       \/ /\ state[p] = "HANDSHAKE"
          /\ Len(inbox[p]) < MaxInbox
          /\ inbox' = [inbox EXCEPT ![p] =
                          Append(@, <<PathTo[best[p]][reach[p] + 1]>>)]
    /\ UNCHANGED <<chainVars, state, banned, asked, best, handler, blockTime>>

----------------------------------------------------------------------------
SendGetHeaders(ps) ==
    asked' = [p \in Peer |-> IF p \in ps THEN Append(asked[p], LocatorNow)
                             ELSE asked[p]]

\* hsk_pool_refill connects; hsk_peer_handle_version starts the sync.  A banned
\* address is passed over in the first 95 of the 100 draws of hsk_addrman_pick
\* and for a day, so it can be dialled too.
Handshake(p) ==
    /\ sender = None
    /\ state[p] = "closed"
    /\ state' = [state EXCEPT ![p] = "HANDSHAKE"]
    /\ SendGetHeaders({p})
    /\ UNCHANGED <<chainVars, banned, remote, inbox, handler, blockTime>>

\* hsk_peer_destroy: what was on its way is lost.
Destroy(p) ==
    /\ state' = [state EXCEPT ![p] = "closed"]
    /\ asked' = [asked EXCEPT ![p] = <<>>]
    /\ inbox' = [inbox EXCEPT ![p] = <<>>]
    /\ UNCHANGED remote

Idle == sender' = None /\ batch' = <<>> /\ adding' = FALSE
        /\ orphan' = FALSE /\ full' = FALSE

\* The first loop of hsk_peer_handle_headers: a chain, all of it with work.
ValidBatch(msg) ==
    \A i \in DOMAIN msg : /\ Header[msg[i]].pow = "SUCCESS"
                          /\ i > 1 => Prev(msg[i]) = msg[i - 1]

\* hsk_peer_handle_headers up to its second loop.
Receive(p) ==
    /\ sender = None
    /\ inbox[p] # <<>>
    /\ LET msg == Head(inbox[p])
       IN  \/ /\ ~ValidBatch(msg)
              /\ Destroy(p)
              /\ UNCHANGED <<banned, handler>>
           \/ /\ ValidBatch(msg)
              /\ inbox' = [inbox EXCEPT ![p] = Tail(@)]
              /\ IF msg = <<>> THEN UNCHANGED handler
                 ELSE /\ sender' = p
                      /\ batch' = msg
                      /\ adding' = FALSE
                      /\ orphan' = FALSE
                      /\ full' = (Len(msg) = MaxHeaders)
              /\ UNCHANGED <<state, asked, remote, banned>>
    /\ UNCHANGED <<chainVars, blockTime>>

\* The call of hsk_chain_add for the next header, and its orphan loop.
AddHeader ==
    /\ sender # None
    /\ \/ /\ ~adding
          /\ Add(Head(batch))
          /\ adding' = TRUE
       \/ /\ ResolveOrphan \/ EndResolve
          /\ UNCHANGED adding
    /\ UNCHANGED <<net, sender, batch, orphan, full, blockTime>>

\* After the last header: ask again from here, or note the time.
EndBatch(sawOrphan) ==
    /\ Idle
    /\ UNCHANGED <<state, banned, remote, inbox>>
    /\ \/ /\ sawOrphan
          /\ SendGetHeaders({sender})
          /\ UNCHANGED blockTime
       \/ /\ ~sawOrphan
          /\ blockTime' = TRUE
          /\ SendGetHeaders(IF full THEN {sender} ELSE {})

\* The header is done with; sawOrphan is the flag from here on.
Continue(sawOrphan) ==
    \/ /\ Len(batch) = 1
       /\ EndBatch(sawOrphan)
    \/ /\ Len(batch) > 1
       /\ batch' = Tail(batch)
       /\ adding' = FALSE
       /\ orphan' = sawOrphan
       /\ UNCHANGED <<net, sender, full, blockTime>>

\* Mutation: a sender of orphans is banned.
BanCodesOrphan == {"ETIMETOOOLD", "EBADDIFFBITS", "EORPHAN"}

\* The results that get the sender banned.
BanCodes == {"ETIMETOOOLD", "EBADDIFFBITS"}

\* What hsk_peer_handle_headers does with the result.
Judge ==
    /\ adding
    /\ cursor = None
    /\ \/ /\ rc \in BanCodes
          /\ banned' = banned \cup {sender}
          /\ Destroy(sender)
          /\ Idle
          /\ UNCHANGED blockTime
       \/ /\ rc = "ETIMETOONEW"
          /\ Destroy(sender)
          /\ Idle
          /\ UNCHANGED <<banned, blockTime>>
       \/ /\ rc = "EDUPLICATE"
          /\ Idle
          /\ UNCHANGED <<net, blockTime>>
       \/ /\ rc \in {"EORPHAN", "EDUPLICATEORPHAN"}
          /\ Continue(TRUE)
       \/ /\ rc = "SUCCESS"
          /\ Continue(orphan)
    /\ UNCHANGED chainVars

\* Peers with nothing under way.  A getheaders to another one is taken for a
\* repetition of the question it has still to answer.
Quiet == {p \in Peer : /\ state[p] = "HANDSHAKE"
                       /\ asked[p] = <<>> /\ inbox[p] = <<>>}

\* Mutation: getheaders is repeated only before the chain is synced.
TimerUnsynced ==
    /\ sender = None
    /\ blockTime /\ ~synced
    /\ Quiet # {}
    /\ SendGetHeaders(Quiet)
    /\ UNCHANGED <<chainVars, state, banned, remote, inbox, handler, blockTime>>

\* hsk_pool_timer, ten minutes after the last batch and at most every five:
\* getheaders to every peer.
Timer ==
    /\ sender = None
    /\ blockTime
    /\ Quiet # {}
    /\ SendGetHeaders(Quiet)
    /\ UNCHANGED <<chainVars, state, banned, remote, inbox, handler, blockTime>>

SyncNext ==
    \/ \E p \in Peer : PeerAnswer(p) \/ PeerAnnounce(p) \/ Handshake(p) \/ Receive(p)
    \/ AddHeader
    \/ Judge
    \/ Timer

\* The event loop serves every socket and the timer; connected peers answer.
SyncSpec ==
    /\ SyncInit /\ [][SyncNext]_syncVars
    /\ WF_syncVars(AddHeader) /\ WF_syncVars(Judge)
    /\ SF_syncVars(Timer)
    /\ \A p \in Peer : /\ WF_syncVars(PeerAnswer(p))
                       /\ SF_syncVars(Handshake(p))
                       /\ SF_syncVars(Receive(p))

----------------------------------------------------------------------------
\* The work of the whole chain up to b.
WorkOf[b \in Block] ==
    Proof[b] + (IF Prev(b) \in Block THEN WorkOf[Prev(b)] ELSE 0)

\* A header that passes every rule.
ValidHeader(b) == /\ Header[b].pow = "SUCCESS"
                  /\ Header[b].time <= StartTime + FutureDrift
                  /\ InsertCheck(b) = "SUCCESS"

\* A peer is honest as long as all the headers of its chain are valid.
Honest == {p \in Peer : \A i \in 2..reach[p] : ValidHeader(PathTo[best[p]][i])}

\* The node has the work of the chain that p has.
CaughtUp(p) == work[tip] >= WorkOf[PathTo[best[p]][reach[p]]]

\* What p has to answer starts with a header that the node holds already: on a
\* side branch, which hsk_peer_handle_headers takes for a duplicate message, or
\* as an orphan that has lost its place in prevs to a sibling.
AnswerHeld(p) ==
    LET answer == Answer(LocatorNow, p)
    IN  answer # <<>> /\ Head(answer) \in hashes \cup orphans

\* With peers that answer, once a first batch has gone through and the timer
\* repeats getheaders, the node ends up with the work of every valid chain its
\* peers have, whatever orphans, duplicates, ties and reorganizations come in
\* between.  Two cases alone keep it from a chain, the ones of AnswerHeld.
\* Peers with invalid headers do not, although they reconnect after every drop
\* and every ban and can get an honest peer banned: the valid parent it sends
\* may resolve their orphan.
SyncsHeaders ==
    <>blockTime => <>[](\A p \in Honest : CaughtUp(p) \/ AnswerHeld(p))

\* "An SPV node which syncs headers": the node ends up with the work of the best
\* valid chain of its peers.
ReachesBestChain == <>blockTime => <>[](\A p \in Honest : CaughtUp(p))

\* As long as all peers are honest, hsk_peer_handle_headers neither bans nor
\* disconnects any of them, in whatever order their headers come and however
\* they overlap.
HonestPeersKept ==
    [][Honest = Peer =>
          \A p \in Peer : /\ p \notin banned'
                          /\ state[p] # "closed" => state'[p] = state[p]]_syncVars

============================================================================
