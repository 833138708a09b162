------------------------------ MODULE PeerTimer ------------------------------
(***************************************************************************)
(* hsk_pool_timer of src/src/pool.c and the handlers that move the times   *)
(* it looks at, for one peer: which silences it ends a connection for, and *)
(* when it pings and asks for headers again.  A time stamp is modelled by  *)
(* its age in periods of the timer; Unset stands for the value zero, which *)
(* is older than everything.                                               *)
(***************************************************************************)
EXTENDS Naturals

CONSTANTS
    Grace,         \* 60 seconds after which a peer must have talked
    Stall,         \* 20 minutes without a message, or with an open ping
    PingEvery,     \* 30 seconds
    HeadersLimit,  \* 30 seconds, while the chain is not synced
    VerackLimit,   \* 10 seconds
    ProofLimit,    \* 5 seconds
    BlockLimit,    \* 10 minutes without a header
    ResendLimit    \* 5 minutes

Oldest == Stall + 2
Unset == Oldest + 1

\* conn_time, last_send, last_recv, last_ping, ping_timer, getheaders_time and
\* version_time of the peer, the time of its oldest name request, and block_time
\* and getheaders_time of the pool.
OfPeer == {"conn", "send", "recv", "ping", "pingTimer", "headers", "version",
           "request"}
Stamp == OfPeer \cup {"block", "poolHeaders"}

\* What the peer has been asked for and not sent, for the properties: the age
\* of the question.
Debt == {"verack", "pong", "getheaders", "proof"}

ASSUME TimerAssumption ==
    /\ {Grace, PingEvery, HeadersLimit, VerackLimit, ProofLimit,
        BlockLimit, ResendLimit} \subseteq 0..Stall
    /\ Stall \in Nat /\ HeadersLimit < ResendLimit

VARIABLES
    up,         \* the peer's state is HSK_STATE_HANDSHAKE
    age,        \* age[s]: the age of stamp or debt s
    challenge,  \* peer->challenge is not zero
    inSync,     \* hsk_chain_synced
    due         \* a period has passed and the timer has not run

tmvars == <<up, age, challenge, inSync, due>>

\* The ages after some stamps are set to the present and some to zero.
Stamped(now, zero) ==
    [s \in DOMAIN age |-> IF s \in now THEN 0 ELSE IF s \in zero THEN Unset
                         ELSE age[s]]
Owes == {s \in Debt : age[s] # Unset}

TmInit ==
    /\ up = FALSE /\ challenge = FALSE /\ inSync = FALSE /\ due = FALSE
    /\ age = [s \in Stamp \cup Debt |-> Unset]

\* on_connect and after_brontide_connect: version goes out; an encrypted peer
\* took part of the grace for its handshake.
Connect(handshake) ==
    /\ ~up /\ up' = TRUE
    /\ age' = [Stamped({"send", "version", "verack"}, OfPeer) EXCEPT
                  !["conn"] = handshake]
    /\ UNCHANGED <<challenge, inSync, due>>

-----------------------------------------------------------------------------
(* Messages from the peer.                                                 *)

\* hsk_peer_send_getheaders.
Asked == {"send", "headers", "getheaders"}

\* hsk_peer_on_read, and no answer.
AnyMessage ==
    /\ up /\ age' = Stamped({"recv"}, {})
    /\ UNCHANGED <<up, challenge, inSync, due>>

\* hsk_peer_handle_version asks for headers, hsk_peer_handle_ping answers.
HandleVersionMsg ==
    /\ up /\ age' = Stamped({"recv"} \cup Asked, {})
    /\ UNCHANGED <<up, challenge, inSync, due>>
HandlePing ==
    /\ up /\ age' = Stamped({"recv", "send"}, {})
    /\ UNCHANGED <<up, challenge, inSync, due>>

\* Mutation: verack does not end the wait.
HandleVerackKept ==
    /\ up /\ age' = Stamped({"recv"}, {"verack"})
    /\ UNCHANGED <<up, challenge, inSync, due>>

HandleVerack ==
    /\ up /\ age' = Stamped({"recv"}, {"version", "verack"})
    /\ UNCHANGED <<up, challenge, inSync, due>>

\* hsk_peer_handle_pong: the nonce of the open ping, or zero, closes it.
HandlePong(nonce) ==
    /\ up /\ age' = Stamped({"recv"}, IF nonce = "wrong" THEN {} ELSE {"pong"})
    /\ challenge' = (challenge /\ nonce = "wrong")
    /\ UNCHANGED <<up, inSync, due>>

\* hsk_peer_handle_headers: only a batch whose headers all are new answers; a
\* full one and one with orphans make the pool ask again.
HandleHeaders(batch) ==
    /\ up
    /\ age' = CASE batch = "new"    -> Stamped({"recv", "block"}, {"headers", "getheaders"})
                [] batch = "full"   -> Stamped({"recv", "block"} \cup Asked, {})
                [] batch = "orphan" -> Stamped({"recv"} \cup Asked, {})
                [] OTHER            -> Stamped({"recv"}, {})
    /\ inSync' \in {inSync, inSync \/ batch \in {"new", "full"}}
    /\ UNCHANGED <<up, challenge, due>>

\* hsk_pool_resolve asks the peer for a name, hsk_peer_handle_proof is told.
AskProof ==
    /\ up /\ inSync
    /\ age' = Stamped(IF age["request"] = Unset THEN {"send", "request", "proof"}
                      ELSE {}, {})
    /\ UNCHANGED <<up, challenge, inSync, due>>
HandleProofMsg ==
    /\ up /\ "proof" \in Owes
    /\ age' = Stamped({"recv"}, {"request", "proof"})
    /\ UNCHANGED <<up, challenge, inSync, due>>

-----------------------------------------------------------------------------
(* The timer.                                                              *)

Tick ==
    /\ ~due /\ due' = TRUE
    /\ age' = [s \in DOMAIN age |-> IF age[s] >= Oldest THEN age[s] ELSE age[s] + 1]
    /\ UNCHANGED <<up, challenge, inSync>>

\* The tests before the ping, and those after it.
Silent ==
    /\ age["conn"] > Grace
    /\ \/ age["send"] > Stall \/ age["recv"] > Stall
       \/ challenge /\ age["ping"] > Stall
Stalling ==
    \/ ~inSync /\ age["headers"] # Unset /\ age["headers"] > HeadersLimit
    \/ age["version"] # Unset /\ age["version"] > VerackLimit
    \/ age["request"] # Unset /\ age["request"] > ProofLimit

\* Mutation: every ping starts the wait for its pong again.
PingStampsAgain == IF age["pingTimer"] > PingEvery THEN {"pingTimer", "ping", "send"} ELSE {}

\* A ping is sent when none is open; the timer of the pings starts anyway.
PingStamps ==
    IF age["pingTimer"] <= PingEvery THEN {}
    ELSE IF challenge THEN {"pingTimer"} ELSE {"pingTimer", "ping", "send"}

\* Mutation: headers are asked for again only if they were before.
ResendOnce ==
    /\ age["block"] # Unset /\ age["block"] > BlockLimit
    /\ age["poolHeaders"] # Unset /\ age["poolHeaders"] > ResendLimit

\* No header for ten minutes: getheaders to all peers.
Resend ==
    /\ age["block"] # Unset /\ age["block"] > BlockLimit
    /\ age["poolHeaders"] > ResendLimit

\* hsk_pool_timer.  A peer that is destroyed is not asked for headers.
TimerRuns ==
    LET keep == up /\ ~Silent /\ ~Stalling
        ping == IF keep THEN PingStamps ELSE {}
        ask  == (IF Resend THEN {"poolHeaders"} ELSE {})
                \cup (IF Resend /\ keep THEN Asked ELSE {})
        pong == IF "ping" \in ping /\ ~challenge THEN {"pong"} ELSE {}
    IN  /\ due /\ due' = FALSE
        /\ up' = keep
        /\ age' = Stamped(ping \cup ask \cup pong, IF keep THEN {} ELSE OfPeer \cup Debt)
        /\ challenge' = (keep /\ (challenge \/ "ping" \in ping))
        /\ UNCHANGED inSync

TmNext ==
    \/ \E h \in {0, Grace + 1} : Connect(h)
    \/ AnyMessage \/ HandleVersionMsg \/ HandlePing \/ HandleVerack
    \/ \E n \in {"right", "wrong", "zero"} : HandlePong(n)
    \/ \E b \in {"new", "full", "orphan", "empty", "duplicate"} : HandleHeaders(b)
    \/ AskProof \/ HandleProofMsg
    \/ Tick \/ TimerRuns

TmSpec == TmInit /\ [][TmNext]_tmvars

-----------------------------------------------------------------------------
(* Properties.                                                             *)

\* The times are in range, and the challenge is set exactly while the peer owes
\* the pong to it.
TmTypeOK ==
    /\ up \in BOOLEAN /\ challenge \in BOOLEAN /\ inSync \in BOOLEAN
    /\ age \in [Stamp \cup Debt -> 0..Unset]
    /\ challenge <=> "pong" \in Owes

\* Whatever else a peer sends, it is not kept for longer than the limits of
\* hsk_pool_timer while it owes a verack, a proof, the pong to a ping, or,
\* before the chain is synced, an answer to the last getheaders.
NoStallForgiven ==
    up => /\ "verack" \in Owes => age["verack"] <= VerackLimit + 1
          /\ "proof" \in Owes => age["proof"] <= ProofLimit + 1
          /\ "pong" \in Owes => age["pong"] <= Stall + 1
          /\ "getheaders" \in Owes /\ ~inSync => age["getheaders"] <= HeadersLimit + 1

\* A peer that has just sent something is dropped only for what it owes: a late
\* answer that came before the timer saves it.  (But for the test of last_send:
\* no ping goes out while one is open, so the pool itself may have been silent.)
PromptKept ==
    [][(up /\ ~up' /\ age["recv"] = 0 /\ age["send"] <= Stall) => Owes # {}]_tmvars

\* Once a header was accepted, the pool does not stay without one for longer
\* than ten minutes and five without asking.
AsksAgain ==
    age["block"] \in (BlockLimit + 2)..Oldest =>
        age["poolHeaders"] <= ResendLimit + 1
=============================================================================
