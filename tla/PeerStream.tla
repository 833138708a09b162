----------------------------- MODULE PeerStream -----------------------------
(***************************************************************************)
(* hsk_peer_on_read and hsk_peer_parse of src/src/pool.c: messages cut out *)
(* of what a peer sends, in chunks of any size (from the socket, or as the *)
(* payloads of Brontide).  A token is a piece of a message: two for the    *)
(* header of nine bytes, and one per unit of the body.                     *)
(***************************************************************************)
EXTENDS Naturals, Sequences, Functions

CONSTANTS
    Message,    \* messages the peer can send
    MaxSent,    \* bound: the number of messages it sends
    MaxBody     \* HSK_MAX_MESSAGE

\* What becomes of a message: "ok" is handled; "unknown" has a command that is
\* skipped; "magic" has a wrong header; "encoding" does not decode; "error"
\* makes its handler fail; "kill" makes its handler destroy the peer and go on
\* (hsk_peer_handle_version does not look at the result of its first send).
Kind == {"ok", "unknown", "magic", "encoding", "error", "kill"}

ASSUME StreamAssumption ==
    Message \subseteq [kind : Kind, size : Nat] /\ MaxBody \in Nat

VARIABLES
    script,    \* the messages the peer has sent
    coming,    \* tokens that have not been read
    alive,     \* peer->state = HSK_STATE_HANDSHAKE
    cmd,       \* the message whose header was read (peer->msg_cmd), or 0 when
               \* a header is next (peer->msg_hdr is not set)
    msg,       \* the first msg_pos bytes of peer->msg
    msgLen,    \* peer->msg_len
    chunk,     \* what on_read has still to look at
    reading,   \* on_read is running
    handled    \* messages given to hsk_peer_handle_msg, 0 for a garbled one

psvars == <<script, coming, alive, cmd, msg, msgLen, chunk, reading, handled>>

HdrSize == 2
Piece(i, k) == [of |-> i, part |-> k]
Tokens(i, size) == [k \in 1..(HdrSize + size) |-> Piece(i, k)]

PsInit ==
    /\ script = <<>> /\ coming = <<>>
    /\ alive = TRUE /\ cmd = 0 /\ msg = <<>> /\ msgLen = HdrSize
    /\ chunk = <<>> /\ reading = FALSE /\ handled = <<>>

\* The peer sends its next message, also while on_read runs.
PsSend(m) ==
    /\ Len(script) < MaxSent
    /\ script' = Append(script, m)
    /\ coming' = coming \o Tokens(Len(script) + 1, m.size)
    /\ UNCHANGED <<alive, cmd, msg, msgLen, chunk, reading, handled>>

\* after_read: a peer that is being destroyed reads nothing.
PsRead(n) ==
    /\ alive /\ ~reading /\ n <= Len(coming)
    /\ chunk' = SubSeq(coming, 1, n)
    /\ coming' = SubSeq(coming, n + 1, Len(coming))
    /\ reading' = TRUE
    /\ UNCHANGED <<script, alive, cmd, msg, msgLen, handled>>

\* The condition of the loop, which a message without a body meets at once.
PartRead == Len(msg) + Len(chunk) >= msgLen

Part == msg \o SubSeq(chunk, 1, msgLen - Len(msg))
Rest == SubSeq(chunk, msgLen - Len(msg) + 1, Len(chunk))

\* The next part belongs to this message and has this length.
Expect(m, len) ==
    /\ cmd' = m /\ msgLen' = len /\ msg' = <<>> /\ chunk' = Rest
    /\ UNCHANGED <<script, coming, reading>>

\* Mutation: the loop goes on after a failure.
FailGoesOn ==
    /\ alive' = FALSE
    /\ cmd' = 0 /\ msgLen' = HdrSize /\ msg' = <<>> /\ chunk' = Rest
    /\ UNCHANGED <<script, coming, reading>>

\* A failure destroys the peer and leaves the loop.
Fail ==
    /\ alive' = FALSE /\ reading' = FALSE /\ chunk' = <<>>
    /\ UNCHANGED <<script, coming, cmd, msg, msgLen>>

\* hsk_peer_parse_hdr.
ParseHdr ==
    LET i == Part[1].of
    IN  /\ reading /\ PartRead /\ cmd = 0
        /\ IF /\ Part = <<Piece(i, 1), Piece(i, 2)>>
              /\ script[i].kind # "magic" /\ script[i].size <= MaxBody
           THEN Expect(i, script[i].size) /\ UNCHANGED alive
           ELSE Fail
        /\ UNCHANGED handled

Body == [k \in 1..script[cmd].size |-> Piece(cmd, HdrSize + k)]

\* hsk_peer_parse of a body, and hsk_peer_handle_msg.
ParseBody ==
    LET kind == script[cmd].kind
    IN  /\ reading /\ PartRead /\ cmd # 0
        /\ handled' = IF kind \in {"unknown", "encoding"} THEN handled
                      ELSE Append(handled, IF Part = Body THEN cmd ELSE 0)
        /\ IF kind \in {"encoding", "error"} THEN Fail
           ELSE Expect(0, HdrSize) /\ alive' = (alive /\ kind # "kill")

\* The end of hsk_peer_on_read keeps an incomplete part.
PsKeep ==
    /\ reading /\ ~PartRead
    /\ msg' = msg \o chunk /\ chunk' = <<>> /\ reading' = FALSE
    /\ UNCHANGED <<script, coming, alive, cmd, msgLen, handled>>

PsNext ==
    \/ \E m \in Message : PsSend(m)
    \/ \E n \in 1..Len(coming) : PsRead(n)
    \/ ParseHdr \/ ParseBody \/ PsKeep

PsSpec == PsInit /\ [][PsNext]_psvars

-----------------------------------------------------------------------------
(* Properties.                                                             *)

\* The buffer has room for what is copied into it: hsk_peer_on_read asserts
\* msg_pos <= msg_len on every round.
PsTypeOK ==
    /\ alive \in BOOLEAN /\ reading \in BOOLEAN
    /\ cmd \in 0..Len(script)
    /\ Len(msg) <= msgLen

\* The messages sent so far up to and including the first after which the peer
\* is destroyed; those of unknown commands are skipped.
Ends(m) == m.kind \notin {"ok", "unknown"} \/ m.size > MaxBody
Due(i) ==
    /\ script[i].kind \in {"ok", "error", "kill"} /\ script[i].size <= MaxBody
    /\ \A j \in 1..(i - 1) : ~Ends(script[j]) \/ script[j].kind = "kill"

\* Between reads no message that is complete waits for more input, a message
\* without a body included, as long as the peer lives.
HandledAtOnce ==
    alive /\ ~reading =>
        \A i \in DOMAIN script :
            Due(i) /\ (\A k \in DOMAIN coming : coming[k].of > i) =>
                i \in Range(handled)

\* Whatever the chunks, messages are handled in order, each once and with its
\* own body, only those that are due, and at once.
HandledInOrder ==
    /\ PsTypeOK /\ HandledAtOnce
    /\ \A a, b \in DOMAIN handled : a < b => handled[a] < handled[b]
    /\ \E m \in 0..Len(script) : Range(handled) = {i \in 1..m : Due(i)}
=============================================================================
