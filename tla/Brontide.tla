------------------------------ MODULE Brontide ------------------------------
(***************************************************************************)
(* src/src/brontide.c and the socket callbacks of pool.c around it: the    *)
(* three-act handshake between the side that dials and the side that is    *)
(* dialled, and then sealed messages both ways, read in chunks of any size.*)
(* Cryptography is symbolic.  A token is a piece of a sealed frame: one    *)
(* for the length and one for its tag, one per unit of payload and one for *)
(* its tag; an act is two tokens.                                          *)
(***************************************************************************)
EXTENDS Naturals, Sequences, Functions

CONSTANTS
    Todo,       \* Todo[s]: sizes of the messages side s wants to send
    TheirKey,   \* the static key that the dialled address is listed with
    Keys,       \* static keys the side that is dialled may have
    MaxMessage, \* BRONTIDE_MAX_MESSAGE
    Rotation    \* BRONTIDE_ROTATION_INTERVAL (1000)

Side == {"initiator", "responder"}
Other(s) == CHOOSE o \in Side : o # s

ASSUME BrontideAssumption ==
    /\ \A s \in Side : Todo[s] \in Seq(Nat)
    /\ TheirKey \in Keys
    /\ {MaxMessage, Rotation} \subseteq Nat \ {0}

VARIABLES
    ownKey,   \* the static key of the side that is dialled
    state,    \* state[s]: b->state, "ONE", "TWO", "THREE", "DONE" or "NONE",
              \* and "IDLE" before the connection
    ck,       \* ck[s]: b->chaining_key, the secrets mixed into it
    send,     \* send[s], recv[s]: the ciphers, [key, epoch, nonce]
    recv,
    hasSize,  \* b->has_size
    buf,      \* buf[s]: the first msg_pos bytes of b->msg
    need,     \* need[s]: b->msg_len
    input,    \* input[s]: what on_read has still to look at
    wire,     \* wire[s]: tokens on their way to side s
    sent,     \* sent[s]: how many of Todo[s] hsk_brontide_write has written
    got,      \* got[s]: indices of the messages given to side s
    seals     \* seals[s]: every key and nonce side s has sealed a message with

ciphers == <<ownKey, ck, send, recv>>
reader == <<hasSize, buf, need, input>>
bvars == <<ownKey, state, ciphers, reader, wire, sent, got, seals>>

HeaderSize == 2
ActSize == 2

\* hsk_cs_init_key: the cipher of the secrets mixed so far, or of none.
Cipher(secrets) == [key |-> secrets, epoch |-> 0, nonce |-> 0]
NoCipher == Cipher(<<>>)

\* A frame under one seal, and what it carries (0 when nothing); token k of n.
Frame(seal, what, n) ==
    [k \in 1..n |-> [seal |-> seal, what |-> what, part |-> k, of |-> n]]

\* hsk_cs_verify: the tag is right for the frame read and the seal expected.
Opens(tokens, seal) ==
    LET n == Len(tokens)
    IN  tokens = Frame(seal, tokens[n].what, n)

\* Mutation: the key stays the same when the nonce starts again.
AdvanceSameKey(c) ==
    IF c.nonce + 1 = Rotation
    THEN [c EXCEPT !.nonce = 0]
    ELSE [c EXCEPT !.nonce = @ + 1]

\* hsk_cs_encrypt and hsk_cs_decrypt count, and rotate the key in time.
Advance(c) ==
    IF c.nonce + 1 = Rotation
    THEN [key |-> c.key, epoch |-> c.epoch + 1, nonce |-> 0]
    ELSE [c EXCEPT !.nonce = @ + 1]

\* The shared secrets that are mixed in, named by the two keys they come from.
Es(key) == {"initiator ephemeral", key}
Ee == {"initiator ephemeral", "responder ephemeral"}
Se == {"initiator static", "responder ephemeral"}

\* hsk_brontide_split.
Split(s, chaining) ==
    LET first  == Cipher(Append(chaining, {"h1"}))
        second == Cipher(Append(chaining, {"h2"}))
    IN  /\ send' = [send EXCEPT ![s] = IF s = "initiator" THEN first ELSE second]
        /\ recv' = [recv EXCEPT ![s] = IF s = "initiator" THEN second ELSE first]

BInit ==
    /\ ownKey \in Keys
    /\ state = [s \in Side |-> "IDLE"]
    /\ ck = [s \in Side |-> <<>>]
    /\ send = [s \in Side |-> NoCipher] /\ recv = send
    /\ hasSize = [s \in Side |-> FALSE]
    /\ buf = [s \in Side |-> <<>>] /\ need = [s \in Side |-> 0] /\ input = buf
    /\ wire = buf /\ got = buf
    /\ sent = [s \in Side |-> 0]
    /\ seals = [s \in Side |-> <<>>]

Put(s, tokens) == wire' = [wire EXCEPT ![Other(s)] = @ \o tokens]

-----------------------------------------------------------------------------
(* The handshake.                                                          *)

\* hsk_brontide_on_connect: the dialling side sends the first act.
OnConnect ==
    /\ state["initiator"] = "IDLE"
    /\ ck' = [ck EXCEPT !["initiator"] = <<Es(TheirKey)>>]
    /\ Put("initiator", Frame(Cipher(ck'["initiator"]), 0, ActSize))
    /\ state' = [state EXCEPT !["initiator"] = "TWO", !["responder"] = "ONE"]
    /\ need' = [s \in Side |-> ActSize]
    /\ UNCHANGED <<ownKey, send, recv, hasSize, buf, input, sent, got, seals>>

\* The frame that on_read has completed, and what follows it.
Missing(s) == need[s] - Len(buf[s])
Complete(s) == state[s] # "NONE" /\ input[s] # <<>> /\ Len(input[s]) >= Missing(s)
Data(s) == buf[s] \o SubSeq(input[s], 1, Missing(s))
Contents(s) == Data(s)[Len(Data(s))].what

\* Mutation: what was read together with the end of a frame is dropped.
ConsumeAll(s, next) ==
    /\ buf' = [buf EXCEPT ![s] = <<>>]
    /\ input' = [input EXCEPT ![s] = <<>>]
    /\ need' = [need EXCEPT ![s] = next]

\* The end of one round of the loop: the next frame has this length.
Consume(s, next) ==
    /\ buf' = [buf EXCEPT ![s] = <<>>]
    /\ input' = [input EXCEPT ![s] = SubSeq(@, Missing(s) + 1, Len(@))]
    /\ need' = [need EXCEPT ![s] = next]

\* hsk_brontide_parse, ACT_ONE: the responder answers with the second act.
ActOne ==
    LET s == "responder"
        chaining == <<Es(ownKey)>>
    IN  /\ Complete(s) /\ state[s] = "ONE"
        /\ Opens(Data(s), Cipher(chaining))
        /\ ck' = [ck EXCEPT ![s] = Append(chaining, Ee)]
        /\ Put(s, Frame(Cipher(ck'[s]), 0, ActSize))
        /\ state' = [state EXCEPT ![s] = "THREE"]
        /\ Consume(s, ActSize)
        /\ UNCHANGED <<ownKey, send, recv, hasSize, sent, got, seals>>

\* Mutation: the tag of the second act is not verified.
ActTwoUnchecked ==
    LET s == "initiator"
        chaining == Append(ck[s], Ee)
    IN  /\ Complete(s) /\ state[s] = "TWO"
        /\ ck' = [ck EXCEPT ![s] = Append(chaining, Se)]
        /\ Put(s, Frame(Cipher(ck'[s]), 0, ActSize))
        /\ Split(s, ck'[s])
        /\ state' = [state EXCEPT ![s] = "DONE"]
        /\ Consume(s, HeaderSize)
        /\ UNCHANGED <<ownKey, hasSize, sent, got, seals>>

\* ACT_TWO: the initiator answers with the third act and is done.
ActTwo ==
    LET s == "initiator"
        chaining == Append(ck[s], Ee)
    IN  /\ Complete(s) /\ state[s] = "TWO"
        /\ Opens(Data(s), Cipher(chaining))
        /\ ck' = [ck EXCEPT ![s] = Append(chaining, Se)]
        /\ Put(s, Frame(Cipher(ck'[s]), 0, ActSize))
        /\ Split(s, ck'[s])
        /\ state' = [state EXCEPT ![s] = "DONE"]
        /\ Consume(s, HeaderSize)
        /\ UNCHANGED <<ownKey, hasSize, sent, got, seals>>

\* ACT_THREE: the responder is done.
ActThree ==
    LET s == "responder"
        chaining == Append(ck[s], Se)
    IN  /\ Complete(s) /\ state[s] = "THREE"
        /\ Opens(Data(s), Cipher(chaining))
        /\ ck' = [ck EXCEPT ![s] = chaining]
        /\ Split(s, chaining)
        /\ state' = [state EXCEPT ![s] = "DONE"]
        /\ Consume(s, HeaderSize)
        /\ UNCHANGED <<ownKey, hasSize, wire, sent, got, seals>>

Expected(s) ==
    CASE state[s] = "ONE"   -> Cipher(<<Es(ownKey)>>)
      [] state[s] = "TWO"   -> Cipher(Append(ck[s], Ee))
      [] state[s] = "THREE" -> Cipher(Append(ck[s], Se))
      [] state[s] = "DONE"  -> recv[s]

Destroy(s) == state' = [state EXCEPT ![s] = "NONE"]

\* EACTONE, EACTTWO, EACTTHREE or EBADTAG: a wrong tag ends the connection.
BadTag(s) ==
    /\ Complete(s) /\ ~Opens(Data(s), Expected(s))
    /\ Destroy(s)
    /\ UNCHANGED <<ciphers, reader, wire, sent, got, seals>>

-----------------------------------------------------------------------------
(* Messages.                                                               *)

\* hsk_brontide_write seals the length and then the payload; the socket takes
\* the first k of the four pieces, and a failure ends the connection.
Write(s, k) ==
    LET size   == Todo[s][sent[s] + 1]
        c1     == send[s]
        c2     == Advance(c1)
        header == Frame(c1, size, HeaderSize)
        body   == Frame(c2, sent[s] + 1, size + 1)
        pieces == <<0, 1, HeaderSize, HeaderSize + size, HeaderSize + size + 1>>
    IN  /\ state[s] = "DONE" /\ sent[s] < Len(Todo[s])
        /\ Put(s, SubSeq(header \o body, 1, pieces[k + 1]))
        /\ IF k >= 2
           THEN /\ send' = [send EXCEPT ![s] = Advance(c2)]
                /\ seals' = [seals EXCEPT ![s] = @ \o <<c1, c2>>]
           ELSE /\ send' = [send EXCEPT ![s] = c2]
                /\ seals' = [seals EXCEPT ![s] = Append(@, c1)]
        /\ IF k = 4
           THEN sent' = [sent EXCEPT ![s] = @ + 1] /\ UNCHANGED state
           ELSE Destroy(s) /\ UNCHANGED sent
        /\ UNCHANGED <<ownKey, ck, recv, reader, got>>

\* hsk_brontide_on_read is called with the next n tokens.
OnRead(s, n) ==
    /\ state[s] \notin {"NONE", "IDLE"} /\ input[s] = <<>>
    /\ n <= Len(wire[s])
    /\ input' = [input EXCEPT ![s] = SubSeq(wire[s], 1, n)]
    /\ wire' = [wire EXCEPT ![s] = SubSeq(@, n + 1, Len(@))]
    /\ UNCHANGED <<state, ciphers, hasSize, buf, need, sent, got, seals>>

\* What does not complete a frame is kept.
Keep(s) ==
    /\ state[s] # "NONE" /\ input[s] # <<>> /\ Len(input[s]) < Missing(s)
    /\ buf' = [buf EXCEPT ![s] = @ \o input[s]]
    /\ input' = [input EXCEPT ![s] = <<>>]
    /\ UNCHANGED <<state, ciphers, hasSize, need, wire, sent, got, seals>>

\* A header gives the length of the payload, unless it is too long.
Header(s) ==
    LET size == Contents(s)
    IN  /\ Complete(s) /\ state[s] = "DONE" /\ ~hasSize[s]
        /\ Opens(Data(s), recv[s])
        /\ recv' = [recv EXCEPT ![s] = Advance(@)]
        /\ IF size > MaxMessage
           THEN Destroy(s) /\ UNCHANGED <<hasSize, buf, input, need>>
           ELSE /\ hasSize' = [hasSize EXCEPT ![s] = TRUE]
                /\ Consume(s, size + 1)
                /\ UNCHANGED state
        /\ UNCHANGED <<ownKey, ck, send, wire, sent, got, seals>>

\* A payload goes to the read callback.
Payload(s) ==
    /\ Complete(s) /\ state[s] = "DONE" /\ hasSize[s]
    /\ Opens(Data(s), recv[s])
    /\ recv' = [recv EXCEPT ![s] = Advance(@)]
    /\ hasSize' = [hasSize EXCEPT ![s] = FALSE]
    /\ got' = [got EXCEPT ![s] = Append(@, Contents(s))]
    /\ Consume(s, HeaderSize)
    /\ UNCHANGED <<ownKey, state, ck, send, wire, sent, seals>>

\* A peer that does not keep to the protocol answers the first act whether or not
\* it opens: with a second act made from the key it has, with the tag it was
\* sent, or with no tag at all.
FalseActTwo ==
    /\ Complete("responder") /\ state["responder"] = "ONE"
    /\ \E secrets \in {<<Es(ownKey), Ee>>, <<Es(TheirKey)>>, <<>>} :
          Put("responder", Frame(Cipher(secrets), 0, ActSize))
    /\ state' = [state EXCEPT !["responder"] = "NONE"]
    /\ UNCHANGED <<ciphers, reader, sent, got, seals>>

\* Such a peer sends a frame that does not open, in the place of a header or
\* after one.
Garble ==
    /\ \A s \in Side : state[s] = "DONE"
    /\ \A k \in DOMAIN wire["initiator"] : wire["initiator"][k].seal # NoCipher
    /\ \E n \in 1..(HeaderSize + 1), h \in {0, HeaderSize} :
          Put("responder", Frame(send["responder"], 1, h) \o Frame(NoCipher, 0, n))
    /\ state' = [state EXCEPT !["responder"] = "NONE"]
    /\ UNCHANGED <<ciphers, reader, sent, got, seals>>

\* hsk_peer_destroy, from a timer, from the read callback itself or because an
\* act could not be written.
Close(s) ==
    /\ state[s] \notin {"NONE", "IDLE"}
    /\ Destroy(s)
    /\ UNCHANGED <<ciphers, reader, wire, sent, got, seals>>

\* The other side is gone and all it sent has been read.
Eof(s) ==
    /\ state[s] \notin {"NONE", "IDLE"} /\ state[Other(s)] = "NONE"
    /\ wire[s] = <<>> /\ input[s] = <<>>
    /\ Destroy(s)
    /\ UNCHANGED <<ciphers, reader, wire, sent, got, seals>>

-----------------------------------------------------------------------------
Parse(s) == Keep(s) \/ Header(s) \/ Payload(s) \/ BadTag(s)
Acts == OnConnect \/ ActOne \/ ActTwo \/ ActThree

BNext ==
    \/ Acts \/ FalseActTwo \/ Garble
    \/ \E s \in Side :
          \/ \E k \in 0..4 : Write(s, k)
          \/ \E n \in 1..Len(wire[s]) : OnRead(s, n)
          \/ Parse(s) \/ Close(s) \/ Eof(s)

\* The sockets deliver and the handlers run to their end.
BFairness ==
    /\ WF_bvars(Acts)
    /\ \A s \in Side :
          /\ WF_bvars(\E n \in 1..Len(wire[s]) : OnRead(s, n))
          /\ WF_bvars(Parse(s)) /\ WF_bvars(Eof(s))

BSpec == BInit /\ [][BNext]_bvars /\ BFairness

-----------------------------------------------------------------------------
(* Properties.                                                             *)

\* A frame is never longer than its buffer: hsk_brontide_on_read asserts
\* msg_pos < msg_len on every round.
BTypeOK ==
    /\ state \in [Side -> {"IDLE", "ONE", "TWO", "THREE", "DONE", "NONE"}]
    /\ hasSize \in [Side -> BOOLEAN]
    /\ \A s \in Side :
          /\ state[s] \notin {"IDLE", "NONE"} => Len(buf[s]) < need[s]
          /\ sent[s] <= Len(Todo[s])

\* No key and nonce ever seals two frames, by either side, across rotations.
SealsFresh ==
    /\ BTypeOK
    /\ \A s \in Side : IsInjective(seals[s])
    /\ Range(seals["initiator"]) \cap Range(seals["responder"]) = {}

\* Whatever the side that is dialled answers, the dialling side completes the
\* handshake only with the owner of the key it dialled; it sends no message
\* before.
Authenticated ==
    sent["initiator"] > 0 \/ send["initiator"] # NoCipher => ownKey = TheirKey

\* The connection as pool.c sees it, with the messages that were written whole.
Stream == INSTANCE Channel WITH over <- [s \in Side |-> state[s] = "NONE"]

\* In whatever chunks the bytes are read, wherever a write fails and a key is
\* rotated, each side is given the messages of the other in order, whole, none
\* lost in between and none twice, nothing after its end, and all of them if
\* nobody ends the connection.
ChannelSpec == Stream!Spec
=============================================================================
