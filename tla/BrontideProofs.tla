--------------------------- MODULE BrontideProofs ---------------------------
(***************************************************************************)
(* SealsFresh, Authenticated and the safety part of ChannelSpec, for any   *)
(* messages, keys, rotation interval and limit.                            *)
(*                                                                         *)
(* The argument: the ciphers a side seals with form one line without       *)
(* repetition, and the place of a cipher in the line tells whether it seals *)
(* a header or a payload, and of which message.  A frame that opens was    *)
(* sealed by the other side, so what it carries follows from the place in  *)
(* that line that the reader has come to, however the bytes were chunked.  *)
(***************************************************************************)
EXTENDS Brontide, TLAPS

\* What both sides have mixed at the end of the handshake, and the cipher that
\* each of them starts to send with.
Chain == <<Es(TheirKey), Ee, Se>>
Base(s) == Cipher(Append(Chain, IF s = "initiator" THEN {"h1"} ELSE {"h2"}))

\* The ciphers of side s: those it has sealed messages with and the two that
\* come next.
Now(s) == IF send[s] = NoCipher THEN Base(s) ELSE send[s]
Line(s) == seals[s] \o <<Now(s), Advance(Now(s))>>

Before(c, d) == c.epoch < d.epoch \/ (c.epoch = d.epoch /\ c.nonce < d.nonce)

Secret == {Es(k) : k \in Keys} \cup {Ee, Se, {"h1"}, {"h2"}}
Seal == [key : Seq(Secret), epoch : Nat, nonce : 0..(Rotation - 1)]
SealOf(s) == [key : {Base(s).key}, epoch : Nat, nonce : 0..(Rotation - 1)]
Token == [seal : Seal, what : Nat, part : Nat, of : Nat]

\* Tokens that side o may have sent: of an act, of a frame that opens nothing,
\* of the header or of the payload of a message.  The last token of a payload
\* is sent only when the message is sent whole.
ActSeals(o) == IF o = "initiator" THEN {Cipher(<<Es(TheirKey)>>), Cipher(Chain)}
               ELSE {Cipher(<<Es(ownKey), Ee>>), Cipher(<<Es(TheirKey)>>)}
OfAct(o, tk) == tk.seal \in ActSeals(o) \cup {NoCipher}
OfHeader(o, tk) ==
    \E m \in 0..Len(seals[o]) :
        2 * m <= Len(seals[o]) /\ tk.seal = Line(o)[2 * m + 1] /\ tk.what \in Nat
OfPayload(o, tk) ==
    \E m \in 1..Len(seals[o]) :
        /\ 2 * m <= Len(seals[o]) /\ tk.seal = Line(o)[2 * m]
        /\ tk.what = m
        /\ tk.part = tk.of => m <= sent[o]
Sendable(o) == {tk \in Token : OfAct(o, tk) \/ OfHeader(o, tk) \/ OfPayload(o, tk)}

\* The place in the other side's line that side s has come to.
Place(s) == 2 * Len(got[s]) + IF hasSize[s] THEN 2 ELSE 1

BTypes ==
    /\ ownKey \in Keys
    /\ state \in [Side -> {"IDLE", "ONE", "TWO", "THREE", "DONE", "NONE"}]
    /\ ck \in [Side -> Seq(Secret)]
    /\ send \in [Side -> Seal] /\ recv \in [Side -> Seal]
    /\ hasSize \in [Side -> BOOLEAN] /\ need \in [Side -> Nat]
    /\ buf \in [Side -> Seq(Token)] /\ input \in [Side -> Seq(Token)]
    /\ wire \in [Side -> Seq(Token)]
    /\ sent \in [Side -> Nat] /\ got \in [Side -> Seq(Nat)]
    /\ seals \in [Side -> Seq(Seal)]

\* The handshake: who has come how far knows what.
Handshake ==
    /\ state["initiator"] = "IDLE" => state["responder"] = "IDLE"
    /\ state["initiator"] = "TWO" => ck["initiator"] = <<Es(TheirKey)>>
    /\ state["responder"] = "THREE" =>
          ck["responder"] = <<Es(ownKey), Ee>> /\ ownKey = TheirKey
    /\ send["initiator"] # NoCipher => ownKey = TheirKey

\* The ciphers side s seals with.
Sealing(s) ==
    /\ send[s] = NoCipher => seals[s] = <<>> /\ sent[s] = 0
    /\ send[s] # NoCipher => send[s] \in SealOf(s)
    /\ seals[s] \in Seq(SealOf(s))
    /\ Line(s)[1] = Base(s)
    /\ \A i \in 1..(Len(seals[s]) + 1) : Line(s)[i + 1] = Advance(Line(s)[i])
    /\ \A i, j \in 1..Len(seals[s]) : i < j => Before(seals[s][i], seals[s][j])
    /\ \A i \in 1..Len(seals[s]) : Before(seals[s][i], send[s])

\* What side s has read and will read.
Reading(s) ==
    /\ state[s] \in {"IDLE", "ONE", "TWO", "THREE"} =>
          /\ send[s] = NoCipher
          /\ got[s] = <<>> /\ hasSize[s] = FALSE
    /\ state[s] = "DONE" =>
          /\ send[s] # NoCipher
          /\ Len(seals[s]) = 2 * sent[s]
          /\ Place(s) <= Len(Line(Other(s)))
          /\ recv[s] = Line(Other(s))[Place(s)]
    /\ state[s] = "IDLE" => input[s] = <<>> /\ buf[s] = <<>>
    /\ state[s] \notin {"IDLE", "NONE"} => Len(buf[s]) < need[s]
    /\ sent[s] <= Len(Todo[s])

\* What is on its way to side s.
Arriving(s) ==
    /\ buf[s] \in Seq(Sendable(Other(s)))
    /\ input[s] \in Seq(Sendable(Other(s)))
    /\ wire[s] \in Seq(Sendable(Other(s)))

BInv ==
    /\ BTypes /\ Handshake
    /\ \A s \in Side : Sealing(s) /\ Reading(s) /\ Arriving(s)

\* In a step, side t neither reads nor writes; the line of side s is the same as
\* far as it went.
Rests(t) ==
    /\ state'[t] = state[t] /\ send'[t] = send[t] /\ recv'[t] = recv[t]
    /\ hasSize'[t] = hasSize[t] /\ buf'[t] = buf[t] /\ need'[t] = need[t]
    /\ input'[t] = input[t] /\ sent'[t] = sent[t] /\ got'[t] = got[t]
    /\ seals'[t] = seals[t]
Continues(s) ==
    /\ Len(Line(s)) \in Nat /\ Len(Line(s)') \in Nat /\ Len(Line(s)) <= Len(Line(s)')
    /\ \A j \in 1..Len(Line(s)) : Line(s)'[j] = Line(s)[j]

-----------------------------------------------------------------------------
(* Sequences.                                                              *)

\* What Append returns.
LEMMA AppendProperties ==
    ASSUME NEW S, NEW q \in Seq(S), NEW x \in S
    PROVE  /\ Append(q, x) \in Seq(S) /\ Len(Append(q, x)) = Len(q) + 1
           /\ \A i \in 1..Len(q) : Append(q, x)[i] = q[i]
           /\ Append(q, x)[Len(q) + 1] = x
OBVIOUS

\* What a concatenation returns.
LEMMA ConcatProperties ==
    ASSUME NEW S, NEW q \in Seq(S), NEW r \in Seq(S)
    PROVE  /\ q \o r \in Seq(S) /\ Len(q \o r) = Len(q) + Len(r)
           /\ \A i \in 1..(Len(q) + Len(r)) :
                 (q \o r)[i] = IF i <= Len(q) THEN q[i] ELSE r[i - Len(q)]
OBVIOUS

\* What SubSeq returns.
LEMMA SubSeqProperties ==
    ASSUME NEW q, NEW S, NEW m \in Int, NEW n \in Int, \A i \in m..n : q[i] \in S
    PROVE  /\ SubSeq(q, m, n) \in Seq(S)
           /\ Len(SubSeq(q, m, n)) = IF m <= n THEN n - m + 1 ELSE 0
OBVIOUS

\* Two sequences with the same elements in the same places are the same.
LEMMA SeqEqual ==
    ASSUME NEW S, NEW q \in Seq(S), NEW r \in Seq(S), Len(q) = Len(r),
           \A i \in 1..Len(q) : q[i] = r[i]
    PROVE  q = r
OBVIOUS

\* A sequence over a set is one over a larger set.
LEMMA SeqMonotonic ==
    ASSUME NEW S, NEW T, S \subseteq T, NEW q \in Seq(S) PROVE q \in Seq(T)
OBVIOUS

-----------------------------------------------------------------------------
(* Sides, ciphers and their line.                                          *)

\* There are two sides.
LEMMA Sides ==
    /\ Other("initiator") = "responder" /\ Other("responder") = "initiator"
    /\ \A s \in Side : Other(s) \in Side /\ Other(s) # s /\ Other(Other(s)) = s
<1>1. Other("initiator") = "responder"
  BY DEF Other, Side
<1>2. Other("responder") = "initiator"
  BY DEF Other, Side
<1> QED
  BY <1>1, <1>2 DEF Side

\* Ciphers of the handshake have shorter keys than those of messages, and the
\* two sides seal messages with different keys (hsk_brontide_split).
LEMMA Ciphers ==
    /\ Len(NoCipher.key) = 0 /\ NoCipher \in Seal
    /\ Len(Cipher(Chain).key) = 3 /\ Cipher(Chain) \in Seal
    /\ \A k \in Keys : /\ Len(Cipher(<<Es(k)>>).key) = 1
                       /\ Cipher(<<Es(k)>>) \in Seal
                       /\ Len(Cipher(<<Es(k), Ee>>).key) = 2
                       /\ Cipher(<<Es(k), Ee>>) \in Seal
    /\ \A s \in Side : /\ Base(s) \in SealOf(s) /\ SealOf(s) \subseteq Seal
                       /\ \A c \in SealOf(s) : Len(c.key) = 4 /\ c # NoCipher
    /\ Base("initiator").key # Base("responder").key
<1>0. 0 \in 0..(Rotation - 1) /\ 0 \in Nat
  BY BrontideAssumption
<1>1. \A k \in Keys : Es(k) \in Secret
  BY DEF Secret
<1>2. Ee \in Secret /\ Se \in Secret /\ {"h1"} \in Secret /\ {"h2"} \in Secret
  BY DEF Secret
<1> HIDE DEF Secret
<1>3. \A e \in Seq(Secret) : Cipher(e) \in Seal /\ Cipher(e).key = e
  BY <1>0 DEF Cipher, Seal
<1>4. <<>> \in Seq(Secret) /\ Len(<<>>) = 0
  OBVIOUS
<1>5. Chain \in Seq(Secret) /\ Len(Chain) = 3
  BY <1>1, <1>2, BrontideAssumption DEF Chain
<1>6. \A k \in Keys : /\ <<Es(k)>> \in Seq(Secret) /\ Len(<<Es(k)>>) = 1
                      /\ <<Es(k), Ee>> \in Seq(Secret) /\ Len(<<Es(k), Ee>>) = 2
  BY <1>1, <1>2
<1>7. ASSUME NEW s \in Side
      PROVE  /\ Base(s) \in Seal /\ Len(Base(s).key) = 4
             /\ Base(s).key[4] = IF s = "initiator" THEN {"h1"} ELSE {"h2"}
  <2> DEFINE h == IF s = "initiator" THEN {"h1"} ELSE {"h2"}
  <2>1. h \in Secret
    BY <1>2
  <2> HIDE DEF h
  <2>2. /\ Append(Chain, h) \in Seq(Secret) /\ Len(Append(Chain, h)) = 4
        /\ Append(Chain, h)[4] = h
    <3>1. /\ Append(Chain, h) \in Seq(Secret) /\ Len(Append(Chain, h)) = Len(Chain) + 1
          /\ Append(Chain, h)[Len(Chain) + 1] = h
      BY <1>5, <2>1, AppendProperties, ZenonT(30)
    <3>2. Len(Chain) + 1 = 4
      BY <1>5
    <3> QED
      BY <3>1, <3>2, Zenon
  <2>3. Base(s) = Cipher(Append(Chain, h))
    BY DEF Base, h
  <2> QED
    BY <1>3, <2>2, <2>3, Zenon DEF h
<1>8. ASSUME NEW s \in Side
      PROVE  /\ Base(s) \in SealOf(s) /\ SealOf(s) \subseteq Seal
             /\ \A c \in SealOf(s) : Len(c.key) = 4 /\ c # NoCipher
  <2>1. Base(s) \in SealOf(s)
    BY <1>0 DEF SealOf, Base, Cipher
  <2>2. Base(s).key \in Seq(Secret)
    BY <1>7 DEF Seal
  <2>3. SealOf(s) \subseteq Seal
    BY <2>2 DEF SealOf, Seal
  <2>4. ASSUME NEW c \in SealOf(s) PROVE Len(c.key) = 4
    BY <1>7 DEF SealOf
  <2>5. Len(NoCipher.key) = 0
    BY <1>3, <1>4, Zenon DEF NoCipher
  <2> QED
    BY <2>1, <2>3, <2>4, <2>5
<1>9. {"h1"} # {"h2"}
  OBVIOUS
<1>10. Base("initiator").key # Base("responder").key
  BY <1>7, <1>9 DEF Side
<1> QED
  BY <1>3, <1>4, <1>5, <1>6, <1>8, <1>10, Zenon DEF NoCipher

\* The next cipher comes later, under the same key (hsk_cs_rotate_key).
LEMMA AdvanceOK ==
    ASSUME NEW s, NEW c \in SealOf(s)
    PROVE  Advance(c) \in SealOf(s) /\ Before(c, Advance(c))
<1>1. Rotation \in Nat \ {0}
  BY BrontideAssumption
<1>2. /\ c = [key |-> c.key, epoch |-> c.epoch, nonce |-> c.nonce]
      /\ c.key \in {Base(s).key} /\ c.epoch \in Nat /\ c.nonce \in 0..(Rotation - 1)
  BY DEF SealOf
<1>3. Advance(c) = IF c.nonce + 1 = Rotation
                   THEN [key |-> c.key, epoch |-> c.epoch + 1, nonce |-> 0]
                   ELSE [key |-> c.key, epoch |-> c.epoch, nonce |-> c.nonce + 1]
  BY <1>2 DEF Advance
<1> QED
  BY <1>1, <1>2, <1>3 DEF SealOf, Before

\* No cipher comes before itself.
LEMMA BeforeOrder ==
    ASSUME NEW s, NEW c \in SealOf(s), NEW d \in SealOf(s), NEW e \in SealOf(s),
           Before(c, d), Before(d, e)
    PROVE  Before(c, e) /\ c # d
BY DEF SealOf, Before

\* No cipher is twice in the line of a side.
LEMMA LineOK ==
    ASSUME NEW s \in Side, seals[s] \in Seq(Seal), Sealing(s)
    PROVE  /\ Line(s) \in Seq(SealOf(s)) /\ Len(Line(s)) = Len(seals[s]) + 2
           /\ Now(s) \in SealOf(s) /\ Before(Now(s), Advance(Now(s)))
           /\ \A i \in 1..Len(seals[s]) : Line(s)[i] = seals[s][i]
           /\ Line(s)[Len(seals[s]) + 1] = Now(s)
           /\ Line(s)[Len(seals[s]) + 2] = Advance(Now(s))
           /\ \A i, j \in 1..Len(Line(s)) : Line(s)[i] = Line(s)[j] => i = j
<1> DEFINE n == Len(seals[s])
           next == <<Now(s), Advance(Now(s))>>
<1>1. Now(s) \in SealOf(s) /\ Advance(Now(s)) \in SealOf(s)
      /\ Before(Now(s), Advance(Now(s)))
  BY Ciphers, AdvanceOK DEF Now, Sealing
<1>2. /\ seals[s] \in Seq(SealOf(s)) /\ n \in Nat
      /\ \A i \in 1..n : seals[s][i] \in SealOf(s)
      /\ \A i, j \in 1..n : i < j => Before(seals[s][i], seals[s][j])
  BY DEF Sealing
<1>3. next \in Seq(SealOf(s)) /\ Len(next) = 2 /\ next[1] = Now(s) /\ next[2] = Advance(Now(s))
  BY <1>1
<1> HIDE DEF next
<1>4. /\ Line(s) \in Seq(SealOf(s)) /\ Len(Line(s)) = n + 2
      /\ \A i \in 1..(n + 2) : Line(s)[i] = IF i <= n THEN seals[s][i] ELSE next[i - n]
  BY <1>2, <1>3, ConcatProperties DEF Line, next
<1>5. /\ \A i \in 1..n : Line(s)[i] = seals[s][i]
      /\ Line(s)[n + 1] = Now(s) /\ Line(s)[n + 2] = Advance(Now(s))
  <2> HIDE DEF n
  <2>1. \A i \in 1..n : Line(s)[i] = seals[s][i]
    BY <1>2, <1>4
  <2>2. Line(s)[n + 1] = next[1] /\ Line(s)[n + 2] = next[2]
    <3>1. (n + 1) - n = 1 /\ (n + 2) - n = 2 /\ n + 1 \in 1..(n + 2) /\ n + 2 \in 1..(n + 2)
          /\ ~ (n + 1 <= n) /\ ~ (n + 2 <= n)
      BY <1>2
    <3> QED
      BY <1>4, <3>1, Zenon
  <2> QED
    BY <1>3, <2>1, <2>2
<1>6. ASSUME NEW i \in 1..n PROVE Before(seals[s][i], Now(s))
  <2>1. send[s] # NoCipher
    BY <1>2, <1>6 DEF Sealing
  <2> QED
    BY <2>1 DEF Sealing, Now
<1>7. ASSUME NEW i \in 1..(n + 2), NEW j \in 1..(n + 2), i < j
      PROVE  Before(Line(s)[i], Line(s)[j])
  <2>1. CASE j <= n
    <3>1. i \in 1..n /\ j \in 1..n
      BY <1>2, <1>7, <2>1
    <3> QED
      BY <1>2, <1>5, <1>7, <3>1
  <2>2. CASE j = n + 1
    BY <1>2, <1>5, <1>6, <1>7, <2>2
  <2>3. CASE j = n + 2 /\ i = n + 1
    BY <1>1, <1>5, <2>3
  <2>4. CASE j = n + 2 /\ i <= n
    <3>1. Before(seals[s][i], Now(s)) /\ seals[s][i] \in SealOf(s) /\ i \in 1..n
      BY <1>2, <1>6, <2>4
    <3>2. Before(seals[s][i], Advance(Now(s)))
      BY <1>1, <3>1, BeforeOrder
    <3> QED
      BY <1>5, <2>4, <3>1, <3>2
  <2> QED
    BY <1>2, <1>7, <2>1, <2>2, <2>3, <2>4
<1>8. ASSUME NEW c \in SealOf(s) PROVE ~Before(c, c)
  BY DEF SealOf, Before
<1>9. \A i, j \in 1..(n + 2) : Line(s)[i] = Line(s)[j] => i = j
  <2> SUFFICES ASSUME NEW i \in 1..(n + 2), NEW j \in 1..(n + 2), i # j
               PROVE  Line(s)[i] # Line(s)[j]
    OBVIOUS
  <2>1. Line(s)[i] \in SealOf(s) /\ Line(s)[j] \in SealOf(s)
    BY <1>4
  <2>2. i < j \/ j < i
    BY <1>2
  <2> QED
    BY <1>7, <1>8, <2>1, <2>2
<1> QED
  BY <1>1, <1>4, <1>5, <1>9

-----------------------------------------------------------------------------
(* Frames.                                                                 *)

\* hsk_cs_verify: the last token of a frame that opens was sealed with the
\* cipher that opens it, and is the last of its frame.
LEMMA OpensLast ==
    ASSUME NEW S, NEW d \in Seq(S), Len(d) > 0, NEW c, Opens(d, c)
    PROVE  d[Len(d)] \in S /\ d[Len(d)].seal = c /\ d[Len(d)].part = d[Len(d)].of
<1> DEFINE n == Len(d)
<1>1. n \in Nat /\ n \in 1..n
  OBVIOUS
<1>2. d = Frame(c, d[n].what, n)
  BY DEF Opens
<1>3. d[n] = [seal |-> c, what |-> d[n].what, part |-> n, of |-> n]
  BY <1>1, <1>2 DEF Frame
<1>4. d[n] \in S
  BY <1>1
<1> QED
  BY <1>3, <1>4

\* A token under a message cipher is of a header or of a payload.
LEMMA ActOrMessage ==
    ASSUME NEW o \in Side, ownKey \in Keys, seals[o] \in Seq(Seal), Sealing(o),
           NEW tk \in Sendable(o)
    PROVE  /\ OfAct(o, tk) => Len(tk.seal.key) < 4
           /\ OfHeader(o, tk) \/ OfPayload(o, tk) => Len(tk.seal.key) = 4
<1>1. OfAct(o, tk) => Len(tk.seal.key) < 4
  <2>1. /\ Len(NoCipher.key) = 0 /\ Len(Cipher(Chain).key) = 3
        /\ Len(Cipher(<<Es(TheirKey)>>).key) = 1 /\ Len(Cipher(<<Es(ownKey), Ee>>).key) = 2
    BY Ciphers, BrontideAssumption, Zenon
  <2>2. OfAct(o, tk) => \/ tk.seal = Cipher(<<Es(TheirKey)>>) \/ tk.seal = Cipher(Chain)
                       \/ tk.seal = Cipher(<<Es(ownKey), Ee>>) \/ tk.seal = NoCipher
    BY Zenon DEF OfAct, ActSeals
  <2>3. 0 < 4 /\ 1 < 4 /\ 2 < 4 /\ 3 < 4
    OBVIOUS
  <2> QED
    BY <2>1, <2>2, <2>3, Zenon
<1>2. \A j \in 1..Len(Line(o)) : Len(Line(o)[j].key) = 4
  BY LineOK, Ciphers
<1>3. Len(Line(o)) = Len(seals[o]) + 2 /\ Len(seals[o]) \in Nat
  BY LineOK
<1>4. \A m \in 0..Len(seals[o]) : 2 * m <= Len(seals[o]) => 2 * m + 1 \in 1..Len(Line(o))
  BY <1>3
<1>5. \A m \in 1..Len(seals[o]) : 2 * m <= Len(seals[o]) => 2 * m \in 1..Len(Line(o))
  BY <1>3
<1> QED
  BY <1>1, <1>2, <1>4, <1>5 DEF OfHeader, OfPayload

\* The place of the cipher in the sender's line tells what a frame carries.
LEMMA PlaceTells ==
    ASSUME NEW o \in Side, ownKey \in Keys, seals[o] \in Seq(Seal), Sealing(o),
           NEW tk \in Sendable(o), NEW j \in 1..Len(Line(o)), tk.seal = Line(o)[j]
    PROVE  \/ \E m \in Nat : j = 2 * m + 1 /\ j <= Len(seals[o]) + 1 /\ tk.what \in Nat
           \/ \E m \in Nat : /\ j = 2 * m /\ j <= Len(seals[o]) /\ tk.what = m
                             /\ tk.part = tk.of => m <= sent[o]
<1>1. Len(Line(o)) = Len(seals[o]) + 2 /\ Len(seals[o]) \in Nat
  BY LineOK
<1>2. Len(tk.seal.key) = 4
  BY LineOK, Ciphers
<1>3. OfHeader(o, tk) \/ OfPayload(o, tk)
  <2>1. ~ OfAct(o, tk)
    <3>1. OfAct(o, tk) => Len(tk.seal.key) < 4
      BY ActOrMessage, Zenon
    <3> QED
      BY <1>2, <3>1
  <2> QED
    BY <2>1 DEF Sendable
<1>4. CASE OfHeader(o, tk)
  <2>1. PICK m \in 0..Len(seals[o]) :
            2 * m <= Len(seals[o]) /\ tk.seal = Line(o)[2 * m + 1] /\ tk.what \in Nat
    BY <1>4 DEF OfHeader
  <2>2. 2 * m + 1 \in 1..Len(Line(o)) /\ m \in Nat
    BY <1>1, <2>1
  <2>3. j = 2 * m + 1
    BY <2>1, <2>2, LineOK, Zenon
  <2> QED
    BY <1>1, <2>1, <2>2, <2>3
<1>5. CASE OfPayload(o, tk)
  <2>1. PICK m \in 1..Len(seals[o]) :
            /\ 2 * m <= Len(seals[o]) /\ tk.seal = Line(o)[2 * m] /\ tk.what = m
            /\ tk.part = tk.of => m <= sent[o]
    BY <1>5 DEF OfPayload
  <2>2. 2 * m \in 1..Len(Line(o)) /\ m \in Nat
    BY <1>1, <2>1
  <2>3. j = 2 * m
    BY <2>1, <2>2, LineOK, Zenon
  <2> QED
    BY <2>1, <2>2, <2>3
<1> QED
  BY <1>3, <1>4, <1>5

\* hsk_brontide_on_read hands hsk_brontide_parse exactly msg_len bytes, and
\* keeps the rest.
LEMMA DataOK ==
    ASSUME NEW s \in Side, BTypes, Reading(s), Arriving(s), Complete(s)
    PROVE  /\ state[s] \notin {"IDLE", "NONE"}
           /\ Data(s) \in Seq(Sendable(Other(s))) /\ Len(Data(s)) > 0
           /\ SubSeq(input[s], Missing(s) + 1, Len(input[s])) \in Seq(Sendable(Other(s)))
<1> DEFINE S == Sendable(Other(s))
           k == Missing(s)
<1>1. state[s] \notin {"IDLE", "NONE"}
  BY DEF Complete, Reading
<1>2. buf[s] \in Seq(S) /\ input[s] \in Seq(S) /\ need[s] \in Nat
  BY DEF Arriving, BTypes
<1> HIDE DEF S
<1>3. Len(buf[s]) \in Nat /\ Len(input[s]) \in Nat
  BY <1>2
<1>4. k \in 1..Len(input[s])
  BY <1>1, <1>2, <1>3 DEF Reading, Complete, Missing
<1> HIDE DEF k
<1>5. \A i \in 1..Len(input[s]) : input[s][i] \in S
  BY <1>2
<1>6. SubSeq(input[s], 1, k) \in Seq(S) /\ Len(SubSeq(input[s], 1, k)) = k
  <2>1. \A i \in 1..k : input[s][i] \in S
    BY <1>3, <1>4, <1>5
  <2>2. k \in Int /\ 1 \in Int /\ 1 <= k /\ k - 1 + 1 = k
    BY <1>3, <1>4
  <2>3. /\ SubSeq(input[s], 1, k) \in Seq(S)
        /\ Len(SubSeq(input[s], 1, k)) = IF 1 <= k THEN k - 1 + 1 ELSE 0
    BY <2>1, <2>2, SubSeqProperties, Zenon
  <2> QED
    BY <2>2, <2>3
<1>7. SubSeq(input[s], k + 1, Len(input[s])) \in Seq(S)
  <2>1. \A i \in (k + 1)..Len(input[s]) : input[s][i] \in S
    BY <1>3, <1>4, <1>5
  <2>2. k + 1 \in Int /\ Len(input[s]) \in Int
    BY <1>3, <1>4
  <2> QED
    BY <2>1, <2>2, SubSeqProperties
<1>8. Data(s) \in Seq(S) /\ Len(Data(s)) = Len(buf[s]) + k
  BY <1>2, <1>6, ConcatProperties DEF Data, k
<1> QED
  BY <1>1, <1>3, <1>4, <1>7, <1>8 DEF S, k

\* Whatever does not seal leaves the line and what may be on its way as it was.
LEMMA NotSealing ==
    ASSUME NEW s \in Side, Sealing(s), ownKey' = ownKey, send'[s] = send[s],
           seals'[s] = seals[s], sent'[s] = sent[s]
    PROVE  Sealing(s)' /\ Line(s)' = Line(s) /\ Sendable(s)' = Sendable(s)
<1>1. Line(s)' = Line(s)
  BY DEF Line, Now
<1>2. Sendable(s)' = Sendable(s)
  BY <1>1 DEF Sendable, OfAct, ActSeals, OfHeader, OfPayload
<1>3. Sealing(s)'
  BY <1>1 DEF Sealing
<1> QED
  BY <1>1, <1>2, <1>3

\* What may be on its way stays so while the line grows.
LEMMA SendableGrows ==
    ASSUME NEW s \in Side, BTypes, Sealing(s), ownKey' = ownKey,
           Len(seals'[s]) \in Nat, Len(seals[s]) <= Len(seals'[s]),
           sent'[s] \in Nat, sent[s] <= sent'[s],
           \A j \in 1..(Len(seals[s]) + 2) : Line(s)'[j] = Line(s)[j]
    PROVE  Sendable(s) \subseteq Sendable(s)'
<1> SUFFICES ASSUME NEW tk \in Sendable(s) PROVE tk \in Sendable(s)'
  OBVIOUS
<1>0. Len(seals[s]) \in Nat /\ sent[s] \in Nat /\ tk \in Token
  BY DEF BTypes, Sendable
<1>1. CASE OfAct(s, tk)
  BY <1>0, <1>1 DEF Sendable, OfAct, ActSeals
<1>2. CASE OfHeader(s, tk)
  <2>1. PICK m \in 0..Len(seals[s]) :
            2 * m <= Len(seals[s]) /\ tk.seal = Line(s)[2 * m + 1] /\ tk.what \in Nat
    BY <1>2 DEF OfHeader
  <2>2. /\ m \in 0..Len(seals'[s]) /\ 2 * m <= Len(seals'[s])
        /\ 2 * m + 1 \in 1..(Len(seals[s]) + 2)
    BY <1>0, <2>1
  <2>3. tk.seal = Line(s)'[2 * m + 1]
    BY <2>1, <2>2
  <2>4. OfHeader(s, tk)'
    BY <2>1, <2>2, <2>3 DEF OfHeader
  <2> QED
    BY <1>0, <2>4 DEF Sendable
<1>3. CASE OfPayload(s, tk)
  <2>1. PICK m \in 1..Len(seals[s]) :
            /\ 2 * m <= Len(seals[s]) /\ tk.seal = Line(s)[2 * m] /\ tk.what = m
            /\ tk.part = tk.of => m <= sent[s]
    BY <1>3 DEF OfPayload
  <2>2. /\ m \in 1..Len(seals'[s]) /\ 2 * m <= Len(seals'[s])
        /\ 2 * m \in 1..(Len(seals[s]) + 2)
    BY <1>0, <2>1
  <2>3. tk.seal = Line(s)'[2 * m]
    BY <2>1, <2>2
  <2>4. tk.part = tk.of => m <= sent'[s]
    BY <1>0, <2>1
  <2>5. OfPayload(s, tk)'
    BY <2>1, <2>2, <2>3, <2>4 DEF OfPayload
  <2> QED
    BY <1>0, <2>5 DEF Sendable
<1> QED
  BY <1>1, <1>2, <1>3 DEF Sendable

-----------------------------------------------------------------------------
(* Reading.                                                                *)

\* The types of one side.
LEMMA TypesOf ==
    ASSUME BTypes, NEW s \in Side
    PROVE  /\ got[s] \in Seq(Nat) /\ Len(got[s]) \in Nat /\ hasSize[s] \in BOOLEAN
           /\ need[s] \in Nat /\ sent[s] \in Nat
           /\ seals[s] \in Seq(Seal) /\ Len(seals[s]) \in Nat /\ send[s] \in Seal
<1>1. got[s] \in Seq(Nat) /\ hasSize[s] \in BOOLEAN /\ need[s] \in Nat /\ sent[s] \in Nat
      /\ seals[s] \in Seq(Seal) /\ send[s] \in Seal
  BY Zenon DEF BTypes
<1> QED
  BY <1>1

\* A place is counted from one.
LEMMA PlaceOK ==
    ASSUME BTypes, NEW s \in Side
    PROVE  Place(s) \in Nat /\ Place(s) >= 1
<1>1. Len(got[s]) \in Nat
  BY TypesOf
<1>2. Place(s) = 2 * Len(got[s]) + 2 \/ Place(s) = 2 * Len(got[s]) + 1
  BY Zenon DEF Place
<1> QED
  BY <1>1, <1>2

\* Nothing is sent, sealed or read at first.
LEMMA BInitInv == BInit => BInv
<1> SUFFICES ASSUME BInit PROVE BInv
  OBVIOUS
<1>0. NoCipher \in Seal /\ 0 \in Nat /\ Side = {"initiator", "responder"}
  BY Ciphers DEF Side
<1>1. BTypes
  BY <1>0 DEF BInit, BTypes
<1>2. Handshake
  BY <1>0 DEF BInit, Handshake
<1>3. ASSUME NEW s \in Side PROVE Sealing(s) /\ Reading(s) /\ Arriving(s)
  <2>1. send[s] = NoCipher /\ seals[s] = <<>> /\ sent[s] = 0
    BY <1>3 DEF BInit
  <2>2. Line(s)[1] = Base(s) /\ Line(s)[2] = Advance(Base(s))
    <3>1. Now(s) = Base(s)
      BY <2>1 DEF Now
    <3>2. Line(s) = <<>> \o <<Base(s), Advance(Base(s))>>
      BY <2>1, <3>1 DEF Line
    <3> QED
      BY <3>2
  <2>3. Sealing(s)
    BY <2>1, <2>2 DEF Sealing
  <2>4. /\ state[s] = "IDLE" /\ got[s] = <<>> /\ hasSize[s] = FALSE
        /\ buf[s] = <<>> /\ input[s] = <<>> /\ wire[s] = <<>>
    BY <1>3 DEF BInit
  <2>5. Reading(s)
    BY <1>3, <2>1, <2>4, BrontideAssumption DEF Reading
  <2>6. Arriving(s)
    BY <2>4 DEF Arriving
  <2> QED
    BY <2>3, <2>5, <2>6
<1> QED
  BY <1>1, <1>2, <1>3 DEF BInv

\* A step of side s that sends nothing only has to keep what side s reads.
LEMMA QuietStep ==
    ASSUME BInv, NEW s \in Side, BTypes', Reading(s)', Arriving(s)',
           UNCHANGED <<ownKey, ck, send, seals, sent>>,
           state'[s] = state[s] \/ (state[s] # "IDLE" /\ state'[s] = "NONE"),
           \A t \in Side \ {s} :
              /\ state'[t] = state[t] /\ recv'[t] = recv[t] /\ hasSize'[t] = hasSize[t]
              /\ buf'[t] = buf[t] /\ need'[t] = need[t] /\ input'[t] = input[t]
              /\ wire'[t] = wire[t] /\ got'[t] = got[t]
    PROVE  BInv'
<1>1. ASSUME NEW t \in Side
      PROVE  Sealing(t)' /\ Line(t)' = Line(t) /\ Sendable(t)' = Sendable(t)
  BY NotSealing DEF BInv
<1>2. ASSUME NEW t \in Side \ {s} PROVE Reading(t)' /\ Arriving(t)'
  <2>1. Other(t) \in Side /\ Reading(t) /\ Arriving(t)
    BY Sides DEF BInv
  <2>2. Line(Other(t))' = Line(Other(t)) /\ Sendable(Other(t))' = Sendable(Other(t))
    BY <1>1, <2>1
  <2>3. Reading(t)'
    BY <2>1, <2>2, Zenon DEF Reading, Place
  <2>4. Arriving(t)'
    BY <2>1, <2>2 DEF Arriving
  <2> QED
    BY <2>3, <2>4
<1>3. Handshake'
  BY DEF BInv, Handshake, Side
<1> QED
  BY <1>1, <1>2, <1>3 DEF BInv

\* Tokens that may be on their way are tokens.
LEMMA SendableTokens ==
    ASSUME NEW s \in Side, NEW x \in Seq(Sendable(s)) PROVE x \in Seq(Token)
BY SeqMonotonic DEF Sendable

\* hsk_brontide_on_read starts with a chunk, or keeps what completes no frame.
LEMMA ReadsKeepInv ==
    ASSUME BInv, NEW s \in Side, Keep(s) \/ \E n \in 1..Len(wire[s]) : OnRead(s, n)
    PROVE  BInv'
<1> DEFINE S == Sendable(Other(s))
<1>0. BTypes /\ Reading(s) /\ Arriving(s) /\ Other(s) \in Side
  BY Sides DEF BInv
<1>1. buf[s] \in Seq(S) /\ input[s] \in Seq(S) /\ wire[s] \in Seq(S)
  BY <1>0 DEF Arriving
<1>2. UNCHANGED <<ownKey, ck, send, recv, seals, sent, state, hasSize, need, got>>
  BY Zenon DEF Keep, OnRead, ciphers
<1>3. Sendable(Other(s))' = S /\ Line(Other(s))' = Line(Other(s))
  BY <1>0, <1>2, NotSealing DEF BInv
<1>4. ASSUME NEW x \in Seq(S) PROVE x \in Seq(Token)
  BY <1>0, SendableTokens
<1> HIDE DEF S
<1>5. CASE Keep(s)
  <2>1. /\ buf' = [buf EXCEPT ![s] = buf[s] \o input[s]]
        /\ input' = [input EXCEPT ![s] = <<>>]
        /\ UNCHANGED wire /\ state[s] # "NONE" /\ input[s] # <<>>
        /\ Len(input[s]) < Missing(s)
    BY <1>5 DEF Keep
  <2>2. /\ buf[s] \o input[s] \in Seq(S) /\ <<>> \in Seq(S)
        /\ Len(buf[s] \o input[s]) = Len(buf[s]) + Len(input[s])
    BY <1>1, ConcatProperties
  <2>3. buf[s] \o input[s] \in Seq(Token) /\ <<>> \in Seq(Token)
    BY <1>4, <2>2
  <2>4. BTypes'
    BY <1>0, <1>2, <2>1, <2>3, Zenon DEF BTypes
  <2>5. buf'[s] = buf[s] \o input[s] /\ input'[s] = <<>> /\ wire'[s] = wire[s]
    BY <1>0, <2>1, Zenon DEF BTypes
  <2>6. Len(buf'[s]) < need[s]
    <3>1. Len(buf[s]) \in Nat /\ Len(input[s]) \in Nat /\ need[s] \in Nat
      BY <1>0, <1>1, SMTT(30) DEF BTypes
    <3> QED
      BY <2>1, <2>2, <2>5, <3>1 DEF Missing
  <2>7. Reading(s)'
    BY <1>0, <1>2, <1>3, <2>1, <2>5, <2>6, Zenon DEF Reading, Place
  <2>8. Arriving(s)'
    BY <1>1, <1>3, <2>2, <2>5 DEF Arriving
  <2> QED
    BY <1>0, <1>2, <2>1, <2>4, <2>7, <2>8, QuietStep, Zenon DEF BTypes
<1>6. ASSUME NEW n \in 1..Len(wire[s]), OnRead(s, n) PROVE BInv'
  <2> DEFINE first == SubSeq(wire[s], 1, n)
             rest == SubSeq(wire[s], n + 1, Len(wire[s]))
  <2>1. /\ input' = [input EXCEPT ![s] = first]
        /\ wire' = [wire EXCEPT ![s] = rest]
        /\ UNCHANGED buf /\ state[s] \notin {"NONE", "IDLE"}
    BY <1>6 DEF OnRead
  <2>2. first \in Seq(S) /\ rest \in Seq(S)
    <3>1. Len(wire[s]) \in Nat /\ \A i \in 1..Len(wire[s]) : wire[s][i] \in S
      BY <1>1
    <3>2. \A i \in 1..n : wire[s][i] \in S
      BY <3>1
    <3>3. \A i \in (n + 1)..Len(wire[s]) : wire[s][i] \in S
      BY <3>1
    <3>4. 1 \in Int /\ n \in Int /\ n + 1 \in Int /\ Len(wire[s]) \in Int
      BY <3>1
    <3> QED
      BY <3>2, <3>3, <3>4, SubSeqProperties
  <2> HIDE DEF first, rest
  <2>3. first \in Seq(Token) /\ rest \in Seq(Token)
    BY <1>4, <2>2
  <2>4. BTypes'
    BY <1>0, <1>2, <2>1, <2>3, Zenon DEF BTypes
  <2>5. buf'[s] = buf[s] /\ input'[s] = first /\ wire'[s] = rest
    BY <1>0, <2>1 DEF BTypes
  <2>6. Reading(s)'
    BY <1>0, <1>2, <1>3, <2>1, <2>5, Zenon DEF Reading, Place
  <2>7. Arriving(s)'
    BY <1>1, <1>3, <2>2, <2>5 DEF Arriving
  <2> QED
    BY <1>0, <1>2, <2>1, <2>4, <2>6, <2>7, QuietStep, Zenon DEF BTypes
<1> QED
  BY <1>5, <1>6

\* The end of a connection: a wrong tag, a timer, the other side gone.
LEMMA EndsKeepInv ==
    ASSUME BInv, NEW s \in Side, BadTag(s) \/ Close(s) \/ Eof(s)
    PROVE  BInv' /\ state[s] # "NONE" /\ state' = [state EXCEPT ![s] = "NONE"]
<1>0. BTypes /\ Reading(s) /\ Arriving(s) /\ Other(s) \in Side
  BY Sides DEF BInv
<1>1. /\ state' = [state EXCEPT ![s] = "NONE"]
      /\ UNCHANGED <<ownKey, ck, send, recv, hasSize, buf, need, input>>
      /\ UNCHANGED <<wire, sent, got, seals>>
  BY Zenon DEF BadTag, Close, Eof, Destroy, ciphers, reader
<1>2. state[s] # "IDLE" /\ state[s] # "NONE"
  BY <1>0, DataOK DEF BadTag, Close, Eof
<1>3. Sendable(Other(s))' = Sendable(Other(s))
  BY <1>0, <1>1, NotSealing DEF BInv
<1>4. BTypes'
  BY <1>0, <1>1, Zenon DEF BTypes
<1>5. state'[s] = "NONE"
  BY <1>0, <1>1, Zenon DEF BTypes
<1>6. Reading(s)'
  BY <1>0, <1>1, <1>5 DEF Reading
<1>7. Arriving(s)'
  BY <1>0, <1>1, <1>3 DEF Arriving
<1> QED
  BY <1>0, <1>1, <1>2, <1>4, <1>5, <1>6, <1>7, QuietStep, Zenon DEF BTypes

\* The loop keeps what follows the frame.
LEMMA ConsumeOK ==
    ASSUME BTypes, NEW s \in Side, Reading(s), Arriving(s), Complete(s), Other(s) \in Side,
           NEW n \in Nat, Consume(s, n)
    PROVE  /\ buf' \in [Side -> Seq(Token)] /\ input' \in [Side -> Seq(Token)]
           /\ need' \in [Side -> Nat]
           /\ buf'[s] = <<>> /\ input'[s] \in Seq(Sendable(Other(s))) /\ need'[s] = n
           /\ \A t \in Side \ {s} : /\ buf'[t] = buf[t] /\ input'[t] = input[t]
                                    /\ need'[t] = need[t]
<1> DEFINE rest == SubSeq(input[s], Missing(s) + 1, Len(input[s]))
<1>1. rest \in Seq(Sendable(Other(s)))
  BY DataOK
<1>2. /\ buf' = [buf EXCEPT ![s] = <<>>] /\ input' = [input EXCEPT ![s] = rest]
      /\ need' = [need EXCEPT ![s] = n]
  BY DEF Consume
<1> HIDE DEF rest
<1>3. rest \in Seq(Token) /\ <<>> \in Seq(Token)
  BY <1>1, SendableTokens
<1> QED
  BY <1>1, <1>2, <1>3, Zenon DEF BTypes

\* What the completed frame says, and the cipher that comes next.
LEMMA FrameRead ==
    ASSUME BInv, NEW s \in Side, Complete(s), state[s] = "DONE", Opens(Data(s), recv[s])
    PROVE  /\ Advance(recv[s]) \in Seal
           /\ Place(s) + 1 \in 1..Len(Line(Other(s)))
           /\ Advance(recv[s]) = Line(Other(s))[Place(s) + 1]
           /\ Contents(s) \in Nat
           /\ hasSize[s] => /\ Contents(s) = Len(got[s]) + 1
                            /\ Len(got[s]) < sent[Other(s)]
<1> DEFINE o == Other(s)
           tk == Data(s)[Len(Data(s))]
           p == Place(s)
<1>0. /\ BTypes /\ Reading(s) /\ Arriving(s) /\ o \in Side /\ Sealing(o)
      /\ seals[o] \in Seq(Seal) /\ ownKey \in Keys /\ sent[o] \in Nat
  BY Sides, Zenon DEF BInv, BTypes
<1>1. /\ Len(seals[o]) \in Nat /\ Len(Line(o)) = Len(seals[o]) + 2
      /\ Len(got[s]) \in Nat /\ hasSize[s] \in BOOLEAN
  BY <1>0, LineOK, TypesOf
<1>2. p = 2 * Len(got[s]) + (IF hasSize[s] THEN 2 ELSE 1)
  BY DEF Place
<1>3. p \in 1..Len(Line(o)) /\ recv[s] = Line(o)[p]
  <2>1. p <= Len(Line(o)) /\ recv[s] = Line(o)[p]
    BY <1>0 DEF Reading
  <2> HIDE DEF p, o
  <2>2. p = 2 * Len(got[s]) + 2 \/ p = 2 * Len(got[s]) + 1
    BY <1>2, Zenon
  <2>3. p \in Nat /\ 1 <= p
    BY <1>1, <2>2
  <2>4. p \in 1..Len(Line(o))
    BY <1>1, <2>1, <2>3
  <2> QED
    BY <2>1, <2>4
<1>4. tk \in Sendable(o) /\ tk.seal = recv[s] /\ tk.part = tk.of
  BY <1>0, DataOK, OpensLast
<1> HIDE DEF p, tk, o
<1>5. \/ \E m \in Nat : p = 2 * m + 1 /\ p <= Len(seals[o]) + 1 /\ tk.what \in Nat
      \/ \E m \in Nat : /\ p = 2 * m /\ p <= Len(seals[o]) /\ tk.what = m
                        /\ tk.part = tk.of => m <= sent[o]
  BY <1>0, <1>3, <1>4, PlaceTells, Zenon
<1>6. tk.what \in Nat /\ p \in 1..(Len(seals[o]) + 1)
  BY <1>1, <1>3, <1>5
<1>7. hasSize[s] => tk.what = Len(got[s]) + 1 /\ Len(got[s]) < sent[o]
  BY <1>0, <1>1, <1>2, <1>4, <1>5
<1>8. Line(o)[p + 1] = Advance(recv[s]) /\ p + 1 \in 1..Len(Line(o))
  <2>1. Line(o)[p + 1] = Advance(Line(o)[p])
    BY <1>0, <1>6, Zenon DEF Sealing
  <2>2. p + 1 \in 1..Len(Line(o))
    BY <1>1, <1>6, SMTT(30)
  <2> QED
    BY <1>3, <2>1, <2>2
<1>9. Advance(recv[s]) \in Seal
  <2>1. Line(o)[p + 1] \in SealOf(o)
    BY <1>0, <1>8, LineOK
  <2> QED
    BY <1>0, <1>8, <2>1, Ciphers, Zenon
<1> QED
  BY <1>6, <1>7, <1>8, <1>9 DEF Contents, p, tk, o

\* hsk_brontide_parse of a header.
LEMMA HeaderKeepsInv ==
    ASSUME BInv, NEW s \in Side, Header(s)
    PROVE  BInv' /\ state[s] # "NONE"
<1> DEFINE o == Other(s)
           size == Contents(s)
<1>0. BTypes /\ Reading(s) /\ Arriving(s) /\ o \in Side
  BY Sides DEF BInv
<1>1. /\ Complete(s) /\ state[s] = "DONE" /\ ~hasSize[s] /\ Opens(Data(s), recv[s])
      /\ recv' = [recv EXCEPT ![s] = Advance(recv[s])]
      /\ UNCHANGED <<ownKey, ck, send, wire, sent, got, seals>>
  BY DEF Header
<1>2. /\ Advance(recv[s]) \in Seal /\ Place(s) + 1 \in 1..Len(Line(o))
      /\ Advance(recv[s]) = Line(o)[Place(s) + 1] /\ size \in Nat
  BY <1>1, FrameRead
<1>3. /\ recv' \in [Side -> Seal] /\ recv'[s] = Advance(recv[s])
      /\ \A t \in Side \ {s} : recv'[t] = recv[t]
  BY <1>0, <1>1, <1>2, Zenon DEF BTypes
<1>4. Sendable(o)' = Sendable(o) /\ Line(o)' = Line(o)
  BY <1>0, <1>1, NotSealing DEF BInv
<1> HIDE DEF size
<1>5. CASE size > MaxMessage
  <2>1. state' = [state EXCEPT ![s] = "NONE"] /\ UNCHANGED <<hasSize, buf, input, need>>
    BY <1>5 DEF Header, size, Destroy
  <2>2. BTypes'
    BY <1>0, <1>1, <1>3, <2>1, Zenon DEF BTypes
  <2>3. state'[s] = "NONE"
    BY <1>0, <2>1, Zenon DEF BTypes
  <2>4. Reading(s)'
    BY <1>0, <1>1, <2>3, Zenon DEF Reading
  <2>5. Arriving(s)'
    BY <1>0, <1>1, <1>4, <2>1 DEF Arriving
  <2> QED
    BY <1>0, <1>1, <1>3, <2>1, <2>2, <2>3, <2>4, <2>5, QuietStep, Zenon DEF BTypes
<1>6. CASE ~ (size > MaxMessage)
  <2>1. /\ hasSize' = [hasSize EXCEPT ![s] = TRUE] /\ Consume(s, size + 1)
        /\ UNCHANGED state
    BY <1>6 DEF Header, size
  <2>2. size + 1 \in Nat /\ 0 < size + 1
    BY <1>2
  <2>3. /\ buf' \in [Side -> Seq(Token)] /\ input' \in [Side -> Seq(Token)]
        /\ need' \in [Side -> Nat]
        /\ buf'[s] = <<>> /\ input'[s] \in Seq(Sendable(o)) /\ need'[s] = size + 1
        /\ \A t \in Side \ {s} : /\ buf'[t] = buf[t] /\ input'[t] = input[t]
                                 /\ need'[t] = need[t]
    BY <1>0, <1>1, <2>1, <2>2, ConsumeOK, Zenon
  <2>4. BTypes'
    BY <1>0, <1>1, <1>3, <2>1, <2>3, Zenon DEF BTypes
  <2>5. hasSize'[s] = TRUE /\ \A t \in Side \ {s} : hasSize'[t] = hasSize[t]
    BY <1>0, <2>1 DEF BTypes
  <2>6. Place(s)' = Place(s) + 1
    BY <1>0, <1>1, <2>5, SMTT(30) DEF Place, BTypes
  <2>7. Reading(s)'
    <3>1. Len(buf'[s]) < need'[s]
      BY <2>2, <2>3, Zenon
    <3>2. Place(s)' <= Len(Line(o)') /\ recv'[s] = Line(o)'[Place(s)']
      BY <1>2, <1>3, <1>4, <2>6, SMTT(30)
    <3> QED
      BY <1>0, <1>1, <2>1, <3>1, <3>2 DEF Reading
  <2>8. Arriving(s)'
    <3>1. <<>> \in Seq(Sendable(o))
      OBVIOUS
    <3> QED
      BY <1>0, <1>1, <1>4, <2>3, <3>1 DEF Arriving
  <2> QED
    BY <1>1, <1>3, <2>1, <2>3, <2>4, <2>5, <2>7, <2>8, QuietStep, Zenon
<1> QED
  BY <1>1, <1>5, <1>6

\* hsk_brontide_parse of a payload: the message given is the next one, and the
\* other side has written it whole.
LEMMA PayloadKeepsInv ==
    ASSUME BInv, NEW s \in Side, Payload(s)
    PROVE  /\ BInv'
           /\ got' = [got EXCEPT ![s] = Append(got[s], Len(got[s]) + 1)]
           /\ Len(got[s]) < sent[Other(s)]
<1> DEFINE o == Other(s)
<1>0. BTypes /\ Reading(s) /\ Arriving(s) /\ o \in Side
  BY Sides DEF BInv
<1>1. /\ Complete(s) /\ state[s] = "DONE" /\ hasSize[s] /\ Opens(Data(s), recv[s])
      /\ recv' = [recv EXCEPT ![s] = Advance(recv[s])]
      /\ hasSize' = [hasSize EXCEPT ![s] = FALSE]
      /\ got' = [got EXCEPT ![s] = Append(got[s], Contents(s))]
      /\ Consume(s, HeaderSize)
      /\ UNCHANGED <<ownKey, state, ck, send, wire, sent, seals>>
  BY SMTT(30) DEF Payload
<1>2. /\ Advance(recv[s]) \in Seal /\ Place(s) + 1 \in 1..Len(Line(o))
      /\ Advance(recv[s]) = Line(o)[Place(s) + 1]
      /\ Contents(s) = Len(got[s]) + 1 /\ Len(got[s]) < sent[o]
  BY <1>1, FrameRead
<1>3. /\ recv' \in [Side -> Seal] /\ recv'[s] = Advance(recv[s])
      /\ \A t \in Side \ {s} : recv'[t] = recv[t]
  BY <1>0, <1>1, <1>2 DEF BTypes
<1>4. Sendable(o)' = Sendable(o) /\ Line(o)' = Line(o)
  BY <1>0, <1>1, NotSealing, Zenon DEF BInv
<1>5. got' = [got EXCEPT ![s] = Append(got[s], Len(got[s]) + 1)]
  BY <1>1, <1>2
<1>6. /\ got' \in [Side -> Seq(Nat)] /\ Len(got'[s]) = Len(got[s]) + 1
      /\ \A t \in Side \ {s} : got'[t] = got[t]
  <2>1. got[s] \in Seq(Nat) /\ Len(got[s]) \in Nat /\ Len(got[s]) + 1 \in Nat
    BY <1>0, SMTT(30) DEF BTypes
  <2>2. /\ Append(got[s], Len(got[s]) + 1) \in Seq(Nat)
        /\ Len(Append(got[s], Len(got[s]) + 1)) = Len(got[s]) + 1
    BY <2>1
  <2> QED
    BY <1>0, <1>5, <2>2 DEF BTypes
<1>7. /\ buf' \in [Side -> Seq(Token)] /\ input' \in [Side -> Seq(Token)]
      /\ need' \in [Side -> Nat]
      /\ buf'[s] = <<>> /\ input'[s] \in Seq(Sendable(o)) /\ need'[s] = 2
      /\ \A t \in Side \ {s} : /\ buf'[t] = buf[t] /\ input'[t] = input[t]
                               /\ need'[t] = need[t]
  BY <1>0, <1>1, ConsumeOK DEF HeaderSize
<1>8. BTypes'
  BY <1>0, <1>1, <1>3, <1>6, <1>7, Zenon DEF BTypes
<1>9. hasSize'[s] = FALSE /\ \A t \in Side \ {s} : hasSize'[t] = hasSize[t]
  BY <1>0, <1>1 DEF BTypes
<1>10. Place(s)' = Place(s) + 1
  BY <1>0, <1>1, <1>6, <1>9 DEF Place, BTypes
<1>11. Reading(s)'
  <2>1. Len(buf'[s]) < need'[s]
    BY <1>7, SMTT(30)
  <2>2. Place(s)' <= Len(Line(o)') /\ recv'[s] = Line(o)'[Place(s)']
    BY <1>2, <1>3, <1>4, <1>10, SMTT(30)
  <2> QED
    BY <1>0, <1>1, <2>1, <2>2, Zenon DEF Reading
<1>12. Arriving(s)'
  <2>1. <<>> \in Seq(Sendable(o))
    OBVIOUS
  <2> QED
    BY <1>0, <1>1, <1>4, <1>7, <2>1 DEF Arriving
<1> QED
  BY <1>1, <1>2, <1>3, <1>5, <1>6, <1>7, <1>8, <1>9, <1>11, <1>12, QuietStep, ZenonT(30)

-----------------------------------------------------------------------------
(* Sending.                                                                *)

\* A frame of tokens of a set is a sequence over it.
LEMMA FrameOK ==
    ASSUME NEW S, NEW c, NEW w, NEW n \in Nat,
           \A k \in 1..n : [seal |-> c, what |-> w, part |-> k, of |-> n] \in S
    PROVE  /\ Frame(c, w, n) \in Seq(S) /\ Len(Frame(c, w, n)) = n
           /\ \A k \in 1..n :
                 Frame(c, w, n)[k] = [seal |-> c, what |-> w, part |-> k, of |-> n]
BY DEF Frame

\* What is sent goes behind what is on its way.
LEMMA PutOK ==
    ASSUME BTypes, NEW s \in Side, Arriving(Other(s)), NEW tks, Put(s, tks),
           Sendable(s) \subseteq Sendable(s)', tks \in Seq(Sendable(s)')
    PROVE  /\ wire' \in [Side -> Seq(Token)] /\ wire'[s] = wire[s]
           /\ wire'[Other(s)] \in Seq(Sendable(s)')
<1> DEFINE o == Other(s)
           S == Sendable(s)'
           all == wire[o] \o tks
<1>0. o \in Side /\ o # s /\ Other(o) = s
  BY Sides
<1>1. wire' = [wire EXCEPT ![o] = all]
  BY DEF Put
<1>2. wire[o] \in Seq(Sendable(s))
  BY <1>0, Zenon DEF Arriving
<1>3. S \subseteq Token
  BY DEF Sendable, Token, Seal, Secret
<1> HIDE DEF S, o
<1>4. wire[o] \in Seq(S)
  BY <1>2, SeqMonotonic DEF S
<1>5. all \in Seq(S)
  BY <1>4, ConcatProperties DEF S
<1> HIDE DEF all
<1>6. all \in Seq(Token)
  BY <1>3, <1>5, SeqMonotonic
<1>7. wire' \in [Side -> Seq(Token)] /\ wire'[s] = wire[s] /\ wire'[o] = all
  BY <1>0, <1>1, <1>6, Zenon DEF BTypes
<1> QED
  BY <1>5, <1>7 DEF S, o

\* The length of a line.
LEMMA LineLength ==
    ASSUME BInv, NEW s \in Side
    PROVE  Len(seals[s]) \in Nat /\ Len(Line(s)) = Len(seals[s]) + 2
<1>1. seals[s] \in Seq(Seal) /\ Sealing(s)
  BY DEF BInv, BTypes
<1> QED
  BY <1>1, LineOK

\* A line that stays as it is continues.
LEMMA Continuing ==
    ASSUME BInv, NEW s \in Side, Line(s)' = Line(s) PROVE Continues(s)
<1>1. Len(Line(s)) \in Nat
  BY LineLength
<1> QED
  BY <1>1 DEF Continues

\* A step of side s that lets its line grow leaves to the other side only what
\* arrives there.
LEMMA SenderStep ==
    ASSUME BInv, NEW s \in Side, BTypes', Handshake', ownKey' = ownKey,
           Sealing(s)', Reading(s)', Arriving(s)', Sendable(s) \subseteq Sendable(s)',
           Continues(s), Rests(Other(s)), wire'[Other(s)] \in Seq(Sendable(s)')
    PROVE  BInv'
<1> DEFINE o == Other(s)
<1>0. o \in Side /\ Other(o) = s /\ \A t \in Side : t = s \/ t = o
  BY Sides, Zenon DEF Side, Other
<1>1. BTypes /\ Reading(o) /\ Arriving(o) /\ Sealing(o)
  BY <1>0 DEF BInv
<1>2. Rests(o)
  OBVIOUS
<1> HIDE DEF o
<1>3. Sealing(o)'
  BY <1>0, <1>1, <1>2, NotSealing, Zenon DEF Rests
<1>4. Reading(o)'
  <2>1. Place(o)' = Place(o) /\ Place(o) \in Nat /\ Place(o) >= 1
    <3>1. Place(o)' = Place(o)
      BY <1>2, Zenon DEF Place, Rests
    <3>2. Place(o) \in Nat /\ Place(o) >= 1
      BY <1>0, <1>1, PlaceOK
    <3> QED
      BY <3>1, <3>2
  <2>2. Place(o) <= Len(Line(s)) => /\ Place(o)' <= Len(Line(s)')
                                     /\ Line(s)'[Place(o)'] = Line(s)[Place(o)]
    BY <2>1 DEF Continues
  <2> QED
    BY <1>0, <1>1, <1>2, <2>2, ZenonT(30) DEF Reading, Rests
<1>5. Arriving(o)'
  <2>1. buf[o] \in Seq(Sendable(s)) /\ input[o] \in Seq(Sendable(s))
    BY <1>0, <1>1 DEF Arriving
  <2>2. buf[o] \in Seq(Sendable(s)') /\ input[o] \in Seq(Sendable(s)')
    BY <2>1, SeqMonotonic, Zenon
  <2> QED
    BY <1>0, <1>2, <2>2, Zenon DEF Arriving, Rests, o
<1> QED
  BY <1>0, <1>3, <1>4, <1>5 DEF BInv

\* Mixing one more secret.
LEMMA Mixing ==
    ASSUME NEW a, NEW b, NEW c
    PROVE  Append(<<a>>, b) = <<a, b>> /\ Append(<<a, b>>, c) = <<a, b, c>>
<1> DEFINE S == {a, b, c}
           p == Append(<<a>>, b)
           q == Append(<<a, b>>, c)
<1>1. /\ <<a>> \in Seq(S) /\ b \in S /\ Len(<<a>>) = 1 /\ <<a>>[1] = a
      /\ <<a, b>> \in Seq(S) /\ c \in S /\ Len(<<a, b>>) = 2 /\ <<a, b>>[1] = a
      /\ <<a, b>>[2] = b
  OBVIOUS
<1> HIDE DEF S
<1>2. p \in Seq(S) /\ Len(p) = 2 /\ p[1] = a /\ p[2] = b
  BY <1>1
<1>3. q \in Seq(S) /\ Len(q) = 3 /\ q[1] = a /\ q[2] = b /\ q[3] = c
  BY <1>1
<1> HIDE DEF p, q
<1>4. p = <<a, b>> /\ q = <<a, b, c>>
  BY <1>2, <1>3
<1> QED
  BY <1>4 DEF p, q

\* The shared secret names the key it was made with.
LEMMA EsInjective == \A a, b : Es(a) = Es(b) => a = b
<1> SUFFICES ASSUME NEW a, NEW b, Es(a) = Es(b) PROVE a = b
  OBVIOUS
<1>1. a \in Es(b) /\ b \in Es(a)
  BY Zenon DEF Es
<1> QED
  BY <1>1, Zenon DEF Es

\* The frame of an act may be on its way.
LEMMA ActOK ==
    ASSUME ownKey \in Keys, NEW s \in Side, NEW c \in ActSeals(s)
    PROVE  Frame(c, 0, ActSize) \in Seq(Sendable(s))
<1>1. c \in Seal
  BY Ciphers, BrontideAssumption, Zenon DEF ActSeals
<1>2. ASSUME NEW k \in 1..2
      PROVE  [seal |-> c, what |-> 0, part |-> k, of |-> 2] \in Sendable(s)
  BY <1>1 DEF Sendable, OfAct, Token
<1> QED
  BY <1>2, FrameOK DEF ActSize

\* An act that opens was sealed by the other side for its act.
LEMMA ActOpens ==
    ASSUME BInv, NEW s \in Side, Complete(s), NEW c, Len(c.key) < 4, Opens(Data(s), c)
    PROVE  c \in ActSeals(Other(s)) \cup {NoCipher}
<1> DEFINE o == Other(s)
           tk == Data(s)[Len(Data(s))]
<1>0. /\ BTypes /\ Reading(s) /\ Arriving(s) /\ o \in Side /\ Sealing(o)
      /\ seals[o] \in Seq(Seal) /\ ownKey \in Keys
  BY Sides, Zenon DEF BInv, BTypes
<1>1. tk \in Sendable(o) /\ tk.seal = c
  BY <1>0, DataOK, OpensLast
<1> HIDE DEF tk, o
<1>2. OfHeader(o, tk) \/ OfPayload(o, tk) => Len(tk.seal.key) = 4
  BY <1>0, <1>1, ActOrMessage, Zenon
<1>3. ~ (OfHeader(o, tk) \/ OfPayload(o, tk))
  <2>1. ~ (4 < 4)
    OBVIOUS
  <2> QED
    BY <1>1, <1>2, <2>1, Zenon
<1>4. OfAct(o, tk)
  BY <1>1, <1>3 DEF Sendable
<1> QED
  BY <1>1, <1>4 DEF OfAct, o

\* hsk_brontide_on_connect.
LEMMA OnConnectKeepsInv == ASSUME BInv, OnConnect PROVE BInv'
<1> DEFINE i == "initiator"
           r == "responder"
<1>0. /\ BTypes /\ Handshake /\ Side = {i, r} /\ i # r /\ Other(i) = r /\ Other(r) = i
      /\ i \in Side /\ r \in Side
  BY Sides DEF BInv, Side
<1>1. /\ state[i] = "IDLE" /\ ck' = [ck EXCEPT ![i] = <<Es(TheirKey)>>]
      /\ state' = [state EXCEPT ![i] = "TWO", ![r] = "ONE"]
      /\ need' = [s \in Side |-> 2]
      /\ UNCHANGED <<ownKey, send, recv, hasSize, buf, input, sent, got, seals>>
  BY DEF OnConnect, ActSize
<1>2. ck'[i] = <<Es(TheirKey)>> /\ <<Es(TheirKey)>> \in Seq(Secret)
  BY <1>0, <1>1, BrontideAssumption DEF BTypes, Secret
<1>3. Put(i, Frame(Cipher(<<Es(TheirKey)>>), 0, ActSize))
  BY <1>2, Zenon DEF OnConnect
<1>4. ASSUME NEW s \in Side
      PROVE  Sealing(s)' /\ Line(s)' = Line(s) /\ Sendable(s)' = Sendable(s)
  BY <1>1, NotSealing DEF BInv
<1>5. /\ wire' \in [Side -> Seq(Token)] /\ wire'[i] = wire[i]
      /\ wire'[r] \in Seq(Sendable(i))
  <2>1. Frame(Cipher(<<Es(TheirKey)>>), 0, ActSize) \in Seq(Sendable(i))
    <3>1. Cipher(<<Es(TheirKey)>>) \in ActSeals(i) /\ ownKey \in Keys
      BY <1>0 DEF ActSeals, BTypes
    <3> QED
      BY <1>0, <3>1, ActOK
  <2>2. Arriving(r) /\ Sendable(i)' = Sendable(i)
    BY <1>0, <1>4 DEF BInv
  <2> QED
    BY <1>0, <1>3, <2>1, <2>2, PutOK
<1>6. state' = [s \in Side |-> IF s = i THEN "TWO" ELSE "ONE"]
  BY <1>0, <1>1, Zenon DEF BTypes
<1>7. state[r] = "IDLE"
  BY <1>0, <1>1, Zenon DEF Handshake
<1>8. BTypes'
  BY <1>0, <1>1, <1>2, <1>5, <1>6, SMTT(30) DEF BTypes
<1>9. Handshake'
  BY <1>0, <1>1, <1>2, <1>6 DEF Handshake
<1>10. ASSUME NEW s \in Side PROVE Reading(s)' /\ Arriving(s)'
  <2>1. state[s] = "IDLE" /\ Reading(s) /\ Arriving(s) /\ Other(s) \in Side
    BY <1>0, <1>1, <1>7 DEF BInv
  <2>2. state'[s] \in {"ONE", "TWO"} /\ need'[s] = 2
    BY <1>0, <1>1, <1>6
  <2>3. Reading(s)'
    BY <1>1, <2>1, <2>2 DEF Reading
  <2>4. wire'[s] \in Seq(Sendable(Other(s)))
    BY <1>0, <1>5, <2>1 DEF Arriving
  <2>5. Arriving(s)'
    BY <1>1, <1>4, <2>1, <2>4 DEF Arriving
  <2> QED
    BY <2>3, <2>5
<1> QED
  BY <1>4, <1>8, <1>9, <1>10 DEF BInv

\* hsk_brontide_parse, ACT_ONE: the responder has the key that was dialled.
LEMMA ActOneKeepsInv == ASSUME BInv, ActOne PROVE BInv'
<1> DEFINE i == "initiator"
           r == "responder"
           mixed == <<Es(ownKey), Ee>>
<1>0. /\ BTypes /\ Handshake /\ Side = {i, r} /\ i # r /\ Other(i) = r /\ Other(r) = i
      /\ i \in Side /\ r \in Side /\ Reading(r) /\ Arriving(r) /\ Sealing(r)
      /\ ownKey \in Keys /\ Arriving(i)
  BY Sides DEF BInv, Side, BTypes
<1>1. /\ Complete(r) /\ state[r] = "ONE" /\ Opens(Data(r), Cipher(<<Es(ownKey)>>))
      /\ ck' = [ck EXCEPT ![r] = mixed]
      /\ state' = [state EXCEPT ![r] = "THREE"] /\ Consume(r, 2)
      /\ UNCHANGED <<ownKey, send, recv, hasSize, sent, got, seals>>
  <2>1. Append(<<Es(ownKey)>>, Ee) = mixed
    BY Mixing, Zenon
  <2> HIDE DEF mixed
  <2> QED
    BY <2>1, Zenon DEF ActOne, ActSize
<1>2. ck'[r] = mixed /\ mixed \in Seq(Secret) /\ ck' \in [Side -> Seq(Secret)]
      /\ ck'[i] = ck[i]
  <2>1. Es(ownKey) \in Secret /\ Ee \in Secret
    BY <1>0 DEF Secret
  <2> HIDE DEF Secret
  <2>2. mixed \in Seq(Secret)
    BY <2>1
  <2> HIDE DEF mixed
  <2> QED
    BY <1>0, <1>1, <2>2 DEF BTypes
<1>3. Put(r, Frame(Cipher(mixed), 0, ActSize))
  BY <1>2, Zenon DEF ActOne
<1> HIDE DEF mixed
<1>4. ownKey = TheirKey
  <2>1. /\ Len(Cipher(<<Es(ownKey)>>).key) = 1 /\ Len(NoCipher.key) = 0
        /\ Len(Cipher(Chain).key) = 3
    BY <1>0, Ciphers, Zenon
  <2>2. Cipher(<<Es(ownKey)>>) \in ActSeals(i) \cup {NoCipher}
    <3>0. 1 < 4
      OBVIOUS
    <3>1. Len(Cipher(<<Es(ownKey)>>).key) < 4
      BY <2>1, <3>0, Zenon
    <3> QED
      BY <1>0, <1>1, <3>1, ActOpens
  <2>3. Cipher(<<Es(ownKey)>>) = Cipher(<<Es(TheirKey)>>)
    <3>1. \/ Cipher(<<Es(ownKey)>>) = Cipher(<<Es(TheirKey)>>)
          \/ Cipher(<<Es(ownKey)>>) = Cipher(Chain) \/ Cipher(<<Es(ownKey)>>) = NoCipher
      BY <2>2, Zenon DEF ActSeals
    <3>2. 1 # 0 /\ 1 # 3
      OBVIOUS
    <3> QED
      BY <2>1, <3>1, <3>2, Zenon
  <2>4. <<Es(ownKey)>> = <<Es(TheirKey)>>
    BY <2>3 DEF Cipher
  <2>5. Es(ownKey) = Es(TheirKey)
    BY <2>4, Zenon
  <2> QED
    BY <2>5, EsInjective
<1>5. ASSUME NEW s \in Side
      PROVE  Sealing(s)' /\ Line(s)' = Line(s) /\ Sendable(s)' = Sendable(s)
  BY <1>1, NotSealing DEF BInv
<1>6. /\ wire' \in [Side -> Seq(Token)] /\ wire'[r] = wire[r]
      /\ wire'[i] \in Seq(Sendable(r))
  <2>1. Cipher(mixed) \in ActSeals(r)
    BY DEF ActSeals, mixed
  <2>2. Frame(Cipher(mixed), 0, ActSize) \in Seq(Sendable(r))
    BY <1>0, <2>1, ActOK
  <2>3. Sendable(r)' = Sendable(r)
    BY <1>0, <1>5, Zenon
  <2> QED
    BY <1>0, <1>3, <2>2, <2>3, PutOK
<1>7. /\ buf' \in [Side -> Seq(Token)] /\ input' \in [Side -> Seq(Token)]
      /\ need' \in [Side -> Nat]
      /\ buf'[r] = <<>> /\ input'[r] \in Seq(Sendable(i)) /\ need'[r] = 2
      /\ buf'[i] = buf[i] /\ input'[i] = input[i] /\ need'[i] = need[i]
  BY <1>0, <1>1, ConsumeOK
<1>8. state' \in [Side -> {"IDLE", "ONE", "TWO", "THREE", "DONE", "NONE"}]
      /\ state'[r] = "THREE" /\ state'[i] = state[i]
  BY <1>0, <1>1, Zenon DEF BTypes
<1>9. BTypes'
  BY <1>0, <1>1, <1>2, <1>6, <1>7, <1>8, Zenon DEF BTypes
<1>10. Handshake'
  BY <1>0, <1>1, <1>2, <1>4, <1>8, SMTT(30) DEF Handshake, mixed
<1>11. Reading(r)'
  BY <1>0, <1>1, <1>7, <1>8, SMTT(30) DEF Reading
<1>12. Arriving(r)'
  <2>1. <<>> \in Seq(Sendable(i))
    OBVIOUS
  <2>2. wire[r] \in Seq(Sendable(i))
    BY <1>0 DEF Arriving
  <2> QED
    BY <1>0, <1>5, <1>6, <1>7, <2>1, <2>2 DEF Arriving
<1>13. Sealing(r)' /\ Continues(r) /\ Sendable(r)' = Sendable(r) /\ ownKey' = ownKey
  BY <1>0, <1>1, <1>5, Continuing, Zenon
<1>14. Rests(i)
  BY <1>0, <1>1, <1>7, <1>8 DEF Rests
<1>15. wire'[Other(r)] \in Seq(Sendable(r)') /\ Sendable(r) \subseteq Sendable(r)'
  BY <1>0, <1>6, <1>13, ZenonT(40)
<1> QED
  BY <1>0, <1>9, <1>10, <1>11, <1>12, <1>13, <1>14, <1>15, SenderStep, Zenon

\* hsk_brontide_split: both sides have mixed the same, and each starts to send
\* with the cipher that the other expects.
LEMMA SplitOK ==
    ASSUME BInv, NEW s \in Side, Split(s, Chain), send[s] = NoCipher,
           UNCHANGED <<ownKey, sent, seals>>
    PROVE  /\ send' \in [Side -> Seal] /\ recv' \in [Side -> Seal]
           /\ send'[s] # NoCipher /\ send'[Other(s)] = send[Other(s)]
           /\ recv'[s] = Line(Other(s))[1] /\ recv'[Other(s)] = recv[Other(s)]
           /\ seals[s] = <<>> /\ sent[s] = 0
           /\ Sealing(s)' /\ Line(s)' = Line(s) /\ Sendable(s)' = Sendable(s)
<1> DEFINE o == Other(s)
<1>0. BTypes /\ o \in Side /\ o # s /\ Sealing(s) /\ Sealing(o)
  BY Sides DEF BInv
<1>1. send' = [send EXCEPT ![s] = Base(s)] /\ recv' = [recv EXCEPT ![s] = Base(o)]
  BY Sides, Zenon DEF Split, Base, Side
<1>2. /\ Base(s) \in Seal /\ Base(o) \in Seal /\ Base(s) # NoCipher
      /\ Base(s) \in SealOf(s)
  BY <1>0, Ciphers
<1> HIDE DEF o
<1>3. /\ send' \in [Side -> Seal] /\ recv' \in [Side -> Seal]
      /\ send'[s] = Base(s) /\ send'[o] = send[o]
      /\ recv'[s] = Base(o) /\ recv'[o] = recv[o]
  BY <1>0, <1>1, <1>2, ZenonT(30) DEF BTypes
<1>4. seals[s] = <<>> /\ sent[s] = 0 /\ Line(o)[1] = Base(o) /\ Line(s)[1] = Base(s)
  BY <1>0, Zenon DEF Sealing
<1>5. Now(s)' = Now(s)
  BY <1>2, <1>3 DEF Now, Base, Chain
<1>6. Line(s)' = Line(s)
  BY <1>5, Zenon DEF Line
<1>7. Sealing(s)'
  BY <1>0, <1>2, <1>3, <1>4, <1>6, SMTT(30) DEF Sealing, SealOf, Base
<1>8. Sendable(s)' = Sendable(s)
  BY <1>6, Zenon DEF Sendable, OfAct, ActSeals, OfHeader, OfPayload
<1> QED
  BY <1>2, <1>3, <1>4, <1>6, <1>7, <1>8 DEF o

\* ACT_TWO: only the owner of the key that was dialled can have sealed it.
LEMMA ActTwoKeepsInv == ASSUME BInv, ActTwo PROVE BInv'
<1> DEFINE i == "initiator"
           r == "responder"
<1>0. /\ BTypes /\ Handshake /\ Side = {i, r} /\ i # r /\ Other(i) = r /\ Other(r) = i
      /\ i \in Side /\ r \in Side /\ Reading(i) /\ Arriving(i) /\ Sealing(i)
      /\ ownKey \in Keys /\ Arriving(r)
  BY Sides DEF BInv, Side, BTypes
<1>1. /\ Complete(i) /\ state[i] = "TWO" /\ Opens(Data(i), Cipher(Append(ck[i], Ee)))
      /\ ck' = [ck EXCEPT ![i] = Append(Append(ck[i], Ee), Se)]
      /\ Put(i, Frame(Cipher(ck'[i]), 0, ActSize)) /\ Split(i, ck'[i])
      /\ state' = [state EXCEPT ![i] = "DONE"] /\ Consume(i, 2)
      /\ UNCHANGED <<ownKey, hasSize, sent, got, seals>>
  BY DEF ActTwo, HeaderSize
<1>2. Append(ck[i], Ee) = <<Es(TheirKey), Ee>> /\ Append(Append(ck[i], Ee), Se) = Chain
  BY <1>0, <1>1, Mixing, ZenonT(30) DEF Handshake, Chain
<1>3. ck'[i] = Chain /\ ck' \in [Side -> Seq(Secret)] /\ ck'[r] = ck[r]
  <2>1. Chain \in Seq(Secret)
    BY Ciphers DEF Seal, Cipher
  <2> QED
    BY <1>0, <1>1, <1>2, <2>1, Zenon DEF BTypes
<1>4. Put(i, Frame(Cipher(Chain), 0, ActSize)) /\ Split(i, Chain)
  BY <1>1, <1>3, Zenon
<1>5. ownKey = TheirKey
  <2> DEFINE c == Cipher(<<Es(TheirKey), Ee>>)
  <2>1. /\ Len(c.key) = 2 /\ Len(NoCipher.key) = 0
        /\ Len(Cipher(<<Es(TheirKey)>>).key) = 1
    BY <1>0, Ciphers, BrontideAssumption, Zenon
  <2>2. c \in ActSeals(r) \cup {NoCipher}
    <3>1. 2 < 4
      OBVIOUS
    <3>2. Len(c.key) < 4
      BY <2>1, <3>1, Zenon
    <3>3. Opens(Data(i), c)
      BY <1>1, <1>2
    <3> HIDE DEF c
    <3> QED
      BY <1>0, <1>1, <3>2, <3>3, ActOpens
  <2>3. c = Cipher(<<Es(ownKey), Ee>>)
    <3>1. \/ c = Cipher(<<Es(ownKey), Ee>>) \/ c = Cipher(<<Es(TheirKey)>>)
          \/ c = NoCipher
      BY <1>0, <2>2, Zenon DEF ActSeals
    <3>2. 2 # 0 /\ 2 # 1
      OBVIOUS
    <3> HIDE DEF c
    <3> QED
      BY <2>1, <3>1, <3>2, Zenon
  <2>4. <<Es(TheirKey), Ee>> = <<Es(ownKey), Ee>>
    BY <2>3 DEF Cipher
  <2>5. Es(ownKey) = Es(TheirKey)
    BY <2>4, Zenon
  <2> QED
    BY <2>5, EsInjective
<1>6. send[i] = NoCipher /\ got[i] = <<>> /\ hasSize[i] = FALSE /\ sent[i] <= Len(Todo[i])
  BY <1>0, <1>1, Zenon DEF Reading
<1>7. /\ send' \in [Side -> Seal] /\ recv' \in [Side -> Seal]
      /\ send'[i] # NoCipher /\ send'[r] = send[r]
      /\ recv'[i] = Line(r)[1] /\ recv'[r] = recv[r]
      /\ seals[i] = <<>> /\ sent[i] = 0
      /\ Sealing(i)' /\ Line(i)' = Line(i) /\ Sendable(i)' = Sendable(i)
  BY <1>0, <1>1, <1>4, <1>6, SplitOK, Zenon
<1>8. Line(r)' = Line(r) /\ Sendable(r)' = Sendable(r)
  BY <1>0, <1>1, <1>7, NotSealing, Zenon DEF BInv
<1>9. /\ wire' \in [Side -> Seq(Token)] /\ wire'[i] = wire[i]
      /\ wire'[r] \in Seq(Sendable(i))
  <2>1. Cipher(Chain) \in ActSeals(i)
    BY DEF ActSeals
  <2>2. Frame(Cipher(Chain), 0, ActSize) \in Seq(Sendable(i))
    BY <1>0, <2>1, ActOK
  <2> QED
    BY <1>0, <1>4, <1>7, <2>2, PutOK
<1>10. /\ buf' \in [Side -> Seq(Token)] /\ input' \in [Side -> Seq(Token)]
       /\ need' \in [Side -> Nat]
       /\ buf'[i] = <<>> /\ input'[i] \in Seq(Sendable(r)) /\ need'[i] = 2
       /\ buf'[r] = buf[r] /\ input'[r] = input[r] /\ need'[r] = need[r]
  BY <1>0, <1>1, ConsumeOK, Zenon
<1>11. state' \in [Side -> {"IDLE", "ONE", "TWO", "THREE", "DONE", "NONE"}]
       /\ state'[i] = "DONE" /\ state'[r] = state[r]
  BY <1>0, <1>1 DEF BTypes
<1>12. BTypes'
  BY <1>0, <1>1, <1>3, <1>7, <1>9, <1>10, <1>11, Zenon DEF BTypes
<1>13. Handshake'
  BY <1>0, <1>1, <1>3, <1>5, <1>11, Zenon DEF Handshake
<1>14. 1 <= Len(Line(r))
  <2>1. Len(Line(r)) = Len(seals[r]) + 2 /\ Len(seals[r]) \in Nat
    BY <1>0, LineLength, ZenonT(30)
  <2> QED
    BY <2>1
<1>15. Reading(i)'
  <2>1. Place(i)' = 1
    BY <1>1, <1>6, SMTT(30) DEF Place
  <2>2. Len(seals'[i]) = 2 * sent'[i]
    BY <1>1, <1>7
  <2>3. Len(buf'[i]) < need'[i]
    BY <1>10
  <2>4. sent'[i] <= Len(Todo[i])
    BY <1>1, <1>6, Zenon
  <2>5. Place(i)' <= Len(Line(r)') /\ recv'[i] = Line(r)'[Place(i)']
    BY <1>7, <1>8, <1>14, <2>1, Zenon
  <2>6. state'[i] = "DONE" /\ send'[i] # NoCipher /\ Other(i) = r
    BY <1>0, <1>7, <1>11, Zenon
  <2> QED
    BY <2>2, <2>3, <2>4, <2>5, <2>6, ZenonT(40) DEF Reading
<1>16. Arriving(i)'
  <2>1. <<>> \in Seq(Sendable(r))
    OBVIOUS
  <2>2. wire[i] \in Seq(Sendable(r))
    BY <1>0, Zenon DEF Arriving
  <2> QED
    BY <1>0, <1>8, <1>9, <1>10, <2>1, <2>2 DEF Arriving
<1>17. Continues(i) /\ ownKey' = ownKey
  BY <1>0, <1>1, <1>7, Continuing, Zenon
<1>18. Rests(r)
  BY <1>0, <1>1, <1>7, <1>10, <1>11, ZenonT(30) DEF Rests
<1>19. wire'[Other(i)] \in Seq(Sendable(i)') /\ Sendable(i) \subseteq Sendable(i)'
  BY <1>0, <1>7, <1>9
<1> QED
  BY <1>0, <1>7, <1>12, <1>13, <1>15, <1>16, <1>17, <1>18, <1>19, SenderStep, Zenon

\* ACT_THREE.
LEMMA ActThreeKeepsInv == ASSUME BInv, ActThree PROVE BInv'
<1> DEFINE i == "initiator"
           r == "responder"
<1>0. /\ BTypes /\ Handshake /\ Side = {i, r} /\ i # r /\ Other(i) = r /\ Other(r) = i
      /\ i \in Side /\ r \in Side /\ Reading(r) /\ Arriving(r) /\ Sealing(r)
      /\ Arriving(i)
  BY Sides DEF BInv, Side
<1>1. /\ Complete(r) /\ state[r] = "THREE"
      /\ ck' = [ck EXCEPT ![r] = Append(ck[r], Se)] /\ Split(r, Append(ck[r], Se))
      /\ state' = [state EXCEPT ![r] = "DONE"] /\ Consume(r, 2)
      /\ UNCHANGED <<ownKey, hasSize, wire, sent, got, seals>>
  BY DEF ActThree, HeaderSize
<1>2. Append(ck[r], Se) = Chain
  BY <1>0, <1>1, Mixing, Zenon DEF Handshake, Chain
<1>3. ck' \in [Side -> Seq(Secret)] /\ ck'[i] = ck[i] /\ Split(r, Chain)
  <2>1. Chain \in Seq(Secret)
    BY Ciphers DEF Seal, Cipher
  <2> QED
    BY <1>0, <1>1, <1>2, <2>1, Zenon DEF BTypes
<1>4. send[r] = NoCipher /\ got[r] = <<>> /\ hasSize[r] = FALSE /\ sent[r] <= Len(Todo[r])
  BY <1>0, <1>1, Zenon DEF Reading
<1>5. /\ send' \in [Side -> Seal] /\ recv' \in [Side -> Seal]
      /\ send'[r] # NoCipher /\ send'[i] = send[i]
      /\ recv'[r] = Line(i)[1] /\ recv'[i] = recv[i]
      /\ seals[r] = <<>> /\ sent[r] = 0
      /\ Sealing(r)' /\ Line(r)' = Line(r) /\ Sendable(r)' = Sendable(r)
  BY <1>0, <1>1, <1>3, <1>4, SplitOK, Zenon
<1>6. Line(i)' = Line(i) /\ Sendable(i)' = Sendable(i)
  BY <1>0, <1>1, <1>5, NotSealing, Zenon DEF BInv
<1>7. /\ buf' \in [Side -> Seq(Token)] /\ input' \in [Side -> Seq(Token)]
      /\ need' \in [Side -> Nat]
      /\ buf'[r] = <<>> /\ input'[r] \in Seq(Sendable(i)) /\ need'[r] = 2
      /\ buf'[i] = buf[i] /\ input'[i] = input[i] /\ need'[i] = need[i]
  BY <1>0, <1>1, ConsumeOK, SMTT(30)
<1>8. state' \in [Side -> {"IDLE", "ONE", "TWO", "THREE", "DONE", "NONE"}]
      /\ state'[r] = "DONE" /\ state'[i] = state[i]
  BY <1>0, <1>1 DEF BTypes
<1>9. BTypes'
  BY <1>0, <1>1, <1>3, <1>5, <1>7, <1>8, Zenon DEF BTypes
<1>10. Handshake'
  BY <1>0, <1>1, <1>3, <1>5, <1>8, Zenon DEF Handshake
<1>11. 1 <= Len(Line(i))
  <2>1. Len(Line(i)) = Len(seals[i]) + 2 /\ Len(seals[i]) \in Nat
    BY <1>0, LineLength, ZenonT(30)
  <2> QED
    BY <2>1
<1>12. Reading(r)'
  <2>1. Place(r)' = 1
    BY <1>1, <1>4 DEF Place
  <2>2. Len(seals'[r]) = 2 * sent'[r]
    BY <1>1, <1>5
  <2>3. Len(buf'[r]) < need'[r]
    BY <1>7
  <2>4. sent'[r] <= Len(Todo[r])
    BY <1>1, <1>4, Zenon
  <2>5. Place(r)' <= Len(Line(i)') /\ recv'[r] = Line(i)'[Place(r)']
    BY <1>5, <1>6, <1>11, <2>1, Zenon
  <2>6. state'[r] = "DONE" /\ send'[r] # NoCipher /\ Other(r) = i
    BY <1>0, <1>5, <1>8, Zenon
  <2> QED
    BY <2>2, <2>3, <2>4, <2>5, <2>6, ZenonT(40) DEF Reading
<1>13. Arriving(r)' /\ wire'[i] \in Seq(Sendable(r)')
  <2>1. <<>> \in Seq(Sendable(i))
    OBVIOUS
  <2>2. wire[r] \in Seq(Sendable(i)) /\ wire[i] \in Seq(Sendable(r))
    BY <1>0, Zenon DEF Arriving
  <2> QED
    BY <1>0, <1>1, <1>5, <1>6, <1>7, <2>1, <2>2, Zenon DEF Arriving
<1>14. Continues(r) /\ ownKey' = ownKey
  BY <1>0, <1>1, <1>5, Continuing, Zenon
<1>15. Rests(i)
  BY <1>0, <1>1, <1>5, <1>7, <1>8, Zenon DEF Rests
<1>16. wire'[Other(r)] \in Seq(Sendable(r)') /\ Sendable(r) \subseteq Sendable(r)'
  BY <1>0, <1>5, <1>13
<1> QED
  BY <1>0, <1>5, <1>9, <1>10, <1>12, <1>13, <1>14, <1>15, <1>16, SenderStep, Zenon

\* One more seal: the line without the state.
LineOf(q, c) == q \o <<c, Advance(c)>>
Sealed(s, q, c) ==
    /\ q \in Seq(SealOf(s)) /\ c \in SealOf(s)
    /\ LineOf(q, c)[1] = Base(s)
    /\ \A i \in 1..(Len(q) + 1) : LineOf(q, c)[i + 1] = Advance(LineOf(q, c)[i])
    /\ \A i, j \in 1..Len(q) : i < j => Before(q[i], q[j])
    /\ \A i \in 1..Len(q) : Before(q[i], c)

\* Sealing with the cipher that comes next lets the line grow at its end.
LEMMA SealedGrows ==
    ASSUME NEW s \in Side, NEW q, NEW c, Sealed(s, q, c)
    PROVE  /\ Sealed(s, Append(q, c), Advance(c)) /\ Len(q) \in Nat
           /\ Len(Append(q, c)) = Len(q) + 1
           /\ \A j \in 1..(Len(q) + 2) :
                 LineOf(Append(q, c), Advance(c))[j] = LineOf(q, c)[j]
           /\ LineOf(q, c)[Len(q) + 1] = c /\ LineOf(q, c)[Len(q) + 2] = Advance(c)
<1> DEFINE n == Len(q)
           d == Advance(c)
           e == Advance(d)
           q2 == Append(q, c)
           L == LineOf(q, c)
           M == LineOf(q2, d)
<1>1. /\ q \in Seq(SealOf(s)) /\ c \in SealOf(s) /\ n \in Nat
      /\ \A i \in 1..n : q[i] \in SealOf(s) /\ Before(q[i], c)
      /\ \A i, j \in 1..n : i < j => Before(q[i], q[j])
      /\ L[1] = Base(s) /\ \A i \in 1..(n + 1) : L[i + 1] = Advance(L[i])
  BY DEF Sealed
<1>2. d \in SealOf(s) /\ Before(c, d) /\ e \in SealOf(s) /\ Before(d, e)
  BY <1>1, AdvanceOK, Zenon
<1> HIDE DEF d, e, n, L, M
<1>3. /\ q2 \in Seq(SealOf(s)) /\ Len(q2) = n + 1 /\ q2[n + 1] = c
      /\ \A i \in 1..n : q2[i] = q[i]
  <2>1. q \in Seq(SealOf(s)) /\ c \in SealOf(s)
    BY <1>1, Zenon
  <2> QED
    BY <2>1, AppendProperties DEF n
<1> HIDE DEF q2
<1>4. L = q \o <<c, d>> /\ M = q2 \o <<d, e>>
  BY DEF L, M, LineOf, d, e
<1>5. /\ Len(L) = n + 2 /\ L[n + 1] = c /\ L[n + 2] = d
      /\ \A i \in 1..n : L[i] = q[i]
  <2> DEFINE two == <<c, d>>
  <2>1. two \in Seq(SealOf(s)) /\ Len(two) = 2 /\ two[1] = c /\ two[2] = d
    BY <1>1, <1>2, SMTT(30)
  <2> HIDE DEF two
  <2>2. Len(L) = n + 2 /\ \A i \in 1..(n + 2) : L[i] = IF i <= n THEN q[i] ELSE two[i - n]
    BY <1>1, <1>4, <2>1, ConcatProperties DEF n, two
  <2>3. (n + 1) - n = 1 /\ (n + 2) - n = 2 /\ n + 1 \in 1..(n + 2) /\ n + 2 \in 1..(n + 2)
        /\ ~ (n + 1 <= n) /\ ~ (n + 2 <= n)
    BY <1>1
  <2>4. L[n + 1] = two[1] /\ L[n + 2] = two[2]
    BY <2>2, <2>3, Zenon
  <2>5. \A i \in 1..n : L[i] = q[i]
    BY <1>1, <2>2
  <2> QED
    BY <2>1, <2>2, <2>4, <2>5, SMTT(30)
<1>6. /\ M[n + 2] = d /\ M[n + 3] = e
      /\ \A i \in 1..(n + 1) : M[i] = q2[i]
  <2> DEFINE two == <<d, e>>
  <2>1. two \in Seq(SealOf(s)) /\ Len(two) = 2 /\ two[1] = d /\ two[2] = e
    BY <1>2
  <2> HIDE DEF two
  <2>2. \A i \in 1..(n + 3) : M[i] = IF i <= n + 1 THEN q2[i] ELSE two[i - (n + 1)]
    <3>1. \A i \in 1..(Len(q2) + Len(two)) :
             M[i] = IF i <= Len(q2) THEN q2[i] ELSE two[i - Len(q2)]
      BY <1>3, <1>4, <2>1, ConcatProperties, ZenonT(40) DEF two
    <3>2. Len(q2) + Len(two) = n + 3
      BY <1>1, <1>3, <2>1
    <3> QED
      BY <1>3, <3>1, <3>2, Zenon
  <2>3. (n + 2) - (n + 1) = 1 /\ (n + 3) - (n + 1) = 2 /\ n + 2 \in 1..(n + 3)
        /\ n + 3 \in 1..(n + 3) /\ ~ (n + 2 <= n + 1) /\ ~ (n + 3 <= n + 1)
    BY <1>1
  <2>4. M[n + 2] = two[1] /\ M[n + 3] = two[2]
    BY <2>2, <2>3, Zenon
  <2>5. \A i \in 1..(n + 1) : M[i] = q2[i]
    BY <1>1, <2>2
  <2> QED
    BY <2>1, <2>4, <2>5
<1>7. ASSUME NEW j \in 1..(n + 2) PROVE M[j] = L[j]
  <2>1. j \in 1..n \/ j = n + 1 \/ j = n + 2
    BY <1>1
  <2>2. n + 1 \in 1..(n + 1) /\ \A i \in 1..n : i \in 1..(n + 1)
    BY <1>1
  <2> QED
    BY <1>3, <1>5, <1>6, <2>1, <2>2, Zenon
<1>8. M[1] = Base(s)
  BY <1>1, <1>7
<1>9. ASSUME NEW i \in 1..(n + 2) PROVE M[i + 1] = Advance(M[i])
  <2>1. CASE i = n + 2
    <3>1. (n + 2) + 1 = n + 3
      BY <1>1
    <3> QED
      BY <1>6, <2>1, <3>1, Zenon DEF e
  <2>2. CASE i # n + 2
    <3>1. i \in 1..(n + 1) /\ i + 1 \in 1..(n + 2)
      BY <1>1, <2>2
    <3>2. M[i + 1] = L[i + 1] /\ M[i] = L[i]
      BY <1>7, <3>1
    <3> QED
      BY <1>1, <3>1, <3>2, Zenon
  <2> QED
    BY <2>1, <2>2, Zenon
<1>10. ASSUME NEW i \in 1..(n + 1), NEW j \in 1..(n + 1), i < j
       PROVE  Before(q2[i], q2[j])
  <2>1. i \in 1..n
    BY <1>1, <1>10
  <2>2. CASE j = n + 1
    BY <1>1, <1>3, <2>1, <2>2, Zenon
  <2>3. CASE j # n + 1
    <3>1. j \in 1..n
      BY <1>1, <2>3
    <3> QED
      BY <1>1, <1>3, <1>10, <2>1, <3>1, Zenon
  <2> QED
    BY <2>2, <2>3, Zenon
<1>11. ASSUME NEW i \in 1..(n + 1) PROVE Before(q2[i], d)
  <2>1. CASE i = n + 1
    BY <1>2, <1>3, <2>1, Zenon
  <2>2. CASE i # n + 1
    <3>1. i \in 1..n
      BY <1>1, <2>2, SMTT(30)
    <3>2. q2[i] = q[i] /\ Before(q[i], c) /\ q[i] \in SealOf(s)
      BY <1>1, <1>3, <3>1
    <3> QED
      BY <1>1, <1>2, <3>2, BeforeOrder, Zenon
  <2> QED
    BY <2>1, <2>2, Zenon
<1>12. (n + 1) + 1 = n + 2
  BY <1>1
<1>13. Sealed(s, q2, d)
  <2>1. \A i \in 1..(Len(q2) + 1) : LineOf(q2, d)[i + 1] = Advance(LineOf(q2, d)[i])
    BY <1>3, <1>9, <1>12, Zenon DEF M
  <2> QED
    BY <1>2, <1>3, <1>8, <1>10, <1>11, <2>1, Zenon DEF Sealed, M
<1> QED
  BY <1>1, <1>3, <1>5, <1>7, <1>13, Zenon DEF n, d, L, M, q2

\* Appending two is appending one after the other.
LEMMA AppendTwo ==
    ASSUME NEW S, NEW q \in Seq(S), NEW a \in S, NEW b \in S
    PROVE  q \o <<a, b>> = Append(Append(q, a), b)
<1> DEFINE x == q \o <<a, b>>
           y == Append(Append(q, a), b)
           n == Len(q)
<1>1. n \in Nat
  OBVIOUS
<1>2. /\ y \in Seq(S) /\ Len(y) = n + 2 /\ y[n + 2] = b /\ y[n + 1] = a
      /\ \A i \in 1..n : y[i] = q[i]
  BY <1>1
<1>3. /\ x \in Seq(S) /\ Len(x) = n + 2 /\ x[n + 2] = b /\ x[n + 1] = a
      /\ \A i \in 1..n : x[i] = q[i]
  BY <1>1
<1> HIDE DEF x, y, n
<1>4. ASSUME NEW i \in 1..(n + 2) PROVE x[i] = y[i]
  <2>1. i \in 1..n \/ i = n + 1 \/ i = n + 2
    BY <1>1
  <2> QED
    BY <1>2, <1>3, <2>1
<1>5. x = y
  BY <1>1, <1>2, <1>3, <1>4, SeqEqual
<1> QED
  BY <1>5 DEF x, y

\* hsk_brontide_write seals once or twice.
LEMMA WriteSeals ==
    ASSUME BInv, NEW s \in Side, NEW k \in 0..4, Write(s, k)
    PROVE  /\ send' \in [Side -> Seal] /\ seals' \in [Side -> Seq(Seal)]
           /\ sent' \in [Side -> Nat] /\ Sealing(s)'
           /\ Len(seals[s]) \in Nat
           /\ Len(seals'[s]) = IF k >= 2 THEN Len(seals[s]) + 2 ELSE Len(seals[s]) + 1
           /\ Len(Line(s)') = Len(seals'[s]) + 2
           /\ \A j \in 1..(Len(seals[s]) + 2) : Line(s)'[j] = Line(s)[j]
           /\ Line(s)[Len(seals[s]) + 1] = send[s]
           /\ Line(s)[Len(seals[s]) + 2] = Advance(send[s])
           /\ sent'[s] = IF k = 4 THEN sent[s] + 1 ELSE sent[s]
           /\ send'[s] # NoCipher
           /\ \A t \in Side \ {s} : /\ send'[t] = send[t] /\ seals'[t] = seals[t]
                                    /\ sent'[t] = sent[t]
<1> DEFINE q == seals[s]
           n == Len(q)
           c1 == send[s]
           c2 == Advance(c1)
           c3 == Advance(c2)
           q1 == Append(q, c1)
           q2 == Append(q1, c2)
           L == LineOf(q, c1)
           L1 == LineOf(q1, c2)
           L2 == LineOf(q2, c3)
<1>0. /\ BTypes /\ Sealing(s) /\ Reading(s) /\ state[s] = "DONE" /\ c1 # NoCipher
      /\ sent[s] \in Nat
  BY Zenon DEF BInv, Write, Reading, BTypes
<1>1. Line(s) = L /\ Sealed(s, q, c1)
  <2>1. Line(s) = L
    BY <1>0, Zenon DEF Line, Now, LineOf
  <2> QED
    BY <1>0, <2>1, Zenon DEF Sealing, Sealed
<1>2. /\ Sealed(s, q1, c2) /\ n \in Nat /\ Len(q1) = n + 1
      /\ \A j \in 1..(n + 2) : L1[j] = L[j]
      /\ L[n + 1] = c1 /\ L[n + 2] = c2
  BY <1>1, SealedGrows, SMTT(30)
<1> HIDE DEF L, L1, L2, q1, c2
<1>3. /\ Sealed(s, q2, c3) /\ Len(q2) = Len(q1) + 1
      /\ \A j \in 1..(Len(q1) + 2) : L2[j] = L1[j]
  <2>1. Sealed(s, q1, c2)
    BY <1>2, Zenon
  <2> HIDE DEF n
  <2> QED
    BY <2>1, SealedGrows DEF L1, L2
<1> HIDE DEF q2, c3, n
<1>4. Len(q2) = n + 2 /\ \A j \in 1..(n + 2) : L2[j] = L[j]
  <2>1. Len(q2) = n + 2 /\ \A j \in 1..(n + 2) : j \in 1..(Len(q1) + 2)
    BY <1>2, <1>3
  <2> QED
    BY <1>2, <1>3, <2>1, Zenon
<1>5. q \o <<c1, c2>> = q2
  <2>1. q \in Seq(SealOf(s)) /\ c1 \in SealOf(s) /\ c2 \in SealOf(s)
    BY <1>1, <1>2 DEF Sealed
  <2> QED
    BY <2>1, AppendTwo, SMTT(30) DEF q1, q2
<1>6. /\ IF k >= 2
         THEN send' = [send EXCEPT ![s] = c3] /\ seals' = [seals EXCEPT ![s] = q2]
         ELSE send' = [send EXCEPT ![s] = c2] /\ seals' = [seals EXCEPT ![s] = q1]
      /\ IF k = 4 THEN sent' = [sent EXCEPT ![s] = sent[s] + 1] ELSE UNCHANGED sent
  BY <1>5, Zenon DEF Write, c2, c3, q1
<1>7. /\ sent' \in [Side -> Nat] /\ sent'[s] = IF k = 4 THEN sent[s] + 1 ELSE sent[s]
      /\ \A t \in Side \ {s} : sent'[t] = sent[t]
  <2>1. CASE k = 4
    <3>1. sent' = [sent EXCEPT ![s] = sent[s] + 1] /\ sent[s] + 1 \in Nat
      BY <1>0, <1>6, <2>1
    <3>2. sent \in [Side -> Nat]
      BY <1>0 DEF BTypes
    <3>3. /\ sent' \in [Side -> Nat] /\ sent'[s] = sent[s] + 1
          /\ \A t \in Side \ {s} : sent'[t] = sent[t]
      BY <3>1, <3>2, Zenon
    <3> QED
      BY <2>1, <3>3
  <2>2. CASE k # 4
    BY <1>0, <1>6, <2>2, Zenon DEF BTypes
  <2> QED
    BY <2>1, <2>2
<1>8. ASSUME NEW r, NEW c, Sealed(s, r, c),
             send' = [send EXCEPT ![s] = c], seals' = [seals EXCEPT ![s] = r],
             r # <<>>
      PROVE  /\ send' \in [Side -> Seal] /\ seals' \in [Side -> Seq(Seal)]
             /\ send'[s] = c /\ seals'[s] = r /\ c # NoCipher
             /\ \A t \in Side \ {s} : send'[t] = send[t] /\ seals'[t] = seals[t]
             /\ Sealing(s)' /\ Line(s)' = LineOf(r, c)
             /\ Len(LineOf(r, c)) = Len(r) + 2
  <2>1. r \in Seq(SealOf(s)) /\ c \in SealOf(s)
    BY <1>8 DEF Sealed
  <2>2. c \in Seal /\ c # NoCipher /\ SealOf(s) \subseteq Seal
    BY <2>1, Ciphers
  <2>3. r \in Seq(Seal)
    BY <2>1, <2>2, SeqMonotonic, Zenon
  <2>4. /\ send' \in [Side -> Seal] /\ seals' \in [Side -> Seq(Seal)]
        /\ send'[s] = c /\ seals'[s] = r
        /\ \A t \in Side \ {s} : send'[t] = send[t] /\ seals'[t] = seals[t]
    BY <1>0, <1>8, <2>2, <2>3, Zenon DEF BTypes
  <2>5. Line(s)' = LineOf(r, c)
    <3>1. Now(s)' = c
      BY <2>2, <2>4 DEF Now, NoCipher, Cipher
    <3> QED
      BY <2>4, <3>1, Zenon DEF Line, LineOf, Advance
  <2>6. Sealing(s)'
    <3>1. SealOf(s)' = SealOf(s) /\ Base(s)' = Base(s) /\ NoCipher' = NoCipher
      BY DEF SealOf, Base, NoCipher, Chain
    <3> QED
      BY <1>8, <2>1, <2>2, <2>4, <2>5, <3>1 DEF Sealing, Sealed, Before, Advance
  <2>7. Len(LineOf(r, c)) = Len(r) + 2
    <3>1. Advance(c) \in SealOf(s)
      BY <2>1, AdvanceOK
    <3>2. <<c, Advance(c)>> \in Seq(SealOf(s)) /\ Len(<<c, Advance(c)>>) = 2
      BY <2>1, <3>1
    <3> QED
      BY <2>1, <3>2, ConcatProperties DEF LineOf
  <2> QED
    BY <2>2, <2>4, <2>5, <2>6, <2>7
<1>9. CASE k >= 2
  <2>1. q2 # <<>>
    BY <1>2, <1>4
  <2>2. /\ send' \in [Side -> Seal] /\ seals' \in [Side -> Seq(Seal)]
        /\ send'[s] = c3 /\ seals'[s] = q2 /\ c3 # NoCipher
        /\ \A t \in Side \ {s} : send'[t] = send[t] /\ seals'[t] = seals[t]
        /\ Sealing(s)' /\ Line(s)' = L2 /\ Len(L2) = Len(q2) + 2
    BY <1>3, <1>6, <1>8, <1>9, <2>1, Zenon DEF L2
  <2> QED
    BY <1>1, <1>2, <1>4, <1>7, <1>9, <2>2, Zenon DEF n, c2
<1>10. CASE ~ (k >= 2)
  <2>1. q1 # <<>>
    BY <1>2
  <2>2. /\ send' \in [Side -> Seal] /\ seals' \in [Side -> Seq(Seal)]
        /\ send'[s] = c2 /\ seals'[s] = q1 /\ c2 # NoCipher
        /\ \A t \in Side \ {s} : send'[t] = send[t] /\ seals'[t] = seals[t]
        /\ Sealing(s)' /\ Line(s)' = L1 /\ Len(L1) = Len(q1) + 2
    <3>1. send' = [send EXCEPT ![s] = c2] /\ seals' = [seals EXCEPT ![s] = q1]
      BY <1>6, <1>10, Zenon
    <3> QED
      BY <1>2, <1>8, <2>1, <3>1, Zenon DEF L1
  <2> QED
    BY <1>1, <1>2, <1>7, <1>10, <2>2, Zenon DEF n, c2
<1> QED
  BY <1>9, <1>10, Zenon

\* What reaches the socket of a message may be on its way.
LEMMA WriteTokens ==
    ASSUME BInv, NEW s \in Side, NEW k \in 0..4, Write(s, k)
    PROVE  \E tks \in Seq(Sendable(s)') : Put(s, tks)
<1> DEFINE n == Len(seals[s])
           m == sent[s]
           size == Todo[s][m + 1]
           header == Frame(send[s], size, 2)
           body == Frame(Advance(send[s]), m + 1, size + 1)
           len == <<0, 1, 2, 2 + size, 2 + size + 1>>[k + 1]
           S == Sendable(s)'
<1> HIDE DEF header, body, len, S
<1>0. /\ BTypes /\ Reading(s) /\ state[s] = "DONE" /\ m \in Nat /\ m < Len(Todo[s])
      /\ n = 2 * m /\ Todo[s] \in Seq(Nat) /\ n \in Nat
  <2>1. BTypes /\ Reading(s) /\ state[s] = "DONE" /\ m < Len(Todo[s])
    BY Zenon DEF BInv, Write
  <2>2. m \in Nat /\ n = 2 * m /\ n \in Nat
    BY <2>1 DEF Reading, BTypes
  <2>3. Todo[s] \in Seq(Nat)
    BY BrontideAssumption, Zenon
  <2> QED
    BY <2>1, <2>2, <2>3, Zenon
<1>1. size \in Nat
  BY <1>0, SMTT(30)
<1>2. Put(s, SubSeq(header \o body, 1, len))
  BY DEF Write, HeaderSize, header, body, len
<1>3. /\ Len(seals'[s]) = IF k >= 2 THEN n + 2 ELSE n + 1
      /\ Line(s)'[n + 1] = send[s] /\ Line(s)'[n + 2] = Advance(send[s])
      /\ sent'[s] = IF k = 4 THEN m + 1 ELSE m
      /\ send[s] \in Seal /\ Advance(send[s]) \in Seal
  <2>1. /\ \A j \in 1..(n + 2) : Line(s)'[j] = Line(s)[j]
        /\ Line(s)[n + 1] = send[s] /\ Line(s)[n + 2] = Advance(send[s])
    BY WriteSeals, Zenon
  <2>2. n + 1 \in 1..(n + 2) /\ n + 2 \in 1..(n + 2)
    BY <1>0, SMTT(30)
  <2>3. Line(s)'[n + 1] = send[s] /\ Line(s)'[n + 2] = Advance(send[s])
    BY <2>1, <2>2, Zenon
  <2>4. /\ Len(seals'[s]) = IF k >= 2 THEN n + 2 ELSE n + 1
        /\ sent'[s] = IF k = 4 THEN m + 1 ELSE m
    BY WriteSeals, Zenon
  <2>5. send[s] \in Seal /\ Advance(send[s]) \in Seal
    <3>1. send[s] \in SealOf(s)
      BY <1>0, Zenon DEF BInv, Reading, Sealing
    <3>2. Advance(send[s]) \in SealOf(s)
      BY <3>1, AdvanceOK, Zenon
    <3> QED
      BY <3>1, <3>2, Ciphers, Zenon
  <2> QED
    BY <2>3, <2>4, <2>5, Zenon
<1> HIDE DEF n, m, size
<1>4. ASSUME NEW j \in 1..2
      PROVE  [seal |-> send[s], what |-> size, part |-> j, of |-> 2] \in S
  <2> SUFFICES ASSUME NEW tk, tk = [seal |-> send[s], what |-> size, part |-> j, of |-> 2]
               PROVE  tk \in S
    OBVIOUS
  <2>1. tk \in Token /\ tk.seal = send[s] /\ tk.what = size
    <3>1. send[s] \in Seal /\ j \in Nat /\ 2 \in Nat
      BY <1>3, SMTT(30)
    <3> QED
      BY <1>1, <3>1, ZenonT(30) DEF Token
  <2>2. m \in 0..Len(seals'[s]) /\ 2 * m <= Len(seals'[s]) /\ Line(s)'[2 * m + 1] = send[s]
    BY <1>0, <1>3
  <2>3. OfHeader(s, tk)'
    BY <1>1, <2>1, <2>2, Zenon DEF OfHeader
  <2> QED
    BY <2>1, <2>3, Zenon DEF S, Sendable
<1>5. ASSUME NEW j \in 1..(size + 1), k >= 2, j = size + 1 => k = 4
      PROVE  [seal |-> Advance(send[s]), what |-> m + 1, part |-> j, of |-> size + 1] \in S
  <2> SUFFICES ASSUME NEW tk, tk = [seal |-> Advance(send[s]), what |-> m + 1,
                                    part |-> j, of |-> size + 1]
               PROVE  tk \in S
    BY Zenon
  <2>1. tk \in Token /\ tk.seal = Advance(send[s]) /\ tk.what = m + 1
        /\ tk.part = j /\ tk.of = size + 1
    <3>1. Advance(send[s]) \in Seal /\ m + 1 \in Nat /\ j \in Nat /\ size + 1 \in Nat
      BY <1>0, <1>1, <1>3
    <3> QED
      BY <3>1, Zenon DEF Token
  <2>2. /\ m + 1 \in 1..Len(seals'[s]) /\ 2 * (m + 1) <= Len(seals'[s])
        /\ Line(s)'[2 * (m + 1)] = Advance(send[s])
    <3>1. n + 2 = 2 * (m + 1) /\ Len(seals'[s]) = n + 2
      BY <1>0, <1>3, <1>5, SMTT(30)
    <3>2. m + 1 \in 1..(n + 2) /\ 2 * (m + 1) <= n + 2
      BY <1>0, SMTT(30)
    <3> QED
      BY <1>3, <3>1, <3>2, Zenon
  <2>3. tk.part = tk.of => m + 1 <= sent'[s]
    BY <1>0, <1>3, <1>5, <2>1, SMTT(30)
  <2>4. OfPayload(s, tk)'
    BY <2>1, <2>2, <2>3 DEF OfPayload
  <2> QED
    BY <2>1, <2>4, Zenon DEF S, Sendable
<1>6. /\ header \in Seq(S) /\ Len(header) = 2 /\ \A j \in 1..2 : header[j] \in S
  <2>1. header \in Seq(S) /\ Len(header) = 2
    BY <1>4 DEF Frame, header
  <2> QED
    BY <2>1
<1>7. /\ Len(body) = size + 1
      /\ body \in Seq({body[j] : j \in 1..(size + 1)})
      /\ \A j \in 1..(size + 1) : body[j] =
            [seal |-> Advance(send[s]), what |-> m + 1, part |-> j, of |-> size + 1]
  <2> DEFINE T == {[seal |-> Advance(send[s]), what |-> m + 1, part |-> j, of |-> size + 1] :
                       j \in 1..(size + 1)}
  <2>1. \A j \in 1..(size + 1) :
           [seal |-> Advance(send[s]), what |-> m + 1, part |-> j, of |-> size + 1] \in T
    OBVIOUS
  <2>2. size + 1 \in Nat
    BY <1>1, SMTT(30)
  <2> HIDE DEF T
  <2>3. /\ body \in Seq(T) /\ Len(body) = size + 1
        /\ \A j \in 1..(size + 1) : body[j] =
              [seal |-> Advance(send[s]), what |-> m + 1, part |-> j, of |-> size + 1]
    BY <2>1, <2>2, FrameOK, SMTT(30) DEF body
  <2>4. body \in Seq({body[j] : j \in 1..(size + 1)})
    BY <1>1, <2>3
  <2> QED
    BY <2>3, <2>4, Zenon
<1>8. /\ Len(header \o body) = 2 + (size + 1)
      /\ \A j \in 1..(2 + (size + 1)) :
            (header \o body)[j] = IF j <= 2 THEN header[j] ELSE body[j - 2]
      /\ \E U : header \o body \in Seq(U)
  <2> DEFINE B == {body[j] : j \in 1..(size + 1)}
             U == S \cup B
  <2>1. header \in Seq(U) /\ body \in Seq(U)
    <3>1. S \subseteq U /\ B \subseteq U
      BY Zenon
    <3>2. body \in Seq(B)
      BY <1>7
    <3> HIDE DEF U, B
    <3> QED
      BY <1>6, <3>1, <3>2, SeqMonotonic, Zenon
  <2> HIDE DEF U, B
  <2>2. /\ header \o body \in Seq(U) /\ Len(header \o body) = Len(header) + Len(body)
        /\ \A j \in 1..(Len(header) + Len(body)) :
            (header \o body)[j] = IF j <= Len(header) THEN header[j] ELSE body[j - Len(header)]
    BY <2>1, ConcatProperties, Zenon
  <2> QED
    BY <1>6, <1>7, <2>2, Zenon
<1> DEFINE all == header \o body
<1>9. len \in 0..(2 + (size + 1)) /\ (k < 2 => len <= 2) /\ (k = 2 => len = 2)
      /\ (k = 3 => len = 2 + size)
  <2>1. k = 0 \/ k = 1 \/ k = 2 \/ k = 3 \/ k = 4
    OBVIOUS
  <2>2. CASE k = 0
    BY <1>1, <2>2 DEF len
  <2>3. CASE k = 1
    BY <1>1, <2>3 DEF len
  <2>4. CASE k = 2
    BY <1>1, <2>4 DEF len
  <2>5. CASE k = 3
    BY <1>1, <2>5 DEF len
  <2>6. CASE k = 4
    BY <1>1, <2>6 DEF len
  <2> QED
    BY <2>1, <2>2, <2>3, <2>4, <2>5, <2>6
<1>10. ASSUME NEW j \in 1..len PROVE all[j] \in S
  <2>0. j \in 1..(2 + (size + 1))
    BY <1>1, <1>9
  <2>1. CASE j <= 2
    BY <1>6, <1>8, <2>0, <2>1
  <2>2. CASE ~ (j <= 2)
    <3>1. j - 2 \in 1..(size + 1) /\ ~ (j <= 2)
      BY <1>1, <2>0, <2>2
    <3>2. k >= 2 /\ (j - 2 = size + 1 => k = 4)
      BY <1>1, <1>9, <2>2, SMTT(30)
    <3>3. body[j - 2] \in S
      BY <1>5, <1>7, <3>1, <3>2
    <3> QED
      BY <1>8, <2>0, <3>1, <3>3
  <2> QED
    BY <2>1, <2>2, Zenon
<1>11. SubSeq(all, 1, len) \in Seq(S)
  <2>1. len \in Int /\ 1 \in Int
    BY <1>1, <1>9
  <2>2. PICK U : all \in Seq(U)
    BY <1>8
  <2> HIDE DEF all
  <2> QED
    BY <1>10, <2>1, <2>2, SubSeqProperties
<1> QED
  BY <1>2, <1>11, Zenon DEF S

\* hsk_brontide_write.
LEMMA WriteKeepsInv ==
    ASSUME BInv, NEW s \in Side, NEW k \in 0..4, Write(s, k)
    PROVE  BInv'
<1> DEFINE n == Len(seals[s])
           o == Other(s)
<1>0. /\ BTypes /\ Handshake /\ Reading(s) /\ Arriving(s) /\ Sealing(s) /\ state[s] = "DONE"
      /\ send[s] # NoCipher /\ n = 2 * sent[s] /\ sent[s] \in Nat
      /\ sent[s] < Len(Todo[s]) /\ o \in Side /\ o # s /\ Other(o) = s /\ Arriving(o)
      /\ \A t \in Side : t = s \/ t = o
  BY Sides, Zenon DEF BInv, Write, Reading, BTypes, Side, Other
<1>1. /\ UNCHANGED <<ownKey, ck, recv, hasSize, buf, need, input, got>>
      /\ IF k = 4 THEN UNCHANGED state ELSE state' = [state EXCEPT ![s] = "NONE"]
  BY Zenon DEF Write, Destroy, reader
<1>2. /\ send' \in [Side -> Seal] /\ seals' \in [Side -> Seq(Seal)]
      /\ sent' \in [Side -> Nat] /\ Sealing(s)' /\ n \in Nat
      /\ Len(seals'[s]) = IF k >= 2 THEN n + 2 ELSE n + 1
      /\ Len(Line(s)') = Len(seals'[s]) + 2
      /\ \A j \in 1..(n + 2) : Line(s)'[j] = Line(s)[j]
      /\ sent'[s] = IF k = 4 THEN sent[s] + 1 ELSE sent[s]
      /\ send'[s] # NoCipher
      /\ \A t \in Side \ {s} : /\ send'[t] = send[t] /\ seals'[t] = seals[t]
                               /\ sent'[t] = sent[t]
  BY WriteSeals, ZenonT(40)
<1>3. Len(Line(s)) = n + 2
  BY LineLength
<1> HIDE DEF n, o
<1>13. n <= Len(seals'[s]) /\ Len(seals'[s]) \in Nat
  <2>1. n \in Nat /\ (Len(seals'[s]) = n + 2 \/ Len(seals'[s]) = n + 1)
    BY <1>2, Zenon
  <2> QED
    BY <2>1
<1>4. Sendable(s) \subseteq Sendable(s)'
  <2>1. sent[s] <= sent'[s] /\ sent'[s] \in Nat
    <3>1. sent'[s] = sent[s] + 1 \/ sent'[s] = sent[s]
      BY <1>2, Zenon
    <3>2. sent[s] \in Nat
      BY <1>0, Zenon
    <3> QED
      BY <3>1, <3>2
  <2> QED
    BY <1>0, <1>1, <1>2, <1>13, <2>1, SendableGrows, Zenon DEF n
<1>5. /\ wire' \in [Side -> Seq(Token)] /\ wire'[s] = wire[s]
      /\ wire'[o] \in Seq(Sendable(s)')
  <2>1. PICK tks \in Seq(Sendable(s)') : Put(s, tks)
    BY WriteTokens
  <2> QED
    BY <1>0, <1>4, <2>1, PutOK, Zenon DEF o
<1>6. /\ state' \in [Side -> {"IDLE", "ONE", "TWO", "THREE", "DONE", "NONE"}]
      /\ state'[s] = (IF k = 4 THEN "DONE" ELSE "NONE") /\ state'[o] = state[o]
  BY <1>0, <1>1, Zenon DEF BTypes
<1>7. BTypes'
  BY <1>0, <1>1, <1>2, <1>5, <1>6, Zenon DEF BTypes
<1>8. Handshake'
  <2>1. /\ send["initiator"] # NoCipher <=> send'["initiator"] # NoCipher
        /\ "initiator" \in Side /\ "responder" \in Side
    BY <1>0, <1>2, Zenon DEF Side, NoCipher
  <2>2. \A t \in Side : state'[t] = state[t] \/ (state[t] = "DONE" /\ state'[t] = "NONE")
    BY <1>0, <1>6
  <2> QED
    BY <1>0, <1>1, <2>1, <2>2, Zenon DEF Handshake
<1>9. Sealing(o) /\ Line(o)' = Line(o) /\ Sendable(o)' = Sendable(o)
  BY <1>0, <1>1, <1>2, NotSealing, Zenon DEF BInv
<1>10. Reading(s)'
  <2>1. CASE k = 4
    <3>1. state'[s] = "DONE" /\ Len(seals'[s]) = 2 * sent'[s] /\ sent'[s] <= Len(Todo[s])
      <4>1. Len(Todo[s]) \in Nat
        BY BrontideAssumption, SMTT(30)
      <4>2. k >= 2 /\ Len(seals'[s]) = n + 2 /\ sent'[s] = sent[s] + 1
        BY <1>2, <2>1, SMTT(30)
      <4>3. n + 2 = 2 * (sent[s] + 1) /\ sent[s] + 1 <= Len(Todo[s])
        BY <1>0, <4>1
      <4> QED
        BY <1>6, <2>1, <4>2, <4>3, Zenon
    <3>2. Place(s)' = Place(s)
      BY <1>1 DEF Place
    <3> QED
      BY <1>0, <1>1, <1>2, <1>9, <3>1, <3>2, Zenon DEF Reading, o
  <2>2. CASE k # 4
    BY <1>0, <1>1, <1>2, <1>6, <2>2, Zenon DEF Reading
  <2> QED
    BY <2>1, <2>2
<1>11. Arriving(s)'
  BY <1>0, <1>1, <1>5, <1>9, Zenon DEF Arriving, o
<1>12. Continues(s)
  <2>1. Len(Line(s)) \in Nat /\ Len(Line(s)') \in Nat /\ Len(Line(s)) <= Len(Line(s)')
    BY <1>2, <1>3, <1>13
  <2> QED
    BY <1>2, <1>3, <2>1, ZenonT(30) DEF Continues
<1>14. Rests(o)
  BY <1>0, <1>1, <1>2, <1>6, Zenon DEF Rests
<1> QED
  BY <1>0, <1>1, <1>2, <1>4, <1>5, <1>7, <1>8, <1>10, <1>11, <1>12, <1>14, SenderStep, Zenon
     DEF o

\* A peer that answers the first act untested.
LEMMA FalseActTwoKeepsInv == ASSUME BInv, FalseActTwo PROVE BInv'
<1> DEFINE i == "initiator"
           r == "responder"
<1>0. /\ BTypes /\ Handshake /\ Side = {i, r} /\ i # r /\ Other(i) = r /\ Other(r) = i
      /\ i \in Side /\ r \in Side /\ Reading(r) /\ Arriving(r)
      /\ Arriving(i) /\ state[r] = "ONE" /\ ownKey \in Keys
  BY Sides, Zenon DEF BInv, BTypes, Side, FalseActTwo
<1>1. /\ state' = [state EXCEPT ![r] = "NONE"]
      /\ UNCHANGED <<ownKey, ck, send, recv, hasSize, buf, need, input, sent, got, seals>>
  BY Zenon DEF FalseActTwo, ciphers, reader
<1>2. ASSUME NEW s \in Side
      PROVE  Sealing(s)' /\ Line(s)' = Line(s) /\ Sendable(s)' = Sendable(s)
  BY <1>1, NotSealing, Zenon DEF BInv
<1>3. PICK c \in ActSeals(r) \cup {NoCipher} : Put(r, Frame(c, 0, ActSize))
  BY <1>0, Zenon DEF FalseActTwo, ActSeals, NoCipher
<1>4. Frame(c, 0, ActSize) \in Seq(Sendable(r))
  <2>1. CASE c \in ActSeals(r)
    BY <1>0, <2>1, ActOK, Zenon
  <2>2. CASE c = NoCipher
    <3>1. NoCipher \in Seal
      BY Ciphers, Zenon
    <3>2. ASSUME NEW k \in 1..2
          PROVE  [seal |-> NoCipher, what |-> 0, part |-> k, of |-> 2] \in Sendable(r)
      BY <3>1 DEF Sendable, OfAct, Token
    <3> QED
      BY <2>2, <3>2, FrameOK DEF ActSize
  <2> QED
    BY <2>1, <2>2, Zenon
<1>5. /\ wire' \in [Side -> Seq(Token)] /\ wire'[r] = wire[r]
      /\ wire'[i] \in Seq(Sendable(r)')
  BY <1>0, <1>2, <1>3, <1>4, PutOK, Zenon
<1>6. /\ state' \in [Side -> {"IDLE", "ONE", "TWO", "THREE", "DONE", "NONE"}]
      /\ state'[r] = "NONE" /\ state'[i] = state[i]
  BY <1>0, <1>1, Zenon DEF BTypes
<1>7. BTypes'
  BY <1>0, <1>1, <1>5, <1>6 DEF BTypes
<1>8. Handshake'
  <2>1. state[i] # "IDLE"
    BY <1>0 DEF Handshake
  <2> QED
    BY <1>0, <1>1, <1>6, <2>1, Zenon DEF Handshake
<1>9. Reading(r)'
  BY <1>0, <1>1, <1>6, Zenon DEF Reading
<1>10. Arriving(r)'
  BY <1>0, <1>1, <1>2, <1>5, Zenon DEF Arriving
<1>11. Sealing(r)' /\ Continues(r) /\ Sendable(r)' = Sendable(r) /\ ownKey' = ownKey
  BY <1>0, <1>1, <1>2, Continuing, Zenon
<1>12. Rests(i)
  BY <1>0, <1>1, <1>6, Zenon DEF Rests
<1> QED
  BY <1>0, <1>5, <1>7, <1>8, <1>9, <1>10, <1>11, <1>12, SenderStep, Zenon

\* A peer that sends a frame that does not open.
LEMMA GarbleKeepsInv == ASSUME BInv, Garble PROVE BInv'
<1> DEFINE i == "initiator"
           r == "responder"
           n == Len(seals[r])
<1>0. /\ BTypes /\ Handshake /\ Side = {i, r} /\ i # r /\ Other(i) = r /\ Other(r) = i
      /\ i \in Side /\ r \in Side /\ Reading(r) /\ Arriving(r) /\ Sealing(r)
      /\ Arriving(i) /\ state[r] = "DONE" /\ state[i] = "DONE"
  BY Sides, Zenon DEF BInv, Side, Garble
<1>1. /\ state' = [state EXCEPT ![r] = "NONE"]
      /\ UNCHANGED <<ownKey, ck, send, recv, hasSize, buf, need, input, sent, got, seals>>
  BY Zenon DEF Garble, ciphers, reader
<1>2. ASSUME NEW s \in Side
      PROVE  Sealing(s)' /\ Line(s)' = Line(s) /\ Sendable(s)' = Sendable(s)
  BY <1>1, NotSealing, Zenon DEF BInv
<1>3. send[r] \in Seal /\ Line(r)[n + 1] = send[r] /\ n = 2 * sent[r] /\ n \in Nat
      /\ Len(Line(r)) = n + 2 /\ sent[r] \in Nat
  <2>1. send[r] # NoCipher /\ n = 2 * sent[r] /\ sent[r] \in Nat
        /\ seals[r] \in Seq(Seal) /\ send[r] \in Seal
    BY <1>0 DEF Reading, BTypes
  <2>2. Now(r) = send[r]
    BY <2>1 DEF Now
  <2>3. Len(seals[r]) \in Nat
    BY <2>1
  <2>4. Len(Line(r)) = n + 2 /\ Line(r)[n + 1] = Now(r)
    BY <1>0, <2>1, LineOK, Zenon
  <2> QED
    BY <2>1, <2>2, <2>3, <2>4, Zenon
<1> HIDE DEF n
<1>4. PICK k \in 1..3, h \in {0, 2} : Put(r, Frame(send[r], 1, h) \o Frame(NoCipher, 0, k))
  BY DEF Garble, HeaderSize
<1>5. Frame(send[r], 1, h) \in Seq(Sendable(r))
  <2>1. ASSUME NEW j \in 1..h
        PROVE  [seal |-> send[r], what |-> 1, part |-> j, of |-> h] \in Sendable(r)
    <3> DEFINE tk == [seal |-> send[r], what |-> 1, part |-> j, of |-> h]
    <3>1. tk \in Token /\ tk.seal = send[r] /\ tk.what = 1
      BY <1>3, SMTT(30) DEF Token
    <3>2. sent[r] \in 0..n /\ 2 * sent[r] <= n /\ Line(r)[2 * sent[r] + 1] = send[r]
      BY <1>3, SMTT(30)
    <3> HIDE DEF tk
    <3>3. OfHeader(r, tk)
      BY <3>1, <3>2 DEF OfHeader, n
    <3> QED
      BY <3>1, <3>3, ZenonT(30) DEF Sendable, tk
  <2>2. h \in Nat
    OBVIOUS
  <2> QED
    BY <2>1, <2>2, FrameOK, Zenon
<1>6. Frame(NoCipher, 0, k) \in Seq(Sendable(r))
  <2>1. ASSUME NEW j \in 1..k
        PROVE  [seal |-> NoCipher, what |-> 0, part |-> j, of |-> k] \in Sendable(r)
    <3> DEFINE tk == [seal |-> NoCipher, what |-> 0, part |-> j, of |-> k]
    <3>1. NoCipher \in Seal
      BY Ciphers, Zenon
    <3>2. tk \in Token /\ tk.seal = NoCipher
      BY <3>1 DEF Token
    <3> HIDE DEF tk
    <3> QED
      BY <3>2 DEF Sendable, OfAct, tk
  <2>2. k \in Nat
    BY SMTT(30)
  <2> QED
    BY <2>1, <2>2, FrameOK, Zenon
<1>7. Frame(send[r], 1, h) \o Frame(NoCipher, 0, k) \in Seq(Sendable(r)')
  BY <1>0, <1>2, <1>5, <1>6, ConcatProperties, Zenon
<1>8. /\ wire' \in [Side -> Seq(Token)] /\ wire'[r] = wire[r]
      /\ wire'[i] \in Seq(Sendable(r)')
  BY <1>0, <1>2, <1>4, <1>7, PutOK, Zenon
<1>9. /\ state' \in [Side -> {"IDLE", "ONE", "TWO", "THREE", "DONE", "NONE"}]
      /\ state'[r] = "NONE" /\ state'[i] = state[i]
  BY <1>0, <1>1, Zenon DEF BTypes
<1>10. BTypes'
  BY <1>0, <1>1, <1>8, <1>9 DEF BTypes
<1>11. Handshake'
  BY <1>0, <1>1, <1>9, Zenon DEF Handshake
<1>12. Reading(r)'
  BY <1>0, <1>1, <1>9, Zenon DEF Reading
<1>13. Arriving(r)'
  BY <1>0, <1>1, <1>2, <1>8, Zenon DEF Arriving
<1>14. Sealing(r)' /\ Continues(r) /\ Sendable(r)' = Sendable(r) /\ ownKey' = ownKey
  BY <1>0, <1>1, <1>2, Continuing, Zenon
<1>15. Rests(i)
  BY <1>0, <1>1, <1>9, Zenon DEF Rests
<1> QED
  BY <1>0, <1>8, <1>10, <1>11, <1>12, <1>13, <1>14, <1>15, SenderStep, Zenon

-----------------------------------------------------------------------------
(* The theorems.                                                           *)

\* Every step keeps the invariant.
LEMMA BNextInv == BInv /\ [BNext]_bvars => BInv'
<1> SUFFICES ASSUME BInv, [BNext]_bvars PROVE BInv'
  OBVIOUS
<1>1. CASE OnConnect
  BY <1>1, OnConnectKeepsInv
<1>2. CASE ActOne
  BY <1>2, ActOneKeepsInv, Zenon
<1>3. CASE ActTwo
  BY <1>3, ActTwoKeepsInv
<1>4. CASE ActThree
  BY <1>4, ActThreeKeepsInv
<1>5. CASE FalseActTwo \/ Garble
  BY <1>5, FalseActTwoKeepsInv, GarbleKeepsInv
<1>6. ASSUME NEW s \in Side, NEW k \in 0..4, Write(s, k) PROVE BInv'
  BY <1>6, WriteKeepsInv
<1>7. ASSUME NEW s \in Side, Keep(s) \/ \E n \in 1..Len(wire[s]) : OnRead(s, n)
      PROVE  BInv'
  BY <1>7, ReadsKeepInv
<1>8. ASSUME NEW s \in Side, Header(s) PROVE BInv'
  BY <1>8, HeaderKeepsInv
<1>9. ASSUME NEW s \in Side, Payload(s) PROVE BInv'
  BY <1>9, PayloadKeepsInv
<1>10. ASSUME NEW s \in Side, BadTag(s) \/ Close(s) \/ Eof(s) PROVE BInv'
  BY <1>10, EndsKeepInv, Zenon
<1>11. CASE UNCHANGED bvars
  <2>1. /\ UNCHANGED <<ownKey, ck, send, recv, seals, sent, state, hasSize, need, got>>
        /\ UNCHANGED <<buf, input, wire>>
    BY <1>11 DEF bvars, ciphers, reader
  <2>2. "initiator" \in Side
    BY DEF Side
  <2>3. BTypes /\ Reading("initiator") /\ Arriving("initiator") /\ Other("initiator") \in Side
    BY <2>2, Sides, Zenon DEF BInv
  <2>4. /\ Sendable(Other("initiator"))' = Sendable(Other("initiator"))
        /\ Line(Other("initiator"))' = Line(Other("initiator"))
    BY <2>1, <2>3, NotSealing, Zenon DEF BInv
  <2>5. BTypes'
    BY <2>1, <2>3, Zenon DEF BTypes
  <2>6. Reading("initiator")'
    BY <2>1, <2>3, <2>4, Zenon DEF Reading, Place
  <2>7. Arriving("initiator")'
    BY <2>1, <2>3, <2>4 DEF Arriving
  <2> QED
    BY <2>1, <2>2, <2>5, <2>6, <2>7, QuietStep, Zenon
<1> QED
  BY <1>1, <1>2, <1>3, <1>4, <1>5, <1>6, <1>7, <1>8, <1>9, <1>10, <1>11, Zenon
     DEF BNext, Acts, Parse

\* The handshake, the lines of ciphers and what is on its way fit together in
\* every state of a connection.
THEOREM ConnectionInv == BSpec => []BInv
<1>1. BInit => BInv
  BY BInitInv
<1>2. BInv /\ [BNext]_bvars => BInv'
  BY BNextInv
<1> QED
  BY <1>1, <1>2, PTL DEF BSpec

\* hsk_cs_encrypt never seals two frames with the same key and nonce, however
\* many messages are written and keys rotated, and the two sides share none;
\* the buffer of a frame is never overrun.
THEOREM SealsFreshCorrect == BSpec => []SealsFresh
<1>1. BInv => SealsFresh
  <2> SUFFICES ASSUME BInv PROVE SealsFresh
    BY Zenon
  <2>1. BTypeOK
    BY Zenon DEF BInv, BTypes, Reading, BTypeOK
  <2>2. ASSUME NEW s \in Side
        PROVE  /\ seals[s] \in Seq(SealOf(s)) /\ Len(seals[s]) \in Nat
               /\ \A i \in 1..Len(seals[s]) : seals[s][i].key = Base(s).key
               /\ \A i, j \in 1..Len(seals[s]) : seals[s][i] = seals[s][j] => i = j
    <3>1. seals[s] \in Seq(Seal) /\ Sealing(s)
      BY DEF BInv, BTypes
    <3>2. seals[s] \in Seq(SealOf(s)) /\ Len(seals[s]) \in Nat
      BY <3>1 DEF Sealing
    <3>3. \A i \in 1..Len(seals[s]) : seals[s][i].key = Base(s).key
      <4>1. \A i \in 1..Len(seals[s]) : seals[s][i] \in SealOf(s)
        BY <3>2
      <4> QED
        BY <4>1 DEF SealOf
    <3>4. /\ \A i, j \in 1..Len(Line(s)) : Line(s)[i] = Line(s)[j] => i = j
          /\ \A i \in 1..Len(seals[s]) : Line(s)[i] = seals[s][i]
          /\ Len(Line(s)) = Len(seals[s]) + 2
      BY <3>1, LineOK, Zenon
    <3>5. \A i \in 1..Len(seals[s]) : i \in 1..Len(Line(s))
      BY <3>2, <3>4
    <3> QED
      BY <3>2, <3>3, <3>4, <3>5, ZenonT(30)
  <2>3. \A s \in Side : IsInjective(seals[s])
    BY <2>2 DEF IsInjective
  <2>4. Range(seals["initiator"]) \cap Range(seals["responder"]) = {}
    <3>1. "initiator" \in Side /\ "responder" \in Side
      BY Zenon DEF Side
    <3>2. \A c \in Range(seals["initiator"]) : c.key = Base("initiator").key
      BY <2>2, <3>1 DEF Range
    <3>3. \A c \in Range(seals["responder"]) : c.key = Base("responder").key
      BY <2>2, <3>1, SMTT(30) DEF Range
    <3>4. Base("initiator").key # Base("responder").key
      BY Ciphers, ZenonT(30)
    <3> QED
      BY <3>2, <3>3, <3>4
  <2> QED
    BY <2>1, <2>3, <2>4 DEF SealsFresh
<1> QED
  BY <1>1, ConnectionInv, PTL

\* Act two opens only if the other side could mix the secret of the key that was
\* dialled: whatever act two a side without that key sends, hsk_brontide_parse
\* refuses it, and the handshake is never completed with anybody else.
THEOREM AuthenticatedCorrect == BSpec => []Authenticated
<1>1. BInv => Authenticated
  BY DEF BInv, Handshake, Sealing, Authenticated, Side
<1> QED
  BY <1>1, ConnectionInv, PTL

-----------------------------------------------------------------------------
(* The channel.                                                            *)

Gone == [s \in Side |-> state[s] = "NONE"]

\* A side that is destroyed ends the stream; the others go on.
LEMMA GoneOK ==
    ASSUME BTypes
    PROVE  /\ \A s \in Side : state' = [state EXCEPT ![s] = "NONE"]
                                 => Gone' = [Gone EXCEPT ![s] = TRUE]
           /\ (\A s \in Side : state'[s] = "NONE" <=> state[s] = "NONE") => Gone' = Gone
<1>1. ASSUME NEW s \in Side, state' = [state EXCEPT ![s] = "NONE"]
      PROVE  Gone' = [Gone EXCEPT ![s] = TRUE]
  BY <1>1, Zenon DEF Gone, BTypes
<1>2. ASSUME \A s \in Side : state'[s] = "NONE" <=> state[s] = "NONE"
      PROVE  Gone' = Gone
  BY <1>2, Zenon DEF Gone
<1> QED
  BY <1>1, <1>2

\* Every step is a step of the channel or changes nothing that pool.c sees.
LEMMA StreamStep ==
    BInv /\ [BNext]_bvars => [Stream!Next]_(Stream!vars)
<1> SUFFICES ASSUME BInv, [BNext]_bvars
             PROVE  Stream!Next \/ UNCHANGED <<sent, got, Gone>>
  BY Zenon DEF Stream!vars, Gone
<1>0. BTypes /\ Handshake /\ Side = {"initiator", "responder"}
  BY DEF BInv, Side
<1>1. ASSUME NEW s \in Side, state[s] # "NONE", state' = [state EXCEPT ![s] = "NONE"],
             UNCHANGED <<sent, got>>
      PROVE  Stream!Next
  <2>1. Gone' = [Gone EXCEPT ![s] = TRUE] /\ ~Gone[s]
    BY <1>0, <1>1, GoneOK, Zenon DEF Gone
  <2>2. Stream!End(s)
    BY <1>1, <2>1, Zenon DEF Stream!End, Gone
  <2> QED
    BY <2>2 DEF Stream!Next
<1>2. ASSUME UNCHANGED <<sent, got>>,
             \A s \in Side : state'[s] = "NONE" <=> state[s] = "NONE"
      PROVE  UNCHANGED <<sent, got, Gone>>
  BY <1>0, <1>2, GoneOK, Zenon
<1>3. CASE Acts
  <2>1. UNCHANGED <<sent, got>>
    BY <1>3, Zenon DEF Acts, OnConnect, ActOne, ActTwo, ActThree
  <2>2. ASSUME NEW s \in Side PROVE state'[s] = "NONE" <=> state[s] = "NONE"
    <3>1. CASE OnConnect
      BY <1>0, <3>1, Zenon DEF OnConnect, Handshake, BTypes
    <3>2. CASE ActOne
      BY <1>0, <3>2 DEF ActOne, BTypes
    <3>3. CASE ActTwo
      BY <1>0, <3>3, Zenon DEF ActTwo, BTypes
    <3>4. CASE ActThree
      BY <1>0, <3>4, Zenon DEF ActThree, BTypes
    <3> QED
      BY <1>3, <3>1, <3>2, <3>3, <3>4, Zenon DEF Acts
  <2> QED
    BY <1>2, <2>1, <2>2, Zenon
<1>4. CASE FalseActTwo \/ Garble
  <2>1. UNCHANGED <<sent, got>> /\ state' = [state EXCEPT !["responder"] = "NONE"]
        /\ state["responder"] # "NONE" /\ "responder" \in Side
    BY <1>0, <1>4 DEF FalseActTwo, Garble, Complete
  <2> QED
    BY <1>1, <2>1, Zenon
<1>5. ASSUME NEW s \in Side, NEW k \in 0..4, Write(s, k) PROVE Stream!Next
  <2>0. state[s] = "DONE" /\ UNCHANGED got
    BY <1>5, Zenon DEF Write
  <2>1. CASE k = 4
    <3>1. sent' = [sent EXCEPT ![s] = sent[s] + 1] /\ UNCHANGED state
      BY <1>5, <2>1, Zenon DEF Write
    <3>2. Gone' = Gone /\ ~Gone[s]
      BY <2>0, <3>1, Zenon DEF Gone
    <3>3. Stream!Send(s)
      BY <2>0, <3>1, <3>2, Zenon DEF Stream!Send, Gone
    <3> QED
      BY <3>3 DEF Stream!Next
  <2>2. CASE k # 4
    BY <1>1, <1>5, <2>0, <2>2, Zenon DEF Write, Destroy
  <2> QED
    BY <2>1, <2>2
<1>6. ASSUME NEW s \in Side, Keep(s) \/ \E n \in 1..Len(wire[s]) : OnRead(s, n)
      PROVE  UNCHANGED <<sent, got, Gone>>
  BY <1>2, <1>6, Zenon DEF Keep, OnRead
<1>7. ASSUME NEW s \in Side, Header(s)
      PROVE  Stream!Next \/ UNCHANGED <<sent, got, Gone>>
  <2>1. state[s] = "DONE" /\ UNCHANGED <<sent, got>>
        /\ (UNCHANGED state \/ state' = [state EXCEPT ![s] = "NONE"])
    BY <1>7 DEF Header, Destroy
  <2> QED
    BY <1>1, <1>2, <2>1, Zenon
<1>8. ASSUME NEW s \in Side, Payload(s) PROVE Stream!Next
  <2>1. /\ got' = [got EXCEPT ![s] = Append(got[s], Len(got[s]) + 1)]
        /\ Len(got[s]) < sent[Other(s)]
    BY <1>8, PayloadKeepsInv
  <2>2. UNCHANGED <<sent, state>> /\ state[s] = "DONE"
    BY <1>8 DEF Payload
  <2>3. Gone' = Gone /\ ~Gone[s]
    BY <2>2, Zenon DEF Gone
  <2>4. Stream!Deliver(s)
    BY <2>1, <2>2, <2>3, Zenon DEF Stream!Deliver, Gone
  <2> QED
    BY <2>4 DEF Stream!Next
<1>9. ASSUME NEW s \in Side, BadTag(s) \/ Close(s) \/ Eof(s) PROVE Stream!Next
  <2>1. UNCHANGED <<sent, got>>
    BY <1>9 DEF BadTag, Close, Eof
  <2> QED
    BY <1>1, <1>9, <2>1, EndsKeepInv, ZenonT(30)
<1>10. CASE UNCHANGED bvars
  BY <1>2, <1>10 DEF bvars
<1> QED
  BY <1>3, <1>4, <1>5, <1>6, <1>7, <1>8, <1>9, <1>10, Zenon DEF BNext, Parse

\* In whatever chunks the bytes arrive and wherever a write fails, what each
\* read callback is given are the messages of the other side in order, whole,
\* none twice and none left out, and nothing after the end: the safety half of
\* ChannelSpec.
THEOREM ChannelSafe == BSpec => Stream!Safety
<1>1. BInit => Stream!Init
  BY Zenon DEF BInit, Stream!Init
<1>2. BInv /\ [BNext]_bvars => [Stream!Next]_(Stream!vars)
  BY StreamStep
<1> QED
  BY <1>1, <1>2, ConnectionInv, PTL DEF BSpec, Stream!Safety
=============================================================================
