----------------------------- MODULE PeerProofs -----------------------------
(***************************************************************************)
(* The properties of one peer: PeerTimer's for all limits, PeerStream's   *)
(* for conversations of any length, cut into chunks in any way.            *)
(*                                                                         *)
(* The timer reads the code's stamps and its properties speak of debts, so *)
(* TimerInv says that the two agree: a stamp is set exactly when the       *)
(* question it dates is asked, and zero exactly when it is answered.  It   *)
(* also tells the time before a timer run from the time after it.          *)
(*                                                                         *)
(* The parser sees chunks and its property speaks of messages.  StreamInv  *)
(* lays the whole stream out, message after message, and says that what    *)
(* the peer still holds and has not read is the rest of it, from the end   *)
(* of the last message done with or from behind the header read after it.  *)
(***************************************************************************)
EXTENDS PeerTimer, PeerStream, TLAPS

\* What a limit means between two runs of the timer: it can be exceeded by the
\* one period that has passed since the last.
Within(s, limit) == age[s] <= IF due THEN limit + 1 ELSE limit

\* The stamps agree with the debts.
StampsAgree ==
    /\ age["version"] = age["verack"]
    /\ age["request"] = age["proof"]
    /\ age["headers"] = age["getheaders"]
    /\ challenge => up /\ age["ping"] = age["pong"] /\ age["pong"] <= age["conn"]
    /\ ~up => \A s \in Debt : age[s] = Unset

\* Every debt is younger than its limit.
DebtsYoung ==
    /\ age["verack"] # Unset => Within("verack", VerackLimit)
    /\ age["proof"] # Unset => Within("proof", ProofLimit)
    /\ age["pong"] # Unset => Within("pong", Stall)
    /\ ~inSync /\ age["getheaders"] # Unset => Within("getheaders", HeadersLimit)

\* The pool has asked for headers by the time the timer has seen that none come.
AskedInTime ==
    age["block"] \in (BlockLimit + (IF due THEN 2 ELSE 1))..Oldest =>
        Within("poolHeaders", ResendLimit)

TimerInv == TmTypeOK /\ StampsAgree /\ DebtsYoung /\ AskedInTime

LEMMA TimerNumbers ==
    /\ Grace \in Nat /\ PingEvery \in Nat /\ HeadersLimit \in Nat /\ VerackLimit \in Nat
    /\ ProofLimit \in Nat /\ BlockLimit \in Nat /\ ResendLimit \in Nat /\ Stall \in Nat
    /\ Grace <= Stall /\ HeadersLimit <= Stall /\ VerackLimit <= Stall
    /\ ProofLimit <= Stall /\ BlockLimit <= Stall /\ ResendLimit <= Stall
    /\ Oldest = Stall + 2 /\ Unset = Stall + 3
BY TimerAssumption DEF Oldest, Unset

\* The names by which age is indexed.
AllStamps == {"conn", "send", "recv", "ping", "pingTimer", "headers", "version",
              "request", "block", "poolHeaders", "verack", "pong", "getheaders", "proof"}

LEMMA StampNames == Stamp \cup Debt = AllStamps
BY DEF Stamp, OfPeer, Debt, AllStamps

\* Nothing is owed before the first connection.
LEMMA TimerInit == TmInit => TimerInv
<1> SUFFICES ASSUME TmInit PROVE TimerInv
    OBVIOUS
<1>1. age = [s \in AllStamps |-> Unset] /\ Unset \in 0..Unset
    BY TimerNumbers, StampNames DEF TmInit
<1>2. \A s \in AllStamps : age[s] = Unset
    BY <1>1
<1>3. \A s \in Debt : age[s] = Unset
    BY <1>2 DEF Debt, AllStamps
<1>4. age \in [Stamp \cup Debt -> 0..Unset]
    BY <1>1, StampNames
<1>5. TmTypeOK
    BY <1>3, <1>4, Zenon DEF TmTypeOK, Owes, Debt, TmInit
<1>6. StampsAgree
    BY <1>2, <1>3 DEF StampsAgree, TmInit, AllStamps
<1>7. DebtsYoung /\ AskedInTime
    BY <1>2, <1>3, TimerNumbers DEF DebtsYoung, AskedInTime, Debt, AllStamps
<1> QED  BY <1>5, <1>6, <1>7 DEF TimerInv

-----------------------------------------------------------------------------
(* Each step keeps the invariant.                                          *)

LEMMA StampedValue ==
    ASSUME age \in [Stamp \cup Debt -> 0..Unset], NEW now, NEW zero
    PROVE  /\ Stamped(now, zero) \in [Stamp \cup Debt -> 0..Unset]
           /\ \A s \in AllStamps :
                 Stamped(now, zero)[s] =
                     IF s \in now THEN 0 ELSE IF s \in zero THEN Unset ELSE age[s]
<1>1. DOMAIN age = AllStamps /\ 0 \in 0..Unset /\ Unset \in 0..Unset
    BY StampNames, TimerNumbers
<1> QED  BY <1>1, StampNames DEF Stamped

\* Stamps to set and to clear that treat a stamp and its debt alike, and that
\* leave the ping alone.
Paired(now, zero) ==
    /\ \A s \in {now, zero} : /\ "version" \in s <=> "verack" \in s
                              /\ "request" \in s <=> "proof" \in s
                              /\ "headers" \in s <=> "getheaders" \in s
    /\ {"ping", "conn", "pong", "poolHeaders"} \cap now = {}
    /\ {"ping", "conn", "poolHeaders", "block"} \cap zero = {}

\* A message answers some questions and asks others.
LEMMA MessageStep ==
    ASSUME TimerInv, NEW now, NEW zero,
           age' = Stamped(now, zero), up, up' = up, due' = due,
           inSync' \in {inSync, TRUE},
           Paired(now, zero), challenge' = (challenge /\ "pong" \notin zero)
    PROVE  TimerInv'
<1> USE DEF Paired
<1>1. age' \in [Stamp \cup Debt -> 0..Unset]
    BY StampedValue DEF TimerInv, TmTypeOK
<1>2. \A s \in AllStamps :
          age'[s] = IF s \in now THEN 0 ELSE IF s \in zero THEN Unset ELSE age[s]
    BY StampedValue DEF TimerInv, TmTypeOK
<1>3. \A s \in AllStamps : age[s] \in Nat
    BY StampNames, TimerNumbers DEF TimerInv, TmTypeOK
<1>4. (challenge <=> age["pong"] # Unset) /\ challenge \in BOOLEAN
    BY DEF TimerInv, TmTypeOK, Owes, Debt
<1>5. challenge' <=> age'["pong"] # Unset
    BY <1>2, <1>4, TimerNumbers, Zenon DEF AllStamps
<1>6. TmTypeOK'
    BY <1>1, <1>5, Zenon DEF TimerInv, TmTypeOK, Owes, Debt
<1>7. StampsAgree'
    BY <1>2, <1>4, Zenon DEF TimerInv, StampsAgree, AllStamps
<1>8. DebtsYoung'
  <2>1. \A s \in AllStamps : age'[s] \in {0, Unset, age[s]}
      BY <1>2
  <2>2. ASSUME NEW s \in AllStamps, NEW limit \in Nat,
               age[s] # Unset => Within(s, limit), age'[s] # Unset
        PROVE  Within(s, limit)'
      BY <2>1, <2>2, <1>3 DEF Within
  <2>3. ~inSync' => ~inSync
      BY Zenon
  <2>4. {"verack", "proof", "pong", "getheaders"} \subseteq AllStamps
      BY DEF AllStamps
  <2> QED  BY <2>2, <2>3, <2>4, TimerNumbers DEF TimerInv, DebtsYoung
<1>9. AskedInTime'
  <2>1. age'["poolHeaders"] = age["poolHeaders"] /\ age'["block"] \in {0, age["block"]}
      BY <1>2 DEF AllStamps
  <2> QED  BY <2>1, TimerNumbers DEF TimerInv, AskedInTime, Within
<1> QED  BY <1>6, <1>7, <1>8, <1>9 DEF TimerInv

LEMMA ConnectStep == ASSUME TimerInv, NEW h \in {0, Grace + 1}, Connect(h) PROVE TimerInv'
<1> DEFINE now == {"send", "version", "verack"}
           st  == Stamped(now, OfPeer)
<1>1. st \in [Stamp \cup Debt -> 0..Unset]
    BY StampedValue DEF TimerInv, TmTypeOK
<1>2. h \in 0..(Unset - 1)
    BY TimerNumbers
<1>3. age' = [st EXCEPT !["conn"] = h]
    BY DEF Connect
<1>4. age' \in [Stamp \cup Debt -> 0..Unset]
    BY <1>1, <1>2, <1>3, TimerNumbers, StampNames DEF AllStamps
<1>5. \A s \in Debt : age[s] = Unset
    BY DEF TimerInv, StampsAgree, Connect
<1>6. \A s \in AllStamps : age'[s] = IF s = "conn" THEN h ELSE IF s \in now THEN 0
                                  ELSE IF s \in OfPeer THEN Unset ELSE age[s]
    BY <1>1, <1>3, StampedValue, StampNames DEF TimerInv, TmTypeOK, AllStamps
<1>7. /\ age'["pong"] = Unset /\ age'["getheaders"] = Unset /\ age'["proof"] = Unset
      /\ age'["verack"] = 0 /\ age'["version"] = 0 /\ age'["headers"] = Unset
      /\ age'["request"] = Unset
      /\ age'["poolHeaders"] = age["poolHeaders"] /\ age'["block"] = age["block"]
    BY <1>5, <1>6 DEF AllStamps, OfPeer, Debt
<1>8. challenge = FALSE /\ challenge' = FALSE /\ up' = TRUE /\ due' = due /\ inSync' = inSync
    BY <1>5 DEF TimerInv, TmTypeOK, StampsAgree, Owes, Debt, Connect
<1>9. TmTypeOK'
    BY <1>4, <1>7, <1>8, Zenon DEF TimerInv, TmTypeOK, Owes, Debt
<1>10. StampsAgree'
    BY <1>7, <1>8 DEF StampsAgree
<1>11. DebtsYoung' /\ AskedInTime'
    BY <1>7, <1>8, TimerNumbers DEF TimerInv, DebtsYoung, AskedInTime, Within
<1> QED  BY <1>9, <1>10, <1>11 DEF TimerInv

LEMMA TickStep == ASSUME TimerInv, Tick PROVE TimerInv'
<1>1. \A s \in AllStamps : age[s] \in 0..Unset
    BY StampNames DEF TimerInv, TmTypeOK
<1>2. \A s \in AllStamps : age'[s] = IF age[s] >= Oldest THEN age[s] ELSE age[s] + 1
    BY StampNames DEF TimerInv, TmTypeOK, Tick
<1>3. \A s \in AllStamps : age'[s] \in 0..Unset /\ (age'[s] = Unset <=> age[s] = Unset)
    BY <1>1, <1>2, TimerNumbers
<1>4. age' \in [Stamp \cup Debt -> 0..Unset]
  <2>1. age' = [s \in AllStamps |-> IF age[s] >= Oldest THEN age[s] ELSE age[s] + 1]
      BY StampNames DEF TimerInv, TmTypeOK, Tick
  <2>2. \A s \in AllStamps : (IF age[s] >= Oldest THEN age[s] ELSE age[s] + 1) \in 0..Unset
      BY <1>1, TimerNumbers
  <2> QED  BY <2>1, <2>2, StampNames
<1>5. up' = up /\ challenge' = challenge /\ inSync' = inSync /\ due = FALSE /\ due' = TRUE
    BY DEF Tick, TimerInv, TmTypeOK
<1>6. TmTypeOK'
    BY <1>3, <1>4, <1>5 DEF TimerInv, TmTypeOK, Owes, Debt, AllStamps
<1>7. StampsAgree'
  <2>1. "conn" \in AllStamps /\ "pong" \in AllStamps /\ "ping" \in AllStamps
      BY DEF AllStamps
  <2>2. age["pong"] <= age["conn"] => age'["pong"] <= age'["conn"]
      BY <1>1, <1>2, <2>1, TimerNumbers
  <2>3. age["ping"] = age["pong"] => age'["ping"] = age'["pong"]
      BY <1>2, <2>1
  <2>4. \A s \in Debt : age[s] = Unset => age'[s] = Unset
      BY <1>3 DEF Debt, AllStamps
  <2>5. /\ age'["version"] = age'["verack"] /\ age'["request"] = age'["proof"]
        /\ age'["headers"] = age'["getheaders"]
      BY <1>2 DEF TimerInv, StampsAgree, AllStamps
  <2> QED  BY <1>5, <2>2, <2>3, <2>4, <2>5 DEF TimerInv, StampsAgree
<1>8. ASSUME NEW s \in AllStamps, NEW limit \in Nat, age[s] # Unset => Within(s, limit),
             age'[s] # Unset, limit <= Stall
      PROVE  Within(s, limit)'
    BY <1>1, <1>2, <1>3, <1>5, <1>8, TimerNumbers DEF Within
<1>9. DebtsYoung'
  <2>1. {"verack", "proof", "pong", "getheaders"} \subseteq AllStamps
      BY DEF AllStamps
  <2> QED  BY <1>3, <1>5, <1>8, <2>1, TimerNumbers DEF TimerInv, DebtsYoung
<1>10. AskedInTime'
  <2>1. "block" \in AllStamps /\ "poolHeaders" \in AllStamps
      BY DEF AllStamps
  <2>2. ASSUME age'["block"] \in (BlockLimit + 2)..Oldest
        PROVE  age["block"] \in (BlockLimit + 1)..Oldest
      BY <1>1, <1>2, <2>1, <2>2, TimerNumbers
  <2>3. ASSUME age["poolHeaders"] <= ResendLimit
        PROVE  age'["poolHeaders"] <= ResendLimit + 1
      BY <1>1, <1>2, <2>1, <2>3, TimerNumbers
  <2> QED  BY <1>5, <2>2, <2>3 DEF TimerInv, AskedInTime, Within
<1> QED  BY <1>6, <1>7, <1>9, <1>10 DEF TimerInv

\* The one step that ends waits: a peer it keeps has failed none of the tests.
LEMMA TimerStep == ASSUME TimerInv, TimerRuns PROVE TimerInv'
<1> DEFINE keep == up /\ ~Silent /\ ~Stalling
           ping == IF keep THEN PingStamps ELSE {}
           ask  == (IF Resend THEN {"poolHeaders"} ELSE {})
                   \cup (IF Resend /\ keep THEN Asked ELSE {})
           pong == IF "ping" \in ping /\ ~challenge THEN {"pong"} ELSE {}
           now  == ping \cup ask \cup pong
           zero == IF keep THEN {} ELSE OfPeer \cup Debt
<1>1. /\ due = TRUE /\ due' = FALSE /\ up' = keep /\ inSync' = inSync
      /\ age' = Stamped(now, zero) /\ challenge' = (keep /\ (challenge \/ "ping" \in ping))
    BY DEF TimerRuns, TimerInv, TmTypeOK
<1>2. age' \in [Stamp \cup Debt -> 0..Unset]
    BY <1>1, StampedValue DEF TimerInv, TmTypeOK
<1>3. \A s \in AllStamps :
          age'[s] = IF s \in now THEN 0 ELSE IF s \in zero THEN Unset ELSE age[s]
    BY <1>1, StampedValue DEF TimerInv, TmTypeOK
<1>4. \A s \in AllStamps : age[s] \in 0..Unset
    BY StampNames DEF TimerInv, TmTypeOK
<1>5. (challenge <=> age["pong"] # Unset) /\ challenge \in BOOLEAN /\ up \in BOOLEAN
    BY DEF TimerInv, TmTypeOK, Owes, Debt
<1>6. /\ age'["poolHeaders"] = IF Resend THEN 0 ELSE age["poolHeaders"]
      /\ age'["block"] = age["block"]
    BY <1>3, Zenon DEF AllStamps, PingStamps, Asked, OfPeer, Debt
<1>7. AskedInTime'
  <2>1. age["block"] \in 0..Unset /\ age["poolHeaders"] \in 0..Unset
      BY <1>4 DEF AllStamps
  <2> QED  BY <1>1, <1>6, <2>1, TimerNumbers DEF AskedInTime, Within, Resend
<1>8. CASE ~keep
  <2>1. \A s \in OfPeer \cup Debt : age'[s] = Unset
    <3>1. OfPeer \cup Debt \subseteq AllStamps
        BY StampNames DEF Stamp
    <3> QED  BY <1>3, <1>8, <3>1 DEF OfPeer, Debt
  <2>2. challenge' = FALSE /\ up' = FALSE
      BY <1>1, <1>8, Zenon
  <2>3. TmTypeOK'
      BY <1>1, <1>2, <2>1, <2>2 DEF TimerInv, TmTypeOK, Owes, Debt
  <2>4. StampsAgree' /\ DebtsYoung'
      BY <2>1, <2>2 DEF StampsAgree, DebtsYoung, OfPeer, Debt
  <2> QED  BY <1>7, <2>3, <2>4 DEF TimerInv
<1>9. CASE keep
  <2>1. ping \in {{}, {"pingTimer"}, {"pingTimer", "ping", "send"}}
        /\ (challenge => "ping" \notin ping)
      BY <1>9 DEF PingStamps
  <2>2. /\ "version" \notin now /\ "verack" \notin now /\ "conn" \notin now
        /\ "request" \notin now /\ "proof" \notin now
        /\ "headers" \in now <=> "getheaders" \in now
        /\ "ping" \in now <=> "pong" \in now
        /\ "ping" \in ping <=> "ping" \in now
        /\ challenge => "ping" \notin now
      BY <1>5, <2>1 DEF Asked
  <2>3. \A s \in AllStamps : age'[s] = IF s \in now THEN 0 ELSE age[s]
      BY <1>3, <1>9
  <2>4. challenge' = (challenge \/ "ping" \in now) /\ up' = TRUE /\ up = TRUE
      BY <1>1, <1>5, <1>9, <2>2, Zenon
  <2>5. challenge' <=> age'["pong"] # Unset
    <3>1. 0 # Unset
        BY TimerNumbers
    <3>2. age'["pong"] = IF "ping" \in now THEN 0 ELSE age["pong"]
        BY <2>2, <2>3, Zenon DEF AllStamps
    <3>3. age'["pong"] # Unset <=> ("ping" \in now \/ age["pong"] # Unset)
        BY <3>1, <3>2
    <3> HIDE DEF now
    <3> QED  BY <1>5, <2>4, <3>3, Zenon
  <2>6. TmTypeOK'
      BY <1>1, <1>2, <2>4, <2>5 DEF TimerInv, TmTypeOK, Owes, Debt
  <2>7. StampsAgree'
    <3>1. challenge' => age'["ping"] = age'["pong"] /\ age'["pong"] <= age'["conn"]
      <4>1. CASE "ping" \in now
          BY <4>1, <1>4, <2>2, <2>3 DEF AllStamps
      <4>2. CASE "ping" \notin now
          BY <4>2, <2>2, <2>3, <2>4, Zenon DEF AllStamps, TimerInv, StampsAgree
      <4> QED  BY <4>1, <4>2
    <3>2. /\ age'["version"] = age'["verack"] /\ age'["request"] = age'["proof"]
          /\ age'["headers"] = age'["getheaders"]
        BY <2>2, <2>3, ZenonT(40) DEF AllStamps, TimerInv, StampsAgree
    <3> QED  BY <2>4, <3>1, <3>2 DEF StampsAgree
  <2>8. DebtsYoung'
    <3>1. age'["verack"] # Unset => age'["verack"] <= VerackLimit
      <4>1. age'["verack"] = age["version"]
          BY <2>2, <2>3, Zenon DEF AllStamps, TimerInv, StampsAgree
      <4>2. ~(age["version"] # Unset /\ age["version"] > VerackLimit)
          BY <1>9, Zenon DEF Stalling
      <4>3. age["version"] \in 0..Unset
          BY <1>4, Zenon DEF AllStamps
      <4> HIDE DEF keep, now
      <4> QED  BY <4>1, <4>2, <4>3, TimerNumbers
    <3>2. age'["proof"] # Unset => age'["proof"] <= ProofLimit
      <4>1. age'["proof"] = age["request"]
          BY <2>2, <2>3, Zenon DEF AllStamps, TimerInv, StampsAgree
      <4>2. ~(age["request"] # Unset /\ age["request"] > ProofLimit)
          BY <1>9, Zenon DEF Stalling
      <4>3. age["request"] \in 0..Unset
          BY <1>4, Zenon DEF AllStamps
      <4> HIDE DEF keep, now
      <4> QED  BY <4>1, <4>2, <4>3, TimerNumbers
    <3>3. ~inSync /\ age'["getheaders"] # Unset => age'["getheaders"] <= HeadersLimit
      <4>1. CASE "getheaders" \in now
        <5>1. age'["getheaders"] = 0
            BY <4>1, <2>3, Zenon DEF AllStamps
        <5> QED  BY <5>1, TimerNumbers
      <4>2. CASE "getheaders" \notin now
        <5>1. age'["getheaders"] = age["headers"]
            BY <4>2, <2>3, Zenon DEF AllStamps, TimerInv, StampsAgree
        <5>2. ~(~inSync /\ age["headers"] # Unset /\ age["headers"] > HeadersLimit)
            BY <1>9, Zenon DEF Stalling
        <5>3. age["headers"] \in 0..Unset
            BY <1>4, Zenon DEF AllStamps
        <5> HIDE DEF keep, now
        <5> QED  BY <5>1, <5>2, <5>3, TimerNumbers
      <4> QED  BY <4>1, <4>2
    <3>4. age'["pong"] # Unset => age'["pong"] <= Stall
      <4>1. CASE "pong" \in now
          BY <4>1, <2>3, TimerNumbers DEF AllStamps
      <4>2. CASE "pong" \notin now /\ challenge
        <5>1. age["ping"] = age["pong"] /\ age["pong"] <= age["conn"]
            BY <4>2 DEF TimerInv, StampsAgree
        <5>2. age'["pong"] = age["pong"]
            BY <4>2, <2>3, Zenon DEF AllStamps
        <5>3. age["pong"] \in 0..Unset /\ age["conn"] \in 0..Unset
            BY <1>4 DEF AllStamps
        <5>4. ~(age["conn"] > Grace /\ age["ping"] > Stall)
            BY <1>9, <4>2 DEF Silent
        <5> QED  BY <5>1, <5>2, <5>3, <5>4, TimerNumbers
      <4>3. CASE "pong" \notin now /\ ~challenge
          BY <4>3, <1>5, <2>3, Zenon DEF AllStamps
      <4> QED  BY <4>1, <4>2, <4>3
    <3> QED  BY <1>1, <3>1, <3>2, <3>3, <3>4, SMTT(30) DEF DebtsYoung, Within
  <2> QED  BY <1>7, <2>6, <2>7, <2>8 DEF TimerInv
<1> QED  BY <1>8, <1>9

LEMMA TimerNext == TimerInv /\ [TmNext]_tmvars => TimerInv'
<1> SUFFICES ASSUME TimerInv, [TmNext]_tmvars PROVE TimerInv'
    OBVIOUS
<1>0. /\ Paired({"recv"}, {}) /\ Paired({"recv"} \cup Asked, {})
      /\ Paired({"recv", "send"}, {}) /\ Paired({"recv"}, {"version", "verack"})
      /\ Paired({"recv"}, {"pong"}) /\ Paired({"recv", "block"}, {"headers", "getheaders"})
      /\ Paired({"recv", "block"} \cup Asked, {}) /\ Paired({}, {})
      /\ Paired({"send", "request", "proof"}, {}) /\ Paired({"recv"}, {"request", "proof"})
    BY DEF Paired, Asked
<1>1. CASE \E h \in {0, Grace + 1} : Connect(h)
    BY <1>1, ConnectStep
<1>2. ASSUME up /\ up' = up /\ due' = due /\ inSync' \in {inSync, TRUE},
             challenge' = challenge,
             NEW now, NEW zero, Paired(now, zero), "pong" \notin zero,
             age' = Stamped(now, zero)
      PROVE  TimerInv'
  <2>1. challenge' = (challenge /\ "pong" \notin zero)
      BY <1>2 DEF TimerInv, TmTypeOK
  <2> QED  BY <1>2, <2>1, MessageStep, Zenon
<1>3. CASE AnyMessage \/ HandleVersionMsg \/ HandlePing \/ HandleVerack
  <2>1. up /\ up' = up /\ due' = due /\ inSync' \in {inSync, TRUE} /\ challenge' = challenge
      BY <1>3, Zenon DEF AnyMessage, HandleVersionMsg, HandlePing, HandleVerack
  <2>2. "pong" \notin {} /\ "pong" \notin {"version", "verack"}
      OBVIOUS
  <2> QED  BY <1>0, <1>2, <1>3, <2>1, <2>2, Zenon
           DEF AnyMessage, HandleVersionMsg, HandlePing, HandleVerack
<1>4. ASSUME NEW n \in {"right", "wrong", "zero"}, HandlePong(n) PROVE TimerInv'
  <2>1. up /\ up' = up /\ due' = due /\ inSync' \in {inSync, TRUE}
      BY <1>4 DEF HandlePong
  <2>2. CASE n = "wrong"
    <3>1. challenge' = challenge /\ age' = Stamped({"recv"}, {}) /\ "pong" \notin {}
        BY <1>4, <2>2 DEF HandlePong, TimerInv, TmTypeOK
    <3> QED  BY <1>0, <1>2, <2>1, <3>1, Zenon
  <2>3. CASE n # "wrong"
    <3>1. /\ challenge' = (challenge /\ "pong" \notin {"pong"})
          /\ age' = Stamped({"recv"}, {"pong"})
        BY <1>4, <2>3 DEF HandlePong
    <3> QED  BY <1>0, <2>1, <3>1, MessageStep, Zenon
  <2> QED  BY <2>2, <2>3
<1>5. ASSUME NEW b \in {"new", "full", "orphan", "empty", "duplicate"}, HandleHeaders(b)
      PROVE  TimerInv'
  <2>1. up /\ up' = up /\ due' = due /\ challenge' = challenge /\ inSync' \in {inSync, TRUE}
      BY <1>5, Zenon DEF HandleHeaders, TimerInv, TmTypeOK
  <2>2. "pong" \notin {} /\ "pong" \notin {"headers", "getheaders"}
      OBVIOUS
  <2>3. \/ age' = Stamped({"recv", "block"}, {"headers", "getheaders"})
        \/ age' = Stamped({"recv", "block"} \cup Asked, {})
        \/ age' = Stamped({"recv"} \cup Asked, {})
        \/ age' = Stamped({"recv"}, {})
      BY <1>5 DEF HandleHeaders
  <2> QED  BY <1>0, <1>2, <2>1, <2>2, <2>3, Zenon
<1>6. CASE AskProof
  <2>1. up /\ up' = up /\ due' = due /\ challenge' = challenge /\ inSync' \in {inSync, TRUE}
      BY <1>6 DEF AskProof
  <2>2. \/ age' = Stamped({"send", "request", "proof"}, {})
        \/ age' = Stamped({}, {})
      BY <1>6 DEF AskProof
  <2>3. "pong" \notin {}
      OBVIOUS
  <2> QED  BY <1>0, <1>2, <2>1, <2>2, <2>3, Zenon
<1>7. CASE HandleProofMsg
  <2>1. up /\ up' = up /\ due' = due /\ challenge' = challenge /\ inSync' \in {inSync, TRUE}
      BY <1>7 DEF HandleProofMsg
  <2>2. "pong" \notin {"request", "proof"}
      OBVIOUS
  <2> QED  BY <1>0, <1>2, <1>7, <2>1, <2>2, Zenon DEF HandleProofMsg
<1>8. CASE Tick
    BY <1>8, TickStep
<1>9. CASE TimerRuns
    BY <1>9, TimerStep
<1>10. CASE UNCHANGED tmvars
    BY <1>10 DEF tmvars, TimerInv, TmTypeOK, StampsAgree, DebtsYoung, AskedInTime, Within, Owes
<1> QED  BY <1>1, <1>3, <1>4, <1>5, <1>6, <1>7, <1>8, <1>9, <1>10
            DEF TmNext

-----------------------------------------------------------------------------
(* The theorems.                                                           *)

\* The invariant implies what the runs check.
LEMMA TimerImplies == TimerInv => TmTypeOK /\ NoStallForgiven /\ AsksAgain
<1> SUFFICES ASSUME TimerInv PROVE TmTypeOK /\ NoStallForgiven /\ AsksAgain
    OBVIOUS
<1>1. \A s \in AllStamps : age[s] \in 0..Unset
    BY StampNames DEF TimerInv, TmTypeOK
<1>2. {"verack", "proof", "pong", "getheaders", "block", "poolHeaders"} \subseteq AllStamps
    BY DEF AllStamps
<1>3. NoStallForgiven
    BY <1>1, <1>2, TimerNumbers DEF NoStallForgiven, TimerInv, DebtsYoung, Within, Owes
<1>4. AsksAgain
    BY <1>1, <1>2, TimerNumbers DEF AsksAgain, TimerInv, AskedInTime, Within
<1> QED  BY <1>3, <1>4 DEF TimerInv

LEMMA TimerInvariant == TmSpec => []TimerInv
BY TimerInit, TimerNext, PTL DEF TmSpec

\* The challenge of hsk_pool_timer is set exactly while a pong is owed to it.
THEOREM TimerTypes == TmSpec => []TmTypeOK
BY TimerInvariant, TimerImplies, PTL

\* Whatever the limits and whatever the peer sends, hsk_pool_timer keeps no peer
\* that owes an answer for longer than the limit for that answer.
THEOREM StallsEnd == TmSpec => []NoStallForgiven
BY TimerInvariant, TimerImplies, PTL

\* hsk_pool_timer asks for headers when none have come for BlockLimit, and does
\* so again every ResendLimit.
THEOREM HeadersAskedAgain == TmSpec => []AsksAgain
BY TimerInvariant, TimerImplies, PTL

\* hsk_pool_timer drops a peer that has just sent something only if it owes an
\* answer.
THEOREM PromptPeersKept == TmSpec => PromptKept
<1> DEFINE Kept == (up /\ ~up' /\ age["recv"] = 0 /\ age["send"] <= Stall) => Owes # {}
<1>1. ASSUME TimerInv, [TmNext]_tmvars PROVE [Kept]_tmvars
  <2> SUFFICES ASSUME up, ~up', age["recv"] = 0, age["send"] <= Stall
               PROVE  Owes # {}
      OBVIOUS
  <2>1. TimerRuns
      BY <1>1, Zenon DEF TmNext, tmvars, Connect, AnyMessage, HandleVersionMsg, HandlePing,
                  HandleVerack, HandlePong, HandleHeaders, AskProof, HandleProofMsg, Tick
  <2>2. Silent \/ Stalling
      BY <2>1, Zenon DEF TimerRuns
  <2>3. CASE Stalling
      BY <2>3, <1>1 DEF Stalling, TimerInv, StampsAgree, Owes, Debt
  <2>4. CASE Silent
    <3>1. age["send"] \in Nat /\ age["recv"] \in Nat /\ ~(age["recv"] > Stall)
        BY StampNames, TimerNumbers, <1>1 DEF TimerInv, TmTypeOK, AllStamps
    <3>2. challenge
        BY <2>4, <3>1, TimerNumbers DEF Silent
    <3> QED  BY <3>2, <1>1 DEF TimerInv, TmTypeOK
  <2> QED  BY <2>2, <2>3, <2>4
<1> QED  BY <1>1, TimerInvariant, PTL DEF TmSpec, PromptKept

-----------------------------------------------------------------------------
(* The message stream.                                                     *)

\* Pieces of messages.
Pieces == [of : Nat, part : Nat]

\* The whole stream w, as far as it has been sent: message i begins behind
\* position at[i].
Layout(w, at) ==
    /\ w \in Seq(Pieces) /\ at \in [1..(Len(script) + 1) -> 0..Len(w)]
    /\ at[1] = 0 /\ at[Len(script) + 1] = Len(w)
    /\ \A i \in 1..Len(script) :
          /\ at[i + 1] = at[i] + HdrSize + script[i].size
          /\ \A k \in 1..(HdrSize + script[i].size) : w[at[i] + k] = Piece(i, k)

\* What is left of the stream: the part that is kept, the chunk and what has not
\* been read.  It begins where message m ends, or behind the next header.
Ahead == msg \o (chunk \o coming)
Place(m, at) == at[m + 1] + (IF cmd = 0 THEN 0 ELSE HdrSize)
Left(m, w, at) ==
    /\ Place(m, at) + Len(Ahead) = Len(w)
    /\ \A k \in 1..Len(Ahead) : Ahead[k] = w[Place(m, at) + k]

\* The first m messages are done with, and the peer reads on behind them.
Passed(i) == ~Ends(script[i]) \/ script[i].kind = "kill"
Front(m) ==
    /\ cmd \in {0, m + 1}
    /\ msgLen = IF cmd = 0 THEN HdrSize ELSE script[cmd].size
    /\ cmd # 0 => script[cmd].kind # "magic" /\ script[cmd].size <= MaxBody
    /\ \A i \in 1..m : Passed(i)
    /\ ~reading => Len(msg) < msgLen
    /\ \E w, at : Layout(w, at) /\ Left(m, w, at)

StreamTypes ==
    /\ script \in Seq(Message) /\ coming \in Seq(Pieces)
    /\ alive \in BOOLEAN /\ reading \in BOOLEAN
    /\ cmd \in 0..Len(script) /\ msgLen \in Nat /\ handled \in Seq(Nat)
    /\ msg \in Seq(Pieces) /\ chunk \in Seq(Pieces) /\ Len(msg) <= msgLen
    /\ ~reading => chunk = <<>>

InOrder(q) == \A a, b \in DOMAIN q : a < b => q[a] < q[b]
DueTo(m) == {i \in 1..m : Due(i)}

StreamInv ==
    /\ StreamTypes /\ InOrder(handled)
    /\ \E m \in 0..Len(script) : Range(handled) = DueTo(m) /\ (alive \/ reading => Front(m))

-----------------------------------------------------------------------------

\* What a concatenation of three returns.
LEMMA ThreeParts ==
    ASSUME NEW S, NEW a \in Seq(S), NEW b \in Seq(S), NEW c \in Seq(S)
    PROVE  /\ a \o (b \o c) \in Seq(S) /\ Len(a \o (b \o c)) = Len(a) + Len(b) + Len(c)
           /\ Len(a) \in Nat /\ Len(b) \in Nat /\ Len(c) \in Nat
           /\ \A k \in 1..(Len(a) + Len(b) + Len(c)) : (a \o (b \o c))[k] =
                 IF k <= Len(a) THEN a[k]
                 ELSE IF k <= Len(a) + Len(b) THEN b[k - Len(a)]
                 ELSE c[k - Len(a) - Len(b)]
OBVIOUS

\* What a subsequence returns.
LEMMA SubSeqValue ==
    ASSUME NEW S, NEW q \in Seq(S), NEW m \in 1..(Len(q) + 1), NEW n \in (m - 1)..Len(q)
    PROVE  /\ SubSeq(q, m, n) \in Seq(S) /\ Len(SubSeq(q, m, n)) = n - m + 1
           /\ \A k \in 1..(n - m + 1) : SubSeq(q, m, n)[k] = q[m + k - 1]
BY SMTT(30)

\* What an element appended returns.
LEMMA AppendValue ==
    ASSUME NEW S, NEW q \in Seq(S), NEW x \in S
    PROVE  /\ Append(q, x) \in Seq(S) /\ Len(Append(q, x)) = Len(q) + 1
           /\ \A k \in 1..Len(q) : Append(q, x)[k] = q[k]
           /\ Append(q, x)[Len(q) + 1] = x
OBVIOUS

\* What a concatenation returns.
LEMMA ConcatValue ==
    ASSUME NEW S, NEW a \in Seq(S), NEW b \in Seq(S)
    PROVE  /\ a \o b \in Seq(S) /\ Len(a \o b) = Len(a) + Len(b)
           /\ Len(a) \in Nat /\ Len(b) \in Nat
           /\ \A k \in 1..(Len(a) + Len(b)) : (a \o b)[k] =
                 IF k <= Len(a) THEN a[k] ELSE b[k - Len(a)]
OBVIOUS

\* Concatenation is associative.
LEMMA Associative ==
    ASSUME NEW S, NEW a \in Seq(S), NEW b \in Seq(S), NEW c \in Seq(S)
    PROVE  (a \o b) \o c = a \o (b \o c)
OBVIOUS

\* What is put behind three sequences is put behind the last.
LEMMA OneMore ==
    ASSUME NEW S, NEW a \in Seq(S), NEW b \in Seq(S), NEW c \in Seq(S), NEW d \in Seq(S)
    PROVE  a \o (b \o (c \o d)) = (a \o (b \o c)) \o d
<1>1. b \o (c \o d) = (b \o c) \o d
  BY Associative, SMTT(30)
<1>2. ASSUME NEW e \in Seq(S) PROVE a \o (e \o d) = (a \o e) \o d
  BY Associative, SMTT(30)
<1>3. b \o c \in Seq(S)
  BY ConcatValue, Zenon
<1> QED
  BY <1>1, <1>2, <1>3, Zenon

\* Sequences with the same elements are the same.
LEMMA SameSeq ==
    ASSUME NEW S, NEW a \in Seq(S), NEW b \in Seq(S), Len(a) = Len(b),
           \A k \in 1..Len(b) : a[k] = b[k]
    PROVE  a = b
OBVIOUS

\* A sequence that is cut in two.
LEMMA Rejoined ==
    ASSUME NEW S, NEW q \in Seq(S), NEW n \in 0..Len(q)
    PROVE  /\ SubSeq(q, 1, n) \o SubSeq(q, n + 1, Len(q)) = q /\ <<>> \o q = q
           /\ SubSeq(q, 1, n) \in Seq(S) /\ Len(SubSeq(q, 1, n)) = n
           /\ SubSeq(q, n + 1, Len(q)) \in Seq(S)
           /\ Len(SubSeq(q, n + 1, Len(q))) = Len(q) - n
<1> DEFINE a == SubSeq(q, 1, n)
           b == SubSeq(q, n + 1, Len(q))
<1>1. Len(q) \in Nat /\ n \in Nat /\ n <= Len(q)
  OBVIOUS
<1>2. a \in Seq(S) /\ Len(a) = n /\ \A k \in 1..n : a[k] = q[k]
  <2>1. 1 \in 1..(Len(q) + 1) /\ n \in (1 - 1)..Len(q) /\ n - 1 + 1 = n
        /\ \A k \in 1..n : 1 + k - 1 = k
    BY <1>1
  <2> QED
    BY <2>1, SubSeqValue
<1>3. b \in Seq(S) /\ Len(b) = Len(q) - n /\ \A k \in 1..(Len(q) - n) : b[k] = q[n + k]
  <2>1. n + 1 \in 1..(Len(q) + 1) /\ Len(q) \in ((n + 1) - 1)..Len(q)
        /\ Len(q) - (n + 1) + 1 = Len(q) - n
        /\ \A k \in 1..(Len(q) - n) : (n + 1) + k - 1 = n + k
    BY <1>1
  <2>2. /\ b \in Seq(S) /\ Len(b) = Len(q) - (n + 1) + 1
        /\ \A k \in 1..(Len(q) - (n + 1) + 1) : b[k] = q[(n + 1) + k - 1]
    BY <2>1, SubSeqValue, ZenonT(30)
  <2> HIDE DEF b
  <2> QED
    BY <2>1, <2>2
<1> HIDE DEF a, b
<1> DEFINE c == a \o b
<1>4. /\ c \in Seq(S) /\ Len(c) = Len(a) + Len(b)
      /\ \A k \in 1..(Len(a) + Len(b)) : c[k] = IF k <= Len(a) THEN a[k] ELSE b[k - Len(a)]
  BY <1>2, <1>3, ConcatValue, Zenon
<1> HIDE DEF c
<1>5. Len(c) = Len(q)
  BY <1>1, <1>2, <1>3, <1>4
<1>6. ASSUME NEW k \in 1..Len(q) PROVE c[k] = q[k]
  <2>1. c[k] = IF k <= n THEN a[k] ELSE b[k - n]
    BY <1>2, <1>4, <1>5, Zenon
  <2>2. CASE k <= n
    BY <1>1, <1>2, <2>1, <2>2
  <2>3. CASE ~ (k <= n)
    <3>1. k - n \in 1..(Len(q) - n) /\ n + (k - n) = k
      BY <1>1, <2>3
    <3> QED
      BY <1>3, <2>1, <2>3, <3>1, Zenon
  <2> QED
    BY <2>2, <2>3
<1>7. c = q
  BY <1>4, <1>5, <1>6, SameSeq, Zenon
<1>8. <<>> \o q = q
  OBVIOUS
<1> QED
  BY <1>2, <1>3, <1>7, <1>8, Zenon DEF a, b, c

\* A number behind all others keeps a sequence in order.
LEMMA OrderKept ==
    ASSUME NEW q \in Seq(Nat), InOrder(q), NEW m \in Nat, Range(q) \subseteq 1..m
    PROVE  /\ InOrder(Append(q, m + 1)) /\ Append(q, m + 1) \in Seq(Nat)
           /\ Range(Append(q, m + 1)) = Range(q) \cup {m + 1}
<1> DEFINE p == Append(q, m + 1)
<1>1. /\ p \in Seq(Nat) /\ Len(p) = Len(q) + 1 /\ Len(q) \in Nat
      /\ (\A k \in 1..Len(q) : p[k] = q[k]) /\ p[Len(q) + 1] = m + 1
  BY AppendValue
<1> HIDE DEF p
<1>2. DOMAIN p = 1..(Len(q) + 1) /\ DOMAIN q = 1..Len(q)
  BY <1>1
<1>3. \A k \in DOMAIN q : q[k] \in 1..m
  BY DEF Range
<1>4. ASSUME NEW a \in DOMAIN p, NEW b \in DOMAIN p, a < b PROVE p[a] < p[b]
  <2>1. a \in DOMAIN q /\ p[a] = q[a]
    BY <1>1, <1>2, <1>4
  <2>2. CASE b \in DOMAIN q
    <3>1. p[b] = q[b]
      BY <1>1, <1>2, <2>2
    <3> QED
      BY <1>4, <2>1, <2>2, <3>1 DEF InOrder
  <2>3. CASE b \notin DOMAIN q
    <3>1. b = Len(q) + 1
      BY <1>1, <1>2, <2>3
    <3>2. p[b] = m + 1 /\ q[a] \in 1..m
      BY <1>1, <1>3, <2>1, <3>1
    <3> QED
      BY <2>1, <3>2
  <2> QED
    BY <2>2, <2>3
<1>5. Range(p) = Range(q) \cup {m + 1}
  <2>1. ASSUME NEW x \in Range(p) PROVE x \in Range(q) \cup {m + 1}
    <3>1. PICK k \in 1..(Len(q) + 1) : p[k] = x
      BY <1>2, <2>1 DEF Range
    <3>2. k \in 1..Len(q) \/ k = Len(q) + 1
      BY <1>1
    <3>3. CASE k \in 1..Len(q)
      BY <1>1, <1>2, <3>1, <3>3, Zenon DEF Range
    <3> QED
      BY <1>1, <3>1, <3>2, <3>3
  <2>2. ASSUME NEW x \in Range(q) PROVE x \in Range(p)
    <3>1. PICK k \in 1..Len(q) : q[k] = x
      BY <1>2, <2>2 DEF Range
    <3>2. k \in DOMAIN p /\ p[k] = x
      BY <1>1, <1>2, <3>1
    <3> QED
      BY <3>2 DEF Range
  <2>3. m + 1 \in Range(p)
    <3>1. Len(q) + 1 \in DOMAIN p /\ p[Len(q) + 1] = m + 1
      BY <1>1, <1>2
    <3> QED
      BY <3>1 DEF Range
  <2> QED
    BY <2>1, <2>2, <2>3
<1> QED
  BY <1>1, <1>4, <1>5, Zenon DEF InOrder, p

\* Nothing has been sent at first.
LEMMA StreamInitInv == PsInit => StreamInv
<1> SUFFICES ASSUME PsInit PROVE StreamInv
  OBVIOUS
<1>1. script = <<>> /\ Len(script) = 0 /\ coming = <<>> /\ msg = <<>> /\ chunk = <<>>
      /\ handled = <<>> /\ cmd = 0 /\ msgLen = 2 /\ alive = TRUE /\ reading = FALSE
  BY DEF PsInit, HdrSize
<1>2. StreamTypes
  <2>1. <<>> \in Seq(Message) /\ <<>> \in Seq(Pieces) /\ <<>> \in Seq(Nat) /\ Len(<<>>) <= 2
        /\ 0 \in 0..0 /\ 2 \in Nat
    OBVIOUS
  <2> QED
    BY <1>1, <2>1, Zenon DEF StreamTypes
<1>3. InOrder(handled) /\ Range(handled) = {}
  BY <1>1 DEF InOrder, Range
<1>4. DueTo(0) = {}
  BY DEF DueTo
<1>5. Ahead = <<>> /\ Len(Ahead) = 0
  BY <1>1 DEF Ahead
<1>6. Front(0)
  <2> DEFINE at == [i \in 1..1 |-> 0]
  <2>1. at \in [1..1 -> 0..0] /\ at[1] = 0
    OBVIOUS
  <2> HIDE DEF at
  <2>2. Layout(<<>>, at)
    <3>1. <<>> \in Seq(Pieces) /\ Len(<<>>) = 0 /\ 1..Len(script) = {} /\ Len(script) + 1 = 1
      BY <1>1
    <3> QED
      BY <2>1, <3>1 DEF Layout
  <2>3. Left(0, <<>>, at)
    BY <1>1, <1>5, <2>1 DEF Left, Place
  <2>4. \E w, q : Layout(w, q) /\ Left(0, w, q)
    BY <2>2, <2>3, Zenon
  <2>5. Len(msg) < msgLen
    BY <1>1
  <2>6. \A i \in 1..0 : Passed(i)
    OBVIOUS
  <2> QED
    BY <1>1, <2>4, <2>5, <2>6 DEF Front, HdrSize
<1>7. 0 \in 0..Len(script)
  BY <1>1
<1> QED
  BY <1>2, <1>3, <1>4, <1>6, <1>7 DEF StreamInv

\* A new message leaves what is due of the others.
LEMMA SameDue ==
    ASSUME NEW n \in Nat, Len(script) \in Nat, n <= Len(script),
           \A i \in 1..Len(script) : script'[i] = script[i]
    PROVE  /\ DueTo(n)' = DueTo(n)
           /\ \A i \in 1..n : (Due(i)' <=> Due(i)) /\ (Passed(i)' <=> Passed(i))
<1>1. ASSUME NEW i \in 1..n
      PROVE  (Due(i)' <=> Due(i)) /\ (Passed(i)' <=> Passed(i))
  <2>1. script'[i] = script[i] /\ \A j \in 1..(i - 1) : script'[j] = script[j]
    OBVIOUS
  <2> QED
    BY <2>1 DEF Due, Passed, Ends
<1> QED
  BY <1>1 DEF DueTo

\* The peer sends a message: the stream grows behind what is left of it.
LEMMA SendKeepsInv ==
    ASSUME StreamInv, NEW x \in Message, PsSend(x) PROVE StreamInv'
<1> DEFINE n == Len(script)
           t == Tokens(n + 1, x.size)
<1>1. /\ StreamTypes /\ InOrder(handled) /\ n \in Nat
      /\ script \in Seq(Message) /\ x.size \in Nat
  BY StreamAssumption DEF StreamInv, StreamTypes
<1>2. /\ script' = Append(script, x) /\ coming' = coming \o t
      /\ UNCHANGED <<alive, cmd, msg, msgLen, chunk, reading, handled>>
  BY DEF PsSend
<1>3. /\ script' \in Seq(Message) /\ Len(script') = n + 1 /\ script'[n + 1] = x
      /\ \A i \in 1..n : script'[i] = script[i]
  BY <1>1, <1>2, AppendValue
<1>4. /\ t \in Seq(Pieces) /\ Len(t) = HdrSize + x.size
      /\ \A k \in 1..(HdrSize + x.size) : t[k] = Piece(n + 1, k)
  <2>1. \A k \in 1..(2 + x.size) : Piece(n + 1, k) \in Pieces
    BY <1>1 DEF Piece, Pieces
  <2>2. t = [k \in 1..(2 + x.size) |-> Piece(n + 1, k)] /\ 2 + x.size \in Nat
    BY <1>1 DEF Tokens, HdrSize
  <2> HIDE DEF t, n
  <2> QED
    BY <2>1, <2>2 DEF HdrSize
<1> HIDE DEF n, t
<1>5. coming \in Seq(Pieces) /\ coming' \in Seq(Pieces)
  <2>1. coming \in Seq(Pieces)
    BY <1>1 DEF StreamTypes
  <2> QED
    BY <1>2, <1>4, <2>1, ConcatValue
<1>6. StreamTypes'
  <2>1. cmd \in 0..n => cmd \in 0..(n + 1)
    BY <1>1
  <2> QED
    BY <1>1, <1>2, <1>3, <1>5, <2>1, Zenon DEF StreamTypes, n
<1>7. PICK m \in 0..n : Range(handled) = DueTo(m) /\ (alive \/ reading => Front(m))
  BY DEF StreamInv, n
<1>8. DueTo(m)' = DueTo(m) /\ \A i \in 1..m : Passed(i)' <=> Passed(i)
  <2>1. m \in Nat /\ m <= n
    BY <1>1
  <2> QED
    BY <1>1, <1>3, <2>1, SameDue DEF n
<1>9. ASSUME Front(m) PROVE Front(m)'
  <2>1. PICK w, at : Layout(w, at) /\ Left(m, w, at)
    BY <1>9, Zenon DEF Front
  <2>0. PICK v : v = w \o t
    BY Zenon
  <2>2. /\ w \in Seq(Pieces) /\ at \in [1..(n + 1) -> 0..Len(w)]
        /\ at[1] = 0 /\ at[n + 1] = Len(w)
    BY <2>1 DEF Layout, n
  <2>3. /\ v \in Seq(Pieces) /\ Len(v) = Len(w) + Len(t) /\ Len(w) \in Nat /\ Len(t) \in Nat
        /\ \A k \in 1..(Len(w) + Len(t)) : v[k] = IF k <= Len(w) THEN w[k] ELSE t[k - Len(w)]
    BY <1>4, <2>0, <2>2, ConcatValue
  <2>4. PICK to : /\ to \in [1..(n + 2) -> 0..Len(v)] /\ to[1] = 0 /\ to[n + 2] = Len(v)
                  /\ \A i \in 1..(n + 1) : to[i] = at[i]
    <3> DEFINE f == [i \in 1..(n + 2) |-> IF i = n + 2 THEN Len(v) ELSE at[i]]
    <3>1. /\ f \in [1..(n + 2) -> 0..Len(v)] /\ f[1] = 0 /\ f[n + 2] = Len(v)
          /\ \A i \in 1..(n + 1) : f[i] = at[i]
      BY <1>1, <2>2, <2>3, SMTT(30)
    <3> QED
      BY <3>1, Zenon
  <2>5. Layout(v, to)'
    <3>1. ASSUME NEW i \in 1..(n + 1)
          PROVE  /\ to[i + 1] = to[i] + HdrSize + script'[i].size
                 /\ \A k \in 1..(HdrSize + script'[i].size) : v[to[i] + k] = Piece(i, k)
      <4>1. CASE i = n + 1
        <5>1. to[i] = Len(w) /\ to[i + 1] = Len(v) /\ script'[i].size = x.size
          BY <1>1, <1>3, <2>2, <2>4, <4>1
        <5>2. ASSUME NEW k \in 1..(HdrSize + x.size) PROVE v[Len(w) + k] = Piece(i, k)
          <6>1. /\ Len(w) + k \in 1..(Len(w) + Len(t)) /\ ~ (Len(w) + k <= Len(w))
                /\ (Len(w) + k) - Len(w) = k
            <7> DEFINE a == Len(w)
                       b == Len(t)
            <7>1. a \in Nat /\ b \in Nat /\ k \in 1..b
              BY <1>4, <2>3, Zenon
            <7> HIDE DEF a, b
            <7>2. a + k \in 1..(a + b) /\ ~ (a + k <= a) /\ (a + k) - a = k
              BY <7>1
            <7> QED
              BY <7>2 DEF a, b
          <6> QED
            BY <1>4, <2>3, <4>1, <6>1, Zenon
        <5>3. Len(v) = Len(w) + HdrSize + x.size
          <6> DEFINE a == Len(w)
                     b == Len(t)
          <6>1. a \in Nat /\ Len(v) = a + b /\ b = 2 + x.size /\ x.size \in Nat
            BY <1>1, <1>4, <2>3 DEF HdrSize
          <6> HIDE DEF a, b
          <6>2. a + b = a + 2 + x.size
            BY <6>1
          <6> QED
            BY <6>1, <6>2, Zenon DEF a, HdrSize
        <5> QED
          BY <5>1, <5>2, <5>3, Zenon
      <4>2. CASE i # n + 1
        <5>1. i \in 1..n /\ i \in 1..(n + 1) /\ i + 1 \in 1..(n + 1)
          BY <1>1, <4>2
        <5>2. /\ at[i + 1] = at[i] + HdrSize + script[i].size /\ script'[i] = script[i]
              /\ \A k \in 1..(HdrSize + script[i].size) : w[at[i] + k] = Piece(i, k)
              /\ at[i] \in Nat /\ at[i + 1] <= Len(w) /\ script[i].size \in Nat
          <6>1. script[i] \in Message
            BY <1>1, <5>1 DEF n
          <6>2. script[i].size \in Nat
            BY <6>1, StreamAssumption
          <6>3. /\ at[i + 1] = at[i] + HdrSize + script[i].size
                /\ \A k \in 1..(HdrSize + script[i].size) : w[at[i] + k] = Piece(i, k)
            BY <2>1, <5>1 DEF Layout, n
          <6>4. at[i] \in Nat /\ at[i + 1] <= Len(w)
            <7>1. at[i] \in 0..Len(w) /\ at[i + 1] \in 0..Len(w)
              BY <2>2, <5>1, Zenon
            <7> QED
              BY <2>3, <7>1
          <6> QED
            BY <1>3, <5>1, <6>2, <6>3, <6>4, Zenon
        <5>3. ASSUME NEW k \in 1..(HdrSize + script[i].size) PROVE v[at[i] + k] = Piece(i, k)
          <6>1. at[i] + k \in 1..(Len(w) + Len(t)) /\ at[i] + k <= Len(w)
            <7>1. at[i] + 2 + script[i].size <= Len(w) /\ k \in 1..(2 + script[i].size)
              BY <5>2 DEF HdrSize
            <7>2. at[i] \in Nat /\ Len(w) \in Nat /\ Len(t) \in Nat /\ script[i].size \in Nat
              BY <2>3, <5>2, Zenon
            <7> DEFINE a == at[i]
                       z == script[i].size
            <7>3. a + 2 + z <= Len(w) /\ k \in 1..(2 + z) /\ a \in Nat /\ z \in Nat
              BY <7>1, <7>2
            <7> HIDE DEF a, z
            <7>4. a + k \in 1..(Len(w) + Len(t)) /\ a + k <= Len(w)
              BY <7>2, <7>3
            <7> QED
              BY <7>4 DEF a
          <6> QED
            BY <2>3, <5>2, <6>1, Zenon
        <5> QED
          BY <2>4, <5>1, <5>2, <5>3, Zenon
      <4> QED
        BY <4>1, <4>2, Zenon
    <3>2. (n + 1) + 1 = n + 2
      BY <1>1
    <3>3. /\ Len(script') = n + 1 /\ Len(script') + 1 = n + 2
      BY <1>3, <3>2
    <3> QED
      BY <2>3, <2>4, <3>1, <3>3, Zenon DEF Layout
  <2>6. Left(m, v, to)'
    <3> DEFINE p == Place(m, at)
    <3>1. /\ msg \in Seq(Pieces) /\ chunk \in Seq(Pieces)
          /\ Ahead = msg \o (chunk \o coming) /\ Ahead' = msg \o (chunk \o (coming \o t))
      BY <1>1, <1>2, Zenon DEF StreamTypes, Ahead
    <3>2. to[m + 1] = at[m + 1] /\ at[m + 1] \in Nat
      BY <1>1, <2>2, <2>3, <2>4
    <3>3. Place(m, to)' = p /\ p \in Nat
      <4>1. cmd' = cmd
        BY <1>2
      <4> QED
        BY <3>2, <4>1 DEF Place, HdrSize
    <3>4. p + Len(Ahead) = Len(w) /\ \A k \in 1..Len(Ahead) : Ahead[k] = w[p + k]
      BY <2>1 DEF Left
    <3> HIDE DEF p
    <3>5. /\ Len(Ahead) \in Nat /\ Len(Ahead') = Len(Ahead) + Len(t)
          /\ \A k \in 1..(Len(Ahead) + Len(t)) :
                Ahead'[k] = IF k <= Len(Ahead) THEN Ahead[k] ELSE t[k - Len(Ahead)]
      <4>1. Ahead \in Seq(Pieces) /\ Ahead' = Ahead \o t
        <5>0. /\ msg \in Seq(Pieces) /\ chunk \in Seq(Pieces) /\ coming \in Seq(Pieces)
              /\ t \in Seq(Pieces)
          BY <1>4, <1>5, <3>1, Zenon
        <5>1. chunk \o coming \in Seq(Pieces)
          BY <1>5, <3>1, ConcatValue, Zenon
        <5>2. msg \o (chunk \o (coming \o t)) = (msg \o (chunk \o coming)) \o t
          <6> HIDE DEF t
          <6> QED
            BY <5>0, OneMore, SMTT(30)
        <5>3. msg \o (chunk \o coming) \in Seq(Pieces)
          BY <3>1, <5>1, ConcatValue, Zenon
        <5> QED
          BY <3>1, <5>2, <5>3, Zenon
      <4> QED
        BY <1>4, <4>1, ConcatValue, Zenon
    <3> DEFINE next == Ahead'
               a == Len(Ahead)
    <3>6. p + Len(next) = Len(v) /\ Len(next) = a + Len(t) /\ a \in Nat /\ Len(w) = p + a
      <4>1. Len(next) = a + Len(t) /\ a \in Nat /\ Len(w) = p + a
        BY <3>4, <3>5
      <4> HIDE DEF next, a
      <4> QED
        BY <2>3, <3>3, <4>1
    <3>7. ASSUME NEW k \in 1..Len(next) PROVE next[k] = v[p + k]
      <4>1. /\ k \in 1..(a + Len(t)) /\ next[k] = IF k <= a THEN Ahead[k] ELSE t[k - a]
            /\ k \in 1..a => Ahead[k] = w[p + k]
        BY <3>4, <3>5, <3>6, Zenon
      <4> HIDE DEF next, a
      <4>2. p + k \in 1..(Len(w) + Len(t)) /\ (k <= a <=> p + k <= Len(w))
            /\ (p + k) - Len(w) = k - a /\ (k <= a => k \in 1..a)
        BY <2>3, <3>3, <3>6, <4>1
      <4>3. v[p + k] = IF p + k <= Len(w) THEN w[p + k] ELSE t[(p + k) - Len(w)]
        BY <2>3, <4>2, Zenon
      <4>4. CASE k <= a
        BY <4>1, <4>2, <4>3, <4>4, Zenon
      <4>5. CASE ~ (k <= a)
        BY <4>1, <4>2, <4>3, <4>5, Zenon
      <4> QED
        BY <4>4, <4>5, Zenon
    <3> QED
      BY <3>3, <3>6, <3>7, Zenon DEF Left
  <2>7. \E a, b : (Layout(a, b) /\ Left(m, a, b))'
    BY <2>5, <2>6
  <2>8. /\ cmd' \in {0, m + 1} /\ \A i \in 1..m : Passed(i)'
        /\ ~reading' => Len(msg') < msgLen'
        /\ cmd # 0 => cmd \in 1..n
    BY <1>1, <1>2, <1>8, <1>9 DEF Front, StreamTypes, n
  <2>9. cmd # 0 => script'[cmd] = script[cmd]
    BY <1>3, <2>8
  <2>10. /\ msgLen' = IF cmd' = 0 THEN HdrSize ELSE script'[cmd'].size
         /\ cmd' # 0 => script'[cmd'].kind # "magic" /\ script'[cmd'].size <= MaxBody
    BY <1>2, <1>9, <2>9, Zenon DEF Front
  <2> QED
    BY <2>7, <2>8, <2>10, Zenon DEF Front
<1>10. m \in 0..Len(script')
  BY <1>1, <1>3
<1> QED
  BY <1>1, <1>2, <1>6, <1>7, <1>8, <1>9, <1>10 DEF StreamInv

\* Bytes that move from the socket to the chunk, or from there to the kept part,
\* are still what is left.
LEMMA QuietKeepsInv ==
    ASSUME StreamInv, StreamTypes', UNCHANGED <<script, cmd, msgLen, handled, alive>>,
           Ahead' = Ahead, reading' => alive \/ reading, ~reading' => Len(msg') < msgLen
    PROVE  StreamInv'
<1>1. PICK m \in 0..Len(script) : Range(handled) = DueTo(m) /\ (alive \/ reading => Front(m))
  BY DEF StreamInv
<1>2. script' = script /\ cmd' = cmd /\ msgLen' = msgLen /\ handled' = handled /\ alive' = alive
  OBVIOUS
<1>3. DueTo(m)' = DueTo(m) /\ \A i : Passed(i)' <=> Passed(i)
  BY <1>2, Zenon DEF DueTo, Due, Passed
<1>4. ASSUME Front(m) PROVE Front(m)'
  <2>1. PICK w, at : Layout(w, at) /\ Left(m, w, at)
    BY <1>4, Zenon DEF Front
  <2>2. Layout(w, at)' /\ Left(m, w, at)'
    BY <1>2, <2>1, Zenon DEF Layout, Left, Place
  <2>3. \E a, b : (Layout(a, b) /\ Left(m, a, b))'
    BY <2>2, Zenon
  <2> QED
    BY <1>2, <1>3, <1>4, <2>3, Zenon DEF Front
<1>5. alive' \/ reading' => Front(m)'
  BY <1>1, <1>2, <1>4
<1> QED
  BY <1>1, <1>2, <1>3, <1>5, Zenon DEF StreamInv

\* after_read.
LEMMA ReadKeepsInv ==
    ASSUME StreamInv, NEW n \in 1..Len(coming), PsRead(n) PROVE StreamInv'
<1>1. StreamTypes /\ alive /\ ~reading /\ coming \in Seq(Pieces) /\ chunk = <<>>
  BY DEF StreamInv, StreamTypes, PsRead
<1>2. /\ chunk' = SubSeq(coming, 1, n) /\ coming' = SubSeq(coming, n + 1, Len(coming))
      /\ reading' = TRUE /\ UNCHANGED <<script, alive, cmd, msg, msgLen, handled>>
  BY DEF PsRead
<1>3. n \in 0..Len(coming)
  BY <1>1
<1>4. /\ chunk' \in Seq(Pieces) /\ coming' \in Seq(Pieces)
      /\ chunk' \o coming' = coming /\ <<>> \o coming = coming
  BY <1>1, <1>2, <1>3, Rejoined
<1>5. StreamTypes'
  BY <1>1, <1>2, <1>4, Zenon DEF StreamTypes
<1>6. Ahead' = Ahead
  BY <1>1, <1>2, <1>4, Zenon DEF Ahead
<1> QED
  BY <1>1, <1>2, <1>5, <1>6, QuietKeepsInv

\* The end of hsk_peer_on_read.
LEMMA KeepKeepsInv ==
    ASSUME StreamInv, PsKeep PROVE StreamInv'
<1>1. /\ StreamTypes /\ reading /\ ~PartRead /\ msg \in Seq(Pieces) /\ chunk \in Seq(Pieces)
      /\ coming \in Seq(Pieces) /\ msgLen \in Nat
  BY DEF StreamInv, StreamTypes, PsKeep
<1>2. /\ msg' = msg \o chunk /\ chunk' = <<>> /\ reading' = FALSE
      /\ UNCHANGED <<script, coming, alive, cmd, msgLen, handled>>
  BY DEF PsKeep
<1>3. msg' \in Seq(Pieces) /\ Len(msg') < msgLen /\ Len(msg') \in Nat
  <2>1. /\ msg \o chunk \in Seq(Pieces) /\ Len(msg \o chunk) = Len(msg) + Len(chunk)
        /\ Len(msg) \in Nat /\ Len(chunk) \in Nat
    BY <1>1, ConcatValue, Zenon
  <2> QED
    BY <1>1, <1>2, <2>1 DEF PartRead
<1>4. StreamTypes'
  <2>1. <<>> \in Seq(Pieces) /\ Len(msg') <= msgLen
    BY <1>1, <1>3
  <2> QED
    BY <1>1, <1>2, <1>3, <2>1, Zenon DEF StreamTypes
<1>5. Ahead' = Ahead
  <2>1. <<>> \o coming = coming /\ (msg \o chunk) \o coming = msg \o (chunk \o coming)
    BY <1>1, Associative
  <2> QED
    BY <1>2, <2>1, Zenon DEF Ahead
<1> QED
  BY <1>1, <1>2, <1>3, <1>4, <1>5, QuietKeepsInv

\* The part that is complete is the beginning of what is left, and the rest is
\* what is left when it has been taken.
LEMMA PartOK ==
    ASSUME StreamTypes, PartRead
    PROVE  /\ Part \in Seq(Pieces) /\ Len(Part) = msgLen /\ Rest \in Seq(Pieces)
           /\ Ahead = Part \o (Rest \o coming) /\ Rest \o coming \in Seq(Pieces)
           /\ <<>> \o (Rest \o coming) = Rest \o coming
<1> DEFINE l == msgLen - Len(msg)
           a == SubSeq(chunk, 1, l)
<1>1. /\ msg \in Seq(Pieces) /\ chunk \in Seq(Pieces) /\ coming \in Seq(Pieces)
      /\ msgLen \in Nat /\ Len(msg) <= msgLen /\ Len(msg) + Len(chunk) >= msgLen
  BY DEF StreamTypes, PartRead
<1>2. Len(msg) \in Nat /\ Len(chunk) \in Nat
  BY <1>1
<1>3. l \in 0..Len(chunk) /\ Len(msg) + l = msgLen
  BY <1>1, <1>2
<1>4. Part = msg \o a /\ Rest = SubSeq(chunk, l + 1, Len(chunk))
  BY Zenon DEF Part, Rest
<1> HIDE DEF l
<1>5. a \in Seq(Pieces) /\ Len(a) = l /\ Rest \in Seq(Pieces) /\ a \o Rest = chunk
  BY <1>1, <1>3, <1>4, Rejoined, Zenon
<1> HIDE DEF a
<1>6. Part \in Seq(Pieces) /\ Len(Part) = msgLen
  <2>1. msg \o a \in Seq(Pieces) /\ Len(msg \o a) = Len(msg) + Len(a)
    BY <1>1, <1>5, ConcatValue, Zenon
  <2> QED
    BY <1>3, <1>4, <1>5, <2>1
<1>7. /\ msg \in Seq(Pieces) /\ a \in Seq(Pieces) /\ Rest \in Seq(Pieces)
      /\ coming \in Seq(Pieces)
  BY <1>1, <1>5, Zenon
<1>8. (a \o Rest) \o coming = a \o (Rest \o coming) /\ Rest \o coming \in Seq(Pieces)
  BY <1>7, Associative
<1> DEFINE r == Rest \o coming
<1>9. (msg \o a) \o r = msg \o (a \o r) /\ <<>> \o r = r
  <2>1. r \in Seq(Pieces)
    BY <1>8
  <2> HIDE DEF r
  <2>2. msg \in Seq(Pieces) /\ a \in Seq(Pieces)
    BY <1>7, Zenon
  <2>3. (msg \o a) \o r = msg \o (a \o r)
    BY <2>1, <2>2, Associative
  <2>4. <<>> \o r = r
    BY <2>1
  <2> QED
    BY <2>3, <2>4, Zenon
<1>10. Ahead = Part \o r
  BY <1>4, <1>5, <1>8, <1>9, Zenon DEF Ahead
<1> QED
  BY <1>5, <1>6, <1>8, <1>9, <1>10, Zenon DEF r

\* The complete part is the header or the body of the message after m, and what
\* follows stays in its place.
LEMMA PartRight ==
    ASSUME StreamTypes, NEW m \in 0..Len(script), Front(m), PartRead
    PROVE  /\ cmd = 0 => m + 1 \in 1..Len(script)
           /\ \A k \in 1..msgLen :
                 Part[k] = Piece(m + 1, k + (IF cmd = 0 THEN 0 ELSE HdrSize))
           /\ \E w, at : /\ Layout(w, at)
                         /\ Place(m, at) + msgLen + Len(Rest \o coming) = Len(w)
                         /\ \A k \in 1..Len(Rest \o coming) :
                               (Rest \o coming)[k] = w[Place(m, at) + msgLen + k]
<1> DEFINE n == Len(script)
           r == Rest \o coming
           h == IF cmd = 0 THEN 0 ELSE HdrSize
<1>1. /\ Part \in Seq(Pieces) /\ Len(Part) = msgLen
      /\ Ahead = Part \o r /\ r \in Seq(Pieces)
  BY PartOK, SMTT(30)
<1>2. PICK w, at : Layout(w, at) /\ Left(m, w, at)
  BY Zenon DEF Front
<1> DEFINE p == Place(m, at)
<1>3. /\ n \in Nat /\ msgLen \in Nat /\ cmd \in 0..n /\ cmd \in {0, m + 1}
      /\ msgLen = IF cmd = 0 THEN HdrSize ELSE script[cmd].size
      /\ script \in Seq(Message)
  BY DEF StreamTypes, Front
<1>4. /\ w \in Seq(Pieces) /\ at[m + 1] \in Nat /\ Len(w) \in Nat /\ at[n + 1] = Len(w)
  <2>1. at \in [1..(n + 1) -> 0..Len(w)] /\ w \in Seq(Pieces) /\ at[n + 1] = Len(w)
    BY <1>2, Zenon DEF Layout
  <2>2. m + 1 \in 1..(n + 1) /\ Len(w) \in Nat
    BY <1>3, <2>1
  <2>3. at[m + 1] \in 0..Len(w)
    BY <2>1, <2>2, Zenon
  <2> QED
    BY <2>1, <2>2, <2>3
<1>5. p = at[m + 1] + h /\ h \in {0, 2} /\ p \in Nat
  BY <1>4 DEF Place, HdrSize
<1> HIDE DEF r, p, h
<1>6. /\ Len(Ahead) = msgLen + Len(r) /\ Len(r) \in Nat
      /\ \A k \in 1..(msgLen + Len(r)) :
            Ahead[k] = IF k <= msgLen THEN Part[k] ELSE r[k - msgLen]
  BY <1>1, ConcatValue, Zenon
<1>7. p + Len(Ahead) = Len(w) /\ \A k \in 1..Len(Ahead) : Ahead[k] = w[p + k]
  BY <1>2, Zenon DEF Left, p
<1>8. m + 1 \in 1..n
  <2>1. CASE cmd = 0
    <3>1. msgLen = 2 /\ h = 0
      BY <1>3, <2>1 DEF HdrSize, h
    <3>2. at[m + 1] # at[n + 1]
      BY <1>4, <1>5, <1>6, <1>7, <3>1
    <3> QED
      BY <1>3, <3>2
  <2>2. CASE cmd # 0
    BY <1>3, <2>2
  <2> QED
    BY <2>1, <2>2
<1>9. script[m + 1].size \in Nat /\ h + msgLen <= 2 + script[m + 1].size
  <2>1. script[m + 1] \in Message
    BY <1>3, <1>8
  <2>2. script[m + 1].size \in Nat
    BY <2>1, StreamAssumption
  <2>3. CASE cmd = 0
    <3>1. msgLen = 2 /\ h = 0
      BY <1>3, <2>3 DEF HdrSize, h
    <3> QED
      BY <2>2, <3>1
  <2>4. CASE cmd # 0
    <3>1. msgLen = script[m + 1].size /\ h = 2
      BY <1>3, <2>4 DEF HdrSize, h
    <3> QED
      BY <2>2, <3>1
  <2> QED
    BY <2>3, <2>4
<1>10. ASSUME NEW k \in 1..msgLen PROVE Part[k] = Piece(m + 1, k + h)
  <2>1. Part[k] = Ahead[k] /\ Ahead[k] = w[p + k]
    <3>1. k \in 1..(msgLen + Len(r)) /\ k <= msgLen
      BY <1>3, <1>6
    <3> QED
      BY <1>6, <1>7, <3>1, Zenon
  <2>2. k + h \in 1..(HdrSize + script[m + 1].size) /\ p + k = at[m + 1] + (k + h)
    <3> DEFINE z == script[m + 1].size
               b == at[m + 1]
    <3>1. z \in Nat /\ h + msgLen <= 2 + z /\ b \in Nat /\ p = b + h /\ h \in Nat
      BY <1>4, <1>5, <1>9
    <3> HIDE DEF z, b
    <3>2. k + h \in 1..(2 + z) /\ p + k = b + (k + h)
      BY <1>3, <3>1
    <3> QED
      BY <3>2 DEF z, b, HdrSize
  <2>3. w[at[m + 1] + (k + h)] = Piece(m + 1, k + h)
    BY <1>2, <1>8, <2>2, Zenon DEF Layout
  <2> QED
    BY <2>1, <2>2, <2>3, Zenon
<1>11. p + msgLen + Len(r) = Len(w)
  BY <1>3, <1>5, <1>6, <1>7, SMTT(30)
<1>12. ASSUME NEW k \in 1..Len(r) PROVE r[k] = w[p + msgLen + k]
  <2>1. msgLen + k \in 1..(msgLen + Len(r)) /\ ~ (msgLen + k <= msgLen)
        /\ (msgLen + k) - msgLen = k /\ p + (msgLen + k) = p + msgLen + k
    <3> DEFINE l == Len(r)
    <3>1. l \in Nat /\ msgLen \in Nat /\ p \in Nat /\ k \in 1..l
      BY <1>3, <1>5, <1>6
    <3> HIDE DEF l
    <3>2. msgLen + k \in 1..(msgLen + l) /\ ~ (msgLen + k <= msgLen)
          /\ (msgLen + k) - msgLen = k /\ p + (msgLen + k) = p + msgLen + k
      BY <3>1
    <3> QED
      BY <3>2 DEF l
  <2> QED
    BY <1>6, <1>7, <2>1, Zenon
<1> QED
  BY <1>2, <1>8, <1>10, <1>11, <1>12, ZenonT(40) DEF p, r, h

\* The place of what is left when a header, or a whole message, has been taken.
LEMMA MovesOn ==
    ASSUME StreamInv, NEW m \in 0..Len(script), Front(m), PartRead, reading,
           NEW j \in {m, m + 1}, NEW c \in {0, m + 1}, j = m <=> c = m + 1, j = m <=> cmd = 0,
           m + 1 \in 1..Len(script), NEW len, Expect(c, len)
    PROVE  \E w, at : (Layout(w, at) /\ Left(j, w, at))'
<1>0. \E w, at : /\ Layout(w, at)
                 /\ Place(m, at) + msgLen + Len(Rest \o coming) = Len(w)
                 /\ \A k \in 1..Len(Rest \o coming) :
                       (Rest \o coming)[k] = w[Place(m, at) + msgLen + k]
  <2>1. StreamTypes
    BY DEF StreamInv
  <2> QED
    BY <2>1, PartRight
<1> DEFINE r == Rest \o coming
           size == script[m + 1].size
<1>1. PICK w, at : /\ Layout(w, at)
                   /\ Place(m, at) + msgLen + Len(r) = Len(w)
                   /\ \A k \in 1..Len(r) : r[k] = w[Place(m, at) + msgLen + k]
  BY <1>0
<1>2. /\ script' = script /\ cmd' = c /\ Ahead' = r
  <2>1. /\ cmd' = c /\ msg' = <<>> /\ chunk' = Rest /\ script' = script /\ coming' = coming
    BY DEF Expect
  <2>2. <<>> \o r = r
    BY PartOK, Zenon DEF StreamInv
  <2> QED
    BY <2>1, <2>2, Zenon DEF Ahead
<1>3. Layout(w, at)'
  BY <1>1, <1>2, Zenon DEF Layout
<1>4. Place(j, at)' = Place(m, at) + msgLen
  <2>1. at[m + 1] \in Nat /\ size \in Nat /\ at[(m + 1) + 1] = at[m + 1] + 2 + size
    <3>1. /\ at \in [1..(Len(script) + 1) -> 0..Len(w)] /\ script \in Seq(Message)
          /\ at[(m + 1) + 1] = at[m + 1] + 2 + size
      BY <1>1, SMTT(30) DEF Layout, HdrSize, StreamInv, StreamTypes
    <3>2. m + 1 \in 1..(Len(script) + 1) /\ Len(script) \in Nat /\ script[m + 1] \in Message
      BY <3>1
    <3>3. at[m + 1] \in 0..Len(w) /\ size \in Nat
      BY <3>1, <3>2, StreamAssumption, SMTT(30)
    <3> QED
      BY <3>1, <3>3
  <2>2. CASE j = m
    <3>1. msgLen = 2 /\ cmd = 0 /\ c = m + 1 /\ c # 0
      BY <2>2 DEF Front, HdrSize
    <3>2. Place(j, at)' = at[m + 1] + 2 /\ Place(m, at) = at[m + 1] + 0
      BY <1>2, <2>2, <3>1, Zenon DEF Place, HdrSize
    <3> QED
      BY <2>1, <3>1, <3>2
  <2>3. CASE j # m
    <3>1. msgLen = size /\ cmd # 0 /\ c = 0 /\ j = m + 1
      BY <2>3 DEF Front
    <3>2. Place(j, at)' = at[(m + 1) + 1] + 0 /\ Place(m, at) = at[m + 1] + 2
      BY <1>2, <3>1, Zenon DEF Place, HdrSize
    <3> HIDE DEF size
    <3> QED
      BY <2>1, <3>1, <3>2
  <2> QED
    BY <2>2, <2>3
<1>5. Left(j, w, at)'
  BY <1>1, <1>2, <1>4, Zenon DEF Left
<1> QED
  BY <1>3, <1>5, Zenon

\* The types after a part has been taken, or after a failure.
LEMMA TypesAfter ==
    ASSUME StreamTypes, PartRead, reading, handled' \in Seq(Nat), alive' \in BOOLEAN,
           \/ Fail \/ \E c \in 0..Len(script), len \in Nat : Expect(c, len)
    PROVE  StreamTypes' /\ script' = script
<1>1. <<>> \in Seq(Pieces) /\ Len(<<>>) = 0 /\ Rest \in Seq(Pieces)
  BY PartOK
<1>2. CASE Fail
  BY <1>1, <1>2, Zenon DEF Fail, StreamTypes
<1>3. ASSUME NEW c \in 0..Len(script), NEW len \in Nat, Expect(c, len)
      PROVE  StreamTypes' /\ script' = script
  <2>1. 0 <= len
    OBVIOUS
  <2> QED
    BY <1>1, <1>3, <2>1, Zenon DEF Expect, StreamTypes
<1> QED
  BY <1>2, <1>3, Zenon

\* What is due of one message more.
LEMMA DueNext ==
    ASSUME NEW m \in Nat
    PROVE  /\ Due(m + 1) => DueTo(m + 1) = DueTo(m) \cup {m + 1}
           /\ ~Due(m + 1) => DueTo(m + 1) = DueTo(m)
<1>1. 1..(m + 1) = (1..m) \cup {m + 1}
  OBVIOUS
<1> QED
  BY <1>1, Zenon DEF DueTo

\* hsk_peer_parse_hdr.
LEMMA HdrKeepsInv ==
    ASSUME StreamInv, ParseHdr PROVE StreamInv'
<1>1. StreamTypes /\ reading /\ PartRead /\ cmd = 0 /\ handled' = handled
      /\ InOrder(handled) /\ handled \in Seq(Nat) /\ alive \in BOOLEAN
  BY DEF StreamInv, StreamTypes, ParseHdr
<1>2. PICK m \in 0..Len(script) : Range(handled) = DueTo(m) /\ Front(m)
  BY <1>1 DEF StreamInv
<1> DEFINE i == m + 1
<1>3. /\ i \in 1..Len(script) /\ msgLen = 2 /\ Part \in Seq(Pieces) /\ Len(Part) = 2
      /\ Part[1] = Piece(i, 1) /\ Part[2] = Piece(i, 2)
  <2>1. msgLen = 2 /\ Part \in Seq(Pieces) /\ Len(Part) = msgLen
    BY <1>1, <1>2, PartOK DEF Front, HdrSize
  <2>2. /\ i \in 1..Len(script)
        /\ \A k \in 1..msgLen : Part[k] = Piece(i, k + (IF cmd = 0 THEN 0 ELSE HdrSize))
    BY <1>1, <1>2, PartRight, Zenon
  <2>3. 1 \in 1..2 /\ 2 \in 1..2 /\ 1 + 0 = 1 /\ 2 + 0 = 2
    OBVIOUS
  <2> QED
    BY <1>1, <2>1, <2>2, <2>3, Zenon
<1>4. Part[1].of = i /\ Part = <<Piece(i, 1), Piece(i, 2)>>
  <2>1. Part = <<Part[1], Part[2]>>
    BY <1>3
  <2>2. Piece(i, 1).of = i
    BY DEF Piece
  <2> QED
    BY <1>3, <2>1, <2>2, Zenon
<1>5. i \in 0..Len(script) /\ script[i].size \in Nat /\ m + 1 # 0 /\ m \in Nat
  <2>1. script[i] \in Message
    BY <1>1, <1>3 DEF StreamTypes
  <2> QED
    BY <1>3, <2>1, StreamAssumption
<1> HIDE DEF i
<1>6. CASE script[i].kind # "magic" /\ script[i].size <= MaxBody
  <2>1. Expect(i, script[i].size) /\ alive' = alive
    BY <1>4, <1>6, Zenon DEF ParseHdr
  <2>2. StreamTypes' /\ script' = script
    BY <1>1, <1>5, <2>1, TypesAfter, Zenon
  <2>3. \E w, at : (Layout(w, at) /\ Left(m, w, at))'
    BY <1>1, <1>2, <1>3, <1>5, <2>1, MovesOn DEF i
  <2>4. cmd' = i /\ msgLen' = script[i].size /\ reading' = reading
    BY <2>1 DEF Expect
  <2>5. DueTo(m)' = DueTo(m) /\ \A k : Passed(k)' <=> Passed(k)
    BY <2>2, Zenon DEF DueTo, Due, Passed
  <2>6. Front(m)'
    BY <1>1, <1>2, <1>5, <1>6, <2>2, <2>3, <2>4, <2>5, Zenon DEF Front, i
  <2> QED
    BY <1>1, <1>2, <2>2, <2>5, <2>6, Zenon DEF StreamInv
<1>7. CASE ~ (script[i].kind # "magic" /\ script[i].size <= MaxBody)
  <2>1. Fail
    BY <1>4, <1>7, Zenon DEF ParseHdr
  <2>2. alive' = FALSE /\ reading' = FALSE
    BY <2>1 DEF Fail
  <2>3. StreamTypes' /\ script' = script
    BY <1>1, <2>1, <2>2, TypesAfter, Zenon
  <2>4. DueTo(m)' = DueTo(m)
    BY <2>3, Zenon DEF DueTo, Due
  <2> QED
    BY <1>1, <1>2, <2>2, <2>3, <2>4 DEF StreamInv
<1> QED
  BY <1>6, <1>7, Zenon

\* hsk_peer_parse of a body.
LEMMA BodyKeepsInv ==
    ASSUME StreamInv, ParseBody PROVE StreamInv'
<1>1. StreamTypes /\ reading /\ PartRead /\ cmd # 0
      /\ InOrder(handled) /\ handled \in Seq(Nat) /\ alive \in BOOLEAN
  BY DEF StreamInv, StreamTypes, ParseBody
<1>2. PICK m \in 0..Len(script) : Range(handled) = DueTo(m) /\ Front(m)
  BY <1>1 DEF StreamInv
<1> DEFINE kind == script[cmd].kind
<1>3. /\ cmd = m + 1 /\ cmd \in 1..Len(script) /\ msgLen = script[cmd].size
      /\ kind # "magic" /\ script[cmd].size <= MaxBody /\ kind \in Kind /\ m \in Nat
      /\ \A k \in 1..m : Passed(k)
  <2>1. /\ cmd = m + 1 /\ cmd \in 1..Len(script) /\ m \in Nat
    BY <1>1, <1>2 DEF Front, StreamTypes
  <2>2. script[cmd] \in Message
    BY <1>1, <2>1 DEF StreamTypes
  <2>3. kind \in Kind
    BY <2>2, StreamAssumption
  <2> QED
    BY <1>1, <1>2, <2>1, <2>3, Zenon DEF Front
<1>4. Part = Body
  <2>1. /\ Part \in Seq(Pieces) /\ Len(Part) = msgLen
    BY <1>1, PartOK, Zenon
  <2>2. \A k \in 1..msgLen : Part[k] = Piece(m + 1, k + (IF cmd = 0 THEN 0 ELSE HdrSize))
    BY <1>1, <1>2, PartRight, Zenon
  <2>3. ASSUME NEW k \in 1..msgLen PROVE Part[k] = Piece(cmd, HdrSize + k)
    <3>1. k + HdrSize = HdrSize + k
      BY DEF HdrSize
    <3> QED
      BY <1>1, <1>3, <2>2, <3>1, Zenon
  <2>4. Part = [k \in 1..msgLen |-> Part[k]]
    BY <2>1
  <2> QED
    BY <1>3, <2>3, <2>4, Zenon DEF Body
<1>5. /\ handled' = IF kind \in {"unknown", "encoding"} THEN handled ELSE Append(handled, m + 1)
      /\ kind \in {"encoding", "error"} => Fail
      /\ kind \notin {"encoding", "error"} =>
            Expect(0, HdrSize) /\ alive' = (alive /\ kind # "kill")
  BY <1>3, <1>4, Zenon DEF ParseBody
<1>6. Range(handled) \subseteq 1..m
  BY <1>2 DEF DueTo
<1>7. /\ InOrder(handled') /\ handled' \in Seq(Nat)
      /\ Range(handled') = IF kind \in {"unknown", "encoding"} THEN DueTo(m)
                           ELSE DueTo(m) \cup {m + 1}
  BY <1>1, <1>2, <1>3, <1>5, <1>6, OrderKept, Zenon
<1>8. (Due(m + 1) <=> kind \in {"ok", "error", "kill"})
      /\ (Passed(m + 1) <=> kind \in {"ok", "unknown", "kill"})
  <2>1. (m + 1) - 1 = m
    BY <1>3
  <2>2. Ends(script[cmd]) <=> kind \notin {"ok", "unknown"}
    <3>1. ~ (script[cmd].size > MaxBody)
      <4>1. script[cmd].size \in Nat /\ MaxBody \in Nat
        <5>1. msgLen \in Nat
          BY <1>1 DEF StreamTypes
        <5> QED
          BY <1>3, <5>1, StreamAssumption
      <4> QED
        BY <1>3, <4>1
    <3> QED
      BY <3>1 DEF Ends
  <2>3. Due(cmd) <=> kind \in {"ok", "error", "kill"}
    BY <1>3, <2>1 DEF Due, Passed
  <2>4. Passed(cmd) <=> kind \in {"ok", "unknown", "kill"}
    BY <2>2 DEF Passed
  <2> QED
    BY <1>3, <2>3, <2>4
<1>9. Range(handled') = IF kind = "encoding" THEN DueTo(m) ELSE DueTo(m + 1)
  <2>1. kind \in {"ok", "unknown", "encoding", "error", "kill"}
    BY <1>3 DEF Kind
  <2>2. /\ Due(m + 1) => DueTo(m + 1) = DueTo(m) \cup {m + 1}
        /\ ~Due(m + 1) => DueTo(m + 1) = DueTo(m)
    BY <1>3, DueNext, Zenon
  <2> HIDE DEF kind
  <2> QED
    BY <1>7, <1>8, <2>1, <2>2, Zenon
<1>10. m + 1 \in 0..Len(script) /\ HdrSize \in Nat /\ 0 \in 0..Len(script)
  BY <1>3 DEF HdrSize
<1>11. CASE kind \in {"encoding", "error"}
  <2>1. Fail
    BY <1>5, <1>11
  <2>2. alive' = FALSE /\ reading' = FALSE
    BY <2>1 DEF Fail
  <2>3. StreamTypes' /\ script' = script
    BY <1>1, <1>7, <2>1, <2>2, TypesAfter, Zenon
  <2>4. \A k : DueTo(k)' = DueTo(k)
    BY <2>3, Zenon DEF DueTo, Due
  <2>5. \E k \in 0..Len(script') : Range(handled') = DueTo(k)'
    BY <1>9, <1>10, <2>3, <2>4, Zenon
  <2> QED
    BY <1>7, <2>2, <2>3, <2>5 DEF StreamInv
<1>12. CASE kind \notin {"encoding", "error"}
  <2>1. Expect(0, HdrSize) /\ alive' \in BOOLEAN
    BY <1>1, <1>5, <1>12, Zenon
  <2>2. StreamTypes' /\ script' = script
    BY <1>1, <1>7, <1>10, <2>1, TypesAfter, Zenon
  <2>3. cmd' = 0 /\ msgLen' = HdrSize /\ reading'
    BY <1>1, <2>1 DEF Expect
  <2>4. \E w, at : (Layout(w, at) /\ Left(m + 1, w, at))'
    <3>1. m + 1 # m /\ m + 1 # 0 /\ cmd # 0
      BY <1>1, <1>3
    <3> QED
      BY <1>1, <1>2, <1>3, <2>1, <3>1, MovesOn
  <2>5. (\A k : DueTo(k)' = DueTo(k)) /\ \A k : Passed(k)' <=> Passed(k)
    BY <2>2, Zenon DEF DueTo, Due, Passed
  <2>6. \A k \in 1..(m + 1) : Passed(k)
    <3>1. Passed(m + 1)
      BY <1>3, <1>8, <1>12 DEF Kind
    <3> QED
      BY <1>3, <3>1
  <2>7. Front(m + 1)'
    BY <2>3, <2>4, <2>5, <2>6, Zenon DEF Front
  <2>8. Range(handled') = DueTo(m + 1)'
    BY <1>9, <1>12, <2>5
  <2> QED
    BY <1>7, <1>10, <2>2, <2>7, <2>8, Zenon DEF StreamInv
<1> QED
  BY <1>11, <1>12, Zenon

\* Every step keeps the invariant.
LEMMA StreamNextInv == StreamInv /\ [PsNext]_psvars => StreamInv'
<1> SUFFICES ASSUME StreamInv, [PsNext]_psvars PROVE StreamInv'
  OBVIOUS
<1>1. CASE UNCHANGED psvars
  <2>1. UNCHANGED <<script, coming, cmd, msgLen, msg, chunk, reading, alive, handled>>
    BY <1>1, Zenon DEF psvars
  <2>2. StreamTypes' <=> StreamTypes
    BY <2>1, Zenon DEF StreamTypes
  <2>3. \A w, at : Layout(w, at)' <=> Layout(w, at)
    BY <2>1, Zenon DEF Layout
  <2>4. \A m, w, at : Left(m, w, at)' <=> Left(m, w, at)
    BY <2>1, Zenon DEF Left, Place, Ahead
  <2>5. (\A m : DueTo(m)' = DueTo(m)) /\ \A i : Passed(i)' <=> Passed(i)
    BY <2>1, Zenon DEF DueTo, Due, Passed
  <2>6. \A m : Front(m)' <=> Front(m)
    BY <2>1, <2>3, <2>4, <2>5, Zenon DEF Front
  <2> QED
    BY <2>1, <2>2, <2>5, <2>6, Zenon DEF StreamInv
<1>2. CASE PsNext
  BY <1>2, SendKeepsInv, ReadKeepsInv, HdrKeepsInv, BodyKeepsInv, KeepKeepsInv, Zenon DEF PsNext
<1> QED
  BY <1>1, <1>2, Zenon

\* The invariant says what the property says.
LEMMA StreamImplies == StreamInv => HandledInOrder
<1> SUFFICES ASSUME StreamInv PROVE HandledInOrder
  OBVIOUS
<1>1. /\ StreamTypes /\ InOrder(handled) /\ script \in Seq(Message) /\ Len(script) \in Nat
      /\ coming \in Seq(Pieces) /\ msg \in Seq(Pieces) /\ msgLen \in Nat
  BY DEF StreamInv, StreamTypes
<1>2. PICK m \in 0..Len(script) : Range(handled) = DueTo(m) /\ (alive \/ reading => Front(m))
  BY DEF StreamInv
<1>3. ASSUME alive, ~reading, NEW i \in DOMAIN script, Due(i),
             \A k \in DOMAIN coming : coming[k].of > i
      PROVE  i \in Range(handled)
  <2>1. i \in 1..Len(script)
    BY <1>1
  <2>2. ASSUME ~ (i <= m) PROVE FALSE
    <3> DEFINE l == Len(msg)
               h == IF cmd = 0 THEN 0 ELSE 2
               z == script[m + 1].size
    <3>1. /\ Front(m) /\ chunk = <<>> /\ l < msgLen /\ l \in Nat /\ m + 1 \in 1..Len(script)
          /\ m + 1 <= i /\ m \in Nat
      BY <1>1, <1>2, <1>3, <2>1, <2>2 DEF StreamTypes, Front
    <3>2. PICK w, at : Layout(w, at) /\ Left(m, w, at)
      BY <3>1, Zenon DEF Front
    <3> DEFINE b == at[m + 1]
    <3>3. /\ z \in Nat /\ h + msgLen <= 2 + z /\ h \in Nat
      <4>1. script[m + 1] \in Message
        BY <1>1, <3>1
      <4>2. z \in Nat
        BY <4>1, StreamAssumption
      <4>3. CASE cmd = 0
        BY <3>1, <4>2, <4>3 DEF Front, HdrSize
      <4>4. CASE cmd # 0
        <5>1. msgLen = z
          BY <3>1, <4>4 DEF Front
        <5> QED
          BY <4>2, <4>4, <5>1
      <4> QED
        BY <4>3, <4>4
    <3>4. /\ b \in Nat /\ Len(w) \in Nat /\ b + 2 + z <= Len(w)
          /\ \A k \in 1..(2 + z) : w[b + k] = Piece(m + 1, k)
      <4>1. /\ w \in Seq(Pieces) /\ at \in [1..(Len(script) + 1) -> 0..Len(w)]
            /\ at[(m + 1) + 1] = at[m + 1] + HdrSize + script[m + 1].size
            /\ \A k \in 1..(HdrSize + script[m + 1].size) : w[at[m + 1] + k] = Piece(m + 1, k)
        BY <3>1, <3>2, Zenon DEF Layout
      <4>2. m + 1 \in 1..(Len(script) + 1) /\ (m + 1) + 1 \in 1..(Len(script) + 1)
            /\ Len(w) \in Nat
        BY <1>1, <3>1, <4>1
      <4>3. at[m + 1] \in 0..Len(w) /\ at[(m + 1) + 1] \in 0..Len(w)
        BY <4>1, <4>2, Zenon
      <4> QED
        BY <4>1, <4>2, <4>3 DEF HdrSize
    <3>5. Place(m, at) = b + h
      BY DEF Place, HdrSize
    <3>6. Ahead = msg \o coming
      <4>1. <<>> \o coming = coming
        BY <1>1
      <4> QED
        BY <3>1, <4>1, Zenon DEF Ahead
    <3>7. (b + h) + Len(Ahead) = Len(w) /\ \A k \in 1..Len(Ahead) : Ahead[k] = w[(b + h) + k]
      BY <3>2, <3>5, Zenon DEF Left
    <3> DEFINE c == Len(coming)
               q == msg \o coming
    <3>8. /\ Len(q) = l + c /\ c \in Nat
          /\ \A k \in 1..(l + c) : q[k] = IF k <= l THEN msg[k] ELSE coming[k - l]
      BY <1>1, ConcatValue, Zenon
    <3>9. /\ (b + h) + (l + c) = Len(w) /\ \A k \in 1..(l + c) : q[k] = w[(b + h) + k]
      BY <3>6, <3>7, <3>8, Zenon
    <3> HIDE DEF l, h, z, b, c, q
    <3>10. /\ l + 1 \in 1..(l + c) /\ ~ (l + 1 <= l) /\ (l + 1) - l = 1 /\ 1 \in 1..c
           /\ (b + h) + (l + 1) = b + (h + l + 1) /\ h + l + 1 \in 1..(2 + z)
      BY <1>1, <3>1, <3>3, <3>4, <3>8, <3>9
    <3>11. coming[1] = Piece(m + 1, h + l + 1)
      <4>1. q[l + 1] = coming[1]
        BY <3>8, <3>10, Zenon
      <4>2. q[l + 1] = w[b + (h + l + 1)]
        BY <3>9, <3>10, Zenon
      <4>3. w[b + (h + l + 1)] = Piece(m + 1, h + l + 1)
        BY <3>4, <3>10, Zenon
      <4> QED
        BY <4>1, <4>2, <4>3, Zenon
    <3>12. coming[1].of = m + 1 /\ 1 \in DOMAIN coming
      BY <1>1, <3>10, <3>11 DEF Piece, c
    <3>13. m + 1 > i
      BY <1>3, <3>12
    <3> QED
      BY <2>1, <3>1, <3>13, SMTT(30)
  <2>3. i \in DueTo(m)
    BY <1>3, <2>1, <2>2 DEF DueTo
  <2> QED
    BY <1>2, <2>3
<1>4. PsTypeOK
  BY <1>1 DEF StreamTypes, PsTypeOK
<1>5. HandledAtOnce
  BY <1>3, Zenon DEF HandledAtOnce
<1> QED
  BY <1>1, <1>2, <1>4, <1>5, Zenon DEF HandledInOrder, InOrder, DueTo

\* However a peer's bytes are cut into chunks, and however many messages it
\* sends, each message that is due is handled once, whole and in order.
THEOREM HandledInOrderCorrect == PsSpec => []HandledInOrder
<1>1. PsInit => StreamInv
  BY StreamInitInv
<1>2. StreamInv /\ [PsNext]_psvars => StreamInv'
  BY StreamNextInv
<1>3. StreamInv => HandledInOrder
  BY StreamImplies
<1> QED
  BY <1>1, <1>2, <1>3, PTL DEF PsSpec
=============================================================================
