----------------------------- MODULE NameServer -----------------------------
(***************************************************************************)
(* The root name server (src/src/ns.c) with its answer cache               *)
(* (src/src/cache.c).  Questions, the pool's results and the passing of    *)
(* time interleave; the zone, which is what the safe root commits to,      *)
(* changes meanwhile.  The pool is external: it gives a failure at any     *)
(* time, or, within PoolTime of the request, a value that the zone had     *)
(* since the request.                                                      *)
(*                                                                         *)
(* A time that the code stores is kept as its age, which stops growing     *)
(* when no test of the code tells it from an older one.                    *)
(***************************************************************************)
EXTENDS Resource, FiniteSets, Functions

CONSTANTS
    Question,     \* the questions that clients ask
    Req,          \* identities for requests that wait for the pool
    Tld,          \* top-level names that the pool is asked for
    Absent,       \* zone value: there is no such name
    Empty,        \* zone value: the name exists and has no data
    Bad,          \* zone value: data that hsk_resource_decode rejects
    Values,       \* Values[t]: what the zone may say of t
    Icann,        \* Icann[t]: records of t in tld.h, for some t
    Blacklist,    \* names of other naming systems
    Limit,        \* HSK_CACHE_LIMIT
    CacheTime,    \* six hours
    PoolTime      \* how long the pool holds a request that it proves

ASSUME NameServerAssumption ==
    /\ Limit \in Nat \ {0} /\ CacheTime \in Nat \ {0} /\ PoolTime \in Nat
    /\ Question \subseteq
          [labels : Nat, tld : STRING, host : STRING, type : STRING,
           caps : BOOLEAN, dirty : BOOLEAN, dnssec : BOOLEAN, room : Nat]
    /\ \A t \in Tld : Values[t] \subseteq {Absent, Empty, Bad} \cup ResourceData
    /\ \A t \in DOMAIN Icann : Icann[t] \in ResourceData
    /\ "_synth" \notin Blacklist
    /\ \A q \in Question : q.labels > 0 /\ q.tld \notin Blacklist => q.tld \in Tld

VARIABLES
    zone,     \* zone[t]: the value of t under the safe root
    since,    \* history: since[t][v], how long ago t last had the value v
    cache,    \* cache[k]: the cached message of key k, with its age
    waiting,  \* waiting[r]: a request the pool holds, or NoRequest
    socket,   \* ns->socket is set
    reply     \* the reply sent in the last step, with its question and what it was
              \* before it was cut to the client's size, or NoReply

vars == <<zone, since, cache, waiting, socket, reply>>

NoRequest == [q |-> "none"]
NoReply == [q |-> "none"]
NoKey == [name |-> "none"]

-----------------------------------------------------------------------------
(* The cache.                                                              *)

\* Types whose names of three labels are keyed in full.
ServiceType == {"SRV", "TLSA", "SMIMEA", "OPENPGPKEY"}

\* hsk_cache_key_set, with the equality of hsk_cache_key_equal: a referral is
\* kept for the whole of its top-level name, and for all types.
Key(q) ==
    LET ref == IF q.labels <= 1 THEN FALSE
               ELSE IF q.labels = 2 THEN q.host \notin {"ptr4", "ptr6"}
               ELSE ~ (q.labels = 3 /\ q.type \in ServiceType /\ q.host = q.type)
    IN  IF q.dirty THEN NoKey
        ELSE IF ref THEN [name |-> <<1, q.tld, "">>, ref |-> TRUE, type |-> ""]
        ELSE [name |-> <<q.labels, q.tld, q.host>>, ref |-> FALSE,
              type |-> q.type]

Expired(item) == item.age >= CacheTime

\* Longer ago than any answer of now may go back.
LongAgo == CacheTime + PoolTime

\* hsk_cache_get finds an item and can read it ...
Hit(q) ==
    /\ Key(q) \in DOMAIN cache /\ ~ Expired(cache[Key(q)])
    /\ Decodes(cache[Key(q)].msg)

\* ... and hsk_cache_get_data deletes one that has expired.
AfterGet(q) ==
    IF Key(q) \in DOMAIN cache /\ Expired(cache[Key(q)])
    THEN Restrict(cache, DOMAIN cache \ {Key(q)}) ELSE cache

\* Mutation: a message that is still fresh gets the time of the new one.
InsertRenews(c, q, msg) ==
    LET k == Key(q)
        others == DOMAIN c \ {k}
        kept == IF Cardinality(others) >= Limit THEN {} ELSE others
    IN  IF k = NoKey THEN c
        ELSE IF k \in DOMAIN c /\ ~ Expired(c[k]) THEN [c EXCEPT ![k].age = 0]
        ELSE [x \in kept \cup {k} |->
                IF x = k THEN [msg |-> msg, age |-> 0] ELSE c[x]]

\* hsk_cache_insert_data: a message that has not expired stays; a full cache
\* is emptied by hsk_cache_prune.
Insert(c, q, msg) ==
    LET k == Key(q)
        others == DOMAIN c \ {k}
        kept == IF Cardinality(others) >= Limit THEN {} ELSE others
    IN  IF k = NoKey THEN c
        ELSE IF k \in DOMAIN c /\ ~ Expired(c[k]) THEN c
        ELSE [x \in kept \cup {k} |->
                IF x = k THEN [msg |-> msg, age |-> 0] ELSE c[x]]

-----------------------------------------------------------------------------
(* Answers.                                                                *)

\* hsk_ns_send, with the failure in place of a message that cannot be made
\* ready; without a socket the message is dropped.
Send(q, msg) ==
    LET meant == IF Finalize(msg, q) = NoMessage THEN Servfail ELSE msg
    IN  reply' = IF socket
                 THEN [q |-> q, msg |-> Finalize(meant, q), full |-> Cleaned(meant, q)]
                 ELSE NoReply

\* after_resolve and hsk_ns_respond for a proved value: ICANN's records stand
\* in for a name that is absent or has no data.
Result(q, v) ==
    IF v \in {Absent, Empty}
    THEN IF q.tld \in DOMAIN Icann THEN ToDns(Icann[q.tld], q) ELSE Nx
    ELSE IF v = Bad THEN Servfail ELSE ToDns(v, q)

Synthetic(q) == q.tld = "_synth" /\ q.labels \in {1, 2}

\* What hsk_ns_onrecv answers by itself.
Local(q) == q.labels = 0 \/ Synthetic(q) \/ q.tld \in Blacklist

LocalAnswer(q) ==
    IF Synthetic(q) THEN Synthesize(q)
    ELSE IF q.labels = 0 THEN Root(q.type) ELSE Nx

Init ==
    /\ zone \in {z \in [Tld -> UNION {Values[t] : t \in Tld}] :
                   \A t \in Tld : z[t] \in Values[t]}
    /\ since = [t \in Tld |-> [v \in Values[t] |->
                                 IF v = zone[t] THEN 0 ELSE LongAgo]]
    /\ cache = <<>>
    /\ waiting = [r \in Req |-> NoRequest]
    /\ socket = TRUE
    /\ reply = NoReply

\* hsk_ns_onrecv, for a question in the cache.
AnswerCached(q) ==
    /\ socket
    /\ Hit(q)
    /\ Send(q, cache[Key(q)].msg)
    /\ UNCHANGED <<zone, since, cache, waiting, socket>>

\* hsk_ns_onrecv, for a question it answers at once.
AnswerLocal(q) ==
    /\ socket
    /\ ~ Hit(q)
    /\ Local(q)
    /\ cache' = IF Synthetic(q) THEN AfterGet(q)
                ELSE Insert(AfterGet(q), q, LocalAnswer(q))
    /\ Send(q, LocalAnswer(q))
    /\ UNCHANGED <<zone, since, waiting, socket>>

\* hsk_ns_onrecv, for a question that goes to the pool.
AskPool(q, r) ==
    /\ socket
    /\ ~ Hit(q)
    /\ ~ Local(q)
    /\ waiting[r] = NoRequest
    /\ cache' = AfterGet(q)
    /\ waiting' = [waiting EXCEPT ![r] = [q |-> q, age |-> 0]]
    /\ reply' = NoReply
    /\ UNCHANGED <<zone, since, socket>>

\* hsk_ns_onrecv, when hsk_pool_resolve fails.
PoolRefuses(q) ==
    /\ socket
    /\ ~ Hit(q)
    /\ ~ Local(q)
    /\ cache' = AfterGet(q)
    /\ Send(q, Servfail)
    /\ UNCHANGED <<zone, since, waiting, socket>>

\* after_resolve with an error: the peer is gone, or the proof is late or wrong.
PoolFails(r) ==
    /\ waiting[r] # NoRequest
    /\ waiting' = [waiting EXCEPT ![r] = NoRequest]
    /\ Send(waiting[r].q, Servfail)
    /\ UNCHANGED <<zone, since, cache, socket>>

\* after_resolve with a proof of v.
PoolProves(r, v) ==
    LET q == waiting[r].q
    IN  /\ waiting[r] # NoRequest
        /\ waiting[r].age <= PoolTime
        /\ since[q.tld][v] <= waiting[r].age
        /\ waiting' = [waiting EXCEPT ![r] = NoRequest]
        /\ cache' = IF Result(q, v) = Servfail THEN cache
                    ELSE Insert(cache, q, Result(q, v))
        /\ Send(q, Result(q, v))
        /\ UNCHANGED <<zone, since, socket>>

\* hsk_ns_close: no more questions; requests the pool holds stay.
Close ==
    /\ socket
    /\ socket' = FALSE
    /\ reply' = NoReply
    /\ UNCHANGED <<zone, since, cache, waiting>>

\* The safe root commits to a new value of t.
ZoneChange(t) ==
    \E v \in Values[t] \ {zone[t]} :
        /\ zone' = [zone EXCEPT ![t] = v]
        /\ since' = [since EXCEPT ![t][v] = 0]
        /\ reply' = NoReply
        /\ UNCHANGED <<cache, waiting, socket>>

\* The age of something after another unit of time.
Older(age, most) == IF age < most THEN age + 1 ELSE most

Tick ==
    /\ since' = [t \in Tld |-> [v \in Values[t] |->
                   IF v = zone[t] THEN 0 ELSE Older(since[t][v], LongAgo)]]
    /\ cache' = [k \in DOMAIN cache |->
                   [cache[k] EXCEPT !.age = Older(@, CacheTime)]]
    /\ waiting' = [r \in Req |->
                     IF waiting[r] = NoRequest THEN NoRequest
                     ELSE [waiting[r] EXCEPT !.age = Older(@, PoolTime + 1)]]
    /\ reply' = NoReply
    /\ UNCHANGED <<zone, socket>>

\* A step when clients ask the questions of asked.
NsStep(asked) ==
    \/ \E q \in asked :
         \/ AnswerCached(q)
         \/ AnswerLocal(q)
         \/ PoolRefuses(q)
         \/ \E r \in Req : AskPool(q, r)
    \/ \E r \in Req :
         \/ PoolFails(r)
         \/ waiting[r] # NoRequest
              /\ \E v \in Values[waiting[r].q.tld] : PoolProves(r, v)
    \/ Close
    \/ \E t \in Tld : ZoneChange(t)
    \/ Tick

NsNext == NsStep(Question)

NsSpec == Init /\ [][NsNext]_vars

-----------------------------------------------------------------------------
(* Properties.                                                             *)

CacheKey == {Key(q) : q \in Question} \ {NoKey}

Request == [q : Question, age : 0 .. PoolTime + 1]

\* Every variable has its type.
NsTypeOK ==
    /\ DOMAIN zone = Tld /\ \A t \in Tld : zone[t] \in Values[t]
    /\ DOMAIN since = Tld
    /\ \A t \in Tld : since[t] \in [Values[t] -> 0 .. LongAgo]
    /\ DOMAIN cache \subseteq CacheKey
    /\ \A k \in DOMAIN cache : cache[k].age \in 0 .. CacheTime
    /\ waiting \in [Req -> Request \cup {NoRequest}]
    /\ socket \in BOOLEAN

\* A full cache is emptied before an insertion, so it never holds more than
\* its limit (hsk_cache_insert_data).
CacheBounded == Cardinality(DOMAIN cache) <= Limit

\* Questions that differ only in the capitals of the name.
Spellings(q) == {[q EXCEPT !.caps = c] : c \in BOOLEAN}

\* The messages that answer q truly at this moment: q is about the root, a
\* blacklisted or a synthetic name, or its top-level name had the value not
\* longer ago than a request of the pool and a cached answer last.
TrueAnswers(q) ==
    (IF Local(q) THEN {LocalAnswer(q)} ELSE {})
      \cup (IF q.tld \in Tld
            THEN {Result(p, v) : p \in Spellings(q),
                    v \in {w \in Values[q.tld] : since[q.tld][w] < LongAgo}}
            ELSE {})

\* Whatever is in the cache answers every question it would be served for,
\* with a value the zone had within the last CacheTime + PoolTime: keys never
\* mix up questions, no item outlives its time, and a failure of one request
\* is not served to others (hsk_cache_key_set, hsk_cache_get_data,
\* hsk_cache_insert_data, hsk_ns_respond).
CacheTrue ==
    \A q \in Question : Hit(q) =>
        cache[Key(q)].msg \in TrueAnswers(q) \ {Servfail}

\* The cache keeps to its limit and its keys, and to the truth.
CacheSound == NsTypeOK /\ CacheBounded /\ CacheTrue

\* Some record of the message is signed: of the answer, or of the delegation or
\* denial when there is no answer.
Signed(msg) ==
    LET rrs == IF msg.an = <<>> THEN msg.ns ELSE msg.an
    IN  \E i \in DOMAIN rrs :
            /\ rrs[i][1] = "RRSIG"
            /\ OfType(msg.an, rrs[i][2]) # {} \/ OfType(msg.ns, rrs[i][2]) # {}

\* The records that the signatures left in a section were made over are all
\* left too.
Covered(rrs, full) ==
    \A i \in DOMAIN rrs :
        rrs[i][1] = "RRSIG" => OfType(full, rrs[i][2]) \subseteq DOMAIN rrs

\* A client that asks for signatures can check what it is sent, positive or
\* negative: each reply that fits its size, but a failure, has a signed answer,
\* or a signed delegation or denial, and where hsk_dns_msg_truncate cuts a
\* larger one it never leaves a signature without some of the records it was
\* made over.  Addresses synthesized from a label are not signed.
RepliesProvable ==
    reply # NoReply /\ reply.q.dnssec /\ reply.msg.code # "SERVFAIL"
      /\ ~ (Synthetic(reply.q) /\ reply.q.labels = 2) =>
        /\ reply.msg = reply.full => Signed(reply.msg)
        /\ Covered(reply.msg.an, reply.full.an)
        /\ Covered(reply.msg.ns, reply.full.ns)

=============================================================================
