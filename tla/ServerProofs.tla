---------------------------- MODULE ServerProofs ----------------------------
(***************************************************************************)
(* The root name server and the daemon that owns it: CacheSound and        *)
(* RepliesProvable for every set of questions and names, every zone and    *)
(* every limit and time; NoFreedPartUsed and ThreadEndsFirst for every set *)
(* of connections and of questions.                                        *)
(***************************************************************************)
EXTENDS NameServer, Daemon, FiniteSetTheorems, TLAPS

\* Where a cached message comes from: it was the answer to some question p of
\* its key, which the server gave by itself, or which the pool proved when the
\* zone had had the value within PoolTime.
MadeLocally(p, msg) == Local(p) /\ ~Synthetic(p) /\ msg = LocalAnswer(p)
MadeOf(p, msg, age) ==
    /\ p.tld \in Tld
    /\ \E v \in Values[p.tld] : msg = Result(p, v) /\ since[p.tld][v] <= age + PoolTime
Sourced(k, item) ==
    /\ item = [msg |-> item.msg, age |-> item.age]
    /\ item.age \in 0..CacheTime
    /\ item.msg # Servfail
    /\ \E p \in Question :
          Key(p) = k /\ (MadeLocally(p, item.msg) \/ MadeOf(p, item.msg, item.age))

CacheOK(c) ==
    /\ DOMAIN c \subseteq CacheKey
    /\ IsFiniteSet(DOMAIN c) /\ Cardinality(DOMAIN c) <= Limit
    /\ \A k \in DOMAIN c : Sourced(k, c[k])

\* The cache is sound and every request at the pool is for a name it can prove.
NsInv ==
    /\ NsTypeOK
    /\ CacheOK(cache)
    /\ \A r \in Req : waiting[r] # NoRequest => waiting[r].q.tld \in Tld

-----------------------------------------------------------------------------
\* hsk_cache_key_set maps two questions to one key only if they agree in all
\* that the answer depends on, or if both get a referral of one name.
LEMMA SameKey ==
    ASSUME NEW p \in Question, NEW q \in Question, Key(p) = Key(q), Key(q) # NoKey
    PROVE  /\ p.tld = q.tld
           /\ \/ p.labels = q.labels /\ p.host = q.host /\ p.type = q.type
              \/ p.labels > 1 /\ q.labels > 1
<1> DEFINE ref(x) == IF x.labels <= 1 THEN FALSE
                     ELSE IF x.labels = 2 THEN x.host \notin {"ptr4", "ptr6"}
                     ELSE ~ (x.labels = 3 /\ x.type \in ServiceType /\ x.host = x.type)
           kr(x) == [name |-> <<1, x.tld, "">>, ref |-> TRUE, type |-> ""]
           kn(x) == [name |-> <<x.labels, x.tld, x.host>>, ref |-> FALSE, type |-> x.type]
<1>1. \A x \in Question : Key(x) # NoKey => Key(x) = IF ref(x) THEN kr(x) ELSE kn(x)
  BY Zenon DEF Key
<1>2. \A x \in Question : x.labels \in Nat /\ (ref(x) => x.labels > 1)
  BY NameServerAssumption
<1> HIDE DEF ref
<1>3. kr(p) # kn(q) /\ kn(p) # kr(q)
  <2>1. kr(p).ref = TRUE /\ kr(q).ref = TRUE /\ kn(p).ref = FALSE /\ kn(q).ref = FALSE
    OBVIOUS
  <2> QED
    BY <2>1, Zenon
<1>4. CASE ref(p) /\ ref(q)
  <2>1. kr(p).name[2] = p.tld /\ kr(q).name[2] = q.tld
    OBVIOUS
  <2> QED
    BY <1>1, <1>2, <1>4, <2>1, Zenon
<1>5. CASE ~ref(p) /\ ~ref(q)
  <2>1. kn(p) = kn(q)
    BY <1>1, <1>5, Zenon
  <2>2. \A x : /\ kn(x).name[1] = x.labels /\ kn(x).name[2] = x.tld
               /\ kn(x).name[3] = x.host /\ kn(x).type = x.type
    OBVIOUS
  <2> QED
    BY <2>1, <2>2
<1> QED
  BY <1>1, <1>3, <1>4, <1>5, Zenon

\* hsk_ns_respond gives questions of one key the same answer, up to the glue
\* that capitals cost.
LEMMA SameResult ==
    ASSUME NEW p \in Question, NEW q \in Question, Key(p) = Key(q), Key(q) # NoKey,
           NEW v
    PROVE  \E s \in Spellings(q) : Result(p, v) = Result(s, v)
<1> DEFINE s == [q EXCEPT !.caps = p.caps]
<1>1. p.caps \in BOOLEAN /\ q \in [labels : Nat, tld : STRING, host : STRING,
          type : STRING, caps : BOOLEAN, dirty : BOOLEAN, dnssec : BOOLEAN, room : Nat]
  BY NameServerAssumption
<1>2. s \in Spellings(q)
  BY <1>1 DEF Spellings
<1>3. /\ s.labels = q.labels /\ s.tld = q.tld /\ s.type = q.type /\ s.caps = p.caps
  BY <1>1
<1> HIDE DEF s
<1>4. ASSUME NEW res PROVE ToDns(res, p) = ToDns(res, s)
  <2>1. CASE p.labels > 1 /\ q.labels > 1
    BY <1>3, <2>1 DEF ToDns
  <2>2. CASE p.labels = q.labels /\ p.type = q.type
    BY <1>3, <2>2 DEF ToDns
  <2> QED
    BY <2>1, <2>2, SameKey
<1>5. p.tld = s.tld
  BY <1>3, SameKey
<1>6. Result(p, v) = Result(s, v)
  BY <1>4, <1>5 DEF Result
<1> QED
  BY <1>2, <1>6

\* So does hsk_ns_onrecv where it answers by itself.
LEMMA SameLocal ==
    ASSUME NEW p \in Question, NEW q \in Question, Key(p) = Key(q), Key(q) # NoKey,
           Local(p), ~Synthetic(p)
    PROVE  Local(q) /\ LocalAnswer(q) = LocalAnswer(p)
<1>1. p.tld = q.tld /\ p.labels \in Nat /\ q.labels \in Nat
  BY SameKey, NameServerAssumption
<1>2. CASE p.labels = 0
  <2>1. q.labels = 0 /\ q.type = p.type
    BY <1>1, <1>2, SameKey
  <2> QED
    BY <1>2, <2>1 DEF Local, LocalAnswer, Synthetic
<1>3. CASE p.labels # 0
  <2>1. p.tld \in Blacklist /\ q.tld # "_synth"
    BY <1>1, <1>3, NameServerAssumption DEF Local
  <2>2. q.labels # 0
    BY <1>1, <1>3, SameKey
  <2> QED
    BY <1>1, <1>3, <2>1, <2>2 DEF Local, LocalAnswer, Synthetic
<1> QED
  BY <1>2, <1>3

\* What has a source is true for every question it is served for.
LEMMA SourcedIsTrue == NsInv => CacheTrue
<1> SUFFICES ASSUME NsInv, NEW q \in Question, Hit(q)
             PROVE  cache[Key(q)].msg \in TrueAnswers(q) \ {Servfail}
  BY DEF CacheTrue
<1> DEFINE item == cache[Key(q)]
<1>1. /\ Key(q) \in DOMAIN cache /\ Key(q) # NoKey
      /\ item.age \in 0..CacheTime /\ item.age < CacheTime
      /\ Sourced(Key(q), item)
  BY NameServerAssumption DEF NsInv, NsTypeOK, CacheOK, CacheKey, Hit, Expired
<1>2. PICK p \in Question :
          Key(p) = Key(q) /\ (MadeLocally(p, item.msg) \/ MadeOf(p, item.msg, item.age))
  BY <1>1 DEF Sourced
<1> HIDE DEF item
<1>3. CASE MadeLocally(p, item.msg)
  <2>1. Local(q) /\ item.msg = LocalAnswer(q)
    BY <1>1, <1>2, <1>3, SameLocal DEF MadeLocally
  <2> QED
    BY <1>1, <2>1 DEF TrueAnswers, Sourced, item
<1>4. CASE MadeOf(p, item.msg, item.age)
  <2>1. PICK v \in Values[p.tld] :
            item.msg = Result(p, v) /\ since[p.tld][v] <= item.age + PoolTime
    BY <1>4 DEF MadeOf
  <2>2. p.tld = q.tld /\ q.tld \in Tld
    BY <1>1, <1>2, <1>4, SameKey DEF MadeOf
  <2>3. since[q.tld][v] < LongAgo
    <3>1. since[q.tld][v] \in Nat
      BY <2>1, <2>2, NameServerAssumption DEF NsInv, NsTypeOK, LongAgo
    <3> QED
      BY <1>1, <2>1, <2>2, <3>1, NameServerAssumption DEF LongAgo
  <2>4. \E s \in Spellings(q) : item.msg = Result(s, v)
    BY <1>1, <1>2, <2>1, SameResult
  <2> QED
    BY <1>1, <2>1, <2>2, <2>3, <2>4 DEF TrueAnswers, Sourced, item
<1> QED
  BY <1>2, <1>3, <1>4

-----------------------------------------------------------------------------
\* hsk_cache_get_data may only take an item away.
LEMMA AfterGetOK ==
    ASSUME NEW q, CacheOK(cache)
    PROVE  CacheOK(AfterGet(q))
<1> DEFINE S == DOMAIN cache \ {Key(q)}
<1>1. CASE AfterGet(q) = cache
  BY <1>1
<1>2. CASE AfterGet(q) = Restrict(cache, S)
  <2>1. IsFiniteSet(S) /\ Cardinality(S) <= Cardinality(DOMAIN cache)
    BY FS_Subset DEF CacheOK
  <2>2. Cardinality(S) \in Nat /\ Cardinality(DOMAIN cache) \in Nat
    BY <2>1, FS_CardinalityType DEF CacheOK
  <2>3. DOMAIN AfterGet(q) = S /\ \A k \in S : AfterGet(q)[k] = cache[k]
    BY <1>2 DEF Restrict
  <2> QED
    BY <2>1, <2>2, <2>3, NameServerAssumption DEF CacheOK
<1> QED
  BY <1>1, <1>2 DEF AfterGet

\* hsk_cache_insert_data keeps the limit, and what it puts in has a source.
LEMMA InsertOK ==
    ASSUME NEW c, CacheOK(c), NEW q \in Question, NEW msg, msg # Servfail,
           MadeLocally(q, msg) \/ MadeOf(q, msg, 0)
    PROVE  CacheOK(Insert(c, q, msg))
<1> DEFINE k == Key(q)
           others == DOMAIN c \ {k}
           kept == IF Cardinality(others) >= Limit THEN {} ELSE others
           new == [msg |-> msg, age |-> 0]
           d == [x \in kept \cup {k} |-> IF x = k THEN new ELSE c[x]]
<1>1. CASE Insert(c, q, msg) = c
  BY <1>1
<1>2. CASE k # NoKey /\ Insert(c, q, msg) = d
  <2>1. IsFiniteSet(others) /\ IsFiniteSet({}) /\ Cardinality({}) = 0
    BY FS_Subset, FS_EmptySet DEF CacheOK
  <2>2. IsFiniteSet(kept) /\ Cardinality(kept) \in Nat /\ Cardinality(kept) < Limit
    BY <2>1, FS_CardinalityType, NameServerAssumption
  <2>3. k \notin kept /\ kept \subseteq DOMAIN c
    OBVIOUS
  <2> HIDE DEF kept
  <2>4. IsFiniteSet(kept \cup {k}) /\ Cardinality(kept \cup {k}) <= Limit
    <3>1. /\ IsFiniteSet(kept \cup {k})
          /\ Cardinality(kept \cup {k}) =
                IF k \in kept THEN Cardinality(kept) ELSE Cardinality(kept) + 1
      BY <2>2, FS_AddElement, Zenon
    <3>2. Limit \in Nat
      BY NameServerAssumption
    <3> QED
      BY <2>2, <2>3, <3>1, <3>2
  <2>5. DOMAIN d = kept \cup {k} /\ d[k] = new /\ \A x \in kept : d[x] = c[x]
    BY <2>3
  <2>6. Sourced(k, new)
    BY NameServerAssumption DEF Sourced
  <2>7. k \in CacheKey
    BY <1>2 DEF CacheKey
  <2> HIDE DEF d, new, k
  <2> QED
    BY <1>2, <2>3, <2>4, <2>5, <2>6, <2>7 DEF CacheOK
<1> QED
  BY <1>1, <1>2 DEF Insert

\* The server's own answers are no failures.
LEMMA LocalNotServfail ==
    ASSUME NEW q, ~Synthetic(q) PROVE LocalAnswer(q) # Servfail
<1>1. Servfail.code = "SERVFAIL"
  BY DEF Servfail, Message
<1>2. Nx.code = "NXDOMAIN" /\ Root(q.type).code = "NOERROR"
  BY DEF Nx, Root, Message
<1> QED
  BY <1>1, <1>2 DEF LocalAnswer

\* While the zone stands still, a sound cache is sound in the next state.
LEMMA CacheOKStable ==
    ASSUME NEW c, CacheOK(c), UNCHANGED since
    PROVE  c = cache' => CacheOK(cache)'
<1> SUFFICES ASSUME c = cache' PROVE CacheOK(cache)'
  OBVIOUS
<1> QED
  BY DEF CacheOK, Sourced, MadeOf, MadeLocally

-----------------------------------------------------------------------------
\* The server starts with an empty cache.
LEMMA NsInitInv == Init => NsInv
<1> SUFFICES ASSUME Init PROVE NsInv
  OBVIOUS
<1>1. DOMAIN cache = {}
  BY DEF Init
<1>2. CacheOK(cache)
  BY <1>1, FS_EmptySet, NameServerAssumption DEF CacheOK
<1>3. LongAgo \in Nat /\ CacheTime \in Nat /\ PoolTime \in Nat
  BY NameServerAssumption DEF LongAgo
<1>4. \A t \in Tld : since[t] \in [Values[t] -> 0 .. LongAgo]
  BY <1>3 DEF Init
<1>5. /\ DOMAIN zone = Tld /\ \A t \in Tld : zone[t] \in Values[t]
      /\ DOMAIN since = Tld
  BY DEF Init
<1> QED
  BY <1>1, <1>2, <1>4, <1>5 DEF Init, NsInv, NsTypeOK

\* What the steps of ns.c and of the pool share: the zone and its history stay.
LEMMA ServerStep ==
    ASSUME NsInv, UNCHANGED <<zone, since>>, CacheOK(cache'), socket' \in BOOLEAN,
           waiting' \in [Req -> Request \cup {NoRequest}],
           \A r \in Req : waiting'[r] # NoRequest => waiting'[r].q.tld \in Tld
    PROVE  NsInv'
<1>1. CacheOK(cache)'
  BY CacheOKStable
<1>2. \A k \in DOMAIN cache' : cache'[k].age \in 0 .. CacheTime
  BY DEF CacheOK, Sourced
<1>3. DOMAIN cache' \subseteq CacheKey
  BY DEF CacheOK
<1> QED
  BY <1>1, <1>2, <1>3 DEF NsInv, NsTypeOK

\* Questions, answered from the cache, by the server itself, or by the pool.
LEMMA QuestionsKeepInv ==
    ASSUME NsInv, NEW q \in Question,
           \/ AnswerCached(q) \/ AnswerLocal(q) \/ PoolRefuses(q)
           \/ \E r \in Req : AskPool(q, r)
    PROVE  NsInv'
<1>0. /\ CacheOK(cache) /\ CacheOK(AfterGet(q)) /\ socket \in BOOLEAN
      /\ waiting \in [Req -> Request \cup {NoRequest}]
      /\ \A r \in Req : waiting[r] # NoRequest => waiting[r].q.tld \in Tld
  BY AfterGetOK DEF NsInv, NsTypeOK
<1>1. CASE AnswerCached(q)
  BY <1>0, <1>1, ServerStep DEF AnswerCached
<1>2. CASE AnswerLocal(q)
  <2>1. CASE Synthetic(q)
    BY <1>0, <1>2, <2>1, ServerStep DEF AnswerLocal
  <2>2. CASE ~Synthetic(q)
    <3>1. LocalAnswer(q) # Servfail /\ MadeLocally(q, LocalAnswer(q))
      BY <1>2, <2>2, LocalNotServfail DEF AnswerLocal, MadeLocally
    <3>2. CacheOK(Insert(AfterGet(q), q, LocalAnswer(q)))
      BY <1>0, <3>1, InsertOK
    <3> QED
      BY <1>0, <1>2, <2>2, <3>2, ServerStep DEF AnswerLocal
  <2> QED
    BY <2>1, <2>2
<1>3. CASE PoolRefuses(q)
  BY <1>0, <1>3, ServerStep DEF PoolRefuses
<1>4. ASSUME NEW r \in Req, AskPool(q, r) PROVE NsInv'
  <2>1. q.tld \in Tld
    BY <1>4, NameServerAssumption DEF AskPool, Local
  <2>2. [q |-> q, age |-> 0] \in Request
    BY NameServerAssumption DEF Request
  <2>3. waiting' = [waiting EXCEPT ![r] = [q |-> q, age |-> 0]]
    BY <1>4 DEF AskPool
  <2>4. waiting' \in [Req -> Request \cup {NoRequest}]
    BY <1>0, <2>2, <2>3
  <2>5. \A x \in Req : waiting'[x] # NoRequest => waiting'[x].q.tld \in Tld
    BY <1>0, <2>1, <2>3
  <2> QED
    BY <1>0, <1>4, <2>4, <2>5, ServerStep DEF AskPool
<1> QED
  BY <1>1, <1>2, <1>3, <1>4

\* The pool's results: what is cached was true when it was proved.
LEMMA ResultsKeepInv ==
    ASSUME NsInv, NEW r \in Req,
           \/ PoolFails(r)
           \/ /\ waiting[r] # NoRequest
              /\ \E v \in Values[waiting[r].q.tld] : PoolProves(r, v)
    PROVE  NsInv'
<1>0. /\ CacheOK(cache) /\ socket \in BOOLEAN
      /\ waiting \in [Req -> Request \cup {NoRequest}]
      /\ \A x \in Req : waiting[x] # NoRequest => waiting[x].q.tld \in Tld
  BY DEF NsInv, NsTypeOK
<1>1. ASSUME waiting' = [waiting EXCEPT ![r] = NoRequest]
      PROVE  /\ waiting' \in [Req -> Request \cup {NoRequest}]
             /\ \A x \in Req : waiting'[x] # NoRequest => waiting'[x].q.tld \in Tld
  BY <1>0, <1>1
<1>2. CASE PoolFails(r)
  BY <1>0, <1>1, <1>2, ServerStep DEF PoolFails
<1>3. ASSUME waiting[r] # NoRequest, NEW v \in Values[waiting[r].q.tld], PoolProves(r, v)
      PROVE  NsInv'
  <2> DEFINE q == waiting[r].q
  <2>1. q \in Question /\ q.tld \in Tld /\ waiting[r].age \in 0 .. PoolTime + 1
    BY <1>0, <1>3, SMTT(30) DEF Request
  <2>2. waiting[r].age <= PoolTime /\ since[q.tld][v] <= waiting[r].age
    BY <1>3, SMTT(30) DEF PoolProves
  <2>3. since[q.tld][v] \in Nat
    BY <1>3, <2>1, NameServerAssumption, SMTT(30) DEF NsInv, NsTypeOK, LongAgo
  <2>4. since[q.tld][v] <= 0 + PoolTime
    BY <2>1, <2>2, <2>3, NameServerAssumption, SMTT(30)
  <2>5. MadeOf(q, Result(q, v), 0)
    BY <1>3, <2>1, <2>4, SMTT(30) DEF MadeOf
  <2>6. /\ cache' = IF Result(q, v) = Servfail THEN cache
                    ELSE Insert(cache, q, Result(q, v))
        /\ waiting' = [waiting EXCEPT ![r] = NoRequest]
        /\ UNCHANGED <<zone, since, socket>>
    BY <1>3, SMTT(30) DEF PoolProves
  <2> HIDE DEF q
  <2>7. CacheOK(cache')
    BY <1>0, <2>1, <2>5, <2>6, InsertOK
  <2> QED
    BY <1>0, <1>1, <2>6, <2>7, ServerStep
<1> QED
  BY <1>2, <1>3

\* A new value of the zone makes no earlier value older.
LEMMA ZoneKeepsInv ==
    ASSUME NsInv, NEW t \in Tld, ZoneChange(t)
    PROVE  NsInv'
<1>1. PICK v \in Values[t] :
          /\ zone' = [zone EXCEPT ![t] = v]
          /\ since' = [since EXCEPT ![t][v] = 0]
          /\ UNCHANGED <<cache, waiting, socket>>
  BY Zenon DEF ZoneChange
<1>2. LongAgo \in Nat /\ DOMAIN since = Tld /\ DOMAIN zone = Tld
  BY NameServerAssumption DEF LongAgo, NsInv, NsTypeOK
<1>3. ASSUME NEW x \in Tld
      PROVE  /\ since'[x] \in [Values[x] -> 0 .. LongAgo]
             /\ \A w \in Values[x] : since'[x][w] <= since[x][w]
  <2>1. since[x] \in [Values[x] -> 0 .. LongAgo] /\ 0 \in 0 .. LongAgo
    BY <1>2 DEF NsInv, NsTypeOK
  <2>2. CASE x # t
    BY <1>1, <1>2, <2>1, <2>2
  <2>3. CASE x = t
    <3>1. since'[x] = [since[x] EXCEPT ![v] = 0]
      BY <1>1, <1>2, <2>3, SMTT(30)
    <3> QED
      BY <1>1, <1>2, <2>1, <2>3, <3>1
  <2> QED
    BY <2>2, <2>3
<1>4. ASSUME NEW k \in DOMAIN cache PROVE Sourced(k, cache[k])'
  <2>1. Sourced(k, cache[k]) /\ cache' = cache
    BY <1>1, SMTT(30) DEF NsInv, CacheOK
  <2>2. PICK p \in Question :
            /\ Key(p) = k
            /\ MadeLocally(p, cache[k].msg) \/ MadeOf(p, cache[k].msg, cache[k].age)
    BY <2>1 DEF Sourced
  <2>3. MadeOf(p, cache[k].msg, cache[k].age) => MadeOf(p, cache[k].msg, cache[k].age)'
    <3> SUFFICES ASSUME MadeOf(p, cache[k].msg, cache[k].age)
                 PROVE  MadeOf(p, cache[k].msg, cache[k].age)'
      OBVIOUS
    <3>1. PICK w \in Values[p.tld] :
              /\ p.tld \in Tld /\ cache[k].msg = Result(p, w)
              /\ since[p.tld][w] <= cache[k].age + PoolTime
      BY DEF MadeOf
    <3>2. cache[k].age \in Nat /\ PoolTime \in Nat
      BY <2>1, NameServerAssumption, SMTT(30) DEF Sourced
    <3>3. since[p.tld][w] \in Nat /\ since'[p.tld][w] \in Nat
      BY <1>2, <1>3, <3>1, SMTT(30) DEF NsInv, NsTypeOK
    <3>4. since'[p.tld][w] <= cache[k].age + PoolTime
      BY <1>3, <3>1, <3>2, <3>3
    <3> QED
      BY <2>1, <3>1, <3>4 DEF MadeOf
  <2> QED
    BY <2>1, <2>2, <2>3 DEF Sourced, MadeLocally
<1>5. CacheOK(cache)'
  BY <1>1, <1>4 DEF NsInv, CacheOK
<1>6. /\ DOMAIN zone' = Tld /\ \A x \in Tld : zone'[x] \in Values[x]
      /\ DOMAIN since' = Tld
  BY <1>1, <1>2 DEF NsInv, NsTypeOK
<1> QED
  BY <1>1, <1>3, <1>5, <1>6 DEF NsInv, NsTypeOK

\* Time passes: an item and the value it came from grow older together, and an
\* item whose age has stopped is no longer served.
LEMMA TickKeepsInv == NsInv /\ Tick => NsInv'
<1> SUFFICES ASSUME NsInv, Tick PROVE NsInv'
  OBVIOUS
<1>0. CacheTime \in Nat /\ PoolTime \in Nat /\ LongAgo = CacheTime + PoolTime
  BY NameServerAssumption DEF LongAgo
<1>1. ASSUME NEW n \in Nat, NEW most \in Nat, n <= most
      PROVE  /\ Older(n, most) \in 0 .. most
             /\ Older(n, most) = IF n < most THEN n + 1 ELSE n
  BY <1>1 DEF Older
<1>2. ASSUME NEW t \in Tld
      PROVE  /\ since'[t] \in [Values[t] -> 0 .. LongAgo]
             /\ \A v \in Values[t] :
                   since'[t][v] <= since[t][v] + 1 /\ since'[t][v] <= LongAgo
  <2>1. since'[t] = [v \in Values[t] |->
                        IF v = zone[t] THEN 0 ELSE Older(since[t][v], LongAgo)]
    BY DEF Tick
  <2>2. \A v \in Values[t] : since[t][v] \in Nat /\ since[t][v] <= LongAgo
    BY <1>0 DEF NsInv, NsTypeOK
  <2>3. \A v \in Values[t] :
            since'[t][v] = 0
            \/ since'[t][v] = IF since[t][v] < LongAgo THEN since[t][v] + 1 ELSE since[t][v]
    BY <1>0, <1>1, <2>1, <2>2
  <2>4. ASSUME NEW v \in Values[t]
        PROVE  since'[t][v] \in 0 .. LongAgo /\ since'[t][v] <= since[t][v] + 1
    BY <1>0, <2>2, <2>3, SMTT(30)
  <2> QED
    BY <1>0, <2>1, <2>4
<1>3. ASSUME NEW k \in DOMAIN cache PROVE Sourced(k, cache[k])'
  <2> DEFINE item == cache[k]
             old == [msg |-> item.msg, age |-> Older(item.age, CacheTime)]
  <2>1. Sourced(k, item) /\ item.age \in Nat /\ item.age <= CacheTime
    BY <1>0 DEF NsInv, CacheOK, Sourced
  <2>2. cache'[k] = old
    <3>1. cache'[k] = [item EXCEPT !.age = Older(item.age, CacheTime)]
      BY SMTT(30) DEF Tick
    <3>2. item = [msg |-> item.msg, age |-> item.age]
      BY <2>1, SMTT(30) DEF Sourced
    <3> QED
      BY <3>1, <3>2
  <2>3. /\ old.msg = item.msg /\ old.age \in 0 .. CacheTime
        /\ old.age = IF item.age < CacheTime THEN item.age + 1 ELSE item.age
    BY <1>0, <1>1, <2>1
  <2>4. PICK p \in Question :
            Key(p) = k /\ (MadeLocally(p, item.msg) \/ MadeOf(p, item.msg, item.age))
    BY <2>1 DEF Sourced
  <2>5. item.msg # Servfail
    BY <2>1, SMTT(30) DEF Sourced
  <2>6. ASSUME MadeOf(p, item.msg, item.age) PROVE MadeOf(p, cache[k].msg, cache[k].age)'
    <3>1. PICK v \in Values[p.tld] :
              /\ p.tld \in Tld /\ item.msg = Result(p, v)
              /\ since[p.tld][v] <= item.age + PoolTime
      BY <2>6, SMTT(30) DEF MadeOf
    <3>2. since[p.tld][v] \in Nat /\ since'[p.tld][v] \in Nat
      BY <1>0, <1>2, <3>1, SMTT(30) DEF NsInv, NsTypeOK
    <3>3. since'[p.tld][v] <= old.age + PoolTime
      BY <1>0, <1>2, <2>1, <2>3, <3>1, <3>2, SMTT(30)
    <3> QED
      BY <2>2, <2>3, <3>1, <3>3 DEF MadeOf
  <2>7. cache'[k] = [msg |-> cache'[k].msg, age |-> cache'[k].age]
    BY <2>2
  <2> HIDE DEF item, old
  <2> QED
    BY <2>2, <2>3, <2>4, <2>5, <2>6, <2>7, SMTT(30) DEF Sourced, MadeLocally
<1>4. DOMAIN cache' = DOMAIN cache /\ zone' = zone /\ socket' = socket /\ DOMAIN since' = Tld
  BY DEF Tick
<1>5. CacheOK(cache)'
  BY <1>3, <1>4 DEF NsInv, CacheOK
<1>6. ASSUME NEW r \in Req
      PROVE  /\ waiting'[r] \in Request \cup {NoRequest}
             /\ waiting'[r] # NoRequest => waiting'[r].q.tld \in Tld
  <2>1. CASE waiting[r] = NoRequest
    BY <2>1 DEF Tick
  <2>2. CASE waiting[r] # NoRequest
    <3>1. waiting[r] \in Request /\ waiting[r].q.tld \in Tld
      BY <2>2 DEF NsInv, NsTypeOK
    <3>2. waiting'[r] = [waiting[r] EXCEPT !.age = Older(waiting[r].age, PoolTime + 1)]
      BY <2>2 DEF Tick
    <3>3. Older(waiting[r].age, PoolTime + 1) \in 0 .. PoolTime + 1
      BY <1>0, <1>1, <3>1 DEF Request
    <3> QED
      BY <3>1, <3>2, <3>3 DEF Request
  <2> QED
    BY <2>1, <2>2
<1>7. waiting' \in [Req -> Request \cup {NoRequest}]
  BY <1>6 DEF Tick
<1>8. \A k \in DOMAIN cache' : cache'[k].age \in 0 .. CacheTime
  BY <1>5 DEF CacheOK, Sourced
<1> QED
  BY <1>2, <1>4, <1>5, <1>6, <1>7, <1>8 DEF NsInv, NsTypeOK

\* Every step of the server keeps every cached message traceable.
THEOREM NsInvCorrect == NsSpec => []NsInv
<1>1. NsInv /\ [NsNext]_vars => NsInv'
  <2> SUFFICES ASSUME NsInv, [NsNext]_vars PROVE NsInv'
    OBVIOUS
  <2>0. CacheOK(cache) /\ NsTypeOK
        /\ \A r \in Req : waiting[r] # NoRequest => waiting[r].q.tld \in Tld
    BY DEF NsInv
  <2>1. CASE Close \/ UNCHANGED vars
    BY <2>0, <2>1, ServerStep, Zenon DEF Close, vars, NsTypeOK
  <2> QED
    BY <2>1, QuestionsKeepInv, ResultsKeepInv, ZoneKeepsInv, TickKeepsInv
       DEF NsNext, NsStep
<1> QED
  BY <1>1, NsInitInv, PTL DEF NsSpec

\* The cache keeps to its limit and serves only what was true within the last
\* six hours and a request, whatever is asked and however the zone changes.
THEOREM CacheSoundCorrect == NsSpec => []CacheSound
<1>1. NsInv => CacheSound
  BY SourcedIsTrue DEF NsInv, CacheOK, CacheSound, CacheBounded
<1> QED
  BY <1>1, NsInvCorrect, PTL

-----------------------------------------------------------------------------
(* Signatures.  What makes a message checkable is decided when it is made, *)
(* and neither the cache nor hsk_dns_msg_finalize takes it away from a     *)
(* client that asked for it.                                               *)

\* The records of a section, and sections in which every signature comes behind
\* all the records of the type it was made over.
SignedType == {"NS", "DS", "TXT", "NSEC", "SOA", "DNSKEY"}
RecordType == SignedType \cup {"RRSIG"}
Record == RecordType \X (RecordType \cup ServerKind
                           \cup {"chain", "root", "tld", "host", "ksk", "zsk"})
InOrder(rrs) ==
    /\ rrs \in Seq(Record)
    /\ \A i \in 1..Len(rrs) : rrs[i][1] = "RRSIG" =>
          /\ rrs[i][2] # "RRSIG"
          /\ \A j \in 1..Len(rrs) : rrs[j][1] = rrs[i][2] => j < i

\* What RepliesProvable needs to know of a message before it is cut.
Provable(msg) ==
    /\ msg = Message(msg.code, msg.aa, msg.an, msg.ns, msg.ar)
    /\ InOrder(msg.an) /\ InOrder(msg.ns) /\ Signed(msg)

\* The places of records in a sequence.
LEMMA Places ==
    ASSUME NEW rrs \in Seq(Record), NEW t
    PROVE  OfType(rrs, t) = {i \in 1..Len(rrs) : rrs[i][1] = t}
BY DEF OfType

\* One more record that no signature was made over keeps the order.
LEMMA PushKeepsOrder ==
    ASSUME NEW rrs, InOrder(rrs), NEW rr \in Record, rr[1] # "RRSIG",
           \A i \in 1..Len(rrs) : rrs[i][1] = "RRSIG" => rrs[i][2] # rr[1]
    PROVE  InOrder(Append(rrs, rr))
<1> DEFINE q == Append(rrs, rr)
<1>1. rrs \in Seq(Record) /\ Len(rrs) \in Nat
  BY DEF InOrder
<1>2. /\ q \in Seq(Record) /\ Len(q) = Len(rrs) + 1 /\ q[Len(rrs) + 1] = rr
      /\ \A i \in 1..Len(rrs) : q[i] = rrs[i]
  BY <1>1
<1> HIDE DEF q
<1>3. \A i \in 1..Len(q) : i \in 1..Len(rrs) \/ i = Len(rrs) + 1
  BY <1>1, <1>2
<1>4. ASSUME NEW i \in 1..Len(q), q[i][1] = "RRSIG"
      PROVE  /\ q[i][2] # "RRSIG"
             /\ \A j \in 1..Len(q) : q[j][1] = q[i][2] => j < i
  <2>1. i \in 1..Len(rrs) /\ q[i] = rrs[i]
    BY <1>2, <1>3, <1>4
  <2>2. /\ rrs[i][2] # "RRSIG" /\ rrs[i][2] # rr[1]
        /\ \A j \in 1..Len(rrs) : rrs[j][1] = rrs[i][2] => j < i
    BY <1>4, <2>1, SMTT(30) DEF InOrder
  <2> QED
    BY <1>2, <1>3, <2>1, <2>2
<1> QED
  BY <1>2, <1>4 DEF InOrder, q

\* hsk_dnssec_sign_zsk appends a signature, when there is something to sign.
LEMMA SignKeepsOrder ==
    ASSUME NEW rrs, InOrder(rrs), NEW t \in SignedType
    PROVE  /\ InOrder(Sign(rrs, t)) /\ Len(rrs) <= Len(Sign(rrs, t))
           /\ \A i \in 1..Len(rrs) : Sign(rrs, t)[i] = rrs[i]
           /\ OfType(rrs, t) # {} => /\ Len(Sign(rrs, t)) = Len(rrs) + 1
                                     /\ Sign(rrs, t)[Len(rrs) + 1] = <<"RRSIG", t>>
           /\ \A i \in 1..Len(Sign(rrs, t)) :
                 i \in 1..Len(rrs) \/ Sign(rrs, t)[i] = <<"RRSIG", t>>
<1>1. rrs \in Seq(Record) /\ Len(rrs) \in Nat
  BY DEF InOrder
<1>2. CASE OfType(rrs, t) = {}
  BY <1>1, <1>2 DEF Sign
<1>3. CASE OfType(rrs, t) # {}
  <2> DEFINE rr == <<"RRSIG", t>>
             q == Append(rrs, rr)
  <2>1. rr \in Record /\ rr[1] = "RRSIG" /\ rr[2] = t
    <3>1. "RRSIG" \in RecordType /\ t \in RecordType
      BY DEF RecordType
    <3> QED
      BY <3>1 DEF Record
  <2> HIDE DEF rr
  <2>2. /\ q \in Seq(Record) /\ Len(q) = Len(rrs) + 1 /\ q[Len(rrs) + 1] = rr
        /\ \A i \in 1..Len(rrs) : q[i] = rrs[i]
    BY <1>1, <2>1
  <2>3. q = Sign(rrs, t)
    BY <1>3 DEF Sign, rr
  <2> HIDE DEF q
  <2>4. \A i \in 1..Len(q) : i \in 1..Len(rrs) \/ i = Len(rrs) + 1
    BY <1>1, <2>2
  <2>5. ASSUME NEW i \in 1..Len(q), q[i][1] = "RRSIG"
        PROVE  /\ q[i][2] # "RRSIG"
               /\ \A j \in 1..Len(q) : q[j][1] = q[i][2] => j < i
    <3>1. CASE i \in 1..Len(rrs)
      <4>1. q[i] = rrs[i] /\ rrs[i][2] # "RRSIG"
            /\ \A j \in 1..Len(rrs) : rrs[j][1] = rrs[i][2] => j < i
        BY <2>2, <2>5, <3>1 DEF InOrder
      <4> QED
        BY <2>1, <2>2, <2>4, <4>1
    <3>2. CASE i = Len(rrs) + 1
      <4>1. q[i][2] = t /\ t # "RRSIG"
        BY <2>1, <2>2, <3>2 DEF SignedType
      <4> QED
        BY <1>1, <2>1, <2>2, <2>4, <3>2, <4>1
    <3> QED
      BY <2>4, <3>1, <3>2
  <2>6. InOrder(q)
    BY <2>2, <2>5 DEF InOrder
  <2>7. Len(rrs) <= Len(q)
    BY <1>1, <2>2
  <2> QED
    BY <2>2, <2>3, <2>4, <2>6, <2>7 DEF rr
<1> QED
  BY <1>2, <1>3

\* Sections without signatures are in order.
LEMMA PlainInOrder ==
    ASSUME NEW rrs \in Seq(Record), \A i \in 1..Len(rrs) : rrs[i][1] # "RRSIG"
    PROVE  InOrder(rrs)
BY DEF InOrder

\* A section that was signed makes a message checkable, as its answer or, when
\* it has none, as its authority.
LEMMA SignedProvable ==
    ASSUME NEW code, NEW aa, NEW an, NEW ns, NEW ar, InOrder(an), InOrder(ns),
           NEW rrs, rrs = (IF an = <<>> THEN ns ELSE an),
           NEW i \in 1..Len(rrs), NEW j \in 1..Len(rrs),
           rrs[i][1] = "RRSIG", rrs[j][1] = rrs[i][2]
    PROVE  Provable(Message(code, aa, an, ns, ar))
<1> DEFINE msg == Message(code, aa, an, ns, ar)
<1>1. /\ msg.code = code /\ msg.aa = aa /\ msg.an = an /\ msg.ns = ns
      /\ msg.ar = ar
  BY DEF Message
<1>2. j \in OfType(rrs, rrs[i][2]) /\ i \in DOMAIN rrs
  BY DEF OfType, InOrder
<1> HIDE DEF msg
<1>3. Signed(msg)
  BY <1>1, <1>2, Zenon DEF Signed
<1> QED
  BY <1>1, <1>3, Zenon DEF Provable, msg

\* The empty section.
LEMMA EmptyInOrder == InOrder(<<>>)
BY DEF InOrder

\* A denial (hsk_resource_to_nx, hsk_resource_to_empty) has signed records.
LEMMA DenialProvable ==
    ASSUME NEW code, NEW aa, NEW nsecs \in Seq(Record), Len(nsecs) > 0,
           \A i \in 1..Len(nsecs) : nsecs[i][1] = "NSEC"
    PROVE  Provable(Message(code, aa, <<>>, Denial(nsecs), <<>>))
<1> DEFINE p == Sign(nsecs, "NSEC")
           q == Append(p, Soa)
           r == Sign(q, "SOA")
           n == Len(nsecs)
<1>1. InOrder(nsecs) /\ n \in Nat /\ n >= 1
  BY PlainInOrder
<1>2. OfType(nsecs, "NSEC") # {}
  BY <1>1, Places
<1>3. /\ InOrder(p) /\ Len(p) = n + 1 /\ p[n + 1] = <<"RRSIG", "NSEC">>
      /\ \A i \in 1..n : p[i] = nsecs[i]
  <2>1. "NSEC" \in SignedType
    BY DEF SignedType
  <2> HIDE DEF n
  <2>2. Len(p) = Len(nsecs) + 1 /\ p[Len(nsecs) + 1] = <<"RRSIG", "NSEC">>
    BY <1>1, <1>2, <2>1, SignKeepsOrder, Zenon
  <2>3. InOrder(p) /\ \A i \in 1..Len(nsecs) : p[i] = nsecs[i]
    BY <1>1, <2>1, SignKeepsOrder, Zenon
  <2> QED
    BY <2>2, <2>3, Zenon DEF n
<1>4. Soa \in Record /\ Soa[1] = "SOA"
  BY DEF Soa, Record, RecordType, SignedType
<1> HIDE DEF p
<1>5. InOrder(q)
  <2>1. ASSUME NEW i \in 1..Len(p), p[i][1] = "RRSIG" PROVE p[i][2] = "NSEC"
    <3>1. i \notin 1..n
      BY <1>3, <2>1
    <3>2. i = n + 1
      BY <1>1, <1>3, <3>1
    <3> QED
      BY <1>3, <3>2
  <2> QED
    BY <1>3, <1>4, <2>1, PushKeepsOrder
<1>6. Len(q) = n + 2 /\ \A i \in 1..(n + 1) : q[i] = p[i]
  <2>1. p \in Seq(Record)
    BY <1>3 DEF InOrder
  <2> QED
    BY <1>1, <1>3, <1>4, <2>1
<1> HIDE DEF q, n
<1>7. InOrder(r) /\ Len(q) <= Len(r) /\ \A i \in 1..Len(q) : r[i] = q[i]
  <2>1. "SOA" \in SignedType
    BY DEF SignedType
  <2> QED
    BY <1>5, <2>1, SignKeepsOrder, Zenon
<1>8. r = Denial(nsecs)
  BY DEF r, q, p, Denial
<1> HIDE DEF r
<1>9. r \in Seq(Record) /\ Len(r) \in Nat
  BY <1>7 DEF InOrder
<1>10. /\ 1 \in 1..Len(r) /\ n + 1 \in 1..Len(r)
       /\ r[1] = nsecs[1] /\ r[n + 1] = <<"RRSIG", "NSEC">>
  <2>1. 1 \in 1..n /\ 1 \in 1..(n + 1) /\ n + 1 \in 1..(n + 1)
        /\ 1 \in 1..Len(q) /\ n + 1 \in 1..Len(q)
    BY <1>1, <1>6
  <2>2. 1 \in 1..Len(r) /\ n + 1 \in 1..Len(r)
    BY <1>1, <1>6, <1>7, <1>9
  <2> QED
    BY <1>3, <1>6, <1>7, <2>1, <2>2
<1>11. r[1][1] = "NSEC" /\ r[n + 1][1] = "RRSIG" /\ r[n + 1][2] = "NSEC"
  <2>1. nsecs[1][1] = "NSEC"
    BY <1>1 DEF n
  <2> QED
    BY <1>10, <2>1
<1> QED
  BY <1>7, <1>8, <1>10, <1>11, EmptyInOrder, SignedProvable, Zenon

\* So has a section that was signed.
LEMMA SignedSection ==
    ASSUME NEW code, NEW aa, NEW rrs, InOrder(rrs), NEW t \in SignedType,
           OfType(rrs, t) # {}, NEW ns, InOrder(ns), NEW ar
    PROVE  /\ Provable(Message(code, aa, Sign(rrs, t), ns, ar))
           /\ Provable(Message(code, aa, <<>>, Sign(rrs, t), ar))
<1> DEFINE p == Sign(rrs, t)
           n == Len(rrs)
<1>1. rrs \in Seq(Record) /\ n \in Nat
  BY DEF InOrder
<1>2. PICK j \in 1..n : rrs[j][1] = t
  BY <1>1, Places
<1>3. /\ InOrder(p) /\ Len(p) = n + 1 /\ p[n + 1] = <<"RRSIG", t>>
      /\ p[j] = rrs[j]
  BY <1>2, SignKeepsOrder, Zenon
<1> HIDE DEF p, n
<1>4. j \in 1..Len(p) /\ n + 1 \in 1..Len(p) /\ p # <<>>
  BY <1>1, <1>2, <1>3
<1>5. p[n + 1][1] = "RRSIG" /\ p[j][1] = p[n + 1][2]
  BY <1>2, <1>3
<1>6. Provable(Message(code, aa, p, ns, ar))
  <2>1. p = IF p = <<>> THEN ns ELSE p
    BY <1>4
  <2> QED
    BY <1>3, <1>4, <1>5, <2>1, SignedProvable, Zenon
<1>7. Provable(Message(code, aa, <<>>, p, ar))
  <2>1. p = IF <<>> = <<>> THEN p ELSE <<>>
    OBVIOUS
  <2> QED
    BY <1>3, <1>4, <1>5, <2>1, EmptyInOrder, SignedProvable, Zenon
<1> QED
  BY <1>6, <1>7 DEF p

\* The sections that hsk_resource_to_dns fills before it signs them.
LEMMA ResourceSections ==
    ASSUME NEW res \in ResourceData
    PROVE  /\ ToNs(res) \in Seq(Record) /\ Len(ToNs(res)) = Len(res.servers)
           /\ \A i \in 1..Len(ToNs(res)) : ToNs(res)[i][1] = "NS"
           /\ ToDs(res) \in Seq(Record) /\ Len(ToDs(res)) = res.ds
           /\ \A i \in 1..Len(ToDs(res)) : ToDs(res)[i][1] = "DS"
           /\ ToTxt(res) \in Seq(Record) /\ Len(ToTxt(res)) = res.txt
           /\ \A i \in 1..Len(ToTxt(res)) : ToTxt(res)[i][1] = "TXT"
<1>1. /\ res.servers \in Seq(ServerKind) /\ res.ds \in Nat /\ res.txt \in Nat
      /\ Len(res.servers) \in Nat
  BY DEF ResourceData
<1>2. /\ \A k \in ServerKind : <<"NS", k>> \in Record
      /\ <<"DS", "chain">> \in Record /\ <<"TXT", "chain">> \in Record
  BY DEF Record, RecordType, SignedType
<1>3. /\ ToNs(res) \in Seq(Record) /\ Len(ToNs(res)) = Len(res.servers)
      /\ \A i \in 1..Len(ToNs(res)) : ToNs(res)[i][1] = "NS"
  <2> DEFINE n == Len(res.servers)
             f == [i \in 1..n |-> <<"NS", res.servers[i]>>]
  <2>1. ToNs(res) = f
    BY <1>1 DEF ToNs
  <2>2. f \in [1..n -> Record]
    BY <1>1, <1>2
  <2>3. \A i \in 1..n : f[i][1] = "NS"
    OBVIOUS
  <2> HIDE DEF f
  <2>4. f \in Seq(Record) /\ Len(f) = n
    BY <1>1, <2>2
  <2> QED
    BY <2>1, <2>3, <2>4
<1>4. /\ ToDs(res) \in Seq(Record) /\ Len(ToDs(res)) = res.ds
      /\ \A i \in 1..Len(ToDs(res)) : ToDs(res)[i][1] = "DS"
  <2>1. ToDs(res) \in [1..res.ds -> Record]
    BY <1>1, <1>2 DEF ToDs
  <2>2. ToDs(res) \in Seq(Record) /\ Len(ToDs(res)) = res.ds
    BY <1>1, <2>1
  <2> QED
    BY <2>2, Zenon DEF ToDs
<1>5. /\ ToTxt(res) \in Seq(Record) /\ Len(ToTxt(res)) = res.txt
      /\ \A i \in 1..Len(ToTxt(res)) : ToTxt(res)[i][1] = "TXT"
  <2>1. ToTxt(res) \in [1..res.txt -> Record]
    BY <1>1, <1>2 DEF ToTxt
  <2>2. ToTxt(res) \in Seq(Record) /\ Len(ToTxt(res)) = res.txt
    BY <1>1, <2>1
  <2> QED
    BY <2>2, Zenon DEF ToTxt
<1> QED
  BY <1>3, <1>4, <1>5

\* A section of records of one type, signed, answers and refers.
LEMMA UniformProvable ==
    ASSUME NEW code, NEW aa, NEW rrs \in Seq(Record), NEW t \in SignedType,
           \A i \in 1..Len(rrs) : rrs[i][1] = t, Sign(rrs, t) # <<>>, NEW ar
    PROVE  /\ Provable(Message(code, aa, Sign(rrs, t), <<>>, ar))
           /\ Provable(Message(code, aa, <<>>, Sign(rrs, t), ar))
<1>1. InOrder(rrs)
  BY PlainInOrder DEF SignedType
<1>2. OfType(rrs, t) # {}
  <2>1. CASE OfType(rrs, t) = {}
    <3>1. rrs # <<>>
      BY <2>1 DEF Sign
    <3>2. 1 \in 1..Len(rrs)
      BY <3>1
    <3> QED
      BY <2>1, <3>2, Places
  <2> QED
    BY <2>1
<1> QED
  BY <1>1, <1>2, EmptyInOrder, SignedSection, Zenon

\* The proof that a name has no records of the type (hsk_resource_to_empty,
\* hsk_resource_root_to_nsec).
LEMMA EmptyProvable ==
    ASSUME NEW code, NEW aa, NEW owner \in {"root", "tld", "host"}
    PROVE  Provable(Message(code, aa, <<>>, EmptyProof(owner), <<>>))
<1>1. <<"NSEC", owner>> \in Record
  BY DEF Record, RecordType, SignedType
<1>2. /\ <<<<"NSEC", owner>>>> \in Seq(Record) /\ Len(<<<<"NSEC", owner>>>>) > 0
      /\ \A i \in 1..Len(<<<<"NSEC", owner>>>>) : <<<<"NSEC", owner>>>>[i][1] = "NSEC"
  BY <1>1
<1> QED
  BY <1>2, DenialProvable, Zenon DEF EmptyProof

\* hsk_resource_to_nx.
LEMMA NxProvable == Provable(Nx)
<1> DEFINE rr == <<"NSEC", "root">>
           two == <<rr, rr>>
<1>1. rr \in Record /\ rr[1] = "NSEC"
  BY DEF Record, RecordType, SignedType
<1> HIDE DEF rr
<1>2. two \in Seq(Record) /\ Len(two) > 0 /\ \A i \in 1..Len(two) : two[i][1] = "NSEC"
  BY <1>1
<1>3. Nx = Message("NXDOMAIN", TRUE, <<>>, Denial(two), <<>>)
  BY DEF Nx, rr
<1> HIDE DEF two
<1> QED
  BY <1>2, <1>3, DenialProvable, Zenon

\* The referral signs the delegation or, when there are keys, those.
LEMMA ReferralProvable ==
    ASSUME NEW res \in ResourceData, NEW caps PROVE Provable(Referral(res, caps))
<1> DEFINE ns == ToNs(res)
           ds == ToDs(res)
           rrs == ns \o ds
           t == IF res.ds > 0 THEN "DS" ELSE "NS"
<1>1. CASE ~ HasNs(res)
  BY <1>1, EmptyProvable, Zenon DEF Referral
<1>2. CASE HasNs(res)
  <2>1. /\ ns \in Seq(Record) /\ ds \in Seq(Record)
        /\ \A i \in 1..Len(ns) : ns[i][1] = "NS"
        /\ \A i \in 1..Len(ds) : ds[i][1] = "DS"
        /\ Len(ds) = res.ds /\ Len(ns) = Len(res.servers)
    BY ResourceSections, Zenon
  <2>2. Len(ns) \in Nat /\ Len(ns) > 0 /\ Len(ds) \in Nat
    <3>1. res.servers \in Seq(ServerKind) /\ res.servers # <<>>
      BY <1>2 DEF ResourceData, HasNs
    <3>2. Len(res.servers) \in Nat /\ Len(res.servers) > 0
      BY <3>1
    <3> QED
      BY <2>1, <3>2
  <2> HIDE DEF ns, ds
  <2>3. /\ rrs \in Seq(Record) /\ Len(rrs) = Len(ns) + Len(ds)
        /\ \A i \in 1..Len(rrs) : rrs[i] =
              IF i <= Len(ns) THEN ns[i] ELSE ds[i - Len(ns)]
    <3>1. rrs \in Seq(Record) /\ Len(rrs) = Len(ns) + Len(ds)
      BY <2>1
    <3>2. ASSUME NEW i \in 1..(Len(ns) + Len(ds))
          PROVE  rrs[i] = IF i <= Len(ns) THEN ns[i] ELSE ds[i - Len(ns)]
      BY <2>1, <2>2
    <3> QED
      BY <3>1, <3>2
  <2> HIDE DEF rrs
  <2>4. ASSUME NEW i \in 1..Len(rrs)
        PROVE  rrs[i][1] = IF i <= Len(ns) THEN "NS" ELSE "DS"
    <3>1. CASE i <= Len(ns)
      <4>1. i \in 1..Len(ns) /\ rrs[i] = ns[i]
        BY <2>2, <2>3, <3>1
      <4> QED
        BY <2>1, <3>1, <4>1
    <3>2. CASE ~ (i <= Len(ns))
      <4>1. i - Len(ns) \in 1..Len(ds) /\ rrs[i] = ds[i - Len(ns)]
        BY <2>2, <2>3, <3>2
      <4> QED
        BY <2>1, <3>2, <4>1
    <3> QED
      BY <3>1, <3>2
  <2>5. InOrder(rrs)
    BY <2>3, <2>4, PlainInOrder
  <2>6. OfType(rrs, t) # {} /\ t \in SignedType
    <3>1. CASE res.ds > 0
      <4>1. Len(ns) + 1 \in 1..Len(rrs) /\ ~ (Len(ns) + 1 <= Len(ns))
        BY <2>1, <2>2, <2>3, <3>1
      <4>2. rrs[Len(ns) + 1][1] = "DS" /\ t = "DS"
        BY <2>4, <3>1, <4>1
      <4>3. Len(ns) + 1 \in OfType(rrs, "DS")
        BY <2>3, <4>1, <4>2, Places, Zenon
      <4> QED
        BY <4>2, <4>3, Zenon DEF SignedType
    <3>2. CASE ~ (res.ds > 0)
      <4>1. 1 \in 1..Len(rrs) /\ 1 <= Len(ns)
        BY <2>2, <2>3
      <4>2. rrs[1][1] = "NS" /\ t = "NS"
        BY <2>4, <3>2, <4>1
      <4>3. 1 \in OfType(rrs, "NS")
        BY <2>3, <4>1, <4>2, Places, Zenon
      <4> QED
        BY <4>2, <4>3, Zenon DEF SignedType
    <3> QED
      BY <3>1, <3>2
  <2>7. Referral(res, caps) =
          Message("NOERROR", FALSE, <<>>, Sign(rrs, t), ToGlue(res, caps))
    BY <1>2, Zenon DEF Referral, rrs, ns, ds
  <2> HIDE DEF t
  <2> QED
    BY <2>5, <2>6, <2>7, EmptyInOrder, SignedSection, Zenon
<1> QED
  BY <1>1, <1>2

\* hsk_resource_to_dns: whatever the records and the question, the message is
\* an answer, a delegation or a denial that is signed.
LEMMA ToDnsProvable ==
    ASSUME NEW res \in ResourceData, NEW q PROVE Provable(ToDns(res, q))
<1> DEFINE an == IF q.type = "DS" THEN Sign(ToDs(res), "DS")
                 ELSE IF q.type = "TXT" THEN Sign(ToTxt(res), "TXT") ELSE <<>>
           ns == IF q.type = "NS" THEN Sign(ToNs(res), "NS") ELSE <<>>
           ar == IF q.type = "NS" THEN ToGlue(res, q.caps) ELSE <<>>
           msg == Message("NOERROR", an # <<>>, an, ns, ar)
<1>1. {"DS", "TXT", "NS"} \subseteq SignedType
  BY DEF SignedType
<1>2. ASSUME an # <<>> \/ ns # <<>> PROVE Provable(msg)
  <2>1. CASE q.type = "DS"
    <3>1. an = Sign(ToDs(res), "DS") /\ ns = <<>> /\ an # <<>>
      BY <1>2, <2>1
    <3> QED
      BY <1>1, <3>1, ResourceSections, UniformProvable, Zenon
  <2>2. CASE q.type = "TXT"
    <3>1. an = Sign(ToTxt(res), "TXT") /\ ns = <<>> /\ an # <<>>
      BY <1>2, <2>2
    <3> QED
      BY <1>1, <3>1, ResourceSections, UniformProvable, Zenon
  <2>3. CASE q.type = "NS"
    <3>1. an = <<>> /\ ns = Sign(ToNs(res), "NS") /\ ns # <<>>
      BY <1>2, <2>3, SMTT(30)
    <3> QED
      BY <1>1, <3>1, ResourceSections, UniformProvable, Zenon
  <2> QED
    BY <1>2, <2>1, <2>2, <2>3
<1>3. ToDns(res, q) = IF q.labels > 1 \/ (an = <<>> /\ ns = <<>>)
                      THEN Referral(res, q.caps) ELSE msg
  BY DEF ToDns
<1> HIDE DEF an, ns, msg
<1> QED
  BY <1>2, <1>3, ReferralProvable

\* hsk_ns_respond: a proved value gives a checkable answer or a failure.
LEMMA ResultProvable ==
    ASSUME NEW q, NEW tld \in Tld, NEW v \in Values[tld]
    PROVE  Result(q, v) = Servfail \/ Provable(Result(q, v))
<1>1. v \in {Absent, Empty, Bad} \/ v \in ResourceData
  BY NameServerAssumption
<1>2. q.tld \in DOMAIN Icann => Icann[q.tld] \in ResourceData
  BY NameServerAssumption
<1> QED
  BY <1>1, <1>2, ToDnsProvable, NxProvable, Zenon DEF Result

\* hsk_resource_root.
LEMMA RootProvable == ASSUME NEW type PROVE Provable(Root(type))
<1>1. ASSUME NEW t \in SignedType, NEW d \in {"root", "ksk"},
             NEW e \in {"zsk"}
      PROVE  /\ <<<<t, d>>>> \in Seq(Record) /\ InOrder(<<<<t, d>>>>)
             /\ OfType(<<<<t, d>>>>, t) # {}
             /\ InOrder(<<<<t, d>>, <<t, e>>>>)
             /\ OfType(<<<<t, d>>, <<t, e>>>>, t) # {}
  <2> DEFINE x == <<t, d>>
             y == <<t, e>>
  <2>1. x \in Record /\ y \in Record /\ x[1] = t /\ y[1] = t /\ t # "RRSIG"
    BY DEF Record, RecordType, SignedType
  <2> HIDE DEF x, y
  <2>2. <<x>> \in Seq(Record) /\ Len(<<x>>) = 1 /\ <<x>>[1] = x
    BY <2>1
  <2>3. /\ <<x, y>> \in Seq(Record) /\ Len(<<x, y>>) = 2
        /\ <<x, y>>[1] = x /\ <<x, y>>[2] = y
    BY <2>1
  <2> DEFINE one == <<x>>
             two == <<x, y>>
  <2> HIDE DEF one, two
  <2>4. InOrder(one) /\ OfType(one, t) # {}
    <3>1. one \in Seq(Record) /\ Len(one) = 1 /\ one[1] = x
      BY <2>2 DEF one
    <3>2. 1 \in 1..Len(one) /\ \A i \in 1..Len(one) : i = 1
      BY <3>1
    <3>3. \A i \in 1..Len(one) : one[i][1] = t
      BY <2>1, <3>1, <3>2
    <3>4. InOrder(one)
      BY <2>1, <3>1, <3>3, PlainInOrder
    <3> QED
      BY <3>1, <3>2, <3>3, <3>4, Places, Zenon
  <2>5. InOrder(two) /\ OfType(two, t) # {}
    <3>1. two \in Seq(Record) /\ Len(two) = 2 /\ two[1] = x /\ two[2] = y
      BY <2>3 DEF two
    <3>2. 1 \in 1..Len(two) /\ \A i \in 1..Len(two) : i = 1 \/ i = 2
      BY <3>1
    <3>3. \A i \in 1..Len(two) : two[i][1] = t
      BY <2>1, <3>1, <3>2
    <3>4. InOrder(two)
      BY <2>1, <3>1, <3>3, PlainInOrder
    <3> QED
      BY <3>1, <3>2, <3>3, <3>4, Places, Zenon
  <2> QED
    BY <2>2, <2>4, <2>5 DEF x, y, one, two
<1>2. {"NS", "SOA", "DNSKEY", "DS"} \subseteq SignedType
  BY DEF SignedType
<1>3. InOrder(Sign(<<<<"NS", "root">>>>, "NS"))
  BY <1>1, <1>2, SignKeepsOrder, Zenon
<1>4. CASE type \in {"ANY", "NS"}
  BY <1>1, <1>2, <1>4, EmptyInOrder, SignedSection, Zenon DEF Root
<1>5. CASE type = "SOA"
  <2>1. Root(type) = Message("NOERROR", TRUE, Sign(<<Soa>>, "SOA"),
             Sign(<<<<"NS", "root">>>>, "NS"), Sign(<<<<Family, "root">>>>, Family))
    BY <1>5 DEF Root
  <2> QED
    BY <1>1, <1>2, <1>3, <2>1, SignedSection, Zenon DEF Soa
<1>6. CASE type = "DNSKEY"
  <2>1. Root(type) = Message("NOERROR", TRUE,
            Sign(<<<<"DNSKEY", "ksk">>, <<"DNSKEY", "zsk">>>>, "DNSKEY"), <<>>, <<>>)
    BY <1>6 DEF Root
  <2> QED
    BY <1>1, <1>2, <2>1, EmptyInOrder, SignedSection, Zenon
<1>7. CASE type = "DS"
  <2>1. Root(type) = Message("NOERROR", TRUE, Sign(<<<<"DS", "root">>>>, "DS"),
                             <<>>, <<>>)
    BY <1>7 DEF Root
  <2> QED
    BY <1>1, <1>2, <2>1, EmptyInOrder, SignedSection, Zenon
<1>8. CASE type \notin {"ANY", "NS", "SOA", "DNSKEY", "DS"}
  BY <1>8, EmptyProvable, Zenon DEF Root
<1> QED
  BY <1>4, <1>5, <1>6, <1>7, <1>8

\* hsk_ns_onrecv: what the server answers by itself is checkable, except for
\* the addresses it synthesizes.
LEMMA LocalProvable ==
    ASSUME NEW q, ~ (Synthetic(q) /\ q.labels = 2)
    PROVE  Provable(LocalAnswer(q))
<1>1. Synthetic(q) => Provable(Synthesize(q))
  BY EmptyProvable, Zenon DEF Synthetic, Synthesize
<1> QED
  BY <1>1, RootProvable, NxProvable, Zenon DEF LocalAnswer

\* The first records of a section have the records under their signatures.
LEMMA FirstCovered ==
    ASSUME NEW rrs, InOrder(rrs), NEW n \in Int
    PROVE  Covered(FirstOf(rrs, n), rrs) /\ Covered(rrs, rrs)
<1> DEFINE m == IF n < Len(rrs) THEN n ELSE Len(rrs)
           f == FirstOf(rrs, n)
<1>1. rrs \in Seq(Record) /\ Len(rrs) \in Nat /\ DOMAIN rrs = 1..Len(rrs)
      /\ m \in Int /\ m <= Len(rrs)
  BY DEF InOrder
<1>2. f = SubSeq(rrs, 1, m)
  BY DEF FirstOf
<1> HIDE DEF f, m
<1>3. DOMAIN f = 1..m /\ \A i \in 1..m : f[i] = rrs[i]
  BY <1>1, <1>2
<1>4. Covered(f, rrs)
  <2> SUFFICES ASSUME NEW i \in 1..m, f[i][1] = "RRSIG", NEW j \in OfType(rrs, f[i][2])
               PROVE  j \in 1..m
    BY <1>3 DEF Covered
  <2>1. i \in 1..Len(rrs) /\ rrs[i][1] = "RRSIG" /\ f[i] = rrs[i]
    BY <1>1, <1>3
  <2>2. j \in 1..Len(rrs) /\ rrs[j][1] = rrs[i][2]
    BY <1>1, <2>1, Places
  <2>3. j < i
    BY <2>1, <2>2 DEF InOrder
  <2> QED
    BY <1>1, <2>2, <2>3
<1>5. Covered(rrs, rrs)
  BY DEF Covered, OfType
<1> QED
  BY <1>4, <1>5 DEF f

\* hsk_dns_msg_truncate cuts a checkable message to a checkable one, or to
\* records without some of their signatures.
LEMMA TruncatedProvable ==
    ASSUME NEW msg, Provable(msg), NEW n \in Nat,
           NEW cut, cut = Truncate(msg, n), cut # NoMessage
    PROVE  /\ cut = msg => Signed(cut)
           /\ Covered(cut.an, msg.an) /\ Covered(cut.ns, msg.ns)
<1>1. InOrder(msg.an) /\ InOrder(msg.ns) /\ Signed(msg)
  BY DEF Provable
<1>2. Len(msg.an) \in Nat
  BY <1>1 DEF InOrder
<1>3. CASE cut = msg
  <2>1. 0 \in Int
    OBVIOUS
  <2> QED
    BY <1>1, <1>3, <2>1, FirstCovered, Zenon
<1>4. CASE cut # msg
  <2> DEFINE k == n - Len(msg.an)
             l == k - Len(msg.ns)
  <2>1. n \in Int /\ k \in Int
    BY <1>2
  <2>2. cut = [msg EXCEPT !.an = FirstOf(@, n), !.ns = FirstOf(@, k),
                          !.ar = FirstOf(@, l)]
    BY <1>4, Zenon DEF Truncate
  <2> HIDE DEF k, l
  <2>3. cut.an = FirstOf(msg.an, n) /\ cut.ns = FirstOf(msg.ns, k)
    <3>1. msg = Message(msg.code, msg.aa, msg.an, msg.ns, msg.ar)
      BY Zenon DEF Provable
    <3> QED
      BY <2>2, <3>1 DEF Message
  <2> QED
    BY <1>1, <1>4, <2>1, <2>3, FirstCovered, Zenon
<1> QED
  BY <1>3, <1>4

\* hsk_ns_send to a client that asked for signatures.
LEMMA SentProvable ==
    ASSUME NEW q \in Question, NEW msg, Send(q, msg),
           msg = Servfail \/ Provable(msg) \/ (Synthetic(q) /\ q.labels = 2)
    PROVE  RepliesProvable'
<1> DEFINE meant == IF Finalize(msg, q) = NoMessage THEN Servfail ELSE msg
<1>1. q.room \in Nat /\ q.dnssec \in BOOLEAN
  BY NameServerAssumption
<1>2. CASE reply' = NoReply
  BY <1>2 DEF RepliesProvable
<1>3. CASE reply' = [q |-> q, msg |-> Finalize(meant, q), full |-> Cleaned(meant, q)]
  <2>1. /\ reply'.q = q /\ reply'.msg = Finalize(meant, q)
        /\ reply'.full = Cleaned(meant, q)
    BY <1>3, Zenon
  <2> SUFFICES ASSUME q.dnssec, reply'.msg.code # "SERVFAIL",
                      ~ (Synthetic(q) /\ q.labels = 2)
               PROVE  /\ reply'.msg = reply'.full => Signed(reply'.msg)
                      /\ Covered(reply'.msg.an, reply'.full.an)
                      /\ Covered(reply'.msg.ns, reply'.full.ns)
    BY <1>1, <2>1, Zenon DEF RepliesProvable, Synthetic
  <2>2. \A m : Cleaned(m, q) = m /\ Finalize(m, q) = Truncate(m, q.room)
    BY Zenon DEF Cleaned, Finalize
  <2>3. Truncate(Servfail, q.room).code = "SERVFAIL"
    <3>1. /\ Servfail.an = <<>> /\ Servfail.ns = <<>> /\ Servfail.ar = <<>>
          /\ Servfail.code = "SERVFAIL"
      BY DEF Servfail, Message
    <3>2. Len(Servfail.an) + Len(Servfail.ns) + Len(Servfail.ar) <= q.room
      BY <1>1, <3>1
    <3> QED
      BY <3>1, <3>2, Zenon DEF Truncate
  <2>4. meant # Servfail
    BY <2>1, <2>2, <2>3, Zenon
  <2>5. meant = msg /\ Provable(msg) /\ Truncate(msg, q.room) # NoMessage
    BY <2>2, <2>4, Zenon
  <2> HIDE DEF meant
  <2> QED
    BY <1>1, <2>1, <2>2, <2>5, TruncatedProvable, ZenonT(40)
<1> QED
  BY <1>2, <1>3, Zenon DEF Send

\* A cached message was made for some question of its key and is checkable for
\* all of them.
LEMMA CachedProvable ==
    ASSUME NsInv, NEW q \in Question, Hit(q)
    PROVE  cache[Key(q)].msg = Servfail \/ Provable(cache[Key(q)].msg)
<1>1. Sourced(Key(q), cache[Key(q)])
  BY SMTT(30) DEF NsInv, CacheOK, Hit
<1>2. PICK p \in Question :
          \/ MadeLocally(p, cache[Key(q)].msg)
          \/ MadeOf(p, cache[Key(q)].msg, cache[Key(q)].age)
  BY <1>1 DEF Sourced
<1>3. CASE MadeLocally(p, cache[Key(q)].msg)
  BY <1>3, LocalProvable, Zenon DEF MadeLocally
<1>4. CASE MadeOf(p, cache[Key(q)].msg, cache[Key(q)].age)
  BY <1>4, ResultProvable, Zenon DEF MadeOf
<1> QED
  BY <1>2, <1>3, <1>4

\* A client that asks for signatures can check every reply that fits the size it
\* takes, but a failure, and no reply that hsk_dns_msg_truncate cut has a
\* signature without the records it was made over: whatever is asked, cached or
\* proved, in whatever order, for resources of any number of records and sizes
\* of any client.
THEOREM RepliesProvableCorrect == NsSpec => []RepliesProvable
<1>1. Init => RepliesProvable
  BY DEF Init, RepliesProvable
<1>2. NsInv /\ RepliesProvable /\ [NsNext]_vars => RepliesProvable'
  <2> SUFFICES ASSUME NsInv, RepliesProvable, [NsNext]_vars PROVE RepliesProvable'
    OBVIOUS
  <2>1. ASSUME NEW q \in Question, AnswerCached(q) PROVE RepliesProvable'
    BY <2>1, CachedProvable, SentProvable, Zenon DEF AnswerCached
  <2>2. ASSUME NEW q \in Question, AnswerLocal(q) PROVE RepliesProvable'
    BY <2>2, LocalProvable, SentProvable, Zenon DEF AnswerLocal
  <2>3. ASSUME NEW q \in Question, PoolRefuses(q) PROVE RepliesProvable'
    BY <2>3, SentProvable, Zenon DEF PoolRefuses
  <2>4. ASSUME NEW r \in Req, waiting[r] # NoRequest
        PROVE  waiting[r].q \in Question /\ waiting[r].q.tld \in Tld
    BY <2>4 DEF NsInv, NsTypeOK, Request
  <2>5. ASSUME NEW r \in Req, PoolFails(r) PROVE RepliesProvable'
    BY <2>4, <2>5, SentProvable, Zenon DEF PoolFails
  <2>6. ASSUME NEW r \in Req, waiting[r] # NoRequest,
               NEW v \in Values[waiting[r].q.tld], PoolProves(r, v)
        PROVE  RepliesProvable'
    BY <2>4, <2>6, ResultProvable, SentProvable, Zenon DEF PoolProves
  <2>7. ASSUME reply' = NoReply PROVE RepliesProvable'
    BY <2>7 DEF RepliesProvable
  <2>8. CASE UNCHANGED vars
    BY <2>8, Zenon DEF vars, RepliesProvable, Synthetic
  <2> QED
    BY <2>1, <2>2, <2>3, <2>5, <2>6, <2>7, <2>8
       DEF NsNext, NsStep, AskPool, Close, ZoneChange, Tick
<1> QED
  BY <1>1, <1>2, NsInvCorrect, PTL DEF NsSpec

-----------------------------------------------------------------------------
(* The life cycle of the daemon's parts.                                   *)

\* The objects while hsk_daemon_init builds them, one after another.
Building ==
    \/ live = {}
    \/ live = {"signals"}
    \/ live = {"signals", "pool"}
    \/ live = {"signals", "pool", "ns"}

\* The parts are allocated and freed together: outside of hsk_daemon_init there
\* are all of them or none, and without them no handle can call back.  The
\* worker exists only after the other parts.
DInv ==
    /\ DTypeOK /\ stale = {}
    /\ main = "init" =>
          Building /\ \A h \in Handle \ {"sigint", "sigterm"} : handle[h] = "none"
    /\ main = "pool" => \A p \in Conn : handle[p] = "none"
    /\ main \in {"pool", "ns", "rs", "done"} => live = Object
    /\ main \in {"init", "pool", "ns", "rs"} => worker = "none"
    /\ Running =>
          \/ live = Object
          \/ live = {} /\ \A h \in Handle : handle[h] # "active"

\* hsk_daemon_init goes through the parts in order.
LEMMA NextPart ==
    ASSUME Building
    PROVE  LET o == InitOrder[Cardinality(live) + 1]
           IN  /\ live = {} => o = "signals"
               /\ live = {"signals"} => o = "pool"
               /\ live = {"signals", "pool"} => o = "ns"
               /\ live = {"signals", "pool", "ns"} => o = "rs"
<1>1. IsFiniteSet({}) /\ Cardinality({}) = 0
  BY FS_EmptySet
<1>2. IsFiniteSet({"signals"}) /\ Cardinality({"signals"}) = 1
  BY FS_Singleton, Zenon
<1>3. IsFiniteSet({"signals", "pool"}) /\ Cardinality({"signals", "pool"}) = 2
  <2>1. {"signals", "pool"} = {"signals"} \cup {"pool"} /\ "pool" \notin {"signals"}
    OBVIOUS
  <2> QED
    BY <2>1, <1>2, FS_AddElement
<1>4. Cardinality({"signals", "pool", "ns"}) = 3
  <2>1. /\ {"signals", "pool", "ns"} = {"signals", "pool"} \cup {"ns"}
        /\ "ns" \notin {"signals", "pool"}
    OBVIOUS
  <2> QED
    BY <2>1, <1>3, FS_AddElement
<1>5. /\ InitOrder[0 + 1] = "signals" /\ InitOrder[1 + 1] = "pool"
      /\ InitOrder[2 + 1] = "ns" /\ InitOrder[3 + 1] = "rs"
  BY DEF InitOrder
<1> QED
  BY <1>1, <1>2, <1>3, <1>4, <1>5, Zenon

\* hsk_daemon_uninit leaves nothing that could be called back, and no question
\* at a peer; it uses no freed part, because the pool is freed before ns.
LEMMA UninitFrees ==
    ASSUME DInv, NEW closed, Uninit(closed)
    PROVE  /\ live' = {} /\ stale' = {}
           /\ handle' \in [Handle -> {"none", "active", "closing"}]
           /\ where' \in [Query -> {"new", "answered", "freed"}]
           /\ \A h \in closed \cup {"sigint", "sigterm"} \cup Conn :
                 h \in Handle => handle'[h] # "active"
<1> USE DEF DInv, DTypeOK
<1>1. ~FreedBefore("ns", "pool")
  BY DEF FreedBefore, UninitOrder
<1>2. live' = {} /\ stale' = {}
  BY <1>1 DEF Uninit
<1>3. handle' \in [Handle -> {"none", "active", "closing"}]
  BY DEF Uninit, UvClose
<1>4. ASSUME NEW h \in closed \cup {"sigint", "sigterm"} \cup Conn, h \in Handle
      PROVE  handle'[h] # "active"
  BY <1>4 DEF Uninit, UvClose, Peers
<1>5. ASSUME NEW q \in Query PROVE where'[q] \in {"new", "answered", "freed"}
  BY ConnAssumption DEF Uninit, Answer, Held, Peers
<1>6. where' \in [Query -> {"new", "answered", "freed"}]
  BY <1>5 DEF Uninit
<1> QED
  BY <1>2, <1>3, <1>4, <1>6

\* So does hsk_daemon_after_close, with every handle of every part.
LEMMA AfterCloseFrees ==
    ASSUME DInv, AfterClose
    PROVE  /\ live' = {} /\ stale' = {} /\ worker' = "none"
           /\ handle' \in [Handle -> {"none", "active", "closing"}]
           /\ where' \in [Query -> {"new", "answered", "freed"}]
           /\ \A h \in Handle : handle'[h] # "active"
<1> DEFINE closed == {"rs_socket", "rs_async", "rs_quit_async", "ns_socket", "timer"}
<1>1. Uninit(closed) /\ worker' = "none"
  BY DEF AfterClose
<1>2. \A h \in Handle : h \in closed \cup {"sigint", "sigterm"} \cup Conn
  BY DEF Handle
<1> HIDE DEF closed
<1> QED
  BY <1>1, <1>2, UninitFrees

\* hsk_daemon_close frees all parts and every handle of theirs, or nothing.
LEMMA CloseKeepsInv ==
    ASSUME DInv, main \in {"done", "loop", "last"}, DaemonClose,
           main' \in {"loop", "last"}
    PROVE  DInv'
<1>1. CASE AfterClose
  BY <1>1, AfterCloseFrees, SMTT(30) DEF DInv, DTypeOK, Running
<1>2. CASE UNCHANGED <<live, handle, where, stale>> /\ worker' \in {worker, "closing"}
  BY <1>2 DEF DInv, DTypeOK, Running, Peers
<1> QED
  BY <1>1, <1>2, Zenon DEF DaemonClose, DInv, DTypeOK

\* Nothing has been built, so nothing calls back.
LEMMA DInitInv == DInit => DInv
BY DEF DInit, DInv, DTypeOK, Building, Running, Object, Handle

\* The steps of main.
LEMMA StartupKeepsInv == DInv /\ Startup => DInv'
<1> SUFFICES ASSUME DInv, Startup PROVE DInv'
  OBVIOUS
<1>1. CASE InitNext
  <2> DEFINE o == InitOrder[Cardinality(live) + 1]
  <2>1. /\ main = "init" /\ Building /\ worker = "none"
        /\ \A h \in Handle \ {"sigint", "sigterm"} : handle[h] = "none"
    BY <1>1 DEF InitNext, DInv
  <2>2. /\ live = {} => o = "signals"
        /\ live = {"signals"} => o = "pool"
        /\ live = {"signals", "pool"} => o = "ns"
        /\ live = {"signals", "pool", "ns"} => o = "rs"
    BY <2>1, NextPart
  <2>3. /\ live' = live \cup {o}
        /\ main' = IF o = "rs" THEN "pool" ELSE "init"
        /\ handle' = IF o = "signals"
                     THEN [handle EXCEPT !["sigint"] = "active",
                                         !["sigterm"] = "active"]
                     ELSE handle
        /\ UNCHANGED <<worker, where, stale>>
    BY <1>1 DEF InitNext
  <2> HIDE DEF o
  <2>4. /\ handle' \in [Handle -> {"none", "active", "closing"}]
        /\ \A h \in Handle \ {"sigint", "sigterm"} : handle'[h] = "none"
    BY <2>1, <2>3, ZenonT(40) DEF DInv, DTypeOK
  <2>5. Conn \subseteq Handle \ {"sigint", "sigterm"}
    BY ConnAssumption DEF Handle
  <2>6. Peers' = {} /\ Peers = {}
    BY <2>1, <2>4, <2>5 DEF Peers
  <2>7. (o = "rs" => live' = Object) /\ (o # "rs" => Building') /\ live' \subseteq Object
    BY <2>1, <2>2, <2>3, SMTT(30) DEF Building, Object
  <2> QED
    BY <2>1, <2>3, <2>4, <2>5, <2>6, <2>7, SMTT(30) DEF DInv, DTypeOK, Running
<1>2. CASE InitFails
  <2>1. /\ live' = {} /\ stale' = {} /\ main' = "failed" /\ worker' = worker
        /\ handle' \in [Handle -> {"none", "active", "closing"}]
        /\ where' \in [Query -> {"new", "answered", "freed"}]
    BY <1>2, UninitFrees, SMTT(30) DEF InitFails
  <2> QED
    BY <2>1 DEF DInv, DTypeOK, Running
<1>3. ASSUME NEW ps \in SUBSET Conn, PoolOpen(ps) PROVE DInv'
  <2>1. handle' \in [Handle -> {"none", "active", "closing"}]
    BY <1>3 DEF PoolOpen, DInv, DTypeOK
  <2>2. Peers \subseteq Peers'
    BY <1>3, SMTT(30) DEF PoolOpen, Peers, DInv, Handle
  <2> QED
    BY <1>3, <2>1, <2>2 DEF PoolOpen, DInv, DTypeOK, Running
<1>4. CASE NsOpen \/ NsOpenFails
  <2>0. /\ handle' = [handle EXCEPT !["ns_socket"] = "active"]
        /\ handle \in [Handle -> {"none", "active", "closing"}]
    BY <1>4 DEF NsOpen, NsOpenFails, DInv, DTypeOK
  <2>a. \A p \in Conn : p \in Handle /\ p # "ns_socket"
    BY ConnAssumption DEF Handle
  <2>1. Peers' = Peers
    BY <2>0, <2>a, SMTT(30) DEF Peers
  <2> QED
    BY <1>4, <2>1 DEF NsOpen, NsOpenFails, DInv, DTypeOK, Running
<1>5. CASE RsOpen \/ \E hs \in SUBSET RsHandles : RsOpenFails(hs)
  <2>1. PICK hs \in SUBSET RsHandles :
            /\ handle' = [h \in Handle |-> IF h \in hs THEN "active" ELSE handle[h]]
            /\ main = "rs" /\ main' \in {"loop", "done"}
            /\ worker' \in {"open", "built", "none"}
            /\ UNCHANGED <<live, where, stale>>
    BY <1>5 DEF RsOpen, RsOpenFails
  <2>2. Peers' = Peers
    BY <2>1, ConnAssumption, Zenon DEF Peers, RsHandles, Handle
  <2> QED
    BY <2>1, <2>2, SMTT(30) DEF DInv, DTypeOK, Running
<1>6. CASE MainClose
  BY <1>6, CloseKeepsInv, SMTT(30) DEF MainClose
<1>7. CASE LoopEnds
  <2>1. Object # {} /\ "signals" \in Object
    BY DEF Object
  <2> QED
    BY <1>7, <2>1 DEF LoopEnds, Destroyed, DInv, DTypeOK, Running, Peers
<1> QED
  BY <1>1, <1>2, <1>3, <1>4, <1>5, <1>6, <1>7, SMTT(30) DEF Startup

\* The callbacks of the event loop: one that uses the parts has an active
\* handle, and then they are all there.
LEMMA CallbacksKeepInv == DInv /\ Callbacks => DInv'
<1> SUFFICES ASSUME DInv, Callbacks PROVE DInv'
  OBVIOUS
<1>0. Conn \subseteq Handle /\ "timer" \in Handle /\ "ns_socket" \in Handle
  BY DEF Handle
<1>a. ASSUME Running, NEW h \in Handle, handle[h] = "active" PROVE live = Object
  BY <1>a DEF DInv
<1>1. ASSUME NEW h \in Handle, OnSignal(h) PROVE DInv'
  BY <1>1, CloseKeepsInv, SMTT(30) DEF OnSignal, Running
<1>2. ASSUME NEW h \in Handle, OnClosed(h) PROVE DInv'
  <2>1. Peers' = Peers /\ handle' \in [Handle -> {"none", "active", "closing"}]
    BY <1>2, <1>0, SMTT(30) DEF OnClosed, Peers, DInv, DTypeOK
  <2> QED
    BY <1>2, <2>1 DEF OnClosed, DInv, DTypeOK, Running
<1>3. ASSUME NEW d \in SUBSET Conn, NEW a \in SUBSET Conn, OnTimer(d, a) PROVE DInv'
  <2>1. live = Object
    BY <1>3, <1>0, <1>a, SMTT(30) DEF OnTimer
  <2>2. stale' = {}
    BY <1>3, <2>1, SMTT(30) DEF OnTimer, Uses, Object, DInv
  <2>3. handle' \in [Handle -> {"none", "active", "closing"}]
    BY <1>3 DEF OnTimer, UvClose, DInv, DTypeOK
  <2>4. \A p \in Peers : p \notin d => p \in Peers'
    BY <1>3, <1>0, SMTT(30) DEF OnTimer, UvClose, Peers
  <2>5. where' \in [Query -> Peers' \cup {"new", "pending", "answered", "freed"}]
    BY <1>3, <2>4, SMTT(30) DEF OnTimer, Answer, Held, DInv, DTypeOK
  <2> QED
    BY <1>3, <2>1, <2>2, <2>3, <2>5, SMTT(30) DEF OnTimer, DInv, DTypeOK, Running
<1>4. ASSUME NEW q \in Query, OnQuestion(q) PROVE DInv'
  <2>1. live = Object
    BY <1>4, <1>0, <1>a, SMTT(30) DEF OnQuestion
  <2>2. stale' = {} /\ Peers' = Peers
    BY <1>4, <2>1, SMTT(30) DEF OnQuestion, Uses, Object, DInv, Peers
  <2> QED
    BY <1>4, <2>1, <2>2 DEF OnQuestion, DInv, DTypeOK, Running
<1>5. ASSUME NEW q \in Query, NEW p \in Conn, OnProof(p, q) PROVE DInv'
  <2>1. live = Object
    BY <1>5, <1>0, <1>a, SMTT(30) DEF OnProof, Peers
  <2>2. stale' = {} /\ Peers' = Peers
    BY <1>5, <2>1, SMTT(30) DEF OnProof, Uses, Object, DInv, Peers
  <2> QED
    BY <1>5, <2>1, <2>2 DEF OnProof, Answer, DInv, DTypeOK, Running
<1>6. ASSUME NEW p \in Conn, OnPeerError(p) PROVE DInv'
  <2>1. live = Object
    BY <1>6, <1>0, <1>a DEF OnPeerError, Peers
  <2>2. stale' = {}
    BY <1>6, <2>1, SMTT(30) DEF OnPeerError, Uses, Object, DInv
  <2>3. handle' \in [Handle -> {"none", "active", "closing"}]
    BY <1>6 DEF OnPeerError, UvClose, DInv, DTypeOK
  <2>4. \A r \in Peers : r # p => r \in Peers'
    BY <1>6, <1>0, SMTT(30) DEF OnPeerError, UvClose, Peers
  <2>5. where' \in [Query -> Peers' \cup {"new", "pending", "answered", "freed"}]
    BY <1>6, <2>4, SMTT(30) DEF OnPeerError, Answer, Held, DInv, DTypeOK
  <2> QED
    BY <1>6, <2>1, <2>2, <2>3, <2>5, SMTT(30) DEF OnPeerError, DInv, DTypeOK, Running
<1>7. CASE OnQuitAsync
  <2>1. AfterClose /\ Running /\ main' = main
    BY <1>7 DEF OnQuitAsync
  <2> QED
    BY <2>1, AfterCloseFrees DEF DInv, DTypeOK, Running
<1> QED
  BY <1>1, <1>2, <1>3, <1>4, <1>5, <1>6, <1>7, SMTT(30) DEF Callbacks

\* Every step keeps the parts together.
LEMMA DNextKeepsInv == DInv /\ [DNext]_dvars => DInv'
<1> SUFFICES ASSUME DInv, [DNext]_dvars PROVE DInv'
  OBVIOUS
<1>1. CASE WorkerQuits
  BY <1>1, SMTT(30) DEF WorkerQuits, DInv, DTypeOK, Running, Peers, Building
<1>2. CASE UNCHANGED dvars
  BY <1>2 DEF dvars, DInv, DTypeOK, Running, Peers, Building
<1> QED
  BY <1>1, <1>2, StartupKeepsInv, CallbacksKeepInv, SMTT(30) DEF DNext

\* The daemon's parts are there together or not at all.
THEOREM DInvCorrect == DSpec => []DInv
BY DInitInv, DNextKeepsInv, PTL DEF DSpec

\* hsk_daemon_uninit's order, and the closing of every handle, keep callbacks
\* away from freed parts, for any number of peers and questions.
THEOREM NoFreedPartUsedCorrect == DSpec => []NoFreedPartUsed
<1>1. DInv => NoFreedPartUsed
  BY DEF DInv, NoFreedPartUsed
<1> QED
  BY <1>1, DInvCorrect, PTL

\* The worker's object outlives its thread, however often a signal arrives.
THEOREM ThreadEndsFirstCorrect == DSpec => ThreadEndsFirst
<1>1. DInv /\ [DNext]_dvars =>
          [(worker \in {"open", "closing"}) =>
              worker' \in {"open", "closing", "quit"}]_dvars
  <2> SUFFICES ASSUME DInv, DNext, worker \in {"open", "closing"}
               PROVE  worker' \in {"open", "closing", "quit"}
    OBVIOUS
  <2>1. DaemonClose => worker' \in {"open", "closing", "quit"}
    BY ZenonT(40) DEF DaemonClose
  <2>2. CASE Startup
    BY <2>1, <2>2 DEF Startup, InitNext, InitFails, PoolOpen, NsOpen, NsOpenFails,
                      RsOpen, RsOpenFails, MainClose, LoopEnds, DInv
  <2>3. CASE Callbacks
    BY <2>1, <2>3, Zenon DEF Callbacks, OnSignal, OnClosed, OnTimer, OnQuestion, OnProof,
                      OnPeerError, OnQuitAsync
  <2> QED
    BY <2>2, <2>3 DEF DNext, WorkerQuits
<1> QED
  BY <1>1, DInvCorrect, PTL DEF DSpec, ThreadEndsFirst

=============================================================================
