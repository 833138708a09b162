------------------------------ MODULE AddrMan ------------------------------
(***************************************************************************)
(* src/src/addrmgr.c and its callers in pool.c: the fixed array of known   *)
(* addresses, the map that indexes it, the bans, and the dialling, acking, *)
(* banning and gossip that change them.  Times are unsigned and wrap at    *)
(* Word, as entry->time does.  The service bit is left out: the callers    *)
(* only add addresses that have it.                                        *)
(***************************************************************************)
EXTENDS TimeData, Functions

CONSTANTS
    Addr,         \* addresses
    BadKey,       \* those with a key that hsk_ec_verify_pubkey refuses
    Unusable,     \* those that are not valid, or onion addresses
    OtherPort,    \* those on a port other than HSK_BRONTIDE_PORT
    AddrMax,      \* HSK_ADDR_MAX (2000)
    MaxRefs,      \* HSK_MAX_REFS (8)
    Retries,      \* HSK_RETRIES (3)
    MaxFailures,  \* HSK_MAX_FAILURES (10)
    Minute, TenMinutes, TwentyMinutes, Hour, Day, Penalty, FiveDays,
    Earliest,     \* 100000000, up to which a time is not credible
    MinFail,      \* HSK_MIN_FAIL_DAYS (7 days)
    Horizon,      \* HSK_HORIZON_DAYS (30 days)
    BanTime,      \* HSK_BAN_TIME (24 hours)
    Word,         \* 2^64
    MaxAttempts,  \* bound on entry->attempts
    MaxClock      \* bound on the clock

ASSUME AddrAssumption ==
    /\ Addr \subseteq Source
    /\ BadKey \subseteq Addr /\ Unusable \subseteq Addr /\ OtherPort \subseteq Addr
    /\ {AddrMax, MaxRefs, Word} \subseteq Nat \ {0} /\ MaxAttempts \in Nat
    /\ {TenMinutes, Hour, Day, Penalty, FiveDays, MinFail, Horizon} \subseteq Nat
    /\ TenMinutes <= Penalty /\ Hour <= Day /\ Day <= Horizon
    /\ Day + Penalty <= Earliest /\ Earliest \in Nat
    /\ MaxClock \in Nat /\ MaxClock + MaxOffset + TenMinutes + Horizon < Word

VARIABLES
    clock,    \* hsk_now()
    addrs,    \* am->addrs, the entries in use
    map,      \* am->map: index of the entry of an address
    banned,   \* am->banned: time of the ban of an address
    peers     \* pool->peers: addresses that are dialled or connected

amvars == <<clock, addrs, map, banned, peers>>

Now == clock + offset                  \* hsk_timedata_now
Minus(a, b) == (a - b) % Word

Entry(a, time) ==
    [addr |-> a, time |-> time, attempts |-> 0, last_success |-> 0,
     last_attempt |-> 0, ref_count |-> 1, used |-> FALSE, removed |-> FALSE]

\* Mutation: an address that once worked is given up like one that never did.
IsStaleUntried(e) ==
    /\ ~(e.last_attempt # 0 /\ e.last_attempt >= Now - Minute)
    /\ \/ e.time > Now + TenMinutes
       \/ e.time = 0
       \/ Minus(Now, e.time) > Horizon
       \/ e.attempts >= Retries

\* hsk_addrman_is_stale.
IsStale(e) ==
    /\ ~(e.last_attempt # 0 /\ e.last_attempt >= Now - Minute)
    /\ \/ e.time > Now + TenMinutes
       \/ e.time = 0
       \/ Minus(Now, e.time) > Horizon
       \/ e.last_success = 0 /\ e.attempts >= Retries
       \/ Now - e.last_success > MinFail /\ e.attempts >= MaxFailures

\* Mutation: the evicted address stays in the map.
EvictKeyKept(i) == map

\* The map without the address of the entry that hsk_addrman_alloc_entry gives
\* to another address.
Evict(i) == Restrict(map, DOMAIN map \ {addrs[i].addr})

Place(i, a, time, index) ==
    /\ addrs' = [j \in 1..(IF i > Len(addrs) THEN i ELSE Len(addrs)) |->
                    IF j = i THEN Entry(a, time) ELSE addrs[j]]
    /\ map' = [b \in DOMAIN index \cup {a} |-> IF b = a THEN i ELSE index[b]]

\* A new address: the next free entry or, when the array is full, a stale one
\* of those drawn at random, or none.
AddNew(a, time) ==
    IF Len(addrs) < AddrMax
    THEN Place(Len(addrs) + 1, a, time, map)
    ELSE \/ \E i \in DOMAIN addrs : IsStale(addrs[i]) /\ Place(i, a, time, Evict(i))
         \/ /\ \E i \in DOMAIN addrs : ~IsStale(addrs[i])
            /\ UNCHANGED <<addrs, map>>

\* A known address: its time moves when the news is recent enough, and with
\* a probability that halves each time it gains a reference.
Seen(e, time, src, counted) ==
    LET interval == IF Minus(Now, time) < Day THEN Hour ELSE Day
        penalty  == IF src THEN Penalty ELSE 0
        newer    == IF e.time < Minus(Minus(time, interval), penalty)
                    THEN time ELSE e.time
        known_   == newer # 0 /\ time <= newer
    IN  [e EXCEPT !.time = newer,
                  !.ref_count = IF known_ \/ e.used \/ @ = MaxRefs \/ ~counted
                                THEN @ ELSE @ + 1]

\* hsk_addrman_add_entry.
AddEntry(a, time, src) ==
    IF a \in DOMAIN map
    THEN /\ \E counted \in BOOLEAN :
              addrs' = [addrs EXCEPT ![map[a]] = Seen(@, time, src, counted)]
         /\ UNCHANGED map
    ELSE AddNew(a, time)

\* A field of an address's entry, if it has one.
Update(a, F(_)) ==
    addrs' = IF a \in DOMAIN map THEN [addrs EXCEPT ![map[a]] = F(@)] ELSE addrs

-----------------------------------------------------------------------------
(* The callers.                                                            *)

\* hsk_addrman_add_addr, for a seed of hsk_pool_set_seeds.
AddSeed(a) ==
    /\ AddEntry(a, Now, FALSE)
    /\ UNCHANGED <<clock, banned, peers, tdvars>>

\* hsk_peer_handle_addr, for one address: an incredible time is replaced.
HandleAddr(a, time) ==
    /\ a \notin BadKey
    /\ LET t == IF time <= Earliest \/ time > Now + TenMinutes
                THEN Now - FiveDays ELSE time
       IN  AddEntry(a, t, TRUE)
    /\ UNCHANGED <<clock, banned, peers, tdvars>>

IsBanned(a) == a \in DOMAIN banned /\ clock <= banned[a] + BanTime

\* hsk_addrman_mark_attempt.
Attempted(e) == [e EXCEPT !.attempts = @ + 1, !.last_attempt = Now]

\* The tests of hsk_addrman_pick on draw number i.
Pickable(e, i) ==
    /\ ~e.removed /\ e.addr \notin peers \cup Unusable
    /\ i < 30 => Now - e.last_attempt >= TenMinutes
    /\ i < 50 => e.addr \notin OtherPort
    /\ i < 95 => ~IsBanned(e.addr)

\* hsk_pool_refill: an address is drawn; one with a bad key is taken out, any
\* other is dialled.  The draws delete bans that have run out.
Refill(e, i) ==
    /\ Pickable(e, i)
    /\ IF e.addr \in BadKey
       THEN Update(e.addr, LAMBDA x : [x EXCEPT !.removed = TRUE]) /\ UNCHANGED peers
       ELSE /\ e.attempts < MaxAttempts
            /\ Update(e.addr, Attempted)
            /\ peers' = peers \cup {e.addr}
    /\ \E kept \in SUBSET DOMAIN banned :
          /\ \A a \in DOMAIN banned \ kept : ~IsBanned(a)
          /\ banned' = Restrict(banned, kept)
    /\ UNCHANGED <<clock, map, tdvars>>

\* after_brontide_connect: hsk_addrman_mark_success.
MarkSuccess(a) ==
    /\ a \in peers
    /\ Update(a, LAMBDA e :
          [e EXCEPT !.time = IF Minus(Now, @) > TwentyMinutes THEN Now ELSE @])
    /\ UNCHANGED <<clock, map, banned, peers, tdvars>>

\* hsk_peer_handle_version: the clock first, and then hsk_addrman_mark_ack with
\* the clock as it then is.
HandleVersion(a, sample) ==
    /\ a \in peers
    /\ TdAdd(a, sample)
    /\ LET now == clock + offset'
       IN  Update(a, LAMBDA e :
              [e EXCEPT !.last_success = now, !.last_attempt = now,
                        !.attempts = 0, !.used = TRUE])
    /\ UNCHANGED <<clock, map, banned, peers>>

\* hsk_peer_handle_headers bans the sender of a bad header and destroys it.
Ban(a) ==
    /\ a \in peers
    /\ banned' = [b \in DOMAIN banned \cup {a} |-> IF b = a THEN clock ELSE banned[b]]
    /\ peers' = peers \ {a}
    /\ UNCHANGED <<clock, addrs, map, tdvars>>

RemovePeer(a) ==
    /\ a \in peers
    /\ peers' = peers \ {a}
    /\ UNCHANGED <<clock, addrs, map, banned, tdvars>>

AmTick ==
    /\ clock < MaxClock
    /\ clock' = clock + 1
    /\ UNCHANGED <<addrs, map, banned, peers, tdvars>>

AmInit ==
    /\ clock \in 0..MaxClock
    /\ addrs = <<>> /\ map = <<>> /\ banned = <<>> /\ peers = {}

\* The inputs: the times in addr messages, the draw that finds an address, the
\* samples in version messages, and the senders of bad headers.
AmNext(times, draws, sample, bad) ==
    \/ \E a \in Addr : AddSeed(a) \/ MarkSuccess(a) \/ RemovePeer(a)
    \/ \E a \in bad : Ban(a)
    \/ \E a \in Addr, t \in times : HandleAddr(a, t)
    \/ \E k \in DOMAIN addrs, i \in draws : Refill(addrs[k], i)
    \/ \E a \in Addr, x \in sample : HandleVersion(a, x)
    \/ AmTick

AmSpec ==
    /\ AmInit /\ TdInit
    /\ [][AmNext(Nat, Nat, Int, Addr)]_<<amvars, tdvars>>

-----------------------------------------------------------------------------
(* Properties.                                                             *)

\* The ranges hsk_addrman_add_entry asserts of the references, and the bound on
\* the array.
AmTypeOK ==
    /\ Len(addrs) <= AddrMax
    /\ \A i \in DOMAIN addrs :
          /\ addrs[i].addr \in Addr
          /\ addrs[i].ref_count \in 1..MaxRefs
          /\ addrs[i].attempts \in 0..MaxAttempts
    /\ DOMAIN banned \subseteq Addr /\ peers \subseteq Addr

\* The map leads from every address in the array to its own entry and has no
\* other key.  Its keys point into the entries, which eviction overwrites, so
\* a key left behind would read as another address.
IndexExact ==
    /\ DOMAIN map = {addrs[i].addr : i \in DOMAIN addrs}
    /\ \A i \in DOMAIN addrs : map[addrs[i].addr] = i

\* However many addresses peers send, and whatever has failed since, they do not
\* displace an address that answered a handshake within MinFail and whose time
\* lies within Horizon and not ahead of the clock (ahead of it, however little,
\* the unsigned difference in hsk_addrman_is_stale wraps and counts as too old).
\* Nor do rumours of that address, which may be ahead by ten minutes, move a time
\* of the last Day ahead of the clock, or back, with the two unsigned differences
\* in hsk_addrman_add_entry: only a clock that is set back does.
ProvenKept ==
    [][ \A i \in DOMAIN addrs :
          LET e == addrs[i]
          IN  e.last_success # 0 /\ Now - e.last_success <= MinFail =>
                /\ e.time \in (Now - Horizon)..Now => addrs'[i].addr = e.addr
                /\ e.time \in (Now - Day)..Now /\ Now <= Now'
                     => addrs'[i].time \in e.time..Now'
      ]_<<amvars, tdvars>>
=============================================================================
