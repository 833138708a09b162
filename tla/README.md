# Verification of hnsd

TLA+ models of hnsd, the Handshake SPV resolver, with the TLC configurations that
check them on small instances and TLAPS proofs of their main properties. Source
paths below are relative to the repository's own code, `src/src/`, except that of
libuv, which lies beside it in `src/uv/`.

## The system

hnsd keeps no data on disk. It is one libuv event loop and one libunbound worker
thread. The parts, from the network up:

| Part | Source | State | Operations |
|---|---|---|---|
| Header chain | `chain.c`, `header.c` | headers by hash and by height, tip, orphans, sync flag | `hsk_chain_add`, `hsk_chain_safe_root`, `hsk_chain_get_locator` |
| Network time | `timedata.c` | clock offset samples | `hsk_timedata_add`, `hsk_timedata_now` |
| Address manager | `addrmgr.c` | addresses, attempts, bans | add, pick, mark, ban |
| Peer pool | `pool.c`, `msg.c` | peers and their states, name requests, timers | connect, close, message handlers, `hsk_pool_resolve`, timer |
| Transport | `brontide.c` | handshake act, cipher states | three acts, encrypted reads and writes, key rotation |
| Proofs | `proof-radix.c` | none | `hsk_proof_verify` |
| Root name server | `ns.c`, `cache.c`, `resource.c`, `req.c` | answer cache, sockets | query, answer, cached answer |
| Recursive server | `rs.c`, `rs_worker.c` | pending and answered queries, worker thread | resolve, callback, open, close |
| Daemon | `daemon.c`, `signals.c` | life cycle of the above | open, ordered shutdown |

A stub resolver asks the recursive server; libunbound, on its thread, asks the root
name server over UDP; that asks the pool for a name proof under the chain's safe
root; the pool asks a peer, and feeds the chain with the headers its peers send.

What makes it hard: headers arrive in any order and from peers that disagree;
requests outlive the peer they were sent to; the resolver's callbacks cross two
threads and a shutdown; the shutdown itself waits for answers that only the still
running parts can give. `PROJECT.json` lists each such hazard at the line where it
bites, with the properties that watch it.

What the system should guarantee, part by part: the chain is one connected path with
the most work, and a node reaches the work of its honest peers; the name root in use
survives shallow reorganizations; every DNS request that is accepted is answered
exactly once, from a state no older than the request; a shutdown completes and loses
no answer.

## Modules

| Module | Models | Variables | Actions |
|---|---|---|---|
| `HeaderPow` | compact targets, work of a header (`header.c`) | none | none: functions |
| `Bignum` | the arithmetic on words that the work of headers is computed with (`bn.c`) | none | none: functions |
| `ChainRules` | median time past, suitable block, retargeting (`chain.c`) | none | none: functions |
| `Locator` | heights of a getheaders locator (`chain.c`) | the height of the tip | none: functions |
| `Chain` | `hsk_chain_add` and what it calls | the maps `hashes`, `heights`, `orphans`, `prevs`; `tip`, `height`, `synced`; the height and work fields of headers | `Add`, `ResolveOrphan`, `EndResolve`, `Tick` |
| `Reorganize` | the loops of `hsk_chain_find_fork` and `hsk_chain_reorganize` | those of `Chain` | none: functions |
| `HeaderSync` | `Chain` composed with the header traffic of `pool.c` | connections, locators and batches under way, the handler's position; each peer's chain (`best`) and how much of it there is yet (`reach`) | `Handshake`, `Receive`, `AddHeader`, `Judge`, `Timer`; the peers' `PeerAnswer`, `PeerAnnounce` |
| `ResolveService` | the promise of `rs_worker.h` | status of each request, phase | `Accept`, `Refuse`, `Answer`, `Close`, `Stop` |
| `RsWorker` | `rs_worker.c` and its use in `rs.c` | both threads' positions, pending list, response queue, async handles | one per critical section, callback and libunbound call |
| `UvAsync` | how a thread wakes the event loop (libuv's `unix/async.c`) | each handle's flag, the shared descriptor, the loop's lists, each sender's position | `SendBegin` to `SendWrite`, `IoBegin` to `IoEnd`, `HandleInit`, `HandleClose` |
| `RsWorkerInit` | the constructor of the worker and its failure path | its pointers, what was released | `Alloc`, `Fail` |
| `Pool` | peers and name requests of `pool.c`, results in `ns.c` | peer list and states, requests per name and peer, pending list | dialling, `Request` and its variants, `HandleProof`, `Timer`, closing |
| `PeerTimer` | `hsk_pool_timer` and the handlers that move its time stamps, for one peer (`pool.c`) | age of each time stamp and of each thing the peer owes, `challenge` | one per message handler, `Tick`, `TimerRuns` |
| `PeerStream` | `hsk_peer_on_read`, `hsk_peer_parse` (`pool.c`) | messages sent and bytes to be read, message buffer, command, rest of the chunk, messages handled | `PsRead`, `ParseHdr`, `ParseBody`, `PsKeep`; the peer's `PsSend` |
| `Brontide` | both ends of an encrypted connection (`brontide.c`) | handshake state, chaining key, both ciphers, frame buffer, tokens on the wire | `OnConnect`, the three acts, `Write`, `OnRead`, `Keep`, `Header`, `Payload`, `BadTag`, closing |
| `Channel` | the promise of `brontide.c` to `pool.c` | messages written and given, ends | `Send`, `Deliver`, `End` |
| `TimeData` | `timedata.c` | samples, known addresses, offset | `TdAdd` |
| `AddrMan` | `addrmgr.c` and its callers in `pool.c`, on the clock of `TimeData` | entries, index, bans, dialled addresses | `AddSeed`, `HandleAddr`, `Refill`, `MarkSuccess`, `HandleVersion`, `Ban`, `RemovePeer` |
| `HashMap` | `map.c` | the table; the map it stands for | `MapSet`, `MapDel`, `MapClear` |
| `Seeds` | `hsk_pool_set_seeds` (`pool.c`) | the list of seeds | `MoreSeeds`: every list |
| `RadixProof` | `hsk_proof_verify` (`proof-radix.c`) | none | none: functions |
| `ProofWalk` | name trees, and proofs put together from them | the tree, the key, the nodes of a way down | `ChooseTree`, `GoDown` |
| `DnsWire` | names, messages and truncation (`dns.c`) | none | none: functions |
| `Resource` | which records answer a question (`resource.c`, `dnssec.c`, `req.c`) | none | none: functions |
| `NameServer` | `ns.c` and `cache.c` | cache, requests at the pool, socket, last reply; the zone and its history | one per path of `hsk_ns_onrecv` and `after_resolve`, `Close` |
| `Daemon` | `daemon.c`, `signals.c` and the life cycles of `pool.c`, `ns.c`, `rs.c` | position of `main`, live objects, state of each handle, worker, where each question is | start-up steps and failures, one per callback of the loop |
| `ChainProofs`, `RsWorkerProofs`, `PoolProofs`, `HashMapProofs`, `PeerProofs`, `BrontideProofs`, `ServerProofs`, `RulesProofs` | theorems | | |

The `MC` modules give the constants their values.

### How the state corresponds

`Chain`. A header is an element of `Block`; its fields are the constant function
`Header`. Median time (`MTP`) and required bits (`Target`) depend only on a header's
ancestors, so they are constant functions too; `MCChain` computes them with
`ChainRules`, and the proofs leave them arbitrary. `hsk_chain_add` is a sequence of
steps: `Add` for the header itself, then one `ResolveOrphan` per turn of its loop,
with `cursor` as the loop variable; nothing else of the chain runs while the cursor
is set, as the code is single-threaded. A reorganization is the branch that leaves
the main chain at its fork point; module `Reorganize` has the walks that
`hsk_chain_find_fork` and `hsk_chain_reorganize` perform, and `ReorganizeAsCoded`
compares the two. `Tick` is the clock: time passes, or a sample changes the offset,
which may set the clock back.

`HeaderSync`. A message is a sequence of headers. `Receive` is the first loop of
`hsk_peer_handle_headers`, `AddHeader` the call of `hsk_chain_add`, `Judge` what is
done with its result. A dropped peer can be dialled again at any time, and so can a
banned one, because `hsk_addrman_pick` ignores bans in its last draws and bans end
after a day. A peer follows the path to a header of its own (`best`, chosen from
`Following` at the start) and has the first `reach` headers of it; `PeerAnnounce`
makes its chain grow by one. A peer is honest as long as the headers it has are
valid.

`RsWorker`. A critical section under a mutex is one step, and everything between two
of them is another. libunbound is external: it answers accepted requests in any
order from inside `ub_wait`. `uv_async_send` sets a flag that the loop clears before
it runs the handler, so sends coalesce.

`UvAsync` shows that libuv really gives such a flag. The compare-and-exchange of
each side is one step, and so are the read of the flag before it and the write to
the descriptor. `due` is history: the handles sent to since their callback began.
Memory is taken to be sequentially consistent. On its own that would be too much for
the cheap read of `uv_async_send`, which may overtake an earlier store; hnsd unlocks
a mutex between its store and the send, and the callback locks it. A handle is
closed only when no thread sends to it, as in hnsd, which joins the thread first.

`Bignum`. A memory maps variables to words, so that an operation can be called with
one variable as operand and result, which is how `header.c` and `chain.c` call all
of them. `HeaderPow` and `ChainRules` compute with integers, as `BnExact` allows.

`Pool`. A proof message carries a name, a root and whether it verifies. Roots are
numbered in order of commitment. `late` holds the names whose request is more than
five seconds old. `failed` is a history variable: the requests whose `getproof`
could not be sent. A closing peer is out of the list and ignores events, so it
counts as closed at once.

`PeerTimer`. A time stamp is its age in periods of the timer, `Unset` for zero, and
stops growing once no test tells it from an older one. The debts (`verack`, `pong`,
`getheaders`, `proof`) are history: they say since when the peer has owed an answer,
independently of the stamps the code keeps. `HandleHeaders` takes the kind of batch,
whose effect on the chain is `HeaderSync`'s subject.

`PeerStream` and `Brontide`. The byte streams are sequences of tokens: a header or
an act is two, so that it can be split, and a tag is one. Sealing is symbolic: a
frame opens under exactly the key, epoch and nonce it was sealed with, and a
chaining key is the sequence of secrets mixed into it, each named by the two keys it
comes from. A side that is dialled need not follow the protocol: it may answer act
one with an act two made from any secrets it can have (`FalseActTwo`), or send
frames that do not open (`Garble`). Failed writes leave the pieces of a message that
were sent before (`Write(s, k)`).

`TimeData`. Samples are integers without bound. The code's are differences of
`int64_t` values of which peers send one; a difference or a negation that overflows
(`timedata.c:72`, `timedata.c:124`) is outside the model.

`AddrMan`. The ten draws of `hsk_addrman_alloc_entry` and the hundred of
`hsk_addrman_pick` are one nondeterministic draw, with the number of the draw where
the code tests it. Times are integers; the unsigned subtractions of the code are `%
Word`.

`HashMap`. Buckets, flags and counters as in the code, including the rehash inside
the same arrays, whose two nested loops are one sequence of iterations (`Moved`).
The hash of a key is a constant. `truth` is the promise: a key's last value until it
is deleted.

`NameServer`. A question is a record of what the code looks at (labels, top-level
label, pointer or service prefix, type, capitals, unusual characters, DNSSEC, and
for how many records the client's size has room). A section of a message is a
sequence of records in the order they were pushed, with each signature behind the
records it was made over, so that `Truncate` can cut between them. One kind of glue,
`NEST4`, has a name that `hsk_dns_name_parse` refuses. The pool is external here and
promises what `Pool` shows: a value that the zone had since the request, or a
failure. `zone` and `since` say which answers are true.

`RadixProof`. A hash is the term that was hashed. The tree of the full nodes is the
reference from which roots and correct proofs come. In `ProofWalk` a behaviour goes
down some tree and collects the nodes of a proof, right or wrong. `DnsWire` has a
cell per byte of a name, and one for the fixed fields of a record; its parser counts
pointers as the code does.

`Daemon`. An object is live or freed and a handle none, active or closing; `stale`
collects the freed objects that a callback has used. `Uninit` and `AfterClose` are
the whole chain of calls from `hsk_daemon_after_close`.

## Runs

| Run | Shows |
|---|---|
| `rules` | The algorithms against their reference definitions: the suitable block is the median of three by time, targets are valid and within the limit, a steady chain keeps its bits, a slower chain never gets a harder target, compact encoding round-trips, the arithmetic on words is exact also in place, a locator fits its array; an accepted name proof tells the truth and a full node's proof is accepted; a DNS message is read as it was written and truncated to a prefix of its records, or refused exactly where a name chains more pointers than the parser follows; a list of seeds is taken whole unless one is refused. |
| `chain` | The chain's invariants with headers of a forked tree in any order. |
| `header_sync` | Two peers whose chains grow: the node ends with the work of every honest peer, unless that peer's answer starts with a header the node holds; while all peers are honest none is dropped. In half of the behaviours one peer's chain is invalid from its second header on, and the peer keeps reconnecting. |
| `rs_worker` | One owner per response, the code's assertions, answers only while the socket is open, and refinement of `ResolveService` with its liveness. No send to an async handle is lost, and no closed handle is called. |
| `transport` | The encrypted transport implements `Channel`: messages arrive in order, whole, once, not after the end, and all of them if nobody ends; the frame buffer has room; no key and nonce is used twice, the dialled key is authenticated; messages are cut out of any chunks in order and at once; no stalling peer is forgiven, no prompt one dropped, headers are asked for again. |
| `addrman` | A minority of peers cannot move the clock beyond the honest samples; index and table agree; a proven address is not given up for a rumour, nor its time moved ahead of the clock by one; the hash map holds exactly what was set. |
| `name_server` | The cache is bounded and serves only answers that were true within the last six hours and a request; a reply to a client that wants signatures is signed, and cutting it to the client's size leaves no signature without its records. |
| `pool_daemon` | The pool at work: each request completed once, no stale answers, and completion of requests held by unencrypted peers. The daemon from start to end: no callback uses a freed part, the worker is not freed under its thread, nothing is left open at exit, and a shutdown completes. |
| `rs_worker_init`, `pool_pending`, `header_sync_stuck`, `seeds_lost` | Statements of the repository that the code does not meet; see Findings. |

Some of these are conjunctions: `RetargetSound`, `NumbersExact`, `ProofExact`,
`MessagesExact` and `CacheSound` join what is said about one piece of code. A
module's type invariant is proved where there is a proof module, and else is a
conjunct of the module's first invariant (`SealsFresh`, `HandledInOrder`,
`HonestMajority`, `MapExact`, `CacheSound`, `NoFreedPartUsed`).

### Bounds, and why they are enough

- `rules`: word arithmetic is scaled down to base 4 with 8 digits, with every target
  of that size, and windows of 3 headers with gaps that include times running
  backwards. Big numbers have three words of two bits, and all pairs but that of two
  zeros: a carry can cross every word, and the division stops at the top bit and
  before it. Locators cover every height up to 2000 and then heights that about
  double, up to a billion.
- `chain`: the tree has a reorganization that disconnects three headers, to a branch
  that is heavier and shorter, orphans that share a parent, and headers that break
  each rule. The orphan limit is 2, so it is exceeded. `MaxTime` allows two values
  of the clock, on both sides of the time a header becomes acceptable.
- `header_sync`: full messages hold two headers, so a branch takes several; answers
  and announcements cross, one message per peer being under way (`MaxInbox`). The
  tree has two branches that tie until the second is one header longer, and one that
  breaks a rule with each header. Each chain is of any length at first and grows.
  Both causes of `header_sync_stuck` occur in it. Time stands still: the future
  header stays one.
- `rs_worker`: three requests for libunbound are one pending, one in hand and one
  queued at the same time; the fourth is of type ANY. Two threads send to two
  handles: two senders can race for one flag while the loop visits the other.
- `pool_daemon`, the pool: two requests for one name and two peers give coalescing,
  a second request after a proof, and a choice of prover. One change of root tells
  old from new. More names would add independent copies.
- `rules`, the rest: name trees of up to three keys of three bits, with every claim
  that can be put together from their hashes; messages of a few records with names
  of up to three labels and pointers that reach only part of the message; the parser
  follows one pointer per name (ten in the code), so that a message of three records
  can chain too many; up to five pieces in a list of seeds.
- `transport`: the key rotates every three frames, so one message straddles a
  rotation; a message of zero length and one that is too long occur. The stream's
  conversations are all those of three messages out of one of each kind, with empty
  and non-empty bodies: what fails has a message before and after it. The timer's
  limits keep the order of the code's.
- `addrman`: five samples are the least for a median and six peers add one after it;
  the table has room for fewer addresses than there are; four keys with two
  colliding hashes and two probe chains fill tables of four and eight buckets
  (`MaxBuckets` is never reached).
- `name_server`: the clients of a behaviour ask two questions, in any order and
  number, and the cache holds one message, so the second fills it. A name changes
  between two values while two requests wait, so a later answer can be the older
  one. Clients have room for all records or for fewer than a message has.
- `pool_daemon`, the daemon: two connections, three questions: one at each peer, one
  pending.

Several models share a run when they have nothing in common but the cost of a run:
the first state chooses which of them the behaviour is about.

`rs_worker`, `rules`, `transport`, `addrman`, `name_server` and `header_sync` turn
the deadlock test off: a stopped worker, a closed connection or socket and a
finished enumeration have no further step, nor has a node whose peers have answered
everything and whose timer repeats nothing, because no batch has gone through yet.
In `pool_daemon` the daemon may stutter, since it ends; the pool may not.

### Fairness

- `RsWorker`: both threads are scheduled; libuv serves every pending async handle,
  also when others keep arriving (strong); libunbound answers or times out each
  request it accepted (strong, since its callbacks interleave with others). Closing
  is not fair: the daemon need not be stopped.
- `HeaderSync`: the loop serves every socket and finishes its handler; a random draw
  picks every address again and again, so a closed peer is dialled if that is
  possible infinitely often (strong); the timer repeats getheaders. Connected peers
  answer. The properties suppose a first complete batch, which sets `block_time`;
  before that the timer sends nothing, so the code does not guarantee it.
- `Pool`: the clock runs, the timer fires, a connection attempt ends. Peers owe
  nothing.
- `Brontide`: the sockets deliver and handlers run to their end. Writing is not
  fair, nor is closing.
- `Daemon`: `main` goes on, libuv calls back every closing handle, and the worker's
  thread ends once it is told to, which `ResolveService` promises. Signals, peers
  and questions are not fair.

## Proofs

For every value of the constants that satisfies the named assumptions.

`ChainProofs` rests on `ChainInv`: type correctness, `MainChain`, `MostWork`,
`HeadersConnected`, `OrphanIndex`. None of the last four is inductive alone. A
reorganization keeps the heights index a path only if every stored header is
connected to the genesis header at its height (`HeadersConnected`), a resolved
orphan is a fit argument of `Insert` only if the orphan maps agree (`OrphanIndex`),
and the comparison with the tip gives the most work only if the tip had it. The
proof goes through `Insert`: one lemma per conjunct, then one step per action. On
top of it are proved the bound on orphans (with the finiteness of the set of
headers) and `SafeRootSurvives`, whose core is arithmetic about `%` for every tree
interval and safe depth. `ReorganizeAsCodedCorrect` follows the two walks of
`hsk_chain_find_fork` by induction on the sum of the heights they stand at: as long
as they have not met, both are above the place where the branch leaves the main
chain, so neither runs off the map and they meet there. The bound on orphans is
proved only: no run repeats it.

The same module has the header traffic on top of the chain. `HonestPeersKept` rests
on `HonestInv`: every header in a message, in the batch and among the orphans passes
all rules, every locator on its way holds the genesis header, the result of
`hsk_chain_add` is no error. It needs `ChainInv` (a locator is looked up in the
heights index, a resolved orphan has its parent) and that `PathTo` is a path from
the genesis header, by induction on the depth of a header. It assumes that headers
form a tree (`TreeAssumption`: no chain of hashes closes on itself). The property
speaks of the steps in which all peers are honest; since a chain only grows, they
have been honest until then, so `HonestInv` need hold only under that condition,
beside `Reaches` (each peer has the genesis header and no more than its path).

`RsWorkerProofs` rests on `Inv`: `TypeOK`, `OneOwner`, `Handover` (where a request
is, for each position of the two threads) and `Shutdown` (what each stage of the
close implies about the other thread). `OneOwner` needs `Handover`, because a
request that libunbound has yet to answer must still be pending; `AssertionsHold`
and `AnsweredOnSocket` follow from `Shutdown`. `ImplementsService` shows that every
step of the worker is a step of `ResolveService` or leaves its state unchanged.
`NoLostWakeup` of `UvAsync` is proved in the same module, from `AsInv`: a set flag
has a writer, a readable descriptor or a visit to come; a handle that is due has its
flag set, a sender that has yet to look at the flag, or its call; and each open
handle is in one of the loop's two lists.

`PoolProofs` has the pool and the address manager. The first rests on `PoolInv`:
`TypeOK`, `OwnerOf` (a request is in exactly one place: new, pending, done, or in
the list of one name at one peer) and `ListOK` (such a list has no duplicates and
newer roots come first). `CompletedOnce` counts places, so it needs `OwnerOf`;
`NeverStale` needs the order of the list, because the proof is compared with its
head only.

The second rests on `AddrInv`: every entry is well formed, and index and table are
inverse to each other. An eviction keeps that only because the old address leaves
the index in the same step. `ProvenStayIn` adds that the clock is past its first
`Horizon` and a few days (`ClockInv`), so that no subtraction of these wraps: no
step gives an entry to another address unless `IsStale` holds of it, and of a proven
address whose time is not ahead of the clock it does not; and the differences in
`hsk_addrman_add_entry` wrap for no time of the last day. It needs the offset to be
a number that is not negative, which is part of the next result.

`MinorityMovesNoClock`, in the same module, rests on `TimeInv`: `HonestMajority`,
sorted samples, and no offset before there are enough of them. The order is what the
median needs, and it is kept because the binary search finds a place that splits the
samples (`PositionSplits`). That is an induction over the length of the interval
searched, once to show that the recursion defines a function at all (`SearchExists`)
and once for what it finds. The library's induction theorems cannot be instantiated;
instead the numbers for which the statement holds are made a set, and `FromZeroOn`
derives from the well-foundedness of `<` that it is all of them. If the median is
further off than `d`, so are all samples on its side of the array, which are more
than half (`MedianOff`). At an even number of samples the offset is that of the
sample before, and an insertion brings no sample nearer (`OffGrows`).

`PeerProofs` has both modules about one peer. For the timer it rests on `TimerInv`:
a stamp of the code is never younger than the debt it watches (`StampsAgree`), which
makes the tests of the timer end every debt in time (`DebtsYoung`), and the pool's
two stamps (`AskedInTime`). For the stream it rests on `StreamInv`. The parser sees
chunks and `HandledInOrder` speaks of messages, so the invariant lays the whole
stream out (`Layout`: message `i` begins behind position `at[i]`) and says that the
kept part, the rest of the chunk and what has not been read are what is left of it,
from the end of message `m` or behind the header of the next (`Left`), where the
first `m` messages are done with and those due among them are the ones handled. Once
a handler has failed nothing is said of the position, because nothing is read from
then on.

`BrontideProofs` rests on `BInv`. The ciphers a side seals with form one line
without repetition (`Line`, `Sealing`): the first is the one the handshake ends
with, and each of the others is `Advance` of the one before it. The place of a
cipher in the line tells whether it seals a header or a payload, and of which
message. Whatever is in the buffer, in the chunk or on the wire is a token of an act
or of a frame that opens nothing, or carries what its place in the sender's line
says (`Arriving`); and the cipher a side reads with is in the other's line, at the
place that follows from what it has been given (`Reading`). So a frame that opens is
the one expected, however the bytes were chunked and wherever a write failed, which
gives `ChannelSafe`, the safety half of `ChannelSpec`. `SealsFresh` is that a line
has no repetitions and the lines of the two sides differ in the key. `Authenticated`
comes from `Handshake`: an act two that opens can only come from a side that mixed
both the secret of the dialled key and that of the first message, which none of the
false ones does.

`ServerProofs` has the name server and the daemon. The first rests on `NsInv`: every
cached message can be traced to a question of its key that the server answered by
itself, or that the pool proved with a value not older than the item's age and
`PoolTime` (`Sourced`). `CacheTrue` is not inductive, because it does not say from
which value a message came. The heart of the proof is `SameKey`: `hsk_cache_key_set`
gives two questions one key only if their answers agree, up to the glue that
capitals cost. It assumes that the synthetic zone is not blacklisted.
`RepliesProvable` follows from the same trace: every message that is made holds a
signed answer, delegation or denial (`ResultProvable`, `LocalProvable`) and has
every signature behind the records it covers, so that the first records of a
section, whatever their number, hold these if they hold the signature; the cache
keeps a message as it was made, and `Finalize` takes signatures out only for a
client that did not ask for them.

The second rests on `DInv`: outside of `hsk_daemon_init` all parts exist or none,
and if none, no handle is active. It assumes that connections are distinct from the
other handles. `ThreadEndsFirst` needs in addition that the worker does not exist
before `hsk_rs_open`.

`HashMapProofs` proves `MapExact` for every set of keys, every hash function and
every sequence of calls. The invariant is `MapInv`: the arrays have a number of
buckets of which the probing meets all, and one of them is empty (`IsTable`); the
counters count (`Counted`); and the table holds `truth` (`Holds`): no key is in two
live buckets, and a search for the key of a live bucket comes to no empty bucket
before it (`Reaches`). `MapExact` alone is not inductive, since deleting one key
could cut another's way if the bucket were marked empty. Four arguments carry the
proof:
- The probing adds triangular numbers, and modulo a power of two the first `n` of
  them are all different (`ProbesDouble`, `ProbingMeetsAll`). So a search meets an
  empty bucket before it comes back to its first one (`SearchEnds`).
- A lookup stops at the key exactly if the key is live (`LookupFinds`,
  `LookupMisses`).
- The rehash keeps `Rehashing` at every iteration: what is live in the old flags,
  live in the new flags and in hand is together the old contents, without
  repetition, and the new part is reached. Each iteration looks at one more bucket
  or places one more entry, so the twice `n` iterations end it (`Left`).
- A table that is resized has room: the limit of 0.77 `n` is below `n`, and the new
  size is at least the old one (`ResizeFits`).

`RulesProofs` has three of the algorithms. `VerifySound` takes any tree of keys of
any length and any proof that can be read: if `hsk_proof_verify` accepts it under
the tree's root, it says of the key what the tree says. The loop ends at the root
with depth zero, and by induction from the root down its hash at each level is the
hash of the tree's node on the key's way (`LevelsOnTheWay`), since hashes of
different nodes differ (`HashTells`); so the leaf is what the tree has there.
`VerifyComplete` is the converse for the proof a full node makes.
`ProofExactCorrect` carries both to the walks of run `rules`. `SeedsTakenCorrect` is
an induction over the list, for the exact set that is added up to the first text
that is refused (`SeedsBeforeRefused`). `LocatorAlwaysFits` says that the locator of
every height of 32 bits has at most 44 hashes, where the message has room for 64,
and walks strictly down to the genesis header; the loop is a recursive function,
whose existence and values come from induction on the height, and its length from
one lemma: if heights below `m` steps are walked in `k` iterations, heights below
`2m` steps are in `k + 1`. `LocatorFitsCorrect` says it of the tip, however it
moves.

Assumptions on constants used here: a key has a number of bits (`KeyAssumption`), a
text is not both an address and none (`SeedAssumption`), a getheaders message has
room for 44 hashes (`LocatorAssumption`), hashes are numbers (`MapAssumption`).

Only model-checked: all liveness, including that of `ResolveService` and `Channel`,
since neither fairness nor `ENABLED` is within the prover's reach; and of the
algorithms of `rules` the difficulty (`RetargetSound`), the arithmetic on words
(`NumbersExact`) and the DNS messages (`MessagesExact`). Their modules use recursive
operators, with which the prover loses its SMT backend, and products and powers of
unbounded numbers, which its solvers do not decide.

## Findings

- `rs_worker_init`: `rs_quit_async` is not cleared before the first allocation that
  may fail, and is released on that path.
- `pool_pending`: requests that find no peer are put on a list that nothing reads.
- `header_sync_stuck`: the node "syncs headers", and yet can stay below its honest
  peers' best chain for ever. Either of two causes is enough. A batch that starts
  with a stored header is dropped as a whole (`pool.c:1491`), so a branch whose
  first header was stored during a tie is not completed: the locator names the main
  chain only and brings the same batch again. And of two orphans on one parent the
  index keeps the later (`chain.c:625`); the earlier stays among the orphans, is not
  resolved with its parent and is refused as a duplicate from then on.
  `SyncsHeaders` shows
  that the instance has no third cause once a first batch is through.
- `seeds_lost`: a seed that is too long, does not parse or is already known leaves
  the start of the next one unchanged, so every later seed is lost (`pool.c:273`).

## Observations

Facts met while modelling. The models have them; the properties are stated so as to
hold beside them, or the instances leave them out where said so.

Chain and headers:
- `HSK_LAUNCH_DATE` is `0xffffffff` on every network, so `hsk_chain_maybe_sync`
  reports a synced chain at once and the other conditions, the checkpoint among
  them, are never tested (`chain.c:265`).
- A first batch that ends with a duplicate sets no `block_time`, and the timer then
  repeats no `getheaders` (`pool.c:802`).

Pool:
- A request coalesced after a change of root makes the correct proof of the earlier
  one a mismatch with the head of the list, and the peer is closed (`pool.c:1535`).
- A request whose `getproof` cannot be sent is completed twice (`CompletedOnce`
  excepts it), and one stored at an encrypted peer that never finishes its handshake
  is not timed out (`StoredCompleted` is about unencrypted ones).
- Empty batches and batches that start with a duplicate do not clear
  `getheaders_time`: before the chain is synced an honest peer with nothing new is
  dropped after 30 seconds. A repeated `version` restarts that wait.
- No ping goes out while one is open, so the test for a missing send can end a
  connection together with the open ping's.
- The loop of `hsk_peer_on_read` goes on with the chunk after a handler destroyed
  the peer without returning an error (kind `kill` in `PeerStream`).
- `hsk_brontide_write` before the end of the handshake drops the message and reports
  success.
- An entry whose time is ahead of the clock, however little, counts as stale, since
  the difference is unsigned (`addrmgr.c:497`); `ProvenKept` is about times that are
  not, and shows that rumours do not bring them ahead.
- The clock's offset is the absolute value of the median (`timedata.c:123`).

Name server:
- A name written with capitals gets no glue of its own zone, and that answer is
  cached for the lower-case name too; `CacheTrue` takes either spelling's answer.
- The signature of a synthesized address is made over the additional section, which
  is empty; `RepliesProvable` excepts these answers.
- A truncated message does not have the TC bit, and may lack a signature whose
  records it has.
- The writer chains pointers without limit and the parser follows ten, so hnsd can
  write a message, from records with nested names, that it does not read itself. The
  cached answer is then not found (`Hit`), and a truncation that meets such a name
  ends in SERVFAIL.

Daemon:
- When `hsk_daemon_init` fails, the loop is not run again, so the handles that are
  being closed stay until the process ends.
- The comment of `hsk_rs_worker_close` speaks of attempts to cancel; the code waits
  for the answers.

## Not modelled

- Failing allocations outside the places where they change control (`RsWorkerInit`,
  `RequestFails`, `InitFails`). In `chain.c:708` and in `hsk_pool_open` a failed
  allocation leaves a half-made state that the code cannot go on from.
- Byte formats: P2P messages (`msg.c`), the record types of DNS (`dns.c`), the
  records of names, addresses, base32. They are sequences of fixed fields with no
  state to go wrong between steps, and a model of them would repeat the code.
- Cryptography (`sha*`, `blake2b`, `siphash`, `aead`, `secp256k1`): the models take
  what the functions promise.
- `tld.h` is a table of data; `NameServer` has which names are in it. `proof-trie.c`
  is not compiled.
- libuv but for its async handles, and libunbound, are libraries; their promises are
  the external actions. Of `bn.c`, what nothing calls (`hsk_bn_rshift`, `_mod`,
  `_pow`, `_and`, `_xor`, `_neg`, `_dec`, strings) and the conversion from and to
  bytes.
- Option parsing, logging and `print` functions.

## Plan

1. Proofs: the arithmetic of `Bignum` and the reading of a written DNS message, with
   their recursion written as functions.
2. The daemon composed with `RsWorker`, so that the end of the thread is derived and
   not assumed.
