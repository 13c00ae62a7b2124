# A verification of swr-cache

These TLA+ modules sit beside the Rust crate `swr-cache`. They model its
stale-while-revalidate cache and the stores under it, check the models with TLC
on small instances and prove the main properties with TLAPS for every size.
Paths such as `swr.rs` are relative to the crate's `src/`.

## The system

| Part | State it keeps | Operations | Talks to |
|---|---|---|---|
| `SwrCache` (`swr.rs`) | the marker map `revalidating`, the two windows | `swr`, `get`, `set`, `remove`; spawns revalidation and cache-write tasks | one `Store`; the user's `load_from_origin` |
| `Cache` (`cache.rs`) | a namespace | the same, with the namespace filled in | `SwrCache` over `TieredStore` |
| `TieredStore` (`tiered.rs`) | the list of tiers | `get`, `set`, `remove`; spawns backfill tasks | every tier, which is a `Store` |
| `HashMapStore` (`stores/memory.rs`) | a map behind one `RwLock` | `get`, `set` with eviction, `remove` | - |
| `MokaStore` (`stores/moka.rs`) | a moka cache | `get`, `set`, `remove` | moka |
| `RedisStore` (`stores/redis.rs`) | a connection | `get`, `set` with a TTL, `remove`; spawns a DEL | Redis |
| `MetricsStore` (`stores/metrics.rs`) | - | forwards and emits a metric | an inner `Store`, a sink |
| `Entry`, `StoredEntry` (`entry.rs`) | a value and two deadlines | predicates, conversions | - |
| `utils.rs`, `error.rs` | - | key join, clock, dice; error values | - |

Everything is shared by reference and used from many tokio tasks at once. What
is hard to get right follows from that:

- *Check then act.* The marker is looked up under one lock and set under
  another; `HashMapStore::get` and `set` let go of their lock half-way.
- *Background work.* Revalidations, cache writes and backfills outlive the call
  that spawned them and are ordered with nothing.
- *Waiting.* A call that finds its key marked sleeps 100 ms once, whatever the
  other load does.
- *Failure.* Stores fail, origins have no data, a client drops the future of a
  call at any await, a load panics inside its task.
- *Time.* An entry crosses its deadlines between being read and being judged.

`PROJECT.json` lists these hazards line by line with the properties that watch them.

What makes each part correct, in a sentence: `SwrCache` answers only with data
the origin has held, asks the origin when it says it does, and leaves no marker
behind; a `Store` may lose entries but never invents, revives or mixes them up;
`HashMapStore` also stays within its bound and evicts what was about to end;
`TieredStore` shows one and the same entry in all tiers once a write was left
undisturbed; `RedisStore` loses no entry before its last second, and none at all
where expiration is disabled; `MokaStore` removes what it is asked to remove and
lets caches of different types meet only where their composite keys are the same;
`MetricsStore` reports what happened.

## Modules

| Module | Models | How |
|---|---|---|
| `Entry` | `Entry` of `entry.rs` | a value is the version of the origin's data; deadlines are integers |
| `SwrCache` | `swr.rs` | one record per call or task: where it is between two awaits, and its locals |
| `SwrContract` | - | abstract: what a client may be told, with no cache in it |
| `LossyStore` | the `Store` trait | abstract: a map that may lose entries and may hold them at several places; every store is shown to be one |
| `StoredEntry` | `StoredEntry` of `entry.rs` | typed or serialized; JSON is the `Entry` and the type it was written from |
| `Namespaces` | `build_cache_key` of `utils.rs` | a string is the sequence of its colon-separated segments |
| `HashMapStore` | `memory.rs` | one action per region under the lock |
| `TieredStore` | `tiered.rs` | one action per request to a tier |
| `RedisStore` | `redis.rs` and the server | one action per command's arrival and per look at the clock |
| `MokaStore` | `moka.rs`, several `Cache`s on one store | one action per call into moka |
| `MetricsStore` | `metrics.rs` around a `MokaStore` | a call's metric is emitted when the inner call is done |
| `MC...` | - | constants and symmetry for TLC |
| `...Proofs` | - | theorems about the module they extend |

### SwrCache and the code

`proc[p]` is a call (`p \in Callers`) or a spawned task (`p \in Tasks`); its
`pc` names the await it stands at. `store` is the store below as `LossyStore`
describes it, a set of entries per key: `Visible` hides expired entries unless
`KeepsExpired` (Redis with `disable_expiration`), `StoreDrop` loses entries at any
time. With `Depth = 1` it is one map. With more it stands for tiers and writes
under way: a write or a remove may leave up to `Depth - 1` older entries behind
(`Residues`), a lookup may find any of them, or none. The runs have `Depth = 1`;
larger ones, and the options of a `set`, are covered by the theorems only.
`revalidating` is
the set of keys of the marker map; the mutexes stored under them are never
locked, so only the keys matter.

| Action | Code |
|---|---|
| `Swr`, `Lookup` | `swr` up to its `match`: `store.get`, errors and undecodable entries treated as misses |
| `FreshHit`, `StaleHit`, `ExpiredHit` | the clock is read after the store, so classification is a step of its own; a stale hit spawns a revalidation |
| `Dedup`, `Wake`, `Mark`, `OriginReads`, `CallerUnmark` | `deduplicated_load_from_origin`, await by await |
| `ReturnLoaded`, `ReturnFallback` | the ends of `swr`: stamp the value and spawn its write, or fall back on the expired value |
| `Check`, `Mark`, `OriginReads`, `Stamp`, `StoreSet`, `TaskUnmark` | `spawn_revalidation`; the early exits are disjuncts of `Check` and `TaskUnmark` |
| `Get`, `Put` + `StoreSet`, `Remove` | the other operations; a `get` answers with what the store shows (source `peek`) or with the store's or the decoder's `Err` (source `error`); a `set` stamps its entry when it is called and stores it later |
| `OriginUpdate`, `StoreDrop`, `Tick`, `Abandon` | the environment |

`since` (the origin's version when a call began), `source` (where its answer
came from) and `abandoned` (markers whose loader was dropped) are ghosts: no
guard reads them. A client's `set` writes a version it has seen.

The branch of `swr` for an entry that is expired but not to be revalidated
(swr.rs:284-303) is left out: `get_internal` never builds that result. The
`Err` of `deduplicated_load_from_origin` does not arise either: the function
always returns `Ok`.

### HashMapStore and the code

`Get` is the read-locked part of `get`; if it saw an expired entry the caller is
at `"cleanup"` until `Cleanup` takes the write lock. `Insert` and `Evict` are the
two write-locked parts of `set`; whether eviction runs is the dice of
`rand_simple` (`Frequency`). `Victims` is the set of possible choices of
`maybe_evict`: the sort is by deadline and the map's iteration order decides ties.
`skipped` is a ghost: the keys set since eviction last ran whose own set did not
evict, because of the dice or of a dropped future. So is `raced`: the gets that are
about to remove what a set has put in place of the expired entry they saw.

### TieredStore and the code

A get asks one tier per step (`TierMisses`, `TopTierHits`, `LowerTierHits`,
`TierFailsGet`). A hit below the top takes two steps, because the task that asked
waits for the tier's reply and may be resumed late: with `LowerTierHits` the call
holds the entry (`"found"`), and whole writes may pass; `Backfill` then spawns the
task that writes the tiers above one by one (`FillTier`), and answers. A `set` or `remove` (`Begin`) has a request to
every tier in flight; they arrive in any order (`WriteTier`, `TierFailsWrite`)
and `Finish` is `join_all` returning. A write that a tier answers an error to may
or may not have been applied. What a get found stays with its call until `Return`
(`Answered`), so that an answer is something a property can speak of. With no tiers
a get answers `None` without a step. `overlap` and `settled` are ghosts: the gravest
other party a call met on its keys (a set, a backfill, a get that has found an entry
and not spawned its backfill, a remove), and what the last write of a key left if it
met none of them and returned `Ok`.

### RedisStore and the code

A server applies commands one at a time; `redis[k]` is the JSON it holds and when
its TTL is up. `Get` is the GET; its reply waits at `"judge"` until `Judge` reads
the clock, answers, and may spawn a DEL (`dels`, `Del`), which may also fail.
`Set` is the part of `set` before its await, where the TTL is computed
(`calculate_ttl_seconds`), `SetArrives` the command on the server: the TTL starts
only there. `disable_expiration` belongs to a store, and a server may be shared by
stores with and without it, each with its namespaces, so it is a set of keys
(`Persistent`). `set` refuses typed entries; `Set` includes the conversion its
caller makes first (`ConvertForMode`), and an entry that cannot be converted is
not written. `Abandon` is a lost connection or a dropped future, before a command
arrives or, as far as the server goes, after it.

### MokaStore, MetricsStore and the code

The map is moka's, keyed by `build_cache_key`. `Get`, `Judge` and `Invalidate` are
the three steps of `get`; `Remove` and `RemoveNext` the loop of `remove`. A call
that is done stays at `"done"` until `Return`; that is where `MetricsStore` makes
up its metric (`Emit`). Each namespace is a cache with its own type (`TypeOf`). What
it brings to the store may be typed (written by its `SwrCache`) or serialized (put
there by a tiered store's backfill from Redis). Namespaces and names may hold
colons, as the code's `&str` may: `a:k` is `<<"a", "k">>`, and two caches may share a
composite key. `since` is a ghost: the keys of its batch set, by whichever cache,
since a remove began. `start` is the `Instant` a metric's latency counts from, kept
here to say between which two moments a read looked at its entry. A `MokaStore` never
returns an error, so the `Err` arm of `get` in `MetricsStore` (metrics.rs:202), which
reports a read without a hit, is not reached and not modelled.

## Runs

| Run | Instance | Shows |
|---|---|---|
| `SwrCalls` | 2 calls of `swr` or `get`, 2 tasks, 1 key, a store that keeps expired entries, every fault | types; no orphaned marker; own loads are recent; `None` only from the origin; the expired fallback is never lost; calls and tasks only advance |
| `ClientOps` | 2 calls, 2 tasks, all operations, so that two `swr` calls overlap and wait for each other and for tasks; a store that loses and keeps expired entries, an origin without data | refinement of `SwrContract` |
| `SwrLiveness` | 2 calls, 2 tasks, fairness | calls return, tasks end, markers go, stale hits reach the origin |
| `HashMapEviction` | 2 callers, 3 keys, room for 1, eviction on some sets, dropped futures | the bound, up to sets that have not evicted; eviction takes the nearest deadlines; a live entry goes only for a known reason; refinement of `LossyStore` |
| `TieredWrites` | 3 calls, 2 backfills, 2 tiers, 2 entries, every fault; writes between a lower tier's reply and its backfill | settled keys agree across tiers; only a backfill undoes a remove; refinement of `LossyStore` |
| `RedisStore` | 2 callers, a key with and one without a TTL, 3 entries in either form, half a second a step | answers decode; TTLs last; entries go only for a reason; refinement of `LossyStore` |
| `MeteredMoka` | 2 callers, 2 caches of different types, `a` and `a:k`, that share one composite key | types meet at the shared key only; removes remove; metrics tell the truth; refinement of `LossyStore` |

Five runs look for, and find, behaviour that differs from what the crate's own
documentation and comments say; `PROJECT.json` quotes the lines under `findings`:

| Run | Finds |
|---|---|
| `Dedup` | two loads of one key at once (check and mark are two lock regions; waits end after 100 ms) |
| `Restamp` | an expired value cached again as fresh without the origin being asked |
| `LeakedMarker` | after a dropped call, stale hits that give way to a load nobody is doing |
| `CleanupRace` | `HashMapStore::get` removing a fresh entry |
| `TieredRemove` | a backfill putting an entry back while it is being removed |

Two more findings are recorded with a passing run, whose property states what the code
does where the document says otherwise:

- README.md:133 promises "Probabilistic LRU eviction". `maybe_evict` (memory.rs:85-97)
  sorts by deadline and removes the entries nearest to theirs: a read never counts, and
  an entry just written with short windows goes before one unused for long. The
  property `EvictsNearestDeadline` states what the code does, not what that line says.
- cache.rs:13 says "Each cache is isolated by a namespace string". Namespaces and keys
  may hold the colon that joins them (utils.rs:10), so that `a` with key `b:c` and
  `a:b` with key `c` share an entry, and a cache may be handed another's type.
  `MeteredMoka` has such a pair; `NoTypeConfusion` says that nothing else goes wrong.
  (The comment at utils.rs:8 has `::`, which would not help.)

Two smaller ones, one line of the code each, have no run:

- `get` drops the flag that says its answer has expired (swr.rs:84 against entry.rs:18).
- Eviction leaves `max_items` entries where memory.rs:21 says "lower than `max_items`"
  (memory.rs:94).

**Bounds, and why they are enough.** `Tasks` and `Fills` bound how many
background tasks run at once. A `swr` call may spawn one task, so it starts only while
one is left (`HasRoom`), and the bound never blocks a call half-way: open `swr` calls
and busy tasks together are never more than `Tasks`. With two of them, two calls, a
call and a task, or two tasks are at work at once, and `get`, `set` and `remove`
come on top; that suffices for every race here, each of which is between one reader or
loader and one other that acts inside its window. Three at once, such as two calls and
a task of an earlier call, are left to the theorems on safety.
Keys do not interact in `SwrCache` (every map is used per key), so one key is
enough; `HashMapStore` needs three, because eviction compares keys, and
`MeteredMoka` two caches with two names each, `k` and `k:k`: `a` and `a:k` share
`a:k:k`, and each has a key of its own beside it. The windows
of 1 and 2 ticks within `MaxTime` of 2 or 3 let an entry be fresh, stale and
expired in one behaviour; `WaitMs` of one tick lets a wait end before, during
and after the other's load. `WaitEnd` cuts a wait off at `MaxTime` so that the
end of the clock does not look like a call that never returns. `MaxVersion = 1`
gives an old and a new value, which is all the comparisons tell apart. Three
calls in `TieredWrites` are a writer, a rival and a reader whose backfill may start
after either of them and outlives it. In `RedisStore` the clock moves by half seconds up to 2.5 s: TTLs are
whole seconds, so that an entry of 1.5 s has a TTL of 1 s, and one written late has
one that outlasts it. One DEL per key at a time (`MaxDels`) suffices, as two have the
effect of one that is late. The theorems do not depend on any of these numbers.

**Fairness.** `FairSpec` asks weak fairness of every call and of every task
(tokio polls a woken future again; the lock regions are short and the locks are
fair; the user's load is assumed to answer) and of `Tick` (timers fire).
Nothing is asked of clients, of the origin's data, of evictions or of faults.
The liveness run has no dropped calls: `LeakedMarker` shows what they do.

Every passing property has a mutant in `PROJECT.json`: a slip such as an early
return that forgets the marker, defined next to the operation it changes, that
makes the run fail.

## Proofs

| Module | Theorem | Statement |
|---|---|---|
| `SwrCacheProofs` | `TypeCorrect` | `Spec => []TypeOK` |
| | `MarkersHaveLoaders` | `Spec => []MarkerHasLoader` |
| | `OwnLoadsAreRecent` | `Spec => []OwnLoadIsRecent` |
| | `NoneComesFromOrigin` | `Spec => []NoneOnlyFromOrigin` |
| | `ExpiredIsNeverLost` | `Spec => []ExpiredNeverLost` |
| | `WorkOnlyAdvances` | `Spec => OnlyAdvances` |
| | `StaleHitsGiveWayToALoad` | without dropped calls, `Spec => GivesWayToALoad` |
| `SwrContractProofs` | `SwrCacheKeepsContract` | `Spec => ImplementsContract` |
| `HashMapStoreProofs` | `TypeCorrect` | `Spec => []TypeOK` |
| | `CapacityIsBounded` | `Spec => []CapacityBound` |
| | `EvictionsTakeNearestDeadline` | `Spec => EvictsNearestDeadline` |
| | `LossesAreKnown` | `Spec => OnlyKnownLosses` |
| | `HashMapImplementsStore` | `Spec => ImplementsStore` |
| `TieredStoreProofs` | `TypeCorrect` | `Spec => []TypeOK` |
| | `SettledKeysAgree` | `Spec => []SettledTiersAgree` |
| | `OnlyFillsUndo` | `Spec => []OnlyFillsUndoRemoves` |
| | `TieredImplementsStore` | `Spec => ImplementsStore` |
| `RedisStoreProofs` | `TypeCorrect` | `Spec => []TypeOK` |
| | `AnswersAlwaysDecode` | `Spec => []AnswersDecode` |
| | `TtlIsLongEnough` | `Spec => []TtlLosesLessThanASecond` |
| | `LossesAreKnown` | `Spec => OnlyKnownLosses` |
| | `EntriesSurviveTiers` | from a cache's write through JSON and a backfill, value and deadlines stay |
| | `RedisImplementsStore` | `Spec => ImplementsStore` |
| `MokaStoreProofs` | `KeysDistinct` | the key join is injective unless one namespace opens with the other and a colon |
| | `TypeCorrect` | `Spec => []TypeOK` |
| | `TypesMeetAtSharedKeys` | `Spec => []NoTypeConfusion` |
| | `TypesStayApart` | if no two namespaces are nested, `Spec => []AlwaysDecodes` |
| | `RemovesRemove` | `Spec => []RemoveRemoves` |
| | `MokaImplementsStore` | `Spec => ImplementsStore` |
| `LossyStoreProofs` | `NothingInvented` | what a store holds or answers was set by a client |
| | `PlacesBound` | a key is at no more places than there are |
| | `NarrowerImplementsWider` | fewer places, inputs and shown keys: `Spec => Wider!Spec` |
| `MetricsStoreProofs` | `MetricsAreTrue` | `MetricsSpec => []MetricTellsTruth` |

Assumptions are those the modules declare about their constants: the
identifiers differ, the windows are integers, the bounds are naturals; that serde
reads back what it wrote of a type (`SerdeAssumption`); that
an entry's two copies of its deadlines agree when it is built (`InputsAssumption`);
that calls and backfills are finitely many (`FiniteAssumption`, for `TieredStore` only).
Neither `FreshMs <= StaleMs` nor positive windows are needed.

*SwrCache.* The properties speak of answers, which are the end of several steps,
so none is inductive. `IInv` adds what holds on the way (`CallOK`): whatever a
call holds (its entry, its value, its fallback) was at the origin by now; a
value it loaded is no older than the call; between load and return a `None`
came from the origin; and what the store holds was at the origin. Markers need
the observation that a key's marker goes whenever *any* loader of the key
finishes, so a marked key always has one still inside its section or a dropped
one (`abandoned`). `Invariance` proves `Spec => []IInv` with one lemma per
action, each resting on the lemma that a step of one process leaves the others' facts
alone.

`WorkOnlyAdvances` needs only the types: `Stage` numbers the awaits, and the proof goes
through the actions to see that each moves its own call or task up and touches no
other that is open. It is the part of termination that does not rest on fairness:
that a step of an open call is always enabled and gets taken is `CallsReturn`, for TLC.

*SwrContract.* A client sees of its call the question and, once it is done, the answer
(`View`). `IInv` is all the refinement needs: a step between two awaits leaves the
view as it was, the four that return are a `Reply` because `CallOK` of the finished
record is what `Answers` asks for, `Swr`, `Get` and `Put` are `Begin`, `Peek` and
`Leave`, a dropped call is a `Leave`, and tasks, the store and the clock are stutters.

*HashMapStore.* `CapacityBound` is inductive only with the types and
`Cardinality` facts: an insert adds one key, which is not counted until its set
evicts or is skipped over, and an eviction leaves `max_items`. For `EvictsNearestDeadline` a
live entry that goes shows that there was a surplus, and only the evicting caller's own
step moves it on from there. `OnlyKnownLosses` rests on `Doomed`: what a get that nothing
overtook is about to remove has expired or is gone, because time only grows and every
insert counts the gets it overtakes; `CleanupRace` is that last case. The refinement maps `Insert` to `Set`, `Cleanup`, `Evict` and
`Remove` to `Lose` or `Miss`, and the rest to themselves or to a stutter.

*TieredStore.* `SettledTiersAgree` needs two more parts: `Quiet` (a settled key
has no writer and its backfills carry what the tiers hold) and `Alone` (a writer
nothing overlapped has its keys to itself and its entry in every tier that
answered). Both count a get that has found an entry as one more party, since it will
spawn a backfill with what it holds. `OnlyFillsUndoRemoves` needs a third: `Emptied` follows a remove that met
neither a set nor a backfill from its first tier to its last. For the refinement an
entry may be in a tier, in a backfill, in a set on its way or with a get that found it,
so the store has `Depth` places and one more for every backfill and every call (`Held`). A set is a `Set` the
moment it begins, when its caller, idle until then, leaves room for one more entry
(`FewPlaces`); a tier that takes it, a backfill that arrives, a failure and a remove
only move or `Lose` what is held already; the answer of a get that hits is a `Hit`,
everything before it a stutter or a `Lose`.

*LossyStore.* `SetKeeps` counts the places: a write leaves fewer than `Depth` of the
old entries and adds one. With that bound the contract is monotone, so the
argument from `SwrCache` down is one of modules: `SwrCache` is proved for any
`Depth`, and a `HashMapStore` (one place), a `MokaStore` or `RedisStore` (one, and one
for every reply under way) or a `TieredStore` (several) is a store of at most that many.

*RedisStore.* `TtlLosesLessThanASecond` speaks of the server, but the TTL is
computed before the command leaves. `FlowsRight` says of a command under way that,
were it to arrive now or later, its TTL would still be long enough (time only
grows), and that entries, replies and answers alike stem from `Inputs`. For the
refinement a reply under way is one more place that holds its entry: `Get` is a
stutter, `Judge` a `Hit` or a `Miss`, `SetArrives` a `Set`, everything that takes
an entry away a `Lose`. `EntriesSurviveTiers` joins the conversions of `entry.rs` into
the way a value takes: each of them keeps what it carries (`Carries`) or fails.

*MokaStore.* `Owned` says that what the map holds at a composite key came from one of
the caches that share it; `Swept` that the keys a remove has passed are gone unless
they were set since. The refinement is over composite keys, so it asks nothing of
namespaces. `KeysDistinct` then says when a key has one owner: of two namespaces with
a composite key in common the longer opens with the shorter and a colon.

*MetricsStore.* By construction a step of the wrapper is a step of the store inside
(`InnerStore`), so what is proved of `MokaStore` is at hand. A caller that shows a metric
is between two calls, so its answer does not change while the clock moves on, and the
moment of the read at which the entry had its status stays between `start` and `now`.

Only model-checked: everything temporal under fairness (the four liveness
properties), which is out of the prover's reach.

## Not modelled

- `Cache` itself: it fills in its namespace and forwards. What it builds, `SwrCache`
  over `TieredStore`, is composed by contract: `TieredStore` implements `LossyStore`,
  and a `LossyStore` is what `SwrCache` is checked and proved over. A store that is
  itself a tier is taken as one step per request; that tiers which only keep
  `LossyStore` (a tier of tiers) compose further is not shown.
- Timestamps of 64 bits: a window near `i64::MAX`, meant as "never", overflows in
  `now + stale_ms` (swr.rs:149). Deadlines here are unbounded integers.
- Jumps of the wall clock: `now` only grows, and the Redis server's clock is the
  same as the clients'. A clock before 1970 is outside the model.
- Two loads' writes, and a write and a later remove, reach the store in any order
  (swr.rs:179, swr.rs:166). The model has these behaviours; nothing in the
  repository promises an order, so no property speaks of it.
- The errors of `CacheError`, logging, `stats()`, a metric's key, tier and latency,
  the formats of serde, the benchmarks and the example are left out for good.

## Plan

Done: every component that keeps state, each with its proofs, and every store as an
implementation of `LossyStore`. Left:

1. `SwrCache` over `LossyStore` as one specification whose store steps are those of
   `LossyStore`, and the theorem that it implements `SwrCache`.
2. Timestamps with a width.
