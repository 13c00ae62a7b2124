------------------------------ MODULE SwrCache ------------------------------
(***************************************************************************)
(* SwrCache of src/swr.rs: concurrent calls of swr / get / set / remove on *)
(* clones of one cache, the background tasks they spawn, the marker map    *)
(* `revalidating` that deduplicates loads, the store behind them and the   *)
(* clock.  Every step lies between two awaits of the code, so the model    *)
(* interleaves calls and tasks exactly where tokio may.                    *)
(***************************************************************************)
EXTENDS Entry, FiniteSets

CONSTANTS
  Callers,        \* client calls that can be open at once
  Tasks,          \* background tasks that can run at once (a bound)
  Keys,           \* `{namespace}:{key}` composite keys
  None,           \* Option::None
  FreshMs, StaleMs,   \* SwrCache::fresh_ms, SwrCache::stale_ms
  CustomOptions,  \* the SetOptions a client passes to set
  WaitMs,         \* the 100 ms a call waits for somebody else's load
  KeepsExpired,   \* does store.get return expired entries (disable_expiration)?
  Depth,          \* places the store may hold an entry of a key at: 1 for one
                  \* map; for tiers, as many as tiers and writes under way
  Ops,            \* which of the public operations clients call
  Faults,         \* "get", "set": store errors; "origin": no data;
                  \* "abandon": a dropped call or a panicking load
  MaxTime, MaxVersion \* bounds on the clock and on origin updates

Procs == Callers \cup Tasks

ASSUME ProcsAssumption == Callers \cap Tasks = {}
ASSUME NoneAssumption == None \notin Nat /\ None \notin Keys
ASSUME WindowAssumption ==
  /\ FreshMs \in Int /\ StaleMs \in Int
  /\ CustomOptions \subseteq [fresh_ms : Int, stale_ms : Int]
ASSUME BoundAssumption ==
  WaitMs \in Nat /\ MaxTime \in Nat /\ MaxVersion \in Nat /\ Depth \in Nat \ {0}
ASSUME SwitchAssumption ==
  /\ KeepsExpired \in BOOLEAN
  /\ Ops \subseteq {"swr", "get", "set", "remove"}
  /\ Faults \subseteq {"get", "set", "origin", "abandon"}

VARIABLES
  now,            \* now_ms()
  origin,         \* version of the data at the origin, per key
  store,          \* the entries the store holds, per key
  revalidating,   \* keys of the map SwrCache::revalidating
  proc,           \* where each call and task is, and its locals
  abandoned       \* ghost: marked keys whose loader may have been dropped

vars == <<now, origin, store, revalidating, proc, abandoned>>

Labels == {"idle", "lookup", "classify", "dedup", "sleep", "mark", "load",
           "answered", "return", "done", "check", "set", "unmark", "write", "put"}
Sources == {"none", "cache", "origin", "fallback", "peek", "error"}
Value == Nat \cup {None}

(* A call or a task: `got` is its value so far, `held` the expired value   *)
(* kept as fallback, `entry` the entry read or about to be written, `wake` *)
(* the end of its sleep.  Ghosts: where `got` came from, and the origin's  *)
(* version when the call began.                                            *)
Proc == [pc : Labels, key : Keys \cup {None}, got : Value, held : Value,
         entry : Entry \cup {NoEntry}, wake : Int, source : Sources, since : Nat]

Job(label, k, e) ==
  [pc |-> label, key |-> k, got |-> None, held |-> None,
   entry |-> e, wake |-> 0, source |-> "none", since |-> 0]

Idle == Job("idle", None, NoEntry)
Called(label, k) == [Job(label, k, NoEntry) EXCEPT !.since = origin[k]]
Got(r, value, source) == [r EXCEPT !.got = value, !.source = source]
Holding(r) == [r EXCEPT !.held = r.entry.value, !.entry = NoEntry]
Answered(r, value, source) ==
  [Got(r, value, source) EXCEPT !.pc = "done", !.entry = NoEntry]

At(p, label) == proc[p].pc = label
Open(c) == ~At(c, "idle") /\ ~At(c, "done")
IdleTasks == {t \in Tasks : At(t, "idle")}

(* A call spawns at most one task: it may start only while every open call *)
(* has an idle task left to spawn, so the bound on Tasks never blocks one. *)
HasRoom ==
  Cardinality({c \in Callers : Open(c) /\ ~At(c, "put")}) < Cardinality(IdleTasks)

Init ==
  /\ now = 0
  /\ origin = [k \in Keys |-> 0]
  /\ store = [k \in Keys |-> {}]
  /\ revalidating = {}
  /\ proc = [p \in Procs |-> Idle]
  /\ abandoned = {}

-----------------------------------------------------------------------------
(* The store as this layer sees it (LossyStore): an expired entry is       *)
(* invisible unless the store keeps them, and a store of several tiers may *)
(* look past the entry it holds; swr takes an error, and an entry that     *)
(* cannot be decoded, for a miss.  What a write or a remove may leave      *)
(* behind in other places is one of Residues.                              *)
Visible(k) == {e \in store[k] : KeepsExpired \/ ~IsExpired(e, now)}

MayMiss(k) == Visible(k) = {} \/ Depth > 1

GetResults(k) == Visible(k) \cup (IF MayMiss(k) \/ "get" \in Faults THEN {NoEntry} ELSE {})

Residues(k) == {R \in SUBSET store[k] : Cardinality(R) < Depth}

Stamped(value) == StampedEntry(value, now, FreshMs, StaleMs)

-----------------------------------------------------------------------------
(* swr(): look up, classify, answer or load.                               *)
Swr(c, k) ==
  /\ "swr" \in Ops
  /\ ~Open(c) /\ HasRoom
  /\ proc' = [proc EXCEPT ![c] = Called("lookup", k)]
  /\ UNCHANGED <<now, origin, store, revalidating, abandoned>>

(* Slip: a miss or a store error is answered None instead of loading.      *)
Lookup_MissIsNone(c) ==
  /\ At(c, "lookup")
  /\ \E e \in GetResults(proc[c].key) :
       proc' = [proc EXCEPT ![c] = IF e = NoEntry
                                   THEN Answered(@, None, "cache")
                                   ELSE [@ EXCEPT !.pc = "classify", !.entry = e]]
  /\ UNCHANGED <<now, origin, store, revalidating, abandoned>>

Lookup(c) ==
  /\ At(c, "lookup")
  /\ \E e \in GetResults(proc[c].key) :
       proc' = [proc EXCEPT ![c] = [@ EXCEPT
                  !.pc = IF e = NoEntry THEN "dedup" ELSE "classify", !.entry = e]]
  /\ UNCHANGED <<now, origin, store, revalidating, abandoned>>

FreshHit(c) ==
  /\ At(c, "classify")
  /\ ~IsExpired(proc[c].entry, now) /\ ~IsStale(proc[c].entry, now)
  /\ proc' = [proc EXCEPT ![c] = Answered(@, @.entry.value, "cache")]
  /\ UNCHANGED <<now, origin, store, revalidating, abandoned>>

StaleHit(c, t) ==
  /\ At(c, "classify")
  /\ IsStale(proc[c].entry, now)
  /\ t \in IdleTasks
  /\ proc' = [proc EXCEPT ![c] = Answered(@, @.entry.value, "cache"),
                          ![t] = Job("check", proc[c].key, NoEntry)]
  /\ UNCHANGED <<now, origin, store, revalidating, abandoned>>

ExpiredHit(c) ==
  /\ At(c, "classify")
  /\ IsExpired(proc[c].entry, now)
  /\ proc' = [proc EXCEPT ![c] = [Holding(@) EXCEPT !.pc = "dedup"]]
  /\ UNCHANGED <<now, origin, store, revalidating, abandoned>>

-----------------------------------------------------------------------------
(* deduplicated_load_from_origin(): a call that finds its key marked waits *)
(* once and looks again; the check and the mark are separate lock regions. *)
WaitEnd == IF now + WaitMs < MaxTime THEN now + WaitMs ELSE MaxTime

Dedup(c) ==
  /\ At(c, "dedup")
  /\ proc' = [proc EXCEPT ![c] =
                IF @.key \in revalidating
                THEN [@ EXCEPT !.pc = "sleep", !.wake = WaitEnd]
                ELSE [@ EXCEPT !.pc = "mark"]]
  /\ UNCHANGED <<now, origin, store, revalidating, abandoned>>

(* Slip: after the wait, whatever the cache has is the answer.             *)
Wake_NoRetry(c) ==
  /\ At(c, "sleep")
  /\ now >= proc[c].wake
  /\ \E e \in GetResults(proc[c].key) :
       proc' = [proc EXCEPT ![c] =
                  [Got(@, IF e = NoEntry THEN None ELSE e.value, "cache")
                     EXCEPT !.pc = "return", !.wake = 0]]
  /\ UNCHANGED <<now, origin, store, revalidating, abandoned>>

(* Slip: a waiter only ever takes the other load's result.                 *)
Wake_NeverLoads(c) ==
  /\ At(c, "sleep")
  /\ now >= proc[c].wake
  /\ \E e \in Visible(proc[c].key) :
       proc' = [proc EXCEPT ![c] =
                  [Got(@, e.value, "cache") EXCEPT !.pc = "return", !.wake = 0]]
  /\ UNCHANGED <<now, origin, store, revalidating, abandoned>>

(* Slip: a waiter that finds nothing looks for the marker again.           *)
Wake_ChecksAgain(c) ==
  /\ At(c, "sleep")
  /\ now >= proc[c].wake
  /\ \E e \in GetResults(proc[c].key) :
       proc' = [proc EXCEPT ![c] =
                  IF e = NoEntry
                  THEN [@ EXCEPT !.pc = "dedup", !.wake = 0]
                  ELSE [Got(@, e.value, "cache") EXCEPT !.pc = "return", !.wake = 0]]
  /\ UNCHANGED <<now, origin, store, revalidating, abandoned>>

Wake(c) ==
  /\ At(c, "sleep")
  /\ now >= proc[c].wake
  /\ \E e \in GetResults(proc[c].key) :
       proc' = [proc EXCEPT ![c] =
                  IF e = NoEntry
                  THEN [@ EXCEPT !.pc = "mark", !.wake = 0]
                  ELSE [Got(@, e.value, "cache") EXCEPT !.pc = "return", !.wake = 0]]
  /\ UNCHANGED <<now, origin, store, revalidating, abandoned>>

Mark(p) ==
  /\ At(p, "mark")
  /\ proc' = [proc EXCEPT ![p].pc = "load"]
  /\ revalidating' = revalidating \cup {proc[p].key}
  /\ UNCHANGED <<now, origin, store, abandoned>>

OriginReads(p) ==
  /\ At(p, "load")
  /\ \E v \in {origin[proc[p].key]} \cup (IF "origin" \in Faults THEN {None} ELSE {}) :
       proc' = [proc EXCEPT ![p] = [Got(@, v, "origin") EXCEPT !.pc = "answered"]]
  /\ UNCHANGED <<now, origin, store, revalidating, abandoned>>

UnmarkAs(p, next) ==
  /\ proc' = [proc EXCEPT ![p] = next]
  /\ revalidating' = revalidating \ {proc[p].key}
  /\ abandoned' = abandoned \ {proc[p].key}
  /\ UNCHANGED <<now, origin, store>>

CallerUnmark(c) == At(c, "answered") /\ UnmarkAs(c, [proc[c] EXCEPT !.pc = "return"])

(* cache_value() stamps the loaded value at once and spawns its write; a   *)
(* call with no value falls back on the expired one it holds, if any.      *)
(* Slip: the value in hand wins over the loaded one.                       *)
ReturnLoaded_KeepsHeld(c, t) ==
  /\ At(c, "return") /\ proc[c].got # None
  /\ t \in IdleTasks
  /\ proc' = [proc EXCEPT
       ![c] = Answered(@, IF @.held = None THEN @.got ELSE @.held, @.source),
       ![t] = Job("write", proc[c].key, Stamped(proc[c].got))]
  /\ UNCHANGED <<now, origin, store, revalidating, abandoned>>

ReturnLoaded(c, t) ==
  /\ At(c, "return") /\ proc[c].got # None
  /\ t \in IdleTasks
  /\ proc' = [proc EXCEPT ![c] = Answered(@, @.got, @.source),
                          ![t] = Job("write", proc[c].key, Stamped(proc[c].got))]
  /\ UNCHANGED <<now, origin, store, revalidating, abandoned>>

(* Slip: the expired value is forgotten when the origin has nothing.       *)
ReturnFallback_Forgets(c) ==
  /\ At(c, "return") /\ proc[c].got = None
  /\ proc' = [proc EXCEPT ![c] = Answered(@, None, @.source)]
  /\ UNCHANGED <<now, origin, store, revalidating, abandoned>>

ReturnFallback(c) ==
  /\ At(c, "return") /\ proc[c].got = None
  /\ proc' = [proc EXCEPT ![c] =
                Answered(@, @.held, IF @.held = None THEN @.source ELSE "fallback")]
  /\ UNCHANGED <<now, origin, store, revalidating, abandoned>>

-----------------------------------------------------------------------------
(* spawn_revalidation(): the task of a stale hit.                          *)
(* Slip: a task waits for the key instead of giving way to its loader.     *)
Check_Waits(t) ==
  /\ At(t, "check") /\ proc[t].key \notin revalidating
  /\ proc' = [proc EXCEPT ![t].pc = "mark"]
  /\ UNCHANGED <<now, origin, store, revalidating, abandoned>>

Check(t) ==
  /\ At(t, "check")
  /\ proc' = [proc EXCEPT ![t] = IF @.key \in revalidating
                                 THEN Idle ELSE [@ EXCEPT !.pc = "mark"]]
  /\ UNCHANGED <<now, origin, store, revalidating, abandoned>>

(* Slip: an origin that has no data is cached like any other answer.       *)
Stamp_CachesNone(t) ==
  /\ At(t, "answered")
  /\ proc' = [proc EXCEPT ![t] = [@ EXCEPT !.pc = "set", !.entry = Stamped(proc[t].got)]]
  /\ UNCHANGED <<now, origin, store, revalidating, abandoned>>

Stamp(t) ==
  /\ At(t, "answered") /\ proc[t].got # None
  /\ proc' = [proc EXCEPT ![t] = [@ EXCEPT !.pc = "set", !.entry = Stamped(proc[t].got)]]
  /\ UNCHANGED <<now, origin, store, revalidating, abandoned>>

(* Slip: an early return when the origin has no data leaves the marker.    *)
TaskUnmark_KeepsMarker(t) ==
  \/ At(t, "unmark") /\ UnmarkAs(t, Idle)
  \/ /\ At(t, "answered") /\ proc[t].got = None
     /\ proc' = [proc EXCEPT ![t] = Idle]
     /\ UNCHANGED <<now, origin, store, revalidating, abandoned>>

TaskUnmark(t) ==
  /\ At(t, "unmark") \/ (At(t, "answered") /\ proc[t].got = None)
  /\ UnmarkAs(t, Idle)

(* store.set of a revalidation ("set"), of cache_value's task ("write") or *)
(* of a client's set ("put").  A store error, or a value that cannot be    *)
(* serialised, leaves the store as it was and is only logged.              *)
StoreSet(p) ==
  /\ \/ At(p, "set") /\ proc' = [proc EXCEPT ![p] = [@ EXCEPT !.pc = "unmark", !.entry = NoEntry]]
     \/ (At(p, "write") \/ At(p, "put")) /\ proc' = [proc EXCEPT ![p] = Idle]
  /\ \/ \E R \in Residues(proc[p].key) :
          store' = [store EXCEPT ![proc[p].key] = R \cup {proc[p].entry}]
     \/ "set" \in Faults /\ UNCHANGED store
  /\ UNCHANGED <<now, origin, revalidating, abandoned>>

-----------------------------------------------------------------------------
(* The other public operations.  get hands a store error and an entry that *)
(* cannot be decoded to its client; a client puts a version it has seen.   *)
GetAnswers(c, k, value, source) ==
  /\ "get" \in Ops
  /\ ~Open(c)
  /\ proc' = [proc EXCEPT ![c] = Answered(Called("done", k), value, source)]
  /\ UNCHANGED <<now, origin, store, revalidating, abandoned>>

Get(c, k) ==
  \/ \E e \in Visible(k) : GetAnswers(c, k, e.value, "peek")
  \/ MayMiss(k) /\ GetAnswers(c, k, None, "peek")
  \/ "get" \in Faults /\ GetAnswers(c, k, None, "error")

Put(c, k, v, opts) ==
  /\ "set" \in Ops
  /\ ~Open(c)
  /\ v <= origin[k]
  /\ proc' = [proc EXCEPT ![c] =
                Job("put", k, StampedEntry(v, now, opts.fresh_ms, opts.stale_ms))]
  /\ UNCHANGED <<now, origin, store, revalidating, abandoned>>

Remove(k) ==
  /\ "remove" \in Ops
  /\ \E R \in Residues(k) : store' = [store EXCEPT ![k] = R]
  /\ UNCHANGED <<now, origin, revalidating, proc, abandoned>>

-----------------------------------------------------------------------------
(* The environment: a store may lose what it holds (eviction, TTL, expired *)
(* entries), the origin's data moves on, time passes, a client drops the   *)
(* future of its call at an await, a load panics inside its task.          *)
StoreDrop(k) ==
  /\ \E e \in store[k] : store' = [store EXCEPT ![k] = @ \ {e}]
  /\ UNCHANGED <<now, origin, revalidating, proc, abandoned>>

OriginUpdate(k) ==
  /\ origin[k] < MaxVersion
  /\ origin' = [origin EXCEPT ![k] = @ + 1]
  /\ UNCHANGED <<now, store, revalidating, proc, abandoned>>

Tick ==
  /\ now < MaxTime
  /\ now' = now + 1
  /\ UNCHANGED <<origin, store, revalidating, proc, abandoned>>

(* Between Mark and the removal of the marker. *)
InSection(p) == proc[p].pc \in {"load", "answered", "set", "unmark"}

Abandon(p) ==
  /\ "abandon" \in Faults
  /\ proc[p].pc \in IF p \in Callers
                    THEN {"lookup", "dedup", "sleep", "mark", "load", "answered", "put"}
                    ELSE {"load"}
  /\ abandoned' = abandoned \cup (IF InSection(p) THEN {proc[p].key} \cap revalidating ELSE {})
  /\ proc' = [proc EXCEPT ![p] = Idle]
  /\ UNCHANGED <<now, origin, store, revalidating>>

-----------------------------------------------------------------------------
CallStep(c) ==
  \/ Lookup(c) \/ FreshHit(c) \/ (\E t \in Tasks : StaleHit(c, t)) \/ ExpiredHit(c)
  \/ Dedup(c) \/ Wake(c) \/ Mark(c) \/ OriginReads(c) \/ CallerUnmark(c)
  \/ (\E t \in Tasks : ReturnLoaded(c, t)) \/ ReturnFallback(c) \/ StoreSet(c)

TaskStep(t) ==
  Check(t) \/ Mark(t) \/ OriginReads(t) \/ Stamp(t) \/ StoreSet(t) \/ TaskUnmark(t)

Client ==
  \/ \E c \in Callers, k \in Keys : Swr(c, k) \/ Get(c, k)
  \/ \E c \in Callers, k \in Keys, v \in 0..MaxVersion :
       \E opts \in CustomOptions \cup {[fresh_ms |-> FreshMs, stale_ms |-> StaleMs]} :
         Put(c, k, v, opts)
  \/ \E k \in Keys : Remove(k)

Environment ==
  \/ \E k \in Keys : StoreDrop(k) \/ OriginUpdate(k)
  \/ Tick
  \/ \E p \in Procs : Abandon(p)

Next ==
  \/ \E c \in Callers : CallStep(c)
  \/ \E t \in Tasks : TaskStep(t)
  \/ Client
  \/ Environment

(* tokio polls every ready future again, timers fire, and the user's load  *)
(* is assumed to answer; clients, evictions and the origin owe nothing.    *)
Fairness ==
  /\ \A c \in Callers : WF_vars(CallStep(c))
  /\ \A t \in Tasks : WF_vars(TaskStep(t))
  /\ WF_vars(Tick)

Spec == Init /\ [][Next]_vars
FairSpec == Spec /\ Fairness

-----------------------------------------------------------------------------
(* The type invariant of swr.rs's shared state and of its in-flight calls, *)
(* with what each place in the code knows of the locals it is about to use.*)
LocalsOK(p, r) ==
  /\ r.pc # "idle" => r.key \in Keys
  /\ r.pc \in {"classify", "set", "write", "put"} => r.entry \in Entry
  /\ p \in Tasks => r.pc \in {"idle", "check", "mark", "load", "answered",
                              "set", "unmark", "write"}

TypeOK ==
  /\ now \in 0..MaxTime
  /\ origin \in [Keys -> 0..MaxVersion]
  /\ store \in [Keys -> SUBSET Entry]
  /\ revalidating \subseteq Keys
  /\ proc \in [Procs -> Proc] /\ \A p \in Procs : LocalsOK(p, proc[p])
  /\ abandoned \subseteq revalidating

InSectionOn(k) == {p \in Procs : proc[p].key = k /\ InSection(p)}

(* A marker never outlives the work it announces (swr.rs:356-407, 443-458):*)
(* a marked key has a call or task between its mark and its unmark, unless *)
(* a client dropped such a call or a load panicked in its task.            *)
MarkerHasLoader ==
  \A k \in revalidating : InSectionOn(k) # {} \/ k \in abandoned

(* A call whose answer comes from its own load (swr.rs:452) never returns  *)
(* data older than the origin held when the call began.                    *)
OwnLoadIsRecent ==
  \A c \in Callers :
    At(c, "done") /\ proc[c].source = "origin" /\ proc[c].got # None
      => proc[c].got >= proc[c].since

(* swr answers None only when the origin itself, asked by this very call,  *)
(* had no data: a wait, a store error or a lost entry never turns into a   *)
(* None (swr.rs:305-319, 425-442).  What get answers is not swr's.         *)
OfGet == {"peek", "error"}
NoneOnlyFromOrigin ==
  \A c \in Callers :
    At(c, "done") /\ proc[c].got = None => proc[c].source \in {"origin"} \cup OfGet

(* A call that found an expired entry never comes back empty-handed,       *)
(* whatever the origin and the store do meanwhile (swr.rs:256-275).        *)
ExpiredNeverLost ==
  \A c \in Callers :
    At(c, "done") /\ proc[c].held # None => proc[c].got # None

(* The deduplication swr.rs:43 and README.md:13 promise: never two loads   *)
(* of one key at once.  The check and the mark are two lock regions, and a *)
(* wait ends after 100 ms whatever the other load does.                    *)
AtMostOneLoad ==
  \A p, q \in Procs :
    At(p, "load") /\ At(q, "load") /\ proc[p].key = proc[q].key => p = q

(* What swr.rs:266 says of the value it caches again on the expired path:  *)
(* it is the origin's.                                                     *)
ExpiredPathCachesLoads ==
  \A c \in Callers :
    At(c, "return") /\ proc[c].held # None /\ proc[c].got # None
      => proc[c].source = "origin"

(* "If the value is stale, return it and revalidate in the background"     *)
(* (swr.rs:226): the task of a stale hit ends without asking the origin    *)
(* only while another call or task is between its mark and its unmark.     *)
GivesWayToALoad ==
  [][\A t \in Tasks :
       At(t, "check") /\ proc'[t].pc = "idle" => InSectionOn(proc[t].key) # {}]_vars

(* A call or task that moves comes nearer to its end, whatever the others  *)
(* do to the store and the markers meanwhile: it waits at most once, loads *)
(* at most once and never looks for a marker again (swr.rs:222-322,        *)
(* 341-408, 411-461).                                                      *)
Stage == [lookup |-> 1, classify |-> 2, dedup |-> 3, sleep |-> 4, check |-> 4,
          mark |-> 5, load |-> 6, answered |-> 7, return |-> 8, set |-> 8,
          unmark |-> 9, write |-> 9, put |-> 9, done |-> 10, idle |-> 10]
OnlyAdvances ==
  [][\A p \in Procs :
       Open(p) /\ proc'[p] # proc[p]
         => Stage[proc[p].pc] < Stage[proc'[p].pc]]_vars

(* Every call returns, every background task ends (swr.rs:191-218, 341-408)*)
(* and every marker is taken down again.                                   *)
CallsReturn == \A c \in Callers : Open(c) ~> ~Open(c)
BackgroundWorkEnds == \A t \in Tasks : ~At(t, "idle") ~> At(t, "idle")
MarkersAreReleased == \A k \in Keys : k \in revalidating ~> k \notin revalidating

(* After a stale hit the origin gets asked, by the hit's own task or by    *)
(* the load that task gives way to (swr.rs:338-408).                       *)
StaleHitReachesOrigin ==
  \A t \in Tasks, k \in Keys :
    At(t, "check") /\ proc[t].key = k
      ~> \E p \in InSectionOn(k) : ~At(p, "load")

-----------------------------------------------------------------------------
(* The inductive invariant: besides the types and the markers, whatever a  *)
(* call holds was at the origin (o) by now, a loaded value is no older     *)
(* than the call, and only the origin's own answer is None.                *)
CallOK(r, o) ==
  /\ r.pc # "idle" =>
       /\ r.since <= o[r.key]
       /\ r.entry # NoEntry => r.entry.value <= o[r.key]
       /\ r.got # None => r.got <= o[r.key]
       /\ r.held # None => r.held <= o[r.key]
  /\ r.pc \in {"answered", "return"} => r.source \in {"origin", "cache"}
  /\ r.pc = "done" => r.source # "none"
  /\ r.pc \in {"answered", "return", "done"} /\ r.got = None
       => r.source \in {"origin"} \cup OfGet
  /\ r.source = "origin" /\ r.got # None => r.since <= r.got
  /\ r.pc = "done" /\ r.held # None => r.got # None

IInv ==
  /\ TypeOK
  /\ MarkerHasLoader
  /\ \A k \in Keys : \A e \in store[k] : e.value <= origin[k]
  /\ \A p \in Procs : CallOK(proc[p], origin)

-----------------------------------------------------------------------------
(* The client's view of a call: a put is not a call that answers.          *)
ClientCall(c) ==
  IF At(c, "idle") \/ At(c, "put")
  THEN [stage |-> "idle", key |-> None, since |-> 0, got |-> None, source |-> "none"]
  ELSE [stage |-> IF At(c, "done") THEN "done" ELSE "open",
        key |-> proc[c].key,
        since |-> proc[c].since,
        got |-> IF At(c, "done") THEN proc[c].got ELSE None,
        source |-> IF At(c, "done") THEN proc[c].source ELSE "none"]

Contract == INSTANCE SwrContract WITH call <- [c \in Callers |-> ClientCall(c)]

(* SwrCache keeps the client contract of SwrContract at every step.        *)
ImplementsContract == Contract!Spec
==============================================================================
