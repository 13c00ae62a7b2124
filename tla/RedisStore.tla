----------------------------- MODULE RedisStore -----------------------------
(***************************************************************************)
(* RedisStore of src/stores/redis.rs and the Redis server behind it.  A    *)
(* get's reply is judged by the clock after it arrives; a set's TTL is     *)
(* counted before its command leaves and starts when it arrives; the DEL   *)
(* of an expired entry is a task of its own.  Times are milliseconds.      *)
(***************************************************************************)
EXTENDS StoredEntry, FiniteSets

CONSTANTS
  Procs,       \* concurrent callers of the store
  Keys,        \* composite keys
  Persistent,  \* keys used through a store with disable_expiration
  Inputs,      \* Inputs[k]: the entries clients write at k, in either mode
  Never,       \* no TTL
  TickMs,      \* how far one step moves the clock
  MaxTime,     \* bound on the clock
  MaxDels      \* bound on the DELs of a key under way at once

ASSUME InputsAssumption ==
  \A k \in Keys : Inputs[k] \subseteq StoredEntry /\ \A x \in Inputs[k] : Coherent(x)
ASSUME RedisAssumption ==
  /\ IsFiniteSet(Procs) /\ Persistent \subseteq Keys /\ Never \notin Int
  /\ NoEntry \notin [json : StoredEntry, dies : Int \cup {Never}]
  /\ TickMs \in Nat \ {0} /\ MaxTime \in Nat /\ MaxDels \in Nat

VARIABLES
  now,     \* now_ms(), and the server's clock
  redis,   \* what the server holds per key: an entry's JSON and its expiry
  proc,    \* the command each caller waits for
  dels,    \* per key, the spawned DELs under way
  answer   \* what each caller's last get returned

vars == <<now, redis, proc, dels, answer>>

Idle == [pc |-> "idle", key |-> NoEntry, entry |-> NoEntry, ttl |-> Never]
At(p, label) == proc[p].pc = label
Stored(k) == redis[k] # NoEntry
Alive(k) == Stored(k) /\ (redis[k].dies = Never \/ now < redis[k].dies)

Init ==
  /\ now = 0
  /\ redis = [k \in Keys |-> NoEntry]
  /\ proc = [p \in Procs |-> Idle]
  /\ dels = [k \in Keys |-> 0]
  /\ answer = [p \in Procs |-> NoEntry]

-----------------------------------------------------------------------------
(* Slip: the deadlines parsed out of the JSON are taken in the wrong order. *)
Parsed_Swapped(x) == FromSerialized(x.type, x.data, x.data.stale_until, x.data.fresh_until)

(* get parses the deadlines out of the JSON, not out of what set was given. *)
Parsed(x) == FromSerialized(x.type, x.data, x.data.fresh_until, x.data.stale_until)

Get(p, k) ==
  /\ At(p, "idle")
  /\ IF Alive(k)
     THEN /\ proc' = [proc EXCEPT ![p] = [pc |-> "judge", key |-> k,
                                          entry |-> Parsed(redis[k].json), ttl |-> Never]]
          /\ UNCHANGED answer
     ELSE /\ answer' = [answer EXCEPT ![p] = NoEntry]
          /\ UNCHANGED proc
  /\ UNCHANGED <<now, redis, dels>>

(* Slip: an expired reply is answered and deleted all the same.            *)
Expires_Always(p) == IsExpired(proc[p].entry, now)

Expires(p) == IsExpired(proc[p].entry, now) /\ proc[p].key \notin Persistent

(* Slip: the deadline is looked at for the DEL only.                       *)
Judge_Shows(p) ==
  /\ At(p, "judge")
  /\ answer' = [answer EXCEPT ![p] = proc[p].entry]
  /\ IF Expires(p)
     THEN dels[proc[p].key] < MaxDels /\ dels' = [dels EXCEPT ![proc[p].key] = @ + 1]
     ELSE UNCHANGED dels
  /\ proc' = [proc EXCEPT ![p] = Idle]
  /\ UNCHANGED <<now, redis>>

Judge(p) ==
  /\ At(p, "judge")
  /\ IF Expires(p)
     THEN /\ dels[proc[p].key] < MaxDels
          /\ dels' = [dels EXCEPT ![proc[p].key] = @ + 1]
          /\ answer' = [answer EXCEPT ![p] = NoEntry]
     ELSE /\ answer' = [answer EXCEPT ![p] = proc[p].entry]
          /\ UNCHANGED dels
  /\ proc' = [proc EXCEPT ![p] = Idle]
  /\ UNCHANGED <<now, redis>>

(* The spawned task; its error is ignored.                                 *)
Del(k) ==
  /\ dels[k] > 0
  /\ dels' = [dels EXCEPT ![k] = @ - 1]
  /\ redis' \in {redis, [redis EXCEPT ![k] = NoEntry]}
  /\ UNCHANGED <<now, proc, answer>>

-----------------------------------------------------------------------------
(* Slip: one second is taken off for safety.                               *)
calculate_ttl_seconds_Less(stale_until) ==
  IF stale_until <= now + 2000 THEN 1 ELSE (stale_until - now) \div 1000 - 1

(* Whole seconds, rounded down, and at least one.                          *)
calculate_ttl_seconds(stale_until) ==
  IF stale_until <= now + 1000 THEN 1 ELSE (stale_until - now) \div 1000

(* set() itself refuses a typed entry: the caller converts it (TieredStore) *)
(* and an entry that cannot be converted is not written.                   *)
Set(p, k, x) ==
  LET y == ConvertForMode(x, "serialized") IN
  /\ At(p, "idle")
  /\ y # NoEntry
  /\ proc' = [proc EXCEPT ![p] =
       [pc |-> "set", key |-> k, entry |-> y,
        ttl |-> IF k \in Persistent THEN Never ELSE calculate_ttl_seconds(y.stale_until)]]
  /\ UNCHANGED <<now, redis, dels, answer>>

SetArrives(p) ==
  /\ At(p, "set")
  /\ redis' = [redis EXCEPT ![proc[p].key] =
       [json |-> proc[p].entry,
        dies |-> IF proc[p].ttl = Never THEN Never ELSE now + 1000 * proc[p].ttl]]
  /\ proc' = [proc EXCEPT ![p] = Idle]
  /\ UNCHANGED <<now, dels, answer>>

(* One DEL of all keys.                                                    *)
Remove(K) ==
  /\ redis' = [k \in Keys |-> IF k \in K THEN NoEntry ELSE redis[k]]
  /\ UNCHANGED <<now, proc, dels, answer>>

-----------------------------------------------------------------------------
(* The connection fails, or a client drops the future of its call.         *)
Abandon(p) ==
  /\ ~At(p, "idle")
  /\ proc' = [proc EXCEPT ![p] = Idle]
  /\ UNCHANGED <<now, redis, dels, answer>>

(* The server forgets a key whose TTL has run out.                         *)
ServerExpires(k) ==
  /\ Stored(k) /\ ~Alive(k)
  /\ redis' = [redis EXCEPT ![k] = NoEntry]
  /\ UNCHANGED <<now, proc, dels, answer>>

Tick ==
  /\ now + TickMs <= MaxTime
  /\ now' = now + TickMs
  /\ UNCHANGED <<redis, proc, dels, answer>>

Next ==
  \/ \E p \in Procs, k \in Keys : Get(p, k) \/ \E x \in Inputs[k] : Set(p, k, x)
  \/ \E p \in Procs : Judge(p) \/ SetArrives(p) \/ Abandon(p)
  \/ \E k \in Keys : Del(k) \/ ServerExpires(k)
  \/ \E K \in SUBSET Keys : Remove(K)
  \/ Tick

Spec == Init /\ [][Next]_vars

-----------------------------------------------------------------------------
(* The type invariant of redis.rs: only serialized entries reach the       *)
(* server, all with deadlines their JSON agrees with.                      *)
Json == {x \in StoredEntry : x.mode = "serialized" /\ Coherent(x)}
Command == {c \in [pc : {"judge", "set"}, key : Keys, entry : Json, ttl : Nat \cup {Never}] :
              c.pc = "set" => (c.ttl = Never <=> c.key \in Persistent)}
TypeOK ==
  /\ now \in 0..MaxTime
  /\ redis \in [Keys -> [json : Json, dies : Int \cup {Never}] \cup {NoEntry}]
  /\ proc \in [Procs -> Command \cup {Idle}]
  /\ dels \in [Keys -> 0..MaxDels]
  /\ answer \in [Procs -> Json \cup {NoEntry}]

(* What a get returns decodes to what some client wrote, in whichever mode *)
(* it was written, with the deadlines it was given (entry.rs:121-127,      *)
(* redis.rs:117-148).                                                      *)
AnswersDecode ==
  \A p \in Procs : answer[p] # NoEntry =>
    \E k \in Keys : \E x \in Inputs[k] :
      /\ IntoTyped(answer[p], x.type) = IntoTyped(x, x.type)
      /\ answer[p].fresh_until = x.fresh_until
      /\ answer[p].stale_until = x.stale_until

(* Rounding the TTL down to seconds costs an entry less than its last      *)
(* second (redis.rs:87-93), however long the command is under way, and     *)
(* a store with disable_expiration sets none.                              *)
TtlLosesLessThanASecond ==
  \A k \in Keys : Stored(k) =>
    IF k \in Persistent THEN redis[k].dies = Never
    ELSE redis[k].dies # Never /\ redis[k].dies > redis[k].json.stale_until - 1000

(* "data persists indefinitely" (redis.rs:174): with disable_expiration an *)
(* entry goes only by a remove, expired or not, read or not.  Without it,  *)
(* besides, when its TTL is up or to the DEL a get spawned.                *)
OnlyKnownLosses ==
  [][\A k \in Keys : Stored(k) /\ redis'[k] = NoEntry =>
       \/ \E K \in SUBSET Keys : k \in K /\ Remove(K)
       \/ k \notin Persistent /\ (~Alive(k) \/ dels'[k] < dels[k])]_vars

(* RedisStore is a LossyStore that shows expired entries of the keys used  *)
(* with disable_expiration; a reply under way is one more place.           *)
Held == [k \in Keys |->
  (IF Stored(k) THEN {Parsed(redis[k].json)} ELSE {})
    \cup {proc[p].entry : p \in {q \in Procs : At(q, "judge") /\ proc[q].key = k}}]

Written == [k \in Keys |->
  {Parsed(ConvertForMode(x, "serialized")) :
     x \in {y \in Inputs[k] : ConvertForMode(y, "serialized") # NoEntry}}]
Contract == INSTANCE LossyStore WITH
  held <- Held, Inputs <- Written, KeepsExpired <- Persistent, Depth <- Cardinality(Procs) + 1
ImplementsStore == Contract!Spec
=============================================================================
