---------------------------- MODULE HashMapStore ----------------------------
(***************************************************************************)
(* HashMapStore of src/stores/memory.rs: a map behind one RwLock.  Each    *)
(* action is one region under the lock.  A get that meets an expired entry *)
(* lets go of the read lock before it takes the write lock to remove it,   *)
(* and a set lets go of the lock between inserting and evicting, so other  *)
(* operations run in between.                                              *)
(***************************************************************************)
EXTENDS Entry, FiniteSets

CONSTANTS
  Procs,       \* concurrent callers of the store
  Keys,        \* composite keys
  Inputs,      \* Inputs[k]: what clients write at k: stamped now, before, or to expire at once
  Frequency,   \* EvictOnSetConfig::frequency: "never" (also: no config), "sometimes", "always"
  MaxItems,    \* EvictOnSetConfig::max_items
  MaxTime,     \* bound on the clock
  Drops        \* may a caller drop its future while it waits for the write lock?

ASSUME InputsAssumption == \A k \in Keys : Inputs[k] \subseteq Entry
ASSUME ConfigAssumption ==
  /\ IsFiniteSet(Keys) /\ IsFiniteSet(Procs)
  /\ Frequency \in {"never", "sometimes", "always"}
  /\ MaxItems \in Nat /\ MaxTime \in Nat /\ Drops \in BOOLEAN

VARIABLES
  now,      \* now_ms()
  state,    \* the map, NoEntry where a key is absent
  proc,     \* where each caller is, and the key it works on
  answer,   \* what its last get returned
  skipped,  \* ghost: keys set without eviction since it last ran
  raced     \* ghost: gets about to remove an entry set since they looked

vars == <<now, state, proc, answer, skipped, raced>>

Entries == UNION {Inputs[k] : k \in Keys}

Idle == [pc |-> "idle", key |-> NoEntry]
At(p, label) == proc[p].pc = label

Present == {k \in Keys : state[k] # NoEntry}
Retained == {k \in Present : state[k].stale_until > now}
Without(K) == [k \in Keys |-> IF k \in K THEN NoEntry ELSE state[k]]

Init ==
  /\ now = 0
  /\ state = [k \in Keys |-> NoEntry]
  /\ proc = [p \in Procs |-> Idle]
  /\ answer = [p \in Procs |-> NoEntry]
  /\ skipped = {}
  /\ raced = {}

-----------------------------------------------------------------------------
(* Slip: get does not look at the deadline.                                *)
Get_NoExpiryCheck(p, k) ==
  /\ At(p, "idle")
  /\ answer' = [answer EXCEPT ![p] = state[k]]
  /\ UNCHANGED <<now, state, proc, skipped, raced>>

(* Slip: get cleans up what is only stale.                                 *)
Get_CleansStale(p, k) ==
  /\ At(p, "idle")
  /\ IF state[k] # NoEntry /\ ~IsFresh(state[k], now)
     THEN /\ proc' = [proc EXCEPT ![p] = [pc |-> "cleanup", key |-> k]]
          /\ UNCHANGED answer
     ELSE /\ answer' = [answer EXCEPT ![p] = state[k]]
          /\ UNCHANGED proc
  /\ UNCHANGED <<now, state, skipped, raced>>

(* get(): under the read lock an expired entry is noticed, under the write *)
(* lock whatever the key then holds is removed.                            *)
Get(p, k) ==
  /\ At(p, "idle")
  /\ IF state[k] # NoEntry /\ IsExpired(state[k], now)
     THEN /\ proc' = [proc EXCEPT ![p] = [pc |-> "cleanup", key |-> k]]
          /\ UNCHANGED answer
     ELSE /\ answer' = [answer EXCEPT ![p] = state[k]]
          /\ UNCHANGED proc
  /\ UNCHANGED <<now, state, skipped, raced>>

Cleanup(p) ==
  /\ At(p, "cleanup")
  /\ state' = Without({proc[p].key})
  /\ answer' = [answer EXCEPT ![p] = NoEntry]
  /\ proc' = [proc EXCEPT ![p] = Idle]
  /\ raced' = raced \ {p}
  /\ UNCHANGED <<now, skipped>>

CleaningUp(k) == {p \in Procs : At(p, "cleanup") /\ proc[p].key = k}

(* Slip: the entry is rewritten on its way in, with a shorter life.        *)
Insert_Restamps(p, k, e) ==
  /\ At(p, "idle")
  /\ state' = [state EXCEPT ![k] = [e EXCEPT !.stale_until = @ - 1]]
  /\ proc' = [proc EXCEPT ![p] = [pc |-> "evict", key |-> k]]
  /\ raced' = raced \cup CleaningUp(k)
  /\ UNCHANGED <<now, answer, skipped>>

(* set(): insert, then evict if the configuration and the dice say so.     *)
Insert(p, k, e) ==
  /\ At(p, "idle")
  /\ state' = [state EXCEPT ![k] = e]
  /\ \/ /\ Frequency # "never"
        /\ proc' = [proc EXCEPT ![p] = [pc |-> "evict", key |-> k]]
        /\ UNCHANGED skipped
     \/ /\ Frequency # "always"
        /\ skipped' = skipped \cup {k}
        /\ UNCHANGED proc
  /\ raced' = raced \cup CleaningUp(k)
  /\ UNCHANGED <<now, answer>>

(* Slips: one entry too few goes; the longest-lived go first.              *)
Victims_OneShort ==
  IF Cardinality(Retained) <= MaxItems + 1 THEN {{}}
  ELSE {K \in SUBSET Retained :
          /\ Cardinality(K) = Cardinality(Retained) - MaxItems - 1
          /\ \A k \in K, j \in Retained \ K : state[k].stale_until <= state[j].stale_until}

Victims_LongestLived ==
  IF Cardinality(Retained) <= MaxItems THEN {{}}
  ELSE {K \in SUBSET Retained :
          /\ Cardinality(K) = Cardinality(Retained) - MaxItems
          /\ \A k \in K, j \in Retained \ K : state[k].stale_until >= state[j].stale_until}

(* The entries that go once only live ones are left: the surplus, those    *)
(* nearest to their end first, ties in the order of the map's iterator.    *)
Victims ==
  IF Cardinality(Retained) <= MaxItems THEN {{}}
  ELSE {K \in SUBSET Retained :
          /\ Cardinality(K) = Cardinality(Retained) - MaxItems
          /\ \A k \in K, j \in Retained \ K : state[k].stale_until <= state[j].stale_until}

Evict(p) ==
  /\ At(p, "evict")
  /\ \E K \in Victims : state' = Without((Keys \ Retained) \cup K)
  /\ proc' = [proc EXCEPT ![p] = Idle]
  /\ skipped' = {}
  /\ UNCHANGED <<now, answer, raced>>

(* remove(): all keys under one lock.                                      *)
Remove(K) ==
  /\ state' = Without(K)
  /\ UNCHANGED <<now, proc, answer, skipped, raced>>

Abandon(p) ==
  /\ Drops
  /\ proc[p].pc \in {"cleanup", "evict"}
  /\ skipped' = IF At(p, "evict") THEN skipped \cup {proc[p].key} ELSE skipped
  /\ proc' = [proc EXCEPT ![p] = Idle]
  /\ raced' = raced \ {p}
  /\ UNCHANGED <<now, state, answer>>

Tick ==
  /\ now < MaxTime
  /\ now' = now + 1
  /\ UNCHANGED <<state, proc, answer, skipped, raced>>

Next ==
  \/ \E p \in Procs, k \in Keys :
       Get(p, k) \/ (\E e \in Inputs[k] : Insert(p, k, e))
  \/ \E p \in Procs : Cleanup(p) \/ Evict(p) \/ Abandon(p)
  \/ \E K \in SUBSET Keys : Remove(K)
  \/ Tick

Spec == Init /\ [][Next]_vars

-----------------------------------------------------------------------------
(* The type invariant of memory.rs: the map and the answers hold entries   *)
(* exactly as clients wrote them, and a waiting caller knows its key.      *)
TypeOK ==
  /\ now \in 0..MaxTime
  /\ state \in [Keys -> Entries \cup {NoEntry}]
  /\ proc \in [Procs -> [pc : {"idle"}, key : {NoEntry}]
                           \cup [pc : {"cleanup", "evict"}, key : Keys]]
  /\ answer \in [Procs -> Entries \cup {NoEntry}]
  /\ skipped \subseteq Keys
  /\ raced \subseteq Procs

(* memory.rs:134-142: leaving out the keys whose set has still to evict, or *)
(* did not evict because of the dice or of a dropped future, the map stays *)
(* within max_items, however sets, removes and evictions interleave.       *)
Evicting == {p \in Procs : At(p, "evict")}
Unevicted == skipped \cup {proc[p].key : p \in Evicting}
CapacityBound == Cardinality(Present \ Unevicted) <= MaxItems

(* memory.rs:83-97: eviction takes a live entry only when max_items others *)
(* stay, every one of them with at least as long to live.  README.md:133   *)
(* calls this "Probabilistic LRU eviction"; but how lately an entry was    *)
(* read or written counts for nothing, only when it will expire.           *)
EvictsNearestDeadline ==
  [][\A p \in Procs, k \in Present :
       At(p, "evict") /\ proc'[p] # proc[p]
         /\ ~IsExpired(state[k], now) /\ state'[k] = NoEntry
         => /\ Cardinality(Present') = MaxItems
            /\ \A j \in Present' : state'[j].stale_until >= state[k].stale_until]_vars

(* memory.rs:79-98, 121-127, 149-152: an entry that has not expired leaves *)
(* the map only by a remove, by the eviction of a surplus, or by a get     *)
(* that met an expired entry there and was overtaken by a set.             *)
OnlyKnownLosses ==
  [][\A k \in Present :
       ~IsExpired(state[k], now) /\ state'[k] = NoEntry
         => \/ UNCHANGED proc
            \/ \E p \in Evicting : proc'[p] # proc[p] /\ Cardinality(Retained) > MaxItems
            \/ \E p \in CleaningUp(k) \cap raced : proc'[p] # proc[p]]_vars

(* "Entry is expired, remove it" (memory.rs:122): what a get removes under *)
(* the write lock is an expired entry.                                     *)
CleanupRemovesExpired ==
  [][\A p \in Procs :
       At(p, "cleanup") /\ proc'[p] # proc[p] /\ state[proc[p].key] # NoEntry
         => state' = state \/ IsExpired(state[proc[p].key], now)]_vars

(* Inductive: what a get not overtaken by a set is about to remove has     *)
(* expired, or is gone.                                                    *)
Doomed ==
  \A k \in Present : \A p \in CleaningUp(k) \ raced : IsExpired(state[k], now)

(* HashMapStore is a LossyStore that never shows an expired entry.         *)
Held == [k \in Keys |-> {state[k]} \ {NoEntry}]
Contract == INSTANCE LossyStore WITH held <- Held, KeepsExpired <- {}, Depth <- 1
ImplementsStore == Contract!Spec
=============================================================================
