------------------------------ MODULE MokaStore ------------------------------
(***************************************************************************)
(* MokaStore of src/stores/moka.rs, shared by caches of several types, one *)
(* namespace each (src/cache.rs), any string, so that two caches may share *)
(* a composite key.  Moka's own map is atomic per key and evicts as it     *)
(* likes; a get looks up, judges and invalidates in three steps, and a     *)
(* remove goes through its keys one by one.                                *)
(***************************************************************************)
EXTENDS StoredEntry, Namespaces, FiniteSets

CONSTANTS
  Procs,
  Spaces,   \* the namespaces of the caches on this store
  Names,    \* the keys their clients use
  TypeOf,   \* TypeOf[ns]: the V of the Cache<V> at ns
  Inputs,   \* Inputs[ns]: what that cache brings to the store, typed by its
            \* SwrCache or serialized by a back-fill from a lower tier
  Batches,  \* the arguments of remove
  MaxTime   \* bound on the clock

ASSUME SpacesAssumption ==
  /\ Spaces \subseteq String /\ Names \subseteq String
  /\ TypeOf \in [Spaces -> Types]
ASSUME MokaInputsAssumption ==
  /\ Inputs \in [Spaces -> SUBSET StoredEntry]
  /\ \A ns \in Spaces : \A x \in Inputs[ns] : x.type = TypeOf[ns]
ASSUME MokaBounds == IsFiniteSet(Procs) /\ MaxTime \in Nat /\ Batches \subseteq Seq(Names)

VARIABLES
  now,     \* now_ms()
  cache,   \* Moka's map, by composite key
  proc,    \* the call each caller is in, and what its done call was
  answer   \* what each caller's last get returned

vars == <<now, cache, proc, answer>>

Addresses == Spaces \X Names
KeyOf(ns, name) == build_cache_key(ns, name)
CacheKeys == {KeyOf(a[1], a[2]) : a \in Addresses}

(* What the caches that share a composite key bring to it.                 *)
Sharers(c) == {a \in Addresses : KeyOf(a[1], a[2]) = c}
Brought(c) == UNION {Inputs[a[1]] : a \in Sharers(c)}

Idle == [op |-> "none", pc |-> "idle"]
At(p, label) == proc[p].pc = label

Init ==
  /\ now = 0
  /\ cache = [c \in CacheKeys |-> NoEntry]
  /\ proc = [p \in Procs |-> Idle]
  /\ answer = [p \in Procs |-> NoEntry]

-----------------------------------------------------------------------------
Getting(pc, ns, name, entry) ==
  [op |-> "get", pc |-> pc, ns |-> ns, name |-> name, entry |-> entry]

(* get(): the lookup.                                                      *)
Get(p, ns, name) ==
  LET found == cache[KeyOf(ns, name)] IN
  /\ At(p, "idle")
  /\ IF found = NoEntry
     THEN /\ proc' = [proc EXCEPT ![p] = Getting("done", ns, name, NoEntry)]
          /\ answer' = [answer EXCEPT ![p] = NoEntry]
     ELSE /\ proc' = [proc EXCEPT ![p] = Getting("judge", ns, name, found)]
          /\ UNCHANGED answer
  /\ UNCHANGED <<now, cache>>

(* Slip: the deadline is not looked at.                                    *)
Judge_Returns(p) ==
  /\ At(p, "judge")
  /\ proc' = [proc EXCEPT ![p].pc = "done"]
  /\ answer' = [answer EXCEPT ![p] = proc[p].entry]
  /\ UNCHANGED <<now, cache>>

Judge(p) ==
  /\ At(p, "judge")
  /\ IF IsExpired(proc[p].entry, now)
     THEN /\ proc' = [proc EXCEPT ![p].pc = "invalidate"]
          /\ UNCHANGED answer
     ELSE /\ proc' = [proc EXCEPT ![p].pc = "done"]
          /\ answer' = [answer EXCEPT ![p] = proc[p].entry]
  /\ UNCHANGED <<now, cache>>

(* Whatever is at the key by now goes.                                     *)
Invalidate(p) ==
  /\ At(p, "invalidate")
  /\ cache' = [cache EXCEPT ![KeyOf(proc[p].ns, proc[p].name)] = NoEntry]
  /\ proc' = [proc EXCEPT ![p].pc = "done"]
  /\ answer' = [answer EXCEPT ![p] = NoEntry]
  /\ UNCHANGED now

-----------------------------------------------------------------------------
(* A remove under way notes that one of its keys was written since (a      *)
(* ghost).                                                                 *)
Removes(r, c) == r.op = "remove" /\ \E i \in 1..Len(r.batch) : KeyOf(r.ns, r.batch[i]) = c
NoteWrite(c) ==
  [q \in Procs |->
     IF Removes(proc[q], c) THEN [proc[q] EXCEPT !.since = @ \cup {c}] ELSE proc[q]]

Set(p, ns, name, x) ==
  /\ At(p, "idle")
  /\ cache' = [cache EXCEPT ![KeyOf(ns, name)] = x]
  /\ proc' = [NoteWrite(KeyOf(ns, name)) EXCEPT ![p] =
                [op |-> "set", pc |-> "done", ns |-> ns, name |-> name]]
  /\ UNCHANGED <<now, answer>>

(* Slip: the loop runs once more after the last key.                       *)
Removing_OnceMore(ns, batch, todo, since) ==
  [op |-> "remove", pc |-> "remove", ns |-> ns, batch |-> batch, todo |-> todo, since |-> since]

Removing(ns, batch, todo, since) ==
  [op |-> "remove", pc |-> IF todo = <<>> THEN "done" ELSE "remove",
   ns |-> ns, batch |-> batch, todo |-> todo, since |-> since]

Remove(p, ns, batch) ==
  /\ At(p, "idle")
  /\ proc' = [proc EXCEPT ![p] = Removing(ns, batch, batch, {})]
  /\ UNCHANGED <<now, cache, answer>>

(* Slip: the loop returns after its first key.                             *)
RemoveNext_First(p) ==
  LET r == proc[p] IN
  /\ At(p, "remove")
  /\ cache' = [cache EXCEPT ![KeyOf(r.ns, Head(r.todo))] = NoEntry]
  /\ proc' = [proc EXCEPT ![p] = Removing(r.ns, r.batch, <<>>, r.since)]
  /\ UNCHANGED <<now, answer>>

RemoveNext(p) ==
  LET r == proc[p] IN
  /\ At(p, "remove")
  /\ cache' = [cache EXCEPT ![KeyOf(r.ns, Head(r.todo))] = NoEntry]
  /\ proc' = [proc EXCEPT ![p] = Removing(r.ns, r.batch, Tail(r.todo), r.since)]
  /\ UNCHANGED <<now, answer>>

Return(p) ==
  /\ At(p, "done")
  /\ proc' = [proc EXCEPT ![p] = Idle]
  /\ UNCHANGED <<now, cache, answer>>

-----------------------------------------------------------------------------
(* A client drops its future where it waits for Moka.                      *)
Abandon(p) ==
  /\ proc[p].pc \in {"invalidate", "remove"}
  /\ proc' = [proc EXCEPT ![p] = Idle]
  /\ UNCHANGED <<now, cache, answer>>

(* max_capacity, time_to_live, time_to_idle.                               *)
Evict(c) ==
  /\ cache[c] # NoEntry
  /\ cache' = [cache EXCEPT ![c] = NoEntry]
  /\ UNCHANGED <<now, proc, answer>>

Tick ==
  /\ now < MaxTime
  /\ now' = now + 1
  /\ UNCHANGED <<cache, proc, answer>>

Inside ==
  \/ \E p \in Procs, ns \in Spaces, name \in Names :
       Get(p, ns, name) \/ \E x \in Inputs[ns] : Set(p, ns, name, x)
  \/ \E p \in Procs, ns \in Spaces, batch \in Batches : Remove(p, ns, batch)
  \/ \E p \in Procs : Judge(p) \/ Invalidate(p) \/ RemoveNext(p) \/ Abandon(p)
  \/ \E c \in CacheKeys : Evict(c)
  \/ Tick

Next == Inside \/ \E p \in Procs : Return(p)

Spec == Init /\ [][Next]_vars

-----------------------------------------------------------------------------
(* The type invariant of moka.rs.                                          *)
Here == UNION {Inputs[ns] : ns \in Spaces}
Call ==
  {Idle}
    \cup [op : {"get"}, pc : {"judge", "invalidate", "done"}, ns : Spaces, name : Names,
          entry : Here \cup {NoEntry}]
    \cup [op : {"set"}, pc : {"done"}, ns : Spaces, name : Names]
    \cup [op : {"remove"}, pc : {"remove", "done"}, ns : Spaces,
          batch : Seq(Names), todo : Seq(Names), since : SUBSET CacheKeys]
TypeOK ==
  /\ now \in 0..MaxTime
  /\ cache \in [CacheKeys -> Here \cup {NoEntry}]
  /\ proc \in [Procs -> Call]
  /\ \A p \in Procs : /\ proc[p].pc \in {"judge", "invalidate"} => proc[p].entry # NoEntry
                      /\ At(p, "remove") => proc[p].todo # <<>>
  /\ answer \in [Procs -> Here \cup {NoEntry}]

(* "Each cache is isolated by a namespace string" and "the same store      *)
(* instances can be reused across multiple Cache<V> instances with         *)
(* different types" (cache.rs:13-16).  So far as the code does it: what a  *)
(* get finds is of the type of the cache that asks, or else namespace and  *)
(* key of another cache, of another type, are spelled alike once a colon   *)
(* joins them (utils.rs:9-11), as "a", "b:c" and "a:b", "c" are.           *)
SpelledAlike(a, b) == a[1] \o a[2] = b[1] \o b[2]
NoTypeConfusion ==
  \A p \in Procs : At(p, "done") /\ proc[p].op = "get" /\ answer[p] # NoEntry =>
    \/ IntoTyped(answer[p], TypeOf[proc[p].ns]) # NoEntry
    \/ \E a \in Addresses : /\ SpelledAlike(a, <<proc[p].ns, proc[p].name>>)
                           /\ TypeOf[a[1]] # TypeOf[proc[p].ns]

(* Once a remove has gone through its keys, only a key set since it began, *)
(* in whatever spelling, is there still (moka.rs:132-139); until it        *)
(* returns the others stay away.                                           *)
RemoveRemoves ==
  \A p \in Procs : At(p, "done") /\ proc[p].op = "remove" =>
    \A i \in 1..Len(proc[p].batch) :
      LET c == KeyOf(proc[p].ns, proc[p].batch[i]) IN
      cache[c] # NoEntry => c \in proc[p].since

(* MokaStore is a LossyStore over its composite keys (utils.rs:9-11),      *)
(* whoever shares them.  A get in progress is one more place where an      *)
(* entry may be.                                                           *)
Held == [c \in CacheKeys |->
  ({cache[c]} \ {NoEntry})
    \cup {proc[p].entry : p \in {q \in Procs :
            At(q, "judge") /\ KeyOf(proc[q].ns, proc[q].name) = c}}]

Contract == INSTANCE LossyStore WITH
  held <- Held, Keys <- CacheKeys, Inputs <- [c \in CacheKeys |-> Brought(c)],
  KeepsExpired <- {}, Depth <- Cardinality(Procs) + 1
ImplementsStore == Contract!Spec
==============================================================================
