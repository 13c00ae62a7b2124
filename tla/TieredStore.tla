----------------------------- MODULE TieredStore -----------------------------
(***************************************************************************)
(* TieredStore of src/tiered.rs: a get asks the tiers in order and, on a   *)
(* hit below the first, spawns a task that fills the tiers above; set and  *)
(* remove go to all tiers at once and wait for all of them.  Every request *)
(* to a tier is a step of its own, may fail, and interleaves with those of *)
(* other calls and tasks, and so is the spawning of a backfill after the   *)
(* tier's reply; a tier may lose what it holds.                            *)
(***************************************************************************)
EXTENDS Naturals, FiniteSets

CONSTANTS
  Callers,    \* calls that can be open at once
  Fills,      \* backfill tasks that can run at once (a bound)
  Keys,       \* composite keys
  Inputs,     \* Inputs[k]: the entries clients write at a key
  NoEntry,    \* what Option::None is for an entry
  Depth,      \* how many tiers there are
  Faults,     \* "get", "set", "remove": a tier's error; "abandon": a dropped call
  Losses      \* may a tier lose entries (eviction, TTL)?

Tiers == 1..Depth
Kinds == {"none", "remove", "read", "fill", "set"}
Unsettled == [settled |-> FALSE]

Entries == UNION {Inputs[k] : k \in Keys}

ASSUME DepthAssumption == Depth \in Nat
ASSUME FiniteAssumption == IsFiniteSet(Callers) /\ IsFiniteSet(Fills)
ASSUME EntriesAssumption == NoEntry \notin Entries /\ Unsettled \notin Entries \cup {NoEntry}
ASSUME SwitchAssumption ==
  Losses \in BOOLEAN /\ Faults \subseteq {"get", "set", "remove", "abandon"}

VARIABLES
  tier,      \* what each tier holds, per key
  call,      \* the client calls
  fill,      \* the backfill tasks
  settled    \* ghost: what the last write of a key left, if nothing overlapped it

vars == <<tier, call, fill, settled>>

(* A call: `next` is the tier a get asks next, `todo` the tiers that have  *)
(* not answered a write, `failed` whether one of them answered an error.   *)
(* `entry` is what it writes or, once it has returned, what a get found; a *)
(* get is at "found" from the reply of a tier below the first to the       *)
(* spawning of its backfill.  Ghost: the gravest other writer that         *)
(* overlapped it on one of its keys ("read": a get that is at "found").    *)
Call == [op : {"idle", "get", "found", "set", "remove"}, keys : SUBSET Keys,
         entry : Entries \cup {NoEntry}, next : 1..(Depth + 1), todo : SUBSET Tiers,
         failed : BOOLEAN, overlap : Kinds]

NewCall(op, K, e, todo, overlap) ==
  [op |-> op, keys |-> K, entry |-> e, next |-> 1,
   todo |-> todo, failed |-> FALSE, overlap |-> overlap]

Answered(e) == NewCall("idle", {}, e, {}, "none")
IdleCall == Answered(NoEntry)

Gravest(kinds) ==
  IF "set" \in kinds THEN "set" ELSE IF "fill" \in kinds THEN "fill"
  ELSE IF "read" \in kinds THEN "read" ELSE IF "remove" \in kinds THEN "remove" ELSE "none"

(* A backfill: `entry` goes to the tiers from `next` to the one before     *)
(* `hit`, where it was found.                                              *)
Fill == [keys : SUBSET Keys, entry : Entries \cup {NoEntry},
         next : 1..(Depth + 1), hit : 1..(Depth + 1)]
IdleFill == [keys |-> {}, entry |-> NoEntry, next |-> 1, hit |-> 1]

Onward(r) == [r EXCEPT !.next = @ + 1]

At(c, op) == call[c].op = op
IdleFills == {f \in Fills : fill[f].keys = {}}

Writer(c) == At(c, "set") \/ At(c, "remove")
WritersOf(K) == {c \in Callers : Writer(c) /\ call[c].keys \cap K # {}}
FillsOf(K) == {f \in Fills : fill[f].keys \cap K # {}}
ReadersOf(K) == {c \in Callers : At(c, "found") /\ call[c].keys \cap K # {}}

(* What else writes, or is about to write, at keys K.                      *)
Others(K) == {call[c].op : c \in WritersOf(K)} \cup {"fill" : f \in FillsOf(K)}
               \cup {"read" : c \in ReadersOf(K)}

(* The other calls, when a writer of the given kind sets out on keys K.    *)
Overlapped(kind, K) ==
  [d \in Callers |-> IF d \in WritersOf(K)
                     THEN [call[d] EXCEPT !.overlap = Gravest({@, kind})]
                     ELSE call[d]]

(* Every open get keeps an idle task it may need, so that the bound on     *)
(* Fills never blocks one.                                                 *)
HasRoom ==
  Cardinality({c \in Callers : At(c, "get") \/ At(c, "found")}) < Cardinality(IdleFills)

Init ==
  /\ tier = [i \in Tiers |-> [k \in Keys |-> NoEntry]]
  /\ call = [c \in Callers |-> IdleCall]
  /\ fill = [f \in Fills |-> IdleFill]
  /\ settled = [k \in Keys |-> NoEntry]

-----------------------------------------------------------------------------
(* get(): tier after tier until one hits, fails, or none is left.          *)
Get(c, k) ==
  /\ call[c] = IdleCall /\ Depth > 0 /\ HasRoom
  /\ call' = [call EXCEPT ![c] = NewCall("get", {k}, NoEntry, {}, "none")]
  /\ UNCHANGED <<tier, fill, settled>>

Asking(c, k) == At(c, "get") /\ call[c].keys = {k}

TierMisses(c, k) ==
  /\ Asking(c, k)
  /\ tier[call[c].next][k] = NoEntry
  /\ call' = [call EXCEPT ![c] = IF @.next = Depth THEN IdleCall
                                 ELSE Onward(@)]
  /\ UNCHANGED <<tier, fill, settled>>

TierFailsGet(c) ==
  /\ "get" \in Faults
  /\ At(c, "get")
  /\ call' = [call EXCEPT ![c] = IdleCall]
  /\ UNCHANGED <<tier, fill, settled>>

TopTierHits(c, k) ==
  /\ Asking(c, k)
  /\ call[c].next = 1 /\ tier[1][k] # NoEntry
  /\ call' = [call EXCEPT ![c] = Answered(tier[1][k])]
  /\ UNCHANGED <<tier, fill, settled>>

(* Below the top the reply is under way while other calls go on: only the  *)
(* next step of the get spawns the backfill and returns.                   *)
LowerTierHits(c, k) ==
  /\ Asking(c, k)
  /\ call[c].next > 1 /\ tier[call[c].next][k] # NoEntry
  /\ call' = [Overlapped("read", {k}) EXCEPT
       ![c] = [@ EXCEPT !.op = "found", !.entry = tier[call[c].next][k]]]
  /\ UNCHANGED <<tier, fill, settled>>

(* Slip: the task starts one tier too far down.                            *)
Backfill_SkipsTop(c, k, f) ==
  /\ At(c, "found") /\ call[c].keys = {k} /\ f \in IdleFills
  /\ fill' = [fill EXCEPT ![f] = [keys |-> {k}, entry |-> call[c].entry,
                                  next |-> 2, hit |-> call[c].next]]
  /\ call' = [Overlapped("fill", {k}) EXCEPT ![c] = Answered(call[c].entry)]
  /\ UNCHANGED <<tier, settled>>

Backfill(c, k, f) ==
  /\ At(c, "found") /\ call[c].keys = {k} /\ f \in IdleFills
  /\ fill' = [fill EXCEPT ![f] = [keys |-> {k}, entry |-> call[c].entry,
                                  next |-> 1, hit |-> call[c].next]]
  /\ call' = [Overlapped("fill", {k}) EXCEPT ![c] = Answered(call[c].entry)]
  /\ UNCHANGED <<tier, settled>>

(* The client takes what the get found.                                    *)
Return(c) ==
  /\ At(c, "idle") /\ call[c] # IdleCall
  /\ call' = [call EXCEPT ![c] = IdleCall]
  /\ UNCHANGED <<tier, fill, settled>>

(* Slip: the conversion for the tier's mode stamps the entry anew.         *)
FillTier_Restamps(f, k) ==
  /\ fill[f].keys = {k}
  /\ tier' = [tier EXCEPT ![fill[f].next][k] = [fill[f].entry EXCEPT !.stale_until = @ + 1]]
  /\ fill' = [fill EXCEPT ![f] = IF @.next + 1 = @.hit THEN IdleFill
                                 ELSE Onward(@)]
  /\ UNCHANGED <<call, settled>>

(* The spawned task fills one tier after the other; a tier that fails, or  *)
(* whose conversion fails, is skipped.                                     *)
FillTier(f, k) ==
  /\ fill[f].keys = {k}
  /\ \/ tier' = [tier EXCEPT ![fill[f].next][k] = fill[f].entry]
     \/ "set" \in Faults /\ UNCHANGED tier
  /\ fill' = [fill EXCEPT ![f] = IF @.next + 1 = @.hit THEN IdleFill
                                 ELSE Onward(@)]
  /\ UNCHANGED <<call, settled>>

-----------------------------------------------------------------------------
(* set() and remove(): all tiers in parallel, join_all, first error.       *)
(* Slip: a remove goes to the first tier alone.                            *)
Begin_TopOnly(c, op, K, e) ==
  /\ call[c] = IdleCall
  /\ call' = [Overlapped(op, K) EXCEPT ![c] =
       NewCall(op, K, e, IF op = "remove" THEN {1} ELSE Tiers, Gravest(Others(K)))]
  /\ settled' = [k \in Keys |-> IF k \in K THEN Unsettled ELSE settled[k]]
  /\ UNCHANGED <<tier, fill>>

Begin(c, op, K, e) ==
  /\ call[c] = IdleCall
  /\ call' = [Overlapped(op, K) EXCEPT ![c] =
       NewCall(op, K, e, Tiers, Gravest(Others(K)))]
  /\ settled' = [k \in Keys |-> IF k \in K THEN Unsettled ELSE settled[k]]
  /\ UNCHANGED <<tier, fill>>

Taken(c, i) == [tier EXCEPT ![i] =
  [k \in Keys |-> IF k \in call[c].keys THEN call[c].entry ELSE tier[i][k]]]

WriteTier(c, i) ==
  /\ Writer(c) /\ i \in call[c].todo
  /\ tier' = Taken(c, i)
  /\ call' = [call EXCEPT ![c].todo = @ \ {i}]
  /\ UNCHANGED <<fill, settled>>

(* A tier across a network may have done what it answers an error to.      *)
TierFailsWrite(c, i) ==
  /\ Writer(c) /\ i \in call[c].todo /\ call[c].op \in Faults
  /\ tier' \in {tier, Taken(c, i)}
  /\ call' = [call EXCEPT ![c].todo = @ \ {i}, ![c].failed = TRUE]
  /\ UNCHANGED <<fill, settled>>

(* Slip: the call returns with the first tier's answer (a race, not a join).*)
Finish_First(c) ==
  /\ Writer(c) /\ call[c].todo # Tiers
  /\ settled' = IF call[c].failed \/ call[c].overlap # "none" THEN settled
                ELSE [k \in Keys |-> IF k \in call[c].keys THEN call[c].entry ELSE settled[k]]
  /\ call' = [call EXCEPT ![c] = IdleCall]
  /\ UNCHANGED <<tier, fill>>

Finish(c) ==
  /\ Writer(c) /\ call[c].todo = {}
  /\ settled' = IF call[c].failed \/ call[c].overlap # "none" THEN settled
                ELSE [k \in Keys |-> IF k \in call[c].keys THEN call[c].entry ELSE settled[k]]
  /\ call' = [call EXCEPT ![c] = IdleCall]
  /\ UNCHANGED <<tier, fill>>

-----------------------------------------------------------------------------
(* A client drops a call's future at an await; a tier evicts or expires.   *)
Abandon(c) ==
  /\ "abandon" \in Faults
  /\ At(c, "get") \/ At(c, "found") \/ (Writer(c) /\ call[c].todo # {})
  /\ call' = [call EXCEPT ![c] = IdleCall]
  /\ UNCHANGED <<tier, fill, settled>>

TierLoses(i, k) ==
  /\ Losses
  /\ tier[i][k] # NoEntry
  /\ tier' = [tier EXCEPT ![i][k] = NoEntry]
  /\ UNCHANGED <<call, fill, settled>>

Next ==
  \/ \E c \in Callers, k \in Keys :
       \/ Get(c, k) \/ TierMisses(c, k) \/ TopTierHits(c, k) \/ LowerTierHits(c, k)
       \/ \E f \in Fills : Backfill(c, k, f)
       \/ \E e \in Inputs[k] : Begin(c, "set", {k}, e)
  \/ \E c \in Callers, K \in SUBSET Keys : Begin(c, "remove", K, NoEntry)
  \/ \E c \in Callers : TierFailsGet(c) \/ Return(c) \/ Finish(c) \/ Abandon(c)
  \/ \E c \in Callers, i \in Tiers : WriteTier(c, i) \/ TierFailsWrite(c, i)
  \/ \E f \in Fills, k \in Keys : FillTier(f, k)
  \/ \E i \in Tiers, k \in Keys : TierLoses(i, k)

Spec == Init /\ [][Next]_vars

-----------------------------------------------------------------------------
(* The type invariant of tiered.rs: its calls and tasks, and what each     *)
(* tier holds, with what a call or task at work knows of its locals.       *)
TypeOK ==
  /\ tier \in [Tiers -> [Keys -> Entries \cup {NoEntry}]]
  /\ call \in [Callers -> Call]
  /\ fill \in [Fills -> Fill]
  /\ settled \in [Keys -> Entries \cup {NoEntry, Unsettled}]
  /\ \A c \in Callers :
       /\ At(c, "get") => call[c].next \in Tiers
       /\ At(c, "found") => call[c].next \in 2..Depth /\ call[c].entry \in Entries
  /\ \A f \in Fills :
       fill[f].keys # {} =>
         fill[f].entry \in Entries /\ fill[f].hit \in Tiers /\ fill[f].next < fill[f].hit

MayBeLost == IF Losses THEN {NoEntry} ELSE {}

(* A key whose last set or remove returned Ok with no other writer of that *)
(* key overlapping it, nor a get that had found the key below the top and  *)
(* not spawned its backfill yet, reads the same in every tier, up to       *)
(* entries a tier lost, whatever failed, was dropped or was filled before  *)
(* or since (tiered.rs:116-172, 65-106).                                   *)
SettledTiersAgree ==
  \A i \in Tiers, k \in Keys :
    settled[k] # Unsettled => tier[i][k] \in {settled[k]} \cup MayBeLost

(* "Removes the key(s) from the store" (store.rs:43): after a remove       *)
(* returns Ok, with no set of the key in flight, no tier holds it.         *)
RemoveRemoves ==
  [][\A c \in Callers :
       At(c, "remove") /\ call[c].todo = {} /\ ~call[c].failed
         /\ call[c].overlap # "set" /\ call'[c] # call[c]
         => \A i \in Tiers, k \in call[c].keys : tier[i][k] = NoEntry]_vars

(* Next to a set, only a backfill can undo a remove: where neither met it, *)
(* whatever other removes, losses and gets did (also a get that has found  *)
(* the key and not spawned its backfill yet), no tier holds its keys once  *)
(* all have answered it Ok (tiered.rs:65-106, 146-172).                    *)
OnlyFillsUndoRemoves ==
  \A c \in Callers :
    At(c, "remove") /\ call[c].todo = {} /\ ~call[c].failed
      /\ call[c].overlap \notin {"fill", "set"}
      => \A i \in Tiers, k \in call[c].keys : tier[i][k] = NoEntry

(* TieredStore is a LossyStore: an entry may be in any tier, on its way    *)
(* there in a set or a backfill, or in the hands of a get that has found   *)
(* it.  Which entries have expired is for the tiers to say.                *)
Carrier(c) == At(c, "found") \/ call[c].todo # {}
Held == [k \in Keys |->
  ({tier[i][k] : i \in Tiers}
     \cup {fill[f].entry : f \in FillsOf({k})}
     \cup {call[c].entry : c \in {d \in Callers : Carrier(d) /\ k \in call[d].keys}})
  \ {NoEntry}]

Answer == [c \in Callers |-> IF At(c, "idle") THEN call[c].entry ELSE NoEntry]

Contract == INSTANCE LossyStore WITH
  Procs <- Callers, MaxTime <- 0, KeepsExpired <- Keys,
  Depth <- Depth + Cardinality(Fills) + Cardinality(Callers),
  now <- 0, held <- Held, answer <- Answer
ImplementsStore == Contract!Spec

-----------------------------------------------------------------------------
(* The inductive invariant: a settled key has no writer, and every         *)
(* backfill and every get about to spawn one carries what its tiers hold;  *)
(* a writer nothing overlapped has its keys to itself and its entry in     *)
(* every tier that answered it; a remove that met neither a set nor a      *)
(* backfill has emptied those tiers.                                       *)
Quiet ==
  \A k \in Keys : settled[k] # Unsettled =>
    /\ \A c \in Callers : Writer(c) => k \notin call[c].keys
    /\ \A c \in Callers : At(c, "found") /\ k \in call[c].keys => call[c].entry = settled[k]
    /\ \A f \in Fills : k \in fill[f].keys => fill[f].entry = settled[k]

Alone ==
  \A c \in Callers : Writer(c) /\ call[c].overlap = "none" =>
    \A k \in call[c].keys :
      /\ \A d \in Callers : Writer(d) /\ k \in call[d].keys => d = c
      /\ \A d \in Callers : At(d, "found") => k \notin call[d].keys
      /\ \A f \in Fills : k \notin fill[f].keys
      /\ ~call[c].failed =>
           \A i \in Tiers \ call[c].todo : tier[i][k] \in {call[c].entry} \cup MayBeLost

Gone(c, k) ==
  /\ \A d \in Callers : At(d, "set") => k \notin call[d].keys
  /\ \A f \in Fills : k \notin fill[f].keys
  /\ ~call[c].failed => \A i \in Tiers \ call[c].todo : tier[i][k] = NoEntry
Emptying(c) ==
  /\ call[c].entry = NoEntry
  /\ call[c].overlap \notin {"fill", "set"} => \A k \in call[c].keys : Gone(c, k)
Emptied == \A c \in Callers : At(c, "remove") => Emptying(c)

IInv == TypeOK /\ SettledTiersAgree /\ Quiet /\ Alone /\ Emptied
=============================================================================
