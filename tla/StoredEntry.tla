----------------------------- MODULE StoredEntry -----------------------------
(***************************************************************************)
(* StoredEntry of src/entry.rs: an entry without its Rust type, either a   *)
(* typed value behind an Arc or the JSON of an Entry, with the deadlines   *)
(* once more beside it.  `data` is the Entry that the value or the JSON    *)
(* stands for; only a serialized entry may carry other deadlines than its  *)
(* data.  Every function that may fail returns NoEntry for its Err.        *)
(***************************************************************************)
EXTENDS Entry

CONSTANTS
  Types,   \* the types V of the caches that share a store
  Writes,  \* the types serde_json can write
  Reads    \* Reads[V]: the types whose JSON also parses as V

ASSUME SerdeAssumption ==
  /\ Writes \subseteq Types /\ Reads \in [Types -> SUBSET Types]
  /\ \A V \in Types : V \in Reads[V]

Modes == {"typed", "serialized"}
StoredEntry ==
  [mode : Modes, type : Types, data : Entry, fresh_until : Int, stale_until : Int,
   serializer : BOOLEAN]

ASSUME ErrAssumption == NoEntry \notin StoredEntry

Typed(V, value, fresh_until, stale_until, serializer) ==
  [mode |-> "typed", type |-> V, data |-> NewEntry(value, fresh_until, stale_until),
   fresh_until |-> fresh_until, stale_until |-> stale_until, serializer |-> serializer]

FromTyped(V, value, fresh_until, stale_until) ==
  Typed(V, value, fresh_until, stale_until, FALSE)
FromTypedWithSerializer(V, value, fresh_until, stale_until) ==
  Typed(V, value, fresh_until, stale_until, TRUE)
FromSerialized(V, data, fresh_until, stale_until) ==
  [mode |-> "serialized", type |-> V, data |-> data,
   fresh_until |-> fresh_until, stale_until |-> stale_until, serializer |-> FALSE]

(* A typed value must have the very type asked for; JSON need only parse.  *)
Readable(x, V) == IF x.mode = "typed" THEN x.type = V ELSE x.type \in Reads[V]
IntoTyped(x, V) == IF Readable(x, V) THEN x.data ELSE NoEntry

(* The closure of from_typed_with_serializer writes the deadlines it was   *)
(* built with.                                                             *)
ToSerialized(x) ==
  IF x.mode = "serialized" THEN x
  ELSE IF x.serializer /\ x.type \in Writes
       THEN FromSerialized(x.type, x.data, x.fresh_until, x.stale_until)
       ELSE NoEntry

(* JSON stays JSON in a store that prefers typed values.                   *)
ConvertForMode(x, target_mode) ==
  IF target_mode = "serialized" THEN ToSerialized(x) ELSE x

(* The deadlines beside the data decide; Entry's predicates read them.     *)
Status(x, now) ==
  IF IsFresh(x, now) THEN "fresh" ELSE IF IsStale(x, now) THEN "stale" ELSE "expired"

(* What SwrCache::set and cache_value hand to a store of the given mode.   *)
CacheEntry(mode, V, value, fresh_until, stale_until) ==
  IF mode = "typed" THEN FromTypedWithSerializer(V, value, fresh_until, stale_until)
  ELSE IF V \in Writes
       THEN FromSerialized(V, NewEntry(value, fresh_until, stale_until), fresh_until, stale_until)
       ELSE NoEntry

(* The two clocks agree: whoever reads the deadlines beside the data (the  *)
(* stores) and whoever decodes it (SwrCache) judge alike.                  *)
Coherent(x) == x.data.fresh_until = x.fresh_until /\ x.data.stale_until = x.stale_until
==============================================================================
