-------------------------------- MODULE Entry --------------------------------
(***************************************************************************)
(* The cache entry of src/entry.rs: a value and two wall-clock deadlines.  *)
(* A value is abstracted to the version of the origin's data it holds, so  *)
(* that "older" and "newer" are comparisons of natural numbers.            *)
(***************************************************************************)
EXTENDS Integers

CONSTANT NoEntry            \* what Option::None is for an Entry

Entry == [value : Nat, fresh_until : Int, stale_until : Int]

ASSUME NoEntryAssumption == NoEntry \notin Entry

NewEntry(value, fresh_until, stale_until) ==
  [value |-> value, fresh_until |-> fresh_until, stale_until |-> stale_until]

(* The deadlines a write at time `now` gives its entry. *)
StampedEntry(value, now, fresh_ms, stale_ms) ==
  NewEntry(value, now + fresh_ms, now + stale_ms)

IsFresh(e, now)   == now < e.fresh_until
IsStale(e, now)   == now >= e.fresh_until /\ now < e.stale_until
IsExpired(e, now) == now >= e.stale_until
==============================================================================
