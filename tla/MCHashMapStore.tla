--------------------------- MODULE MCHashMapStore ---------------------------
(* Constants for model-checking HashMapStore on small instances.           *)
EXTENDS HashMapStore, TLC

(* The store never looks at the value or at fresh_until; three deadlines   *)
(* order the evictions.                                                    *)
OneValue == [k \in Keys |-> [value : {0}, fresh_until : {0}, stale_until : 1..3]]

Interchangeable == Permutations(Procs) \cup Permutations(Keys)
=============================================================================
