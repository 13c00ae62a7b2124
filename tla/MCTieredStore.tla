---------------------------- MODULE MCTieredStore ----------------------------
(* Constants for model-checking TieredStore on small instances.            *)
EXTENDS TieredStore, TLC

CONSTANT Data

(* Tiers do not look into an entry: its data tell two of them apart.       *)
MCInputs == [k \in Keys |-> [value : Data, fresh_until : {0}, stale_until : {1}]]

(* The tiers are not interchangeable: a get asks them in order.            *)
Interchangeable ==
  Permutations(Callers) \cup Permutations(Fills)
    \cup Permutations(Keys) \cup Permutations(Data)
=============================================================================
