---------------------------- MODULE MCRedisStore ----------------------------
(* Constants for model-checking RedisStore on small instances.             *)
EXTENDS RedisStore, TLC

CONSTANTS V, W

(* W's JSON parses as V too.                                                *)
MCReads == [T \in {V, W} |-> IF T = V THEN {V, W} ELSE {W}]

(* A typed entry, one in JSON that is stale from the start and expires     *)
(* between two seconds, and one without a serializer.                      *)
ThreeInputs == [k \in Keys |->
  {FromTypedWithSerializer(V, 0, 500, 2000),
   FromSerialized(W, NewEntry(1, 0, 1500), 0, 1500),
   FromTyped(V, 2, 500, 2000)}]

Interchangeable == Permutations(Procs)
=============================================================================
