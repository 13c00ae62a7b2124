--------------------------- MODULE MCMetricsStore ---------------------------
(* Constants for model-checking MokaStore behind MetricsStore: two caches  *)
(* of different types, "a" and "a:k", which share a:k:k, the composite key *)
(* of the one's "k:k" and of the other's "k", but no other.                *)
EXTENDS MetricsStore, TLC

CONSTANTS V, W, a, k

MCReads == [T \in {V, W} |-> {T}]
TwoSpaces == {<<a>>, <<a, k>>}
TwoNames == {<<k>>, <<k, k>>}
MCTypeOf == <<a>> :> V @@ <<a, k>> :> W

(* A typed entry of one cache, one back-filled in JSON of the other.       *)
MCInputs ==
  <<a>> :> {CacheEntry("typed", V, 0, 1, 2)} @@ <<a, k>> :> {CacheEntry("serialized", W, 0, 0, 2)}
MCBatches == {<<>>, <<<<k, k>>, <<k>>>>}

Interchangeable == Permutations(Procs)
=============================================================================
