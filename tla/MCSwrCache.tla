----------------------------- MODULE MCSwrCache -----------------------------
(* Constants for model-checking SwrCache on small instances.               *)
EXTENDS SwrCache, TLC

(* One step of the clock is the 100 ms a waiting call sleeps; an entry is  *)
(* fresh for one step, usable for two, so all three windows are reached.   *)
NoOptions == {}

(* Calls are interchangeable, and so are tasks: safety runs only.          *)
Interchangeable == Permutations(Callers) \cup Permutations(Tasks)
=============================================================================
