---------------------------- MODULE MetricsStore ----------------------------
(***************************************************************************)
(* MetricsStore of src/stores/metrics.rs around a MokaStore: when a call   *)
(* of the inner store is done, its metric is made up and handed to the     *)
(* sink before the call returns.  A read looks at the clock once more.     *)
(* The key, tier and latency a metric carries are left out.                *)
(***************************************************************************)
EXTENDS MokaStore

VARIABLES
  metric,  \* what each caller's last call emitted, none during a call
  start    \* when that call began, if it is a read

NoMetric == [kind |-> "none"]

MetricsInit ==
  /\ Init
  /\ metric = [p \in Procs |-> NoMetric]
  /\ start = [p \in Procs |-> 0]

(* Slip: an entry is stale a moment before its time.                       *)
StatusOf_Early(x) == IF now + 1 < x.fresh_until THEN "fresh" ELSE "stale"

(* None for an entry that expired after the inner store looked.            *)
StatusOf(x) == LET s == Status(x, now) IN IF s = "expired" THEN "none" ELSE s

(* get, set and remove emit a Read, a Write and a Remove.                  *)
Metric(p) ==
  IF proc[p].op # "get" THEN [kind |-> proc[p].op]
  ELSE IF answer[p] # NoEntry
       THEN [kind |-> "get", hit |-> TRUE, status |-> StatusOf(answer[p])]
       ELSE [kind |-> "get", hit |-> FALSE, status |-> "none"]

Emit(p) ==
  /\ Return(p)
  /\ metric' = [metric EXCEPT ![p] = Metric(p)]
  /\ UNCHANGED start

(* A call goes on inside the inner store, or begins.                       *)
Measure ==
  /\ Inside
  /\ metric' = [p \in Procs |-> IF proc'[p] = Idle THEN metric[p] ELSE NoMetric]
  /\ start' = [p \in Procs |->
                 IF proc[p] # Idle \/ proc'[p] = Idle THEN start[p]
                 ELSE IF proc'[p].op = "get" THEN now ELSE 0]

MetricsNext == Measure \/ \E p \in Procs : Emit(p)

MetricsSpec == MetricsInit /\ [][MetricsNext]_<<vars, metric, start>>

-----------------------------------------------------------------------------
(* A read's metric fits what the read returned, though the inner store     *)
(* looked at an earlier clock (metrics.rs:189-203): a hit if and only if   *)
(* there was an entry, and with a hit the status the entry had at some     *)
(* moment since the call began, none if it had expired.                    *)
Had(x, status, t) ==
  \/ status = "fresh" /\ IsFresh(x, t)
  \/ status = "stale" /\ IsStale(x, t)
  \/ status = "none" /\ IsExpired(x, t)
MetricTellsTruth ==
  \A p \in Procs : LET m == metric[p] IN m.kind = "get" =>
    /\ m.hit <=> answer[p] # NoEntry
    /\ ~m.hit => m.status = "none"
    /\ m.hit => \E t \in start[p]..now : Had(answer[p], m.status, t)
=============================================================================
