------------------------- MODULE MetricsStoreProofs -------------------------
(* Proofs about MetricsStore, on those about the MokaStore it wraps.       *)
EXTENDS MetricsStore, MokaStoreProofs

LEMMA InnerStore == MetricsSpec => Spec
<1>1. MetricsInit => Init
  BY DEF MetricsInit
<1>2. [MetricsNext]_<<vars, metric, start>> => [Next]_vars
  BY DEF MetricsNext, Measure, Emit, Next
<1> QED
  BY <1>1, <1>2, PTL DEF MetricsSpec, Spec

-----------------------------------------------------------------------------
(* A caller that has a metric is between two calls.                        *)
MInv ==
  /\ DOMAIN metric = Procs /\ DOMAIN start = Procs
  /\ \A p \in Procs : start[p] \in Int /\ start[p] <= now
  /\ \A p \in Procs : metric[p].kind = "get" => At(p, "idle")
  /\ MetricTellsTruth

LEMMA AnswersKept ==
  ASSUME TypeOK, Inside, NEW p \in Procs, At(p, "idle"), proc'[p] = Idle
  PROVE  answer'[p] = answer[p]
<1>0. /\ answer \in [Procs -> Here \cup {NoEntry}] /\ DOMAIN proc = Procs
      /\ Idle.pc = "idle"
  BY DEF TypeOK, Idle
<1>1. ASSUME NEW q \in Procs, NEW ns \in Spaces, NEW name \in Names, Get(q, ns, name)
      PROVE  answer'[p] = answer[p]
  <2>1. CASE q = p
    <3>1. \E e : proc'[p] = Getting("done", ns, name, NoEntry) \/ proc'[p] = Getting("judge", ns, name, e)
      BY <1>0, <1>1, <2>1 DEF Get
    <3> QED
      BY <1>0, <3>1 DEF Getting
  <2>2. CASE q # p
    BY <1>0, <1>1, <2>2 DEF Get
  <2> QED
    BY <2>1, <2>2
<1>2. ASSUME NEW q \in Procs, Judge(q) \/ Invalidate(q) PROVE answer'[p] = answer[p]
  <2>1. q # p
    BY <1>2 DEF Judge, Invalidate, At
  <2> QED
    BY <1>0, <1>2, <2>1 DEF Judge, Invalidate
<1>3. CASE UNCHANGED answer
  BY <1>3
<1> QED
  BY <1>1, <1>2, <1>3 DEF Inside, Set, Remove, RemoveNext, Abandon, Evict, Tick

LEMMA TimePasses ==
  ASSUME TypeOK, Inside \/ UNCHANGED now
  PROVE  now \in Int /\ now' \in Int /\ now <= now'
<1>1. now \in Int
  BY MokaBounds DEF TypeOK
<1>2. now' = now \/ now' = now + 1
  BY DEF Inside, Get, Set, Remove, Judge, Invalidate, RemoveNext, Abandon, Evict, Tick
<1> QED
  BY <1>1, <1>2

LEMMA Deadlines ==
  ASSUME TypeOK, NEW p \in Procs, answer[p] # NoEntry
  PROVE  answer[p].fresh_until \in Int /\ answer[p].stale_until \in Int
<1>1. answer[p] \in Here
  BY DEF TypeOK
<1>2. answer[p] \in StoredEntry
  BY <1>1, MokaInputsAssumption DEF Here
<1> QED
  BY <1>2 DEF StoredEntry

(* What one metric has to do with its answer, from a call's start to now.  *)
Fits(m, e, began, t) ==
  /\ m.hit <=> e # NoEntry
  /\ ~m.hit => m.status = "none"
  /\ m.hit => \E u \in began..t : Had(e, m.status, u)

LEMMA EmitInv ==
  ASSUME TypeOK, MInv, NEW p \in Procs, Emit(p)
  PROVE  MInv'
<1>1. /\ UNCHANGED <<now, answer, start>> /\ metric' = [metric EXCEPT ![p] = Metric(p)]
      /\ proc' = [proc EXCEPT ![p] = Idle] /\ Idle.pc = "idle" /\ DOMAIN proc = Procs
  BY DEF Emit, Return, Idle, TypeOK
<1> DEFINE m == Metric(p)
<1>2. m.kind = "get" => Fits(m, answer[p], start[p], now)
  <2> SUFFICES ASSUME m.kind = "get" PROVE Fits(m, answer[p], start[p], now)
    OBVIOUS
  <2>1. proc[p].op = "get"
    BY DEF Metric
  <2>2. CASE answer[p] = NoEntry
    <3>1. m.hit = FALSE /\ m.status = "none"
      BY <2>1, <2>2 DEF Metric
    <3> QED
      BY <2>2, <3>1 DEF Fits
  <2>3. CASE answer[p] # NoEntry
    <3>1. m.hit = TRUE /\ m.status = StatusOf(answer[p])
      BY <2>1, <2>3 DEF Metric
    <3>2. now \in Int /\ answer[p].fresh_until \in Int /\ answer[p].stale_until \in Int
      BY <2>3, Deadlines, MokaBounds DEF TypeOK
    <3>3. Had(answer[p], StatusOf(answer[p]), now)
      BY <3>2 DEF StatusOf, Status, IsFresh, IsStale, IsExpired, Had
    <3>4. now \in start[p]..now
      BY <3>2 DEF MInv
    <3> QED
      BY <2>3, <3>1, <3>3, <3>4 DEF Fits
  <2> QED
    BY <2>2, <2>3
<1> HIDE DEF m
<1>3. DOMAIN metric' = Procs /\ \A q \in Procs : metric'[q] = IF q = p THEN m ELSE metric[q]
  BY <1>1 DEF MInv, m
<1>4. \A q \in Procs : proc'[q] = IF q = p THEN Idle ELSE proc[q]
  BY <1>1
<1>5. ASSUME NEW q \in Procs, metric'[q].kind = "get"
      PROVE  proc'[q].pc = "idle" /\ Fits(metric'[q], answer[q], start[q], now)
  <2>1. CASE q = p
    BY <1>1, <1>2, <1>3, <1>4, <1>5, <2>1
  <2>2. CASE q # p
    BY <1>3, <1>4, <1>5, <2>2 DEF MInv, MetricTellsTruth, At, Fits
  <2> QED
    BY <2>1, <2>2
<1>6. MetricTellsTruth'
  BY <1>1, <1>5 DEF MetricTellsTruth, Fits, Had, IsFresh, IsStale, IsExpired
<1> QED
  BY <1>1, <1>3, <1>5, <1>6 DEF MInv, At

LEMMA MeasureInv ==
  ASSUME TypeOK, MInv, Measure
  PROVE  MInv'
<1>1. /\ Inside /\ now \in Int /\ now' \in Int /\ now <= now'
      /\ metric' = [p \in Procs |-> IF proc'[p] = Idle THEN metric[p] ELSE NoMetric]
      /\ start' = [p \in Procs |-> IF proc[p] # Idle \/ proc'[p] = Idle THEN start[p]
                                  ELSE IF proc'[p].op = "get" THEN now ELSE 0]
  BY TimePasses DEF Measure
<1>2. ASSUME NEW p \in Procs
      PROVE  /\ start'[p] \in Int /\ start'[p] <= now'
             /\ proc'[p] = Idle => start'[p] = start[p]
  <2>1. start'[p] \in {start[p], now, 0} /\ (proc'[p] = Idle => start'[p] = start[p])
    BY <1>1
  <2>2. 0 <= now
    BY MokaBounds DEF TypeOK
  <2> QED
    BY <1>1, <2>1, <2>2 DEF MInv
<1>3. ASSUME NEW p \in Procs, metric'[p].kind = "get"
      PROVE  /\ metric'[p] = metric[p] /\ proc'[p] = Idle /\ answer'[p] = answer[p]
             /\ start'[p] = start[p] /\ Fits(metric[p], answer[p], start[p], now)
  <2>1. metric'[p] = metric[p] /\ proc'[p] = Idle
    BY <1>1, <1>3 DEF NoMetric
  <2>2. At(p, "idle") /\ Fits(metric[p], answer[p], start[p], now)
    BY <1>3, <2>1 DEF MInv, MetricTellsTruth, Fits
  <2> QED
    BY <1>1, <1>2, <2>1, <2>2, AnswersKept
<1>4. ASSUME NEW p \in Procs, metric'[p].kind = "get"
      PROVE  Fits(metric'[p], answer'[p], start'[p], now')
  <2>1. \A u : u \in start[p]..now => u \in start[p]..now'
    BY <1>1 DEF MInv
  <2> QED
    BY <1>3, <1>4, <2>1 DEF Fits
<1>5. MetricTellsTruth'
  BY <1>4 DEF MetricTellsTruth, Fits, Had, IsFresh, IsStale, IsExpired
<1>6. DOMAIN metric' = Procs /\ DOMAIN start' = Procs
  BY <1>1
<1>7. \A p \in Procs : metric'[p].kind = "get" => proc'[p].pc = "idle"
  BY <1>3 DEF Idle
<1> QED
  BY <1>2, <1>5, <1>6, <1>7 DEF MInv, At

(* A read's metric tells of the entry that was returned, as it was at some *)
(* moment of the read.                                                     *)
THEOREM MetricsAreTrue == MetricsSpec => []MetricTellsTruth
<1>1. MetricsInit => MInv
  <2> SUFFICES ASSUME MetricsInit PROVE MInv
    OBVIOUS
  <2>1. now = 0 /\ \A p \in Procs : start[p] = 0 /\ metric[p].kind = "none"
    BY DEF MetricsInit, Init, NoMetric
  <2>2. MetricTellsTruth
    BY <2>1 DEF MetricTellsTruth
  <2> QED
    BY <2>1, <2>2 DEF MInv, MetricsInit
<1>2. TypeOK /\ MInv /\ [MetricsNext]_<<vars, metric, start>> => MInv'
  <2>1. CASE UNCHANGED <<vars, metric, start>>
    BY <2>1 DEF vars, MInv, MetricTellsTruth, At, Had, IsFresh, IsStale, IsExpired
  <2> QED
    BY <2>1, EmitInv, MeasureInv DEF MetricsNext
<1>3. MInv => MetricTellsTruth
  BY DEF MInv
<1> QED
  BY <1>1, <1>2, <1>3, InnerStore, TypeCorrect, PTL DEF MetricsSpec
=============================================================================
