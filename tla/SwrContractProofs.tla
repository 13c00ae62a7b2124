-------------------------- MODULE SwrContractProofs --------------------------
(***************************************************************************)
(* SwrCache keeps the client contract of SwrContract, for every value of   *)
(* its constants: a step of a call, a task or the environment is a step of *)
(* the contract or one that no client can tell.                            *)
(***************************************************************************)
EXTENDS SwrCacheProofs

-----------------------------------------------------------------------------
(* ClientCall as a function of the record of the call.                     *)
Apart(r) == r.pc \in {"idle", "put"}
Waiting(r) == ~Apart(r) /\ r.pc # "done"
View(r) ==
  IF Apart(r) THEN Contract!NoCall
  ELSE [stage |-> IF r.pc = "done" THEN "done" ELSE "open",
        key |-> r.key, since |-> r.since,
        got |-> IF r.pc = "done" THEN r.got ELSE None,
        source |-> IF r.pc = "done" THEN r.source ELSE "none"]

LEMMA OpenView ==
  ASSUME NEW r, Waiting(r)
  PROVE  View(r) = [stage |-> "open", key |-> r.key, since |-> r.since,
                    got |-> None, source |-> "none"]
<1>1. ~Apart(r) /\ ~(r.pc = "done")
  BY DEF Waiting
<1> QED
  BY <1>1 DEF View

LEMMA DoneView ==
  ASSUME NEW r, r.pc = "done"
  PROVE  View(r) = [stage |-> "done", key |-> r.key, since |-> r.since,
                    got |-> r.got, source |-> r.source]
<1>1. ~Apart(r)
  BY DEF Apart
<1> QED
  BY <1>1 DEF View

Views == [c \in Callers |-> ClientCall(c)]

LEMMA ViewsAre ==
  /\ \A c \in Callers : Views[c] = View(proc[c])
  /\ \A c \in Callers : Views'[c] = View(proc'[c])
  BY DEF Views, View, Apart, ClientCall, At, Contract!NoCall

(* A step of one client changes what that client sees, if anything.        *)
OnlyBy(c) == \A d \in Callers \ {c} : proc'[d] = proc[d]

LEMMA ViewsMove ==
  ASSUME NEW c \in Callers, OnlyBy(c)
  PROVE  Views' = [Views EXCEPT ![c] = View(proc'[c])]
<1>1. \A d \in Callers : Views'[d] = IF d = c THEN View(proc'[c]) ELSE Views[d]
  BY ViewsAre DEF OnlyBy
<1> QED
  BY <1>1 DEF Views

LEMMA ViewsStay ==
  ASSUME \A c \in Callers : proc'[c] = proc[c]
  PROVE  Views' = Views
<1>1. \A c \in Callers : Views'[c] = Views[c]
  BY ViewsAre
<1> QED
  BY <1>1 DEF Views

-----------------------------------------------------------------------------
(* The ways a client's call may move on.                                   *)
Goes(c, r) == OnlyBy(c) /\ proc'[c] = r /\ UNCHANGED origin

LEMMA Continues ==
  ASSUME NEW c \in Callers, NEW r, Goes(c, r), Waiting(proc[c]), Waiting(r),
         r.key = proc[c].key, r.since = proc[c].since
  PROVE  UNCHANGED Contract!vars
<1>1. View(r) = View(proc[c])
  BY DEF View, Waiting
<1>2. \A d \in Callers : Views'[d] = Views[d]
  BY <1>1, ViewsAre DEF Goes, OnlyBy
<1> QED
  BY <1>2 DEF Goes, Views, Contract!vars

LEMMA Leaves ==
  ASSUME NEW c \in Callers, NEW r, Goes(c, r), Apart(r)
  PROVE  Contract!Leave(c)
<1>1. Views' = [Views EXCEPT ![c] = Contract!NoCall]
  BY ViewsMove DEF Goes, View
<1> QED
  BY <1>1 DEF Goes, Views, Contract!Leave

(* The records an answer and an open call are.                             *)
With(w, g, f) == [w EXCEPT !.stage = "done", !.got = g, !.source = f]
Asked(k, s) == [stage |-> "open", key |-> k, since |-> s, got |-> None, source |-> "none"]

LEMMA ReplyRecord ==
  ASSUME NEW k, NEW s, NEW g, NEW f
  PROVE  With(Asked(k, s), g, f)
           = [stage |-> "done", key |-> k, since |-> s, got |-> g, source |-> f]
<1> DEFINE w == Asked(k, s)
           x == [w EXCEPT !.stage = "done"]
           y == [x EXCEPT !.got = g]
           z == [y EXCEPT !.source = f]
<1>1. x = [stage |-> "done", key |-> k, since |-> s, got |-> None, source |-> "none"]
  BY DEF Asked
<1> HIDE DEF x
<1>2. y = [stage |-> "done", key |-> k, since |-> s, got |-> g, source |-> "none"]
  BY <1>1
<1> HIDE DEF y
<1>3. z = [stage |-> "done", key |-> k, since |-> s, got |-> g, source |-> f]
  BY <1>2
<1> QED
  BY <1>3 DEF x, y, With

LEMMA Replies ==
  ASSUME NEW c \in Callers, NEW r, Goes(c, r), Waiting(proc[c]), r.pc = "done",
         r.key = proc[c].key, r.since = proc[c].since,
         r \in Proc, r.key \in Keys, CallOK(r, origin), origin \in [Keys -> Nat],
         r.source \in {"origin", "cache", "fallback"}
  PROVE  Contract!Reply(c)
<1> DEFINE asked == Asked(r.key, r.since)
           a == [got |-> r.got, source |-> r.source]
<1>1. /\ r.since \in Nat /\ r.got \in Nat \cup {None} /\ origin[r.key] \in Nat
      /\ r.got # None => r.got <= origin[r.key]
      /\ r.got = None => r.source = "origin"
      /\ r.source = "origin" /\ r.got # None => r.since <= r.got
  BY DEF CallOK, OfGet, Proc, Value
<1>2. a \in Contract!Answers(r.key, r.since)
  <2>1. CASE r.got = None
    BY <1>1, <2>1 DEF Contract!Answers
  <2>2. CASE r.got # None /\ r.source = "origin"
    BY <1>1, <2>2 DEF Contract!Answers
  <2>3. CASE r.got # None /\ r.source # "origin"
    BY <1>1, <2>3 DEF Contract!Answers
  <2> QED
    BY <2>1, <2>2, <2>3
<1>3. View(proc[c]) = asked
  BY OpenView DEF Asked
<1>4. View(r) = With(asked, a.got, a.source)
  BY DoneView, ReplyRecord
<1>5. asked.stage = "open" /\ asked.key = r.key /\ asked.since = r.since
  BY DEF Asked
<1> HIDE DEF asked, a
<1>6. Views[c] = asked
  BY <1>3, ViewsAre
<1>7. Views' = [Views EXCEPT ![c] = View(r)]
  BY ViewsMove DEF Goes
<1>8. Views' = [Views EXCEPT ![c] = [@ EXCEPT
                  !.stage = "done", !.got = a.got, !.source = a.source]]
  BY <1>4, <1>6, <1>7 DEF With
<1> QED
  BY <1>2, <1>5, <1>6, <1>8 DEF Goes, Views, Contract!Reply

-----------------------------------------------------------------------------
(* A call, or a call and the task it spawns, steps.                        *)
LEMMA CallGoes ==
  ASSUME IInv, NEW c \in Callers, NEW r, proc' = [proc EXCEPT ![c] = r], UNCHANGED origin
  PROVE  Goes(c, r)
BY DEF Goes, OnlyBy, IInv, TypeOK, Procs

LEMMA CallAndTask ==
  ASSUME IInv, NEW c \in Callers, NEW t \in Tasks, NEW r, NEW s,
         proc' = [proc EXCEPT ![c] = r, ![t] = s], UNCHANGED origin
  PROVE  Goes(c, r)
<1>1. proc \in [Procs -> Proc] /\ c \in Procs /\ t \in Procs /\ t \notin Callers
  BY Basics DEF IInv, TypeOK
<1> QED
  BY <1>1 DEF Goes, OnlyBy, Procs

Working == {"lookup", "classify", "dedup", "sleep", "mark", "load", "answered",
            "return", "set", "unmark"}

(* A call that stays at work on the same question shows its client nothing.*)
LEMMA StaysHidden ==
  ASSUME IInv, NEW c \in Callers, NEW r, proc' = [proc EXCEPT ![c] = r], UNCHANGED origin,
         proc[c].pc \in Working, r.pc \in Working,
         r.key = proc[c].key, r.since = proc[c].since
  PROVE  UNCHANGED Contract!vars
<1>1. Waiting(proc[c]) /\ Waiting(r)
  BY DEF Waiting, Apart, Working
<1> QED
  BY <1>1, CallGoes, Continues

LEMMA CallFacts ==
  ASSUME IInv, NEW c \in Callers
  PROVE  /\ c \in Procs /\ proc \in [Procs -> Proc] /\ proc[c] \in Proc
         /\ proc[c].pc # "idle" => proc[c].key \in Keys
         /\ proc[c].pc = "classify" => proc[c].entry \in Entry
         /\ CallOK(proc[c], origin) /\ origin \in [Keys -> Nat]
BY Basics DEF AllSound, Sound, LocalsOK

LEMMA LookupHidden ==
  ASSUME IInv, NEW c \in Callers, Lookup(c)
  PROVE  UNCHANGED Contract!vars
<1> DEFINE r == proc[c]
<1>1. proc \in [Procs -> Proc] /\ r \in Proc /\ r.pc = "lookup" /\ c \in Procs /\ r.key \in Keys
  BY CallFacts DEF Lookup, At
<1>2. PICK e \in GetResults(r.key) :
        proc' = [proc EXCEPT ![c] = [r EXCEPT
                   !.pc = IF e = NoEntry THEN "dedup" ELSE "classify", !.entry = e]]
  BY <1>1 DEF Lookup
<1>3. e \in Entry \cup {NoEntry}
  BY <1>1, GetResultsSound
<1> DEFINE l == IF e = NoEntry THEN "dedup" ELSE "classify"
           n == [r EXCEPT !.pc = l, !.entry = e]
<1>4. l \in Labels /\ l \in Working
  BY DEF Labels, Working
<1> HIDE DEF l, r
<1>5. n.pc = l /\ n.key = r.key /\ n.since = r.since
  BY <1>1, <1>3, <1>4 DEF Proc
<1>6. proc' = [proc EXCEPT ![c] = n]
  BY <1>2 DEF l
<1> HIDE DEF n
<1> QED
  BY <1>1, <1>4, <1>5, <1>6, StaysHidden DEF r, Lookup, Working

LEMMA ExpiredHitHidden ==
  ASSUME IInv, NEW c \in Callers, ExpiredHit(c)
  PROVE  UNCHANGED Contract!vars
<1> DEFINE r == proc[c]
           h == Holding(r)
           n == [h EXCEPT !.pc = "dedup"]
<1>1. /\ proc \in [Procs -> Proc] /\ r \in Proc /\ r.pc = "classify" /\ c \in Procs
      /\ r.entry \in Entry
  BY CallFacts DEF ExpiredHit, At
<1>2. proc' = [proc EXCEPT ![c] = n]
  BY <1>1 DEF ExpiredHit
<1> HIDE DEF r
<1>3. h \in Proc /\ h.key = r.key /\ h.since = r.since
  BY <1>1, HoldingFields
<1> HIDE DEF h
<1>4. n.pc = "dedup" /\ n.key = h.key /\ n.since = h.since
  BY <1>3, MoveFields DEF Labels
<1> HIDE DEF n
<1> QED
  BY <1>1, <1>2, <1>3, <1>4, StaysHidden DEF r, ExpiredHit, Working

LEMMA DedupHidden ==
  ASSUME IInv, NEW c \in Callers, Dedup(c)
  PROVE  UNCHANGED Contract!vars
<1> DEFINE r == proc[c]
           n == IF r.key \in revalidating
                THEN [r EXCEPT !.pc = "sleep", !.wake = WaitEnd]
                ELSE [r EXCEPT !.pc = "mark"]
<1>1. /\ proc \in [Procs -> Proc] /\ r \in Proc /\ r.pc = "dedup" /\ c \in Procs
      /\ WaitEnd \in Int
  BY CallFacts, Basics, BoundAssumption DEF Dedup, At, WaitEnd
<1>2. proc' = [proc EXCEPT ![c] = n]
  BY <1>1 DEF Dedup
<1> HIDE DEF r
<1>3. n.pc \in {"sleep", "mark"} /\ n.key = r.key /\ n.since = r.since
  <2>1. CASE r.key \in revalidating
    BY <1>1, <2>1 DEF Proc
  <2>2. CASE r.key \notin revalidating
    BY <1>1, <2>2 DEF Proc
  <2> QED
    BY <2>1, <2>2
<1> HIDE DEF n
<1> QED
  BY <1>1, <1>2, <1>3, StaysHidden DEF r, Dedup, Working

LEMMA WakeHidden ==
  ASSUME IInv, NEW c \in Callers, Wake(c)
  PROVE  UNCHANGED Contract!vars
<1> DEFINE r == proc[c]
<1>1. proc \in [Procs -> Proc] /\ r \in Proc /\ r.pc = "sleep" /\ c \in Procs /\ r.key \in Keys
  BY CallFacts DEF Wake, At
<1>2. PICK e \in GetResults(r.key) :
        proc' = [proc EXCEPT ![c] =
                   IF e = NoEntry
                   THEN [r EXCEPT !.pc = "mark", !.wake = 0]
                   ELSE [Got(r, e.value, "cache") EXCEPT !.pc = "return", !.wake = 0]]
  BY <1>1 DEF Wake
<1>3. e = NoEntry \/ (e \in Entry /\ e.value \in Nat)
  BY <1>1, GetResultsSound
<1> HIDE DEF r
<1> DEFINE w == 0
<1>4. w \in Int
  OBVIOUS
<1>5. CASE e = NoEntry
  <2> DEFINE n == [r EXCEPT !.pc = "mark", !.wake = w]
  <2>1. proc' = [proc EXCEPT ![c] = n]
    BY <1>2, <1>5
  <2> HIDE DEF w
  <2>2. n.pc = "mark" /\ n.key = r.key /\ n.since = r.since
    BY <1>1, <1>4 DEF Proc
  <2> HIDE DEF n
  <2> QED
    BY <1>1, <2>1, <2>2, StaysHidden DEF r, Wake, Working
<1>6. CASE e # NoEntry
  <2> DEFINE g == Got(r, e.value, "cache")
             n == [g EXCEPT !.pc = "return", !.wake = w]
  <2>0. e.value \in Value /\ "cache" \in Sources
    BY <1>3, <1>6 DEF Value, Sources
  <2>1. g \in Proc /\ g.key = r.key /\ g.since = r.since
    BY <1>1, <2>0, GotFields
  <2>2. proc' = [proc EXCEPT ![c] = n]
    BY <1>2, <1>6
  <2> HIDE DEF g, w
  <2>3. n.pc = "return" /\ n.key = g.key /\ n.since = g.since
    BY <1>4, <2>1 DEF Proc
  <2> HIDE DEF n
  <2> QED
    BY <1>1, <2>1, <2>2, <2>3, StaysHidden DEF r, Wake, Working
<1> QED
  BY <1>5, <1>6

LEMMA MarkHidden ==
  ASSUME IInv, NEW c \in Callers, Mark(c)
  PROVE  UNCHANGED Contract!vars
<1> DEFINE r == proc[c]
           n == [r EXCEPT !.pc = "load"]
<1>1. proc \in [Procs -> Proc] /\ r \in Proc /\ r.pc = "mark" /\ c \in Procs
  BY CallFacts DEF Mark, At
<1>2. proc' = [proc EXCEPT ![c] = n]
  BY <1>1 DEF Mark
<1> HIDE DEF r
<1>3. n.pc = "load" /\ n.key = r.key /\ n.since = r.since
  BY <1>1, MoveFields DEF Labels
<1> HIDE DEF n
<1> QED
  BY <1>1, <1>2, <1>3, StaysHidden DEF r, Mark, Working

LEMMA OriginReadsHidden ==
  ASSUME IInv, NEW c \in Callers, OriginReads(c)
  PROVE  UNCHANGED Contract!vars
<1> DEFINE r == proc[c]
<1>1. /\ proc \in [Procs -> Proc] /\ r \in Proc /\ r.pc = "load" /\ c \in Procs
      /\ r.key \in Keys /\ origin \in [Keys -> Nat]
  BY CallFacts DEF OriginReads, At
<1>2. PICK v \in {origin[r.key], None} :
        proc' = [proc EXCEPT ![c] = [Got(r, v, "origin") EXCEPT !.pc = "answered"]]
  BY <1>1 DEF OriginReads
<1> DEFINE g == Got(r, v, "origin")
           n == [g EXCEPT !.pc = "answered"]
<1> HIDE DEF r
<1>3. g \in Proc /\ g.key = r.key /\ g.since = r.since
  <2>1. v \in Value /\ "origin" \in Sources
    BY <1>1 DEF Value, Sources
  <2> QED
    BY <1>1, <2>1, GotFields
<1>4. proc' = [proc EXCEPT ![c] = n]
  BY <1>2
<1> HIDE DEF g
<1>5. n.pc = "answered" /\ n.key = g.key /\ n.since = g.since
  BY <1>3, MoveFields DEF Labels
<1> HIDE DEF n
<1> QED
  BY <1>1, <1>3, <1>4, <1>5, StaysHidden DEF r, OriginReads, Working

LEMMA CallerUnmarkHidden ==
  ASSUME IInv, NEW c \in Callers, CallerUnmark(c)
  PROVE  UNCHANGED Contract!vars
<1> DEFINE r == proc[c]
           n == [r EXCEPT !.pc = "return"]
<1>1. r \in Proc /\ r.pc = "answered"
  BY CallFacts DEF CallerUnmark, At
<1>2. proc' = [proc EXCEPT ![c] = n] /\ UNCHANGED origin
  BY DEF CallerUnmark, UnmarkAs
<1> HIDE DEF r
<1>3. n.pc = "return" /\ n.key = r.key /\ n.since = r.since
  BY <1>1, MoveFields DEF Labels
<1> HIDE DEF n
<1> QED
  BY <1>1, <1>2, <1>3, StaysHidden DEF r, Working

-----------------------------------------------------------------------------
(* A call that returns gives an answer the contract allows.                *)
LEMMA ReplyStep ==
  ASSUME IInv, AllSound', NEW c \in Callers, NEW v \in Value,
         NEW s \in {"origin", "cache", "fallback"},
         Goes(c, Answered(proc[c], v, s)), proc[c].pc \in {"classify", "return"}
  PROVE  Contract!Reply(c)
<1> DEFINE r == proc[c]
           a == Answered(r, v, s)
<1>1. r \in Proc /\ r.key \in Keys /\ origin \in [Keys -> Nat] /\ c \in Procs
  BY CallFacts
<1>2. s \in Sources
  BY DEF Sources
<1>3. /\ a \in Proc
      /\ a.pc = "done" /\ a.key = r.key /\ a.source = s /\ a.since = r.since
  BY <1>1, <1>2, AnsweredFields
<1>4. Goes(c, a)
  OBVIOUS
<1>5. Waiting(r)
  BY DEF Waiting, Apart
<1> HIDE DEF a
<1>6. CallOK(a, origin)
  BY <1>1, <1>4 DEF AllSound, Sound, Goes
<1> QED
  BY <1>1, <1>3, <1>4, <1>5, <1>6, Replies

LEMMA FreshHitReplies ==
  ASSUME IInv, NEW c \in Callers, FreshHit(c)
  PROVE  Contract!Reply(c)
<1> DEFINE r == proc[c]
<1>1. AllSound' /\ r.pc = "classify" /\ r.entry.value \in Value
  BY FreshHitSound, CallFacts DEF FreshHit, At, Entry, Value
<1>2. proc' = [proc EXCEPT ![c] = Answered(r, r.entry.value, "cache")] /\ UNCHANGED origin
  BY CallFacts DEF FreshHit
<1>3. Goes(c, Answered(r, r.entry.value, "cache"))
  BY <1>2, CallGoes
<1> QED
  BY <1>1, <1>3, ReplyStep

LEMMA StaleHitReplies ==
  ASSUME IInv, NEW c \in Callers, NEW t \in Tasks, StaleHit(c, t)
  PROVE  Contract!Reply(c)
<1> DEFINE r == proc[c]
<1>1. AllSound' /\ r.pc = "classify" /\ r.entry.value \in Value
  BY StaleHitSound, CallFacts DEF StaleHit, At, Entry, Value
<1>2. /\ proc' = [proc EXCEPT ![c] = Answered(r, r.entry.value, "cache"),
                              ![t] = Job("check", r.key, NoEntry)]
      /\ UNCHANGED origin
  BY CallFacts DEF StaleHit
<1>3. Goes(c, Answered(r, r.entry.value, "cache"))
  BY <1>2, CallAndTask
<1> QED
  BY <1>1, <1>3, ReplyStep

LEMMA ReturnLoadedReplies ==
  ASSUME IInv, NEW c \in Callers, NEW t \in Tasks, ReturnLoaded(c, t)
  PROVE  Contract!Reply(c)
<1> DEFINE r == proc[c]
<1>1. AllSound' /\ r.pc = "return" /\ r.got \in Value
  BY ReturnLoadedSound, CallFacts DEF ReturnLoaded, At, Proc
<1>2. r.source \in {"origin", "cache", "fallback"}
  BY <1>1, CallFacts DEF CallOK
<1>3. /\ proc' = [proc EXCEPT ![c] = Answered(r, r.got, r.source),
                              ![t] = Job("write", r.key, Stamped(r.got))]
      /\ UNCHANGED origin
  BY CallFacts DEF ReturnLoaded
<1>4. Goes(c, Answered(r, r.got, r.source))
  BY <1>3, CallAndTask
<1> QED
  BY <1>1, <1>2, <1>4, ReplyStep

LEMMA ReturnFallbackReplies ==
  ASSUME IInv, NEW c \in Callers, ReturnFallback(c)
  PROVE  Contract!Reply(c)
<1> DEFINE r == proc[c]
           s == IF r.held = None THEN r.source ELSE "fallback"
<1>1. AllSound' /\ r.pc = "return" /\ r.held \in Value
  BY ReturnFallbackSound, CallFacts DEF ReturnFallback, At, Proc
<1>2. s \in {"origin", "cache", "fallback"}
  BY <1>1, CallFacts DEF CallOK
<1>3. proc' = [proc EXCEPT ![c] = Answered(r, r.held, s)] /\ UNCHANGED origin
  BY CallFacts DEF ReturnFallback
<1> HIDE DEF s
<1>4. Goes(c, Answered(r, r.held, s))
  BY <1>3, CallGoes
<1> QED
  BY <1>1, <1>2, <1>4, ReplyStep

(* A put ends, or any call is dropped: the client has no call any more.    *)
LEMMA GoingIdle ==
  ASSUME IInv, NEW c \in Callers, proc' = [proc EXCEPT ![c] = Idle], UNCHANGED origin
  PROVE  Contract!Leave(c)
<1>1. Apart(Idle)
  BY DEF Apart, Idle, Job
<1> QED
  BY <1>1, CallGoes, Leaves

LEMMA CallWrites ==
  ASSUME IInv, NEW c \in Callers, StoreSet(c)
  PROVE  Contract!Leave(c) \/ UNCHANGED Contract!vars
<1>1. CASE proc' = [proc EXCEPT ![c] = Idle]
  BY <1>1, GoingIdle DEF StoreSet
<1>2. CASE At(c, "set") /\ proc' = [proc EXCEPT ![c] = [@ EXCEPT
                                       !.pc = "unmark", !.entry = NoEntry]]
  <2> DEFINE r == proc[c]
             n == [r EXCEPT !.pc = "unmark", !.entry = NoEntry]
  <2>1. r \in Proc /\ r.pc = "set"
    BY <1>2, CallFacts DEF At
  <2>2. proc' = [proc EXCEPT ![c] = n] /\ UNCHANGED origin
    BY <1>2, CallFacts DEF StoreSet
  <2> HIDE DEF r
  <2>3. n.pc = "unmark" /\ n.key = r.key /\ n.since = r.since
    BY <2>1 DEF Proc
  <2> HIDE DEF n
  <2> QED
    BY <2>1, <2>2, <2>3, StaysHidden DEF r, Working
<1> QED
  BY <1>1, <1>2 DEF StoreSet

LEMMA CallSteps ==
  ASSUME IInv, NEW c \in Callers, CallStep(c)
  PROVE  Contract!Next \/ UNCHANGED Contract!vars
<1>1. Contract!Reply(c) \/ Contract!Leave(c) \/ UNCHANGED Contract!vars
  BY LookupHidden, FreshHitReplies, StaleHitReplies, ExpiredHitHidden, DedupHidden,
     WakeHidden, MarkHidden, OriginReadsHidden, CallerUnmarkHidden,
     ReturnLoadedReplies, ReturnFallbackReplies, CallWrites DEF CallStep
<1> QED
  BY <1>1 DEF Contract!Next

-----------------------------------------------------------------------------
(* What clients begin.                                                     *)
Opened(k, s) == [Contract!NoCall EXCEPT !.stage = "open", !.key = k, !.since = s]

LEMMA OpenedIsAsked ==
  ASSUME NEW k, NEW s
  PROVE  Opened(k, s) = Asked(k, s)
<1> DEFINE x == [Contract!NoCall EXCEPT !.stage = "open"]
           y == [x EXCEPT !.key = k]
           z == [y EXCEPT !.since = s]
<1>1. x = [stage |-> "open", key |-> None, since |-> 0, got |-> None, source |-> "none"]
  BY DEF Contract!NoCall
<1> HIDE DEF x
<1>2. y = [stage |-> "open", key |-> k, since |-> 0, got |-> None, source |-> "none"]
  BY <1>1
<1> HIDE DEF y
<1>3. z = [stage |-> "open", key |-> k, since |-> s, got |-> None, source |-> "none"]
  BY <1>2
<1> QED
  BY <1>3 DEF x, y, Opened, Asked

LEMMA FreeToCall ==
  ASSUME NEW c \in Callers, ~Open(c)
  PROVE  Views[c].stage # "open"
<1>1. CASE proc[c].pc = "idle"
  <2>1. Apart(proc[c])
    BY <1>1 DEF Apart
  <2>2. Views[c] = Contract!NoCall
    BY <2>1, ViewsAre DEF View
  <2> QED
    BY <2>2 DEF Contract!NoCall
<1>2. CASE proc[c].pc = "done"
  <2>1. View(proc[c]).stage = "done"
    BY <1>2, DoneView
  <2> QED
    BY <2>1, ViewsAre
<1> QED
  BY <1>1, <1>2 DEF Open, At

LEMMA SwrBegins ==
  ASSUME IInv, NEW c \in Callers, NEW k \in Keys, Swr(c, k)
  PROVE  Contract!Begin(c, k)
<1> DEFINE r == Called("lookup", k)
<1>1. origin[k] \in Nat /\ "lookup" \in Labels
  BY CallFacts DEF Labels
<1>2. r.pc = "lookup" /\ r.key = k /\ r.got = None /\ r.source = "none" /\ r.since = origin[k]
  BY <1>1, CalledFields
<1>3. Goes(c, r)
  BY CallGoes DEF Swr
<1>4. Views[c].stage # "open"
  BY FreeToCall DEF Swr
<1> HIDE DEF r
<1>5. Waiting(r)
  BY <1>2 DEF Waiting, Apart
<1>6. View(r) = Asked(k, origin[k])
  BY <1>2, <1>5, OpenView DEF Asked
<1>7. Views' = [Views EXCEPT ![c] = Opened(k, origin[k])]
  BY <1>3, <1>6, ViewsMove, OpenedIsAsked DEF Goes
<1> QED
  BY <1>3, <1>4, <1>7 DEF Goes, Views, Opened, Contract!Begin

LEMMA GetPeeks ==
  ASSUME IInv, NEW c \in Callers, NEW k \in Keys, Get(c, k)
  PROVE  Contract!Peek(c, k)
<1> DEFINE r == Called("done", k)
<1>1. origin[k] \in Nat /\ "done" \in Labels
  BY CallFacts DEF Labels
<1>2. r \in Proc /\ r.key = k /\ r.since = origin[k]
  BY <1>1, CalledFields
<1>3. PICK v \in Value, s \in OfGet :
        GetAnswers(c, k, v, s) /\ (v # None => s = "peek" /\ v <= origin[k])
  BY GetGives
<1> DEFINE a == Answered(r, v, s)
<1>4. s \in Sources
  BY DEF OfGet, Sources
<1>5. Goes(c, a)
  BY <1>3, CallGoes DEF GetAnswers
<1>6. Views[c].stage # "open"
  BY <1>3, FreeToCall DEF GetAnswers
<1> HIDE DEF r
<1>7. a.pc = "done" /\ a.key = k /\ a.got = v /\ a.source = s /\ a.since = origin[k]
  BY <1>2, <1>4, AnsweredFields
<1> HIDE DEF a
<1>8. View(a) = [stage |-> "done", key |-> k, since |-> origin[k], got |-> v, source |-> s]
  BY <1>7, DoneView
<1>9. Views' = [Views EXCEPT ![c] = View(a)]
  BY <1>5, ViewsMove DEF Goes
<1> DEFINE x == [got |-> v, source |-> s]
<1>10. x \in Contract!Peeks(k) /\ x.got = v /\ x.source = s
  <2>1. v = None \/ v \in 0..origin[k]
    BY <1>1, <1>3 DEF Value
  <2> QED
    BY <1>3, <2>1 DEF Contract!Peeks, OfGet
<1> HIDE DEF x
<1> QED
  BY <1>5, <1>6, <1>8, <1>9, <1>10 DEF Goes, Views, Contract!Peek

LEMMA PutLeaves ==
  ASSUME IInv, NEW c \in Callers, NEW k \in Keys, NEW v \in 0..MaxVersion,
         NEW opts \in CustomOptions \cup {[fresh_ms |-> FreshMs, stale_ms |-> StaleMs]},
         Put(c, k, v, opts)
  PROVE  Contract!Leave(c)
<1> DEFINE r == Job("put", k, StampedEntry(v, now, opts.fresh_ms, opts.stale_ms))
<1>1. Goes(c, r)
  BY CallGoes DEF Put
<1>2. Apart(r)
  BY DEF Apart, Job
<1> QED
  BY <1>1, <1>2, Leaves

LEMMA ClientSteps ==
  ASSUME IInv, Client
  PROVE  Contract!Next \/ UNCHANGED Contract!vars
<1>1. ASSUME NEW k \in Keys, Remove(k)
      PROVE  UNCHANGED Contract!vars
  BY <1>1, ViewsStay DEF Remove, Views, Contract!vars
<1> QED
  BY <1>1, SwrBegins, GetPeeks, PutLeaves DEF Client, Contract!Next

-----------------------------------------------------------------------------
(* Tasks and the environment: no client sees them, but for the origin's    *)
(* updates and a client's own leaving.                                     *)
LEMMA OnlyATask ==
  ASSUME IInv, NEW t \in Tasks, NEW r, proc' = [proc EXCEPT ![t] = r], UNCHANGED origin
  PROVE  UNCHANGED Contract!vars
<1>1. \A c \in Callers : proc'[c] = proc[c]
  BY Basics DEF IInv, TypeOK
<1> QED
  BY <1>1, ViewsStay DEF Views, Contract!vars

LEMMA TaskSteps ==
  ASSUME IInv, NEW t \in Tasks, TaskStep(t)
  PROVE  UNCHANGED Contract!vars
<1>1. CASE Check(t)
  BY <1>1, OnlyATask DEF Check
<1>2. CASE Mark(t)
  BY <1>2, OnlyATask DEF Mark
<1>3. CASE OriginReads(t)
  BY <1>3, OnlyATask DEF OriginReads
<1>4. CASE Stamp(t)
  BY <1>4, OnlyATask DEF Stamp
<1>5. CASE StoreSet(t)
  BY <1>5, OnlyATask DEF StoreSet
<1>6. CASE TaskUnmark(t)
  BY <1>6, OnlyATask DEF TaskUnmark, UnmarkAs
<1> QED
  BY <1>1, <1>2, <1>3, <1>4, <1>5, <1>6 DEF TaskStep

LEMMA EnvironmentSteps ==
  ASSUME IInv, Environment
  PROVE  Contract!Next \/ UNCHANGED Contract!vars
<1>1. ASSUME NEW k \in Keys, StoreDrop(k)
      PROVE  UNCHANGED Contract!vars
  BY <1>1, ViewsStay DEF StoreDrop, Views, Contract!vars
<1>2. CASE Tick
  BY <1>2, ViewsStay DEF Tick, Views, Contract!vars
<1>3. ASSUME NEW k \in Keys, OriginUpdate(k)
      PROVE  Contract!OriginUpdate(k)
  BY <1>3, ViewsStay DEF OriginUpdate, Views, Contract!OriginUpdate
<1>4. ASSUME NEW c \in Callers, Abandon(c)
      PROVE  Contract!Leave(c)
  BY <1>4, GoingIdle DEF Abandon
<1>5. ASSUME NEW t \in Tasks, Abandon(t)
      PROVE  UNCHANGED Contract!vars
  BY <1>5, OnlyATask DEF Abandon
<1> QED
  BY <1>1, <1>2, <1>3, <1>4, <1>5 DEF Environment, Procs, Contract!Next

LEMMA ContractInit == Init => Contract!Init
<1> SUFFICES ASSUME Init PROVE Contract!Init
  OBVIOUS
<1>1. \A c \in Callers : proc[c] = Idle
  BY DEF Init, Procs
<1>2. Apart(Idle)
  BY DEF Apart, Idle, Job
<1>3. Views = [c \in Callers |-> Contract!NoCall]
  BY <1>1, <1>2, ViewsAre DEF Views, View
<1> QED
  BY <1>3 DEF Init, Views, Contract!Init

LEMMA ContractStep ==
  ASSUME IInv, [Next]_vars
  PROVE  [Contract!Next]_Contract!vars
<1>1. CASE UNCHANGED vars
  BY <1>1, ViewsStay DEF vars, Views, Contract!vars
<1> QED
  BY <1>1, CallSteps, TaskSteps, ClientSteps, EnvironmentSteps DEF Next

(* Whatever the store, the faults, the windows and the number of calls and *)
(* tasks, what swr, get and set show their clients is what SwrContract     *)
(* allows: data the origin has held, no older than the call when the call  *)
(* says it loaded it, and None only where the origin had none.             *)
THEOREM SwrCacheKeepsContract == Spec => ImplementsContract
<1>1. Init => Contract!Init
  BY ContractInit
<1>2. IInv /\ [Next]_vars => [Contract!Next]_Contract!vars
  BY ContractStep
<1> QED
  BY <1>1, <1>2, Invariance, PTL DEF Spec, ImplementsContract, Contract!Spec
=============================================================================
