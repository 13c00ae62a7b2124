--------------------------- MODULE SwrCacheProofs ---------------------------
(***************************************************************************)
(* Theorems about SwrCache, for every value of its constants.              *)
(***************************************************************************)
EXTENDS SwrCache, TLAPS

-----------------------------------------------------------------------------
(* The records the actions build, field by field.                          *)
LEMMA JobFields ==
  ASSUME NEW l \in Labels, NEW k \in Keys \cup {None}, NEW e \in Entry \cup {NoEntry}
  PROVE  LET j == Job(l, k, e) IN
         /\ j \in Proc
         /\ j.pc = l /\ j.key = k /\ j.got = None /\ j.held = None
         /\ j.entry = e /\ j.source = "none" /\ j.since = 0
BY DEF Job, Proc, Labels, Sources, Value

LEMMA CalledFields ==
  ASSUME NEW l \in Labels, NEW k \in Keys, origin[k] \in Nat
  PROVE  LET r == Called(l, k) IN
         /\ r \in Proc
         /\ r.pc = l /\ r.key = k /\ r.got = None /\ r.held = None
         /\ r.entry = NoEntry /\ r.source = "none" /\ r.since = origin[k]
<1> DEFINE j == Job(l, k, NoEntry)
           r == [j EXCEPT !.since = origin[k]]
<1>1. /\ j \in Proc
      /\ j.pc = l /\ j.key = k /\ j.got = None /\ j.held = None
      /\ j.entry = NoEntry /\ j.source = "none"
  BY JobFields
<1>2. r = Called(l, k)
  BY DEF Called
<1> HIDE DEF j
<1>3. r \in Proc /\ r.since = origin[k]
  BY <1>1 DEF Proc
<1>4. /\ r.pc = j.pc /\ r.key = j.key /\ r.got = j.got /\ r.held = j.held
      /\ r.entry = j.entry /\ r.source = j.source
  BY <1>1 DEF Proc
<1> QED
  BY <1>1, <1>2, <1>3, <1>4

LEMMA MoveFields ==
  ASSUME NEW r \in Proc, NEW l \in Labels
  PROVE  LET n == [r EXCEPT !.pc = l] IN
         /\ n \in Proc
         /\ n.pc = l /\ n.key = r.key /\ n.got = r.got /\ n.held = r.held
         /\ n.entry = r.entry /\ n.source = r.source /\ n.since = r.since
BY DEF Proc

LEMMA EntryFields ==
  ASSUME NEW r \in Proc, NEW l \in Labels, NEW e \in Entry \cup {NoEntry}
  PROVE  LET n == [r EXCEPT !.pc = l, !.entry = e] IN
         /\ n \in Proc
         /\ n.pc = l /\ n.key = r.key /\ n.got = r.got /\ n.held = r.held
         /\ n.entry = e /\ n.source = r.source /\ n.since = r.since
BY DEF Proc

LEMMA WakeFields ==
  ASSUME NEW r \in Proc, NEW l \in Labels, NEW w \in Int
  PROVE  LET n == [r EXCEPT !.pc = l, !.wake = w] IN
         /\ n \in Proc
         /\ n.pc = l /\ n.key = r.key /\ n.got = r.got /\ n.held = r.held
         /\ n.entry = r.entry /\ n.source = r.source /\ n.since = r.since
BY DEF Proc

LEMMA GotFields ==
  ASSUME NEW r \in Proc, NEW v \in Value, NEW s \in Sources
  PROVE  LET n == Got(r, v, s) IN
         /\ n \in Proc
         /\ n.pc = r.pc /\ n.key = r.key /\ n.got = v /\ n.held = r.held
         /\ n.entry = r.entry /\ n.source = s /\ n.since = r.since
BY DEF Got, Proc

LEMMA HoldingFields ==
  ASSUME NEW r \in Proc, r.entry \in Entry
  PROVE  LET n == Holding(r) IN
         /\ n \in Proc
         /\ n.pc = r.pc /\ n.key = r.key /\ n.got = r.got
         /\ n.held = r.entry.value /\ n.entry = NoEntry
         /\ n.source = r.source /\ n.since = r.since
BY DEF Holding, Proc, Value, Entry

LEMMA AnsweredFields ==
  ASSUME NEW r \in Proc, NEW v \in Value, NEW s \in Sources
  PROVE  LET n == Answered(r, v, s) IN
         /\ n \in Proc
         /\ n.pc = "done" /\ n.key = r.key /\ n.got = v /\ n.held = r.held
         /\ n.entry = NoEntry /\ n.source = s /\ n.since = r.since
<1> DEFINE g == Got(r, v, s)
<1>1. /\ g \in Proc
      /\ g.key = r.key /\ g.got = v /\ g.held = r.held
      /\ g.source = s /\ g.since = r.since
  BY GotFields
<1>2. Answered(r, v, s) = [g EXCEPT !.pc = "done", !.entry = NoEntry]
  BY DEF Answered
<1>3. "done" \in Labels
  BY DEF Labels
<1> HIDE DEF g
<1> DEFINE m == [g EXCEPT !.pc = "done", !.entry = NoEntry]
<1>4. /\ m \in Proc
      /\ m.pc = "done" /\ m.key = g.key /\ m.got = g.got /\ m.held = g.held
      /\ m.entry = NoEntry /\ m.source = g.source /\ m.since = g.since
  BY <1>1, <1>3 DEF Proc
<1>5. Answered(r, v, s) = m
  BY <1>2
<1> HIDE DEF m
<1> QED
  BY <1>1, <1>4, <1>5

-----------------------------------------------------------------------------
(* What the invariant says of one process record, given the origin.        *)
Sound(p, r, o) == r \in Proc /\ LocalsOK(p, r) /\ CallOK(r, o)

LEMMA IdleSound ==
  ASSUME NEW p, NEW o
  PROVE  Sound(p, Idle, o)
<1>1. /\ Idle \in Proc
      /\ Idle.pc = "idle" /\ Idle.got = None /\ Idle.source = "none"
  BY JobFields DEF Idle, Labels
<1> QED
  BY <1>1 DEF Sound, LocalsOK, CallOK

(* What a write stamps is an entry of its value, whatever the windows.     *)
LEMMA StampedType ==
  ASSUME NEW v \in Nat, NEW t \in Int, NEW f \in Int, NEW s \in Int
  PROVE  StampedEntry(v, t, f, s) \in Entry /\ StampedEntry(v, t, f, s).value = v
BY DEF StampedEntry, NewEntry, Entry

(* A lookup of k, or a failed one, yields an entry the origin has caught   *)
(* up with, or a miss.                                                     *)
LEMMA GetResultsSound ==
  ASSUME IInv, NEW k \in Keys, NEW e \in GetResults(k)
  PROVE  e = NoEntry \/ (e \in Entry /\ e.value \in Nat /\ e.value <= origin[k])
<1>1. e \in store[k] \/ e = NoEntry
  BY DEF GetResults, Visible
<1> QED
  BY <1>1 DEF IInv, TypeOK, Entry

(* A finished call is sound if its answer is.                              *)
LEMMA AnsweredSound ==
  ASSUME NEW c \in Callers, NEW r \in Proc, r.key \in Keys, r.pc # "idle",
         NEW o \in [Keys -> Nat], CallOK(r, o),
         NEW v \in Value, v # None => v <= o[r.key],
         NEW s \in {"cache", "origin", "fallback", "peek"},
         v = None => s \in {"origin"} \cup OfGet /\ r.held = None,
         s = "origin" /\ v # None => r.since <= v
  PROVE  Sound(c, Answered(r, v, s), o)
<1> DEFINE a == Answered(r, v, s)
<1>0. s \in Sources
  BY DEF Sources
<1>1. /\ a \in Proc
      /\ a.pc = "done" /\ a.key = r.key /\ a.got = v /\ a.held = r.held
      /\ a.since = r.since /\ a.source = s /\ a.entry = NoEntry
  BY <1>0, AnsweredFields
<1>2. c \notin Tasks
  BY ProcsAssumption
<1> HIDE DEF a
<1>3. LocalsOK(c, a)
  BY <1>1, <1>2 DEF LocalsOK
<1>4. CallOK(a, o)
  BY <1>1 DEF CallOK, OfGet
<1> QED
  BY <1>1, <1>3, <1>4 DEF Sound, a

(* A new background task, or a put, is sound if what it writes is.         *)
LEMMA JobSound ==
  ASSUME NEW p \in Procs, NEW k \in Keys, NEW o \in [Keys -> Nat],
         NEW l \in {"check", "write", "put"}, p \in Tasks => l # "put",
         NEW e \in Entry \cup {NoEntry}, l # "check" => e \in Entry,
         e # NoEntry => e.value <= o[k]
  PROVE  Sound(p, Job(l, k, e), o)
<1> DEFINE j == Job(l, k, e)
<1>1. /\ j \in Proc
      /\ j.pc = l /\ j.key = k /\ j.got = None /\ j.held = None
      /\ j.since = 0 /\ j.source = "none" /\ j.entry = e
  BY JobFields DEF Labels
<1> HIDE DEF j
<1>2. LocalsOK(p, j)
  BY <1>1 DEF LocalsOK
<1>3. CallOK(j, o)
  BY <1>1 DEF CallOK
<1> QED
  BY <1>1, <1>2, <1>3 DEF Sound, j

-----------------------------------------------------------------------------
(* Frames: one or two processes move and the origin does not.              *)
AllSound == proc \in [Procs -> Proc] /\ \A p \in Procs : Sound(p, proc[p], origin)

LEMMA InvSound == IInv => AllSound
BY DEF IInv, TypeOK, AllSound, Sound

LEMMA OneMoves ==
  ASSUME AllSound, NEW p \in Procs, NEW r, Sound(p, r, origin),
         proc' = [proc EXCEPT ![p] = r], UNCHANGED origin
  PROVE  AllSound'
BY DEF AllSound, Sound

LEMMA TwoMove ==
  ASSUME AllSound, NEW p \in Procs, NEW q \in Procs, p # q,
         NEW r, Sound(p, r, origin), NEW s, Sound(q, s, origin),
         proc' = [proc EXCEPT ![p] = r, ![q] = s], UNCHANGED origin
  PROVE  AllSound'
BY DEF AllSound, Sound

LEMMA Basics ==
  ASSUME IInv
  PROVE  /\ AllSound
         /\ origin \in [Keys -> Nat] /\ now \in Int
         /\ \A c \in Callers : c \in Procs /\ c \notin Tasks
         /\ \A t \in Tasks : t \in Procs /\ t \notin Callers
BY InvSound, ProcsAssumption, BoundAssumption DEF IInv, TypeOK, Procs

-----------------------------------------------------------------------------
(* Each step of a call leaves every process sound.                         *)
LEMMA LookupSound ==
  ASSUME IInv, NEW c \in Callers, Lookup(c)
  PROVE  AllSound'
<1> DEFINE r == proc[c]
<1>1. /\ AllSound /\ origin \in [Keys -> Nat] /\ c \in Procs /\ c \notin Tasks
      /\ Sound(c, r, origin) /\ r.pc = "lookup"
  BY Basics DEF AllSound, Lookup, At
<1>2. r \in Proc /\ r.key \in Keys
  BY <1>1 DEF Sound, LocalsOK
<1>3. PICK e \in GetResults(r.key) :
        proc' = [proc EXCEPT ![c] = [r EXCEPT
                   !.pc = IF e = NoEntry THEN "dedup" ELSE "classify", !.entry = e]]
  BY <1>1 DEF Lookup, AllSound
<1>4. e = NoEntry \/ (e \in Entry /\ e.value \in Nat /\ e.value <= origin[r.key])
  BY <1>2, GetResultsSound
<1> DEFINE l == IF e = NoEntry THEN "dedup" ELSE "classify"
           n == [r EXCEPT !.pc = l, !.entry = e]
<1>5. l \in Labels /\ l \in {"dedup", "classify"} /\ (l = "classify" => e \in Entry)
  BY <1>4 DEF Labels
<1> HIDE DEF l, r
<1>6. /\ n \in Proc
      /\ n.pc = l /\ n.key = r.key /\ n.got = r.got /\ n.held = r.held
      /\ n.entry = e /\ n.source = r.source /\ n.since = r.since
  BY <1>2, <1>4, <1>5 DEF Proc
<1>7. proc' = [proc EXCEPT ![c] = n]
  BY <1>3 DEF l
<1> HIDE DEF n
<1>8. Sound(c, n, origin)
  BY <1>1, <1>2, <1>4, <1>5, <1>6 DEF Sound, LocalsOK, CallOK
<1> QED
  BY <1>1, <1>7, <1>8, OneMoves DEF Lookup

LEMMA FreshHitSound ==
  ASSUME IInv, NEW c \in Callers, FreshHit(c)
  PROVE  AllSound'
<1> DEFINE r == proc[c]
<1>1. /\ AllSound /\ origin \in [Keys -> Nat] /\ c \in Procs
      /\ Sound(c, r, origin) /\ r.pc = "classify"
  BY Basics DEF AllSound, FreshHit, At
<1>2. r \in Proc /\ r.key \in Keys /\ r.entry \in Entry /\ CallOK(r, origin)
  BY <1>1 DEF Sound, LocalsOK
<1>3. r.entry.value \in Nat /\ r.entry.value \in Value /\ r.entry.value # None
  BY <1>2, NoneAssumption DEF Entry, Value
<1>4. r.entry.value <= origin[r.key]
  BY <1>1, <1>2, NoEntryAssumption DEF CallOK
<1>5. proc' = [proc EXCEPT ![c] = Answered(r, r.entry.value, "cache")]
  BY <1>1 DEF FreshHit, AllSound
<1> HIDE DEF r
<1>6. Sound(c, Answered(r, r.entry.value, "cache"), origin)
  BY <1>1, <1>2, <1>3, <1>4, AnsweredSound
<1> QED
  BY <1>1, <1>5, <1>6, OneMoves DEF FreshHit

LEMMA StaleHitSound ==
  ASSUME IInv, NEW c \in Callers, NEW t \in Tasks, StaleHit(c, t)
  PROVE  AllSound'
<1> DEFINE r == proc[c]
<1>1. /\ AllSound /\ origin \in [Keys -> Nat] /\ c \in Procs /\ t \in Procs /\ c # t
      /\ Sound(c, r, origin) /\ r.pc = "classify"
  BY Basics DEF AllSound, StaleHit, At
<1>2. r \in Proc /\ r.key \in Keys /\ r.entry \in Entry /\ CallOK(r, origin)
  BY <1>1 DEF Sound, LocalsOK
<1>3. r.entry.value \in Nat /\ r.entry.value \in Value /\ r.entry.value # None
  BY <1>2, NoneAssumption DEF Entry, Value
<1>4. r.entry.value <= origin[r.key]
  BY <1>1, <1>2, NoEntryAssumption DEF CallOK
<1>5. proc' = [proc EXCEPT ![c] = Answered(r, r.entry.value, "cache"),
                           ![t] = Job("check", r.key, NoEntry)]
  BY <1>1 DEF StaleHit, AllSound
<1> HIDE DEF r
<1>6. Sound(c, Answered(r, r.entry.value, "cache"), origin)
  BY <1>1, <1>2, <1>3, <1>4, AnsweredSound
<1>7. Sound(t, Job("check", r.key, NoEntry), origin)
  BY <1>1, <1>2, JobSound
<1> QED
  BY <1>1, <1>5, <1>6, <1>7, TwoMove DEF StaleHit

LEMMA ExpiredHitSound ==
  ASSUME IInv, NEW c \in Callers, ExpiredHit(c)
  PROVE  AllSound'
<1> DEFINE r == proc[c]
           h == Holding(r)
           n == [h EXCEPT !.pc = "dedup"]
<1>1. /\ AllSound /\ origin \in [Keys -> Nat] /\ c \in Procs /\ c \notin Tasks
      /\ Sound(c, r, origin) /\ r.pc = "classify"
  BY Basics DEF AllSound, ExpiredHit, At
<1>2. r \in Proc /\ r.key \in Keys /\ r.entry \in Entry /\ CallOK(r, origin)
  BY <1>1 DEF Sound, LocalsOK
<1>3. r.entry.value <= origin[r.key]
  BY <1>1, <1>2, NoEntryAssumption DEF CallOK
<1>4. proc' = [proc EXCEPT ![c] = n]
  BY <1>1 DEF ExpiredHit, AllSound
<1> HIDE DEF r
<1>5. /\ h \in Proc /\ h.key = r.key /\ h.got = r.got /\ h.held = r.entry.value
      /\ h.entry = NoEntry /\ h.source = r.source /\ h.since = r.since
  BY <1>2, HoldingFields
<1> HIDE DEF h
<1>6. /\ n \in Proc
      /\ n.pc = "dedup" /\ n.key = h.key /\ n.got = h.got /\ n.held = h.held
      /\ n.entry = h.entry /\ n.source = h.source /\ n.since = h.since
  BY <1>5 DEF Proc, Labels
<1> HIDE DEF n
<1>7. Sound(c, n, origin)
  BY <1>1, <1>2, <1>3, <1>5, <1>6 DEF Sound, LocalsOK, CallOK
<1> QED
  BY <1>1, <1>4, <1>7, OneMoves DEF ExpiredHit

(* A process that moves on to a place that asks nothing of its locals.     *)
LEMMA MovedSound ==
  ASSUME NEW p, NEW r, NEW o, Sound(p, r, o), r.pc # "idle",
         NEW n \in Proc, n.key = r.key, n.got = r.got, n.held = r.held,
         n.since = r.since, n.source = r.source, n.entry \in {r.entry, NoEntry},
         n.pc \in {"dedup", "sleep", "mark", "load", "unmark"},
         p \in Tasks => n.pc \in {"mark", "load", "unmark"}
  PROVE  Sound(p, n, o)
BY DEF Sound, LocalsOK, CallOK

LEMMA DedupSound ==
  ASSUME IInv, NEW c \in Callers, Dedup(c)
  PROVE  AllSound'
<1> DEFINE r == proc[c]
           n == IF r.key \in revalidating
                THEN [r EXCEPT !.pc = "sleep", !.wake = WaitEnd]
                ELSE [r EXCEPT !.pc = "mark"]
<1>1. /\ AllSound /\ c \in Procs /\ c \notin Tasks
      /\ Sound(c, r, origin) /\ r \in Proc /\ r.pc = "dedup" /\ WaitEnd \in Int
  BY Basics, BoundAssumption DEF AllSound, Sound, Dedup, At, WaitEnd
<1>2. proc' = [proc EXCEPT ![c] = n]
  BY <1>1 DEF Dedup, AllSound
<1> HIDE DEF r
<1>3. /\ n \in Proc
      /\ n.pc \in {"sleep", "mark"} /\ n.key = r.key /\ n.got = r.got
      /\ n.held = r.held /\ n.entry = r.entry /\ n.source = r.source
      /\ n.since = r.since
  <2>1. CASE r.key \in revalidating
    BY <1>1, <2>1 DEF Proc, Labels
  <2>2. CASE r.key \notin revalidating
    BY <1>1, <2>2 DEF Proc, Labels
  <2> QED
    BY <2>1, <2>2
<1> HIDE DEF n
<1>4. Sound(c, n, origin)
  BY <1>1, <1>3, MovedSound
<1> QED
  BY <1>1, <1>2, <1>4, OneMoves DEF Dedup

LEMMA WakeSound ==
  ASSUME IInv, NEW c \in Callers, Wake(c)
  PROVE  AllSound'
<1> DEFINE r == proc[c]
<1>1. /\ AllSound /\ origin \in [Keys -> Nat] /\ c \in Procs /\ c \notin Tasks
      /\ Sound(c, r, origin) /\ r.pc = "sleep"
  BY Basics DEF AllSound, Wake, At
<1>2. r \in Proc /\ r.key \in Keys /\ CallOK(r, origin)
  BY <1>1 DEF Sound, LocalsOK
<1>3. PICK e \in GetResults(r.key) :
        proc' = [proc EXCEPT ![c] =
                   IF e = NoEntry
                   THEN [r EXCEPT !.pc = "mark", !.wake = 0]
                   ELSE [Got(r, e.value, "cache") EXCEPT !.pc = "return", !.wake = 0]]
  BY <1>1 DEF Wake, AllSound
<1>4. e = NoEntry \/ (e \in Entry /\ e.value \in Nat /\ e.value <= origin[r.key])
  BY <1>2, GetResultsSound
<1> HIDE DEF r
<1>5. CASE e = NoEntry
  <2> DEFINE w == 0
             n == [r EXCEPT !.pc = "mark", !.wake = w]
  <2>0. w \in Int
    OBVIOUS
  <2>2. proc' = [proc EXCEPT ![c] = n]
    BY <1>3, <1>5
  <2> HIDE DEF w
  <2>1. /\ n \in Proc
        /\ n.pc = "mark" /\ n.key = r.key /\ n.got = r.got /\ n.held = r.held
        /\ n.entry = r.entry /\ n.source = r.source /\ n.since = r.since
    BY <1>2, <2>0 DEF Proc, Labels
  <2> HIDE DEF n
  <2>3. Sound(c, n, origin)
    BY <1>1, <2>1, MovedSound
  <2> QED
    BY <1>1, <2>2, <2>3, OneMoves DEF Wake
<1>6. CASE e # NoEntry
  <2> DEFINE g == Got(r, e.value, "cache")
             w == 0
             n == [g EXCEPT !.pc = "return", !.wake = w]
  <2>0. w \in Int
    OBVIOUS
  <2>1. e.value \in Value /\ e.value # None /\ "cache" \in Sources
    BY <1>4, <1>6, NoneAssumption DEF Value, Sources
  <2>2. /\ g \in Proc
        /\ g.key = r.key /\ g.got = e.value /\ g.held = r.held
        /\ g.entry = r.entry /\ g.source = "cache" /\ g.since = r.since
    BY <1>2, <2>1, GotFields
  <2>3. proc' = [proc EXCEPT ![c] = n]
    BY <1>3, <1>6
  <2> HIDE DEF g, w
  <2>4. /\ n \in Proc
        /\ n.pc = "return" /\ n.key = g.key /\ n.got = g.got /\ n.held = g.held
        /\ n.entry = g.entry /\ n.source = g.source /\ n.since = g.since
    BY <2>0, <2>2 DEF Proc, Labels
  <2> HIDE DEF n
  <2>5. Sound(c, n, origin)
    BY <1>1, <1>2, <1>4, <1>6, <2>1, <2>2, <2>4 DEF Sound, LocalsOK, CallOK
  <2> QED
    BY <1>1, <2>3, <2>5, OneMoves DEF Wake
<1> QED
  BY <1>5, <1>6

LEMMA MarkSound ==
  ASSUME IInv, NEW p \in Procs, Mark(p)
  PROVE  AllSound'
<1> DEFINE r == proc[p]
           n == [r EXCEPT !.pc = "load"]
<1>1. AllSound /\ Sound(p, r, origin) /\ r \in Proc /\ r.pc = "mark"
  BY Basics DEF AllSound, Sound, Mark, At
<1>2. proc' = [proc EXCEPT ![p] = n]
  BY <1>1 DEF Mark, AllSound
<1> HIDE DEF r
<1>3. /\ n \in Proc
      /\ n.pc = "load" /\ n.key = r.key /\ n.got = r.got /\ n.held = r.held
      /\ n.entry = r.entry /\ n.source = r.source /\ n.since = r.since
  BY <1>1 DEF Proc, Labels
<1> HIDE DEF n
<1>4. Sound(p, n, origin)
  BY <1>1, <1>3, MovedSound
<1> QED
  BY <1>1, <1>2, <1>4, OneMoves DEF Mark

LEMMA OriginReadsSound ==
  ASSUME IInv, NEW p \in Procs, OriginReads(p)
  PROVE  AllSound'
<1> DEFINE r == proc[p]
<1>1. /\ AllSound /\ origin \in [Keys -> Nat]
      /\ Sound(p, r, origin) /\ r.pc = "load"
  BY Basics DEF AllSound, OriginReads, At
<1>2. r \in Proc /\ r.key \in Keys /\ CallOK(r, origin)
  BY <1>1 DEF Sound, LocalsOK
<1>3. PICK v \in {origin[r.key], None} :
        proc' = [proc EXCEPT ![p] = [Got(r, v, "origin") EXCEPT !.pc = "answered"]]
  BY <1>1 DEF OriginReads, AllSound
<1> DEFINE g == Got(r, v, "origin")
           n == [g EXCEPT !.pc = "answered"]
<1> HIDE DEF r
<1>4. v \in Value /\ "origin" \in Sources
  BY <1>1, <1>2 DEF Value, Sources
<1>5. /\ g \in Proc
      /\ g.key = r.key /\ g.got = v /\ g.held = r.held
      /\ g.entry = r.entry /\ g.source = "origin" /\ g.since = r.since
  BY <1>2, <1>4, GotFields
<1>6. proc' = [proc EXCEPT ![p] = n]
  BY <1>3
<1> HIDE DEF g
<1>7. /\ n \in Proc
      /\ n.pc = "answered" /\ n.key = g.key /\ n.got = g.got /\ n.held = g.held
      /\ n.entry = g.entry /\ n.source = g.source /\ n.since = g.since
  BY <1>5 DEF Proc, Labels
<1> HIDE DEF n
<1>8. Sound(p, n, origin)
  BY <1>1, <1>2, <1>5, <1>7 DEF Sound, LocalsOK, CallOK
<1> QED
  BY <1>1, <1>6, <1>8, OneMoves DEF OriginReads

LEMMA CallerUnmarkSound ==
  ASSUME IInv, NEW c \in Callers, CallerUnmark(c)
  PROVE  AllSound'
<1> DEFINE r == proc[c]
           n == [r EXCEPT !.pc = "return"]
<1>1. /\ AllSound /\ c \in Procs /\ c \notin Tasks
      /\ Sound(c, r, origin) /\ r \in Proc /\ r.pc = "answered"
  BY Basics DEF AllSound, Sound, CallerUnmark, At
<1>2. proc' = [proc EXCEPT ![c] = n] /\ UNCHANGED origin
  BY DEF CallerUnmark, UnmarkAs
<1> HIDE DEF r
<1>3. /\ n \in Proc
      /\ n.pc = "return" /\ n.key = r.key /\ n.got = r.got /\ n.held = r.held
      /\ n.entry = r.entry /\ n.source = r.source /\ n.since = r.since
  BY <1>1 DEF Proc, Labels
<1> HIDE DEF n
<1>4. Sound(c, n, origin)
  BY <1>1, <1>3 DEF Sound, LocalsOK, CallOK
<1> QED
  BY <1>1, <1>2, <1>4, OneMoves

LEMMA ReturnLoadedSound ==
  ASSUME IInv, NEW c \in Callers, NEW t \in Tasks, ReturnLoaded(c, t)
  PROVE  AllSound'
<1> DEFINE r == proc[c]
           e == Stamped(r.got)
<1>1. /\ AllSound /\ origin \in [Keys -> Nat] /\ now \in Int
      /\ c \in Procs /\ t \in Procs /\ c # t
      /\ Sound(c, r, origin) /\ r.pc = "return" /\ r.got # None
  BY Basics DEF AllSound, ReturnLoaded, At
<1>2. /\ r \in Proc /\ r.key \in Keys /\ CallOK(r, origin)
      /\ r.got \in Nat /\ r.got \in Value
  BY <1>1 DEF Sound, LocalsOK, Proc, Value
<1>3. /\ r.got <= origin[r.key] /\ r.source \in {"origin", "cache"}
      /\ r.source = "origin" => r.since <= r.got
  BY <1>1, <1>2 DEF CallOK
<1>4. proc' = [proc EXCEPT ![c] = Answered(r, r.got, r.source),
                           ![t] = Job("write", r.key, e)]
  BY <1>1 DEF ReturnLoaded, AllSound
<1>5. e \in Entry /\ e.value = r.got
  BY <1>1, <1>2, StampedType, WindowAssumption DEF Stamped
<1> HIDE DEF r, e
<1>6. Sound(c, Answered(r, r.got, r.source), origin)
  BY <1>1, <1>2, <1>3, AnsweredSound
<1>7. Sound(t, Job("write", r.key, e), origin)
  <2>1. e \in Entry \cup {NoEntry} /\ e.value <= origin[r.key]
    BY <1>3, <1>5
  <2>2. "write" \in {"check", "write", "put"}
    OBVIOUS
  <2> QED
    BY <1>1, <1>2, <1>5, <2>1, <2>2, JobSound
<1> QED
  BY <1>1, <1>4, <1>6, <1>7, TwoMove DEF ReturnLoaded

LEMMA ReturnFallbackSound ==
  ASSUME IInv, NEW c \in Callers, ReturnFallback(c)
  PROVE  AllSound'
<1> DEFINE r == proc[c]
           s == IF r.held = None THEN r.source ELSE "fallback"
<1>1. /\ AllSound /\ origin \in [Keys -> Nat] /\ c \in Procs
      /\ Sound(c, r, origin) /\ r.pc = "return" /\ r.got = None
  BY Basics DEF AllSound, ReturnFallback, At
<1>2. r \in Proc /\ r.key \in Keys /\ CallOK(r, origin) /\ r.held \in Value
  BY <1>1 DEF Sound, LocalsOK, Proc
<1>3. /\ r.held # None => r.held <= origin[r.key]
      /\ r.source = "origin"
  BY <1>1, <1>2 DEF CallOK, OfGet
<1>4. proc' = [proc EXCEPT ![c] = Answered(r, r.held, s)]
  BY <1>1 DEF ReturnFallback, AllSound
<1>5. /\ s \in {"cache", "origin", "fallback", "peek"}
      /\ r.held = None => s = "origin"
      /\ s = "origin" => r.held = None
  BY <1>3
<1> HIDE DEF r, s
<1>6. Sound(c, Answered(r, r.held, s), origin)
  BY <1>1, <1>2, <1>3, <1>5, AnsweredSound
<1> QED
  BY <1>1, <1>4, <1>6, OneMoves DEF ReturnFallback

(* Each step of a background task does.                                    *)
LEMMA CheckSound ==
  ASSUME IInv, NEW t \in Tasks, Check(t)
  PROVE  AllSound'
<1> DEFINE r == proc[t]
           n == [r EXCEPT !.pc = "mark"]
<1>1. /\ AllSound /\ t \in Procs
      /\ Sound(t, r, origin) /\ r \in Proc /\ r.pc = "check"
  BY Basics DEF AllSound, Sound, Check, At
<1>2. proc' = [proc EXCEPT ![t] = IF r.key \in revalidating THEN Idle ELSE n]
  BY <1>1 DEF Check, AllSound
<1> HIDE DEF r
<1>3. /\ n \in Proc
      /\ n.pc = "mark" /\ n.key = r.key /\ n.got = r.got /\ n.held = r.held
      /\ n.entry = r.entry /\ n.source = r.source /\ n.since = r.since
  BY <1>1 DEF Proc, Labels
<1> HIDE DEF n
<1>4. Sound(t, n, origin)
  BY <1>1, <1>3, MovedSound
<1>5. Sound(t, Idle, origin)
  BY IdleSound
<1>6. Sound(t, IF r.key \in revalidating THEN Idle ELSE n, origin)
  BY <1>4, <1>5
<1> QED
  BY <1>1, <1>2, <1>6, OneMoves DEF Check

LEMMA StampSound ==
  ASSUME IInv, NEW t \in Tasks, Stamp(t)
  PROVE  AllSound'
<1> DEFINE r == proc[t]
           e == Stamped(r.got)
           n == [r EXCEPT !.pc = "set", !.entry = e]
<1>1. /\ AllSound /\ origin \in [Keys -> Nat] /\ now \in Int /\ t \in Procs
      /\ Sound(t, r, origin) /\ r.pc = "answered" /\ r.got # None
  BY Basics DEF AllSound, Stamp, At
<1>2. r \in Proc /\ r.key \in Keys /\ CallOK(r, origin) /\ r.got \in Nat
  BY <1>1 DEF Sound, LocalsOK, Proc, Value
<1>3. e \in Entry /\ e.value = r.got
  <2>1. r.got \in Nat /\ now \in Int /\ FreshMs \in Int /\ StaleMs \in Int
    BY <1>1, <1>2, WindowAssumption
  <2> HIDE DEF r
  <2> QED
    BY <2>1, StampedType DEF Stamped
<1>4. proc' = [proc EXCEPT ![t] = n]
  BY <1>1 DEF Stamp, AllSound
<1> HIDE DEF r, e
<1>5. /\ n \in Proc
      /\ n.pc = "set" /\ n.key = r.key /\ n.got = r.got /\ n.held = r.held
      /\ n.entry = e /\ n.source = r.source /\ n.since = r.since
  BY <1>2, <1>3 DEF Proc, Labels
<1> HIDE DEF n
<1>6. Sound(t, n, origin)
  BY <1>1, <1>2, <1>3, <1>5 DEF Sound, LocalsOK, CallOK
<1> QED
  BY <1>1, <1>4, <1>6, OneMoves DEF Stamp

LEMMA TaskUnmarkSound ==
  ASSUME IInv, NEW t \in Tasks, TaskUnmark(t)
  PROVE  AllSound'
<1>1. proc' = [proc EXCEPT ![t] = Idle] /\ UNCHANGED origin
  BY DEF TaskUnmark, UnmarkAs
<1> QED
  BY <1>1, Basics, IdleSound, OneMoves

LEMMA StoreSetSound ==
  ASSUME IInv, NEW p \in Procs, StoreSet(p)
  PROVE  AllSound'
<1>1. AllSound /\ UNCHANGED origin
  BY Basics DEF StoreSet
<1>2. CASE proc' = [proc EXCEPT ![p] = Idle]
  BY <1>1, <1>2, IdleSound, OneMoves
<1>3. CASE At(p, "set") /\ proc' = [proc EXCEPT ![p] = [@ EXCEPT
                                       !.pc = "unmark", !.entry = NoEntry]]
  <2> DEFINE r == proc[p]
             n == [r EXCEPT !.pc = "unmark", !.entry = NoEntry]
  <2>1. Sound(p, r, origin) /\ r \in Proc /\ r.pc = "set"
    BY <1>1, <1>3 DEF AllSound, Sound, At
  <2>2. proc' = [proc EXCEPT ![p] = n]
    BY <1>1, <1>3 DEF AllSound
  <2> HIDE DEF r
  <2>3. /\ n \in Proc
        /\ n.pc = "unmark" /\ n.key = r.key /\ n.got = r.got /\ n.held = r.held
        /\ n.entry = NoEntry /\ n.source = r.source /\ n.since = r.since
    BY <2>1 DEF Proc, Labels
  <2> HIDE DEF n
  <2>4. Sound(p, n, origin)
    BY <2>1, <2>3, MovedSound
  <2> QED
    BY <1>1, <2>2, <2>4, OneMoves
<1> QED
  BY <1>2, <1>3 DEF StoreSet

(* Each step of a client or of the environment does.                       *)
LEMMA SwrSound ==
  ASSUME IInv, NEW c \in Callers, NEW k \in Keys, Swr(c, k)
  PROVE  AllSound'
<1> DEFINE r == Called("lookup", k)
<1>1. AllSound /\ origin \in [Keys -> Nat] /\ c \in Procs /\ c \notin Tasks
  BY Basics
<1>2. origin[k] \in Nat /\ "lookup" \in Labels
  BY <1>1 DEF Labels
<1>3. /\ r \in Proc
      /\ r.pc = "lookup" /\ r.key = k /\ r.got = None /\ r.held = None
      /\ r.entry = NoEntry /\ r.source = "none" /\ r.since = origin[k]
  BY <1>2, CalledFields
<1>4. proc' = [proc EXCEPT ![c] = r]
  BY DEF Swr
<1> HIDE DEF r
<1>5. Sound(c, r, origin)
  BY <1>1, <1>2, <1>3 DEF Sound, LocalsOK, CallOK
<1> QED
  BY <1>1, <1>4, <1>5, OneMoves DEF Swr

(* What get hands out: an entry it sees, a miss, or an error.              *)
LEMMA GetGives ==
  ASSUME IInv, NEW c \in Callers, NEW k \in Keys, Get(c, k)
  PROVE  \E v \in Value, s \in OfGet :
           /\ GetAnswers(c, k, v, s)
           /\ v # None => s = "peek" /\ v <= origin[k]
<1>1. CASE \E e \in Visible(k) : GetAnswers(c, k, e.value, "peek")
  <2>1. PICK e \in Visible(k) : GetAnswers(c, k, e.value, "peek")
    BY <1>1
  <2>2. e \in Entry /\ e.value \in Nat /\ e.value <= origin[k]
    BY NoEntryAssumption, GetResultsSound DEF GetResults, Visible, IInv, TypeOK, Entry
  <2> QED
    BY <2>1, <2>2 DEF Value, OfGet
<1>2. CASE \E s \in OfGet : GetAnswers(c, k, None, s)
  BY <1>2 DEF Value
<1> QED
  BY <1>1, <1>2 DEF Get, GetAnswers, OfGet

LEMMA GetSound ==
  ASSUME IInv, NEW c \in Callers, NEW k \in Keys, Get(c, k)
  PROVE  AllSound'
<1>1. AllSound /\ origin \in [Keys -> Nat] /\ c \in Procs
  BY Basics
<1>2. PICK v \in Value, s \in OfGet :
        GetAnswers(c, k, v, s) /\ (v # None => v <= origin[k])
  BY GetGives
<1> DEFINE r == Called("done", k)
<1>4. origin[k] \in Nat /\ "done" \in Labels
  BY <1>1 DEF Labels
<1>5. /\ r \in Proc
      /\ r.pc = "done" /\ r.key = k /\ r.got = None /\ r.held = None
      /\ r.entry = NoEntry /\ r.source = "none" /\ r.since = origin[k]
  BY <1>4, CalledFields
<1>7. proc' = [proc EXCEPT ![c] = Answered(r, v, s)]
  BY <1>2 DEF GetAnswers
<1> HIDE DEF r
<1> DEFINE a == Answered(r, v, s)
<1>8. s \in Sources
  BY DEF Sources, OfGet
<1>9. /\ a \in Proc
      /\ a.pc = "done" /\ a.key = r.key /\ a.got = v /\ a.held = r.held
      /\ a.entry = NoEntry /\ a.source = s /\ a.since = r.since
  BY <1>5, <1>8, AnsweredFields
<1> HIDE DEF a
<1>10. Sound(c, a, origin)
  BY <1>1, <1>2, <1>4, <1>5, <1>9, ProcsAssumption DEF Sound, LocalsOK, CallOK, OfGet
<1> QED
  BY <1>1, <1>2, <1>7, <1>10, OneMoves DEF GetAnswers, a

LEMMA PutSound ==
  ASSUME IInv, NEW c \in Callers, NEW k \in Keys, NEW v \in 0..MaxVersion,
         NEW opts \in CustomOptions \cup {[fresh_ms |-> FreshMs, stale_ms |-> StaleMs]},
         Put(c, k, v, opts)
  PROVE  AllSound'
<1> DEFINE e == StampedEntry(v, now, opts.fresh_ms, opts.stale_ms)
<1>1. /\ AllSound /\ origin \in [Keys -> Nat] /\ now \in Int
      /\ c \in Procs /\ c \notin Tasks
  BY Basics
<1>2. v \in Nat /\ v <= origin[k]
  BY BoundAssumption DEF Put
<1>3. opts.fresh_ms \in Int /\ opts.stale_ms \in Int
  BY WindowAssumption
<1>4. e \in Entry /\ e.value = v
  BY <1>1, <1>2, <1>3, StampedType
<1>5. proc' = [proc EXCEPT ![c] = Job("put", k, e)]
  BY DEF Put
<1> HIDE DEF e
<1>6. e \in Entry \cup {NoEntry} /\ e.value <= origin[k] /\ "put" \in {"check", "write", "put"}
  BY <1>2, <1>4
<1>7. Sound(c, Job("put", k, e), origin)
  BY <1>1, <1>4, <1>6, JobSound
<1> QED
  BY <1>1, <1>5, <1>7, OneMoves DEF Put

LEMMA OriginUpdateSound ==
  ASSUME IInv, NEW k \in Keys, OriginUpdate(k)
  PROVE  AllSound'
<1>1. AllSound /\ origin \in [Keys -> Nat]
  BY Basics
<1>2. origin' \in [Keys -> Nat] /\ \A j \in Keys : origin[j] <= origin'[j]
  BY <1>1 DEF OriginUpdate
<1>3. ASSUME NEW p \in Procs
      PROVE  Sound(p, proc[p], origin')
  <2>1. Sound(p, proc[p], origin) /\ proc[p] \in Proc
    BY <1>1 DEF AllSound, Sound
  <2>2. proc[p].pc # "idle" => proc[p].key \in Keys
    BY <2>1 DEF Sound, LocalsOK
  <2>3. /\ proc[p].since \in Nat
        /\ proc[p].got # None => proc[p].got \in Nat
        /\ proc[p].held # None => proc[p].held \in Nat
        /\ proc[p].entry # NoEntry => proc[p].entry.value \in Nat
    BY <2>1 DEF Proc, Value, Entry
  <2> DEFINE r == proc[p]
  <2> HIDE DEF r
  <2>4. CallOK(r, origin) => CallOK(r, origin')
    BY <1>1, <1>2, <2>2, <2>3 DEF CallOK, r
  <2> QED
    BY <2>1, <2>4 DEF Sound, r
<1> QED
  BY <1>1, <1>3 DEF AllSound, OriginUpdate

LEMMA AbandonSound ==
  ASSUME IInv, NEW p \in Procs, Abandon(p)
  PROVE  AllSound'
BY Basics, IdleSound, OneMoves DEF Abandon

LEMMA SoundStep ==
  ASSUME IInv, [Next]_vars
  PROVE  AllSound'
<1>1. AllSound
  BY Basics
<1>2. ASSUME NEW c \in Callers, CallStep(c) PROVE AllSound'
  <2>1. c \in Procs
    BY Basics
  <2> QED
    BY <1>2, <2>1, LookupSound, FreshHitSound, StaleHitSound, ExpiredHitSound,
       DedupSound, WakeSound, MarkSound, OriginReadsSound, CallerUnmarkSound,
       ReturnLoadedSound, ReturnFallbackSound, StoreSetSound DEF CallStep
<1>3. ASSUME NEW t \in Tasks, TaskStep(t) PROVE AllSound'
  <2>1. t \in Procs
    BY Basics
  <2> QED
    BY <1>3, <2>1, CheckSound, MarkSound, OriginReadsSound, StampSound,
       StoreSetSound, TaskUnmarkSound DEF TaskStep
<1>4. CASE Client
  BY <1>1, <1>4, SwrSound, GetSound, PutSound DEF Client, Remove, AllSound
<1>5. CASE Environment
  BY <1>1, <1>5, OriginUpdateSound, AbandonSound DEF Environment, StoreDrop, Tick, AllSound
<1>6. CASE UNCHANGED vars
  BY <1>1, <1>6 DEF vars, AllSound
<1> QED
  BY <1>2, <1>3, <1>4, <1>5, <1>6 DEF Next

-----------------------------------------------------------------------------
(* The store: what is written is an entry the origin has caught up with.   *)
StoreOK ==
  /\ store \in [Keys -> SUBSET Entry]
  /\ \A k \in Keys : \A e \in store[k] : e.value <= origin[k]

(* A store that gains at most one sound entry stays sound.                 *)
LEMMA GainsOne ==
  ASSUME StoreOK, UNCHANGED origin, NEW k \in Keys, NEW R, R \subseteq store[k],
         NEW e \in Entry, e.value <= origin[k],
         NEW S, S = R \/ S = R \cup {e},
         store' = [store EXCEPT ![k] = S]
  PROVE  StoreOK'
<1>1. S \subseteq store[k] \cup {e} /\ S \in SUBSET Entry
  BY DEF StoreOK
<1>2. /\ store' \in [Keys -> SUBSET Entry]
      /\ store'[k] = S /\ \A j \in Keys : j # k => store'[j] = store[j]
  BY <1>1 DEF StoreOK
<1> QED
  BY <1>1, <1>2 DEF StoreOK

LEMMA StoreSetStore ==
  ASSUME IInv, NEW p \in Procs, StoreSet(p)
  PROVE  StoreOK'
<1> DEFINE r == proc[p]
<1>1. StoreOK /\ origin \in [Keys -> Nat] /\ Sound(p, r, origin)
  BY Basics DEF IInv, TypeOK, StoreOK, AllSound
<1>2. r.pc \in {"set", "write", "put"}
  BY DEF StoreSet, At
<1>3. r.key \in Keys /\ r.entry \in Entry /\ r.entry.value <= origin[r.key]
  BY <1>1, <1>2, NoEntryAssumption DEF Sound, LocalsOK, CallOK
<1>4. UNCHANGED origin
  BY DEF StoreSet
<1>5. CASE UNCHANGED store
  BY <1>1, <1>4, <1>5 DEF StoreOK
<1>6. CASE ~UNCHANGED store
  <2>1. PICK R \in Residues(r.key) : store' = [store EXCEPT ![r.key] = R \cup {r.entry}]
    BY <1>6 DEF StoreSet
  <2>2. R \subseteq store[r.key]
    BY DEF Residues
  <2> HIDE DEF r
  <2> QED
    BY <1>1, <1>3, <1>4, <2>1, <2>2, GainsOne
<1> QED
  BY <1>5, <1>6

LEMMA StoreStep ==
  ASSUME IInv, [Next]_vars
  PROVE  StoreOK'
<1>1. StoreOK /\ origin \in [Keys -> Nat]
  BY Basics DEF IInv, TypeOK, StoreOK
<1>2. CASE \E p \in Procs : StoreSet(p)
  BY <1>2, StoreSetStore
<1>3. CASE \E k \in Keys : Remove(k) \/ StoreDrop(k)
  <2>1. PICK k \in Keys : Remove(k) \/ StoreDrop(k)
    BY <1>3
  <2>2. PICK R : R \subseteq store[k] /\ store' = [store EXCEPT ![k] = R]
    BY <2>1 DEF Remove, StoreDrop, Residues
  <2>3. /\ store' \in [Keys -> SUBSET Entry]
        /\ store'[k] = R /\ \A j \in Keys : j # k => store'[j] = store[j]
    BY <1>1, <2>2 DEF StoreOK
  <2>4. UNCHANGED origin
    BY <2>1 DEF Remove, StoreDrop
  <2> QED
    BY <1>1, <2>2, <2>3, <2>4 DEF StoreOK
<1>4. CASE \E k \in Keys : OriginUpdate(k)
  <2>1. UNCHANGED store /\ \A k \in Keys : origin[k] <= origin'[k] /\ origin'[k] \in Nat
    BY <1>1, <1>4 DEF OriginUpdate
  <2>2. \A k \in Keys : \A e \in store[k] : e.value \in Nat
    BY <1>1 DEF StoreOK, Entry
  <2> QED
    BY <1>1, <2>1, <2>2 DEF StoreOK
<1>5. CASE UNCHANGED <<store, origin>>
  BY <1>1, <1>5 DEF StoreOK
<1>6. ASSUME NEW c \in Callers, CallStep(c)
      PROVE  UNCHANGED <<store, origin>> \/ StoreSet(c)
  BY <1>6 DEF CallStep, Lookup, FreshHit, StaleHit, ExpiredHit, Dedup, Wake, Mark,
     OriginReads, CallerUnmark, UnmarkAs, ReturnLoaded, ReturnFallback
<1>7. ASSUME NEW t \in Tasks, TaskStep(t)
      PROVE  UNCHANGED <<store, origin>> \/ StoreSet(t)
  BY <1>7 DEF TaskStep, Check, Mark, OriginReads, Stamp, TaskUnmark, UnmarkAs
<1>8. CASE Client
  BY <1>3, <1>5, <1>8 DEF Client, Swr, Get, GetAnswers, Put
<1>9. CASE Environment
  BY <1>3, <1>4, <1>5, <1>9 DEF Environment, Tick, Abandon
<1>10. CASE UNCHANGED vars
  BY <1>5, <1>10 DEF vars
<1> QED
  BY <1>2, <1>5, <1>6, <1>7, <1>8, <1>9, <1>10 DEF Next, Procs

-----------------------------------------------------------------------------
(* The markers.  A process outside its section may go anywhere, one inside *)
(* stays on its key, or takes the marker down, or is noted as abandoned.   *)
Stays(p, r) ==
  r.key = proc[p].key /\ r.pc \in {"load", "answered", "set", "unmark"}

LEMMA MarkersOneMoves ==
  ASSUME IInv, NEW p \in Procs, NEW r,
         proc' = [proc EXCEPT ![p] = r],
         \/ ~InSection(p)
         \/ Stays(p, r)
         \/ proc[p].key \notin revalidating' \ abandoned',
         revalidating' \subseteq revalidating,
         abandoned \cap revalidating' \subseteq abandoned'
  PROVE  MarkerHasLoader'
<1> SUFFICES ASSUME NEW k \in revalidating', k \notin abandoned'
             PROVE  InSectionOn(k)' # {}
  BY DEF MarkerHasLoader
<1>1. PICK q \in Procs : proc[q].key = k /\ InSection(q)
  BY DEF IInv, MarkerHasLoader, InSectionOn
<1>2. q = p => proc'[p].key = k /\ InSection(p)'
  BY <1>1 DEF IInv, TypeOK, Stays, InSection
<1>3. q # p => proc'[q] = proc[q]
  BY DEF IInv, TypeOK
<1>4. proc'[q].key = k /\ InSection(q)'
  BY <1>1, <1>2, <1>3 DEF InSection
<1> QED
  BY <1>4 DEF InSectionOn

LEMMA MarkersTwoMove ==
  ASSUME IInv, NEW p \in Procs, NEW q \in Procs, p # q, NEW r, NEW s,
         proc' = [proc EXCEPT ![p] = r, ![q] = s],
         ~InSection(p), ~InSection(q),
         UNCHANGED <<revalidating, abandoned>>
  PROVE  MarkerHasLoader'
<1> SUFFICES ASSUME NEW k \in revalidating, k \notin abandoned
             PROVE  InSectionOn(k)' # {}
  BY DEF MarkerHasLoader
<1>1. PICK u \in Procs : proc[u].key = k /\ InSection(u)
  BY DEF IInv, MarkerHasLoader, InSectionOn
<1>2. u # p /\ u # q /\ proc'[u] = proc[u]
  BY <1>1 DEF IInv, TypeOK
<1> QED
  BY <1>1, <1>2 DEF InSectionOn, InSection

LEMMA MarkMarkers ==
  ASSUME IInv, NEW p \in Procs, Mark(p)
  PROVE  MarkerHasLoader'
<1> SUFFICES ASSUME NEW k \in revalidating', k \notin abandoned'
             PROVE  InSectionOn(k)' # {}
  BY DEF MarkerHasLoader
<1>1. /\ proc \in [Procs -> Proc] /\ proc[p] \in Proc
      /\ proc' = [proc EXCEPT ![p] = [proc[p] EXCEPT !.pc = "load"]]
  BY DEF IInv, TypeOK, Mark
<1>2. proc'[p].key = proc[p].key /\ InSection(p)'
  BY <1>1 DEF InSection, Proc
<1>3. CASE k = proc[p].key
  BY <1>2, <1>3 DEF InSectionOn
<1>4. CASE k # proc[p].key
  <2>1. PICK q \in Procs : proc[q].key = k /\ InSection(q)
    BY <1>4 DEF IInv, MarkerHasLoader, InSectionOn, Mark
  <2>2. q # p /\ proc'[q] = proc[q]
    BY <1>1, <1>4, <2>1
  <2> QED
    BY <2>1, <2>2 DEF InSectionOn, InSection
<1> QED
  BY <1>3, <1>4

LEMMA OriginReadsMarkers ==
  ASSUME IInv, NEW p \in Procs, OriginReads(p)
  PROVE  MarkerHasLoader'
<1>1. proc \in [Procs -> Proc] /\ proc[p] \in Proc
  BY DEF IInv, TypeOK
<1>2. PICK v \in {origin[proc[p].key], None} :
        proc' = [proc EXCEPT ![p] = [Got(proc[p], v, "origin") EXCEPT !.pc = "answered"]]
  BY <1>1 DEF OriginReads
<1> DEFINE n == [Got(proc[p], v, "origin") EXCEPT !.pc = "answered"]
<1>3. Stays(p, n)
  BY <1>1 DEF Stays, Got, Proc
<1>4. proc' = [proc EXCEPT ![p] = n] /\ UNCHANGED <<revalidating, abandoned>>
  BY <1>2 DEF OriginReads
<1> HIDE DEF n
<1> QED
  BY <1>3, <1>4, MarkersOneMoves

LEMMA StoreSetMarkers ==
  ASSUME IInv, NEW p \in Procs, StoreSet(p)
  PROVE  MarkerHasLoader'
<1>1. /\ proc \in [Procs -> Proc] /\ proc[p] \in Proc
      /\ UNCHANGED <<revalidating, abandoned>>
  BY DEF IInv, TypeOK, StoreSet
<1>2. CASE At(p, "set")
  <2> DEFINE n == [proc[p] EXCEPT !.pc = "unmark", !.entry = NoEntry]
  <2>1. proc' = [proc EXCEPT ![p] = n]
    BY <1>1, <1>2 DEF StoreSet, At
  <2>2. Stays(p, n)
    BY <1>1 DEF Stays, Proc
  <2> HIDE DEF n
  <2> QED
    BY <1>1, <2>1, <2>2, MarkersOneMoves
<1>3. CASE At(p, "write") \/ At(p, "put")
  <2>1. ~InSection(p) /\ proc' = [proc EXCEPT ![p] = Idle]
    BY <1>3 DEF StoreSet, At, InSection
  <2> QED
    BY <1>1, <2>1, MarkersOneMoves
<1> QED
  BY <1>2, <1>3 DEF StoreSet

LEMMA CallMarkers ==
  ASSUME IInv, NEW c \in Callers, CallStep(c)
  PROVE  MarkerHasLoader'
<1>1. c \in Procs /\ proc \in [Procs -> Proc] /\ proc[c] \in Proc
  BY Basics DEF IInv, TypeOK
<1>2. CASE Lookup(c) \/ FreshHit(c) \/ ExpiredHit(c) \/ Dedup(c) \/ Wake(c) \/ ReturnFallback(c)
  <2>1. ~InSection(c) /\ UNCHANGED <<revalidating, abandoned>>
    BY <1>2 DEF Lookup, FreshHit, ExpiredHit, Dedup, Wake, ReturnFallback, At, InSection
  <2>2. \E r : proc' = [proc EXCEPT ![c] = r]
    BY <1>2 DEF Lookup, FreshHit, ExpiredHit, Dedup, Wake, ReturnFallback
  <2> QED
    BY <1>1, <2>1, <2>2, MarkersOneMoves
<1>3. ASSUME NEW t \in Tasks, StaleHit(c, t) \/ ReturnLoaded(c, t)
      PROVE  MarkerHasLoader'
  <2>1. t \in Procs /\ c # t
    BY Basics
  <2>2. ~InSection(c) /\ ~InSection(t) /\ UNCHANGED <<revalidating, abandoned>>
    BY <1>3 DEF StaleHit, ReturnLoaded, IdleTasks, At, InSection
  <2>3. \E r, s : proc' = [proc EXCEPT ![c] = r, ![t] = s]
    BY <1>3 DEF StaleHit, ReturnLoaded
  <2> QED
    BY <1>1, <2>1, <2>2, <2>3, MarkersTwoMove
<1>4. CASE Mark(c)
  BY <1>1, <1>4, MarkMarkers
<1>5. CASE OriginReads(c)
  BY <1>1, <1>5, OriginReadsMarkers
<1>6. CASE CallerUnmark(c)
  <2>1. /\ \E r : proc' = [proc EXCEPT ![c] = r]
        /\ revalidating' = revalidating \ {proc[c].key}
        /\ abandoned' = abandoned \ {proc[c].key}
    BY <1>6 DEF CallerUnmark, UnmarkAs
  <2> QED
    BY <1>1, <2>1, MarkersOneMoves
<1>7. CASE StoreSet(c)
  BY <1>1, <1>7, StoreSetMarkers
<1> QED
  BY <1>2, <1>3, <1>4, <1>5, <1>6, <1>7 DEF CallStep

LEMMA TaskMarkers ==
  ASSUME IInv, NEW t \in Tasks, TaskStep(t)
  PROVE  MarkerHasLoader'
<1>1. t \in Procs /\ proc \in [Procs -> Proc] /\ proc[t] \in Proc
  BY Basics DEF IInv, TypeOK
<1>2. CASE Check(t)
  <2>1. ~InSection(t) /\ UNCHANGED <<revalidating, abandoned>>
    BY <1>2 DEF Check, At, InSection
  <2>2. \E r : proc' = [proc EXCEPT ![t] = r]
    BY <1>2 DEF Check
  <2> QED
    BY <1>1, <2>1, <2>2, MarkersOneMoves
<1>3. CASE Mark(t)
  BY <1>1, <1>3, MarkMarkers
<1>4. CASE OriginReads(t)
  BY <1>1, <1>4, OriginReadsMarkers
<1>5. CASE Stamp(t)
  <2> DEFINE n == [proc[t] EXCEPT !.pc = "set", !.entry = Stamped(proc[t].got)]
  <2>1. proc' = [proc EXCEPT ![t] = n] /\ UNCHANGED <<revalidating, abandoned>>
    BY <1>1, <1>5 DEF Stamp
  <2>2. Stays(t, n)
    BY <1>1 DEF Stays, Proc
  <2> QED
    BY <1>1, <2>1, <2>2, MarkersOneMoves
<1>6. CASE StoreSet(t)
  BY <1>1, <1>6, StoreSetMarkers
<1>7. CASE TaskUnmark(t)
  <2>1. /\ \E r : proc' = [proc EXCEPT ![t] = r]
        /\ revalidating' = revalidating \ {proc[t].key}
        /\ abandoned' = abandoned \ {proc[t].key}
    BY <1>7 DEF TaskUnmark, UnmarkAs
  <2> QED
    BY <1>1, <2>1, MarkersOneMoves
<1> QED
  BY <1>2, <1>3, <1>4, <1>5, <1>6, <1>7 DEF TaskStep

LEMMA MarkersStep ==
  ASSUME IInv, [Next]_vars
  PROVE  MarkerHasLoader'
<1>1. CASE UNCHANGED <<proc, revalidating, abandoned>>
  BY <1>1 DEF IInv, MarkerHasLoader, InSectionOn, InSection
<1>2. ASSUME NEW c \in Callers, NEW k \in Keys, Swr(c, k) \/ Get(c, k)
      PROVE  MarkerHasLoader'
  <2>1. ~InSection(c) /\ UNCHANGED <<revalidating, abandoned>>
    BY <1>2 DEF Swr, Get, GetAnswers, Open, At, InSection
  <2>2. \E r : proc' = [proc EXCEPT ![c] = r]
    BY <1>2 DEF Swr, Get, GetAnswers
  <2> QED
    BY <2>1, <2>2, Basics, MarkersOneMoves
<1>3. ASSUME NEW c \in Callers, NEW k \in Keys, NEW v, NEW opts, Put(c, k, v, opts)
      PROVE  MarkerHasLoader'
  <2>1. ~InSection(c) /\ UNCHANGED <<revalidating, abandoned>>
    BY <1>3 DEF Put, Open, At, InSection
  <2>2. \E r : proc' = [proc EXCEPT ![c] = r]
    BY <1>3 DEF Put
  <2> QED
    BY <2>1, <2>2, Basics, MarkersOneMoves
<1>4. ASSUME NEW p \in Procs, Abandon(p)
      PROVE  MarkerHasLoader'
  <2>1. /\ \E r : proc' = [proc EXCEPT ![p] = r]
        /\ UNCHANGED revalidating /\ abandoned \subseteq abandoned'
        /\ InSection(p) => proc[p].key \notin revalidating' \ abandoned'
    BY <1>4 DEF Abandon
  <2> QED
    BY <2>1, MarkersOneMoves
<1>5. CASE Client
  BY <1>1, <1>2, <1>3, <1>5 DEF Client, Remove
<1>6. CASE Environment
  BY <1>1, <1>4, <1>6 DEF Environment, StoreDrop, OriginUpdate, Tick
<1> QED
  BY <1>1, <1>5, <1>6, CallMarkers, TaskMarkers DEF Next, vars

-----------------------------------------------------------------------------
(* The clock, the origin and the marked keys keep their types.             *)
SharedOK ==
  /\ now \in 0..MaxTime
  /\ origin \in [Keys -> 0..MaxVersion]
  /\ revalidating \subseteq Keys
  /\ abandoned \subseteq revalidating

LEMMA SharedStep ==
  ASSUME IInv, [Next]_vars
  PROVE  SharedOK'
<1>1. SharedOK /\ AllSound
  BY Basics DEF IInv, TypeOK, SharedOK
<1>2. CASE UNCHANGED <<now, origin, revalidating, abandoned>>
  BY <1>1, <1>2 DEF SharedOK
<1>3. ASSUME NEW p \in Procs, Mark(p)
      PROVE  SharedOK'
  <2>1. proc[p].key \in Keys
    BY <1>1, <1>3 DEF AllSound, Sound, LocalsOK, Mark, At
  <2> QED
    BY <1>1, <1>3, <2>1 DEF SharedOK, Mark
<1>4. ASSUME NEW p \in Procs, NEW r, UnmarkAs(p, r)
      PROVE  SharedOK'
  BY <1>1, <1>4 DEF SharedOK, UnmarkAs
<1>5. ASSUME NEW p \in Procs, Abandon(p)
      PROVE  SharedOK'
  BY <1>1, <1>5 DEF SharedOK, Abandon
<1>6. CASE \E k \in Keys : OriginUpdate(k)
  BY <1>1, <1>6, BoundAssumption DEF SharedOK, OriginUpdate
<1>7. CASE Tick
  BY <1>1, <1>7, BoundAssumption DEF SharedOK, Tick
<1>8. ASSUME NEW c \in Callers, CallStep(c)
      PROVE  SharedOK'
  BY <1>2, <1>3, <1>4, <1>8 DEF CallStep, Procs, Lookup, FreshHit, StaleHit, ExpiredHit,
     Dedup, Wake, OriginReads, CallerUnmark, ReturnLoaded, ReturnFallback, StoreSet
<1>9. ASSUME NEW t \in Tasks, TaskStep(t)
      PROVE  SharedOK'
  BY <1>2, <1>3, <1>4, <1>9 DEF TaskStep, Procs, Check, OriginReads, Stamp,
     TaskUnmark, StoreSet
<1>10. CASE Client
  BY <1>2, <1>10 DEF Client, Swr, Get, GetAnswers, Put, Remove
<1>11. CASE Environment
  BY <1>2, <1>5, <1>6, <1>7, <1>11 DEF Environment, StoreDrop
<1> QED
  BY <1>2, <1>8, <1>9, <1>10, <1>11 DEF Next, vars

-----------------------------------------------------------------------------
(* The inductive invariant.                                                *)
LEMMA InvInit == Init => IInv
<1> SUFFICES ASSUME Init PROVE IInv
  OBVIOUS
<1>1. ASSUME NEW p \in Procs
      PROVE  Sound(p, proc[p], origin)
  BY <1>1, IdleSound DEF Init
<1>2. /\ proc \in [Procs -> Proc]
      /\ \A p \in Procs : LocalsOK(p, proc[p])
      /\ \A p \in Procs : CallOK(proc[p], origin)
  BY <1>1 DEF Sound, Init
<1>3. SharedOK /\ StoreOK /\ MarkerHasLoader
  BY BoundAssumption DEF Init, SharedOK, StoreOK, MarkerHasLoader
<1> QED
  BY <1>2, <1>3 DEF IInv, TypeOK, SharedOK, StoreOK

LEMMA InvStep == IInv /\ [Next]_vars => IInv'
<1> SUFFICES ASSUME IInv, [Next]_vars PROVE IInv'
  OBVIOUS
<1>1. AllSound' /\ SharedOK' /\ StoreOK' /\ MarkerHasLoader'
  BY SoundStep, SharedStep, StoreStep, MarkersStep
<1> QED
  BY <1>1 DEF IInv, TypeOK, AllSound, Sound, SharedOK, StoreOK

LEMMA Invariance == Spec => []IInv
BY InvInit, InvStep, PTL DEF Spec

-----------------------------------------------------------------------------
(* Type correctness, with what each place in the code may rely on.         *)
THEOREM TypeCorrect == Spec => []TypeOK
<1>1. IInv => TypeOK
  BY DEF IInv
<1> QED
  BY <1>1, Invariance, PTL

(* swr.rs:356-407, 443-458: a marked key has a load in its section, or its *)
(* loader was dropped or panicked.                                         *)
THEOREM MarkersHaveLoaders == Spec => []MarkerHasLoader
<1>1. IInv => MarkerHasLoader
  BY DEF IInv
<1> QED
  BY <1>1, Invariance, PTL

(* swr.rs:452: a call answered by its own load gets data at least as new   *)
(* as the origin's when the call began, however loads and writes race.     *)
THEOREM OwnLoadsAreRecent == Spec => []OwnLoadIsRecent
<1>1. IInv => OwnLoadIsRecent
  <2> SUFFICES ASSUME IInv, NEW c \in Callers, At(c, "done"),
                      proc[c].source = "origin", proc[c].got # None
               PROVE  proc[c].got >= proc[c].since
    BY DEF OwnLoadIsRecent
  <2>1. c \in Procs /\ proc[c] \in Proc /\ CallOK(proc[c], origin)
    BY Basics DEF IInv, TypeOK
  <2>2. proc[c].since <= proc[c].got /\ proc[c].since \in Nat /\ proc[c].got \in Nat
    BY <2>1 DEF CallOK, Proc, Value
  <2> QED
    BY <2>2
<1> QED
  BY <1>1, Invariance, PTL

(* swr.rs:305-319, 425-442: swr says None only when the origin told this   *)
(* very call so.                                                           *)
THEOREM NoneComesFromOrigin == Spec => []NoneOnlyFromOrigin
<1>1. IInv => NoneOnlyFromOrigin
  BY DEF IInv, CallOK, NoneOnlyFromOrigin, At, Procs
<1> QED
  BY <1>1, Invariance, PTL

(* swr.rs:256-275: a call that held an expired value returns some value.   *)
THEOREM ExpiredIsNeverLost == Spec => []ExpiredNeverLost
<1>1. IInv => ExpiredNeverLost
  BY DEF IInv, CallOK, ExpiredNeverLost, At, Procs
<1> QED
  BY <1>1, Invariance, PTL

(* Without dropped calls and panicking loads no marker is ever orphaned.   *)
LEMMA NothingAbandoned ==
  "abandon" \notin Faults => (Spec => [](abandoned = {}))
<1> SUFFICES ASSUME "abandon" \notin Faults
             PROVE  Spec => [](abandoned = {})
  OBVIOUS
<1>1. Init => abandoned = {}
  BY DEF Init
<1>2. abandoned = {} /\ [Next]_vars => (abandoned = {})'
  <2> SUFFICES ASSUME abandoned = {}, [Next]_vars
               PROVE  abandoned' = {}
    OBVIOUS
  <2>1. ASSUME NEW c \in Callers, CallStep(c)
        PROVE  abandoned' = {}
    BY <2>1 DEF CallStep, Lookup, FreshHit, StaleHit, ExpiredHit, Dedup, Wake, Mark,
       OriginReads, CallerUnmark, UnmarkAs, ReturnLoaded, ReturnFallback, StoreSet
  <2>2. ASSUME NEW t \in Tasks, TaskStep(t)
        PROVE  abandoned' = {}
    BY <2>2 DEF TaskStep, Check, Mark, OriginReads, Stamp, TaskUnmark, UnmarkAs, StoreSet
  <2>3. CASE Client
    BY <2>3 DEF Client, Swr, Get, GetAnswers, Put, Remove
  <2>4. CASE Environment
    BY <2>4 DEF Environment, StoreDrop, OriginUpdate, Tick, Abandon
  <2> QED
    BY <2>1, <2>2, <2>3, <2>4 DEF Next, vars
<1> QED
  BY <1>1, <1>2, PTL DEF Spec

(* A task leaves its check either for the mark or because its key is.      *)
LEMMA CheckLeaves ==
  ASSUME IInv, "abandon" \notin Faults, [Next]_vars,
         NEW t \in Tasks, At(t, "check"), proc'[t].pc = "idle"
  PROVE  proc[t].key \in revalidating
<1>1. /\ proc \in [Procs -> Proc] /\ t \in Procs /\ proc[t] \in Proc
      /\ proc[t].pc = "check" /\ proc'[t] # proc[t]
  BY Basics DEF IInv, TypeOK, At
<1>2. ASSUME NEW c \in Callers, CallStep(c)
      PROVE  FALSE
  <2>1. c \in Procs /\ c # t
    BY Basics
  <2>2. t \notin IdleTasks
    BY <1>1 DEF IdleTasks, At
  <2> QED
    BY <1>1, <1>2, <2>1, <2>2 DEF CallStep, Lookup, FreshHit, StaleHit, ExpiredHit, Dedup, Wake,
       Mark, OriginReads, CallerUnmark, UnmarkAs, ReturnLoaded, ReturnFallback, StoreSet
<1>3. ASSUME NEW u \in Tasks, TaskStep(u)
      PROVE  u = t /\ Check(t)
  <2>1. u \in Procs
    BY Basics
  <2>2. u = t
    BY <1>1, <1>3, <2>1 DEF TaskStep, Check, Mark, OriginReads, Stamp, TaskUnmark,
       UnmarkAs, StoreSet
  <2> QED
    BY <1>1, <1>3, <2>2 DEF TaskStep, Mark, OriginReads, Stamp, TaskUnmark, StoreSet, At
<1>4. CASE Check(t)
  <2>1. proc[t].key \notin revalidating => proc'[t] = [proc[t] EXCEPT !.pc = "mark"]
    BY <1>1, <1>4 DEF Check
  <2>2. [proc[t] EXCEPT !.pc = "mark"].pc = "mark"
    BY <1>1 DEF Proc
  <2> QED
    BY <2>1, <2>2
<1>5. CASE Client
  BY <1>1, <1>5, Basics DEF Client, Swr, Get, GetAnswers, Put, Remove
<1>6. CASE Environment
  BY <1>1, <1>6 DEF Environment, StoreDrop, OriginUpdate, Tick, Abandon
<1>7. CASE UNCHANGED vars
  BY <1>1, <1>7 DEF vars
<1> QED
  BY <1>2, <1>3, <1>4, <1>5, <1>6, <1>7 DEF Next

(* swr.rs:226, 338-346: unless work is abandoned, the task of a stale hit  *)
(* ends without asking the origin only while another load of its key runs. *)
THEOREM StaleHitsGiveWayToALoad ==
  "abandon" \notin Faults => (Spec => GivesWayToALoad)
<1> SUFFICES ASSUME "abandon" \notin Faults
             PROVE  Spec => GivesWayToALoad
  OBVIOUS
<1>1. IInv /\ abandoned = {} /\ [Next]_vars
        => [\A t \in Tasks :
              At(t, "check") /\ proc'[t].pc = "idle"
                => InSectionOn(proc[t].key) # {}]_vars
  BY CheckLeaves DEF IInv, MarkerHasLoader
<1>2. Spec => [](abandoned = {})
  BY NothingAbandoned
<1> QED
  BY <1>1, <1>2, Invariance, PTL DEF Spec, GivesWayToALoad
-----------------------------------------------------------------------------
(* A step of its own brings a call or task nearer to its end; those that   *)
(* have ended, or are spawned, may start.                                  *)
LEMMA Stages ==
  /\ Stage["lookup"] = 1 /\ Stage["classify"] = 2 /\ Stage["dedup"] = 3
  /\ Stage["sleep"] = 4 /\ Stage["check"] = 4 /\ Stage["mark"] = 5
  /\ Stage["load"] = 6 /\ Stage["answered"] = 7 /\ Stage["return"] = 8
  /\ Stage["set"] = 8 /\ Stage["unmark"] = 9 /\ Stage["write"] = 9
  /\ Stage["put"] = 9 /\ Stage["done"] = 10 /\ Stage["idle"] = 10
BY DEF Stage

Advance ==
  \A p \in Procs :
    Open(p) /\ proc'[p] # proc[p] => Stage[proc[p].pc] < Stage[proc'[p].pc]

Nearer(p, r) == Stage[proc[p].pc] < Stage[r.pc]

LEMMA OneAdvances ==
  ASSUME proc \in [Procs -> Proc], NEW p \in Procs, NEW r,
         proc' = [proc EXCEPT ![p] = r],
         Nearer(p, r)
  PROVE  Advance
BY DEF Advance, Nearer

LEMMA OneStarts ==
  ASSUME proc \in [Procs -> Proc], NEW p \in Procs, NEW r,
         proc' = [proc EXCEPT ![p] = r], ~Open(p)
  PROVE  Advance
BY DEF Advance

LEMMA OneSpawns ==
  ASSUME proc \in [Procs -> Proc], NEW p \in Procs, NEW r, NEW t \in IdleTasks, NEW j,
         t # p, proc' = [proc EXCEPT ![p] = r, ![t] = j],
         Nearer(p, r)
  PROVE  Advance
BY DEF Advance, Nearer, IdleTasks, Open

LEMMA NoneMoves == ASSUME UNCHANGED proc PROVE Advance
BY DEF Advance

(* The steps that calls and tasks share.                                   *)
LEMMA MarkAdvances ==
  ASSUME IInv, NEW p \in Procs, Mark(p)
  PROVE  Advance
<1> DEFINE n == [proc[p] EXCEPT !.pc = "load"]
<1>1. proc \in [Procs -> Proc] /\ proc[p].pc = "mark" /\ n.pc = "load"
  BY DEF IInv, TypeOK, Mark, At, Proc
<1>2. proc' = [proc EXCEPT ![p] = n]
  BY <1>1 DEF Mark
<1> HIDE DEF n
<1>3. Nearer(p, n)
  BY <1>1, <1>2, Stages DEF Nearer
<1> QED
  BY <1>1, <1>2, <1>3, OneAdvances

LEMMA ReadAdvances ==
  ASSUME IInv, NEW p \in Procs, OriginReads(p)
  PROVE  Advance
<1>1. PICK v : proc' = [proc EXCEPT ![p] =
                          [Got(proc[p], v, "origin") EXCEPT !.pc = "answered"]]
  BY DEF OriginReads
<1> DEFINE n == [Got(proc[p], v, "origin") EXCEPT !.pc = "answered"]
<1>2. proc \in [Procs -> Proc] /\ proc[p].pc = "load" /\ n.pc = "answered"
  BY DEF IInv, TypeOK, OriginReads, At, Got, Proc
<1>3. proc' = [proc EXCEPT ![p] = n]
  BY <1>1
<1> HIDE DEF n
<1>4. Nearer(p, n)
  BY <1>2, <1>3, Stages DEF Nearer
<1> QED
  BY <1>2, <1>3, <1>4, OneAdvances

LEMMA SetAdvances ==
  ASSUME IInv, NEW p \in Procs, StoreSet(p)
  PROVE  Advance
<1>1. proc \in [Procs -> Proc]
  BY DEF IInv, TypeOK
<1>2. CASE At(p, "set")
  <2> DEFINE n == [proc[p] EXCEPT !.pc = "unmark", !.entry = NoEntry]
  <2>1. proc[p].pc = "set" /\ n.pc = "unmark"
    BY <1>1, <1>2 DEF At, Proc
  <2>2. proc' = [proc EXCEPT ![p] = n]
    BY <1>2 DEF StoreSet, At
  <2> HIDE DEF n
  <2>3. Nearer(p, n)
    BY <1>1, <2>1, <2>2, Stages DEF Nearer
  <2> QED
    BY <1>1, <2>1, <2>2, <2>3, OneAdvances
<1>3. CASE ~At(p, "set")
  <2>1. proc[p].pc \in {"write", "put"} /\ proc' = [proc EXCEPT ![p] = Idle]
    BY <1>3 DEF StoreSet, At
  <2>2. Idle.pc = "idle"
    BY DEF Idle, Job
  <2>3. Nearer(p, Idle)
    BY <1>1, <2>1, <2>2, Stages DEF Nearer
  <2> QED
    BY <1>1, <2>1, <2>2, <2>3, OneAdvances
<1> QED
  BY <1>2, <1>3

LEMMA CallAdvances ==
  ASSUME IInv, NEW c \in Callers, CallStep(c)
  PROVE  Advance
<1> DEFINE r == proc[c]
<1>1. /\ proc \in [Procs -> Proc] /\ c \in Procs /\ r \in Proc
      /\ \A t \in IdleTasks : t # c
  BY Basics DEF IInv, TypeOK, IdleTasks
<1>2. ASSUME NEW l \in Labels, NEW e PROVE [r EXCEPT !.pc = l, !.entry = e].pc = l
  BY <1>1 DEF Proc
<1>3. ASSUME NEW l \in Labels, NEW w PROVE [r EXCEPT !.pc = l, !.wake = w].pc = l
  BY <1>1 DEF Proc
<1>4. ASSUME NEW l \in Labels PROVE [r EXCEPT !.pc = l].pc = l
  BY <1>1 DEF Proc
<1>5. ASSUME NEW v, NEW s PROVE Answered(r, v, s).pc = "done"
  BY <1>1 DEF Answered, Got, Proc
<1>6. CASE Lookup(c)
  <2> PICK e \in GetResults(r.key) :
        proc' = [proc EXCEPT ![c] =
                   [r EXCEPT !.pc = IF e = NoEntry THEN "dedup" ELSE "classify", !.entry = e]]
    BY <1>6 DEF Lookup
  <2> DEFINE l == IF e = NoEntry THEN "dedup" ELSE "classify"
             n == [r EXCEPT !.pc = l, !.entry = e]
  <2>1. r.pc = "lookup" /\ l \in {"dedup", "classify"} /\ l \in Labels
    BY <1>6 DEF Lookup, At, Labels
  <2>2. proc' = [proc EXCEPT ![c] = n]
    OBVIOUS
  <2> HIDE DEF l
  <2>3. n.pc = l
    BY <1>2, <2>1
  <2> HIDE DEF n
  <2>4. Nearer(c, n)
    BY <1>1, <2>1, <2>2, <2>3, Stages DEF Nearer
  <2> QED
    BY <1>1, <2>1, <2>2, <2>3, <2>4, OneAdvances
<1>7. CASE FreshHit(c)
  <2>1. /\ r.pc = "classify"
        /\ proc' = [proc EXCEPT ![c] = Answered(r, r.entry.value, "cache")]
    BY <1>7 DEF FreshHit, At
  <2>2. Nearer(c, Answered(r, r.entry.value, "cache"))
    BY <1>1, <1>5, <2>1, Stages DEF Nearer
  <2> QED
    BY <1>1, <1>5, <2>1, <2>2, OneAdvances
<1>8. ASSUME NEW t \in Tasks, StaleHit(c, t) PROVE Advance
  <2>1. /\ r.pc = "classify" /\ t \in IdleTasks
        /\ proc' = [proc EXCEPT ![c] = Answered(r, r.entry.value, "cache"),
                                ![t] = Job("check", r.key, NoEntry)]
    BY <1>1, <1>8 DEF StaleHit, At
  <2>2. Nearer(c, Answered(r, r.entry.value, "cache"))
    BY <1>1, <1>5, <2>1, Stages DEF Nearer
  <2> QED
    BY <1>1, <1>5, <2>1, <2>2, OneSpawns
<1>9. CASE ExpiredHit(c)
  <2> DEFINE n == [Holding(r) EXCEPT !.pc = "dedup"]
  <2>1. n.pc = "dedup"
    BY <1>1 DEF Holding, Proc
  <2>2. r.pc = "classify" /\ proc' = [proc EXCEPT ![c] = n]
    BY <1>9 DEF ExpiredHit, At
  <2> HIDE DEF n
  <2>3. Nearer(c, n)
    BY <1>1, <2>1, <2>2, Stages DEF Nearer
  <2> QED
    BY <1>1, <2>1, <2>2, <2>3, OneAdvances
<1>10. CASE Dedup(c)
  <2>1. CASE r.key \in revalidating
    <3> DEFINE n == [r EXCEPT !.pc = "sleep", !.wake = WaitEnd]
    <3>1. n.pc = "sleep" /\ r.pc = "dedup" /\ proc' = [proc EXCEPT ![c] = n]
      BY <1>3, <1>10, <2>1 DEF Dedup, At, Labels
    <3> HIDE DEF n
    <3>2. Nearer(c, n)
      BY <1>1, <3>1, Stages DEF Nearer
    <3> QED
      BY <1>1, <3>1, <3>2, OneAdvances
  <2>2. CASE r.key \notin revalidating
    <3> DEFINE n == [r EXCEPT !.pc = "mark"]
    <3>1. n.pc = "mark" /\ r.pc = "dedup" /\ proc' = [proc EXCEPT ![c] = n]
      BY <1>4, <1>10, <2>2 DEF Dedup, At, Labels
    <3> HIDE DEF n
    <3>2. Nearer(c, n)
      BY <1>1, <3>1, Stages DEF Nearer
    <3> QED
      BY <1>1, <3>1, <3>2, OneAdvances
  <2> QED
    BY <2>1, <2>2
<1>11. CASE Wake(c)
  <2> PICK e \in GetResults(r.key) :
        proc' = [proc EXCEPT ![c] =
                   IF e = NoEntry
                   THEN [r EXCEPT !.pc = "mark", !.wake = 0]
                   ELSE [Got(r, e.value, "cache") EXCEPT !.pc = "return", !.wake = 0]]
    BY <1>11 DEF Wake
  <2>1. r.pc = "sleep"
    BY <1>11 DEF Wake, At
  <2>2. CASE e = NoEntry
    <3> DEFINE n == [r EXCEPT !.pc = "mark", !.wake = 0]
    <3>1. n.pc = "mark" /\ proc' = [proc EXCEPT ![c] = n]
      BY <1>3, <2>2 DEF Labels
    <3> HIDE DEF n
    <3>2. Nearer(c, n)
      BY <1>1, <2>1, <3>1, Stages DEF Nearer
    <3> QED
      BY <1>1, <2>1, <3>1, <3>2, OneAdvances
  <2>3. CASE e # NoEntry
    <3> DEFINE n == [Got(r, e.value, "cache") EXCEPT !.pc = "return", !.wake = 0]
    <3>1. n.pc = "return"
      BY <1>1 DEF Got, Proc
    <3>2. proc' = [proc EXCEPT ![c] = n]
      BY <2>3
    <3> HIDE DEF n
    <3>3. Nearer(c, n)
      BY <1>1, <2>1, <3>1, <3>2, Stages DEF Nearer
    <3> QED
      BY <1>1, <2>1, <3>1, <3>2, <3>3, OneAdvances
  <2> QED
    BY <2>2, <2>3
<1>12. CASE ReturnFallback(c)
  <2>1. /\ r.pc = "return"
        /\ proc' = [proc EXCEPT ![c] =
                      Answered(r, r.held, IF r.held = None THEN r.source ELSE "fallback")]
    BY <1>12 DEF ReturnFallback, At
  <2>2. Nearer(c, Answered(r, r.held, IF r.held = None THEN r.source ELSE "fallback"))
    BY <1>1, <1>5, <2>1, Stages DEF Nearer
  <2> QED
    BY <1>1, <1>5, <2>1, <2>2, OneAdvances
<1>13. ASSUME NEW t \in Tasks, ReturnLoaded(c, t) PROVE Advance
  <2>1. /\ r.pc = "return" /\ t \in IdleTasks
        /\ proc' = [proc EXCEPT ![c] = Answered(r, r.got, r.source),
                                ![t] = Job("write", r.key, Stamped(r.got))]
    BY <1>1, <1>13 DEF ReturnLoaded, At
  <2>2. Nearer(c, Answered(r, r.got, r.source))
    BY <1>1, <1>5, <2>1, Stages DEF Nearer
  <2> QED
    BY <1>1, <1>5, <2>1, <2>2, OneSpawns
<1>14. CASE CallerUnmark(c)
  <2> DEFINE n == [r EXCEPT !.pc = "return"]
  <2>1. n.pc = "return" /\ r.pc = "answered" /\ proc' = [proc EXCEPT ![c] = n]
    BY <1>4, <1>14 DEF CallerUnmark, UnmarkAs, At, Labels
  <2> HIDE DEF n
  <2>2. Nearer(c, n)
    BY <1>1, <2>1, Stages DEF Nearer
  <2> QED
    BY <1>1, <2>1, <2>2, OneAdvances
<1> HIDE DEF r
<1> QED
  BY <1>1, <1>6, <1>7, <1>8, <1>9, <1>10, <1>11, <1>12, <1>13, <1>14,
     MarkAdvances, ReadAdvances, SetAdvances DEF CallStep

LEMMA TaskAdvances ==
  ASSUME IInv, NEW t \in Tasks, TaskStep(t)
  PROVE  Advance
<1>1. proc \in [Procs -> Proc] /\ t \in Procs
  BY Basics DEF IInv, TypeOK
<1>2. Idle.pc = "idle"
  BY DEF Idle, Job
<1>3. CASE Check(t)
  <2> DEFINE n == IF proc[t].key \in revalidating THEN Idle ELSE [proc[t] EXCEPT !.pc = "mark"]
  <2>1. n.pc \in {"idle", "mark"}
    BY <1>1, <1>2 DEF Proc
  <2>2. proc[t].pc = "check" /\ proc' = [proc EXCEPT ![t] = n]
    BY <1>3 DEF Check, At
  <2> HIDE DEF n
  <2>3. Nearer(t, n)
    BY <1>1, <2>1, <2>2, Stages DEF Nearer
  <2> QED
    BY <1>1, <2>1, <2>2, <2>3, OneAdvances
<1>4. CASE Stamp(t)
  <2> DEFINE n == [proc[t] EXCEPT !.pc = "set", !.entry = Stamped(proc[t].got)]
  <2>1. n.pc = "set"
    BY <1>1 DEF Proc
  <2>2. proc[t].pc = "answered" /\ proc' = [proc EXCEPT ![t] = n]
    BY <1>4 DEF Stamp, At
  <2> HIDE DEF n
  <2>3. Nearer(t, n)
    BY <1>1, <2>1, <2>2, Stages DEF Nearer
  <2> QED
    BY <1>1, <2>1, <2>2, <2>3, OneAdvances
<1>5. CASE TaskUnmark(t)
  <2>1. proc[t].pc \in {"unmark", "answered"} /\ proc' = [proc EXCEPT ![t] = Idle]
    BY <1>5 DEF TaskUnmark, UnmarkAs, At
  <2>2. Nearer(t, Idle)
    BY <1>1, <1>2, <2>1, Stages DEF Nearer
  <2> QED
    BY <1>1, <1>2, <2>1, <2>2, OneAdvances
<1> QED
  BY <1>1, <1>3, <1>4, <1>5, MarkAdvances, ReadAdvances, SetAdvances DEF TaskStep

LEMMA OthersAdvance ==
  ASSUME IInv, Client \/ Environment
  PROVE  Advance
<1>1. proc \in [Procs -> Proc] /\ \A c \in Callers : c \in Procs
  BY Basics DEF IInv, TypeOK
<1>2. ASSUME NEW c \in Callers, NEW r, proc' = [proc EXCEPT ![c] = r], ~Open(c)
      PROVE  Advance
  BY <1>1, <1>2, OneStarts
<1>3. ASSUME NEW c \in Callers, NEW k \in Keys, Swr(c, k) PROVE Advance
  BY <1>2, <1>3 DEF Swr
<1>4. ASSUME NEW c \in Callers, NEW k \in Keys, Get(c, k) PROVE Advance
  BY <1>2, <1>4 DEF Get, GetAnswers
<1>5. ASSUME NEW c \in Callers, NEW k \in Keys, NEW v \in 0..MaxVersion,
             NEW opts \in CustomOptions \cup {[fresh_ms |-> FreshMs, stale_ms |-> StaleMs]},
             Put(c, k, v, opts)
      PROVE  Advance
  BY <1>2, <1>5 DEF Put
<1>6. ASSUME NEW p \in Procs, Abandon(p) PROVE Advance
  <2>1. Idle.pc = "idle" /\ proc' = [proc EXCEPT ![p] = Idle]
    BY <1>6 DEF Abandon, Idle, Job
  <2>2. proc[p].pc \in {"lookup", "dedup", "sleep", "mark", "load", "answered", "put"}
    BY <1>6 DEF Abandon
  <2>3. Nearer(p, Idle)
    BY <1>1, <2>1, <2>2, Stages DEF Nearer
  <2> QED
    BY <1>1, <2>1, <2>2, <2>3, OneAdvances
<1>7. ASSUME NEW k \in Keys, Remove(k) \/ StoreDrop(k) \/ OriginUpdate(k) PROVE Advance
  BY <1>7, NoneMoves DEF Remove, StoreDrop, OriginUpdate
<1>8. CASE Tick
  BY <1>8, NoneMoves DEF Tick
<1> QED
  BY <1>3, <1>4, <1>5, <1>6, <1>7, <1>8 DEF Client, Environment

(* swr.rs:222-461: every step of a call or task is one of a bounded few,   *)
(* so none can run in circles: the safety half of its termination.         *)
THEOREM WorkOnlyAdvances == Spec => OnlyAdvances
<1>1. IInv /\ [Next]_vars => [Advance]_vars
  BY CallAdvances, TaskAdvances, OthersAdvance DEF Next
<1>2. [Advance]_vars
        => [\A p \in Procs :
              Open(p) /\ proc'[p] # proc[p]
                => Stage[proc[p].pc] < Stage[proc'[p].pc]]_vars
  BY DEF Advance
<1> QED
  BY <1>1, <1>2, Invariance, PTL DEF Spec, OnlyAdvances
=============================================================================
