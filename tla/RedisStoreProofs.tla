-------------------------- MODULE RedisStoreProofs --------------------------
(* Proofs about RedisStore, for every set of callers, keys and entries.    *)
EXTENDS RedisStore, FiniteSetTheorems, TLAPS

-----------------------------------------------------------------------------
(* A conversion changes the form of an entry, never what it stands for.    *)
LEMMA Converted ==
  ASSUME NEW x \in StoredEntry, Coherent(x),
         ConvertForMode(x, "serialized") # NoEntry
  PROVE  LET y == ConvertForMode(x, "serialized") IN
         /\ y \in Json
         /\ y.type = x.type /\ y.data = x.data
         /\ y.fresh_until = x.fresh_until /\ y.stale_until = x.stale_until
<1>1. /\ x.type \in Types /\ x.data \in Entry /\ x.fresh_until \in Int /\ x.stale_until \in Int
      /\ x.mode \in {"typed", "serialized"}
  BY DEF StoredEntry, Modes
<1>2. CASE x.mode = "serialized"
  BY <1>2 DEF ConvertForMode, ToSerialized, Json
<1>3. CASE x.mode # "serialized"
  BY <1>1, <1>3 DEF ConvertForMode, ToSerialized, FromSerialized, Json, StoredEntry, Modes, Coherent
<1> QED
  BY <1>2, <1>3

LEMMA ParsedJson ==
  ASSUME NEW y \in Json
  PROVE  /\ Parsed(y) \in Json
         /\ Parsed(y).type = y.type /\ Parsed(y).data = y.data
         /\ Parsed(y).fresh_until = y.fresh_until /\ Parsed(y).stale_until = y.stale_until
         /\ Parsed(y).mode = "serialized"
<1>1. /\ y.type \in Types /\ y.data \in Entry /\ y.fresh_until \in Int /\ y.stale_until \in Int
      /\ y.data.fresh_until = y.fresh_until /\ y.data.stale_until = y.stale_until
  BY DEF Json, StoredEntry, Coherent
<1> QED
  BY <1>1 DEF Parsed, FromSerialized, Json, StoredEntry, Modes, Coherent

(* What the store may give back, and what it decodes to.                   *)
LEMMA WrittenDecodes ==
  ASSUME NEW k \in Keys, NEW y \in Written[k]
  PROVE  /\ y \in Json
         /\ \E x \in Inputs[k] : /\ IntoTyped(y, x.type) = IntoTyped(x, x.type)
                                 /\ y.fresh_until = x.fresh_until
                                 /\ y.stale_until = x.stale_until
<1>1. PICK x \in Inputs[k] : ConvertForMode(x, "serialized") # NoEntry
                          /\ y = Parsed(ConvertForMode(x, "serialized"))
  BY DEF Written
<1>2. x \in StoredEntry /\ Coherent(x) /\ x.type \in Types
  BY InputsAssumption DEF StoredEntry
<1> DEFINE z == ConvertForMode(x, "serialized")
<1>3. /\ z \in Json /\ z.type = x.type /\ z.data = x.data
      /\ z.fresh_until = x.fresh_until /\ z.stale_until = x.stale_until
  BY <1>1, <1>2, Converted
<1> HIDE DEF z
<1>4. /\ y \in Json /\ y.type = x.type /\ y.data = x.data /\ y.mode = "serialized"
      /\ y.fresh_until = x.fresh_until /\ y.stale_until = x.stale_until
  BY <1>1, <1>3, ParsedJson DEF z
<1>5. x.type \in Reads[x.type]
  BY <1>2, SerdeAssumption
<1> QED
  BY <1>4, <1>5 DEF IntoTyped, Readable

LEMMA WrittenParsed ==
  ASSUME NEW k \in Keys, NEW x \in Inputs[k], ConvertForMode(x, "serialized") # NoEntry
  PROVE  Parsed(ConvertForMode(x, "serialized")) \in Written[k]
  BY DEF Written

-----------------------------------------------------------------------------
(* What an entry is, whatever its form: the type and the data it was       *)
(* written with, and twice the same deadlines.                             *)
Carries(x, V, e) ==
  /\ x \in StoredEntry /\ Coherent(x)
  /\ x.type = V /\ x.data = e

LEMMA CacheEntryCarries ==
  ASSUME NEW mode \in Modes, NEW V \in Types, NEW value \in Nat, NEW f \in Int, NEW s \in Int,
         CacheEntry(mode, V, value, f, s) # NoEntry
  PROVE  Carries(CacheEntry(mode, V, value, f, s), V, NewEntry(value, f, s))
<1> DEFINE e == NewEntry(value, f, s)
<1>1. e \in Entry /\ e.fresh_until = f /\ e.stale_until = s
  BY DEF NewEntry, Entry
<1>2. CASE mode = "typed"
  BY <1>1, <1>2 DEF CacheEntry, FromTypedWithSerializer, Typed, Carries, StoredEntry, Modes,
     Coherent
<1>3. CASE mode # "typed"
  <2>1. CacheEntry(mode, V, value, f, s) = FromSerialized(V, e, f, s)
    BY <1>3 DEF CacheEntry
  <2> HIDE DEF e
  <2>2. Carries(CacheEntry(mode, V, value, f, s), V, e)
    BY <1>1, <2>1 DEF FromSerialized, Carries, StoredEntry, Modes, Coherent
  <2> QED
    BY <2>2 DEF e
<1> QED
  BY <1>2, <1>3

LEMMA ConversionCarries ==
  ASSUME NEW V, NEW e, NEW x, Carries(x, V, e), NEW mode \in Modes,
         ConvertForMode(x, mode) # NoEntry
  PROVE  Carries(ConvertForMode(x, mode), V, e)
<1>1. CASE mode = "serialized"
  BY <1>1, Converted DEF Carries, Json
<1>2. CASE mode # "serialized"
  BY <1>2 DEF ConvertForMode, Carries
<1> QED
  BY <1>1, <1>2

LEMMA ReadBackCarries ==
  ASSUME NEW V, NEW e, NEW x, Carries(x, V, e), x.mode = "serialized"
  PROVE  Carries(Parsed(x), V, e)
BY ParsedJson DEF Carries, Json

LEMMA CarriedDecodes ==
  ASSUME NEW V \in Types, NEW e, NEW x, Carries(x, V, e)
  PROVE  /\ IntoTyped(x, V) = e
         /\ x.fresh_until = e.fresh_until /\ x.stale_until = e.stale_until
BY SerdeAssumption DEF Carries, Coherent, IntoTyped, Readable

(* entry.rs:97-282, swr.rs:141-159, redis.rs:117-126: what a cache writes, *)
(* converted for a tier, kept as JSON by Redis, read back and converted    *)
(* again by a backfill, decodes to the value that was written and is       *)
(* judged by the deadlines it was given, at every stop of the way.         *)
THEOREM EntriesSurviveTiers ==
  ASSUME NEW V \in Types, NEW value \in Nat, NEW f \in Int, NEW s \in Int,
         NEW mode \in Modes, NEW backfill \in Modes,
         CacheEntry(mode, V, value, f, s) # NoEntry,
         ConvertForMode(CacheEntry(mode, V, value, f, s), "serialized") # NoEntry
  PROVE  LET x == ConvertForMode(CacheEntry(mode, V, value, f, s), "serialized")
             y == ConvertForMode(Parsed(x), backfill)
         IN  /\ y # NoEntry
             /\ IntoTyped(x, V) = NewEntry(value, f, s)
             /\ IntoTyped(y, V) = NewEntry(value, f, s)
             /\ y.fresh_until = f /\ y.stale_until = s
<1> DEFINE e == NewEntry(value, f, s)
           w == CacheEntry(mode, V, value, f, s)
           x == ConvertForMode(w, "serialized")
           y == ConvertForMode(Parsed(x), backfill)
<1>1. e.fresh_until = f /\ e.stale_until = s
  BY DEF NewEntry
<1>2. Carries(w, V, e)
  BY CacheEntryCarries
<1> HIDE DEF e, w
<1>3. Carries(x, V, e) /\ x.mode = "serialized"
  BY <1>2, ConversionCarries, Converted DEF Modes, Carries, Json, w
<1> HIDE DEF x
<1>4. Carries(Parsed(x), V, e) /\ Parsed(x).mode = "serialized"
  BY <1>3, ReadBackCarries, ParsedJson DEF Carries, Json
<1>5. y = Parsed(x)
  BY <1>4 DEF ConvertForMode, ToSerialized
<1>6. y # NoEntry
  BY <1>4, <1>5, ErrAssumption DEF Carries
<1>7. Carries(y, V, e)
  BY <1>4, <1>5
<1> HIDE DEF y
<1>8. IntoTyped(x, V) = e /\ IntoTyped(y, V) = e /\ y.fresh_until = f /\ y.stale_until = s
  BY <1>1, <1>3, <1>7, CarriedDecodes
<1> QED
  BY <1>6, <1>8 DEF e, w, x, y

-----------------------------------------------------------------------------
LEMMA TtlBound ==
  ASSUME NEW stale_until \in Int, now \in Int
  PROVE  /\ calculate_ttl_seconds(stale_until) \in Nat
         /\ now + 1000 * calculate_ttl_seconds(stale_until) > stale_until - 1000
<1>1. CASE stale_until <= now + 1000
  BY <1>1 DEF calculate_ttl_seconds
<1>2. CASE ~(stale_until <= now + 1000)
  <2> DEFINE d == stale_until - now
  <2>1. d \in Int /\ d > 1000
    BY <1>2
  <2>2. d \div 1000 \in Int /\ d \div 1000 >= 1 /\ 1000 * (d \div 1000) > d - 1000
    BY <2>1
  <2> QED
    BY <1>2, <2>2 DEF calculate_ttl_seconds
<1> QED
  BY <1>1, <1>2

(* The inductive invariant: everything on the way to or from the server is *)
(* something that was written, and a command under way has time left.      *)
FlowsRight ==
  /\ \A k \in Keys : Stored(k) => Parsed(redis[k].json) \in Written[k]
  /\ \A p \in Procs : At(p, "judge") => proc[p].entry \in Written[proc[p].key]
  /\ \A p \in Procs : At(p, "set") =>
       /\ Parsed(proc[p].entry) \in Written[proc[p].key]
       /\ proc[p].ttl # Never =>
            now + 1000 * proc[p].ttl > proc[p].entry.stale_until - 1000
  /\ \A p \in Procs : answer[p] # NoEntry => \E k \in Keys : answer[p] \in Written[k]
IInv == TypeOK /\ TtlLosesLessThanASecond /\ FlowsRight

-----------------------------------------------------------------------------
LEMMA AtRest == /\ Idle \notin Command /\ Idle.pc = "idle"
                /\ \A c \in Command : c.pc \in {"judge", "set"}
  BY DEF Idle, Command

LEMMA JudgingCommand ==
  ASSUME NEW k \in Keys, NEW y \in Json
  PROVE  [pc |-> "judge", key |-> k, entry |-> y, ttl |-> Never] \in Command
  BY DEF Command

LEMMA AtWork ==
  ASSUME TypeOK, NEW p \in Procs, ~At(p, "idle")
  PROVE  /\ proc[p] \in Command /\ proc[p].key \in Keys /\ proc[p].entry \in Json
         /\ proc[p].ttl \in Nat \cup {Never}
         /\ At(p, "set") => (proc[p].ttl = Never <=> proc[p].key \in Persistent)
<1>1. proc[p] \in Command \cup {Idle}
  BY DEF TypeOK
<1>2. proc[p] # Idle
  BY AtRest DEF At
<1> QED
  BY <1>1, <1>2 DEF Command, At

LEMMA JsonTimes ==
  ASSUME NEW y \in Json
  PROVE  y.stale_until \in Int /\ y.fresh_until \in Int /\ y # NoEntry
  BY ErrAssumption DEF Json, StoredEntry

LEMMA GetInv ==
  ASSUME IInv, NEW p \in Procs, NEW k \in Keys, Get(p, k)
  PROVE  IInv'
<1> USE DEF IInv
<1>1. UNCHANGED <<now, redis, dels>>
  BY DEF Get
<1>2. CASE Alive(k)
  <2> DEFINE y == Parsed(redis[k].json)
  <2>1. /\ answer' = answer
        /\ proc' = [proc EXCEPT ![p] = [pc |-> "judge", key |-> k, entry |-> y, ttl |-> Never]]
    BY <1>2 DEF Get
  <2>2. y \in Json /\ y \in Written[k]
    BY <1>2, WrittenDecodes DEF Alive, FlowsRight
  <2> HIDE DEF y
  <2>3. [pc |-> "judge", key |-> k, entry |-> y, ttl |-> Never] \in Command
    BY <2>2, JudgingCommand
  <2>4. TypeOK'
    BY <1>1, <2>1, <2>3 DEF TypeOK
  <2>5. \A q \in Procs : \/ proc'[q] = proc[q]
                         \/ /\ proc'[q].pc = "judge" /\ proc'[q].key = k
                            /\ proc'[q].entry = y
    BY <2>1 DEF TypeOK
  <2>6. FlowsRight'
    BY <1>1, <2>1, <2>2, <2>5 DEF FlowsRight, At, Stored
  <2>7. TtlLosesLessThanASecond'
    BY <1>1 DEF TtlLosesLessThanASecond, Stored
  <2> QED
    BY <2>4, <2>6, <2>7
<1>3. CASE ~Alive(k)
  <2>1. answer' = [answer EXCEPT ![p] = NoEntry] /\ proc' = proc
    BY <1>3 DEF Get
  <2>2. TypeOK'
    BY <1>1, <2>1 DEF TypeOK
  <2>3. FlowsRight'
    BY <1>1, <2>1 DEF FlowsRight, At, Stored, TypeOK
  <2> QED
    BY <1>1, <2>2, <2>3 DEF TtlLosesLessThanASecond, Stored
<1> QED
  BY <1>2, <1>3

LEMMA JudgeInv ==
  ASSUME IInv, NEW p \in Procs, Judge(p)
  PROVE  IInv'
<1> USE DEF IInv
<1>1. /\ proc' = [proc EXCEPT ![p] = Idle] /\ At(p, "judge") /\ UNCHANGED <<now, redis>>
  BY DEF Judge
<1>2. /\ ~At(p, "idle") /\ proc[p].key \in Keys /\ proc[p].entry \in Json
      /\ proc[p].entry \in Written[proc[p].key]
  BY <1>1, AtWork DEF At, FlowsRight
<1>3. /\ dels' \in [Keys -> 0..MaxDels]
      /\ \/ answer' = [answer EXCEPT ![p] = NoEntry]
         \/ answer' = [answer EXCEPT ![p] = proc[p].entry]
  <2>1. CASE Expires(p)
    BY <1>2, <2>1, RedisAssumption DEF Judge, TypeOK
  <2>2. CASE ~Expires(p)
    BY <2>2 DEF Judge, TypeOK
  <2> QED
    BY <2>1, <2>2
<1>4. TypeOK'
  BY <1>1, <1>2, <1>3 DEF TypeOK
<1>5. /\ \A q \in Procs : proc'[q] \in {proc[q], Idle}
      /\ \A q \in Procs : answer'[q] \in {answer[q], NoEntry, proc[p].entry}
  BY <1>1, <1>3 DEF TypeOK
<1>6. FlowsRight'
  BY <1>1, <1>2, <1>5, AtRest DEF FlowsRight, At, Stored
<1> QED
  BY <1>1, <1>4, <1>6 DEF TtlLosesLessThanASecond, Stored

(* Whatever takes entries away and starts nothing.                         *)
LEMMA LosingInv ==
  ASSUME IInv, UNCHANGED <<now, answer>>, dels' \in [Keys -> 0..MaxDels],
         NEW K \in SUBSET Keys, redis' = [k \in Keys |-> IF k \in K THEN NoEntry ELSE redis[k]],
         \/ proc' = proc
         \/ \E p \in Procs : proc' = [proc EXCEPT ![p] = Idle]
  PROVE  IInv'
<1> USE DEF IInv
<1>1. proc' \in [Procs -> Command \cup {Idle}] /\ \A q \in Procs : proc'[q] \in {proc[q], Idle}
  BY DEF TypeOK
<1>2. \A k \in Keys : redis'[k] \in {NoEntry, redis[k]}
  OBVIOUS
<1>3. TypeOK'
  <2>1. redis' \in [Keys -> [json : Json, dies : Int \cup {Never}] \cup {NoEntry}]
    BY DEF TypeOK
  <2> QED
    BY <1>1, <2>1 DEF TypeOK
<1>4. FlowsRight'
  BY <1>1, <1>2, AtRest DEF FlowsRight, At, Stored
<1>5. TtlLosesLessThanASecond'
  BY <1>2 DEF TtlLosesLessThanASecond, Stored
<1> QED
  BY <1>3, <1>4, <1>5

LEMMA LosingNothingInv ==
  ASSUME IInv, UNCHANGED <<now, redis, answer>>, dels' \in [Keys -> 0..MaxDels],
         \/ proc' = proc
         \/ \E p \in Procs : proc' = [proc EXCEPT ![p] = Idle]
  PROVE  IInv'
<1> DEFINE K == {}
<1>1. K \in SUBSET Keys /\ redis = [k \in Keys |-> IF k \in K THEN NoEntry ELSE redis[k]]
  BY DEF IInv, TypeOK
<1> HIDE DEF K
<1> QED
  BY <1>1, LosingInv

LEMMA SetInv ==
  ASSUME IInv, NEW p \in Procs, NEW k \in Keys, NEW x \in Inputs[k], Set(p, k, x)
  PROVE  IInv'
<1> USE DEF IInv
<1> DEFINE y == ConvertForMode(x, "serialized")
           t == IF k \in Persistent THEN Never ELSE calculate_ttl_seconds(y.stale_until)
           c == [pc |-> "set", key |-> k, entry |-> y, ttl |-> t]
<1>1. y # NoEntry /\ proc' = [proc EXCEPT ![p] = c] /\ UNCHANGED <<now, redis, dels, answer>>
  BY DEF Set
<1>2. y \in Json /\ Parsed(y) \in Written[k]
  BY <1>1, InputsAssumption, Converted, WrittenParsed
<1> HIDE DEF y
<1>3. y.stale_until \in Int /\ now \in Int
  BY <1>2, JsonTimes DEF TypeOK
<1>4. /\ t \in Nat \cup {Never} /\ (t = Never <=> k \in Persistent)
      /\ t # Never => now + 1000 * t > y.stale_until - 1000
  BY <1>3, TtlBound, RedisAssumption
<1> HIDE DEF t
<1>5. c \in Command /\ c.pc = "set" /\ c.key = k /\ c.entry = y /\ c.ttl = t
  BY <1>2, <1>4 DEF Command
<1> HIDE DEF c
<1>6. TypeOK'
  BY <1>1, <1>5 DEF TypeOK
<1>7. \A q \in Procs : proc'[q] \in {proc[q], c}
  BY <1>1 DEF TypeOK
<1>8. FlowsRight'
  BY <1>1, <1>2, <1>4, <1>5, <1>7 DEF FlowsRight, At, Stored
<1> QED
  BY <1>1, <1>6, <1>8 DEF TtlLosesLessThanASecond, Stored

LEMMA SetArrivesInv ==
  ASSUME IInv, NEW p \in Procs, SetArrives(p)
  PROVE  IInv'
<1> USE DEF IInv
<1> DEFINE y == proc[p].entry
           k == proc[p].key
           d == IF proc[p].ttl = Never THEN Never ELSE now + 1000 * proc[p].ttl
           r == [json |-> y, dies |-> d]
<1>1. /\ At(p, "set") /\ redis' = [redis EXCEPT ![k] = r]
      /\ proc' = [proc EXCEPT ![p] = Idle] /\ UNCHANGED <<now, dels, answer>>
  BY DEF SetArrives
<1>2. /\ ~At(p, "idle") /\ y \in Json /\ k \in Keys /\ Parsed(y) \in Written[k]
      /\ proc[p].ttl \in Nat \cup {Never} /\ (proc[p].ttl = Never <=> k \in Persistent)
      /\ proc[p].ttl # Never => now + 1000 * proc[p].ttl > y.stale_until - 1000
  BY <1>1, AtWork DEF At, FlowsRight
<1>3. now \in Int /\ Never \notin Int
  BY RedisAssumption DEF TypeOK
<1>4. /\ d \in Int \cup {Never} /\ (d = Never <=> k \in Persistent)
      /\ d # Never => d > y.stale_until - 1000
  BY <1>2, <1>3
<1> HIDE DEF y, k, d
<1>5. /\ r \in [json : Json, dies : Int \cup {Never}] /\ r.json = y /\ r.dies = d
  BY <1>2, <1>4
<1> HIDE DEF r
<1>6. /\ \A j \in Keys : redis'[j] = IF j = k THEN r ELSE redis[j]
      /\ \A q \in Procs : proc'[q] \in {proc[q], Idle}
  BY <1>1 DEF TypeOK
<1>7. TypeOK'
  BY <1>1, <1>5 DEF TypeOK
<1>8. FlowsRight'
  BY <1>1, <1>2, <1>5, <1>6, AtRest DEF FlowsRight, At, Stored
<1>9. TtlLosesLessThanASecond'
  BY <1>4, <1>5, <1>6 DEF TtlLosesLessThanASecond, Stored
<1> QED
  BY <1>7, <1>8, <1>9

LEMMA TickInv == ASSUME IInv, Tick PROVE IInv'
<1> USE DEF IInv
<1>1. /\ now' \in 0..MaxTime /\ now' >= now /\ now \in Int /\ now' \in Int
      /\ UNCHANGED <<redis, proc, dels, answer>>
  BY RedisAssumption DEF Tick, TypeOK
<1>2. TypeOK'
  BY <1>1 DEF TypeOK
<1>3. TtlLosesLessThanASecond'
  BY <1>1 DEF TtlLosesLessThanASecond, Stored
<1>4. ASSUME NEW p \in Procs, At(p, "set"), proc[p].ttl # Never
      PROVE  now' + 1000 * proc[p].ttl > proc[p].entry.stale_until - 1000
  <2>1. ~At(p, "idle")
    BY <1>4 DEF At
  <2>2. proc[p].ttl \in Int /\ proc[p].entry.stale_until \in Int
    BY <1>4, <2>1, AtWork, JsonTimes
  <2>3. now + 1000 * proc[p].ttl > proc[p].entry.stale_until - 1000
    BY <1>4 DEF FlowsRight
  <2> QED
    BY <1>1, <2>2, <2>3
<1>5. FlowsRight'
  BY <1>1, <1>4 DEF FlowsRight, At, Stored
<1> QED
  BY <1>2, <1>3, <1>5

LEMMA IInvInit == Init => IInv
<1> SUFFICES ASSUME Init PROVE IInv
  OBVIOUS
<1>1. TypeOK
  BY RedisAssumption DEF Init, TypeOK
<1>2. FlowsRight /\ TtlLosesLessThanASecond
  BY AtRest DEF Init, FlowsRight, TtlLosesLessThanASecond, At, Stored
<1> QED
  BY <1>1, <1>2 DEF IInv

LEMMA IInvStep == IInv /\ [Next]_vars => IInv'
<1> SUFFICES ASSUME IInv, [Next]_vars PROVE IInv'
  OBVIOUS
<1>1. /\ \A k \in Keys : dels[k] \in 0..MaxDels
      /\ dels \in [Keys -> 0..MaxDels] /\ redis = [k \in Keys |-> redis[k]]
  BY DEF IInv, TypeOK
<1>2. ASSUME NEW p \in Procs, Abandon(p) PROVE IInv'
  BY <1>1, <1>2, LosingNothingInv DEF Abandon
<1>3. ASSUME NEW k \in Keys, Del(k) PROVE IInv'
  <2>1. dels' \in [Keys -> 0..MaxDels] /\ UNCHANGED <<now, proc, answer>>
    BY <1>1, <1>3, RedisAssumption DEF Del
  <2>2. CASE redis' = redis
    BY <2>1, <2>2, LosingNothingInv
  <2>3. CASE redis' = [redis EXCEPT ![k] = NoEntry]
    <3>1. redis' = [j \in Keys |-> IF j \in {k} THEN NoEntry ELSE redis[j]]
      BY <1>1, <2>3
    <3> QED
      BY <2>1, <3>1, LosingInv
  <2> QED
    BY <1>3, <2>2, <2>3 DEF Del
<1>4. ASSUME NEW k \in Keys, ServerExpires(k) PROVE IInv'
  <2>1. redis' = [j \in Keys |-> IF j \in {k} THEN NoEntry ELSE redis[j]]
    BY <1>1, <1>4 DEF ServerExpires
  <2> QED
    BY <1>1, <1>4, <2>1, LosingInv DEF ServerExpires
<1>5. ASSUME NEW K \in SUBSET Keys, Remove(K) PROVE IInv'
  BY <1>1, <1>5, LosingInv DEF Remove
<1>6. CASE UNCHANGED vars
  BY <1>6 DEF vars, IInv, TypeOK, TtlLosesLessThanASecond, FlowsRight, Stored, At
<1> QED
  BY <1>2, <1>3, <1>4, <1>5, <1>6, GetInv, SetInv, JudgeInv, SetArrivesInv, TickInv DEF Next

LEMMA Invariance == Spec => []IInv
  BY IInvInit, IInvStep, PTL DEF Spec

-----------------------------------------------------------------------------
(* The type invariant of redis.rs holds.                                   *)
THEOREM TypeCorrect == Spec => []TypeOK
<1>1. IInv => TypeOK
  BY DEF IInv
<1> QED
  BY <1>1, Invariance, PTL

(* What a get returns decodes to what a client wrote.                      *)
THEOREM AnswersAlwaysDecode == Spec => []AnswersDecode
<1>1. IInv => AnswersDecode
  BY WrittenDecodes DEF IInv, FlowsRight, AnswersDecode
<1> QED
  BY <1>1, Invariance, PTL

(* No TTL ends more than a second before its entry's stale_until, for all  *)
(* deadlines and however late the command arrives.                         *)
THEOREM TtlIsLongEnough == Spec => []TtlLosesLessThanASecond
<1>1. IInv => TtlLosesLessThanASecond
  BY DEF IInv
<1> QED
  BY <1>1, Invariance, PTL

-----------------------------------------------------------------------------
(* Nothing is spawned to delete a key that keeps its expired entries.      *)
NoDels == \A k \in Persistent : dels[k] = 0

LEMMA NoDelsInvariance == Spec => []NoDels
<1>1. Init => NoDels
  BY RedisAssumption DEF Init, NoDels
<1>2. TypeOK /\ NoDels /\ [Next]_vars => NoDels'
  <2> SUFFICES ASSUME TypeOK, NoDels, [Next]_vars PROVE NoDels'
    OBVIOUS
  <2>0. dels \in [Keys -> 0..MaxDels]
    BY DEF TypeOK
  <2>1. ASSUME NEW p \in Procs, Judge(p) PROVE NoDels'
    BY <2>0, <2>1, RedisAssumption DEF Judge, Expires, NoDels
  <2>2. ASSUME NEW k \in Keys, Del(k) PROVE NoDels'
    BY <2>0, <2>2, RedisAssumption DEF Del, NoDels
  <2>3. CASE UNCHANGED dels
    BY <2>3 DEF NoDels
  <2> QED
    BY <2>1, <2>2, <2>3 DEF Next, vars, Get, Set, SetArrives, Abandon, ServerExpires, Remove, Tick
<1> QED
  BY <1>1, <1>2, TypeCorrect, PTL DEF Spec

LEMMA LossStep ==
  ASSUME IInv, NoDels, Next, NEW k \in Keys, Stored(k), redis'[k] = NoEntry
  PROVE  \/ \E K \in SUBSET Keys : k \in K /\ Remove(K)
         \/ k \notin Persistent /\ (~Alive(k) \/ dels'[k] < dels[k])
<1>0. redis \in [Keys -> [json : Json, dies : Int \cup {Never}] \cup {NoEntry}]
      /\ dels \in [Keys -> 0..MaxDels]
  BY DEF IInv, TypeOK
<1>1. redis' # redis
  BY DEF Stored
<1>2. ASSUME NEW p \in Procs, SetArrives(p) PROVE FALSE
  <2>1. ~At(p, "idle") /\ At(p, "set")
    BY <1>2 DEF SetArrives, At
  <2> DEFINE d == IF proc[p].ttl = Never THEN Never ELSE now + 1000 * proc[p].ttl
             r == [json |-> proc[p].entry, dies |-> d]
  <2>2. proc[p].entry \in StoredEntry /\ proc[p].ttl \in Nat \cup {Never} /\ now \in Int
    BY <2>1, AtWork DEF IInv, TypeOK, Json
  <2>3. r \in [json : StoredEntry, dies : Int \cup {Never}]
    BY <2>2
  <2>4. r # NoEntry
    BY <2>3, RedisAssumption
  <2>5. redis' = [redis EXCEPT ![proc[p].key] = r]
    BY <1>2 DEF SetArrives
  <2> QED
    BY <1>0, <2>4, <2>5 DEF Stored
<1>3. ASSUME NEW K \in SUBSET Keys, Remove(K) PROVE k \in K
  BY <1>0, <1>3 DEF Remove, Stored
<1>4. ASSUME NEW j \in Keys, Del(j) PROVE k \notin Persistent /\ dels'[k] < dels[k]
  <2>1. j = k /\ dels[k] > 0 /\ dels' = [dels EXCEPT ![k] = @ - 1]
    BY <1>0, <1>4 DEF Del, Stored
  <2> QED
    BY <1>0, <2>1, RedisAssumption DEF NoDels
<1>5. ASSUME NEW j \in Keys, ServerExpires(j) PROVE k \notin Persistent /\ ~Alive(k)
  <2>1. j = k
    BY <1>0, <1>5 DEF ServerExpires, Stored
  <2> QED
    BY <1>5, <2>1 DEF ServerExpires, IInv, TtlLosesLessThanASecond, Alive, Stored
<1>6. (\E p \in Procs : Judge(p) \/ Abandon(p)) \/ Tick
      \/ (\E p \in Procs, j \in Keys : Get(p, j) \/ \E x \in Inputs[j] : Set(p, j, x)) => FALSE
  BY <1>1 DEF Judge, Abandon, Tick, Get, Set
<1> QED
  BY <1>2, <1>3, <1>4, <1>5, <1>6 DEF Next

(* Entries go only by a remove, at the end of their TTL, or to a DEL, and  *)
(* with disable_expiration by a remove alone.                              *)
THEOREM LossesAreKnown == Spec => OnlyKnownLosses
<1>1. IInv /\ NoDels /\ [Next]_vars =>
        [\A k \in Keys : Stored(k) /\ redis'[k] = NoEntry =>
           \/ \E K \in SUBSET Keys : k \in K /\ Remove(K)
           \/ k \notin Persistent /\ (~Alive(k) \/ dels'[k] < dels[k])]_vars
  BY LossStep
<1> QED
  BY <1>1, Invariance, NoDelsInvariance, PTL DEF Spec, OnlyKnownLosses

-----------------------------------------------------------------------------
(* The abstract store: replies under way are copies of what some set left. *)
Judges(k) == {p \in Procs : At(p, "judge") /\ proc[p].key = k}
InHand(k) == {proc[p].entry : p \in Judges(k)}
AtServer(k) == IF Stored(k) THEN {Parsed(redis[k].json)} ELSE {}

LEMMA HeldAt == /\ Held = [k \in Keys |-> AtServer(k) \cup InHand(k)]
                /\ Held' = [k \in Keys |-> AtServer(k)' \cup InHand(k)']
  BY DEF Held, AtServer, InHand, Judges

LEMMA FewHands ==
  ASSUME NEW k \in Keys
  PROVE  InHand(k) \in Contract!Residues(k)
<1> DEFINE f == [p \in Judges(k) |-> proc[p].entry]
<1>1. IsFiniteSet(Judges(k)) /\ Cardinality(Judges(k)) <= Cardinality(Procs)
      /\ Cardinality(Procs) \in Nat /\ Cardinality(Judges(k)) \in Nat
  <2>1. Judges(k) \subseteq Procs /\ IsFiniteSet(Procs)
    BY RedisAssumption DEF Judges
  <2> QED
    BY <2>1, FS_Subset, FS_CardinalityType
<1>2. f \in Surjection(Judges(k), InHand(k))
  BY DEF Surjection, InHand
<1>3. Cardinality(InHand(k)) <= Cardinality(Judges(k)) /\ IsFiniteSet(InHand(k))
  BY <1>1, <1>2, FS_Surjection
<1>4. Cardinality(InHand(k)) < Cardinality(Procs) + 1
  BY <1>1, <1>3, FS_CardinalityType
<1>5. /\ Contract!Cardinality(InHand(k)) = Cardinality(InHand(k))
      /\ Contract!Cardinality(Procs) = Cardinality(Procs)
  BY DEF Contract!Cardinality, Cardinality
<1> QED
  BY <1>4, <1>5, HeldAt DEF Contract!Residues

(* Fewer replies under way and fewer entries at the server.                *)
LEMMA LosingHeld ==
  ASSUME IInv, \A k \in Keys : redis'[k] \in {redis[k], NoEntry},
         proc' = proc \/ \E p \in Procs : proc' = [proc EXCEPT ![p] = Idle]
  PROVE  Held' \in Contract!Fewer
<1>1. \A p \in Procs : proc'[p] \in {proc[p], Idle}
  BY DEF IInv, TypeOK
<1>2. \A k \in Keys : AtServer(k)' \subseteq AtServer(k)
  BY DEF AtServer, Stored
<1>3. \A k \in Keys : InHand(k)' \subseteq InHand(k)
  BY <1>1, AtRest DEF InHand, Judges, At
<1> QED
  BY <1>2, <1>3, HeldAt DEF Contract!Fewer

LEMMA ContractGet ==
  ASSUME IInv, NEW p \in Procs, NEW k \in Keys, Get(p, k)
  PROVE  UNCHANGED Contract!vars \/ Contract!Miss(p)
<1>1. UNCHANGED <<now, redis>> /\ At(p, "idle")
  BY DEF Get
<1>2. CASE Alive(k)
  <2> DEFINE r == [pc |-> "judge", key |-> k, entry |-> Parsed(redis[k].json), ttl |-> Never]
  <2>1. proc' = [proc EXCEPT ![p] = r] /\ answer' = answer
    BY <1>2 DEF Get
  <2>2. r.pc = "judge" /\ r.key = k /\ r.entry = Parsed(redis[k].json)
    OBVIOUS
  <2> HIDE DEF r
  <2>3. \A q \in Procs : proc'[q] = IF q = p THEN r ELSE proc[q]
    BY <2>1 DEF IInv, TypeOK
  <2>4. \A j \in Keys : AtServer(j)' = AtServer(j)
    BY <1>1 DEF AtServer, Stored
  <2>5. \A j \in Keys : Judges(j)' = Judges(j) \cup (IF j = k THEN {p} ELSE {})
    BY <1>1, <2>2, <2>3 DEF Judges, At
  <2>6. \A j \in Keys \ {k} : InHand(j)' = InHand(j)
    <3> SUFFICES ASSUME NEW j \in Keys \ {k} PROVE InHand(j)' = InHand(j)
      OBVIOUS
    <3>1. Judges(j)' = Judges(j) /\ p \notin Judges(j)
      BY <1>1, <2>5 DEF Judges, At
    <3> QED
      BY <2>3, <3>1 DEF InHand, Judges
  <2>7. InHand(k)' = InHand(k) \cup AtServer(k)
    <3>1. p \notin Judges(k) /\ AtServer(k) = {r.entry}
      BY <1>1, <1>2, <2>2 DEF Judges, At, Alive, AtServer
    <3>2. \A q \in Judges(k) : proc'[q] = proc[q]
      BY <2>3, <3>1 DEF Judges
    <3>3. proc'[p] = r
      BY <2>3
    <3> QED
      BY <2>5, <3>1, <3>2, <3>3 DEF InHand
  <2>8. Held' = Held
    BY <2>4, <2>6, <2>7, HeldAt
  <2> QED
    BY <1>1, <2>1, <2>8 DEF Contract!vars
<1>3. CASE ~Alive(k)
  <2>1. answer' = [answer EXCEPT ![p] = NoEntry] /\ proc' = proc
    BY <1>3 DEF Get
  <2>2. Held' \in Contract!Fewer
    BY <1>1, <2>1, LosingHeld
  <2> QED
    BY <1>1, <2>1, <2>2 DEF Contract!Miss
<1> QED
  BY <1>2, <1>3

LEMMA ContractJudge ==
  ASSUME IInv, NEW p \in Procs, Judge(p)
  PROVE  Contract!Miss(p) \/ \E k \in Keys : Contract!Hit(p, k)
<1>1. /\ At(p, "judge") /\ proc' = [proc EXCEPT ![p] = Idle] /\ UNCHANGED <<now, redis>>
  BY DEF Judge
<1>2. Held' \in Contract!Fewer
  BY <1>1, LosingHeld
<1>3. CASE Expires(p)
  BY <1>1, <1>2, <1>3 DEF Judge, Contract!Miss
<1>4. CASE ~Expires(p)
  <2> DEFINE k == proc[p].key
             e == proc[p].entry
  <2>1. answer' = [answer EXCEPT ![p] = e]
    BY <1>4 DEF Judge
  <2>2. k \in Keys /\ e \in Held[k]
    <3>1. k \in Keys
      BY <1>1, AtWork DEF IInv, At
    <3>2. p \in Judges(k)
      BY <1>1 DEF Judges
    <3> QED
      BY <3>1, <3>2, HeldAt DEF InHand
  <2>3. k \in Persistent \/ ~Contract!IsExpired(e, now)
    BY <1>4 DEF Expires, IsExpired, Contract!IsExpired
  <2> QED
    BY <1>1, <1>2, <2>1, <2>2, <2>3 DEF Contract!Hit
<1> QED
  BY <1>3, <1>4

LEMMA ContractSet ==
  ASSUME IInv, NEW p \in Procs, SetArrives(p)
  PROVE  \E k \in Keys : Contract!Set(k)
<1>0. PICK k \in Keys : k = proc[p].key
  BY AtWork DEF IInv, SetArrives, At
<1> DEFINE d == IF proc[p].ttl = Never THEN Never ELSE now + 1000 * proc[p].ttl
           r == [json |-> proc[p].entry, dies |-> d]
<1>1. /\ At(p, "set") /\ ~At(p, "idle") /\ redis' = [redis EXCEPT ![k] = r]
      /\ proc' = [proc EXCEPT ![p] = Idle] /\ UNCHANGED <<now, answer>>
  BY <1>0 DEF SetArrives, At
<1>2. /\ proc[p].entry \in StoredEntry /\ Parsed(proc[p].entry) \in Written[k]
      /\ proc[p].ttl \in Nat \cup {Never} /\ now \in Int
  BY <1>0, <1>1, AtWork DEF IInv, TypeOK, FlowsRight, Json
<1>3. r \in [json : StoredEntry, dies : Int \cup {Never}] /\ r.json = proc[p].entry
  BY <1>2
<1>4. r # NoEntry
  BY <1>3, RedisAssumption
<1> HIDE DEF r
<1>5. /\ \A j \in Keys : redis'[j] = IF j = k THEN r ELSE redis[j]
      /\ \A q \in Procs : proc'[q] = IF q = p THEN Idle ELSE proc[q]
  BY <1>1 DEF IInv, TypeOK
<1>6. /\ AtServer(k)' = {Parsed(proc[p].entry)}
      /\ \A j \in Keys \ {k} : AtServer(j)' = AtServer(j)
  BY <1>2, <1>3, <1>4, <1>5 DEF AtServer, Stored
<1>7. \A j \in Keys : InHand(j)' = InHand(j)
  <2> SUFFICES ASSUME NEW j \in Keys PROVE InHand(j)' = InHand(j)
    OBVIOUS
  <2>1. Judges(j)' = Judges(j)
    BY <1>1, <1>5, AtRest DEF Judges, At
  <2>2. \A q \in Judges(j) : proc'[q] = proc[q]
    BY <1>1, <1>5 DEF Judges, At
  <2> QED
    BY <2>1, <2>2 DEF InHand
<1>8. Held' = [Held EXCEPT ![k] = InHand(k) \cup {Parsed(proc[p].entry)}]
  BY <1>6, <1>7, HeldAt
<1> QED
  BY <1>1, <1>2, <1>8, FewHands DEF Contract!Set

LEMMA ContractIdleSet ==
  ASSUME IInv, NEW p \in Procs, NEW k \in Keys, NEW x \in Inputs[k], Set(p, k, x)
  PROVE  UNCHANGED Contract!vars
<1> DEFINE y == ConvertForMode(x, "serialized")
           r == [pc |-> "set", key |-> k, entry |-> y,
                 ttl |-> IF k \in Persistent THEN Never ELSE calculate_ttl_seconds(y.stale_until)]
<1>1. At(p, "idle") /\ proc' = [proc EXCEPT ![p] = r] /\ UNCHANGED <<now, redis, answer>>
  BY DEF Set
<1>2. r.pc = "set"
  OBVIOUS
<1> HIDE DEF r
<1>3. \A q \in Procs : proc'[q] = IF q = p THEN r ELSE proc[q]
  BY <1>1 DEF IInv, TypeOK
<1>4. \A j \in Keys : AtServer(j)' = AtServer(j)
  BY <1>1 DEF AtServer, Stored
<1>5. \A j \in Keys : InHand(j)' = InHand(j)
  <2> SUFFICES ASSUME NEW j \in Keys PROVE InHand(j)' = InHand(j)
    OBVIOUS
  <2>1. Judges(j)' = Judges(j)
    BY <1>1, <1>2, <1>3 DEF Judges, At
  <2>2. \A q \in Judges(j) : proc'[q] = proc[q]
    BY <1>1, <1>3 DEF Judges, At
  <2> QED
    BY <2>1, <2>2 DEF InHand
<1> QED
  BY <1>1, <1>4, <1>5, HeldAt DEF Contract!vars

LEMMA ContractStep == IInv /\ [Next]_vars => [Contract!Next]_(Contract!vars)
<1> SUFFICES ASSUME IInv, [Next]_vars PROVE [Contract!Next]_(Contract!vars)
  OBVIOUS
<1>0. redis \in [Keys -> [json : Json, dies : Int \cup {Never}] \cup {NoEntry}]
  BY DEF IInv, TypeOK
<1>1. ASSUME NEW p \in Procs, Abandon(p) PROVE Contract!Lose
  BY <1>1, LosingHeld DEF Abandon, Contract!Lose
<1>2. ASSUME NEW k \in Keys, Del(k) PROVE Contract!Lose
  <2>1. \A j \in Keys : redis'[j] \in {redis[j], NoEntry}
    BY <1>0, <1>2 DEF Del
  <2> QED
    BY <1>2, <2>1, LosingHeld DEF Del, Contract!Lose
<1>3. ASSUME NEW k \in Keys, ServerExpires(k) PROVE Contract!Lose
  <2>1. \A j \in Keys : redis'[j] \in {redis[j], NoEntry}
    BY <1>0, <1>3 DEF ServerExpires
  <2> QED
    BY <1>3, <2>1, LosingHeld DEF ServerExpires, Contract!Lose
<1>4. ASSUME NEW K \in SUBSET Keys, Remove(K) PROVE Contract!Lose
  BY <1>4, LosingHeld DEF Remove, Contract!Lose
<1>5. CASE Tick
  <2>1. now \in Nat /\ now' = now + TickMs /\ now' <= MaxTime /\ TickMs \in Nat \ {0}
    BY <1>5, RedisAssumption DEF IInv, TypeOK, Tick
  <2>2. UNCHANGED <<Held, answer>>
    BY <1>5 DEF Tick, Held, Stored, At
  <2>3. Contract!Tick
    BY <2>1, <2>2 DEF Contract!Tick
  <2> QED
    BY <2>3 DEF Contract!Next
<1>6. CASE UNCHANGED vars
  BY <1>6 DEF vars, Held, Stored, At, Contract!vars
<1> QED
  BY <1>1, <1>2, <1>3, <1>4, <1>5, <1>6, ContractGet, ContractJudge, ContractSet, ContractIdleSet
     DEF Next, Contract!Next

(* Every step of RedisStore and its server is a step of the abstract store.*)
THEOREM RedisImplementsStore == Spec => ImplementsStore
<1>1. Init => Contract!Init
  BY AtRest DEF Init, Held, Stored, At, Contract!Init
<1> QED
  BY <1>1, ContractStep, Invariance, PTL DEF Spec, ImplementsStore, Contract!Spec
=============================================================================
