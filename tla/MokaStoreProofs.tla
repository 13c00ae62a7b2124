--------------------------- MODULE MokaStoreProofs ---------------------------
(* Proofs about MokaStore, for every set of callers, namespaces and names. *)
EXTENDS MokaStore, FiniteSetTheorems, SequenceTheorems, TLAPS

-----------------------------------------------------------------------------
LEMMA Joined ==
  ASSUME NEW S, NEW s \in Seq(S), NEW t \in Seq(S)
  PROVE  /\ Len(s) \in Nat /\ Len(t) \in Nat /\ Len(s \o t) = Len(s) + Len(t)
         /\ \A i \in 1..Len(s) : (s \o t)[i] = s[i]
         /\ \A i \in 1..Len(t) : (s \o t)[Len(s) + i] = t[i]
<1>1. Len(s) \in Nat /\ Len(t) \in Nat /\ Len(s \o t) = Len(s) + Len(t)
  BY LenProperties, ConcatProperties
<1>2. \A i \in 1..(Len(s) + Len(t)) :
        (s \o t)[i] = IF i <= Len(s) THEN s[i] ELSE t[i - Len(s)]
  BY ConcatProperties
<1>3. ASSUME NEW i \in 1..Len(s) PROVE (s \o t)[i] = s[i]
  BY <1>1, <1>2
<1>4. ASSUME NEW i \in 1..Len(t) PROVE (s \o t)[Len(s) + i] = t[i]
  <2>1. /\ Len(s) + i \in 1..(Len(s) + Len(t)) /\ ~(Len(s) + i <= Len(s))
        /\ (Len(s) + i) - Len(s) = i
    BY <1>1
  <2> QED
    BY <1>2, <2>1
<1> QED
  BY <1>1, <1>3, <1>4

(* If one key is spelled like another, the longer namespace opens with the *)
(* shorter.                                                                *)
LEMMA ShorterOpens ==
  ASSUME NEW S, NEW s \in Seq(S), NEW t \in Seq(S), NEW u \in Seq(S), NEW v \in Seq(S),
         s \o u = t \o v, Len(s) < Len(t)
  PROVE  Opens(s, t)
<1>1. ASSUME NEW i \in 1..Len(s) PROVE s[i] = t[i]
  <2>1. i \in 1..Len(t)
    BY Joined
  <2>2. (s \o u)[i] = s[i]
    BY Joined
  <2>3. (t \o v)[i] = t[i]
    BY <2>1, Joined
  <2> QED
    BY <2>2, <2>3
<1> QED
  BY <1>1 DEF Opens

(* Namespaces that do not extend one another keep their caches apart,      *)
(* whatever the clients' keys hold (utils.rs:9-11).                        *)
THEOREM KeysDistinct ==
  ASSUME NEW ns \in String, NEW other \in String, ~Nested(ns, other),
         NEW name \in String, NEW othername \in String,
         build_cache_key(ns, name) = build_cache_key(other, othername)
  PROVE  ns = other /\ name = othername
<1>1. /\ ns \in Seq(Segments) /\ other \in Seq(Segments)
      /\ name \in Seq(Segments) /\ othername \in Seq(Segments)
      /\ ns \o name = other \o othername
  BY DEF String, build_cache_key
<1>2. Len(ns) = Len(other) /\ Len(name) = Len(othername)
  <2>1. ~(Len(ns) < Len(other)) /\ ~(Len(other) < Len(ns))
    BY <1>1, ShorterOpens DEF Nested
  <2>2. /\ Len(ns) \in Nat /\ Len(name) \in Nat /\ Len(ns \o name) = Len(ns) + Len(name)
    BY <1>1, Joined
  <2>3. /\ Len(other) \in Nat /\ Len(othername) \in Nat
        /\ Len(other \o othername) = Len(other) + Len(othername)
    BY <1>1, Joined
  <2> QED
    BY <1>1, <2>1, <2>2, <2>3
<1>3. \A i \in 1..Len(ns) : ns[i] = other[i]
  <2> SUFFICES ASSUME NEW i \in 1..Len(ns) PROVE ns[i] = other[i]
    OBVIOUS
  <2>1. (ns \o name)[i] = ns[i]
    BY <1>1, Joined
  <2>2. (other \o othername)[i] = other[i]
    BY <1>1, <1>2, Joined
  <2> QED
    BY <1>1, <2>1, <2>2
<1>4. \A i \in 1..Len(name) : name[i] = othername[i]
  <2> SUFFICES ASSUME NEW i \in 1..Len(name) PROVE name[i] = othername[i]
    OBVIOUS
  <2>1. (ns \o name)[Len(ns) + i] = name[i]
    BY <1>1, Joined
  <2>2. (other \o othername)[Len(other) + i] = othername[i]
    BY <1>1, <1>2, Joined
  <2> QED
    BY <1>1, <1>2, <2>1, <2>2
<1> QED
  BY <1>1, <1>2, <1>3, <1>4, SeqEqual

LEMMA Key ==
  ASSUME NEW ns \in Spaces, NEW name \in Names
  PROVE  /\ KeyOf(ns, name) \in CacheKeys
         /\ <<ns, name>> \in Sharers(KeyOf(ns, name))
         /\ Inputs[ns] \subseteq Brought(KeyOf(ns, name))
<1>1. <<ns, name>> \in Addresses
  BY DEF Addresses
<1>2. KeyOf(ns, name) \in CacheKeys /\ <<ns, name>> \in Sharers(KeyOf(ns, name))
  BY <1>1 DEF CacheKeys, Sharers
<1> QED
  BY <1>2 DEF Brought

LEMMA KeysOfBatch ==
  ASSUME NEW ns \in Spaces, NEW batch \in Seq(Names), NEW i \in 1..Len(batch)
  PROVE  KeyOf(ns, batch[i]) \in CacheKeys
<1>1. PICK name \in Names : name = batch[i]
  OBVIOUS
<1> QED
  BY <1>1, Key

-----------------------------------------------------------------------------
LEMMA Typing ==
  ASSUME TypeOK, NEW p \in Procs
  PROVE  /\ proc[p] \in Call
         /\ proc[p].op \in {"none", "get", "set", "remove"}
         /\ proc[p].op = "none" => At(p, "idle")
         /\ At(p, "idle") => proc[p] = Idle
         /\ proc[p].pc \in {"judge", "invalidate"} => proc[p].op = "get"
         /\ At(p, "remove") => proc[p].op = "remove"
         /\ proc[p].op = "get" =>
              /\ proc[p].ns \in Spaces /\ proc[p].name \in Names
              /\ proc[p].entry \in Here \cup {NoEntry}
              /\ proc[p] = Getting(proc[p].pc, proc[p].ns, proc[p].name, proc[p].entry)
         /\ proc[p].op = "remove" =>
              /\ proc[p].ns \in Spaces /\ proc[p].batch \in Seq(Names)
              /\ proc[p].todo \in Seq(Names) /\ proc[p].since \in SUBSET CacheKeys
<1>1. proc[p] \in Call
  BY DEF TypeOK
<1>2. CASE proc[p] = Idle
  BY <1>1, <1>2 DEF Idle, At
<1>3. CASE proc[p] \in [op : {"get"}, pc : {"judge", "invalidate", "done"}, ns : Spaces,
                        name : Names, entry : Here \cup {NoEntry}]
  BY <1>1, <1>3 DEF At, Getting
<1>4. CASE proc[p] \in [op : {"set"}, pc : {"done"}, ns : Spaces, name : Names]
  BY <1>1, <1>4 DEF At
<1>5. CASE proc[p] \in [op : {"remove"}, pc : {"remove", "done"}, ns : Spaces,
                        batch : Seq(Names), todo : Seq(Names), since : SUBSET CacheKeys]
  BY <1>1, <1>5 DEF At
<1> QED
  BY <1>1, <1>2, <1>3, <1>4, <1>5 DEF Call

LEMMA GettingCall ==
  ASSUME NEW ns \in Spaces, NEW name \in Names, NEW e \in Here \cup {NoEntry},
         NEW pc \in {"judge", "invalidate", "done"}
  PROVE  LET r == Getting(pc, ns, name, e) IN
         /\ r \in Call /\ r.op = "get" /\ r.pc = pc /\ r.ns = ns /\ r.name = name /\ r.entry = e
  BY DEF Getting, Call

LEMMA RemovingCall ==
  ASSUME NEW ns \in Spaces, NEW batch \in Seq(Names), NEW todo \in Seq(Names),
         NEW since \in SUBSET CacheKeys
  PROVE  LET r == Removing(ns, batch, todo, since) IN
         /\ r \in Call /\ r.op = "remove" /\ r.pc \in {"remove", "done"}
         /\ (r.pc = "done" <=> todo = <<>>)
         /\ r.ns = ns /\ r.batch = batch /\ r.todo = todo /\ r.since = since
  BY DEF Removing, Call

(* A get moves on to its next step.                                        *)
LEMMA GetMovesOn ==
  ASSUME TypeOK, NEW p \in Procs, proc[p].op = "get", NEW pc
  PROVE  [proc EXCEPT ![p].pc = pc]
           = [proc EXCEPT ![p] = Getting(pc, proc[p].ns, proc[p].name, proc[p].entry)]
<1>1. proc[p] = Getting(proc[p].pc, proc[p].ns, proc[p].name, proc[p].entry)
  BY Typing
<1> DEFINE r == proc[p]
<1>2. [r EXCEPT !.pc = pc] = Getting(pc, r.ns, r.name, r.entry)
  BY <1>1 DEF Getting
<1> QED
  BY <1>2

(* What a set leaves of the other callers' records.                        *)
LEMMA Noted ==
  ASSUME TypeOK, NEW d \in CacheKeys, NEW q \in Procs
  PROVE  LET r == NoteWrite(d)[q] IN
         /\ r \in Call /\ r.pc = proc[q].pc /\ r.op = proc[q].op
         /\ r.op # "remove" => r = proc[q]
         /\ r.op = "remove" =>
              /\ r.ns = proc[q].ns /\ r.batch = proc[q].batch /\ r.todo = proc[q].todo
              /\ r.since = IF Removes(proc[q], d) THEN proc[q].since \cup {d} ELSE proc[q].since
<1> DEFINE r == NoteWrite(d)[q]
           c == proc[q]
<1>1. r = IF Removes(c, d) THEN [c EXCEPT !.since = @ \cup {d}] ELSE c
  BY DEF NoteWrite
<1>2. c \in Call
  BY Typing
<1>3. CASE Removes(c, d)
  <2>0. c.op = "remove"
    BY <1>3 DEF Removes
  <2>1. c \in [op : {"remove"}, pc : {"remove", "done"}, ns : Spaces,
               batch : Seq(Names), todo : Seq(Names), since : SUBSET CacheKeys]
    BY <1>2, <2>0 DEF Call, Idle
  <2>2. r = [c EXCEPT !.since = @ \cup {d}]
    BY <1>1, <1>3
  <2> HIDE DEF r, c
  <2>3. /\ r \in [op : {"remove"}, pc : {"remove", "done"}, ns : Spaces,
                  batch : Seq(Names), todo : Seq(Names), since : SUBSET CacheKeys]
        /\ r.pc = c.pc /\ r.op = c.op /\ r.ns = c.ns /\ r.batch = c.batch /\ r.todo = c.todo
        /\ r.since = c.since \cup {d}
    BY <2>1, <2>2
  <2> QED
    BY <1>3, <2>0, <2>3 DEF r, c, Call
<1>4. CASE ~Removes(c, d)
  BY <1>1, <1>2, <1>4
<1> QED
  BY <1>3, <1>4

(* All of them at once: no caller changes step or operation.               *)
LEMMA NotedKeeps ==
  ASSUME TypeOK, NEW d \in CacheKeys
  PROVE  \A q \in Procs : /\ NoteWrite(d)[q].pc = proc[q].pc
                          /\ NoteWrite(d)[q].op = proc[q].op
                          /\ proc[q].op # "remove" => NoteWrite(d)[q] = proc[q]
<1> SUFFICES ASSUME NEW q \in Procs
             PROVE  /\ NoteWrite(d)[q].pc = proc[q].pc
                    /\ NoteWrite(d)[q].op = proc[q].op
                    /\ proc[q].op # "remove" => NoteWrite(d)[q] = proc[q]
  OBVIOUS
<1> QED
  BY Noted

-----------------------------------------------------------------------------
(* Every key holds what a cache that shares it brought there.              *)
From(c) == Brought(c) \cup {NoEntry}
Owned ==
  /\ \A c \in CacheKeys : cache[c] \in From(c)
  /\ \A p \in Procs : proc[p].op = "get" =>
       /\ proc[p].entry \in From(KeyOf(proc[p].ns, proc[p].name))
       /\ At(p, "done") => answer[p] \in From(KeyOf(proc[p].ns, proc[p].name))

(* A key a remove has passed is gone or was set since.                     *)
Swept ==
  \A p \in Procs : proc[p].op = "remove" =>
    /\ At(p, "done") => proc[p].todo = <<>>
    /\ \A i \in 1..Len(proc[p].batch) : LET name == proc[p].batch[i] IN
         \/ cache[KeyOf(proc[p].ns, name)] = NoEntry
         \/ KeyOf(proc[p].ns, name) \in proc[p].since
         \/ \E j \in 1..Len(proc[p].todo) : proc[p].todo[j] = name
IInv == TypeOK /\ Owned /\ Swept

LEMMA FromHere == \A c \in CacheKeys : From(c) \subseteq Here \cup {NoEntry} /\ NoEntry \in From(c)
  BY DEF From, Here, Brought, Sharers, Addresses

(* A step that writes nothing to the cache and belongs to no remove.       *)
LEMMA PlainStep ==
  ASSUME IInv, now' \in 0..MaxTime, NEW p \in Procs, NEW r \in Call,
         NEW x \in Here \cup {NoEntry},
         proc' = [proc EXCEPT ![p] = r], answer' = [answer EXCEPT ![p] = x],
         cache' \in [CacheKeys -> Here \cup {NoEntry}],
         \A c \in CacheKeys : cache'[c] \in {cache[c], NoEntry},
         r.op # "remove", r.pc # "remove",
         r.pc \in {"judge", "invalidate"} => r.entry # NoEntry,
         NEW k,
         r.op = "get" => /\ k = KeyOf(r.ns, r.name) /\ r.entry \in From(k)
                         /\ r.pc = "done" => x \in From(k)
  PROVE  IInv'
<1> USE DEF IInv
<1>1. /\ \A q \in Procs : proc'[q] = IF q = p THEN r ELSE proc[q]
      /\ \A q \in Procs : answer'[q] = IF q = p THEN x ELSE answer[q]
      /\ proc' \in [Procs -> Call] /\ answer' \in [Procs -> Here \cup {NoEntry}]
  BY DEF TypeOK
<1>2. TypeOK'
  BY <1>1 DEF TypeOK, At
<1>3. Owned'
  <2>1. ASSUME NEW c \in CacheKeys PROVE cache'[c] \in From(c)
    BY FromHere DEF Owned
  <2>2. ASSUME NEW q \in Procs, proc'[q].op = "get"
        PROVE  /\ proc'[q].entry \in From(KeyOf(proc'[q].ns, proc'[q].name))
               /\ proc'[q].pc = "done" => answer'[q] \in From(KeyOf(proc'[q].ns, proc'[q].name))
    BY <1>1, <2>2 DEF Owned, At
  <2> QED
    BY <2>1, <2>2 DEF Owned, At
<1>4. Swept'
  <2> SUFFICES ASSUME NEW q \in Procs, proc'[q].op = "remove"
               PROVE  /\ proc'[q].pc = "done" => proc'[q].todo = <<>>
                      /\ \A i \in 1..Len(proc'[q].batch) : LET name == proc'[q].batch[i] IN
                           \/ cache'[KeyOf(proc'[q].ns, name)] = NoEntry
                           \/ KeyOf(proc'[q].ns, name) \in proc'[q].since
                           \/ \E j \in 1..Len(proc'[q].todo) : proc'[q].todo[j] = name
    BY DEF Swept, At, KeyOf
  <2>1. proc'[q] = proc[q] /\ proc[q].op = "remove"
    BY <1>1
  <2>2. proc[q].ns \in Spaces /\ proc[q].batch \in Seq(Names)
    BY <2>1, Typing
  <2>3. \A i \in 1..Len(proc[q].batch) : KeyOf(proc[q].ns, proc[q].batch[i]) \in CacheKeys
    BY <2>2, KeysOfBatch
  <2> QED
    BY <2>1, <2>3 DEF Swept, At
<1> QED
  BY <1>2, <1>3, <1>4

LEMMA GetInv ==
  ASSUME IInv, NEW p \in Procs, NEW ns \in Spaces, NEW name \in Names, Get(p, ns, name)
  PROVE  IInv'
<1>0. PICK k \in CacheKeys : k = KeyOf(ns, name)
  BY Key
<1>1. PICK found : found = cache[k]
  OBVIOUS
<1>2. /\ TypeOK /\ now' \in 0..MaxTime /\ UNCHANGED cache /\ found \in From(k)
      /\ cache \in [CacheKeys -> Here \cup {NoEntry}]
      /\ answer = [answer EXCEPT ![p] = answer[p]] /\ answer[p] \in Here \cup {NoEntry}
  BY <1>1 DEF Get, IInv, TypeOK, Owned
<1>3. found \in Here \cup {NoEntry} /\ NoEntry \in From(k)
  BY <1>2, FromHere
<1>4. CASE found = NoEntry
  <2> DEFINE r == Getting("done", ns, name, NoEntry)
  <2>1. /\ r \in Call /\ r.op = "get" /\ r.pc = "done" /\ r.ns = ns /\ r.name = name
        /\ r.entry = NoEntry
    BY GettingCall
  <2>2. proc' = [proc EXCEPT ![p] = r] /\ answer' = [answer EXCEPT ![p] = NoEntry]
    BY <1>0, <1>1, <1>4 DEF Get
  <2> HIDE DEF r
  <2>3. k = KeyOf(r.ns, r.name)
    BY <1>0, <2>1
  <2> QED
    BY <1>2, <1>3, <2>1, <2>2, <2>3, PlainStep
<1>5. CASE found # NoEntry
  <2> DEFINE r == Getting("judge", ns, name, found)
  <2>1. /\ r \in Call /\ r.op = "get" /\ r.pc = "judge" /\ r.ns = ns /\ r.name = name
        /\ r.entry = found
    BY <1>3, GettingCall
  <2>2. proc' = [proc EXCEPT ![p] = r] /\ answer' = [answer EXCEPT ![p] = answer[p]]
    BY <1>0, <1>1, <1>2, <1>5 DEF Get
  <2> HIDE DEF r
  <2>3. k = KeyOf(r.ns, r.name)
    BY <1>0, <2>1
  <2> QED
    BY <1>2, <1>3, <1>5, <2>1, <2>2, <2>3, PlainStep
<1> QED
  BY <1>4, <1>5

LEMMA JudgeInv ==
  ASSUME IInv, NEW p \in Procs, Judge(p)
  PROVE  IInv'
<1> DEFINE e == proc[p].entry
           Step(pc) == Getting(pc, proc[p].ns, proc[p].name, e)
<1>1. /\ At(p, "judge") /\ TypeOK /\ now' \in 0..MaxTime /\ UNCHANGED cache
      /\ cache \in [CacheKeys -> Here \cup {NoEntry}]
      /\ answer = [answer EXCEPT ![p] = answer[p]] /\ answer[p] \in Here \cup {NoEntry}
  BY DEF Judge, IInv, TypeOK
<1>2. /\ proc[p].op = "get" /\ proc[p].ns \in Spaces /\ proc[p].name \in Names
      /\ e \in Here \cup {NoEntry}
  BY <1>1, Typing DEF At
<1>3. PICK k \in CacheKeys : k = KeyOf(proc[p].ns, proc[p].name)
  BY <1>2, Key
<1>4. e \in From(k) /\ e # NoEntry
  BY <1>1, <1>2, <1>3 DEF IInv, Owned, TypeOK, At
<1>5. CASE IsExpired(e, now)
  <2> DEFINE r == Step("invalidate")
  <2>1. /\ r \in Call /\ r.op = "get" /\ r.pc = "invalidate" /\ r.ns = proc[p].ns
        /\ r.name = proc[p].name /\ r.entry = e
    BY <1>2, GettingCall
  <2>2. proc' = [proc EXCEPT ![p] = r] /\ answer' = [answer EXCEPT ![p] = answer[p]]
    BY <1>1, <1>2, <1>5, GetMovesOn DEF Judge
  <2> HIDE DEF r, e
  <2>3. k = KeyOf(r.ns, r.name)
    BY <1>3, <2>1
  <2> QED
    BY <1>1, <1>4, <2>1, <2>2, <2>3, PlainStep
<1>6. CASE ~IsExpired(e, now)
  <2> DEFINE r == Step("done")
  <2>1. /\ r \in Call /\ r.op = "get" /\ r.pc = "done" /\ r.ns = proc[p].ns
        /\ r.name = proc[p].name /\ r.entry = e
    BY <1>2, GettingCall
  <2>2. proc' = [proc EXCEPT ![p] = r] /\ answer' = [answer EXCEPT ![p] = e]
    BY <1>1, <1>2, <1>6, GetMovesOn DEF Judge
  <2> HIDE DEF r, e
  <2>3. k = KeyOf(r.ns, r.name)
    BY <1>3, <2>1
  <2> QED
    BY <1>1, <1>2, <1>4, <2>1, <2>2, <2>3, PlainStep
<1> QED
  BY <1>5, <1>6

LEMMA InvalidateInv ==
  ASSUME IInv, NEW p \in Procs, Invalidate(p)
  PROVE  IInv'
<1> DEFINE e == proc[p].entry
           r == Getting("done", proc[p].ns, proc[p].name, e)
<1>1. /\ At(p, "invalidate") /\ TypeOK /\ now' \in 0..MaxTime
      /\ cache \in [CacheKeys -> Here \cup {NoEntry}]
      /\ cache' = [cache EXCEPT ![KeyOf(proc[p].ns, proc[p].name)] = NoEntry]
      /\ answer' = [answer EXCEPT ![p] = NoEntry]
  BY DEF Invalidate, IInv, TypeOK
<1>2. /\ proc[p].op = "get" /\ proc[p].ns \in Spaces /\ proc[p].name \in Names
      /\ e \in Here \cup {NoEntry}
  BY <1>1, Typing DEF At
<1>3. PICK k \in CacheKeys : k = KeyOf(proc[p].ns, proc[p].name)
  BY <1>2, Key
<1>4. e \in From(k) /\ NoEntry \in From(k)
  BY <1>2, <1>3, FromHere DEF IInv, Owned
<1>5. /\ r \in Call /\ r.op = "get" /\ r.pc = "done" /\ r.ns = proc[p].ns
      /\ r.name = proc[p].name /\ r.entry = e
  BY <1>2, GettingCall
<1>6. proc' = [proc EXCEPT ![p] = r]
  BY <1>1, <1>2, GetMovesOn DEF Invalidate
<1>7. /\ cache' \in [CacheKeys -> Here \cup {NoEntry}]
      /\ \A c \in CacheKeys : cache'[c] \in {cache[c], NoEntry}
  BY <1>1
<1> HIDE DEF r, e
<1>8. k = KeyOf(r.ns, r.name)
  BY <1>3, <1>5
<1> QED
  BY <1>1, <1>4, <1>5, <1>6, <1>7, <1>8, PlainStep

LEMMA IdleInv ==
  ASSUME IInv, NEW p \in Procs, proc' = [proc EXCEPT ![p] = Idle], UNCHANGED <<now, cache, answer>>
  PROVE  IInv'
<1>1. /\ Idle \in Call /\ Idle.op = "none" /\ Idle.pc = "idle"
  BY DEF Idle, Call
<1>2. /\ answer' = [answer EXCEPT ![p] = answer[p]] /\ answer[p] \in Here \cup {NoEntry}
      /\ cache' \in [CacheKeys -> Here \cup {NoEntry}] /\ now' \in 0..MaxTime
  BY DEF IInv, TypeOK
<1> QED
  BY <1>1, <1>2, PlainStep

(* Moka evicts, or the clock moves, and every call stays where it is.      *)
LEMMA StillInv ==
  ASSUME IInv, UNCHANGED <<proc, answer>>, now' \in 0..MaxTime,
         cache' \in [CacheKeys -> Here \cup {NoEntry}],
         \A c \in CacheKeys : cache'[c] \in {cache[c], NoEntry}
  PROVE  IInv'
<1> USE DEF IInv
<1>1. TypeOK'
  BY DEF TypeOK, At
<1>2. Owned'
  <2>1. \A c \in CacheKeys : cache'[c] \in From(c)
    BY FromHere DEF Owned
  <2> QED
    BY <2>1 DEF Owned, At
<1>3. Swept'
  <2> SUFFICES ASSUME NEW q \in Procs, proc[q].op = "remove", NEW i \in 1..Len(proc[q].batch)
               PROVE  cache'[KeyOf(proc[q].ns, proc[q].batch[i])]
                        \in {cache[KeyOf(proc[q].ns, proc[q].batch[i])], NoEntry}
    BY DEF Swept, At, KeyOf
  <2>1. proc[q].ns \in Spaces /\ proc[q].batch[i] \in Names
    BY Typing
  <2> QED
    BY <2>1, Key
<1> QED
  BY <1>1, <1>2, <1>3

LEMMA SetInv ==
  ASSUME IInv, NEW p \in Procs, NEW ns \in Spaces, NEW name \in Names, NEW x \in Inputs[ns],
         Set(p, ns, name, x)
  PROVE  IInv'
<1> USE DEF IInv
<1>0. PICK k \in CacheKeys : k = KeyOf(ns, name) /\ Inputs[ns] \subseteq Brought(k)
  BY Key
<1> DEFINE r == [op |-> "set", pc |-> "done", ns |-> ns, name |-> name]
           N == NoteWrite(k)
<1>1. /\ cache' = [cache EXCEPT ![k] = x] /\ proc' = [N EXCEPT ![p] = r]
      /\ UNCHANGED <<now, answer>>
  BY <1>0 DEF Set
<1>2. r \in Call /\ r.op = "set" /\ r.pc = "done"
  BY DEF Call
<1>3. x \in Here \cup {NoEntry} /\ x \in From(k)
  BY <1>0 DEF Here, From
<1>4. DOMAIN N = Procs
  BY DEF NoteWrite
<1>n. \A q \in Procs :
        /\ N[q] \in Call /\ N[q].pc = proc[q].pc /\ N[q].op = proc[q].op
        /\ proc[q].op # "remove" => N[q] = proc[q]
        /\ proc[q].op = "remove" =>
             /\ N[q].ns = proc[q].ns /\ N[q].batch = proc[q].batch /\ N[q].todo = proc[q].todo
             /\ N[q].since = IF Removes(proc[q], k) THEN proc[q].since \cup {k} ELSE proc[q].since
  BY Noted
<1> HIDE DEF r, N
<1>5. \A q \in Procs : proc'[q] = IF q = p THEN r ELSE N[q]
  BY <1>1, <1>4
<1>6. cache \in [CacheKeys -> Here \cup {NoEntry}]
  BY DEF TypeOK
<1>7. proc' \in [Procs -> Call] /\ cache' \in [CacheKeys -> Here \cup {NoEntry}]
  <2>1. proc' = [q \in Procs |-> proc'[q]]
    BY <1>1 DEF N, NoteWrite
  <2> QED
    BY <1>1, <1>2, <1>3, <1>5, <1>6, <1>n, <2>1
<1>8. \A q \in Procs \ {p} : /\ proc'[q].op = proc[q].op /\ proc'[q].pc = proc[q].pc
                             /\ proc[q].op # "remove" => proc'[q] = proc[q]
  BY <1>5, <1>n
<1>9. TypeOK'
  <2>1. ASSUME NEW q \in Procs
        PROVE  /\ proc'[q].pc \in {"judge", "invalidate"} => proc'[q].entry # NoEntry
               /\ proc'[q].pc = "remove" => proc'[q].todo # <<>>
    <3>1. CASE q = p
      BY <1>2, <1>5, <3>1
    <3>2. CASE q # p
      <4>1. proc'[q] = N[q] /\ proc[q].pc \in {"judge", "invalidate"} => proc[q].op = "get"
        BY <1>5, <3>2, Typing
      <4>2. proc[q].pc = "remove" => proc[q].op = "remove" /\ proc'[q].todo = proc[q].todo
        BY <1>5, <1>n, <3>2, Typing DEF At
      <4> QED
        BY <1>8, <3>2, <4>1, <4>2, Typing DEF TypeOK, At
    <3> QED
      BY <3>1, <3>2
  <2> QED
    BY <1>1, <1>7, <2>1 DEF TypeOK, At
<1>10. \A c \in CacheKeys : cache'[c] = IF c = k THEN x ELSE cache[c]
  BY <1>1, <1>6
<1>11. Owned'
  <2>1. \A c \in CacheKeys : cache'[c] \in From(c)
    BY <1>3, <1>10 DEF Owned
  <2>2. ASSUME NEW q \in Procs, proc'[q].op = "get" PROVE q # p /\ proc'[q] = proc[q]
    BY <1>2, <1>5, <1>8, <2>2
  <2> QED
    BY <1>1, <2>1, <2>2 DEF Owned, At
<1>12. Swept'
  <2> SUFFICES ASSUME NEW q \in Procs, proc'[q].op = "remove"
               PROVE  /\ proc'[q].pc = "done" => proc'[q].todo = <<>>
                      /\ \A i \in 1..Len(proc'[q].batch) :
                           \/ cache'[KeyOf(proc'[q].ns, proc'[q].batch[i])] = NoEntry
                           \/ KeyOf(proc'[q].ns, proc'[q].batch[i]) \in proc'[q].since
                           \/ \E j \in 1..Len(proc'[q].todo) : proc'[q].todo[j] = proc'[q].batch[i]
    BY DEF Swept, At, KeyOf
  <2>1. q # p /\ proc[q].op = "remove" /\ proc'[q].pc = proc[q].pc /\ proc'[q] = N[q]
    BY <1>2, <1>5, <1>8
  <2>2. /\ proc'[q].ns = proc[q].ns /\ proc'[q].batch = proc[q].batch /\ proc'[q].todo = proc[q].todo
        /\ proc'[q].since = IF Removes(proc[q], k) THEN proc[q].since \cup {k} ELSE proc[q].since
    BY <2>1, <1>n
  <2>3. proc[q].ns \in Spaces /\ proc[q].batch \in Seq(Names)
    BY <2>1, Typing
  <2>4. ASSUME NEW i \in 1..Len(proc[q].batch)
        PROVE  \/ cache'[KeyOf(proc[q].ns, proc[q].batch[i])] = cache[KeyOf(proc[q].ns, proc[q].batch[i])]
               \/ KeyOf(proc[q].ns, proc[q].batch[i]) \in proc'[q].since
    <3>1. PICK c \in CacheKeys : c = KeyOf(proc[q].ns, proc[q].batch[i])
      BY <2>3, KeysOfBatch
    <3>2. CASE c = k
      <4>1. Removes(proc[q], k)
        BY <2>1, <3>1, <3>2 DEF Removes
      <4> QED
        BY <2>2, <3>1, <3>2, <4>1
    <3>3. CASE c # k
      BY <1>10, <3>1, <3>3
    <3> QED
      BY <3>2, <3>3
  <2>5. proc[q].since \subseteq proc'[q].since
    BY <2>2
  <2> QED
    BY <2>1, <2>2, <2>4, <2>5 DEF Swept, At
<1> QED
  BY <1>9, <1>11, <1>12

Passed(ns, batch, todo, since) ==
  \A i \in 1..Len(batch) :
    \/ cache[KeyOf(ns, batch[i])] = NoEntry
    \/ KeyOf(ns, batch[i]) \in since
    \/ \E j \in 1..Len(todo) : todo[j] = batch[i]

(* A remove begins, or has done one more of its keys.                      *)
LEMMA RemovalStep ==
  ASSUME IInv, UNCHANGED <<now, answer>>, NEW p \in Procs, NEW ns \in Spaces,
         NEW batch \in Seq(Names), NEW todo \in Seq(Names), NEW since \in SUBSET CacheKeys,
         proc' = [proc EXCEPT ![p] = Removing(ns, batch, todo, since)],
         cache' \in [CacheKeys -> Here \cup {NoEntry}],
         \A c \in CacheKeys : cache'[c] \in {cache[c], NoEntry},
         Passed(ns, batch, todo, since)'
  PROVE  IInv'
<1> USE DEF IInv
<1> DEFINE r == Removing(ns, batch, todo, since)
<1>1. /\ r \in Call /\ r.op = "remove" /\ r.pc \in {"remove", "done"}
      /\ (r.pc = "done" <=> todo = <<>>)
      /\ r.ns = ns /\ r.batch = batch /\ r.todo = todo /\ r.since = since
  BY RemovingCall
<1> HIDE DEF r
<1>2. /\ \A q \in Procs : proc'[q] = IF q = p THEN r ELSE proc[q]
      /\ proc' \in [Procs -> Call]
  BY <1>1 DEF TypeOK, r
<1>3. TypeOK'
  BY <1>1, <1>2 DEF TypeOK, At
<1>4. Owned'
  <2>1. \A c \in CacheKeys : cache'[c] \in From(c)
    BY FromHere DEF Owned
  <2>2. ASSUME NEW q \in Procs, proc'[q].op = "get" PROVE proc'[q] = proc[q]
    BY <1>1, <1>2, <2>2
  <2> QED
    BY <2>1, <2>2 DEF Owned, At
<1>5. Swept'
  <2> SUFFICES ASSUME NEW q \in Procs, proc'[q].op = "remove"
               PROVE  /\ proc'[q].pc = "done" => proc'[q].todo = <<>>
                      /\ \A i \in 1..Len(proc'[q].batch) :
                           \/ cache'[KeyOf(proc'[q].ns, proc'[q].batch[i])] = NoEntry
                           \/ KeyOf(proc'[q].ns, proc'[q].batch[i]) \in proc'[q].since
                           \/ \E j \in 1..Len(proc'[q].todo) : proc'[q].todo[j] = proc'[q].batch[i]
    BY DEF Swept, At, KeyOf
  <2>1. CASE q = p
    BY <1>1, <1>2, <2>1 DEF Passed, KeyOf
  <2>2. CASE q # p
    <3>1. proc'[q] = proc[q] /\ proc[q].op = "remove"
      BY <1>2, <2>2
    <3>2. proc[q].ns \in Spaces /\ proc[q].batch \in Seq(Names)
      BY <3>1, Typing
    <3>3. \A i \in 1..Len(proc[q].batch) : KeyOf(proc[q].ns, proc[q].batch[i]) \in CacheKeys
      BY <3>2, KeysOfBatch
    <3> QED
      BY <3>1, <3>3 DEF Swept, At
  <2> QED
    BY <2>1, <2>2
<1> QED
  BY <1>3, <1>4, <1>5

LEMMA RemoveInv ==
  ASSUME IInv, NEW p \in Procs, NEW ns \in Spaces, NEW batch \in Batches, Remove(p, ns, batch)
  PROVE  IInv'
<1>1. /\ proc' = [proc EXCEPT ![p] = Removing(ns, batch, batch, {})] /\ UNCHANGED <<now, cache, answer>>
      /\ batch \in Seq(Names) /\ {} \in SUBSET CacheKeys
  BY MokaBounds DEF Remove
<1>2. cache' \in [CacheKeys -> Here \cup {NoEntry}] /\ \A c \in CacheKeys : cache'[c] = cache[c]
  BY <1>1 DEF IInv, TypeOK
<1>3. Passed(ns, batch, batch, {})'
  BY DEF Passed
<1> QED
  BY <1>1, <1>2, <1>3, RemovalStep

LEMMA RemoveNextInv ==
  ASSUME IInv, NEW p \in Procs, RemoveNext(p)
  PROVE  IInv'
<1>0. At(p, "remove") /\ TypeOK
  BY DEF RemoveNext, IInv
<1>1. /\ proc[p].op = "remove" /\ proc[p].ns \in Spaces /\ proc[p].batch \in Seq(Names)
      /\ proc[p].todo \in Seq(Names) /\ proc[p].since \in SUBSET CacheKeys /\ proc[p].todo # <<>>
  BY <1>0, Typing DEF TypeOK
<1>2. PICK ns, batch, todo, since :
        ns = proc[p].ns /\ batch = proc[p].batch /\ todo = proc[p].todo /\ since = proc[p].since
  OBVIOUS
<1>3. /\ proc' = [proc EXCEPT ![p] = Removing(ns, batch, Tail(todo), since)]
      /\ cache' = [cache EXCEPT ![KeyOf(ns, Head(todo))] = NoEntry] /\ UNCHANGED <<now, answer>>
  BY <1>2 DEF RemoveNext
<1>4. /\ cache' \in [CacheKeys -> Here \cup {NoEntry}]
      /\ \A c \in CacheKeys : cache'[c] = IF c = KeyOf(ns, Head(todo)) THEN NoEntry ELSE cache[c]
  BY <1>0, <1>3 DEF TypeOK
<1>5. /\ Head(todo) \in Names /\ Tail(todo) \in Seq(Names)
      /\ \A j \in 1..Len(todo) : todo[j] = Head(todo) \/ \E i \in 1..Len(Tail(todo)) : Tail(todo)[i] = todo[j]
  <2>1. /\ Tail(todo) \in Seq(Names) /\ Head(todo) \in Names /\ Len(Tail(todo)) = Len(todo) - 1
        /\ \A i \in 1..Len(Tail(todo)) : Tail(todo)[i] = todo[i + 1]
    BY <1>1, <1>2, HeadTailProperties
  <2>2. Len(todo) \in Nat /\ Head(todo) = todo[1]
    BY <1>1, <1>2
  <2>3. ASSUME NEW j \in 1..Len(todo), j # 1
        PROVE  \E i \in 1..Len(Tail(todo)) : Tail(todo)[i] = todo[j]
    <3>1. j - 1 \in 1..Len(Tail(todo)) /\ (j - 1) + 1 = j
      BY <2>1, <2>2, <2>3
    <3> QED
      BY <2>1, <3>1
  <2> QED
    BY <2>1, <2>2, <2>3
<1>6. ASSUME NEW i \in 1..Len(batch)
      PROVE  \/ cache'[KeyOf(ns, batch[i])] = NoEntry
             \/ KeyOf(ns, batch[i]) \in since
             \/ \E j \in 1..Len(Tail(todo)) : Tail(todo)[j] = batch[i]
  <2>1. \/ cache[KeyOf(ns, batch[i])] = NoEntry
        \/ KeyOf(ns, batch[i]) \in since
        \/ \E j \in 1..Len(todo) : todo[j] = batch[i]
    BY <1>1, <1>2 DEF IInv, Swept
  <2>2. KeyOf(ns, batch[i]) \in CacheKeys
    BY <1>1, <1>2, KeysOfBatch
  <2> QED
    BY <1>4, <1>5, <2>1, <2>2
<1>7. ns \in Spaces /\ batch \in Seq(Names) /\ Tail(todo) \in Seq(Names) /\ since \in SUBSET CacheKeys
  BY <1>1, <1>2, <1>5
<1>8. \A c \in CacheKeys : cache'[c] \in {cache[c], NoEntry}
  BY <1>4
<1>9. PICK left \in Seq(Names) : left = Tail(todo)
  BY <1>7
<1>10. proc' = [proc EXCEPT ![p] = Removing(ns, batch, left, since)] /\ UNCHANGED <<now, answer>>
  BY <1>3, <1>9
<1>11. Passed(ns, batch, left, since)'
  BY <1>6, <1>9 DEF Passed, KeyOf
<1>12. cache' \in [CacheKeys -> Here \cup {NoEntry}]
  BY <1>4
<1> QED
  BY <1>7, <1>8, <1>10, <1>11, <1>12, RemovalStep

LEMMA InsideInv == IInv /\ Inside => IInv'
<1> SUFFICES ASSUME IInv, Inside PROVE IInv'
  OBVIOUS
<1>0. now \in 0..MaxTime /\ MaxTime \in Nat /\ cache \in [CacheKeys -> Here \cup {NoEntry}]
  BY MokaBounds DEF IInv, TypeOK
<1>1. ASSUME NEW p \in Procs, Abandon(p) PROVE IInv'
  BY <1>1, IdleInv DEF Abandon
<1>2. ASSUME NEW c \in CacheKeys, Evict(c) PROVE IInv'
  BY <1>0, <1>2, StillInv DEF Evict
<1>3. CASE Tick
  BY <1>0, <1>3, StillInv DEF Tick
<1> QED
  BY <1>1, <1>2, <1>3, GetInv, SetInv, RemoveInv, JudgeInv, InvalidateInv, RemoveNextInv DEF Inside

LEMMA IInvInit == Init => IInv
<1> SUFFICES ASSUME Init PROVE IInv
  OBVIOUS
<1>1. Idle \in Call /\ Idle.op = "none" /\ Idle.pc = "idle"
  BY DEF Idle, Call
<1>2. TypeOK
  BY <1>1, MokaBounds DEF Init, TypeOK, At
<1>3. Owned /\ Swept
  BY <1>1, FromHere DEF Init, Owned, Swept
<1> QED
  BY <1>2, <1>3 DEF IInv

LEMMA Invariance == Spec => []IInv
<1>1. IInv /\ [Next]_vars => IInv'
  <2> SUFFICES ASSUME IInv, [Next]_vars PROVE IInv'
    OBVIOUS
  <2>1. ASSUME NEW p \in Procs, Return(p) PROVE IInv'
    BY <2>1, IdleInv DEF Return
  <2>2. CASE UNCHANGED vars
    BY <2>2 DEF vars, IInv, TypeOK, Owned, Swept, At, KeyOf
  <2> QED
    BY <2>1, <2>2, InsideInv DEF Next
<1> QED
  BY <1>1, IInvInit, PTL DEF Spec

-----------------------------------------------------------------------------
(* The type invariant of moka.rs holds.                                    *)
THEOREM TypeCorrect == Spec => []TypeOK
<1>1. IInv => TypeOK
  BY DEF IInv
<1> QED
  BY <1>1, Invariance, PTL

LEMMA OwnTypeReadable ==
  ASSUME NEW ns \in Spaces, NEW x \in Inputs[ns]
  PROVE  IntoTyped(x, TypeOf[ns]) # NoEntry
<1>1. x \in StoredEntry /\ x.type = TypeOf[ns] /\ x.data \in Entry /\ TypeOf[ns] \in Types
  BY MokaInputsAssumption, SpacesAssumption DEF StoredEntry
<1>2. Readable(x, TypeOf[ns])
  BY <1>1, SerdeAssumption DEF Readable
<1> QED
  BY <1>1, <1>2, NoEntryAssumption DEF IntoTyped

(* Whatever strings namespaces and keys are, a get is given an entry of    *)
(* another type only at a key that a cache of that type spells alike.      *)
THEOREM TypesMeetAtSharedKeys == Spec => []NoTypeConfusion
<1>1. IInv => NoTypeConfusion
  <2> SUFFICES ASSUME IInv, NEW p \in Procs, At(p, "done"), proc[p].op = "get", answer[p] # NoEntry,
                      IntoTyped(answer[p], TypeOf[proc[p].ns]) = NoEntry
               PROVE  \E a \in Addresses : /\ SpelledAlike(a, <<proc[p].ns, proc[p].name>>)
                                          /\ TypeOf[a[1]] # TypeOf[proc[p].ns]
    BY DEF NoTypeConfusion
  <2>1. PICK k : k = KeyOf(proc[p].ns, proc[p].name)
    OBVIOUS
  <2>2. answer[p] \in Brought(k)
    BY <2>1 DEF IInv, Owned, From
  <2>3. PICK a \in Sharers(k) : answer[p] \in Inputs[a[1]]
    BY <2>2 DEF Brought
  <2>4. a \in Addresses /\ a[1] \in Spaces /\ KeyOf(a[1], a[2]) = k
    BY DEF Sharers, Addresses
  <2>5. SpelledAlike(a, <<proc[p].ns, proc[p].name>>)
    BY <2>1, <2>4 DEF SpelledAlike, KeyOf, build_cache_key
  <2>6. TypeOf[a[1]] # TypeOf[proc[p].ns]
    BY <2>3, <2>4, OwnTypeReadable
  <2> QED
    BY <2>4, <2>5, <2>6
<1> QED
  BY <1>1, Invariance, PTL

(* "Each cache is isolated by a namespace string": caches no namespace of  *)
(* which opens with another and a colon never see another's type.          *)
AlwaysDecodes ==
  \A p \in Procs : At(p, "done") /\ proc[p].op = "get" /\ answer[p] # NoEntry =>
    IntoTyped(answer[p], TypeOf[proc[p].ns]) # NoEntry
THEOREM TypesStayApart ==
  ASSUME \A ns \in Spaces, other \in Spaces : ~Nested(ns, other)
  PROVE  Spec => []AlwaysDecodes
<1>1. TypeOK /\ NoTypeConfusion => AlwaysDecodes
  <2> SUFFICES ASSUME TypeOK, NEW p \in Procs, proc[p].op = "get", NEW a \in Addresses,
                      SpelledAlike(a, <<proc[p].ns, proc[p].name>>)
               PROVE  a[1] = proc[p].ns
    BY DEF NoTypeConfusion, AlwaysDecodes
  <2>1. proc[p].ns \in Spaces /\ proc[p].name \in Names /\ a[1] \in Spaces /\ a[2] \in Names
    BY Typing DEF Addresses
  <2>2. /\ proc[p].ns \in String /\ proc[p].name \in String /\ a[1] \in String /\ a[2] \in String
        /\ ~Nested(a[1], proc[p].ns)
    BY <2>1, SpacesAssumption
  <2>3. build_cache_key(a[1], a[2]) = build_cache_key(proc[p].ns, proc[p].name)
    BY DEF SpelledAlike, build_cache_key
  <2> QED
    BY <2>2, <2>3, KeysDistinct
<1> QED
  BY <1>1, TypeCorrect, TypesMeetAtSharedKeys, PTL

(* A remove leaves no key of its batch that was not set since it began.    *)
THEOREM RemovesRemove == Spec => []RemoveRemoves
<1>1. IInv => RemoveRemoves
  BY DEF IInv, Swept, RemoveRemoves, At
<1> QED
  BY <1>1, Invariance, PTL

-----------------------------------------------------------------------------
(* The abstract store: a key holds what the map has there, and what gets   *)
(* in progress have in hand.                                               *)
Judges(c) == {p \in Procs : At(p, "judge") /\ KeyOf(proc[p].ns, proc[p].name) = c}
InHand(c) == {proc[p].entry : p \in Judges(c)}
InMap(c) == {cache[c]} \ {NoEntry}

LEMMA HeldAt ==
  /\ Held = [c \in CacheKeys |-> InMap(c) \cup InHand(c)]
  /\ Held' = [c \in CacheKeys |-> InMap(c)' \cup InHand(c)']
  BY DEF Held, InMap, InHand, Judges

LEMMA FewHands ==
  ASSUME NEW c \in CacheKeys
  PROVE  InHand(c) \in Contract!Residues(c)
<1> DEFINE J == Judges(c)
           f == [p \in J |-> proc[p].entry]
<1>1. IsFiniteSet(J) /\ Cardinality(J) <= Cardinality(Procs)
      /\ Cardinality(Procs) \in Nat /\ Cardinality(J) \in Nat
  <2>1. J \subseteq Procs /\ IsFiniteSet(Procs)
    BY MokaBounds DEF Judges
  <2> QED
    BY <2>1, FS_Subset, FS_CardinalityType
<1>2. f \in Surjection(J, InHand(c))
  BY DEF Surjection, InHand
<1>3. Cardinality(InHand(c)) <= Cardinality(J) /\ IsFiniteSet(InHand(c))
  BY <1>1, <1>2, FS_Surjection
<1>4. Cardinality(InHand(c)) < Cardinality(Procs) + 1
  BY <1>1, <1>3, FS_CardinalityType
<1>5. /\ Contract!Cardinality(InHand(c)) = Cardinality(InHand(c))
      /\ Contract!Cardinality(Procs) = Cardinality(Procs)
  BY DEF Contract!Cardinality, Cardinality
<1>6. InHand(c) \subseteq Held[c]
  BY HeldAt
<1> QED
  BY <1>4, <1>5, <1>6 DEF Contract!Residues

(* Caller p leaves its judgement, if it was there, and entries go.         *)
LEMMA LosingHeld ==
  ASSUME IInv, \A c \in CacheKeys : cache'[c] \in {cache[c], NoEntry},
         \A q \in Procs : proc'[q].pc = "judge" => proc'[q] = proc[q]
  PROVE  Held' \in Contract!Fewer
<1>1. ASSUME NEW c \in CacheKeys
      PROVE  InMap(c)' \subseteq InMap(c) /\ InHand(c)' \subseteq InHand(c)
  <2>1. InMap(c)' \subseteq InMap(c)
    BY DEF InMap
  <2>2. InHand(c)' \subseteq InHand(c)
    BY DEF InHand, Judges, At
  <2> QED
    BY <2>1, <2>2
<1> QED
  BY <1>1, HeldAt DEF Contract!Fewer

LEMMA ContractJudge ==
  ASSUME IInv, NEW p \in Procs, Judge(p)
  PROVE  Contract!Lose \/ \E c \in CacheKeys : Contract!Hit(p, c)
<1>1. At(p, "judge") /\ UNCHANGED <<now, cache>> /\ TypeOK
  BY DEF Judge, IInv
<1>2. /\ proc[p].op = "get" /\ proc[p].ns \in Spaces /\ proc[p].name \in Names
  BY <1>1, Typing DEF At
<1>3. \A q \in Procs : proc'[q].pc = "judge" => proc'[q] = proc[q]
  <2> DEFINE Step(pc) == Getting(pc, proc[p].ns, proc[p].name, proc[p].entry)
  <2>1. PICK pc \in {"invalidate", "done"} : proc' = [proc EXCEPT ![p] = Step(pc)]
    BY <1>1, <1>2, GetMovesOn DEF Judge
  <2>2. Step(pc).pc = pc
    BY DEF Getting
  <2> HIDE DEF Step
  <2> QED
    BY <1>1, <2>1, <2>2 DEF TypeOK
<1>4. Held' \in Contract!Fewer
  BY <1>1, <1>3, LosingHeld
<1>5. CASE IsExpired(proc[p].entry, now)
  BY <1>1, <1>4, <1>5 DEF Judge, Contract!Lose
<1>6. CASE ~IsExpired(proc[p].entry, now)
  <2> DEFINE e == proc[p].entry
  <2>1. PICK c \in CacheKeys : c = KeyOf(proc[p].ns, proc[p].name)
    BY <1>2, Key
  <2>2. answer' = [answer EXCEPT ![p] = e]
    BY <1>6 DEF Judge
  <2>3. e \in Held[c]
    <3>1. p \in Judges(c)
      BY <1>1, <2>1 DEF Judges
    <3> QED
      BY <3>1, HeldAt DEF InHand
  <2>4. ~Contract!IsExpired(e, now)
    BY <1>6 DEF IsExpired, Contract!IsExpired
  <2> QED
    BY <1>1, <1>4, <2>1, <2>2, <2>3, <2>4 DEF Contract!Hit
<1> QED
  BY <1>5, <1>6

LEMMA ContractGet ==
  ASSUME IInv, NEW p \in Procs, NEW ns \in Spaces, NEW name \in Names, Get(p, ns, name)
  PROVE  UNCHANGED Contract!vars \/ Contract!Miss(p)
<1> DEFINE found == cache[KeyOf(ns, name)]
<1>1. At(p, "idle") /\ UNCHANGED <<now, cache>> /\ TypeOK
  BY DEF Get, IInv
<1>2. CASE found = NoEntry
  <2> DEFINE r == Getting("done", ns, name, NoEntry)
  <2>1. /\ proc' = [proc EXCEPT ![p] = r] /\ answer' = [answer EXCEPT ![p] = NoEntry]
        /\ r.pc = "done"
    BY <1>2 DEF Get, Getting
  <2> HIDE DEF r
  <2>2. \A q \in Procs : proc'[q].pc = "judge" => proc'[q] = proc[q]
    BY <1>1, <2>1 DEF TypeOK
  <2>3. Held' \in Contract!Fewer
    BY <1>1, <2>2, LosingHeld
  <2> QED
    BY <1>1, <2>1, <2>3 DEF Contract!Miss
<1>3. CASE found # NoEntry
  <2>1. PICK e, k : e = found /\ k = KeyOf(ns, name)
    OBVIOUS
  <2> DEFINE r == Getting("judge", ns, name, e)
  <2>2. proc' = [proc EXCEPT ![p] = r] /\ answer' = answer
    BY <1>3, <2>1 DEF Get
  <2>3. r.pc = "judge" /\ r.ns = ns /\ r.name = name /\ r.entry = e
    BY DEF Getting
  <2> HIDE DEF r
  <2>4. \A q \in Procs : proc'[q] = IF q = p THEN r ELSE proc[q]
    BY <1>1, <2>2 DEF TypeOK
  <2>5. ASSUME NEW c \in CacheKeys
        PROVE  /\ InMap(c)' = InMap(c)
               /\ InHand(c)' = InHand(c) \cup (IF c = k THEN InMap(k) ELSE {})
    <3>1. InMap(c)' = InMap(c)
      BY <1>1 DEF InMap
    <3>2. Judges(c)' = Judges(c) \cup (IF c = k THEN {p} ELSE {})
      <4>1. ASSUME NEW q \in Procs
            PROVE  q \in Judges(c)' <=> q \in Judges(c) \/ (c = k /\ q = p)
        <5>1. q \in Judges(c)' <=> proc'[q].pc = "judge" /\ KeyOf(proc'[q].ns, proc'[q].name) = c
          BY DEF Judges, At
        <5>2. CASE q = p
          BY <1>1, <2>1, <2>3, <2>4, <5>1, <5>2 DEF Judges, At
        <5>3. CASE q # p
          BY <2>4, <5>1, <5>3 DEF Judges, At
        <5> QED
          BY <5>2, <5>3
      <4>2. Judges(c)' \subseteq Procs /\ Judges(c) \subseteq Procs
        BY DEF Judges
      <4> QED
        BY <4>1, <4>2
    <3>3. p \notin Judges(c) /\ InMap(k) = {r.entry}
      BY <1>1, <1>3, <2>1, <2>3 DEF Judges, At, InMap
    <3>4. \A q \in Judges(c) : proc'[q] = proc[q]
      BY <2>4, <3>3 DEF Judges
    <3>5. proc'[p] = r
      BY <2>4
    <3> QED
      BY <3>1, <3>2, <3>3, <3>4, <3>5 DEF InHand
  <2>6. Held' = Held
    <3>1. \A c \in CacheKeys : InMap(c)' \cup InHand(c)' = InMap(c) \cup InHand(c)
      BY <2>5
    <3> QED
      BY <3>1, HeldAt
  <2> QED
    BY <1>1, <2>2, <2>6 DEF Contract!vars
<1> QED
  BY <1>2, <1>3

LEMMA ContractSet ==
  ASSUME IInv, NEW p \in Procs, NEW ns \in Spaces, NEW name \in Names, NEW x \in Inputs[ns],
         Set(p, ns, name, x)
  PROVE  \E k \in CacheKeys : Contract!Set(k)
<1>0. PICK k \in CacheKeys : k = KeyOf(ns, name) /\ Inputs[ns] \subseteq Brought(k)
  BY Key
<1> DEFINE r == [op |-> "set", pc |-> "done", ns |-> ns, name |-> name]
           N == NoteWrite(k)
<1>1. /\ cache' = [cache EXCEPT ![k] = x] /\ proc' = [N EXCEPT ![p] = r]
      /\ UNCHANGED <<now, answer>> /\ At(p, "idle") /\ TypeOK
  BY <1>0 DEF Set, IInv
<1>2. r.pc = "done" /\ DOMAIN N = Procs
  BY DEF NoteWrite
<1>3. \A q \in Procs : /\ N[q].pc = proc[q].pc /\ N[q].op = proc[q].op
                       /\ proc[q].op # "remove" => N[q] = proc[q]
  BY <1>1, NotedKeeps
<1> HIDE DEF r, N
<1>4. \A q \in Procs : proc'[q] = IF q = p THEN r ELSE N[q]
  BY <1>1, <1>2
<1>5. x \in Brought(k) /\ x # NoEntry
  BY <1>0, MokaInputsAssumption, ErrAssumption
<1>6. ASSUME NEW c \in CacheKeys PROVE InHand(c)' = InHand(c)
  <2>1. ASSUME NEW q \in Procs, proc[q].pc = "judge" \/ proc'[q].pc = "judge"
        PROVE  proc'[q] = proc[q]
    <3>1. q # p
      BY <1>1, <1>2, <1>4, <2>1 DEF At
    <3>2. proc[q].pc = "judge"
      BY <1>3, <1>4, <2>1, <3>1
    <3> QED
      BY <1>1, <1>3, <1>4, <3>1, <3>2, Typing
  <2>2. Judges(c)' = Judges(c)
    <3>1. ASSUME NEW q \in Procs PROVE q \in Judges(c)' <=> q \in Judges(c)
      BY <2>1 DEF Judges, At
    <3>2. Judges(c)' \subseteq Procs /\ Judges(c) \subseteq Procs
      BY DEF Judges
    <3> QED
      BY <3>1, <3>2
  <2>3. \A q \in Judges(c) : proc'[q] = proc[q]
    BY <2>1 DEF Judges, At
  <2> QED
    BY <2>2, <2>3 DEF InHand
<1>7. ASSUME NEW c \in CacheKeys
      PROVE  InMap(c)' = IF c = k THEN {x} ELSE InMap(c)
  <2>1. cache'[c] = IF c = k THEN x ELSE cache[c]
    BY <1>1 DEF TypeOK
  <2> QED
    BY <1>5, <2>1 DEF InMap
<1>8. Held' = [Held EXCEPT ![k] = InHand(k) \cup {x}]
  <2>1. \A c \in CacheKeys : InMap(c)' \cup InHand(c)' =
          IF c = k THEN InHand(k) \cup {x} ELSE InMap(c) \cup InHand(c)
    BY <1>6, <1>7
  <2> QED
    BY <2>1, HeldAt
<1>9. InHand(k) \in Contract!Residues(k)
  BY FewHands
<1> QED
  BY <1>1, <1>5, <1>8, <1>9 DEF Contract!Set

LEMMA ContractInside == IInv /\ Inside => Contract!Next \/ UNCHANGED Contract!vars
<1> SUFFICES ASSUME IInv, Inside PROVE Contract!Next \/ UNCHANGED Contract!vars
  OBVIOUS
<1>0. /\ cache \in [CacheKeys -> Here \cup {NoEntry}] /\ TypeOK
      /\ \A r : \A p \in Procs : r.pc # "judge" /\ proc' = [proc EXCEPT ![p] = r] =>
           \A q \in Procs : proc'[q].pc = "judge" => proc'[q] = proc[q]
  BY DEF IInv, TypeOK
<1>1. ASSUME NEW p \in Procs, Abandon(p) PROVE Contract!Lose
  BY <1>0, <1>1, LosingHeld DEF Abandon, Idle, Contract!Lose
<1>2. ASSUME NEW p \in Procs, NEW ns \in Spaces, NEW batch \in Batches, Remove(p, ns, batch)
      PROVE  Contract!Lose
  <2>1. Removing(ns, batch, batch, {}).pc # "judge"
    BY DEF Removing
  <2> QED
    BY <1>0, <1>2, <2>1, LosingHeld DEF Remove, Contract!Lose
<1>3. ASSUME NEW p \in Procs, RemoveNext(p) PROVE Contract!Lose
  <2> DEFINE r == Removing(proc[p].ns, proc[p].batch, Tail(proc[p].todo), proc[p].since)
  <2>1. r.pc # "judge"
    BY DEF Removing
  <2>2. proc' = [proc EXCEPT ![p] = r] /\ \A c \in CacheKeys : cache'[c] \in {cache[c], NoEntry}
    BY <1>0, <1>3 DEF RemoveNext
  <2> HIDE DEF r
  <2>3. Held' \in Contract!Fewer
    BY <1>0, <2>1, <2>2, LosingHeld
  <2> QED
    BY <1>3, <2>3 DEF RemoveNext, Contract!Lose
<1>4. ASSUME NEW p \in Procs, Invalidate(p) PROVE Contract!Miss(p)
  <2>1. proc[p].op = "get"
    BY <1>0, <1>4, Typing DEF Invalidate, At
  <2> DEFINE r == Getting("done", proc[p].ns, proc[p].name, proc[p].entry)
  <2>2. r.pc # "judge"
    BY DEF Getting
  <2>3. proc' = [proc EXCEPT ![p] = r] /\ \A c \in CacheKeys : cache'[c] \in {cache[c], NoEntry}
    BY <1>0, <1>4, <2>1, GetMovesOn DEF Invalidate
  <2> HIDE DEF r
  <2>4. Held' \in Contract!Fewer
    BY <1>0, <2>2, <2>3, LosingHeld
  <2> QED
    BY <1>4, <2>4 DEF Invalidate, Contract!Miss
<1>5. ASSUME NEW c \in CacheKeys, Evict(c) PROVE Contract!Lose
  <2>1. \A d \in CacheKeys : cache'[d] \in {cache[d], NoEntry}
    BY <1>0, <1>5 DEF Evict
  <2> QED
    BY <1>5, <2>1, LosingHeld DEF Evict, Contract!Lose
<1>6. CASE Tick
  <2>1. now \in Nat /\ now' = now + 1 /\ now < MaxTime /\ MaxTime \in Nat
    BY <1>6, MokaBounds DEF IInv, TypeOK, Tick
  <2>2. UNCHANGED <<Held, answer>>
    BY <1>6 DEF Tick, Held, At
  <2> QED
    BY <2>1, <2>2 DEF Contract!Tick, Contract!Next
<1>7. ASSUME NEW p \in Procs, Judge(p) PROVE Contract!Next
  BY <1>7, ContractJudge DEF Contract!Next
<1>8. ASSUME NEW p \in Procs, NEW ns \in Spaces, NEW name \in Names,
             NEW x \in Inputs[ns], Set(p, ns, name, x)
      PROVE  Contract!Next
  BY <1>8, ContractSet DEF Contract!Next
<1>9. ASSUME NEW p \in Procs, NEW ns \in Spaces, NEW name \in Names, Get(p, ns, name)
      PROVE  Contract!Next \/ UNCHANGED Contract!vars
  BY <1>9, ContractGet DEF Contract!Next
<1> QED
  BY <1>1, <1>2, <1>3, <1>4, <1>5, <1>6, <1>7, <1>8, <1>9 DEF Inside, Contract!Next

LEMMA ContractStep == IInv /\ [Next]_vars => [Contract!Next]_(Contract!vars)
<1> SUFFICES ASSUME IInv, [Next]_vars PROVE [Contract!Next]_(Contract!vars)
  OBVIOUS
<1>1. ASSUME NEW p \in Procs, Return(p) PROVE Contract!Lose
  <2>1. /\ proc' = [proc EXCEPT ![p] = Idle] /\ UNCHANGED <<now, cache, answer>>
        /\ Idle.pc # "judge"
    BY <1>1 DEF Return, Idle
  <2>2. \A q \in Procs : proc'[q].pc = "judge" => proc'[q] = proc[q]
    BY <2>1 DEF IInv, TypeOK
  <2>3. Held' \in Contract!Fewer
    BY <2>1, <2>2, LosingHeld
  <2> QED
    BY <2>1, <2>3 DEF Contract!Lose
<1>2. CASE UNCHANGED vars
  BY <1>2 DEF vars, Held, At, Contract!vars
<1> QED
  BY <1>1, <1>2, ContractInside DEF Next, Contract!Next

(* Every step of MokaStore is a step of the abstract store at one key.     *)
THEOREM MokaImplementsStore == Spec => ImplementsStore
<1>1. Init => Contract!Init
  <2> SUFFICES ASSUME Init PROVE Contract!Init
    OBVIOUS
  <2>1. \A c \in CacheKeys : InMap(c) = {} /\ InHand(c) = {}
    BY DEF Init, Idle, InMap, InHand, Judges, At
  <2>2. Held = [c \in CacheKeys |-> {}]
    BY <2>1, HeldAt
  <2> QED
    BY <2>2 DEF Init, Contract!Init
<1> QED
  BY <1>1, ContractStep, Invariance, PTL DEF Spec, ImplementsStore, Contract!Spec
=============================================================================
