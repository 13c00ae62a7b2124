------------------------- MODULE HashMapStoreProofs -------------------------
(***************************************************************************)
(* Theorems about HashMapStore, for every set of keys, callers and entries *)
(* and every configuration.                                                *)
(***************************************************************************)
EXTENDS HashMapStore, FiniteSetTheorems, TLAPS

(* Entries are entries, and each key's among them.                         *)
LEMMA EntryTypes == Entries \subseteq Entry /\ \A k \in Keys : Inputs[k] \subseteq Entries
BY InputsAssumption DEF Entries

LEMMA TypeInit == Init => TypeOK
BY ConfigAssumption DEF Init, TypeOK, Idle

LEMMA TypeStep == TypeOK /\ [Next]_vars => TypeOK'
<1> SUFFICES ASSUME TypeOK, [Next]_vars PROVE TypeOK'
  OBVIOUS
<1>1. \A K : Without(K) \in [Keys -> Entries \cup {NoEntry}]
  BY DEF TypeOK, Without
<1>2. ASSUME NEW p \in Procs, NEW k \in Keys, Get(p, k) PROVE TypeOK'
  BY <1>2 DEF TypeOK, Get
<1>3. ASSUME NEW p \in Procs, NEW k \in Keys, NEW e \in Inputs[k], Insert(p, k, e)
      PROVE  TypeOK'
  BY <1>3, EntryTypes DEF TypeOK, Insert, CleaningUp
<1>4. ASSUME NEW p \in Procs, Cleanup(p) PROVE TypeOK'
  BY <1>1, <1>4 DEF TypeOK, Cleanup, Idle
<1>5. ASSUME NEW p \in Procs, Evict(p) PROVE TypeOK'
  BY <1>1, <1>5 DEF TypeOK, Evict, Idle
<1>6. ASSUME NEW p \in Procs, Abandon(p) PROVE TypeOK'
  BY <1>6 DEF TypeOK, Abandon, Idle
<1>7. ASSUME NEW K \in SUBSET Keys, Remove(K) PROVE TypeOK'
  BY <1>1, <1>7 DEF TypeOK, Remove
<1>8. CASE Tick
  BY <1>8, ConfigAssumption DEF TypeOK, Tick
<1>9. CASE UNCHANGED vars
  BY <1>9 DEF TypeOK, vars
<1> QED
  BY <1>2, <1>3, <1>4, <1>5, <1>6, <1>7, <1>8, <1>9 DEF Next

(* Type correctness of the map, its waiting callers and their answers.     *)
THEOREM TypeCorrect == Spec => []TypeOK
BY TypeInit, TypeStep, PTL DEF Spec

-----------------------------------------------------------------------------
(* No step but an eviction lets a key be present without an excuse, that is *)
(* a set of it that has still to evict or that did not evict.              *)
LEMMA FewerUnexcused ==
  ASSUME CapacityBound, Present' \ Unevicted' \subseteq Present \ Unevicted
  PROVE  CapacityBound'
<1>1. IsFiniteSet(Present \ Unevicted)
  BY FS_Subset, ConfigAssumption DEF Present
<1>2. Cardinality(Present' \ Unevicted') <= Cardinality(Present \ Unevicted)
      /\ Cardinality(Present' \ Unevicted') \in Nat /\ Cardinality(Present \ Unevicted) \in Nat
  BY <1>1, FS_Subset, FS_CardinalityType
<1> QED
  BY <1>2, ConfigAssumption DEF CapacityBound

LEMMA GetBound ==
  ASSUME TypeOK, CapacityBound, NEW p \in Procs, NEW k \in Keys, Get(p, k)
  PROVE  CapacityBound'
<1>1. Present' = Present /\ skipped' = skipped
  BY DEF Get, Present
<1>2. \A q \in Procs : At(q, "evict") => proc'[q] = proc[q]
  BY DEF TypeOK, Get, At
<1>3. Unevicted \subseteq Unevicted'
  BY <1>1, <1>2 DEF Unevicted, Evicting, At
<1> QED
  BY <1>1, <1>3, FewerUnexcused

LEMMA InsertBound ==
  ASSUME TypeOK, CapacityBound, NEW p \in Procs, NEW k \in Keys, NEW e \in Inputs[k],
         Insert(p, k, e)
  PROVE  CapacityBound'
<1>1. Present' \subseteq Present \cup {k}
  BY DEF TypeOK, Insert, Present
<1>2. /\ skipped \subseteq skipped'
      /\ \A q \in Procs : At(q, "evict") => proc'[q] = proc[q]
  BY DEF TypeOK, Insert, At
<1>3. Unevicted \subseteq Unevicted'
  BY <1>2 DEF Unevicted, Evicting, At
<1>4. k \in Unevicted'
  <2>1. CASE proc' = [proc EXCEPT ![p] = [pc |-> "evict", key |-> k]]
    <3>1. proc'[p].pc = "evict" /\ proc'[p].key = k
      BY <2>1 DEF TypeOK
    <3> QED
      BY <3>1 DEF Unevicted, Evicting, At
  <2>2. CASE skipped' = skipped \cup {k}
    BY <2>2 DEF Unevicted
  <2> QED
    BY <2>1, <2>2 DEF Insert
<1> QED
  BY <1>1, <1>3, <1>4, FewerUnexcused

(* An eviction leaves no more than max_items entries, whatever the others  *)
(* have inserted by then.                                                  *)
LEMMA EvictBound ==
  ASSUME TypeOK, NEW p \in Procs, Evict(p)
  PROVE  CapacityBound'
<1>1. PICK K \in Victims : state' = Without((Keys \ Retained) \cup K)
  BY DEF Evict
<1>2. IsFiniteSet(Retained) /\ Cardinality(Retained) \in Nat /\ Retained \subseteq Keys
  BY FS_Subset, FS_CardinalityType, ConfigAssumption DEF Retained, Present
<1>3. Present' = Retained \ K
  BY <1>1 DEF TypeOK, Present, Retained, Without
<1>4. Cardinality(Retained \ K) <= MaxItems
  <2>1. CASE Cardinality(Retained) <= MaxItems
    <3>1. K = {}
      BY <1>1, <2>1 DEF Victims
    <3>2. Retained \ K = Retained
      BY <3>1
    <3> QED
      BY <2>1, <3>2
  <2>2. CASE ~(Cardinality(Retained) <= MaxItems)
    <3>1. K \subseteq Retained /\ Cardinality(K) = Cardinality(Retained) - MaxItems
      BY <1>1, <2>2 DEF Victims
    <3>2. Cardinality(Retained \ K) = Cardinality(Retained) - Cardinality(Retained \cap K)
      BY <1>2, FS_Difference
    <3>3. Cardinality(Retained \cap K) = Cardinality(K)
      <4>1. Retained \cap K = K
        BY <3>1
      <4> QED
        BY <4>1
    <3> QED
      BY <1>2, <3>1, <3>2, <3>3, ConfigAssumption
  <2> QED
    BY <2>1, <2>2
<1>5. IsFiniteSet(Retained \ K) /\ Cardinality(Retained \ K) \in Nat
  BY <1>2, FS_Difference, FS_CardinalityType
<1>6. Cardinality(Present' \ Unevicted') <= Cardinality(Present')
      /\ Cardinality(Present' \ Unevicted') \in Nat
  BY <1>3, <1>5, FS_Subset, FS_CardinalityType
<1> QED
  BY <1>3, <1>4, <1>5, <1>6, ConfigAssumption DEF CapacityBound

(* A dropped set leaves its key among the skipped ones.                    *)
LEMMA AbandonBound ==
  ASSUME TypeOK, CapacityBound, NEW p \in Procs, Abandon(p)
  PROVE  CapacityBound'
<1>1. Present' = Present
  BY DEF Abandon, Present
<1>2. /\ \A q \in Procs : q # p => proc'[q] = proc[q]
      /\ skipped \subseteq skipped'
      /\ At(p, "evict") => proc[p].key \in skipped'
  BY DEF TypeOK, Abandon, At
<1>3. Unevicted \subseteq Unevicted'
  BY <1>2 DEF Unevicted, Evicting, At
<1> QED
  BY <1>1, <1>3, FewerUnexcused

LEMMA BoundStep ==
  ASSUME TypeOK, CapacityBound, [Next]_vars
  PROVE  CapacityBound'
<1>1. ASSUME NEW p \in Procs, Cleanup(p) PROVE CapacityBound'
  <2>1. Present' \subseteq Present /\ skipped' = skipped
    BY <1>1 DEF TypeOK, Cleanup, Without, Present
  <2>2. \A q \in Procs : At(q, "evict") => proc'[q] = proc[q]
    BY <1>1 DEF TypeOK, Cleanup, Idle, At
  <2>3. Unevicted \subseteq Unevicted'
    BY <2>1, <2>2 DEF Unevicted, Evicting, At
  <2> QED
    BY <2>1, <2>3, FewerUnexcused
<1>2. ASSUME NEW K \in SUBSET Keys, Remove(K) PROVE CapacityBound'
  <2>1. Present' \subseteq Present
    BY <1>2 DEF TypeOK, Remove, Without, Present
  <2>2. Unevicted' = Unevicted
    BY <1>2 DEF Remove, Unevicted, Evicting, At
  <2> QED
    BY <2>1, <2>2, FewerUnexcused
<1>3. CASE Tick
  BY <1>3 DEF Tick, CapacityBound, Present, Unevicted, Evicting, At
<1>4. CASE UNCHANGED vars
  BY <1>4 DEF vars, CapacityBound, Present, Unevicted, Evicting, At
<1> QED
  BY <1>1, <1>2, <1>3, <1>4, GetBound, InsertBound, EvictBound, AbandonBound DEF Next

(* memory.rs:134-142: the map holds at most max_items entries besides the  *)
(* keys whose set has not evicted.                                         *)
THEOREM CapacityIsBounded == Spec => []CapacityBound
<1>1. Init => CapacityBound
  <2> SUFFICES ASSUME Init PROVE CapacityBound
    OBVIOUS
  <2>1. Present = {}
    BY DEF Init, Present
  <2>2. Present \ Unevicted = {}
    BY <2>1
  <2> QED
    BY <2>2, FS_EmptySet, ConfigAssumption DEF CapacityBound
<1>2. TypeOK /\ CapacityBound /\ [Next]_vars => CapacityBound'
  BY BoundStep
<1> QED
  BY <1>1, <1>2, TypeCorrect, PTL DEF Spec

-----------------------------------------------------------------------------
(* What an eviction leaves, and what a live entry that goes was up against.*)
LEMMA EvictLeaves ==
  ASSUME TypeOK, NEW p \in Procs, Evict(p),
         NEW k \in Present, ~IsExpired(state[k], now), state'[k] = NoEntry
  PROVE  /\ Cardinality(Present') = MaxItems
         /\ \A j \in Present' : state'[j].stale_until >= state[k].stale_until
<1>1. PICK K \in Victims : state' = Without((Keys \ Retained) \cup K)
  BY DEF Evict
<1>2. IsFiniteSet(Retained) /\ Cardinality(Retained) \in Nat /\ Retained \subseteq Keys
  BY FS_Subset, FS_CardinalityType, ConfigAssumption DEF Retained, Present
<1>3. /\ Present' = Retained \ K
      /\ \A j \in Retained \ K : state'[j] = state[j]
      /\ \A j \in Retained : state'[j] = NoEntry => j \in K
  BY <1>1 DEF TypeOK, Present, Retained, Without
<1>4. \A j \in Present : state[j].stale_until \in Int /\ now \in Int
  BY EntryTypes, ConfigAssumption DEF TypeOK, Present, Entry
<1>5. k \in Retained
  BY <1>4 DEF Retained, IsExpired
<1>6. k \in K
  BY <1>3, <1>5
<1>7. /\ K \subseteq Retained
      /\ Cardinality(Retained) > MaxItems
      /\ Cardinality(K) = Cardinality(Retained) - MaxItems
      /\ \A i \in K, j \in Retained \ K : state[i].stale_until <= state[j].stale_until
  BY <1>1, <1>2, <1>6, ConfigAssumption DEF Victims
<1>8. Cardinality(Retained \ K) = MaxItems
  <2>1. Cardinality(Retained \ K) = Cardinality(Retained) - Cardinality(Retained \cap K)
    BY <1>2, FS_Difference
  <2>2. Cardinality(Retained \cap K) = Cardinality(K)
    <3>1. Retained \cap K = K
      BY <1>7
    <3> QED
      BY <3>1
  <2>3. Cardinality(K) = Cardinality(Retained) - MaxItems
    BY <1>7
  <2> QED
    BY <1>2, <2>1, <2>2, <2>3, ConfigAssumption
<1>9. ASSUME NEW j \in Present'
      PROVE  state'[j].stale_until >= state[k].stale_until
  <2>1. j \in Retained \ K /\ state'[j] = state[j] /\ j \in Present
    BY <1>3 DEF Retained
  <2> QED
    BY <1>4, <1>6, <1>7, <2>1
<1> QED
  BY <1>3, <1>8, <1>9

(* A caller at its eviction leaves that place by evicting or by going away.*)
LEMMA LeavesEviction ==
  ASSUME TypeOK, Next, NEW p \in Procs, At(p, "evict"), proc'[p] # proc[p]
  PROVE  Evict(p) \/ Abandon(p)
<1>1. ASSUME NEW q \in Procs, NEW r, ~At(q, "evict"), proc' = [proc EXCEPT ![q] = r]
      PROVE  FALSE
  BY <1>1 DEF TypeOK, At
<1>2. ASSUME NEW q \in Procs, Evict(q) \/ Abandon(q)
      PROVE  q = p
  BY <1>2 DEF TypeOK, Evict, Abandon
<1>3. ASSUME NEW q \in Procs, NEW k \in Keys, Get(q, k)
      PROVE  FALSE
  BY <1>1, <1>3 DEF Get, At
<1>4. ASSUME NEW q \in Procs, NEW k \in Keys, NEW e \in Inputs[k], Insert(q, k, e)
      PROVE  FALSE
  BY <1>1, <1>4 DEF Insert, At
<1>5. ASSUME NEW q \in Procs, Cleanup(q)
      PROVE  FALSE
  BY <1>1, <1>5 DEF Cleanup, At
<1>6. ~Tick /\ \A K \in SUBSET Keys : ~Remove(K)
  BY DEF Tick, Remove
<1> QED
  BY <1>2, <1>3, <1>4, <1>5, <1>6 DEF Next

(* Eviction takes a live entry only when max_items others stay, all of     *)
(* them with at least as long to live (memory.rs:83-97), not, as           *)
(* README.md:133 has it, the least recently used.                          *)
THEOREM EvictionsTakeNearestDeadline == Spec => EvictsNearestDeadline
<1> DEFINE Fair ==
      \A p \in Procs, k \in Present :
        At(p, "evict") /\ proc'[p] # proc[p]
          /\ ~IsExpired(state[k], now) /\ state'[k] = NoEntry
          => /\ Cardinality(Present') = MaxItems
             /\ \A j \in Present' : state'[j].stale_until >= state[k].stale_until
<1>1. TypeOK /\ [Next]_vars => [Fair]_vars
  <2> SUFFICES ASSUME TypeOK, Next, NEW p \in Procs, NEW k \in Present,
                      At(p, "evict"), proc'[p] # proc[p],
                      ~IsExpired(state[k], now), state'[k] = NoEntry
               PROVE  /\ Cardinality(Present') = MaxItems
                      /\ \A j \in Present' : state'[j].stale_until >= state[k].stale_until
    OBVIOUS
  <2>1. Evict(p) \/ Abandon(p)
    BY LeavesEviction
  <2>2. ~Abandon(p)
    BY DEF Abandon, Present
  <2> QED
    BY <2>1, <2>2, EvictLeaves
<1>2. Spec => [][Fair]_vars
  <2> HIDE DEF Fair
  <2> QED
    BY <1>1, TypeCorrect, PTL DEF Spec
<1> QED
  BY <1>2 DEF EvictsNearestDeadline

-----------------------------------------------------------------------------
(* A get that nothing overtook still has something expired to remove, or   *)
(* nothing: only an insert could put a live entry under it, and an insert  *)
(* counts the gets it overtakes.                                           *)
LEMMA DoomedStep ==
  ASSUME TypeOK, Doomed, [Next]_vars
  PROVE  Doomed'
<1> DEFINE Wary(p, k) == p \in Procs /\ proc[p].pc = "cleanup" /\ proc[p].key = k /\ p \notin raced
           Gone(k) == state[k] = NoEntry \/ IsExpired(state[k], now)
<1>1. Doomed <=> \A k \in Keys : \A p \in Procs : Wary(p, k) => Gone(k)
  BY DEF Doomed, CleaningUp, At, Present
<1>2. Doomed' <=> \A k \in Keys : \A p \in Procs :
        p \in Procs /\ proc'[p].pc = "cleanup" /\ proc'[p].key = k /\ p \notin raced'
          => state'[k] = NoEntry \/ IsExpired(state'[k], now')
  BY DEF Doomed, CleaningUp, At, Present
<1> SUFFICES ASSUME NEW k \in Keys, NEW p \in Procs,
                    proc'[p].pc = "cleanup", proc'[p].key = k, p \notin raced'
             PROVE  state'[k] = NoEntry \/ IsExpired(state'[k], now')
  BY <1>2
<1>3. Wary(p, k) => Gone(k)
  BY <1>1
<1>4. ASSUME Wary(p, k), now' = now, state'[k] \in {state[k], NoEntry}
      PROVE  state'[k] = NoEntry \/ IsExpired(state'[k], now')
  BY <1>3, <1>4
<1>5. ASSUME NEW q \in Procs, NEW j \in Keys, Get(q, j)
      PROVE  state'[k] = NoEntry \/ IsExpired(state'[k], now')
  <2>1. state' = state /\ now' = now /\ raced' = raced
    BY <1>5 DEF Get
  <2>2. CASE Wary(p, k)
    BY <1>4, <2>1, <2>2
  <2>3. CASE ~Wary(p, k)
    <3>1. proc' # proc /\ proc[p] # proc'[p]
      BY <2>1, <2>3
    <3>2. proc' = [proc EXCEPT ![q] = [pc |-> "cleanup", key |-> j]] /\ Gone(j)
      BY <1>5, <3>1 DEF Get
    <3>3. p = q /\ j = k
      BY <3>1, <3>2 DEF TypeOK
    <3> QED
      BY <2>1, <3>2, <3>3
  <2> QED
    BY <2>2, <2>3
<1>6. ASSUME NEW q \in Procs, NEW j \in Keys, NEW e \in Inputs[j], Insert(q, j, e)
      PROVE  state'[k] = NoEntry \/ IsExpired(state'[k], now')
  <2>1. now' = now /\ state' = [state EXCEPT ![j] = e] /\ raced' = raced \cup CleaningUp(j)
    BY <1>6 DEF Insert
  <2>2. proc[p] = proc'[p]
    BY <1>6 DEF TypeOK, Insert
  <2>3. Wary(p, k) /\ p \notin CleaningUp(j)
    BY <2>1, <2>2
  <2>4. j # k
    BY <2>3 DEF CleaningUp, At
  <2> QED
    BY <1>4, <2>1, <2>3, <2>4 DEF TypeOK
<1>7. ASSUME NEW q \in Procs, Cleanup(q) \/ Evict(q) \/ Abandon(q)
      PROVE  state'[k] = NoEntry \/ IsExpired(state'[k], now')
  <2>1. now' = now /\ state'[k] \in {state[k], NoEntry}
    BY <1>7 DEF Cleanup, Evict, Abandon, Without
  <2>2. proc' = [proc EXCEPT ![q] = Idle] /\ raced \ {q} \subseteq raced'
    BY <1>7 DEF Cleanup, Evict, Abandon
  <2>3. p # q /\ proc'[p] = proc[p]
    BY <2>2 DEF TypeOK, Idle
  <2> QED
    BY <1>4, <2>1, <2>2, <2>3
<1>8. ASSUME NEW K \in SUBSET Keys, Remove(K)
      PROVE  state'[k] = NoEntry \/ IsExpired(state'[k], now')
  <2>1. UNCHANGED <<now, proc, raced>> /\ state'[k] \in {state[k], NoEntry}
    BY <1>8 DEF Remove, Without
  <2> QED
    BY <1>4, <2>1
<1>9. CASE Tick
  <2>1. UNCHANGED <<state, proc, raced>> /\ now \in Int /\ now' = now + 1
    BY <1>9, ConfigAssumption DEF TypeOK, Tick
  <2>2. Gone(k)
    BY <1>3, <2>1
  <2>3. CASE state[k] # NoEntry
    <3>1. state[k].stale_until \in Int
      BY <2>3, EntryTypes DEF TypeOK, Entry
    <3> QED
      BY <2>1, <2>2, <2>3, <3>1 DEF IsExpired
  <2> QED
    BY <2>1, <2>3
<1>10. CASE UNCHANGED vars
  BY <1>4, <1>10 DEF vars
<1> QED
  BY <1>5, <1>6, <1>7, <1>8, <1>9, <1>10 DEF Next

THEOREM DoomedHolds == Spec => []Doomed
<1>1. Init => Doomed
  BY DEF Init, Doomed, Present
<1>2. TypeOK /\ Doomed /\ [Next]_vars => Doomed'
  BY DoomedStep
<1> QED
  BY <1>1, <1>2, TypeCorrect, PTL DEF Spec

(* A live entry an eviction takes was one too many.                        *)
LEMMA EvictsSurplus ==
  ASSUME TypeOK, NEW p \in Procs, Evict(p),
         NEW k \in Present, ~IsExpired(state[k], now), state'[k] = NoEntry
  PROVE  Cardinality(Retained) > MaxItems
<1>1. PICK K \in Victims : state' = Without((Keys \ Retained) \cup K)
  BY DEF Evict
<1>2. IsFiniteSet(Retained) /\ Cardinality(Retained) \in Nat
  BY FS_Subset, FS_CardinalityType, ConfigAssumption DEF Retained, Present
<1>3. state[k].stale_until \in Int /\ now \in Int /\ k \in Keys /\ state[k] # NoEntry
  BY EntryTypes, ConfigAssumption DEF TypeOK, Present, Entry
<1>4. k \in Retained
  BY <1>3 DEF Retained, IsExpired
<1>5. k \in K
  BY <1>1, <1>3, <1>4 DEF Without
<1> QED
  BY <1>1, <1>2, <1>5, ConfigAssumption DEF Victims

(* memory.rs:79-98, 121-127, 149-152: a live entry leaves the map only by a *)
(* remove, as a surplus, or by a get that a set overtook.                  *)
THEOREM LossesAreKnown == Spec => OnlyKnownLosses
<1> DEFINE Known ==
      \A k \in Present :
        ~IsExpired(state[k], now) /\ state'[k] = NoEntry
          => \/ UNCHANGED proc
             \/ \E p \in Evicting : proc'[p] # proc[p] /\ Cardinality(Retained) > MaxItems
             \/ \E p \in CleaningUp(k) \cap raced : proc'[p] # proc[p]
<1>1. TypeOK /\ Doomed /\ [Next]_vars => [Known]_vars
  <2> SUFFICES ASSUME TypeOK, Doomed, Next, NEW k \in Present,
                      ~IsExpired(state[k], now), state'[k] = NoEntry, proc' # proc
               PROVE  \/ \E p \in Evicting : proc'[p] # proc[p] /\ Cardinality(Retained) > MaxItems
                      \/ \E p \in CleaningUp(k) \cap raced : proc'[p] # proc[p]
    OBVIOUS
  <2>1. k \in Keys /\ state[k] # NoEntry
    BY DEF Present
  <2>2. ASSUME NEW p \in Procs, Evict(p)
        PROVE  p \in Evicting /\ proc'[p] # proc[p] /\ Cardinality(Retained) > MaxItems
    <3>1. p \in Evicting /\ proc'[p] # proc[p]
      BY <2>2 DEF TypeOK, Evict, Evicting, At, Idle
    <3> QED
      BY <2>2, <3>1, EvictsSurplus
  <2>3. ASSUME NEW p \in Procs, Cleanup(p)
        PROVE  p \in CleaningUp(k) \cap raced /\ proc'[p] # proc[p]
    <3>1. proc[p].key = k
      BY <2>1, <2>3 DEF Cleanup, Without
    <3>2. p \in CleaningUp(k) /\ proc'[p] # proc[p]
      BY <2>3, <3>1 DEF TypeOK, Cleanup, CleaningUp, At, Idle
    <3> QED
      BY <3>2 DEF Doomed
  <2>4. \A p \in Procs, j \in Keys : ~Get(p, j)
    BY <2>1 DEF Get
  <2>5. ASSUME NEW p \in Procs, NEW j \in Keys, NEW e \in Inputs[j], Insert(p, j, e)
        PROVE  FALSE
    <3>1. e # NoEntry
      BY EntryTypes, NoEntryAssumption
    <3> QED
      BY <2>1, <2>5, <3>1 DEF TypeOK, Insert
  <2>6. /\ \A p \in Procs : ~Abandon(p)
        /\ \A K \in SUBSET Keys : ~Remove(K)
        /\ ~Tick
    BY <2>1 DEF Abandon, Remove, Tick
  <2> QED
    BY <2>2, <2>3, <2>4, <2>5, <2>6 DEF Next
<1>2. Spec => [][Known]_vars
  <2> HIDE DEF Known
  <2> QED
    BY <1>1, TypeCorrect, DoomedHolds, PTL DEF Spec
<1> QED
  BY <1>2 DEF OnlyKnownLosses

-----------------------------------------------------------------------------
(* HashMapStore implements the abstract store.                             *)
LEMMA NoResidue ==
  ASSUME NEW k \in Keys
  PROVE  {} \in Contract!Residues(k)
<1>1. Contract!Cardinality({}) = Cardinality({})
  BY DEF Contract!Cardinality, Cardinality
<1> QED
  BY <1>1, FS_EmptySet DEF Contract!Residues

LEMMA LessHeld ==
  ASSUME TypeOK, NEW K \in SUBSET Keys, state' = Without(K)
  PROVE  Held' \in Contract!Fewer
<1>1. /\ Held' = [k \in Keys |-> {state'[k]} \ {NoEntry}]
      /\ Held = [k \in Keys |-> {state[k]} \ {NoEntry}]
  BY DEF Held
<1>2. \A k \in Keys : state'[k] \in {state[k], NoEntry}
  BY DEF Without
<1> QED
  BY <1>1, <1>2 DEF Contract!Fewer

LEMMA ContractStep == TypeOK /\ [Next]_vars => [Contract!Next]_(Contract!vars)
<1> SUFFICES ASSUME TypeOK, [Next]_vars PROVE [Contract!Next]_(Contract!vars)
  OBVIOUS
<1>1. ASSUME NEW p \in Procs, NEW k \in Keys, Get(p, k)
      PROVE  Contract!Hit(p, k) \/ Contract!Miss(p) \/ UNCHANGED Contract!vars
  <2>1. UNCHANGED <<now, state, Held>>
    BY <1>1 DEF Get, Held
  <2>0. Held' \in Contract!Fewer
    BY <2>1 DEF TypeOK, Held, Contract!Fewer
  <2>2. CASE state[k] = NoEntry
    BY <1>1, <2>1, <2>2, <2>0 DEF Get, Contract!Miss
  <2>3. CASE state[k] # NoEntry
    <3>1. state[k] \in Held[k]
      BY <2>3 DEF Held
    <3> QED
      BY <1>1, <2>1, <2>0, <2>3, <3>1 DEF Get, IsExpired, Contract!Hit, Contract!IsExpired, Contract!vars
  <2> QED
    BY <2>2, <2>3
<1>2. ASSUME NEW p \in Procs, NEW k \in Keys, NEW e \in Inputs[k], Insert(p, k, e)
      PROVE  Contract!Set(k)
  <2>1. e # NoEntry
    BY EntryTypes, NoEntryAssumption
  <2>2. Held' = [Held EXCEPT ![k] = {} \cup {e}]
    BY <1>2, <2>1 DEF TypeOK, Insert, Held
  <2> QED
    BY <1>2, <2>2, NoResidue DEF Insert, Contract!Set
<1>3. ASSUME NEW p \in Procs, Cleanup(p)
      PROVE  Contract!Miss(p)
  <2>1. {proc[p].key} \in SUBSET Keys
    BY <1>3 DEF TypeOK, At, Cleanup
  <2> QED
    BY <1>3, <2>1, LessHeld DEF Cleanup, Contract!Miss
<1>4. ASSUME NEW p \in Procs, Evict(p)
      PROVE  Contract!Lose
  <2>1. PICK K \in Victims : state' = Without((Keys \ Retained) \cup K)
    BY <1>4 DEF Evict
  <2>2. (Keys \ Retained) \cup K \in SUBSET Keys
    BY <2>1 DEF Victims, Retained, Present
  <2> QED
    BY <1>4, <2>1, <2>2, LessHeld DEF Evict, Contract!Lose
<1>5. ASSUME NEW p \in Procs, Abandon(p)
      PROVE  UNCHANGED Contract!vars
  BY <1>5 DEF Abandon, Held, Contract!vars
<1>6. ASSUME NEW K \in SUBSET Keys, Remove(K)
      PROVE  Contract!Lose
  BY <1>6, LessHeld DEF Remove, Contract!Lose
<1>7. CASE Tick
  <2>1. now \in Nat /\ now' = now + 1 /\ now < MaxTime /\ MaxTime \in Nat
    BY <1>7, ConfigAssumption DEF TypeOK, Tick
  <2>2. UNCHANGED <<Held, answer>>
    BY <1>7 DEF Tick, Held
  <2>3. Contract!Tick
    BY <2>1, <2>2 DEF Contract!Tick
  <2> QED
    BY <2>3 DEF Contract!Next
<1>8. CASE UNCHANGED vars
  BY <1>8 DEF vars, Held, Contract!vars
<1> QED
  BY <1>1, <1>2, <1>3, <1>4, <1>5, <1>6, <1>7, <1>8 DEF Next, Contract!Next

(* Every step of HashMapStore is a step SwrCache expects of any store.     *)
THEOREM HashMapImplementsStore == Spec => ImplementsStore
<1>1. Init => Contract!Init
  BY DEF Init, Held, Contract!Init
<1> QED
  BY <1>1, ContractStep, TypeCorrect, PTL DEF Spec, ImplementsStore, Contract!Spec
=============================================================================
