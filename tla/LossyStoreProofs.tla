-------------------------- MODULE LossyStoreProofs --------------------------
(***************************************************************************)
(* Theorems about the contract of a Store: what follows of every store     *)
(* that implements LossyStore, whichever it is.                            *)
(***************************************************************************)
EXTENDS LossyStore, FiniteSetTheorems, TLAPS

CONSTANTS MoreInputs, MoreShown, MoreDepth

(* A store with more places, that is asked to keep more entries and shows  *)
(* more expired ones.                                                      *)
Wider == INSTANCE LossyStore WITH
  Inputs <- MoreInputs, KeepsExpired <- MoreShown, Depth <- MoreDepth

(* Every entry a store holds, or a process has been answered, was set by a *)
(* client, and no key is at more places than the store has.                *)
Entries == UNION {Inputs[k] : k \in Keys}
HoldsInputs ==
  /\ held \in [Keys -> SUBSET Entries]
  /\ \A k \in Keys : held[k] \subseteq Inputs[k]
AnswersInputs == answer \in [Procs -> Entries \cup {NoEntry}]
AtMostDepth ==
  \A k \in Keys : IsFiniteSet(held[k]) /\ Cardinality(held[k]) <= Depth

IInv == HoldsInputs /\ AnswersInputs /\ AtMostDepth

-----------------------------------------------------------------------------
LEMMA FewerAt ==
  ASSUME NEW h \in Fewer
  PROVE  /\ h \in [Keys -> SUBSET UNION {held[k] : k \in Keys}]
         /\ \A k \in Keys : h[k] \subseteq held[k]
BY DEF Fewer

(* What is lost leaves less of the same.                                   *)
LEMMA FewerKeeps ==
  ASSUME HoldsInputs, AtMostDepth, Depth \in Nat, held' \in Fewer
  PROVE  HoldsInputs' /\ AtMostDepth'
<1>1. held' \in [Keys -> SUBSET UNION {held[k] : k \in Keys}]
  BY FewerAt
<1>2. \A k \in Keys : held'[k] \subseteq held[k]
  BY FewerAt
<1>3. HoldsInputs'
  <2>1. \A k \in Keys : held'[k] \subseteq Inputs[k]
    BY <1>2 DEF HoldsInputs
  <2> QED
    BY <1>1, <2>1 DEF HoldsInputs
<1>4. ASSUME NEW k \in Keys
      PROVE  IsFiniteSet(held'[k]) /\ Cardinality(held'[k]) <= Depth
  <2>1. IsFiniteSet(held[k]) /\ Cardinality(held[k]) <= Depth
    BY DEF AtMostDepth
  <2>2. /\ IsFiniteSet(held'[k]) /\ Cardinality(held'[k]) <= Cardinality(held[k])
        /\ Cardinality(held'[k]) \in Nat /\ Cardinality(held[k]) \in Nat
    BY <1>2, <2>1, FS_Subset, FS_CardinalityType
  <2> QED
    BY <2>1, <2>2
<1> QED
  BY <1>3, <1>4 DEF AtMostDepth

(* A write fills one place more than it leaves to what was there.          *)
LEMMA SetKeeps ==
  ASSUME HoldsInputs, AtMostDepth, Depth \in Nat, NEW k \in Keys, Set(k)
  PROVE  HoldsInputs' /\ AtMostDepth'
<1>1. PICK e \in Inputs[k], R \in Residues(k) : held' = [held EXCEPT ![k] = R \cup {e}]
  BY DEF Set
<1>2. R \subseteq held[k] /\ Cardinality(R) < Depth
  BY DEF Residues
<1>3. \A j \in Keys : held'[j] = IF j = k THEN R \cup {e} ELSE held[j]
  BY <1>1 DEF HoldsInputs
<1>4. HoldsInputs'
  <2>1. \A j \in Keys : held'[j] \subseteq Inputs[j]
    BY <1>2, <1>3 DEF HoldsInputs
  <2>2. held' = [j \in Keys |-> held'[j]]
    BY <1>1 DEF HoldsInputs
  <2>3. \A j \in Keys : held'[j] \in SUBSET Entries
    BY <2>1 DEF Entries
  <2> QED
    BY <2>1, <2>2, <2>3 DEF HoldsInputs
<1>5. IsFiniteSet(R \cup {e}) /\ Cardinality(R \cup {e}) <= Depth
  <2>1. IsFiniteSet(R) /\ Cardinality(R) \in Nat
    BY <1>2, FS_Subset, FS_CardinalityType DEF AtMostDepth
  <2>2. /\ IsFiniteSet(R \cup {e})
        /\ Cardinality(R \cup {e}) = Cardinality(R) \/ Cardinality(R \cup {e}) = Cardinality(R) + 1
    BY <2>1, FS_AddElement
  <2> QED
    BY <1>2, <2>1, <2>2
<1> QED
  BY <1>3, <1>4, <1>5 DEF AtMostDepth

LEMMA InvInit == Depth \in Nat /\ Init => IInv
<1> SUFFICES ASSUME Depth \in Nat, Init PROVE IInv
  OBVIOUS
<1>1. IsFiniteSet({}) /\ Cardinality({}) = 0
  BY FS_EmptySet
<1> QED
  BY <1>1 DEF Init, IInv, HoldsInputs, AnswersInputs, AtMostDepth

LEMMA InvStep == Depth \in Nat /\ IInv /\ [Next]_vars => IInv'
<1> SUFFICES ASSUME Depth \in Nat, IInv, [Next]_vars PROVE IInv'
  OBVIOUS
<1>1. HoldsInputs /\ AnswersInputs /\ AtMostDepth
  BY DEF IInv
<1>2. ASSUME held' \in Fewer, AnswersInputs' PROVE IInv'
  BY <1>1, <1>2, FewerKeeps DEF IInv
<1>3. ASSUME UNCHANGED answer PROVE AnswersInputs'
  BY <1>1, <1>3 DEF AnswersInputs
<1>4. CASE Lose
  BY <1>2, <1>3, <1>4 DEF Lose
<1>5. ASSUME NEW p \in Procs, Miss(p) PROVE IInv'
  <2>1. AnswersInputs'
    BY <1>1, <1>5 DEF Miss, AnswersInputs
  <2> QED
    BY <1>2, <1>5, <2>1 DEF Miss
<1>6. ASSUME NEW p \in Procs, NEW k \in Keys, Hit(p, k) PROVE IInv'
  <2>1. PICK e \in held[k] : answer' = [answer EXCEPT ![p] = e]
    BY <1>6 DEF Hit
  <2>2. e \in Entries
    BY <1>1 DEF HoldsInputs
  <2>3. AnswersInputs'
    BY <1>1, <2>1, <2>2 DEF AnswersInputs
  <2> QED
    BY <1>2, <1>6, <2>3 DEF Hit
<1>7. ASSUME NEW k \in Keys, Set(k) PROVE IInv'
  BY <1>1, <1>3, <1>7, SetKeeps DEF Set, IInv
<1>8. CASE UNCHANGED <<held, answer>>
  BY <1>1, <1>8 DEF IInv, HoldsInputs, AnswersInputs, AtMostDepth
<1> QED
  BY <1>4, <1>5, <1>6, <1>7, <1>8 DEF Next, Tick, vars

LEMMA Invariance == Depth \in Nat => (Spec => []IInv)
<1> SUFFICES ASSUME Depth \in Nat PROVE Spec => []IInv
  OBVIOUS
<1>1. Init => IInv
  BY InvInit
<1>2. IInv /\ [Next]_vars => IInv'
  BY InvStep
<1> QED
  BY <1>1, <1>2, PTL DEF Spec

(* store.rs:17-37: whatever a store holds or answers was once set, for the *)
(* key it is held at.                                                      *)
THEOREM NothingInvented ==
  Depth \in Nat => (Spec => [](HoldsInputs /\ AnswersInputs))
<1> SUFFICES ASSUME Depth \in Nat PROVE Spec => [](HoldsInputs /\ AnswersInputs)
  OBVIOUS
<1>1. IInv => HoldsInputs /\ AnswersInputs
  BY DEF IInv
<1>2. Spec => []IInv
  BY Invariance
<1> QED
  BY <1>1, <1>2, PTL

(* A key has never more entries than the store has places: a store of one  *)
(* map holds at most the last entry set.                                   *)
THEOREM PlacesBound == Depth \in Nat => (Spec => []AtMostDepth)
<1> SUFFICES ASSUME Depth \in Nat PROVE Spec => []AtMostDepth
  OBVIOUS
<1>1. IInv => AtMostDepth
  BY DEF IInv
<1>2. Spec => []IInv
  BY Invariance
<1> QED
  BY <1>1, <1>2, PTL

-----------------------------------------------------------------------------
(* A store of fewer places does nothing that one of more may not do.       *)
Narrower ==
  /\ Depth \in Nat /\ MoreDepth \in Nat /\ Depth <= MoreDepth
  /\ KeepsExpired \subseteq MoreShown
  /\ \A k \in Keys : Inputs[k] \subseteq MoreInputs[k]

LEMMA WiderResidues ==
  ASSUME Narrower, IInv, NEW k \in Keys, NEW R \in Residues(k)
  PROVE  R \in Wider!Residues(k)
<1>1. R \subseteq held[k] /\ Cardinality(R) < Depth
  BY DEF Residues
<1>2. Cardinality(R) \in Nat
  BY <1>1, FS_Subset, FS_CardinalityType DEF IInv, AtMostDepth
<1>3. Wider!Cardinality(R) = Cardinality(R)
  BY DEF Wider!Cardinality, Cardinality
<1>4. Cardinality(R) < MoreDepth
  BY <1>1, <1>2 DEF Narrower
<1> QED
  BY <1>1, <1>3, <1>4 DEF Wider!Residues

LEMMA WiderFewer == Fewer = Wider!Fewer
BY DEF Fewer, Wider!Fewer

LEMMA WiderStep == Narrower /\ IInv /\ [Next]_vars => [Wider!Next]_(Wider!vars)
<1> SUFFICES ASSUME Narrower, IInv, [Next]_vars PROVE [Wider!Next]_(Wider!vars)
  OBVIOUS
<1>1. CASE Lose
  BY <1>1, WiderFewer DEF Lose, Wider!Lose, Wider!Next
<1>2. ASSUME NEW p \in Procs, Miss(p) PROVE Wider!Next
  BY <1>2, WiderFewer DEF Miss, Wider!Miss, Wider!Next
<1>3. ASSUME NEW p \in Procs, NEW k \in Keys, Hit(p, k) PROVE Wider!Next
  <2>1. Wider!Hit(p, k)
    <3>1. k \in KeepsExpired => k \in MoreShown
      BY DEF Narrower
    <3>2. \A e : Wider!IsExpired(e, now) = IsExpired(e, now)
      BY DEF IsExpired, Wider!IsExpired
    <3> QED
      BY <1>3, <3>1, <3>2, WiderFewer DEF Hit, Wider!Hit
  <2> QED
    BY <2>1 DEF Wider!Next
<1>4. ASSUME NEW k \in Keys, Set(k) PROVE Wider!Next
  <2>1. PICK e \in Inputs[k], R \in Residues(k) : held' = [held EXCEPT ![k] = R \cup {e}]
    BY <1>4 DEF Set
  <2>2. e \in MoreInputs[k] /\ R \in Wider!Residues(k)
    BY WiderResidues DEF Narrower
  <2>3. UNCHANGED <<now, answer>>
    BY <1>4 DEF Set
  <2>4. Wider!Set(k)
    BY <2>1, <2>2, <2>3 DEF Wider!Set
  <2> QED
    BY <2>4 DEF Wider!Next
<1>5. CASE Tick
  BY <1>5 DEF Tick, Wider!Tick, Wider!Next
<1>6. CASE UNCHANGED vars
  BY <1>6 DEF vars, Wider!vars
<1> QED
  BY <1>1, <1>2, <1>3, <1>4, <1>5, <1>6 DEF Next

(* The contract is monotone: what is shown of a cache over a store of many *)
(* places that shows expired entries holds over one map that drops them.   *)
THEOREM NarrowerImplementsWider == Narrower => (Spec => Wider!Spec)
<1> SUFFICES ASSUME Narrower PROVE Spec => Wider!Spec
  OBVIOUS
<1>1. Init => Wider!Init
  BY DEF Init, Wider!Init
<1>2. IInv /\ [Next]_vars => [Wider!Next]_(Wider!vars)
  BY WiderStep
<1>3. Spec => []IInv
  BY Invariance DEF Narrower
<1> QED
  BY <1>1, <1>2, <1>3, PTL DEF Spec, Wider!Spec
=============================================================================
