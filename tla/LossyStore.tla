----------------------------- MODULE LossyStore -----------------------------
(***************************************************************************)
(* What SwrCache may expect of a Store (src/store.rs): a map that may lose *)
(* entries at any time but never invents, revives or mixes them up.  A     *)
(* lookup answers with an entry set for its key and not lost since, or     *)
(* with a miss, and, unless the store keeps expired entries, never with an *)
(* expired one.  A store of one place holds only the last entry set.       *)
(***************************************************************************)
EXTENDS Entry, FiniteSets

CONSTANTS
  Procs, Keys, MaxTime,
  Inputs,        \* Inputs[k]: the entries clients may set at a key
  KeepsExpired,  \* the keys whose expired entries are shown
  Depth          \* places an entry may be at: a store of one map has one,
                 \* tiers and operations under way add theirs

VARIABLES
  now,     \* the clock
  held,    \* per key, the entries some place still has
  answer   \* what each process's last lookup returned

vars == <<now, held, answer>>

Residues(k) == {R \in SUBSET held[k] : Cardinality(R) < Depth}
Fewer == {h \in [Keys -> SUBSET UNION {held[k] : k \in Keys}] :
            \A k \in Keys : h[k] \subseteq held[k]}

Init ==
  /\ now = 0
  /\ held = [k \in Keys |-> {}]
  /\ answer = [p \in Procs |-> NoEntry]

(* The answer may be the last that is left of an entry lost meanwhile.     *)
Hit(p, k) ==
  /\ \E e \in held[k] :
       /\ answer' = [answer EXCEPT ![p] = e]
       /\ k \in KeepsExpired \/ ~IsExpired(e, now)
  /\ held' \in Fewer
  /\ UNCHANGED now

(* A miss, which may be how the store notices that an entry has to go.     *)
Miss(p) ==
  /\ answer' = [answer EXCEPT ![p] = NoEntry]
  /\ held' \in Fewer
  /\ UNCHANGED now

(* A write takes the place of what was there, in one place at least.       *)
Set(k) ==
  /\ UNCHANGED <<now, answer>>
  /\ \E e \in Inputs[k], R \in Residues(k) : held' = [held EXCEPT ![k] = R \cup {e}]

(* remove, and whatever eviction takes away.                               *)
Lose ==
  /\ UNCHANGED <<now, answer>>
  /\ held' \in Fewer

Tick ==
  /\ now' \in Nat /\ now < now' /\ now' <= MaxTime
  /\ UNCHANGED <<held, answer>>

Next ==
  \/ Lose
  \/ \E p \in Procs : Miss(p)
  \/ \E p \in Procs, k \in Keys : Hit(p, k)
  \/ \E k \in Keys : Set(k)
  \/ Tick

Spec == Init /\ [][Next]_vars
=============================================================================
