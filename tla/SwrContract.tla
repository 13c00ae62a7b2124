----------------------------- MODULE SwrContract -----------------------------
(***************************************************************************)
(* What SwrCache promises its clients, with no cache in it: every call     *)
(* answers with data the origin has held.  A call that says it asked the   *)
(* origin answers with data no older than the call itself, or with None    *)
(* because the origin had none; a call answered from the cache, or falling *)
(* back on expired data, always has a value.                               *)
(***************************************************************************)
EXTENDS Integers

CONSTANTS Callers, Keys, None, MaxVersion

VARIABLES
  origin,   \* version of each key's data at the origin
  call      \* per client: its call's stage, key, first version, answer

vars == <<origin, call>>

NoCall == [stage |-> "idle", key |-> None, since |-> 0, got |-> None, source |-> "none"]

Init ==
  /\ origin = [k \in Keys |-> 0]
  /\ call = [c \in Callers |-> NoCall]

OriginUpdate(k) ==
  /\ origin[k] < MaxVersion
  /\ origin' = [origin EXCEPT ![k] = @ + 1]
  /\ UNCHANGED call

Begin(c, k) ==
  /\ call[c].stage # "open"
  /\ call' = [call EXCEPT ![c] = [NoCall EXCEPT
                !.stage = "open", !.key = k, !.since = origin[k]]]
  /\ UNCHANGED origin

(* The answers a call that began at version `since` may be given.          *)
Answers(k, since) ==
  [got : since..origin[k], source : {"origin"}]
    \cup {[got |-> None, source |-> "origin"]}
    \cup [got : 0..origin[k], source : {"cache", "fallback"}]

Reply(c) ==
  /\ call[c].stage = "open"
  /\ \E a \in Answers(call[c].key, call[c].since) :
       call' = [call EXCEPT ![c] = [@ EXCEPT
                  !.stage = "done", !.got = a.got, !.source = a.source]]
  /\ UNCHANGED origin

(* get() looks once; it may find nothing, and it may fail.                 *)
Peeks(k) ==
  [got : 0..origin[k] \cup {None}, source : {"peek"}] \cup {[got |-> None, source |-> "error"]}

Peek(c, k) ==
  /\ call[c].stage # "open"
  /\ \E a \in Peeks(k) :
       call' = [call EXCEPT ![c] =
                  [stage |-> "done", key |-> k, since |-> origin[k],
                   got |-> a.got, source |-> a.source]]
  /\ UNCHANGED origin

(* A client turns to something else, or drops its call.                    *)
Leave(c) ==
  /\ call' = [call EXCEPT ![c] = NoCall]
  /\ UNCHANGED origin

Next ==
  \/ \E k \in Keys : OriginUpdate(k)
  \/ \E c \in Callers : Reply(c) \/ Leave(c)
  \/ \E c \in Callers, k \in Keys : Begin(c, k) \/ Peek(c, k)

Spec == Init /\ [][Next]_vars
==============================================================================
