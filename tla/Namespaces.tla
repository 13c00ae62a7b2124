----------------------------- MODULE Namespaces -----------------------------
(***************************************************************************)
(* The composite keys of src/utils.rs.  A string is the sequence of its    *)
(* colon-separated segments, so that joining two strings with a colon is   *)
(* concatenation: "a:b" is <<"a", "b">>.                                   *)
(***************************************************************************)
EXTENDS Sequences, Integers

CONSTANT Segments  \* the strings without a colon

String == Seq(Segments) \ {<<>>}

(* One of the two begins with the other and a colon.                       *)
Opens(s, t) == Len(s) < Len(t) /\ \A i \in 1..Len(s) : s[i] = t[i]
Nested(s, t) == Opens(s, t) \/ Opens(t, s)

(* Slip: the key alone.                                                    *)
build_cache_key_Bare(namespace, key) == key

build_cache_key(namespace, key) == namespace \o key
=============================================================================
