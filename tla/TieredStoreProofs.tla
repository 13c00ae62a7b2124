-------------------------- MODULE TieredStoreProofs --------------------------
(***************************************************************************)
(* What holds of a tiered store whatever the number of tiers, calls and    *)
(* backfills: its types, and that a key written undisturbed reads the same *)
(* in every tier.                                                          *)
EXTENDS TieredStore, FiniteSetTheorems, TLAPS

LEMMA NewCallType ==
  ASSUME NEW op \in {"idle", "get", "found", "set", "remove"}, NEW K \in SUBSET Keys,
         NEW e \in Entries \cup {NoEntry}, NEW T \in SUBSET Tiers, NEW o \in Kinds
  PROVE  NewCall(op, K, e, T, o) \in Call
BY DepthAssumption DEF NewCall, Call

LEMMA AnsweredType ==
  ASSUME NEW e \in Entries \cup {NoEntry}
  PROVE  /\ Answered(e) \in Call
         /\ Answered(e).op = "idle" /\ Answered(e).entry = e /\ Answered(e).todo = {}
<1>1. Answered(e) \in Call
  BY NewCallType DEF Answered, Kinds
<1> QED
  BY <1>1 DEF Answered, NewCall

LEMMA IdleCallType ==
  /\ IdleCall \in Call
  /\ IdleCall.op = "idle" /\ IdleCall.entry = NoEntry /\ IdleCall.todo = {}
BY AnsweredType DEF IdleCall

(* The gravest of some kinds of writers is above "none" when one of them   *)
(* is, and a backfill or a set when one of them is.                        *)
Grave == {"fill", "set"}

LEMMA GravestIs ==
  ASSUME NEW S
  PROVE  /\ Gravest(S) \in Kinds
         /\ Gravest(S) = "none" => S \cap {"remove", "read", "fill", "set"} = {}
         /\ Gravest(S) \notin Grave => S \cap Grave = {}
BY DEF Gravest, Kinds, Grave

(* Only its ghost changes in a call that another writer overlaps.          *)
LEMMA OverlappedCalls ==
  ASSUME TypeOK, NEW kind \in {"remove", "read", "fill", "set"}, NEW K \in SUBSET Keys
  PROVE  /\ Overlapped(kind, K) \in [Callers -> Call]
         /\ \A d \in Callers :
              LET o == Overlapped(kind, K)[d] IN
              /\ o.op = call[d].op /\ o.keys = call[d].keys /\ o.entry = call[d].entry
              /\ o.next = call[d].next /\ o.todo = call[d].todo
              /\ o.failed = call[d].failed
              /\ o.overlap = "none" =>
                   /\ call[d].overlap = "none"
                   /\ Writer(d) => call[d].keys \cap K = {}
              /\ o.overlap \notin Grave =>
                   /\ call[d].overlap \notin Grave
                   /\ kind \in Grave /\ Writer(d) => call[d].keys \cap K = {}
<1> DEFINE o(d) == Overlapped(kind, K)[d]
<1> SUFFICES ASSUME NEW d \in Callers
             PROVE  /\ o(d) \in Call
                    /\ o(d).op = call[d].op /\ o(d).keys = call[d].keys
                    /\ o(d).entry = call[d].entry /\ o(d).next = call[d].next
                    /\ o(d).todo = call[d].todo /\ o(d).failed = call[d].failed
                    /\ o(d).overlap = "none" =>
                         /\ call[d].overlap = "none"
                         /\ Writer(d) => call[d].keys \cap K = {}
                    /\ o(d).overlap \notin Grave =>
                         /\ call[d].overlap \notin Grave
                         /\ kind \in Grave /\ Writer(d) => call[d].keys \cap K = {}
  BY DEF Overlapped
<1>1. call[d] \in Call /\ call[d].overlap \in Kinds
  BY DEF TypeOK, Call
<1>2. CASE d \in WritersOf(K)
  <2> DEFINE g == Gravest({call[d].overlap, kind})
  <2>1. o(d) = [call[d] EXCEPT !.overlap = g]
    BY <1>1, <1>2 DEF Overlapped, Call
  <2>2. /\ g \in Kinds /\ g # "none"
        /\ g \notin Grave => call[d].overlap \notin Grave /\ kind \notin Grave
    BY <1>1, GravestIs DEF Kinds
  <2> HIDE DEF g, o
  <2> QED
    BY <1>1, <2>1, <2>2 DEF Call
<1>3. CASE d \notin WritersOf(K)
  BY <1>1, <1>3 DEF Overlapped, WritersOf
<1> QED
  BY <1>2, <1>3

LEMMA InitTypeOK == Init => TypeOK
<1> SUFFICES ASSUME Init PROVE TypeOK
  OBVIOUS
<1>1. IdleFill \in Fill
  BY DepthAssumption DEF IdleFill, Fill
<1>2. \A c \in Callers : call[c].op = "idle"
  BY IdleCallType DEF Init
<1>3. \A f \in Fills : fill[f].keys = {}
  BY DEF Init, IdleFill
<1> QED
  BY <1>1, <1>2, <1>3, IdleCallType DEF Init, TypeOK, At

(* Nothing runs and every key is settled at the start.                     *)
LEMMA InitIInv == Init => IInv
<1> SUFFICES ASSUME Init PROVE IInv
  OBVIOUS
<1>1. \A c \in Callers : ~Writer(c) /\ ~At(c, "found")
  BY IdleCallType DEF Init, Writer, At
<1>2. \A f \in Fills : fill[f].keys = {}
  BY DEF Init, IdleFill
<1>3. SettledTiersAgree
  BY DEF Init, SettledTiersAgree
<1>4. Quiet
  BY <1>1, <1>2 DEF Quiet
<1>5. Alone /\ Emptied
  BY <1>1 DEF Alone, Emptied, Writer
<1> QED
  BY <1>3, <1>4, <1>5, InitTypeOK DEF IInv

-----------------------------------------------------------------------------
(* A step of a get, or one that ends a call, moves nothing but that call.  *)
LEMMA ReaderKeeps ==
  ASSUME IInv, NEW c \in Callers, NEW r \in Call,
         r.op \in {"idle", "get"}, r.op = "get" => r.next \in Tiers,
         call' = [call EXCEPT ![c] = r], UNCHANGED <<tier, fill, settled>>
  PROVE  IInv'
<1>1. /\ call'[c] = r
      /\ \A d \in Callers : d # c => call'[d] = call[d]
  BY DEF IInv, TypeOK
<1>2. TypeOK'
  BY <1>1 DEF IInv, TypeOK, At
<1>3. \A d \in Callers : /\ Writer(d)' => d # c /\ Writer(d)
                         /\ At(d, "found")' => d # c /\ At(d, "found")
  BY <1>1 DEF Writer, At
<1>4. SettledTiersAgree'
  BY DEF IInv, SettledTiersAgree
<1>5. Quiet'
  BY <1>1, <1>3 DEF IInv, Quiet
<1>6. Alone'
  BY <1>1, <1>3 DEF IInv, Alone, MayBeLost
<1>7. Emptied'
  BY <1>1, <1>3 DEF IInv, Emptied, Emptying, Gone, Writer, At
<1> QED
  BY <1>2, <1>4, <1>5, <1>6, <1>7 DEF IInv

LEMMA GetKeeps ==
  ASSUME IInv, NEW c \in Callers, NEW k \in Keys, Get(c, k)
  PROVE  IInv'
<1> DEFINE r == NewCall("get", {k}, NoEntry, {}, "none")
<1>1. r \in Call
  BY NewCallType DEF Kinds
<1>2. r.op = "get" /\ r.next \in Tiers
  BY DepthAssumption DEF Get, NewCall, Tiers
<1>3. call' = [call EXCEPT ![c] = r] /\ UNCHANGED <<tier, fill, settled>>
  BY DEF Get
<1> HIDE DEF r
<1> QED
  BY <1>1, <1>2, <1>3, ReaderKeeps

LEMMA EndKeeps ==
  ASSUME IInv, NEW c \in Callers, NEW e \in Entries \cup {NoEntry},
         call' = [call EXCEPT ![c] = Answered(e)], UNCHANGED <<tier, fill, settled>>
  PROVE  IInv'
BY AnsweredType, ReaderKeeps

LEMMA IdleKeeps ==
  ASSUME IInv, NEW c \in Callers,
         call' = [call EXCEPT ![c] = IdleCall], UNCHANGED <<tier, fill, settled>>
  PROVE  IInv'
BY EndKeeps DEF IdleCall

LEMMA TierMissesKeeps ==
  ASSUME IInv, NEW c \in Callers, NEW k \in Keys, TierMisses(c, k)
  PROVE  IInv'
<1>1. CASE call[c].next = Depth
  BY <1>1, IdleKeeps DEF TierMisses
<1>2. CASE call[c].next # Depth
  <2> DEFINE r == Onward(call[c])
  <2>1. call[c] \in Call /\ call[c].op = "get" /\ call[c].next \in 1..Depth
    BY DEF IInv, TypeOK, TierMisses, Asking, At, Tiers
  <2>2. call[c].next + 1 \in 1..Depth
    BY <1>2, <2>1, DepthAssumption
  <2>3. r \in Call /\ r.op = "get" /\ r.next \in Tiers
    BY <2>1, <2>2, DepthAssumption DEF Call, Tiers, Onward
  <2>4. call' = [call EXCEPT ![c] = r] /\ UNCHANGED <<tier, fill, settled>>
    BY <1>2 DEF TierMisses
  <2> HIDE DEF r
  <2> QED
    BY <2>3, <2>4, ReaderKeeps
<1> QED
  BY <1>1, <1>2

(* What a get finds is an entry.                                           *)
LEMMA Found ==
  ASSUME IInv, NEW c \in Callers, NEW k \in Keys, Asking(c, k),
         tier[call[c].next][k] # NoEntry
  PROVE  call[c].next \in Tiers /\ tier[call[c].next][k] \in Entries
<1>1. call[c].next \in Tiers
  BY DEF IInv, TypeOK, Asking, At
<1>2. tier[call[c].next] \in [Keys -> Entries \cup {NoEntry}]
  BY <1>1 DEF IInv, TypeOK
<1> QED
  BY <1>1, <1>2

LEMMA TopTierHitsKeeps ==
  ASSUME IInv, NEW c \in Callers, NEW k \in Keys, TopTierHits(c, k)
  PROVE  IInv'
<1>1. tier[1][k] \in Entries
  BY Found DEF TopTierHits
<1> QED
  BY <1>1, EndKeeps DEF TopTierHits

(* What another writer's overlap leaves of the calls, for one key.         *)
LEMMA OverlappedAt ==
  ASSUME TypeOK, NEW kind \in {"read", "fill"}, NEW k \in Keys
  PROVE  /\ Overlapped(kind, {k}) \in [Callers -> Call]
         /\ \A d \in Callers :
              LET o == Overlapped(kind, {k})[d] IN
              /\ o.op = call[d].op /\ o.keys = call[d].keys /\ o.entry = call[d].entry
              /\ o.next = call[d].next /\ o.todo = call[d].todo /\ o.failed = call[d].failed
              /\ o.overlap = "none" =>
                   call[d].overlap = "none" /\ (Writer(d) => k \notin call[d].keys)
              /\ o.overlap \notin Grave =>
                   /\ call[d].overlap \notin Grave
                   /\ kind = "fill" /\ Writer(d) => k \notin call[d].keys
BY OverlappedCalls DEF Grave

(* A hit below the top reads what a settled key holds, and takes its       *)
(* solitude from every writer of the key.                                  *)
LEMMA LowerTierHitsKeeps ==
  ASSUME IInv, NEW c \in Callers, NEW k \in Keys, LowerTierHits(c, k)
  PROVE  IInv'
<1> DEFINE O == Overlapped("read", {k})
           e == tier[call[c].next][k]
           r == [O[c] EXCEPT !.op = "found", !.entry = e]
<1>1. /\ call[c].next \in Tiers /\ e \in Entries /\ call[c].keys = {k}
      /\ call[c].next > 1 /\ UNCHANGED <<tier, fill, settled>>
  BY Found DEF LowerTierHits, Asking
<1>2. /\ O \in [Callers -> Call]
      /\ \A d \in Callers :
           /\ O[d].op = call[d].op /\ O[d].keys = call[d].keys /\ O[d].entry = call[d].entry
           /\ O[d].next = call[d].next /\ O[d].todo = call[d].todo
           /\ O[d].failed = call[d].failed
           /\ O[d].overlap = "none" =>
                call[d].overlap = "none" /\ (Writer(d) => k \notin call[d].keys)
           /\ O[d].overlap \notin Grave => call[d].overlap \notin Grave
  BY OverlappedAt DEF IInv
<1>3. call' = [O EXCEPT ![c] = r]
  BY <1>2 DEF LowerTierHits
<1> HIDE DEF O, e
<1>4. /\ r \in Call /\ r.op = "found" /\ r.entry = e
      /\ r.keys = {k} /\ r.next = call[c].next
  <2>1. O[c] \in Call /\ O[c].keys = {k} /\ O[c].next = call[c].next
    BY <1>1, <1>2
  <2> QED
    BY <1>1, <2>1 DEF Call
<1> HIDE DEF r
<1>5. /\ call' \in [Callers -> Call] /\ call'[c] = r
      /\ \A d \in Callers : d # c => call'[d] = O[d]
  BY <1>2, <1>3, <1>4
<1>6. \A d \in Callers : /\ Writer(d)' => d # c /\ Writer(d)
                         /\ At(d, "set")' => d # c /\ At(d, "set")
                         /\ At(d, "remove")' => d # c /\ At(d, "remove")
                         /\ At(d, "found")' => d = c \/ At(d, "found")
  BY <1>2, <1>4, <1>5 DEF Writer, At
<1>7. TypeOK'
  <2>1. \A d \in Callers :
          /\ At(d, "get")' => call'[d].next \in Tiers
          /\ At(d, "found")' => call'[d].next \in 2..Depth /\ call'[d].entry \in Entries
    <3>1. call[c].next \in 2..Depth
      BY <1>1, DepthAssumption DEF Tiers
    <3> QED
      BY <1>1, <1>2, <1>4, <1>5, <3>1 DEF IInv, TypeOK, At
  <2>2. \A g \in Fills :
          fill'[g].keys # {} =>
            fill'[g].entry \in Entries /\ fill'[g].hit \in Tiers /\ fill'[g].next < fill'[g].hit
    BY <1>1 DEF IInv, TypeOK
  <2> QED
    BY <1>1, <1>5, <2>1, <2>2 DEF IInv, TypeOK
<1>8. SettledTiersAgree'
  BY <1>1 DEF IInv, SettledTiersAgree
<1>9. settled[k] # Unsettled => e = settled[k]
  BY <1>1 DEF IInv, SettledTiersAgree, MayBeLost, e, LowerTierHits
<1>10. Quiet'
  <2> SUFFICES ASSUME NEW j \in Keys, settled[j] # Unsettled
               PROVE  /\ \A d \in Callers : Writer(d)' => j \notin call'[d].keys
                      /\ \A d \in Callers :
                           At(d, "found")' /\ j \in call'[d].keys => call'[d].entry = settled[j]
                      /\ \A g \in Fills : j \in fill'[g].keys => fill'[g].entry = settled[j]
    BY <1>1 DEF Quiet
  <2>1. \A d \in Callers : Writer(d)' => j \notin call'[d].keys
    BY <1>2, <1>5, <1>6 DEF IInv, Quiet
  <2>2. \A d \in Callers :
          At(d, "found")' /\ j \in call'[d].keys => call'[d].entry = settled[j]
    BY <1>2, <1>4, <1>5, <1>6, <1>9 DEF IInv, Quiet
  <2> QED
    BY <1>1, <2>1, <2>2 DEF IInv, Quiet
<1>11. Alone'
  <2> SUFFICES ASSUME NEW d \in Callers, Writer(d)', call'[d].overlap = "none",
                      NEW j \in call'[d].keys
               PROVE  /\ \A x \in Callers : Writer(x)' /\ j \in call'[x].keys => x = d
                      /\ \A x \in Callers : At(x, "found")' => j \notin call'[x].keys
                      /\ \A g \in Fills : j \notin fill[g].keys
                      /\ ~call'[d].failed =>
                           \A i \in Tiers \ call'[d].todo :
                             tier[i][j] \in {call'[d].entry} \cup MayBeLost
    BY <1>1 DEF Alone, MayBeLost
  <2>1. /\ d # c /\ Writer(d) /\ call[d].overlap = "none" /\ j \in call[d].keys /\ j # k
        /\ call'[d].failed = call[d].failed /\ call'[d].todo = call[d].todo
        /\ call'[d].entry = call[d].entry
    BY <1>2, <1>5, <1>6
  <2>2. \A x \in Callers : Writer(x)' /\ j \in call'[x].keys => x = d
    BY <1>2, <1>5, <1>6, <2>1 DEF IInv, Alone
  <2>3. \A x \in Callers : At(x, "found")' => j \notin call'[x].keys
    BY <1>2, <1>4, <1>5, <1>6, <2>1 DEF IInv, Alone
  <2> QED
    BY <2>1, <2>2, <2>3 DEF IInv, Alone
<1>12. Emptied'
  <2> SUFFICES ASSUME NEW d \in Callers, At(d, "remove")', At(d, "remove")
               PROVE  Emptying(d)'
    BY <1>6 DEF Emptied
  <2>1. /\ Emptying(d) /\ d # c
        /\ call'[d].entry = call[d].entry /\ call'[d].keys = call[d].keys
        /\ call'[d].failed = call[d].failed /\ call'[d].todo = call[d].todo
        /\ call'[d].overlap \notin Grave => call[d].overlap \notin Grave
    BY <1>2, <1>5, <1>6 DEF IInv, Emptied
  <2>2. ASSUME call'[d].overlap \notin Grave, NEW j \in call[d].keys
        PROVE  Gone(d, j)'
    <3>1. Gone(d, j)
      BY <2>1, <2>2 DEF Emptying, Grave
    <3>2. \A x \in Callers : At(x, "set")' => j \notin call'[x].keys
      BY <1>2, <1>5, <1>6, <3>1 DEF Gone
    <3> QED
      BY <1>1, <2>1, <3>1, <3>2 DEF Gone
  <2> QED
    BY <2>1, <2>2 DEF Emptying, Grave
<1> QED
  BY <1>7, <1>8, <1>10, <1>11, <1>12 DEF IInv

(* A backfill sets out with what a settled key holds, and no writer of the *)
(* key has it to itself any more.                                          *)
LEMMA BackfillKeeps ==
  ASSUME IInv, NEW c \in Callers, NEW k \in Keys, NEW f \in Fills, Backfill(c, k, f)
  PROVE  IInv'
<1> DEFINE O == Overlapped("fill", {k})
           e == call[c].entry
<1>1. /\ call[c].next \in 2..Depth /\ call[c].next \in Tiers /\ e \in Entries
      /\ At(c, "found") /\ call[c].keys = {k}
  BY DepthAssumption DEF Backfill, IInv, TypeOK, Tiers
<1>2. /\ O \in [Callers -> Call]
      /\ \A d \in Callers :
           /\ O[d].op = call[d].op /\ O[d].keys = call[d].keys /\ O[d].entry = call[d].entry
           /\ O[d].next = call[d].next /\ O[d].todo = call[d].todo
           /\ O[d].failed = call[d].failed
           /\ O[d].overlap = "none" =>
                call[d].overlap = "none" /\ (Writer(d) => k \notin call[d].keys)
           /\ O[d].overlap \notin Grave =>
                call[d].overlap \notin Grave /\ (Writer(d) => k \notin call[d].keys)
  BY OverlappedAt DEF IInv
<1>3. call' = [O EXCEPT ![c] = Answered(e)] /\ UNCHANGED <<tier, settled>>
  BY DEF Backfill
<1>4. /\ fill'[f].keys = {k} /\ fill'[f].entry = e
      /\ fill'[f].hit = call[c].next /\ fill'[f].next = 1
      /\ \A g \in Fills : g # f => fill'[g] = fill[g]
      /\ fill' \in [Fills -> Fill]
  BY <1>1, DepthAssumption DEF Backfill, IInv, TypeOK, Fill, Tiers
<1> HIDE DEF O, e
<1>5. /\ call' \in [Callers -> Call] /\ call'[c].op = "idle"
      /\ \A d \in Callers : d # c => call'[d] = O[d]
  BY <1>1, <1>2, <1>3, AnsweredType
<1>6. \A d \in Callers : /\ Writer(d)' => d # c /\ Writer(d)
                         /\ At(d, "found")' => d # c /\ At(d, "found")
  BY <1>2, <1>5 DEF Writer, At
<1>7. TypeOK'
  <2>1. \A d \in Callers :
          /\ At(d, "get")' => call'[d].next \in Tiers
          /\ At(d, "found")' => call'[d].next \in 2..Depth /\ call'[d].entry \in Entries
    BY <1>2, <1>5 DEF IInv, TypeOK, At
  <2>2. \A g \in Fills :
          fill'[g].keys # {} =>
            fill'[g].entry \in Entries /\ fill'[g].hit \in Tiers /\ fill'[g].next < fill'[g].hit
    <3>1. 1 < call[c].next
      BY <1>1, DepthAssumption
    <3> QED
      BY <1>1, <1>4, <3>1 DEF IInv, TypeOK
  <2> QED
    BY <1>3, <1>4, <1>5, <2>1, <2>2 DEF IInv, TypeOK
<1>8. SettledTiersAgree'
  BY <1>3 DEF IInv, SettledTiersAgree
<1>9. settled[k] # Unsettled => e = settled[k]
  BY <1>1 DEF IInv, Quiet, e
<1>10. Quiet'
  <2> SUFFICES ASSUME NEW j \in Keys, settled[j] # Unsettled
               PROVE  /\ \A d \in Callers : Writer(d)' => j \notin call'[d].keys
                      /\ \A d \in Callers :
                           At(d, "found")' /\ j \in call'[d].keys => call'[d].entry = settled[j]
                      /\ \A g \in Fills : j \in fill'[g].keys => fill'[g].entry = settled[j]
    BY <1>3 DEF Quiet
  <2>1. \A d \in Callers : Writer(d)' => j \notin call'[d].keys
    BY <1>2, <1>5, <1>6 DEF IInv, Quiet
  <2>2. \A g \in Fills : j \in fill'[g].keys => fill'[g].entry = settled[j]
    BY <1>4, <1>9 DEF IInv, Quiet
  <2>3. \A d \in Callers :
          At(d, "found")' /\ j \in call'[d].keys => call'[d].entry = settled[j]
    BY <1>2, <1>5, <1>6 DEF IInv, Quiet
  <2> QED
    BY <2>1, <2>2, <2>3
<1>11. Alone'
  <2> SUFFICES ASSUME NEW d \in Callers, Writer(d)', call'[d].overlap = "none",
                      NEW j \in call'[d].keys
               PROVE  /\ \A x \in Callers : Writer(x)' /\ j \in call'[x].keys => x = d
                      /\ \A x \in Callers : At(x, "found")' => j \notin call'[x].keys
                      /\ \A g \in Fills : j \notin fill'[g].keys
                      /\ ~call'[d].failed =>
                           \A i \in Tiers \ call'[d].todo :
                             tier[i][j] \in {call'[d].entry} \cup MayBeLost
    BY <1>3 DEF Alone, MayBeLost
  <2>1. /\ d # c /\ Writer(d) /\ call[d].overlap = "none" /\ j \in call[d].keys /\ j # k
        /\ call'[d].failed = call[d].failed /\ call'[d].todo = call[d].todo
        /\ call'[d].entry = call[d].entry
    BY <1>2, <1>5, <1>6
  <2>2. \A x \in Callers : Writer(x)' /\ j \in call'[x].keys => x = d
    BY <1>2, <1>5, <1>6, <2>1 DEF IInv, Alone
  <2>3. \A g \in Fills : j \notin fill'[g].keys
    BY <1>4, <2>1 DEF IInv, Alone
  <2>4. \A x \in Callers : At(x, "found")' => j \notin call'[x].keys
    BY <1>2, <1>5, <1>6, <2>1 DEF IInv, Alone
  <2> QED
    BY <2>1, <2>2, <2>3, <2>4 DEF IInv, Alone
<1>12. Emptied'
  <2> SUFFICES ASSUME NEW d \in Callers, At(d, "remove")'
               PROVE  Emptying(d)'
    BY DEF Emptied
  <2>1. /\ d # c /\ At(d, "remove") /\ Writer(d) /\ Emptying(d)
        /\ call'[d].entry = call[d].entry /\ call'[d].keys = call[d].keys
        /\ call'[d].failed = call[d].failed /\ call'[d].todo = call[d].todo
    BY <1>2, <1>5 DEF IInv, Emptied, Writer, At
  <2>2. ASSUME call'[d].overlap \notin Grave, NEW j \in call[d].keys
        PROVE  Gone(d, j)'
    <3>1. j # k /\ Gone(d, j)
      BY <1>2, <1>5, <2>1, <2>2 DEF Emptying, Grave
    <3>2. \A x \in Callers : At(x, "set")' => j \notin call'[x].keys
      BY <1>2, <1>5, <3>1 DEF Gone, At
    <3>3. \A g \in Fills : j \notin fill'[g].keys
      BY <1>4, <3>1 DEF Gone
    <3> QED
      BY <1>3, <2>1, <3>1, <3>2, <3>3 DEF Gone
  <2> QED
    BY <2>1, <2>2 DEF Emptying, Grave
<1> QED
  BY <1>7, <1>8, <1>10, <1>11, <1>12 DEF IInv

(* A backfill writes what a settled key already holds, and no writer that  *)
(* has its keys to itself shares one with a backfill.                      *)
LEMMA FillTierKeeps ==
  ASSUME IInv, NEW f \in Fills, NEW k \in Keys, FillTier(f, k)
  PROVE  IInv'
<1> DEFINE e == fill[f].entry
           m == fill[f].next
<1>1. /\ fill[f] \in Fill /\ fill[f].keys = {k} /\ e \in Entries
      /\ m \in 1..Depth /\ fill[f].hit \in 1..Depth /\ m < fill[f].hit
  <2>1. fill[f] \in Fill /\ fill[f].keys = {k}
    BY DEF IInv, TypeOK, FillTier
  <2>2. e \in Entries /\ fill[f].hit \in 1..Depth /\ m < fill[f].hit
    BY <2>1 DEF IInv, TypeOK, Tiers
  <2>3. m \in 1..(Depth + 1)
    BY <2>1 DEF Fill
  <2> QED
    BY <2>1, <2>2, <2>3, DepthAssumption
<1>2. /\ tier' \in [Tiers -> [Keys -> Entries \cup {NoEntry}]]
      /\ \A i \in Tiers, j \in Keys : tier'[i][j] = tier[i][j] \/ (j = k /\ tier'[i][j] = e)
  <2>1. CASE tier' = [tier EXCEPT ![m][k] = e]
    BY <1>1, <2>1 DEF IInv, TypeOK
  <2>2. CASE tier' = tier
    BY <2>2 DEF IInv, TypeOK
  <2> QED
    BY <2>1, <2>2 DEF FillTier
<1>3. /\ fill' \in [Fills -> Fill]
      /\ \A g \in Fills : g # f => fill'[g] = fill[g]
      /\ \/ fill'[f].keys = {}
         \/ /\ fill'[f].keys = {k} /\ fill'[f].entry = e
            /\ fill'[f].hit = fill[f].hit /\ fill'[f].next < fill'[f].hit
  <2>1. CASE m + 1 = fill[f].hit
    <3>1. fill' = [fill EXCEPT ![f] = IdleFill]
      BY <2>1 DEF FillTier
    <3>2. IdleFill \in Fill /\ IdleFill.keys = {}
      BY DepthAssumption DEF IdleFill, Fill
    <3> QED
      BY <3>1, <3>2 DEF IInv, TypeOK
  <2>2. CASE m + 1 # fill[f].hit
    <3> DEFINE r == Onward(fill[f])
    <3>1. fill' = [fill EXCEPT ![f] = r]
      BY <2>2 DEF FillTier
    <3>2. /\ r \in Fill /\ r.keys = {k} /\ r.entry = e /\ r.hit = fill[f].hit
          /\ r.next = m + 1
      BY <1>1, DepthAssumption DEF Onward, Fill
    <3>3. m + 1 < fill[f].hit
      BY <1>1, <2>2, DepthAssumption
    <3> HIDE DEF r
    <3> QED
      BY <3>1, <3>2, <3>3 DEF IInv, TypeOK
  <2> QED
    BY <2>1, <2>2
<1> UNCHANGED <<call, settled>>
  BY DEF FillTier
<1> HIDE DEF e, m
<1>4. settled[k] # Unsettled => e = settled[k]
  BY <1>1 DEF IInv, Quiet, e
<1>5. TypeOK'
  BY <1>1, <1>2, <1>3 DEF IInv, TypeOK, At, Tiers
<1>6. SettledTiersAgree'
  BY <1>2, <1>4 DEF IInv, SettledTiersAgree, MayBeLost
<1>7. Quiet'
  BY <1>3, <1>4 DEF IInv, Quiet, Writer, At
<1>8. Alone'
  <2> SUFFICES ASSUME NEW c \in Callers, Writer(c), call[c].overlap = "none",
                      NEW j \in call[c].keys
               PROVE  /\ \A d \in Callers : Writer(d) /\ j \in call[d].keys => d = c
                      /\ \A g \in Fills : j \notin fill'[g].keys
                      /\ ~call[c].failed =>
                           \A i \in Tiers \ call[c].todo :
                             tier'[i][j] \in {call[c].entry} \cup MayBeLost
    <3>1. \A c \in Callers : Writer(c) /\ call[c].overlap = "none" =>
            \A j \in call[c].keys, d \in Callers : At(d, "found") => j \notin call[d].keys
      BY DEF IInv, Alone
    <3> QED
      BY <3>1 DEF Alone, Writer, At, MayBeLost
  <2>1. j # k /\ j \in Keys
    BY <1>1 DEF IInv, Alone, TypeOK, Call
  <2>2. \A g \in Fills : j \notin fill'[g].keys
    BY <1>3, <2>1 DEF IInv, Alone
  <2>3. \A i \in Tiers : tier'[i][j] = tier[i][j]
    BY <1>2, <2>1
  <2> QED
    BY <2>2, <2>3 DEF IInv, Alone
<1>9. Emptied'
  <2> SUFFICES ASSUME NEW c \in Callers, At(c, "remove"), Emptying(c),
                      call[c].overlap \notin {"fill", "set"}, NEW j \in call[c].keys
               PROVE  Gone(c, j)'
    BY DEF IInv, Emptied, Emptying, At
  <2>1. j \in Keys /\ Gone(c, j)
    BY DEF IInv, TypeOK, Call, Emptying
  <2>2. j # k
    BY <1>1, <2>1 DEF Gone
  <2>3. \A i \in Tiers : tier'[i][j] = tier[i][j]
    BY <1>2, <2>1, <2>2
  <2>4. \A g \in Fills : j \notin fill'[g].keys
    BY <1>3, <2>1, <2>2 DEF Gone
  <2> QED
    BY <2>1, <2>3, <2>4 DEF Gone, At
<1> QED
  BY <1>5, <1>6, <1>7, <1>8, <1>9 DEF IInv

-----------------------------------------------------------------------------
(* A set or remove unsettles its keys and notes whom it overlaps.          *)
LEMMA BeginKeeps ==
  ASSUME IInv, NEW c \in Callers, NEW op \in {"set", "remove"}, NEW K \in SUBSET Keys,
         NEW e \in Entries \cup {NoEntry}, op = "remove" => e = NoEntry, Begin(c, op, K, e)
  PROVE  IInv'
<1> DEFINE O == Overlapped(op, K)
           V == Gravest(Others(K))
           r == NewCall(op, K, e, Tiers, V)
<1>1. V \in Kinds
  BY GravestIs
<1>2. V = "none" => /\ \A d \in Callers : Writer(d) => call[d].keys \cap K = {}
                    /\ \A d \in Callers : At(d, "found") => call[d].keys \cap K = {}
                    /\ \A f \in Fills : fill[f].keys \cap K = {}
  <2>1. V = "none" => WritersOf(K) = {} /\ FillsOf(K) = {} /\ ReadersOf(K) = {}
    <3>1. V = "none" => Others(K) \cap {"remove", "read", "fill", "set"} = {}
      BY GravestIs
    <3>2. \A d \in WritersOf(K) : call[d].op \in Others(K) \cap {"remove", "set"}
      BY DEF Others, WritersOf, Writer, At
    <3>3. \A f \in FillsOf(K) : "fill" \in Others(K)
      BY DEF Others
    <3>4. \A d \in ReadersOf(K) : "read" \in Others(K)
      BY DEF Others
    <3> QED
      BY <3>1, <3>2, <3>3, <3>4
  <2> QED
    BY <2>1 DEF WritersOf, FillsOf, ReadersOf
<1>20. V \notin Grave =>
         /\ \A d \in Callers : At(d, "set") => call[d].keys \cap K = {}
         /\ \A f \in Fills : fill[f].keys \cap K = {}
  <2>1. V \notin Grave => (\A d \in WritersOf(K) : ~At(d, "set")) /\ FillsOf(K) = {}
    BY GravestIs DEF Others, At, Grave
  <2> QED
    BY <2>1 DEF WritersOf, FillsOf, Writer
<1>3. /\ call' = [O EXCEPT ![c] = r] /\ UNCHANGED <<tier, fill>>
      /\ settled' = [k \in Keys |-> IF k \in K THEN Unsettled ELSE settled[k]]
      /\ ~Writer(c)
  BY IdleCallType DEF Begin, At, Writer
<1> HIDE DEF V
<1>4. /\ r \in Call /\ r.op = op /\ r.keys = K /\ r.entry = e
      /\ r.todo = Tiers /\ r.overlap = V
  BY <1>1, NewCallType DEF NewCall
<1>5. /\ O \in [Callers -> Call]
      /\ \A d \in Callers :
           /\ O[d].op = call[d].op /\ O[d].keys = call[d].keys /\ O[d].entry = call[d].entry
           /\ O[d].next = call[d].next /\ O[d].todo = call[d].todo
           /\ O[d].failed = call[d].failed
           /\ O[d].overlap = "none" =>
                call[d].overlap = "none" /\ (Writer(d) => call[d].keys \cap K = {})
           /\ O[d].overlap \notin Grave =>
                /\ call[d].overlap \notin Grave
                /\ op = "set" /\ Writer(d) => call[d].keys \cap K = {}
  BY OverlappedCalls DEF IInv, Grave
<1> HIDE DEF O, r
<1>6. /\ call' \in [Callers -> Call] /\ call'[c] = r
      /\ \A d \in Callers : d # c => call'[d] = O[d]
  BY <1>3, <1>4, <1>5
<1>7. \A d \in Callers : /\ Writer(d)' <=> d = c \/ Writer(d)
                         /\ At(d, "found")' => d # c /\ At(d, "found")
  BY <1>4, <1>5, <1>6 DEF Writer, At
<1>8. TypeOK'
  BY <1>3, <1>4, <1>5, <1>6 DEF IInv, TypeOK, At
<1>9. SettledTiersAgree'
  BY <1>3 DEF IInv, SettledTiersAgree
<1>10. Quiet'
  <2> SUFFICES ASSUME NEW k \in Keys, settled'[k] # Unsettled
               PROVE  /\ \A d \in Callers : Writer(d)' => k \notin call'[d].keys
                      /\ \A d \in Callers : At(d, "found")' /\ k \in call'[d].keys
                                              => call'[d].entry = settled'[k]
                      /\ \A f \in Fills : k \in fill[f].keys => fill[f].entry = settled'[k]
    BY <1>3 DEF Quiet
  <2>1. k \notin K /\ settled'[k] = settled[k]
    BY <1>3
  <2> QED
    BY <1>3, <1>4, <1>5, <1>6, <1>7, <2>1 DEF IInv, Quiet
<1>11. Alone'
  <2> SUFFICES ASSUME NEW d \in Callers, Writer(d)', call'[d].overlap = "none",
                      NEW k \in call'[d].keys
               PROVE  /\ \A x \in Callers : Writer(x)' /\ k \in call'[x].keys => x = d
                      /\ \A x \in Callers : At(x, "found")' => k \notin call'[x].keys
                      /\ \A f \in Fills : k \notin fill[f].keys
                      /\ ~call'[d].failed =>
                           \A i \in Tiers \ call'[d].todo :
                             tier[i][k] \in {call'[d].entry} \cup MayBeLost
    BY <1>3 DEF Alone, MayBeLost
  <2>1. CASE d = c
    BY <1>2, <1>4, <1>5, <1>6, <1>7, <2>1
  <2>2. CASE d # c
    <3>1. /\ Writer(d) /\ call[d].overlap = "none" /\ k \in call[d].keys /\ k \notin K
          /\ call'[d].failed = call[d].failed /\ call'[d].todo = call[d].todo
          /\ call'[d].entry = call[d].entry
      BY <1>5, <1>6, <1>7, <2>2
    <3>2. \A x \in Callers : Writer(x)' /\ k \in call'[x].keys => x = d
      BY <1>4, <1>5, <1>6, <1>7, <3>1 DEF IInv, Alone
    <3>3. \A x \in Callers : At(x, "found")' => k \notin call'[x].keys
      BY <1>5, <1>6, <1>7, <3>1 DEF IInv, Alone
    <3> QED
      BY <3>1, <3>2, <3>3 DEF IInv, Alone
  <2> QED
    BY <2>1, <2>2
<1>12. Emptied'
  <2> SUFFICES ASSUME NEW d \in Callers, At(d, "remove")' PROVE Emptying(d)'
    BY DEF Emptied
  <2>1. CASE d = c
    <3>1. call'[c].entry = NoEntry /\ op = "remove"
      BY <1>4, <1>6, <2>1 DEF At
    <3>2. ASSUME NEW k \in K, V \notin Grave PROVE Gone(c, k)'
      <4>1. \A x \in Callers : At(x, "set")' => k \notin call'[x].keys
        BY <1>4, <1>5, <1>6, <1>20, <3>1, <3>2 DEF At
      <4>2. \A f \in Fills : k \notin fill[f].keys
        BY <1>20, <3>2
      <4>3. Tiers \ call'[c].todo = {}
        BY <1>4, <1>6
      <4> QED
        BY <1>3, <4>1, <4>2, <4>3 DEF Gone
    <3> QED
      BY <1>4, <1>6, <2>1, <3>1, <3>2 DEF Emptying, Grave
  <2>2. CASE d # c
    <3>1. /\ At(d, "remove") /\ Writer(d) /\ Emptying(d)
          /\ call'[d].entry = call[d].entry /\ call'[d].keys = call[d].keys
          /\ call'[d].failed = call[d].failed /\ call'[d].todo = call[d].todo
      BY <1>5, <1>6, <2>2 DEF IInv, Emptied, Writer, At
    <3>2. ASSUME call'[d].overlap \notin Grave, NEW k \in call[d].keys
          PROVE  Gone(d, k)'
      <4>1. Gone(d, k) /\ (op = "set" => k \notin K)
        BY <1>5, <1>6, <2>2, <3>1, <3>2 DEF Emptying, Grave
      <4>2. \A x \in Callers : At(x, "set")' => k \notin call'[x].keys
        BY <1>4, <1>5, <1>6, <4>1 DEF Gone, At
      <4> QED
        BY <1>3, <3>1, <4>1, <4>2 DEF Gone
    <3> QED
      BY <3>1, <3>2 DEF Emptying, Grave
  <2> QED
    BY <2>1, <2>2
<1> QED
  BY <1>8, <1>9, <1>10, <1>11, <1>12 DEF IInv

LEMMA TakenIs ==
  ASSUME TypeOK, NEW c \in Callers, NEW i \in Tiers
  PROVE  /\ Taken(c, i) \in [Tiers -> [Keys -> Entries \cup {NoEntry}]]
         /\ \A j \in Tiers, k \in Keys :
              Taken(c, i)[j][k] = IF j = i /\ k \in call[c].keys THEN call[c].entry
                                  ELSE tier[j][k]
<1> DEFINE w == [k \in Keys |-> IF k \in call[c].keys THEN call[c].entry ELSE tier[i][k]]
<1>1. Taken(c, i) = [tier EXCEPT ![i] = w]
  BY DEF Taken
<1>2. call[c].entry \in Entries \cup {NoEntry}
  BY DEF TypeOK, Call
<1>3. w \in [Keys -> Entries \cup {NoEntry}]
  BY <1>2 DEF TypeOK
<1>4. \A k \in Keys : w[k] = IF k \in call[c].keys THEN call[c].entry ELSE tier[i][k]
  OBVIOUS
<1> HIDE DEF w
<1> QED
  BY <1>1, <1>3, <1>4 DEF TypeOK

(* A tier answers a write, of unsettled keys only: the call has one less   *)
(* to wait for, and what it has not failed to write is there.              *)
LEMMA AnswerKeeps ==
  ASSUME IInv, NEW c \in Callers, NEW i \in Tiers, Writer(c), NEW r \in Call,
         r.op = call[c].op, r.keys = call[c].keys, r.entry = call[c].entry,
         r.next = call[c].next, r.overlap = call[c].overlap, r.todo = call[c].todo \ {i},
         ~r.failed => ~call[c].failed /\ tier' = Taken(c, i),
         tier' \in {tier, Taken(c, i)},
         call' = [call EXCEPT ![c] = r], UNCHANGED <<fill, settled>>
  PROVE  IInv'
<1>1. call[c] \in Call /\ call[c].keys \subseteq Keys
  BY DEF IInv, TypeOK, Call
<1>3. /\ call' \in [Callers -> Call] /\ call'[c] = r
      /\ \A d \in Callers : d # c => call'[d] = call[d]
  BY DEF IInv, TypeOK
<1>4. \A d \in Callers :
        /\ Writer(d)' <=> Writer(d)
        /\ call'[d].keys = call[d].keys /\ call'[d].entry = call[d].entry
        /\ call'[d].next = call[d].next /\ call'[d].op = call[d].op
        /\ At(d, "found")' <=> At(d, "found")
        /\ call'[d].overlap = call[d].overlap
        /\ d # c => call'[d].todo = call[d].todo /\ call'[d].failed = call[d].failed
  BY <1>3 DEF Writer, At
<1>5. /\ tier' \in [Tiers -> [Keys -> Entries \cup {NoEntry}]]
      /\ \A j \in Tiers, k \in Keys :
           \/ tier'[j][k] = tier[j][k]
           \/ j = i /\ k \in call[c].keys /\ tier'[j][k] = call[c].entry
      /\ ~r.failed => \A j \in Tiers, k \in Keys :
           tier'[j][k] = IF j = i /\ k \in call[c].keys THEN call[c].entry ELSE tier[j][k]
  BY TakenIs DEF IInv, TypeOK
<1>6. TypeOK'
  BY <1>3, <1>4, <1>5 DEF IInv, TypeOK, At
<1>7. SettledTiersAgree'
  <2> SUFFICES ASSUME NEW j \in Tiers, NEW k \in Keys, settled[k] # Unsettled
               PROVE  tier'[j][k] \in {settled[k]} \cup MayBeLost
    BY DEF SettledTiersAgree, MayBeLost
  <2>1. k \notin call[c].keys
    BY DEF IInv, Quiet
  <2> QED
    BY <1>5, <2>1 DEF IInv, SettledTiersAgree
<1>8. Quiet'
  BY <1>4 DEF IInv, Quiet
<1>9. Alone'
  <2> SUFFICES ASSUME NEW d \in Callers, Writer(d), call[d].overlap = "none",
                      NEW k \in call[d].keys
               PROVE  /\ \A x \in Callers : Writer(x) /\ k \in call[x].keys => x = d
                      /\ \A x \in Callers : At(x, "found") => k \notin call[x].keys
                      /\ \A f \in Fills : k \notin fill[f].keys
                      /\ ~call'[d].failed =>
                           \A j \in Tiers \ call'[d].todo :
                             tier'[j][k] \in {call[d].entry} \cup MayBeLost
    BY <1>4 DEF Alone, MayBeLost
  <2>1. /\ \A x \in Callers : Writer(x) /\ k \in call[x].keys => x = d
        /\ \A x \in Callers : At(x, "found") => k \notin call[x].keys
        /\ \A f \in Fills : k \notin fill[f].keys
        /\ ~call[d].failed =>
             \A j \in Tiers \ call[d].todo : tier[j][k] \in {call[d].entry} \cup MayBeLost
    BY DEF IInv, Alone
  <2>2. k \in Keys
    BY DEF IInv, TypeOK, Call
  <2>3. CASE d = c
    BY <1>3, <1>5, <2>1, <2>2, <2>3
  <2>4. CASE d # c
    <3>1. k \notin call[c].keys
      BY <2>1, <2>4
    <3> QED
      BY <1>4, <1>5, <2>1, <2>2, <2>4, <3>1
  <2> QED
    BY <2>1, <2>3, <2>4
<1>10. Emptied'
  <2> SUFFICES ASSUME NEW d \in Callers, At(d, "remove"), Emptying(d) PROVE Emptying(d)'
    BY <1>4 DEF IInv, Emptied, At
  <2> SUFFICES ASSUME call[d].overlap \notin {"fill", "set"}, NEW k \in call[d].keys
               PROVE  Gone(d, k)'
    BY <1>4 DEF Emptying
  <2>1. Gone(d, k) /\ k \in Keys /\ call[d].entry = NoEntry
    BY DEF IInv, TypeOK, Call, Emptying
  <2>2. k \in call[c].keys => call[c].entry = NoEntry
    <3>1. k \in call[c].keys => At(c, "remove")
      BY <2>1 DEF Gone, Writer
    <3> QED
      BY <3>1 DEF IInv, Emptied, Emptying
  <2>3. \A x \in Callers : At(x, "set")' => k \notin call'[x].keys
    BY <1>4, <2>1 DEF Gone, At
  <2>4. ASSUME ~call'[d].failed, NEW j \in Tiers \ call'[d].todo PROVE tier'[j][k] = NoEntry
    <3>1. CASE d = c /\ j = i
      BY <1>3, <1>5, <2>1, <2>4, <3>1
    <3>2. CASE ~(d = c /\ j = i)
      <4>1. ~call[d].failed /\ j \in Tiers \ call[d].todo
        BY <1>3, <1>4, <2>4, <3>2
      <4>2. tier[j][k] = NoEntry
        BY <2>1, <4>1 DEF Gone
      <4> QED
        BY <1>5, <2>1, <2>2, <4>1, <4>2
    <3> QED
      BY <3>1, <3>2
  <2> QED
    BY <2>1, <2>3, <2>4 DEF Gone
<1> QED
  BY <1>6, <1>7, <1>8, <1>9, <1>10 DEF IInv

LEMMA WriteTierKeeps ==
  ASSUME IInv, NEW c \in Callers, NEW i \in Tiers, WriteTier(c, i)
  PROVE  IInv'
<1> DEFINE r == [call[c] EXCEPT !.todo = @ \ {i}]
<1>1. /\ call[c] \in Call /\ Writer(c) /\ tier' = Taken(c, i)
      /\ call' = [call EXCEPT ![c] = r] /\ UNCHANGED <<fill, settled>>
  BY DEF WriteTier, IInv, TypeOK
<1>2. /\ r \in Call /\ r.todo = call[c].todo \ {i}
      /\ r.op = call[c].op /\ r.keys = call[c].keys /\ r.entry = call[c].entry
      /\ r.next = call[c].next /\ r.failed = call[c].failed /\ r.overlap = call[c].overlap
  BY <1>1 DEF Call
<1> HIDE DEF r
<1> QED
  BY <1>1, <1>2, AnswerKeeps

LEMMA TierFailsWriteKeeps ==
  ASSUME IInv, NEW c \in Callers, NEW i \in Tiers, TierFailsWrite(c, i)
  PROVE  IInv'
<1> DEFINE r == [call[c] EXCEPT !.todo = @ \ {i}, !.failed = TRUE]
<1>1. /\ call[c] \in Call /\ Writer(c) /\ tier' \in {tier, Taken(c, i)}
      /\ UNCHANGED <<fill, settled>>
  BY DEF TierFailsWrite, IInv, TypeOK
<1>2. /\ r \in Call /\ r.failed = TRUE /\ r.todo = call[c].todo \ {i}
      /\ r.op = call[c].op /\ r.keys = call[c].keys /\ r.entry = call[c].entry
      /\ r.next = call[c].next /\ r.overlap = call[c].overlap
  BY <1>1 DEF Call
<1>3. call' = [call EXCEPT ![c] = r]
  BY DEF TierFailsWrite, IInv, TypeOK
<1> HIDE DEF r
<1> QED
  BY <1>1, <1>2, <1>3, AnswerKeeps

(* A writer that had its keys to itself leaves them settled.               *)
LEMMA FinishKeeps ==
  ASSUME IInv, NEW c \in Callers, Finish(c)
  PROVE  IInv'
<1>1. /\ call' = [call EXCEPT ![c] = IdleCall] /\ UNCHANGED <<tier, fill>>
      /\ Writer(c) /\ call[c].todo = {} /\ call[c] \in Call
  BY DEF Finish, IInv, TypeOK
<1>2. CASE call[c].failed \/ call[c].overlap # "none"
  BY <1>1, <1>2, IdleKeeps DEF Finish
<1>3. CASE ~call[c].failed /\ call[c].overlap = "none"
  <2>1. settled' = [k \in Keys |-> IF k \in call[c].keys THEN call[c].entry ELSE settled[k]]
    BY <1>3 DEF Finish
  <2>2. /\ call' \in [Callers -> Call] /\ call'[c].op = "idle"
        /\ \A d \in Callers : d # c => call'[d] = call[d]
    BY <1>1, AnsweredType DEF IInv, TypeOK, IdleCall
  <2>3. \A d \in Callers : /\ Writer(d)' => d # c /\ Writer(d)
                           /\ At(d, "found")' => d # c /\ At(d, "found")
    BY <2>2 DEF Writer, At
  <2>4. call[c].entry \in Entries \cup {NoEntry}
    BY <1>1 DEF Call
  <2>5. TypeOK'
    BY <1>1, <2>1, <2>2, <2>4 DEF IInv, TypeOK, At
  <2>6. SettledTiersAgree'
    <3> SUFFICES ASSUME NEW i \in Tiers, NEW k \in Keys, settled'[k] # Unsettled
                 PROVE  tier[i][k] \in {settled'[k]} \cup MayBeLost
      BY <1>1 DEF SettledTiersAgree, MayBeLost
    <3>1. CASE k \in call[c].keys
      BY <1>1, <1>3, <2>1, <3>1 DEF IInv, Alone
    <3>2. CASE k \notin call[c].keys
      BY <2>1, <3>2 DEF IInv, SettledTiersAgree
    <3> QED
      BY <3>1, <3>2
  <2>7. Quiet'
    <3> SUFFICES ASSUME NEW k \in Keys, settled'[k] # Unsettled
                 PROVE  /\ \A d \in Callers : Writer(d)' => k \notin call'[d].keys
                        /\ \A d \in Callers : At(d, "found")' /\ k \in call'[d].keys
                                                => call'[d].entry = settled'[k]
                        /\ \A f \in Fills : k \in fill[f].keys => fill[f].entry = settled'[k]
      BY <1>1 DEF Quiet
    <3>1. CASE k \in call[c].keys
      BY <1>1, <1>3, <2>2, <2>3, <3>1 DEF IInv, Alone
    <3>2. CASE k \notin call[c].keys
      BY <2>1, <2>2, <2>3, <3>2 DEF IInv, Quiet
    <3> QED
      BY <3>1, <3>2
  <2>8. Alone'
    BY <1>1, <2>2, <2>3 DEF IInv, Alone, MayBeLost
  <2>9. Emptied'
    BY <1>1, <2>2 DEF IInv, Emptied, Emptying, Gone, At
  <2> QED
    BY <2>5, <2>6, <2>7, <2>8, <2>9 DEF IInv
<1> QED
  BY <1>2, <1>3

LEMMA TierLosesKeeps ==
  ASSUME IInv, NEW i \in Tiers, NEW k \in Keys, TierLoses(i, k)
  PROVE  IInv'
<1>1. Losses /\ tier' = [tier EXCEPT ![i][k] = NoEntry] /\ UNCHANGED <<call, fill, settled>>
  BY DEF TierLoses
<1>2. MayBeLost = {NoEntry}
  BY <1>1 DEF MayBeLost
<1>3. /\ tier' \in [Tiers -> [Keys -> Entries \cup {NoEntry}]]
      /\ \A j \in Tiers, l \in Keys : tier'[j][l] \in {tier[j][l], NoEntry}
  BY <1>1 DEF IInv, TypeOK
<1>4. TypeOK'
  BY <1>1, <1>3 DEF IInv, TypeOK, At
<1>5. SettledTiersAgree'
  BY <1>1, <1>2, <1>3 DEF IInv, SettledTiersAgree, MayBeLost
<1>6. Quiet'
  BY <1>1 DEF IInv, Quiet, Writer, At
<1>7. Alone'
  <2>1. \A c \in Callers : call[c].keys \subseteq Keys
    BY DEF IInv, TypeOK, Call
  <2> QED
    BY <1>1, <1>2, <1>3, <2>1 DEF IInv, Alone, MayBeLost, Writer, At
<1>8. Emptied'
  <2> SUFFICES ASSUME NEW c \in Callers, At(c, "remove"), Emptying(c),
                      call[c].overlap \notin {"fill", "set"}, NEW l \in call[c].keys
               PROVE  Gone(c, l)'
    BY <1>1 DEF IInv, Emptied, Emptying, At
  <2>1. l \in Keys /\ Gone(c, l)
    BY DEF IInv, TypeOK, Call, Emptying
  <2> QED
    BY <1>1, <1>3, <2>1 DEF Gone, At
<1> QED
  BY <1>4, <1>5, <1>6, <1>7, <1>8 DEF IInv

-----------------------------------------------------------------------------
(* One step of the proof per action of tiered.rs.                          *)
LEMMA StepKeepsIInv == IInv /\ [Next]_vars => IInv'
<1> SUFFICES ASSUME IInv, [Next]_vars PROVE IInv'
  OBVIOUS
<1>1. ASSUME NEW c \in Callers, NEW k \in Keys, Get(c, k) PROVE IInv'
  BY <1>1, GetKeeps
<1>2. ASSUME NEW c \in Callers, NEW k \in Keys, TierMisses(c, k) PROVE IInv'
  BY <1>2, TierMissesKeeps
<1>3. ASSUME NEW c \in Callers, NEW k \in Keys, TopTierHits(c, k) PROVE IInv'
  BY <1>3, TopTierHitsKeeps
<1>4. ASSUME NEW c \in Callers, NEW k \in Keys, LowerTierHits(c, k) PROVE IInv'
  BY <1>4, LowerTierHitsKeeps
<1>16. ASSUME NEW c \in Callers, NEW k \in Keys, NEW f \in Fills, Backfill(c, k, f)
       PROVE  IInv'
  BY <1>16, BackfillKeeps
<1>5. ASSUME NEW c \in Callers, NEW k \in Keys, NEW e \in Inputs[k], Begin(c, "set", {k}, e)
      PROVE  IInv'
  <2>1. e \in Entries /\ {k} \in SUBSET Keys
    BY DEF Entries
  <2> QED
    BY <1>5, <2>1, BeginKeeps
<1>6. ASSUME NEW c \in Callers, NEW K \in SUBSET Keys, Begin(c, "remove", K, NoEntry)
      PROVE  IInv'
  BY <1>6, BeginKeeps
<1>7. ASSUME NEW c \in Callers, TierFailsGet(c) PROVE IInv'
  BY <1>7, IdleKeeps DEF TierFailsGet
<1>8. ASSUME NEW c \in Callers, Finish(c) PROVE IInv'
  BY <1>8, FinishKeeps
<1>9. ASSUME NEW c \in Callers, Abandon(c) PROVE IInv'
  BY <1>9, IdleKeeps DEF Abandon
<1>10. ASSUME NEW c \in Callers, NEW i \in Tiers, WriteTier(c, i) PROVE IInv'
  BY <1>10, WriteTierKeeps
<1>11. ASSUME NEW c \in Callers, NEW i \in Tiers, TierFailsWrite(c, i) PROVE IInv'
  BY <1>11, TierFailsWriteKeeps
<1>12. ASSUME NEW f \in Fills, NEW k \in Keys, FillTier(f, k) PROVE IInv'
  BY <1>12, FillTierKeeps
<1>13. ASSUME NEW i \in Tiers, NEW k \in Keys, TierLoses(i, k) PROVE IInv'
  BY <1>13, TierLosesKeeps
<1>14. ASSUME NEW c \in Callers, Return(c) PROVE IInv'
  BY <1>14, IdleKeeps DEF Return
<1>15. CASE UNCHANGED vars
  BY <1>15 DEF vars, IInv, TypeOK, SettledTiersAgree, Quiet, Alone, Emptied, Emptying, Gone,
               MayBeLost, Writer, At
<1> QED
  BY <1>1, <1>2, <1>3, <1>4, <1>5, <1>6, <1>7, <1>8, <1>9, <1>10, <1>11, <1>12, <1>13, <1>14,
     <1>15, <1>16 DEF Next

LEMMA Invariance == Spec => []IInv
BY InitIInv, StepKeepsIInv, PTL DEF Spec

(* The tiers, the calls and the backfills of tiered.rs keep their types.   *)
THEOREM TypeCorrect == Spec => []TypeOK
<1>1. IInv => TypeOK
  BY DEF IInv
<1> QED
  BY <1>1, Invariance, PTL

(* A key written without overlap reads the same in every tier, up to       *)
(* losses, for any number of tiers, calls and backfills.                   *)
THEOREM SettledKeysAgree == Spec => []SettledTiersAgree
<1>1. IInv => SettledTiersAgree
  BY DEF IInv
<1> QED
  BY <1>1, Invariance, PTL
(* Next to a set, only a backfill undoes a remove, for any number of tiers, *)
(* calls and backfills.                                                    *)
THEOREM OnlyFillsUndo == Spec => []OnlyFillsUndoRemoves
<1>1. IInv => OnlyFillsUndoRemoves
  BY DEF IInv, Emptied, Emptying, Gone, OnlyFillsUndoRemoves
<1> QED
  BY <1>1, Invariance, PTL

-----------------------------------------------------------------------------
(* The abstract store: the places where the entries of a key may be.       *)
Setting(k) == {d \in Callers : Carrier(d) /\ k \in call[d].keys}
InTiers(k) == {tier[i][k] : i \in Tiers}
InFills(k) == {fill[f].entry : f \in FillsOf({k})}
InCalls(k) == {call[c].entry : c \in Setting(k)}

LEMMA HeldAt ==
  /\ Held = [k \in Keys |-> (InTiers(k) \cup InFills(k) \cup InCalls(k)) \ {NoEntry}]
  /\ Held' = [k \in Keys |-> (InTiers(k)' \cup InFills(k)' \cup InCalls(k)') \ {NoEntry}]
BY DEF Held, InTiers, InFills, InCalls, Setting, FillsOf

(* A step that only takes entries away, or along.                          *)
TiersLose == \A i \in Tiers, k \in Keys : tier'[i][k] \in Held[k] \cup {NoEntry}
FillsLose == \A f \in Fills :
  \/ fill'[f].keys = {}
  \/ fill'[f].keys = fill[f].keys /\ fill'[f].entry = fill[f].entry
CallsLose == \A c \in Callers : Carrier(c)' =>
  \/ Carrier(c) /\ call'[c].keys = call[c].keys /\ call'[c].entry = call[c].entry
  \/ \A k \in call'[c].keys \cap Keys : call'[c].entry \in Held[k]

LEMMA FillsFewer ==
  ASSUME FillsLose, NEW k \in Keys
  PROVE  InFills(k)' \subseteq InFills(k)
BY DEF FillsLose, InFills, FillsOf

LEMMA CallsFewer ==
  ASSUME CallsLose, NEW k \in Keys
  PROVE  InCalls(k)' \subseteq InCalls(k) \cup Held[k]
BY DEF CallsLose, InCalls, Setting

LEMMA TiersFewer ==
  ASSUME TiersLose, NEW k \in Keys
  PROVE  InTiers(k)' \ {NoEntry} \subseteq Held[k]
BY DEF TiersLose, InTiers

LEMMA LosingHeld ==
  ASSUME TiersLose, FillsLose, CallsLose
  PROVE  Held' \in Contract!Fewer
<1>1. ASSUME NEW k \in Keys PROVE Held'[k] \subseteq Held[k]
  BY FillsFewer, CallsFewer, TiersFewer, HeldAt
<1>2. Held' = [k \in Keys |-> Held'[k]]
  BY HeldAt
<1> QED
  BY <1>1, <1>2 DEF Contract!Fewer

(* The tiers stay as they are, or lose.                                    *)
LEMMA TiersStay ==
  ASSUME TypeOK, \A i \in Tiers, k \in Keys : tier'[i][k] \in {tier[i][k], NoEntry}
  PROVE  TiersLose
<1>1. \A i \in Tiers, k \in Keys : tier[i][k] \in Held[k] \cup {NoEntry}
  BY HeldAt DEF InTiers
<1> QED
  BY <1>1 DEF TiersLose

LEMMA FillsStay == ASSUME UNCHANGED fill PROVE FillsLose
BY DEF FillsLose

(* A call that moves to a record with nothing under way loses what it had. *)
LEMMA CallEnds ==
  ASSUME TypeOK, NEW c \in Callers, NEW r, r.todo = {}, r.op # "found",
         call' = [call EXCEPT ![c] = r]
  PROVE  CallsLose
<1>1. \A d \in Callers : call'[d] = IF d = c THEN r ELSE call[d]
  BY DEF TypeOK
<1> QED
  BY <1>1 DEF CallsLose, Carrier, At

-----------------------------------------------------------------------------
(* Calls that are no get's answer leave the answers alone.                 *)
LEMMA AnswerStays ==
  ASSUME \A c \in Callers :
           \/ call'[c].op = call[c].op /\ call'[c].entry = call[c].entry
           \/ (At(c, "idle") => call[c].entry = NoEntry)
              /\ (At(c, "idle")' => call'[c].entry = NoEntry)
  PROVE  Answer' = Answer
<1>1. \A c \in Callers : (IF At(c, "idle")' THEN call'[c].entry ELSE NoEntry)
                          = IF At(c, "idle") THEN call[c].entry ELSE NoEntry
  BY DEF At
<1> QED
  BY <1>1 DEF Answer

LEMMA AnswerIs ==
  ASSUME NEW c \in Callers, NEW e, call'[c].op = "idle", call'[c].entry = e,
         \A d \in Callers : d # c => call'[d].op = call[d].op /\ call'[d].entry = call[d].entry
  PROVE  Answer' = [Answer EXCEPT ![c] = e]
<1>1. \A d \in Callers : (IF At(d, "idle")' THEN call'[d].entry ELSE NoEntry)
        = IF d = c THEN e ELSE IF At(d, "idle") THEN call[d].entry ELSE NoEntry
  BY DEF At
<1> QED
  BY <1>1 DEF Answer

LEMMA StepLoses ==
  ASSUME Answer' = Answer, TiersLose, FillsLose, CallsLose
  PROVE  Contract!Lose
BY LosingHeld DEF Contract!Lose

(* A call that does not stand idle with an answer ends without one.        *)
LEMMA EndLoses ==
  ASSUME TypeOK, NEW c \in Callers, ~At(c, "idle"), call' = [call EXCEPT ![c] = IdleCall],
         UNCHANGED <<tier, fill>>
  PROVE  Contract!Lose
<1>1. \A d \in Callers : call'[d] = IF d = c THEN IdleCall ELSE call[d]
  BY DEF TypeOK
<1>2. Answer' = Answer
  BY <1>1, IdleCallType, AnswerStays DEF At
<1>3. TiersLose /\ FillsLose /\ CallsLose
  BY IdleCallType, TiersStay, FillsStay, CallEnds
<1> QED
  BY <1>2, <1>3, StepLoses

LEMMA ContractGet ==
  ASSUME TypeOK, NEW c \in Callers, NEW k \in Keys, Get(c, k)
  PROVE  Contract!Lose
<1> DEFINE r == NewCall("get", {k}, NoEntry, {}, "none")
<1>1. /\ call[c] = IdleCall /\ call' = [call EXCEPT ![c] = r] /\ UNCHANGED <<tier, fill>>
      /\ r.op = "get" /\ r.todo = {}
  BY DEF Get, NewCall
<1> HIDE DEF r
<1>2. \A d \in Callers : call'[d] = IF d = c THEN r ELSE call[d]
  BY <1>1 DEF TypeOK
<1>3. Answer' = Answer
  BY <1>1, <1>2, IdleCallType, AnswerStays DEF At
<1>4. TiersLose /\ FillsLose /\ CallsLose
  BY <1>1, TiersStay, FillsStay, CallEnds
<1> QED
  BY <1>3, <1>4, StepLoses

LEMMA ContractMisses ==
  ASSUME TypeOK, NEW c \in Callers, NEW k \in Keys, TierMisses(c, k)
  PROVE  Contract!Lose
<1>1. At(c, "get") /\ ~At(c, "idle") /\ UNCHANGED <<tier, fill>>
  BY DEF TierMisses, Asking, At
<1>2. CASE call[c].next = Depth
  BY <1>1, <1>2, EndLoses DEF TierMisses
<1>3. CASE call[c].next # Depth
  <2> DEFINE r == Onward(call[c])
  <2>1. call' = [call EXCEPT ![c] = r]
    BY <1>3 DEF TierMisses
  <2>2. /\ r.op = call[c].op /\ r.keys = call[c].keys /\ r.entry = call[c].entry
        /\ r.todo = call[c].todo
    BY DEF TypeOK, Call, Onward
  <2> HIDE DEF r
  <2>3. \A d \in Callers : call'[d] = IF d = c THEN r ELSE call[d]
    BY <2>1 DEF TypeOK
  <2>4. CallsLose
    BY <2>2, <2>3 DEF CallsLose, Carrier, At
  <2>5. Answer' = Answer
    BY <2>2, <2>3, AnswerStays
  <2> QED
    BY <1>1, <2>4, <2>5, TiersStay, FillsStay, StepLoses
<1> QED
  BY <1>2, <1>3

(* A get that finds an entry shows one that its key holds.                 *)
LEMMA ContractHit ==
  ASSUME TypeOK, NEW c \in Callers, NEW k \in Keys, NEW e, e \in Held[k],
         call'[c].op = "idle", call'[c].entry = e,
         \A d \in Callers : d # c => call'[d].op = call[d].op /\ call'[d].entry = call[d].entry,
         Held' \in Contract!Fewer
  PROVE  Contract!Hit(c, k)
<1>1. Answer' = [Answer EXCEPT ![c] = e]
  BY AnswerIs
<1> QED
  BY <1>1 DEF Contract!Hit

LEMMA Finds ==
  ASSUME NEW i \in Tiers, NEW k \in Keys, tier[i][k] # NoEntry
  PROVE  tier[i][k] \in Held[k]
BY HeldAt DEF InTiers

LEMMA ContractTopHit ==
  ASSUME IInv, NEW c \in Callers, NEW k \in Keys, TopTierHits(c, k)
  PROVE  Contract!Hit(c, k)
<1> DEFINE e == tier[1][k]
<1>1. e \in Entries /\ 1 \in Tiers /\ e # NoEntry /\ TypeOK /\ UNCHANGED <<tier, fill>>
  BY Found DEF TopTierHits, IInv
<1>2. call' = [call EXCEPT ![c] = Answered(e)]
  BY DEF TopTierHits
<1>3. e \in Held[k]
  BY <1>1, Finds
<1> HIDE DEF e
<1>4. Answered(e).op = "idle" /\ Answered(e).entry = e /\ Answered(e).todo = {}
  BY <1>1, AnsweredType
<1>5. TiersLose /\ Held' \in Contract!Fewer
  BY <1>1, <1>2, <1>4, TiersStay, FillsStay, CallEnds, LosingHeld
<1>6. \A d \in Callers : call'[d] = IF d = c THEN Answered(e) ELSE call[d]
  BY <1>1, <1>2 DEF TypeOK
<1> QED
  BY <1>1, <1>3, <1>4, <1>5, <1>6, ContractHit

(* A get that has found an entry below the top carries one its key holds.  *)
LEMMA ContractLowerHit ==
  ASSUME IInv, NEW c \in Callers, NEW k \in Keys, LowerTierHits(c, k)
  PROVE  Contract!Lose
<1> DEFINE O == Overlapped("read", {k})
           e == tier[call[c].next][k]
           r == [O[c] EXCEPT !.op = "found", !.entry = e]
<1>1. /\ e # NoEntry /\ TypeOK /\ UNCHANGED <<tier, fill>>
      /\ call[c].next \in Tiers /\ call[c].op = "get" /\ call[c].keys = {k}
  BY Found DEF LowerTierHits, Asking, At, IInv
<1>2. e \in Held[k]
  BY <1>1, Finds
<1>3. /\ O \in [Callers -> Call]
      /\ \A d \in Callers : /\ O[d].op = call[d].op /\ O[d].keys = call[d].keys
                            /\ O[d].entry = call[d].entry /\ O[d].todo = call[d].todo
  BY <1>1, OverlappedAt
<1>4. call' = [O EXCEPT ![c] = r]
  BY <1>3 DEF LowerTierHits
<1> HIDE DEF e, O
<1>5. r.op = "found" /\ r.keys = {k} /\ r.entry = e
  BY <1>1, <1>3 DEF Call
<1> HIDE DEF r
<1>6. \A d \in Callers : call'[d] = IF d = c THEN r ELSE O[d]
  BY <1>3, <1>4
<1>7. TiersLose /\ FillsLose
  BY <1>1, TiersStay, FillsStay
<1>8. CallsLose
  <2> SUFFICES ASSUME NEW d \in Callers, Carrier(d)'
               PROVE  \/ Carrier(d) /\ call'[d].keys = call[d].keys /\ call'[d].entry = call[d].entry
                      \/ \A j \in call'[d].keys \cap Keys : call'[d].entry \in Held[j]
    BY DEF CallsLose
  <2>1. CASE d = c
    BY <1>2, <1>5, <1>6, <2>1
  <2>2. CASE d # c
    BY <1>3, <1>6, <2>2 DEF Carrier, At
  <2> QED
    BY <2>1, <2>2
<1>9. Answer' = Answer
  BY <1>1, <1>3, <1>5, <1>6, AnswerStays DEF At
<1> QED
  BY <1>7, <1>8, <1>9, StepLoses

(* The backfill takes along what the get found.                            *)
LEMMA ContractBackfill ==
  ASSUME IInv, NEW c \in Callers, NEW k \in Keys, NEW f \in Fills, Backfill(c, k, f)
  PROVE  Contract!Hit(c, k)
<1> DEFINE O == Overlapped("fill", {k})
           e == call[c].entry
<1>1. /\ e \in Entries /\ e # NoEntry /\ TypeOK /\ UNCHANGED tier
      /\ At(c, "found") /\ call[c].keys = {k}
  BY EntriesAssumption DEF Backfill, IInv, TypeOK
<1>2. call' = [O EXCEPT ![c] = Answered(e)]
  BY DEF Backfill
<1>3. e \in Held[k]
  BY <1>1, HeldAt DEF InCalls, Setting, Carrier
<1>4. /\ O \in [Callers -> Call]
      /\ \A d \in Callers : /\ O[d].op = call[d].op /\ O[d].keys = call[d].keys
                            /\ O[d].entry = call[d].entry /\ O[d].todo = call[d].todo
  BY <1>1, OverlappedAt
<1>5. \A g \in Fills : g # f => fill'[g] = fill[g]
  BY <1>1 DEF Backfill, TypeOK
<1>6. fill'[f].keys = {k} /\ fill'[f].entry = e
  BY <1>1 DEF Backfill, TypeOK
<1> HIDE DEF e, O
<1>7. Answered(e).op = "idle" /\ Answered(e).entry = e /\ Answered(e).todo = {}
  BY <1>1, AnsweredType
<1>8. \A d \in Callers : call'[d] = IF d = c THEN Answered(e) ELSE O[d]
  BY <1>2, <1>4
<1>9. TiersLose /\ CallsLose
  BY <1>1, <1>4, <1>7, <1>8, TiersStay DEF CallsLose, Carrier, At
<1>10. Held' \in Contract!Fewer
  <2>1. ASSUME NEW j \in Keys PROVE InFills(j)' \subseteq InFills(j) \cup (IF j = k THEN {e} ELSE {})
    BY <1>5, <1>6 DEF InFills, FillsOf
  <2>2. \A j \in Keys : Held'[j] \subseteq Held[j]
    BY <1>3, <1>9, <2>1, CallsFewer, TiersFewer, HeldAt
  <2>3. Held' = [j \in Keys |-> Held'[j]]
    BY HeldAt
  <2> QED
    BY <2>2, <2>3 DEF Contract!Fewer
<1>11. \A d \in Callers : d # c => call'[d].op = call[d].op /\ call'[d].entry = call[d].entry
  BY <1>4, <1>8
<1> QED
  BY <1>1, <1>3, <1>7, <1>8, <1>9, <1>10, <1>11, ContractHit

LEMMA ContractReturn ==
  ASSUME TypeOK, NEW c \in Callers, Return(c)
  PROVE  Contract!Miss(c)
<1>1. call' = [call EXCEPT ![c] = IdleCall] /\ UNCHANGED <<tier, fill>>
  BY DEF Return
<1>2. \A d \in Callers : call'[d] = IF d = c THEN IdleCall ELSE call[d]
  BY <1>1 DEF TypeOK
<1>3. Answer' = [Answer EXCEPT ![c] = NoEntry]
  BY <1>2, IdleCallType, AnswerIs
<1>4. Held' \in Contract!Fewer
  BY <1>1, IdleCallType, TiersStay, FillsStay, CallEnds, LosingHeld
<1> QED
  BY <1>3, <1>4 DEF Contract!Miss

(* A backfill brings a tier what it carries.                               *)
LEMMA ContractFill ==
  ASSUME IInv, NEW f \in Fills, NEW k \in Keys, FillTier(f, k)
  PROVE  Contract!Lose
<1> DEFINE e == fill[f].entry
           m == fill[f].next
<1>1. fill[f] \in Fill /\ fill[f].keys = {k} /\ e \in Entries /\ TypeOK /\ UNCHANGED call
  BY DEF FillTier, IInv, TypeOK
<1>2. e \in Held[k]
  <2>1. f \in FillsOf({k}) /\ e # NoEntry
    BY <1>1, EntriesAssumption DEF FillsOf
  <2> QED
    BY <2>1, HeldAt DEF InFills
<1>3. \A i \in Tiers, j \in Keys : tier'[i][j] = tier[i][j] \/ (j = k /\ tier'[i][j] = e)
  <2>1. tier' = tier \/ tier' = [tier EXCEPT ![m][k] = e]
    BY DEF FillTier
  <2> HIDE DEF e, m
  <2> QED
    BY <1>1, <2>1 DEF TypeOK
<1> HIDE DEF e, m
<1>4. TiersLose
  <2>1. \A i \in Tiers, j \in Keys : tier[i][j] \in Held[j] \cup {NoEntry}
    BY HeldAt DEF InTiers
  <2> QED
    BY <1>2, <1>3, <2>1 DEF TiersLose
<1>5. FillsLose
  <2>1. IdleFill.keys = {}
    BY DEF IdleFill
  <2>2. Onward(fill[f]).keys = fill[f].keys /\ Onward(fill[f]).entry = fill[f].entry
    BY <1>1 DEF Onward, Fill
  <2>3. \A g \in Fills : g # f => fill'[g] = fill[g]
    BY <1>1 DEF FillTier, TypeOK
  <2>4. fill'[f] \in {IdleFill, Onward(fill[f])}
    BY <1>1 DEF FillTier, TypeOK
  <2> QED
    BY <2>1, <2>2, <2>3, <2>4 DEF FillsLose
<1>6. CallsLose /\ Answer' = Answer
  BY <1>1, AnswerStays DEF CallsLose, Carrier, At
<1> QED
  BY <1>4, <1>5, <1>6, StepLoses

(* A tier takes what a set or remove brings it, or not.                    *)
LEMMA ContractAnswers ==
  ASSUME IInv, NEW c \in Callers, NEW i \in Tiers, WriteTier(c, i) \/ TierFailsWrite(c, i)
  PROVE  Contract!Lose
<1>1. /\ TypeOK /\ call[c] \in Call /\ tier' \in {tier, Taken(c, i)} /\ UNCHANGED fill
      /\ i \in call[c].todo
  BY DEF WriteTier, TierFailsWrite, IInv, TypeOK
<1>2. \A d \in Callers :
        /\ call'[d].op = call[d].op /\ call'[d].keys = call[d].keys
        /\ call'[d].entry = call[d].entry /\ call'[d].todo \subseteq call[d].todo
  <2> DEFINE r == [call[c] EXCEPT !.todo = @ \ {i}]
             w == [call[c] EXCEPT !.todo = @ \ {i}, !.failed = TRUE]
  <2>1. /\ r.op = call[c].op /\ r.keys = call[c].keys /\ r.entry = call[c].entry
        /\ r.todo = call[c].todo \ {i}
        /\ w.op = call[c].op /\ w.keys = call[c].keys /\ w.entry = call[c].entry
        /\ w.todo = call[c].todo \ {i}
    BY <1>1 DEF Call
  <2>2. call' = [call EXCEPT ![c] = r] \/ call' = [call EXCEPT ![c] = w]
    BY DEF WriteTier, TierFailsWrite, IInv, TypeOK
  <2> HIDE DEF r, w
  <2>3. \A d \in Callers : call'[d] = call[d] \/ (d = c /\ call'[d] \in {r, w})
    BY <1>1, <2>2 DEF TypeOK
  <2> QED
    BY <2>1, <2>3
<1>3. CallsLose /\ Answer' = Answer
  BY <1>2, AnswerStays DEF CallsLose, Carrier, At
<1>4. TiersLose
  <2>1. \A j \in Tiers, k \in Keys : tier[j][k] \in Held[k] \cup {NoEntry}
    BY HeldAt DEF InTiers
  <2>2. \A k \in call[c].keys \cap Keys : call[c].entry \in Held[k] \cup {NoEntry}
    BY <1>1, HeldAt DEF InCalls, Setting, Carrier
  <2>3. \A j \in Tiers, k \in Keys :
          \/ tier'[j][k] = tier[j][k]
          \/ k \in call[c].keys /\ tier'[j][k] = call[c].entry
    BY <1>1, TakenIs
  <2> QED
    BY <2>1, <2>2, <2>3 DEF TiersLose
<1> QED
  BY <1>1, <1>3, <1>4, FillsStay, StepLoses

-----------------------------------------------------------------------------
LEMMA UnionBound ==
  ASSUME NEW S, IsFiniteSet(S), NEW T, IsFiniteSet(T)
  PROVE  IsFiniteSet(S \cup T) /\ Cardinality(S \cup T) <= Cardinality(S) + Cardinality(T)
<1>1. /\ IsFiniteSet(S \cup T)
      /\ Cardinality(S \cup T) = Cardinality(S) + Cardinality(T) - Cardinality(S \cap T)
  BY FS_Union
<1>2. IsFiniteSet(S \cap T)
  BY FS_Intersection
<1>3. Cardinality(S) \in Nat /\ Cardinality(T) \in Nat /\ Cardinality(S \cap T) \in Nat
  BY <1>2, FS_CardinalityType
<1> QED
  BY <1>1, <1>3

(* A caller that is idle leaves room for one more entry.                   *)
LEMMA FewPlaces ==
  ASSUME NEW c \in Callers, ~Carrier(c), NEW k \in Keys
  PROVE  Held[k] \in Contract!Residues(k)
<1> DEFINE t == [i \in Tiers |-> tier[i][k]]
           f == [g \in FillsOf({k}) |-> fill[g].entry]
           s == [d \in Setting(k) |-> call[d].entry]
<1>1. /\ IsFiniteSet(Tiers) /\ Cardinality(Tiers) = Depth
      /\ IsFiniteSet(FillsOf({k})) /\ Cardinality(FillsOf({k})) <= Cardinality(Fills)
      /\ IsFiniteSet(Setting(k)) /\ Cardinality(Setting(k)) < Cardinality(Callers)
  <2>1. IsFiniteSet(Tiers) /\ Cardinality(Tiers) = Depth
    BY FS_Interval, DepthAssumption DEF Tiers
  <2>2. FillsOf({k}) \subseteq Fills
    BY DEF FillsOf
  <2>3. IsFiniteSet(FillsOf({k})) /\ Cardinality(FillsOf({k})) <= Cardinality(Fills)
    BY <2>2, FiniteAssumption, FS_Subset
  <2>4. Setting(k) \subseteq Callers \ {c}
    BY DEF Setting
  <2>5. IsFiniteSet(Callers \ {c}) /\ Cardinality(Callers \ {c}) = Cardinality(Callers) - 1
    BY FiniteAssumption, FS_RemoveElement
  <2>6. IsFiniteSet(Setting(k)) /\ Cardinality(Setting(k)) <= Cardinality(Callers \ {c})
    BY <2>4, <2>5, FS_Subset
  <2>7. Cardinality(Callers) \in Nat /\ Cardinality(Setting(k)) \in Nat
    BY <2>6, FiniteAssumption, FS_CardinalityType
  <2> QED
    BY <2>1, <2>3, <2>5, <2>6, <2>7
<1>2. /\ IsFiniteSet(InTiers(k)) /\ Cardinality(InTiers(k)) <= Cardinality(Tiers)
  <2>1. t \in Surjection(Tiers, InTiers(k))
    BY DEF Surjection, InTiers
  <2> QED
    BY <1>1, <2>1, FS_Surjection
<1>3. /\ IsFiniteSet(InFills(k)) /\ Cardinality(InFills(k)) <= Cardinality(FillsOf({k}))
  <2>1. f \in Surjection(FillsOf({k}), InFills(k))
    BY DEF Surjection, InFills
  <2> QED
    BY <1>1, <2>1, FS_Surjection
<1>4. /\ IsFiniteSet(InCalls(k)) /\ Cardinality(InCalls(k)) <= Cardinality(Setting(k))
  <2>1. s \in Surjection(Setting(k), InCalls(k))
    BY DEF Surjection, InCalls
  <2> QED
    BY <1>1, <2>1, FS_Surjection
<1> HIDE DEF t, f, s
<1> DEFINE A == InTiers(k) \cup InFills(k)
           B == A \cup InCalls(k)
<1>5. IsFiniteSet(A) /\ Cardinality(A) <= Cardinality(InTiers(k)) + Cardinality(InFills(k))
  BY <1>2, <1>3, UnionBound
<1> HIDE DEF A
<1>6. IsFiniteSet(B) /\ Cardinality(B) <= Cardinality(A) + Cardinality(InCalls(k))
  BY <1>4, <1>5, UnionBound
<1>7. Held[k] \subseteq B
  BY HeldAt DEF A
<1> HIDE DEF B
<1>8. Cardinality(Held[k]) <= Cardinality(B) /\ Cardinality(Held[k]) \in Nat
  BY <1>6, <1>7, FS_Subset, FS_CardinalityType
<1>9. /\ Cardinality(B) \in Nat /\ Cardinality(A) \in Nat /\ Cardinality(InTiers(k)) \in Nat
      /\ Cardinality(InFills(k)) \in Nat /\ Cardinality(InCalls(k)) \in Nat
      /\ Cardinality(FillsOf({k})) \in Nat /\ Cardinality(Setting(k)) \in Nat
      /\ Cardinality(Fills) \in Nat /\ Cardinality(Callers) \in Nat /\ Depth \in Nat
  BY <1>1, <1>2, <1>3, <1>4, <1>5, <1>6, FiniteAssumption, DepthAssumption, FS_CardinalityType
<1>10. Cardinality(Held[k]) < Depth + Cardinality(Fills) + Cardinality(Callers)
  BY <1>1, <1>2, <1>3, <1>4, <1>5, <1>6, <1>8, <1>9
<1>11. /\ Contract!Cardinality(Held[k]) = Cardinality(Held[k])
       /\ Contract!Cardinality(Fills) = Cardinality(Fills)
       /\ Contract!Cardinality(Callers) = Cardinality(Callers)
  BY DEF Contract!Cardinality, Cardinality
<1> QED
  BY <1>10, <1>11 DEF Contract!Residues

LEMMA ContractBegin ==
  ASSUME IInv, NEW c \in Callers, NEW op \in {"set", "remove"}, NEW K \in SUBSET Keys,
         NEW e, Begin(c, op, K, e)
  PROVE  /\ Answer' = Answer /\ UNCHANGED <<tier, fill>> /\ ~Carrier(c)
         /\ (Carrier(c)' <=> Tiers # {}) /\ call'[c].keys = K /\ call'[c].entry = e
         /\ \A d \in Callers : d # c =>
              /\ call'[d].keys = call[d].keys /\ call'[d].entry = call[d].entry
              /\ Carrier(d)' <=> Carrier(d)
<1> DEFINE O == Overlapped(op, K)
           V == Gravest(Others(K))
           r == NewCall(op, K, e, Tiers, V)
<1>1. call' = [O EXCEPT ![c] = r] /\ UNCHANGED <<tier, fill>> /\ call[c] = IdleCall
  BY DEF Begin
<1>2. r.op = op /\ r.keys = K /\ r.entry = e /\ r.todo = Tiers
  BY DEF NewCall
<1>3. /\ O \in [Callers -> Call]
      /\ \A d \in Callers : /\ O[d].op = call[d].op /\ O[d].keys = call[d].keys
                            /\ O[d].entry = call[d].entry /\ O[d].todo = call[d].todo
  BY OverlappedCalls DEF IInv
<1> HIDE DEF r, O, V
<1>4. \A d \in Callers : call'[d] = IF d = c THEN r ELSE O[d]
  BY <1>1, <1>3
<1>5. Answer' = Answer
  BY <1>1, <1>2, <1>3, <1>4, IdleCallType, AnswerStays DEF At
<1>6. ~Carrier(c) /\ (Carrier(c)' <=> Tiers # {})
  BY <1>1, <1>2, <1>4, IdleCallType DEF Carrier, At
<1>7. \A d \in Callers : d # c => (Carrier(d)' <=> Carrier(d))
  BY <1>3, <1>4 DEF Carrier, At
<1> QED
  BY <1>1, <1>2, <1>3, <1>4, <1>5, <1>6, <1>7

LEMMA ContractRemove ==
  ASSUME IInv, NEW c \in Callers, NEW K \in SUBSET Keys, Begin(c, "remove", K, NoEntry)
  PROVE  Contract!Lose
<1>1. /\ Answer' = Answer /\ UNCHANGED <<tier, fill>> /\ ~Carrier(c)
      /\ (Carrier(c)' <=> Tiers # {}) /\ call'[c].keys = K /\ call'[c].entry = NoEntry
      /\ \A d \in Callers : d # c =>
           /\ call'[d].keys = call[d].keys /\ call'[d].entry = call[d].entry
           /\ Carrier(d)' <=> Carrier(d)
  BY ContractBegin, ZenonT(30)
<1>2. ASSUME NEW k \in Keys PROVE InCalls(k)' \subseteq InCalls(k) \cup {NoEntry}
  BY <1>1 DEF InCalls, Setting
<1>3. ASSUME NEW k \in Keys PROVE InTiers(k)' = InTiers(k) /\ InFills(k)' = InFills(k)
  BY <1>1 DEF InTiers, InFills, FillsOf
<1>4. Held' \in Contract!Fewer
  <2>1. \A k \in Keys : Held'[k] \subseteq Held[k]
    BY <1>2, <1>3, HeldAt
  <2>2. Held' = [k \in Keys |-> Held'[k]]
    BY HeldAt
  <2> QED
    BY <2>1, <2>2 DEF Contract!Fewer
<1> QED
  BY <1>1, <1>4 DEF Contract!Lose

(* A set's entry is at its key as soon as it is on its way to a tier.      *)
LEMMA ContractSet ==
  ASSUME IInv, NEW c \in Callers, NEW k \in Keys, NEW e \in Inputs[k], Begin(c, "set", {k}, e)
  PROVE  Contract!Set(k) \/ Contract!Lose
<1>1. /\ Answer' = Answer /\ UNCHANGED <<tier, fill>> /\ ~Carrier(c)
      /\ (Carrier(c)' <=> Tiers # {}) /\ call'[c].keys = {k} /\ call'[c].entry = e
      /\ \A d \in Callers : d # c =>
           /\ call'[d].keys = call[d].keys /\ call'[d].entry = call[d].entry
           /\ Carrier(d)' <=> Carrier(d)
  BY ContractBegin, ZenonT(30)
<1>2. ASSUME NEW j \in Keys PROVE InTiers(j)' = InTiers(j) /\ InFills(j)' = InFills(j)
  BY <1>1 DEF InTiers, InFills, FillsOf
<1>3. CASE Tiers = {}
  <2>1. CallsLose
    BY <1>1, <1>3 DEF CallsLose
  <2>2. TiersLose
    BY <1>3 DEF TiersLose
  <2> QED
    BY <1>1, <2>1, <2>2, FillsStay, StepLoses
<1>4. CASE Tiers # {}
  <2>1. ASSUME NEW j \in Keys
        PROVE  InCalls(j)' = InCalls(j) \cup (IF j = k THEN {e} ELSE {})
    <3>1. Setting(j)' = Setting(j) \cup (IF j = k THEN {c} ELSE {}) /\ c \notin Setting(j)
      BY <1>1, <1>4 DEF Setting
    <3>2. \A d \in Setting(j) : call'[d].entry = call[d].entry
      BY <1>1 DEF Setting
    <3> QED
      BY <1>1, <3>1, <3>2 DEF InCalls
  <2>2. e # NoEntry
    BY EntriesAssumption DEF Entries
  <2>3. \A j \in Keys : Held'[j] = IF j = k THEN Held[k] \cup {e} ELSE Held[j]
    BY <1>2, <2>1, <2>2, HeldAt
  <2>4. Held' = [Held EXCEPT ![k] = Held[k] \cup {e}]
    BY <2>3, HeldAt
  <2>5. Held[k] \in Contract!Residues(k)
    BY <1>1, FewPlaces
  <2> QED
    BY <1>1, <2>4, <2>5 DEF Contract!Set
<1> QED
  BY <1>3, <1>4

LEMMA ContractStep == IInv /\ [Next]_vars => [Contract!Next]_(Contract!vars)
<1> SUFFICES ASSUME IInv, [Next]_vars PROVE Contract!Next
  OBVIOUS
<1>0. TypeOK
  BY DEF IInv
<1>1. ASSUME NEW c \in Callers, NEW k \in Keys,
             Get(c, k) \/ TierMisses(c, k) \/ LowerTierHits(c, k)
      PROVE  Contract!Lose
  BY <1>0, <1>1, ContractGet, ContractMisses, ContractLowerHit
<1>2. ASSUME NEW c \in Callers, NEW k \in Keys,
             TopTierHits(c, k) \/ \E f \in Fills : Backfill(c, k, f)
      PROVE  Contract!Hit(c, k)
  BY <1>2, ContractTopHit, ContractBackfill
<1>3. ASSUME NEW c \in Callers, NEW k \in Keys, NEW e \in Inputs[k], Begin(c, "set", {k}, e)
      PROVE  Contract!Set(k) \/ Contract!Lose
  BY <1>3, ContractSet
<1>4. ASSUME NEW c \in Callers, NEW K \in SUBSET Keys, Begin(c, "remove", K, NoEntry)
      PROVE  Contract!Lose
  BY <1>4, ContractRemove
<1>5. ASSUME NEW c \in Callers, TierFailsGet(c) PROVE Contract!Lose
  BY <1>0, <1>5, EndLoses DEF TierFailsGet, At
<1>6. ASSUME NEW c \in Callers, Return(c) PROVE Contract!Miss(c)
  BY <1>0, <1>6, ContractReturn
<1>7. ASSUME NEW c \in Callers, Finish(c) PROVE Contract!Lose
  BY <1>0, <1>7, EndLoses DEF Finish, Writer, At
<1>8. ASSUME NEW c \in Callers, Abandon(c) PROVE Contract!Lose
  <2>1. ~At(c, "idle")
    BY <1>8 DEF Abandon, Writer, At
  <2> QED
    BY <1>0, <1>8, <2>1, EndLoses DEF Abandon
<1>9. ASSUME NEW c \in Callers, NEW i \in Tiers, WriteTier(c, i) \/ TierFailsWrite(c, i)
      PROVE  Contract!Lose
  BY <1>9, ContractAnswers
<1>10. ASSUME NEW f \in Fills, NEW k \in Keys, FillTier(f, k) PROVE Contract!Lose
  BY <1>10, ContractFill
<1>11. ASSUME NEW i \in Tiers, NEW k \in Keys, TierLoses(i, k) PROVE Contract!Lose
  <2>1. \A j \in Tiers, l \in Keys : tier'[j][l] \in {tier[j][l], NoEntry}
    BY <1>0, <1>11 DEF TierLoses, TypeOK
  <2>2. UNCHANGED <<call, fill>>
    BY <1>11 DEF TierLoses
  <2>3. CallsLose /\ Answer' = Answer
    BY <2>2, AnswerStays DEF CallsLose, Carrier, At
  <2> QED
    BY <1>0, <2>1, <2>2, <2>3, TiersStay, FillsStay, StepLoses
<1>12. CASE UNCHANGED vars
  <2>1. UNCHANGED <<tier, call, fill>>
    BY <1>12 DEF vars
  <2>2. CallsLose /\ Answer' = Answer
    BY <2>1, AnswerStays DEF CallsLose, Carrier, At
  <2>3. Contract!Lose
    BY <1>0, <2>1, <2>2, TiersStay, FillsStay, StepLoses
  <2> QED
    BY <2>3 DEF Contract!Next
<1> QED
  BY <1>1, <1>2, <1>3, <1>4, <1>5, <1>6, <1>7, <1>8, <1>9, <1>10, <1>11, <1>12
     DEF Next, Contract!Next

(* Every step of a tiered store is one of the abstract store, whatever its *)
(* number of tiers, calls and backfills: what a get finds was set for its  *)
(* key and not lost since.                                                 *)
THEOREM TieredImplementsStore == Spec => ImplementsStore
<1>1. Init => Contract!Init
  <2> SUFFICES ASSUME Init PROVE Contract!Init
    OBVIOUS
  <2>1. \A c \in Callers : call[c] = IdleCall
    BY DEF Init
  <2>2. \A k \in Keys : InTiers(k) \subseteq {NoEntry} /\ InFills(k) = {} /\ InCalls(k) = {}
    BY <2>1, IdleCallType DEF Init, IdleFill, InTiers, InFills, InCalls, FillsOf, Setting,
                               Carrier, At
  <2>3. Held = [k \in Keys |-> {}]
    BY <2>2, HeldAt
  <2>4. Answer = [c \in Callers |-> NoEntry]
    BY <2>1, IdleCallType DEF Answer
  <2> QED
    BY <2>3, <2>4 DEF Contract!Init
<1> QED
  BY <1>1, ContractStep, Invariance, PTL DEF Spec, ImplementsStore, Contract!Spec
=============================================================================
