----------------------------- MODULE HcopProofs -----------------------------
(***************************************************************************)
(* HcopLock with one table, at the switch or at the DPU, for any number of *)
(* clients, keys, cores and places in the tables: a lock has one holder,   *)
(* who is in the table, although frames are dropped on several ways.       *)
(***************************************************************************)
EXTENDS HcopLock, TLAPS

-----------------------------------------------------------------------------
(* Queues of frames. *)

\* A frame of c for k, of a type in T, is in s.
Has(s, T, c, k) == \E i \in DOMAIN s : s[i].type \in T /\ s[i].id = c /\ s[i].key = k

\* No frame of a type in T follows one of type t for the same client and key.
Final(s, t, T) == \A i, j \in DOMAIN s : i < j /\ s[i].type = t /\ s[j].type \in T
                                           => s[i].id # s[j].id \/ s[i].key # s[j].key

\* Requests of c that no tier has refused; answers to c from tier t; answers from t.
Own(s, c) == \A i \in DOMAIN s : s[i].id = c /\ s[i].exc = "none"
Back(s, c, t) == \A i \in DOMAIN s : s[i].id = c /\ s[i].tier = t
Told(s, t) == \A i \in DOMAIN s : s[i].type \in {"GRANT", "DENY"} => s[i].tier = t

\* The queue of a lock: c is in it; nobody is in it twice.
Waits(w, c) == \E i \in DOMAIN w : w[i].id = c
Once(w) == \A i, j \in DOMAIN w : w[i].id = w[j].id => i = j

\* What is where in a queue that loses its head.
LEMMA TailAt ==
  ASSUME NEW S, NEW s \in Seq(S), s # << >>
  PROVE  /\ Head(s) \in S /\ Tail(s) \in Seq(S) /\ 1 \in DOMAIN s /\ Head(s) = s[1]
         /\ \A i \in DOMAIN s : i \in Nat /\ i >= 1
         /\ \A i \in DOMAIN Tail(s) : i \in Nat /\ i >= 1 /\ i + 1 \in DOMAIN s /\ Tail(s)[i] = s[i + 1]
         /\ \A i \in DOMAIN s : i # 1 => i - 1 \in DOMAIN Tail(s) /\ Tail(s)[i - 1] = s[i]
  OBVIOUS

\* What is where in a queue that gets one more frame.
LEMMA AppendAt ==
  ASSUME NEW S, NEW s \in Seq(S), NEW f \in S
  PROVE  /\ Append(s, f) \in Seq(S) /\ Len(s) \in Nat /\ DOMAIN s = 1 .. Len(s)
         /\ DOMAIN Append(s, f) = 1 .. Len(s) + 1 /\ Append(s, f)[Len(s) + 1] = f
         /\ \A i \in 1 .. Len(s) : Append(s, f)[i] = s[i]
  OBVIOUS

\* What a queue has after its head is gone.
LEMMA HasTail ==
  ASSUME NEW S, NEW s \in Seq(S), s # << >>, NEW T, NEW c, NEW k
  PROVE  Has(s, T, c, k) <=> \/ Has(Tail(s), T, c, k)
                             \/ Head(s).type \in T /\ Head(s).id = c /\ Head(s).key = k
  <1>1. ASSUME Has(Tail(s), T, c, k) PROVE Has(s, T, c, k)
    BY <1>1, TailAt DEF Has
  <1>2. ASSUME Head(s).type \in T, Head(s).id = c, Head(s).key = k PROVE Has(s, T, c, k)
    BY <1>2, TailAt DEF Has
  <1>3. ASSUME Has(s, T, c, k), ~(Head(s).type \in T /\ Head(s).id = c /\ Head(s).key = k)
        PROVE  Has(Tail(s), T, c, k)
    <2>1. PICK i \in DOMAIN s : s[i].type \in T /\ s[i].id = c /\ s[i].key = k
      BY <1>3, Zenon DEF Has
    <2>2. i # 1
      BY <1>3, <2>1, TailAt
    <2> QED
      BY <2>1, <2>2, TailAt, Zenon DEF Has
  <1> QED
    BY <1>1, <1>2, <1>3, Zenon

\* What a queue has with one frame more.
LEMMA HasAppend ==
  ASSUME NEW S, NEW s \in Seq(S), NEW f \in S, NEW T, NEW c, NEW k
  PROVE  Has(Append(s, f), T, c, k) <=> Has(s, T, c, k) \/ (f.type \in T /\ f.id = c /\ f.key = k)
  <1>1. ASSUME Has(s, T, c, k) PROVE Has(Append(s, f), T, c, k)
    BY <1>1, AppendAt DEF Has
  <1>2. ASSUME f.type \in T, f.id = c, f.key = k PROVE Has(Append(s, f), T, c, k)
    BY <1>2, AppendAt DEF Has
  <1>3. ASSUME Has(Append(s, f), T, c, k), ~(f.type \in T /\ f.id = c /\ f.key = k)
        PROVE  Has(s, T, c, k)
    BY <1>3, AppendAt DEF Has
  <1> QED
    BY <1>1, <1>2, <1>3, Zenon

\* Final without the head, which has no successor of its kind if it has type t.
LEMMA FinalTail ==
  ASSUME NEW S, NEW s \in Seq(S), s # << >>, NEW t, NEW T, Final(s, t, T)
  PROVE  /\ Final(Tail(s), t, T)
         /\ Head(s).type = t => ~Has(Tail(s), T, Head(s).id, Head(s).key)
  <1>1. Final(Tail(s), t, T)
    BY TailAt DEF Final
  <1>2. ASSUME Head(s).type = t, NEW i \in DOMAIN Tail(s), Tail(s)[i].type \in T
        PROVE  Tail(s)[i].id # Head(s).id \/ Tail(s)[i].key # Head(s).key
    BY <1>2, TailAt DEF Final
  <1> QED
    BY <1>1, <1>2, Zenon DEF Has

\* Final with one frame more.
LEMMA FinalAppend ==
  ASSUME NEW S, NEW s \in Seq(S), NEW f \in S, NEW t, NEW T, Final(s, t, T),
         f.type \in T => ~Has(s, {t}, f.id, f.key)
  PROVE  Final(Append(s, f), t, T)
  <1> SUFFICES ASSUME NEW i \in DOMAIN Append(s, f), NEW j \in DOMAIN Append(s, f), i < j,
                      Append(s, f)[i].type = t, Append(s, f)[j].type \in T
               PROVE  Append(s, f)[i].id # Append(s, f)[j].id \/ Append(s, f)[i].key # Append(s, f)[j].key
    BY Zenon DEF Final
  <1>1. i \in DOMAIN s /\ Append(s, f)[i] = s[i]
    BY AppendAt
  <1>2. CASE j \in DOMAIN s
    BY <1>1, <1>2, AppendAt DEF Final
  <1>3. CASE j \notin DOMAIN s
    <2>1. Append(s, f)[j] = f
      BY <1>3, AppendAt
    <2> QED
      BY <1>1, <2>1, Zenon DEF Has
  <1> QED
    BY <1>2, <1>3, Zenon

\* The same for the ways that frames take.
LEMMA WayTail ==
  ASSUME NEW S, NEW s \in Seq(S), s # << >>, NEW c, NEW t
  PROVE  /\ Own(s, c) => Own(Tail(s), c) /\ Head(s).id = c /\ Head(s).exc = "none"
         /\ Back(s, c, t) => Back(Tail(s), c, t) /\ Head(s).id = c /\ Head(s).tier = t
         /\ Told(s, t) => Told(Tail(s), t) /\ (Head(s).type \in {"GRANT", "DENY"} => Head(s).tier = t)
  <1>1. ASSUME Own(s, c) PROVE Own(Tail(s), c) /\ Head(s).id = c /\ Head(s).exc = "none"
    BY <1>1, TailAt DEF Own
  <1>2. ASSUME Back(s, c, t) PROVE Back(Tail(s), c, t) /\ Head(s).id = c /\ Head(s).tier = t
    BY <1>2, TailAt DEF Back
  <1>3. ASSUME Told(s, t)
        PROVE  Told(Tail(s), t) /\ (Head(s).type \in {"GRANT", "DENY"} => Head(s).tier = t)
    BY <1>3, TailAt DEF Told
  <1> QED
    BY <1>1, <1>2, <1>3, Zenon

\* A frame more on a way.
LEMMA WayAppend ==
  ASSUME NEW S, NEW s \in Seq(S), NEW f \in S, NEW c, NEW t
  PROVE  /\ Own(s, c) /\ f.id = c /\ f.exc = "none" => Own(Append(s, f), c)
         /\ Back(s, c, t) /\ f.id = c /\ f.tier = t => Back(Append(s, f), c, t)
         /\ Told(s, t) /\ (f.type \in {"GRANT", "DENY"} => f.tier = t) => Told(Append(s, f), t)
  <1>1. ASSUME Own(s, c), f.id = c, f.exc = "none" PROVE Own(Append(s, f), c)
    BY <1>1, AppendAt DEF Own
  <1>2. ASSUME Back(s, c, t), f.id = c, f.tier = t PROVE Back(Append(s, f), c, t)
    BY <1>2, AppendAt DEF Back
  <1>3. ASSUME Told(s, t), f.type \in {"GRANT", "DENY"} => f.tier = t PROVE Told(Append(s, f), t)
    BY <1>3, AppendAt DEF Told
  <1> QED
    BY <1>1, <1>2, <1>3, Zenon

\* The queue of a lock without the first.
LEMMA WaitsTail ==
  ASSUME NEW S, NEW w \in Seq(S), w # << >>, Once(w)
  PROVE  /\ Once(Tail(w)) /\ Waits(w, Head(w).id) /\ ~Waits(Tail(w), Head(w).id)
         /\ \A d : Waits(Tail(w), d) => Waits(w, d)
  <1>1. Once(Tail(w))
    BY TailAt DEF Once
  <1>2. Waits(w, Head(w).id)
    BY TailAt DEF Waits
  <1>3. ~Waits(Tail(w), Head(w).id)
    BY TailAt DEF Waits, Once
  <1>4. ASSUME NEW d, Waits(Tail(w), d) PROVE Waits(w, d)
    BY <1>4, TailAt DEF Waits
  <1> QED
    BY <1>1, <1>2, <1>3, <1>4, Zenon

\* The queue with one more.
LEMMA WaitsAppend ==
  ASSUME NEW S, NEW w \in Seq(S), NEW n \in S, Once(w), ~Waits(w, n.id)
  PROVE  /\ Once(Append(w, n))
         /\ \A d : Waits(Append(w, n), d) => Waits(w, d) \/ d = n.id
  <1>1. Once(Append(w, n))
    BY AppendAt DEF Once, Waits
  <1>2. ASSUME NEW d, Waits(Append(w, n), d) PROVE Waits(w, d) \/ d = n.id
    BY <1>2, AppendAt DEF Waits
  <1> QED
    BY <1>1, <1>2, Zenon

\* A function changed at one place.
LEMMA ExceptAt ==
  ASSUME NEW D, NEW S, NEW q \in [D -> S], NEW c \in D, NEW v \in S
  PROVE  /\ [q EXCEPT ![c] = v] \in [D -> S] /\ [q EXCEPT ![c] = v][c] = v
         /\ \A d \in D \ {c} : [q EXCEPT ![c] = v][d] = q[d]
  OBVIOUS

-----------------------------------------------------------------------------
(* The inductive invariant. *)

Forward == place.mode = "forward"
Ask == {"ACQUIRE"}
Req == {"ACQUIRE", "RELEASE"}
Gr == {"GRANT"}

RequestFrame == [type : Req, id : Clients, key : Keys, exc : {"none", "contention", "overflow", "cores"}]
AnswerFrame == [type : {"GRANT", "DENY"}, id : Clients, key : Keys, tier : {"switch", "dpu"}]
Frame == RequestFrame \cup AnswerFrame
KeyState == [holder : Clients \cup {kFree}, expiry : Nat, waiters : Seq([id : Clients, lease : Nat])]

\* The table in use, and its tier.
Entry(k) == IF Forward THEN dpuKeys[k] ELSE swKeys[k]
Tier == IF Forward THEN "dpu" ELSE "switch"

TypeInv ==
  /\ place \in Placements
  /\ swKeys \in [Keys -> KeyState] /\ dpuKeys \in [Keys -> KeyState]
  /\ up \in [Clients -> Seq(RequestFrame)] /\ down \in [Clients -> Seq(AnswerFrame)]
  /\ toDpu \in Seq(RequestFrame) /\ cores \in Seq(RequestFrame) /\ fromDpu \in Seq(Frame)
  /\ client \in [Clients \X Keys -> {"idle", "asked", "waits", "switch", "dpu"}]

\* Frames are on their own way, and without a DPU nothing goes there and nobody is queued.
WayInv ==
  /\ Told(fromDpu, Tier) /\ \A c \in Clients : Own(up[c], c) /\ Back(down[c], c, Tier)
  /\ ~Forward => /\ toDpu = << >> /\ cores = << >> /\ fromDpu = << >>
                 /\ \A k \in Keys : swKeys[k].waiters = << >>

\* A client's ACQUIRE is its last request for a key under way, and a GRANT the only one.
OrderInv ==
  /\ Final(cores, "ACQUIRE", Req) /\ Final(toDpu, "ACQUIRE", Req) /\ Final(fromDpu, "GRANT", Gr)
  /\ \A c \in Clients : Final(up[c], "ACQUIRE", Req) /\ Final(down[c], "GRANT", Gr)
  /\ \A k \in Keys : Once(Entry(k).waiters)

\* c has a request for k, or an ACQUIRE, on its way to the table; a GRANT on its way
\* back; a place in the queue.
Wants(c, k) == Has(cores, Req, c, k) \/ Has(toDpu, Req, c, k) \/ Has(up[c], Req, c, k)
Asks(c, k) == Has(cores, Ask, c, k) \/ Has(toDpu, Ask, c, k) \/ Has(up[c], Ask, c, k)
Given(c, k) == Has(fromDpu, Gr, c, k) \/ Has(down[c], Gr, c, k)
Queued(c, k) == Waits(Entry(k).waiters, c)

\* c is at one place at most: asking, queued, given the lock or holding it.  Only a
\* RELEASE may still be under way while it asks again.
PlaceInv(c, k) ==
  /\ client[<<c, k>>] = "idle" => ~Asks(c, k) /\ ~Queued(c, k) /\ ~Given(c, k)
  /\ Asks(c, k) => ~Holds(c, k) /\ ~Queued(c, k) /\ ~Given(c, k)
  /\ Queued(c, k) => ~Holds(c, k) /\ ~Given(c, k) /\ ~Wants(c, k) /\ Entry(k).holder # c
  /\ Given(c, k) => ~Holds(c, k) /\ ~Wants(c, k) /\ Entry(k).holder = c
  /\ Holds(c, k) => ~Wants(c, k) /\ Entry(k).holder = c /\ client[<<c, k>>] = Tier

\* And in one queue: what follows on the way to the table, what leads on the way back.
QueueInv(c, k) ==
  /\ Has(cores, Ask, c, k) => ~Has(toDpu, Req, c, k) /\ ~Has(up[c], Req, c, k)
  /\ Has(toDpu, Ask, c, k) => ~Has(up[c], Req, c, k)
  /\ ~(Has(fromDpu, Gr, c, k) /\ Has(down[c], Gr, c, k))

PairInv == \A c \in Clients, k \in Keys : PlaceInv(c, k) /\ QueueInv(c, k)

HcopInv == TypeInv /\ WayInv /\ OrderInv /\ PairInv

\* The entry of a key.
LEMMA EntryType ==
  ASSUME TypeInv, NEW k \in Keys
  PROVE  Entry(k) \in KeyState
  BY DEF TypeInv, Entry

\* The table in use changes only with the placement or its table.
LEMMA SameTable ==
  ASSUME UNCHANGED <<place, swKeys, dpuKeys>>
  PROVE  (Forward' <=> Forward) /\ Tier' = Tier /\ \A k \in Keys : Entry(k)' = Entry(k)
  BY DEF Forward, Tier, Entry

\* A pair for which less is under way, or nothing changes.
LessPair(c, k) ==
  /\ client'[<<c, k>>] = client[<<c, k>>] /\ Entry(k)'.holder = Entry(k).holder /\ Tier' = Tier
  /\ Queued(c, k)' => Queued(c, k)
  /\ Has(cores, Ask, c, k)' => Has(cores, Ask, c, k)
  /\ Has(cores, Req, c, k)' => Has(cores, Req, c, k)
  /\ Has(toDpu, Ask, c, k)' => Has(toDpu, Ask, c, k)
  /\ Has(toDpu, Req, c, k)' => Has(toDpu, Req, c, k)
  /\ Has(up[c], Ask, c, k)' => Has(up[c], Ask, c, k)
  /\ Has(up[c], Req, c, k)' => Has(up[c], Req, c, k)
  /\ Has(fromDpu, Gr, c, k)' => Has(fromDpu, Gr, c, k)
  /\ Has(down[c], Gr, c, k)' => Has(down[c], Gr, c, k)

\* Such a pair keeps its part of the invariant.
LEMMA LessPairKeeps ==
  ASSUME NEW c \in Clients, NEW k \in Keys, PlaceInv(c, k), QueueInv(c, k), LessPair(c, k)
  PROVE  PlaceInv(c, k)' /\ QueueInv(c, k)'
  <1>1. /\ Asks(c, k)' => Asks(c, k)
        /\ Wants(c, k)' => Wants(c, k)
        /\ Given(c, k)' => Given(c, k)
    BY Zenon DEF LessPair, Asks, Wants, Given
  <1>2. Holds(c, k)' <=> Holds(c, k)
    BY Zenon DEF LessPair, Holds
  <1>3. /\ client'[<<c, k>>] = client[<<c, k>>] /\ Entry(k)'.holder = Entry(k).holder /\ Tier' = Tier
        /\ Queued(c, k)' => Queued(c, k)
    BY Zenon DEF LessPair
  <1>4. PlaceInv(c, k)'
    BY <1>1, <1>2, <1>3, Zenon DEF PlaceInv
  <1>5. QueueInv(c, k)'
    BY Zenon DEF LessPair, QueueInv
  <1> QED
    BY <1>4, <1>5, Zenon

-----------------------------------------------------------------------------
(* Clients. *)

\* A client sends a request f, as it gets or leaves a lock.
Sends(c, k, ty, v) ==
  /\ up' = [up EXCEPT ![c] = Append(@, Request(ty, c, k))]
  /\ client' = [client EXCEPT ![<<c, k>>] = v]
  /\ UNCHANGED <<place, swKeys, dpuKeys, down, toDpu, fromDpu, cores>>

\* SendAcquire and SendRelease keep the invariant.
LEMMA SendKeeps ==
  ASSUME HcopInv, NEW c \in Clients, NEW k \in Keys, NEW ty \in Req, NEW v, Sends(c, k, ty, v),
         \/ ty = "ACQUIRE" /\ v = "asked" /\ client[<<c, k>>] = "idle"
         \/ ty = "RELEASE" /\ v = "idle" /\ Holds(c, k)
  PROVE  HcopInv'
  <1> DEFINE f == Request(ty, c, k)
  <1>1. f \in RequestFrame /\ f.type = ty /\ f.id = c /\ f.key = k /\ f.exc = "none"
    BY DEF RequestFrame, Request
  <1>0. up' = [up EXCEPT ![c] = Append(up[c], f)]
    BY DEF Sends
  <1> HIDE DEF f
  <1>2. up \in [Clients -> Seq(RequestFrame)] /\ up[c] \in Seq(RequestFrame)
        /\ Append(up[c], f) \in Seq(RequestFrame)
    BY <1>1, AppendAt DEF HcopInv, TypeInv
  <1>3. /\ up' \in [Clients -> Seq(RequestFrame)]
        /\ up'[c] = Append(up[c], f) /\ \A d \in Clients \ {c} : up'[d] = up[d]
    BY <1>0, <1>2, ExceptAt, Zenon
  <1>4. /\ place' = place /\ swKeys' = swKeys /\ dpuKeys' = dpuKeys /\ down' = down
        /\ toDpu' = toDpu /\ fromDpu' = fromDpu /\ cores' = cores
    BY Zenon DEF Sends
  <1>5. (Forward' <=> Forward) /\ Tier' = Tier /\ \A j \in Keys : Entry(j)' = Entry(j)
    BY <1>4, SameTable, Zenon
  <1>6. client'[<<c, k>>] = v /\ \A d \in Clients, j \in Keys : d # c \/ j # k => client'[<<d, j>>] = client[<<d, j>>]
    BY DEF Sends, HcopInv, TypeInv
  <1>7. TypeInv'
    <2>1. up' \in [Clients -> Seq(RequestFrame)]
      BY <1>3
    <2>2. client' \in [Clients \X Keys -> {"idle", "asked", "waits", "switch", "dpu"}]
      BY DEF Sends, HcopInv, TypeInv
    <2> QED
      BY <1>4, <2>1, <2>2, Zenon DEF HcopInv, TypeInv
  <1>8. WayInv'
    <2>1. Own(up[c], c) /\ \A d \in Clients : Own(up[d], d)
      BY Zenon DEF HcopInv, WayInv
    <2>2. Own(Append(up[c], f), c)
      BY <1>1, <1>2, <2>1, WayAppend, Zenon
    <2>3. \A d \in Clients : Own(up'[d], d)
      BY <1>3, <2>1, <2>2, Zenon
    <2> QED
      BY <1>4, <1>5, <2>3, Zenon DEF HcopInv, WayInv
  <1>9. PlaceInv(c, k) /\ QueueInv(c, k)
    BY Zenon DEF HcopInv, PairInv
  <1>10. ~Asks(c, k) /\ ~Queued(c, k) /\ ~Given(c, k)
    BY <1>9, Zenon DEF PlaceInv
  <1>11. OrderInv'
    <2>1. ASSUME NEW d \in Clients
          PROVE  Final(up[d], "ACQUIRE", Req)'
      <3>1. Final(up[d], "ACQUIRE", Req)
        BY Zenon DEF HcopInv, OrderInv
      <3>2. CASE d = c
        <4>1. ~Has(up[c], {"ACQUIRE"}, f.id, f.key)
          BY <1>1, <1>10, Zenon DEF Asks, Ask
        <4>2. Final(Append(up[c], f), "ACQUIRE", Req)
          BY <1>1, <1>2, <3>1, <3>2, <4>1, FinalAppend, Zenon
        <4> QED
          BY <1>3, <3>2, <4>2, Zenon
      <3>3. CASE d # c
        BY <1>3, <3>1, <3>3, Zenon
      <3> QED
        BY <3>2, <3>3, Zenon
    <2> QED
      BY <1>4, <1>5, <2>1, Zenon DEF HcopInv, OrderInv
  <1>12. ASSUME NEW d \in Clients, NEW j \in Keys
         PROVE  PlaceInv(d, j)' /\ QueueInv(d, j)'
    <2>1. PlaceInv(d, j) /\ QueueInv(d, j)
      BY Zenon DEF HcopInv, PairInv
    <2>2. CASE d # c \/ j # k
      <3>1. /\ Has(up[d], Ask, d, j)' <=> Has(up[d], Ask, d, j)
            /\ Has(up[d], Req, d, j)' <=> Has(up[d], Req, d, j)
        <4>1. CASE d # c
          BY <1>3, <4>1, Zenon
        <4>2. CASE d = c /\ j # k
          <5>1. ASSUME NEW T PROVE Has(Append(up[c], f), T, c, j) <=> Has(up[c], T, c, j)
            BY <1>1, <1>2, <4>2, HasAppend
          <5> QED
            BY <1>3, <4>2, <5>1, Zenon
        <4> QED
          BY <2>2, <4>1, <4>2, Zenon
      <3>2. LessPair(d, j)
        BY <1>4, <1>5, <1>6, <2>2, <3>1, Zenon DEF LessPair, Queued
      <3> QED
        BY <2>1, <3>2, LessPairKeeps, Zenon
    <2>3. CASE d = c /\ j = k
      <3>1. Has(up[c], Ask, c, k)' => ty = "ACQUIRE"
        <4>1. ty \in Ask => ty = "ACQUIRE"
          BY Zenon DEF Ask
        <4>2. Has(Append(up[c], f), Ask, c, k) => ty \in Ask \/ Has(up[c], Ask, c, k)
          BY <1>1, <1>2, HasAppend
        <4> QED
          BY <1>3, <1>10, <4>1, <4>2, Zenon DEF Asks
      <3>2. ~Has(cores, Ask, c, k)' /\ ~Has(toDpu, Ask, c, k)' /\ ~Given(c, k)' /\ ~Queued(c, k)'
        BY <1>4, <1>5, <1>10, Zenon DEF Asks, Given, Queued
      <3>3. ~Holds(c, k)' /\ (client'[<<c, k>>] = "idle" => ty = "RELEASE") /\ ty \in {"ACQUIRE", "RELEASE"}
        BY <1>6 DEF Holds, Req
      <3>4. Asks(c, k)' => ty = "ACQUIRE"
        BY <3>1, <3>2, Zenon DEF Asks
      <3>5. PlaceInv(c, k)'
        BY <3>2, <3>3, <3>4, Zenon DEF PlaceInv
      <3>6. QueueInv(c, k)'
        BY <3>2, Zenon DEF QueueInv, Given
      <3> QED
        BY <2>3, <3>5, <3>6, Zenon
    <2> QED
      BY <2>2, <2>3, Zenon
  <1> QED
    BY <1>7, <1>8, <1>11, <1>12, Zenon DEF HcopInv, PairInv

-----------------------------------------------------------------------------
(* The table. *)

\* What a request of type ty from c does to an entry e, which becomes n, and to whom
\* the lock is granted, kFree for nobody.
Turn(e, n, c, ty, to) ==
  \/ n = e /\ to = kFree
  \/ ty = "ACQUIRE" /\ e.holder \in {kFree, c} /\ n.holder = c /\ n.waiters = e.waiters /\ to = c
  \/ /\ ty = "ACQUIRE" /\ e.holder # c /\ n.holder = e.holder /\ to = kFree
     /\ n.waiters = Append(e.waiters, [id |-> c, lease |-> 1])
  \/ /\ ty = "RELEASE" /\ e.holder = c /\ e.waiters = << >> /\ to = kFree
     /\ n.holder = kFree /\ n.waiters = << >>
  \/ /\ ty = "RELEASE" /\ e.holder = c /\ e.waiters # << >> /\ to = Head(e.waiters).id
     /\ n.holder = to /\ n.waiters = Tail(e.waiters)

\* The same, in terms of who holds the lock and who waits for it.
Effect(e, n, c, ty, to) ==
  \/ n.holder = e.holder /\ to = kFree /\ \A d : Waits(n.waiters, d) => Waits(e.waiters, d)
  \/ /\ ty = "ACQUIRE" /\ e.holder \in {kFree, c} /\ n.holder = c /\ to = c
     /\ \A d : Waits(n.waiters, d) => Waits(e.waiters, d)
  \/ /\ ty = "ACQUIRE" /\ e.holder # c /\ n.holder = e.holder /\ to = kFree
     /\ \A d : Waits(n.waiters, d) => Waits(e.waiters, d) \/ d = c
  \/ /\ ty = "RELEASE" /\ e.holder = c /\ n.holder = to /\ (to # kFree => Waits(e.waiters, to))
     /\ \A d : Waits(n.waiters, d) => Waits(e.waiters, d) /\ d # to

\* What a turn of the table means for the holder and for those who wait.
LEMMA TurnEffect ==
  ASSUME NEW e \in KeyState, NEW n, NEW c \in Clients, NEW ty, NEW to, Turn(e, n, c, ty, to),
         Once(e.waiters), ty = "ACQUIRE" => ~Waits(e.waiters, c)
  PROVE  Effect(e, n, c, ty, to) /\ Once(n.waiters)
  <1> DEFINE Waiter == [id : Clients, lease : Nat]
             q == [id |-> c, lease |-> 1]
  <1>1. e.waiters \in Seq(Waiter) /\ q \in Waiter /\ q.id = c
    BY DEF KeyState
  <1> HIDE DEF Waiter, q
  <1>2. CASE n = e /\ to = kFree
    BY <1>2, Zenon DEF Effect
  <1>3. CASE ty = "ACQUIRE" /\ e.holder \in {kFree, c} /\ n.holder = c /\ n.waiters = e.waiters /\ to = c
    BY <1>3, Zenon DEF Effect
  <1>4. CASE /\ ty = "ACQUIRE" /\ e.holder # c /\ n.holder = e.holder /\ to = kFree
             /\ n.waiters = Append(e.waiters, q)
    <2>1. Once(n.waiters) /\ \A d : Waits(n.waiters, d) => Waits(e.waiters, d) \/ d = c
      BY <1>1, <1>4, WaitsAppend
    <2> QED
      BY <1>4, <2>1, Zenon DEF Effect
  <1>5. CASE /\ ty = "RELEASE" /\ e.holder = c /\ e.waiters = << >> /\ to = kFree
             /\ n.holder = kFree /\ n.waiters = << >>
    <2>1. Once(n.waiters) /\ \A d : ~Waits(n.waiters, d)
      BY <1>5 DEF Once, Waits
    <2> QED
      BY <1>5, <2>1, Zenon DEF Effect
  <1>6. CASE /\ ty = "RELEASE" /\ e.holder = c /\ e.waiters # << >> /\ to = Head(e.waiters).id
             /\ n.holder = to /\ n.waiters = Tail(e.waiters)
    <2>1. /\ Once(n.waiters) /\ Waits(e.waiters, to) /\ ~Waits(n.waiters, to)
          /\ \A d : Waits(n.waiters, d) => Waits(e.waiters, d)
      BY <1>1, <1>6, WaitsTail
    <2> QED
      BY <1>6, <2>1, Zenon DEF Effect
  <1> QED
    BY <1>2, <1>3, <1>4, <1>5, <1>6, Zenon DEF Turn, q

\* Requests of c for k that are under way: no more than before.
Fewer(c, k) ==
  /\ Has(cores, Ask, c, k)' => Has(cores, Ask, c, k)
  /\ Has(cores, Req, c, k)' => Has(cores, Req, c, k)
  /\ Has(toDpu, Ask, c, k)' => Has(toDpu, Ask, c, k)
  /\ Has(toDpu, Req, c, k)' => Has(toDpu, Req, c, k)
  /\ Has(up[c], Ask, c, k)' => Has(up[c], Ask, c, k)
  /\ Has(up[c], Req, c, k)' => Has(up[c], Req, c, k)

\* A GRANT for k to the client to, and no other, is put on one way back.
Gives(to, k) ==
  \/ \A d \in Clients, j \in Keys :
       /\ Has(fromDpu, Gr, d, j)' => Has(fromDpu, Gr, d, j) \/ (d = to /\ j = k)
       /\ Has(down[d], Gr, d, j)' => Has(down[d], Gr, d, j)
  \/ \A d \in Clients, j \in Keys :
       /\ Has(down[d], Gr, d, j)' => Has(down[d], Gr, d, j) \/ (d = to /\ j = k)
       /\ Has(fromDpu, Gr, d, j)' => Has(fromDpu, Gr, d, j)

\* The table in use serves a request from c for k.
Served(c, k, ty, to) ==
  /\ client' = client /\ Tier' = Tier
  /\ \A d \in Clients, j \in Keys : Fewer(d, j)
  /\ \A j \in Keys \ {k} : Entry(j)' = Entry(j)
  /\ Wants(c, k) /\ (ty = "ACQUIRE" => Asks(c, k) /\ ~Wants(c, k)')
  /\ Effect(Entry(k), Entry(k)', c, ty, to) /\ Gives(to, k)

\* A request served by the table in use keeps the invariant for all pairs.
LEMMA ServeKeeps ==
  ASSUME PairInv, NEW c \in Clients, NEW k \in Keys, NEW ty, NEW to \in Clients \cup {kFree},
         Served(c, k, ty, to)
  PROVE  PairInv'
  <1> SUFFICES ASSUME NEW d \in Clients, NEW j \in Keys
               PROVE  PlaceInv(d, j)' /\ QueueInv(d, j)'
    BY Zenon DEF PairInv
  <1>1. PlaceInv(d, j) /\ QueueInv(d, j) /\ PlaceInv(c, k)
    BY Zenon DEF PairInv
  <1>2. client' = client /\ Tier' = Tier /\ Fewer(d, j)
    BY Zenon DEF Served
  <1>3. /\ Asks(d, j)' => Asks(d, j)
        /\ Wants(d, j)' => Wants(d, j)
    BY <1>2, Zenon DEF Fewer, Asks, Wants
  <1>4. Holds(d, j)' <=> Holds(d, j)
    BY <1>2, Zenon DEF Holds
  <1>5. Given(d, j)' => Given(d, j) \/ (d = to /\ j = k)
    BY Zenon DEF Served, Gives, Given
  <1>6. kFree \notin Clients
    BY PlacementAssumption
  <1>7. Wants(c, k) /\ (ty = "ACQUIRE" => Asks(c, k) /\ ~Wants(c, k)')
    BY Zenon DEF Served
  <1>8. CASE j # k
    <2>1. Entry(j)' = Entry(j)
      BY <1>8, Zenon DEF Served
    <2>2. LessPair(d, j)
      BY <1>2, <1>8, <2>1, Zenon DEF LessPair, Fewer, Queued, Served, Gives
    <2> QED
      BY <1>1, <2>2, LessPairKeeps, Zenon
  <1>9. CASE j = k
    <2> DEFINE e == Entry(k)
               n == Entry(k)'
    <2>1. QueueInv(d, k)' <=> ~(Has(fromDpu, Gr, d, k)' /\ Has(down[d], Gr, d, k)')
      BY <1>1, <1>2, <1>9, Zenon DEF QueueInv, Fewer
    <2>2. ASSUME to # d \/ ~Given(d, k) PROVE QueueInv(d, k)'
      BY <1>1, <1>9, <2>1, <2>2, Zenon DEF Served, Gives, Given, QueueInv
    <2>3. CASE n.holder = e.holder /\ to = kFree /\ \A x : Waits(n.waiters, x) => Waits(e.waiters, x)
      <3>1. to # d
        BY <1>6, <2>3, Zenon
      <3>2. Queued(d, k)' => Queued(d, k)
        BY <2>3, Zenon DEF Queued
      <3>3. PlaceInv(d, k)'
        BY <1>1, <1>2, <1>3, <1>4, <1>5, <1>9, <2>3, <3>1, <3>2, Zenon DEF PlaceInv
      <3> QED
        BY <1>9, <2>2, <3>1, <3>3, Zenon
    <2>4. CASE /\ ty = "ACQUIRE" /\ e.holder \in {kFree, c} /\ n.holder = c /\ to = c
               /\ \A x : Waits(n.waiters, x) => Waits(e.waiters, x)
      <3>1. Queued(d, k)' => Queued(d, k)
        BY <2>4, Zenon DEF Queued
      <3>2. CASE d = c
        <4>1. ~Holds(d, k) /\ ~Queued(d, k) /\ ~Given(d, k) /\ client[<<d, k>>] # "idle" /\ ~Wants(d, k)'
          BY <1>1, <1>7, <1>9, <2>4, <3>2, Zenon DEF PlaceInv
        <4>2. ~Asks(d, k)'
          <5>1. Ask \subseteq Req
            BY DEF Ask, Req
          <5> QED
            BY <4>1, <5>1, Zenon DEF Asks, Wants, Has
        <4>3. PlaceInv(d, k)'
          BY <1>2, <1>4, <1>9, <2>4, <3>1, <3>2, <4>1, <4>2, Zenon DEF PlaceInv
        <4> QED
          BY <1>9, <2>2, <4>1, <4>3, Zenon
      <3>3. CASE d # c
        <4>1. e.holder # d
          BY <1>6, <2>4, <3>3
        <4>2. ~Holds(d, k) /\ ~Given(d, k)
          BY <1>1, <1>9, <4>1, Zenon DEF PlaceInv
        <4>3. PlaceInv(d, k)'
          BY <1>1, <1>2, <1>3, <1>4, <1>5, <1>9, <2>4, <3>1, <3>3, <4>2, Zenon DEF PlaceInv
        <4> QED
          BY <1>9, <2>2, <4>2, <4>3, Zenon
      <3> QED
        BY <3>2, <3>3, Zenon
    <2>5. CASE /\ ty = "ACQUIRE" /\ e.holder # c /\ n.holder = e.holder /\ to = kFree
               /\ \A x : Waits(n.waiters, x) => Waits(e.waiters, x) \/ x = c
      <3>1. to # d
        BY <1>6, <2>5, Zenon
      <3>2. Queued(d, k)' => Queued(d, k) \/ d = c
        BY <2>5, Zenon DEF Queued
      <3>3. CASE d = c
        <4>1. ~Holds(d, k) /\ ~Given(d, k) /\ client[<<d, k>>] # "idle" /\ ~Wants(d, k)'
          BY <1>1, <1>7, <1>9, <2>5, <3>3, Zenon DEF PlaceInv
        <4>2. ~Asks(d, k)'
          <5>1. Ask \subseteq Req
            BY DEF Ask, Req
          <5> QED
            BY <4>1, <5>1, Zenon DEF Asks, Wants, Has
        <4>3. PlaceInv(d, k)'
          BY <1>2, <1>4, <1>5, <1>9, <2>5, <3>1, <3>3, <4>1, <4>2, Zenon DEF PlaceInv
        <4> QED
          BY <1>9, <2>2, <3>1, <4>3, Zenon
      <3>4. CASE d # c
        <4>1. PlaceInv(d, k)'
          BY <1>1, <1>2, <1>3, <1>4, <1>5, <1>9, <2>5, <3>1, <3>2, <3>4, Zenon DEF PlaceInv
        <4> QED
          BY <1>9, <2>2, <3>1, <4>1, Zenon
      <3> QED
        BY <3>3, <3>4, Zenon
    <2>6. CASE /\ ty = "RELEASE" /\ e.holder = c /\ n.holder = to /\ (to # kFree => Waits(e.waiters, to))
               /\ \A x : Waits(n.waiters, x) => Waits(e.waiters, x) /\ x # to
      <3>1. (Queued(d, k)' => Queued(d, k) /\ d # to) /\ (d = to => Queued(d, k))
        BY <1>6, <2>6, Zenon DEF Queued
      <3>2. CASE d = to
        <4>1. /\ ~Holds(d, k) /\ ~Given(d, k) /\ client[<<d, k>>] # "idle" /\ ~Wants(d, k) /\ ~Asks(d, k)
              /\ ~Queued(d, k)'
          BY <1>1, <1>9, <3>1, <3>2, Zenon DEF PlaceInv
        <4>2. PlaceInv(d, k)'
          BY <1>2, <1>3, <1>4, <1>9, <2>6, <3>2, <4>1, Zenon DEF PlaceInv
        <4> QED
          BY <1>9, <2>2, <4>1, <4>2, Zenon
      <3>3. CASE d # to
        <4>1. ~Holds(d, k) /\ ~Given(d, k)
          BY <1>1, <1>7, <1>9, <2>6, Zenon DEF PlaceInv
        <4>2. PlaceInv(d, k)'
          BY <1>1, <1>2, <1>3, <1>4, <1>5, <1>9, <2>6, <3>1, <3>3, <4>1, Zenon DEF PlaceInv
        <4> QED
          BY <1>9, <2>2, <3>3, <4>2, Zenon
      <3> QED
        BY <3>2, <3>3, Zenon
    <2> QED
      BY <2>3, <2>4, <2>5, <2>6, Zenon DEF Served, Effect
  <1> QED
    BY <1>8, <1>9, Zenon

-----------------------------------------------------------------------------
(* The other steps. *)

\* A client takes an answer.
LEMMA ReceiveKeeps ==
  ASSUME HcopInv, NEW c \in Clients, Receive(c)
  PROVE  HcopInv'
  <1> DEFINE f == Head(down[c])
             v == IF f.type = "GRANT" THEN f.tier ELSE "waits"
  <1>1. down \in [Clients -> Seq(AnswerFrame)] /\ down[c] \in Seq(AnswerFrame) /\ down[c] # << >>
    BY DEF HcopInv, TypeInv, Receive
  <1>2. f \in AnswerFrame /\ Tail(down[c]) \in Seq(AnswerFrame)
    BY <1>1, TailAt
  <1>3. Back(down[c], c, Tier) /\ Final(down[c], "GRANT", Gr)
    BY Zenon DEF HcopInv, WayInv, OrderInv
  <1>4. Back(Tail(down[c]), c, Tier) /\ f.id = c /\ f.tier = Tier
    BY <1>1, <1>3, WayTail
  <1>5. /\ Final(Tail(down[c]), "GRANT", Gr)
        /\ f.type = "GRANT" => ~Has(Tail(down[c]), Gr, c, f.key)
    BY <1>1, <1>3, <1>4, FinalTail
  <1>6. /\ down' = [down EXCEPT ![c] = Tail(down[c])]
        /\ client' = [client EXCEPT ![<<c, f.key>>] = v]
    BY DEF Receive
  <1>7. /\ down' \in [Clients -> Seq(AnswerFrame)]
        /\ down'[c] = Tail(down[c]) /\ \A d \in Clients \ {c} : down'[d] = down[d]
    BY <1>1, <1>2, <1>6, ExceptAt, Zenon
  <1>8. f.key \in Keys /\ f.type \in {"GRANT", "DENY"} /\ v \in {"waits", "switch", "dpu"}
    BY <1>2 DEF AnswerFrame
  <1>9. /\ f.type = "GRANT" => v = Tier /\ v \in {"switch", "dpu"}
        /\ f.type # "GRANT" => v = "waits"
    BY <1>4, <1>8 DEF Tier
  <1> DEFINE k == f.key
  <1> HIDE DEF f, v, k
  <1>10. k \in Keys /\ k = f.key
    BY <1>8 DEF k
  <1>11. /\ client' \in [Clients \X Keys -> {"idle", "asked", "waits", "switch", "dpu"}]
         /\ client'[<<c, k>>] = v
         /\ \A d \in Clients, j \in Keys : d # c \/ j # k => client'[<<d, j>>] = client[<<d, j>>]
    BY <1>6, <1>8, <1>10 DEF HcopInv, TypeInv
  <1>12. /\ place' = place /\ swKeys' = swKeys /\ dpuKeys' = dpuKeys /\ up' = up
         /\ toDpu' = toDpu /\ fromDpu' = fromDpu /\ cores' = cores
    BY Zenon DEF Receive
  <1>13. (Forward' <=> Forward) /\ Tier' = Tier /\ \A j \in Keys : Entry(j)' = Entry(j)
    BY <1>12, SameTable, Zenon
  <1>14. TypeInv'
    BY <1>7, <1>11, <1>12, Zenon DEF HcopInv, TypeInv
  <1>15. WayInv'
    <2>1. \A d \in Clients : Back(down'[d], d, Tier)
      BY <1>4, <1>7, Zenon DEF HcopInv, WayInv
    <2> QED
      BY <1>12, <1>13, <2>1, Zenon DEF HcopInv, WayInv
  <1>16. OrderInv'
    <2>1. \A d \in Clients : Final(down'[d], "GRANT", Gr)
      BY <1>5, <1>7, Zenon DEF HcopInv, OrderInv
    <2> QED
      BY <1>12, <1>13, <2>1, Zenon DEF HcopInv, OrderInv
  <1>17. ASSUME NEW d \in Clients, NEW j \in Keys
         PROVE  PlaceInv(d, j)' /\ QueueInv(d, j)'
    <2>1. PlaceInv(d, j) /\ QueueInv(d, j)
      BY Zenon DEF HcopInv, PairInv
    <2>2. Has(down[d], Gr, d, j)' => Has(down[d], Gr, d, j)
      <3>1. Has(Tail(down[c]), Gr, c, j) => Has(down[c], Gr, c, j)
        BY <1>1, HasTail
      <3> QED
        BY <1>7, <3>1, Zenon
    <2>3. CASE d # c \/ j # k
      <3>1. LessPair(d, j)
        BY <1>11, <1>12, <1>13, <2>2, <2>3, Zenon DEF LessPair, Queued
      <3> QED
        BY <2>1, <3>1, LessPairKeeps, Zenon
    <2>4. CASE d = c /\ j = k
      <3>1. QueueInv(d, j)'
        BY <1>12, <2>1, <2>2, Zenon DEF QueueInv
      <3>2. /\ (Asks(d, j)' <=> Asks(d, j)) /\ (Wants(d, j)' <=> Wants(d, j))
            /\ (Given(d, j)' => Given(d, j)) /\ (Queued(d, j)' <=> Queued(d, j))
        BY <1>12, <1>13, <2>2, Zenon DEF Asks, Wants, Given, Queued
      <3>3. CASE f.type = "GRANT"
        <4>1. Has(down[c], Gr, c, k)
          <5>1. f.type \in Gr
            BY <3>3 DEF Gr
          <5> QED
            BY <1>1, <1>4, <1>10, <5>1, HasTail DEF f
        <4>2. Given(d, j) /\ ~Has(fromDpu, Gr, d, j)
          BY <2>1, <2>4, <4>1, Zenon DEF QueueInv, Given
        <4>3. ~Given(d, j)'
          BY <1>5, <1>7, <1>10, <1>12, <2>4, <3>3, <4>2, Zenon DEF Given
        <4>4. ~Asks(d, j) /\ ~Wants(d, j) /\ ~Queued(d, j) /\ Entry(j).holder = d
          BY <2>1, <4>2, Zenon DEF PlaceInv
        <4>5. client'[<<d, j>>] = Tier
          BY <1>9, <1>11, <2>4, <3>3, Zenon
        <4>6. PlaceInv(d, j)'
          BY <1>13, <3>2, <4>3, <4>4, <4>5, Zenon DEF PlaceInv
        <4> QED
          BY <3>1, <4>6, Zenon
      <3>4. CASE f.type # "GRANT"
        <4>1. client'[<<d, j>>] # "idle" /\ ~Holds(d, j)'
          BY <1>9, <1>11, <2>4, <3>4 DEF Holds
        <4>2. PlaceInv(d, j)'
          BY <1>13, <2>1, <3>2, <4>1, Zenon DEF PlaceInv
        <4> QED
          BY <3>1, <4>2, Zenon
      <3> QED
        BY <3>3, <3>4, Zenon
    <2> QED
      BY <2>3, <2>4, Zenon
  <1> QED
    BY <1>14, <1>15, <1>16, <1>17, Zenon DEF HcopInv, PairInv

\* The switch passes a request on to the DPU, or floods it if there is none.
LEMMA PassOnKeeps ==
  ASSUME HcopInv, OneTable, Forward, NEW c \in Clients, SwitchFromClient(c)
  PROVE  HcopInv'
  <1> DEFINE f == Head(up[c])
             k == f.key
  <1>1. /\ up \in [Clients -> Seq(RequestFrame)] /\ up[c] \in Seq(RequestFrame) /\ up[c] # << >>
        /\ toDpu \in Seq(RequestFrame)
    BY DEF HcopInv, TypeInv, SwitchFromClient
  <1>2. f \in RequestFrame /\ Tail(up[c]) \in Seq(RequestFrame)
    BY <1>1, TailAt
  <1>3. Own(up[c], c) /\ Final(up[c], "ACQUIRE", Req) /\ Final(toDpu, "ACQUIRE", Req)
    BY Zenon DEF HcopInv, WayInv, OrderInv
  <1>4. Own(Tail(up[c]), c) /\ f.id = c /\ f.exc = "none"
    BY <1>1, <1>3, WayTail, Zenon
  <1>5. /\ Final(Tail(up[c]), "ACQUIRE", Req)
        /\ f.type = "ACQUIRE" => ~Has(Tail(up[c]), Req, c, k)
    BY <1>1, <1>3, <1>4, FinalTail
  <1>6. /\ up' = [up EXCEPT ![c] = Tail(up[c])]
        /\ place' = place /\ dpuKeys' = dpuKeys /\ fromDpu' = fromDpu /\ cores' = cores
        /\ client' = client
    BY DEF SwitchFromClient
  <1>7. (toDpu' = toDpu \/ toDpu' = Append(toDpu, f)) /\ swKeys' = swKeys /\ down' = down
    <2>1. Route(f, FALSE) = IF place.fallback THEN "ToFallback" ELSE "Flood"
      BY DEF Route, Forward
    <2>2. IsRequest(f)
      BY <1>2 DEF RequestFrame, Req, IsRequest
    <2>3. HandlePacket(f, FALSE)
      BY Zenon DEF SwitchFromClient
    <2> HIDE DEF f
    <2> QED
      BY <2>1, <2>2, <2>3 DEF HandlePacket, ToFallback, Flood
  <1>8. k \in Keys /\ f.type \in Req
    BY <1>2 DEF RequestFrame
  <1> HIDE DEF f, k
  <1>9. /\ up' \in [Clients -> Seq(RequestFrame)]
        /\ up'[c] = Tail(up[c]) /\ \A d \in Clients \ {c} : up'[d] = up[d]
    BY <1>1, <1>2, <1>6, ExceptAt, Zenon
  <1>10. toDpu' \in Seq(RequestFrame)
    <2>1. Append(toDpu, f) \in Seq(RequestFrame)
      BY <1>1, <1>2, AppendAt
    <2> QED
      BY <1>1, <1>7, <2>1, Zenon
  <1>11. (Forward' <=> Forward) /\ Tier' = Tier /\ \A j \in Keys : Entry(j)' = Entry(j)
    BY <1>6, <1>7, SameTable, Zenon
  <1>12. TypeInv'
    BY <1>6, <1>7, <1>9, <1>10, Zenon DEF HcopInv, TypeInv
  <1>13. WayInv'
    <2>1. \A d \in Clients : Own(up'[d], d)
      BY <1>4, <1>9, Zenon DEF HcopInv, WayInv
    <2> QED
      BY <1>6, <1>7, <1>11, <2>1, Zenon DEF HcopInv, WayInv
  <1>14. PlaceInv(c, k) /\ QueueInv(c, k)
    BY <1>8, Zenon DEF HcopInv, PairInv
  <1>15. Has(up[c], Req, c, k) /\ (f.type \in Ask => Has(up[c], Ask, c, k))
    BY <1>1, <1>4, <1>8, HasTail DEF f, k
  <1>16. ~Has(cores, Ask, c, k) /\ ~Has(toDpu, Ask, c, k)
    BY <1>14, <1>15, Zenon DEF QueueInv
  <1>17. OrderInv'
    <2>1. \A d \in Clients : Final(up'[d], "ACQUIRE", Req)
      BY <1>5, <1>9, Zenon DEF HcopInv, OrderInv
    <2>2. ~Has(toDpu, {"ACQUIRE"}, f.id, f.key)
      BY <1>4, <1>16, Zenon DEF Ask, k
    <2>3. Final(toDpu', "ACQUIRE", Req)
      BY <1>1, <1>2, <1>3, <1>7, <2>2, FinalAppend, Zenon
    <2> QED
      BY <1>6, <1>7, <1>11, <2>1, <2>3, Zenon DEF HcopInv, OrderInv
  <1>18. ASSUME NEW d \in Clients, NEW j \in Keys
         PROVE  PlaceInv(d, j)' /\ QueueInv(d, j)'
    <2>1. PlaceInv(d, j) /\ QueueInv(d, j)
      BY Zenon DEF HcopInv, PairInv
    <2>2. ASSUME NEW T PROVE Has(up'[d], T, d, j) => Has(up[d], T, d, j)
      <3>1. Has(Tail(up[c]), T, c, j) => Has(up[c], T, c, j)
        BY <1>1, HasTail
      <3> QED
        BY <1>9, <3>1, Zenon
    <2>3. ASSUME NEW T
          PROVE  Has(toDpu', T, d, j) => Has(toDpu, T, d, j) \/ (f.type \in T /\ d = c /\ j = k)
      <3>1. Has(toDpu', T, d, j) => Has(toDpu, T, d, j) \/ (f.type \in T /\ f.id = d /\ f.key = j)
        <4>1. Has(Append(toDpu, f), T, d, j) <=> Has(toDpu, T, d, j) \/ (f.type \in T /\ f.id = d /\ f.key = j)
          BY <1>1, <1>2, HasAppend
        <4> QED
          BY <1>7, <4>1, Zenon
      <3> QED
        BY <1>4, <3>1, Zenon DEF k
    <2>4. CASE d # c \/ j # k
      <3>1. LessPair(d, j)
        BY <1>6, <1>7, <1>11, <2>2, <2>3, <2>4, Zenon DEF LessPair, Queued
      <3> QED
        BY <2>1, <3>1, LessPairKeeps, Zenon
    <2>5. CASE d = c /\ j = k
      <3>1. Has(toDpu', Ask, c, k) => f.type = "ACQUIRE"
        <4>1. f.type \in Ask => f.type = "ACQUIRE"
          BY Zenon DEF Ask
        <4> QED
          BY <1>16, <2>3, <2>5, <4>1, Zenon
      <3>2. QueueInv(d, j)'
        <4>1. Has(toDpu', Ask, c, k) => ~Has(up'[c], Req, c, k)
          BY <1>5, <1>9, <3>1, Zenon
        <4> QED
          BY <1>6, <1>7, <1>16, <2>1, <2>5, <4>1, Zenon DEF QueueInv
      <3>3. /\ Asks(d, j)' => Asks(d, j)
            /\ Wants(d, j)' => Wants(d, j)
        BY <1>6, <1>15, <2>2, <2>3, <2>5, Zenon DEF Asks, Wants
      <3>4. /\ (Given(d, j)' <=> Given(d, j)) /\ (Queued(d, j)' <=> Queued(d, j))
            /\ (Holds(d, j)' <=> Holds(d, j))
        BY <1>6, <1>7, <1>11, Zenon DEF Given, Queued, Holds
      <3>5. PlaceInv(d, j)'
        BY <1>6, <1>11, <2>1, <3>3, <3>4, Zenon DEF PlaceInv
      <3> QED
        BY <3>2, <3>5, Zenon
    <2> QED
      BY <2>4, <2>5, Zenon
  <1> QED
    BY <1>12, <1>13, <1>17, <1>18, Zenon DEF HcopInv, PairInv

\* A request reaches the DPU: a core takes it, or it is sent out again.
LEMMA EthRxKeeps ==
  ASSUME HcopInv, EthRx
  PROVE  HcopInv'
  <1> DEFINE f == Head(toDpu)
             c == f.id
             k == f.key
  <1>1. toDpu \in Seq(RequestFrame) /\ toDpu # << >> /\ cores \in Seq(RequestFrame) /\ fromDpu \in Seq(Frame)
    BY DEF HcopInv, TypeInv, EthRx
  <1>2. f \in RequestFrame /\ Tail(toDpu) \in Seq(RequestFrame)
    BY <1>1, TailAt
  <1>3. c \in Clients /\ k \in Keys /\ f.type \in Req
    BY <1>2 DEF RequestFrame
  <1>4. /\ Final(toDpu, "ACQUIRE", Req) /\ Final(cores, "ACQUIRE", Req) /\ Final(fromDpu, "GRANT", Gr)
        /\ Told(fromDpu, Tier)
    BY Zenon DEF HcopInv, OrderInv, WayInv
  <1>5. /\ Final(Tail(toDpu), "ACQUIRE", Req)
        /\ f.type = "ACQUIRE" => ~Has(Tail(toDpu), Req, c, k)
    BY <1>1, <1>4, FinalTail
  <1>6. /\ toDpu' = Tail(toDpu) /\ place' = place /\ swKeys' = swKeys /\ dpuKeys' = dpuKeys
        /\ up' = up /\ down' = down /\ client' = client
        /\ \/ cores' = Append(cores, f) /\ fromDpu' = fromDpu
           \/ cores' = cores /\ fromDpu' = Append(fromDpu, [f EXCEPT !.exc = "cores"])
    BY DEF EthRx
  <1>7. Forward
    BY <1>1, Zenon DEF HcopInv, WayInv
  <1>8. (Forward' <=> Forward) /\ Tier' = Tier /\ \A j \in Keys : Entry(j)' = Entry(j)
    BY <1>6, SameTable, Zenon
  <1>9. PlaceInv(c, k) /\ QueueInv(c, k)
    BY <1>3, Zenon DEF HcopInv, PairInv
  <1>10. Has(toDpu, Req, c, k) /\ (f.type \in Ask => Has(toDpu, Ask, c, k))
    BY <1>1, <1>3, HasTail
  <1>11. ~Has(cores, Ask, c, k)
    BY <1>9, <1>10, Zenon DEF QueueInv
  <1>12. ASSUME NEW T, NEW d, NEW j PROVE Has(toDpu', T, d, j) => Has(toDpu, T, d, j)
    BY <1>1, <1>6, HasTail
  <1> DEFINE g == [f EXCEPT !.exc = "cores"]
  <1>13. g \in Frame /\ g.type \notin Gr /\ g.type \notin {"GRANT", "DENY"}
    BY <1>2 DEF Frame, RequestFrame, Gr, Req
  <1> HIDE DEF f, c, k, g
  <1>14. CASE cores' = cores /\ fromDpu' = Append(fromDpu, g)
    <2>1. TypeInv'
      <3>1. fromDpu' \in Seq(Frame)
        BY <1>1, <1>13, <1>14, AppendAt
      <3> QED
        BY <1>2, <1>6, <1>14, <3>1, Zenon DEF HcopInv, TypeInv
    <2>2. WayInv'
      <3>1. Told(fromDpu', Tier)
        BY <1>1, <1>4, <1>13, <1>14, WayAppend
      <3> QED
        BY <1>6, <1>7, <1>8, <3>1, Zenon DEF HcopInv, WayInv
    <2>3. OrderInv'
      <3>1. Final(fromDpu', "GRANT", Gr)
        BY <1>1, <1>4, <1>13, <1>14, FinalAppend, Zenon
      <3> QED
        BY <1>5, <1>6, <1>8, <1>14, <3>1, Zenon DEF HcopInv, OrderInv
    <2>4. ASSUME NEW d \in Clients, NEW j \in Keys PROVE PlaceInv(d, j)' /\ QueueInv(d, j)'
      <3>1. PlaceInv(d, j) /\ QueueInv(d, j)
        BY Zenon DEF HcopInv, PairInv
      <3>2. Has(fromDpu', Gr, d, j) => Has(fromDpu, Gr, d, j)
        BY <1>1, <1>13, <1>14, HasAppend
      <3>3. LessPair(d, j)
        BY <1>6, <1>8, <1>12, <1>14, <3>2, Zenon DEF LessPair, Queued
      <3> QED
        BY <3>1, <3>3, LessPairKeeps, Zenon
    <2> QED
      BY <2>1, <2>2, <2>3, <2>4, Zenon DEF HcopInv, PairInv
  <1>15. CASE cores' = Append(cores, f) /\ fromDpu' = fromDpu
    <2>1. TypeInv'
      <3>1. cores' \in Seq(RequestFrame)
        BY <1>1, <1>2, <1>15, AppendAt
      <3> QED
        BY <1>2, <1>6, <1>15, <3>1, Zenon DEF HcopInv, TypeInv
    <2>2. WayInv'
      BY <1>6, <1>7, <1>8, <1>15, Zenon DEF HcopInv, WayInv
    <2>3. OrderInv'
      <3>1. ~Has(cores, {"ACQUIRE"}, f.id, f.key)
        BY <1>11, Zenon DEF Ask, c, k
      <3>2. Final(cores', "ACQUIRE", Req)
        BY <1>1, <1>2, <1>4, <1>15, <3>1, FinalAppend, Zenon
      <3> QED
        BY <1>5, <1>6, <1>8, <1>15, <3>2, Zenon DEF HcopInv, OrderInv
    <2>4. ASSUME NEW d \in Clients, NEW j \in Keys PROVE PlaceInv(d, j)' /\ QueueInv(d, j)'
      <3>1. PlaceInv(d, j) /\ QueueInv(d, j)
        BY Zenon DEF HcopInv, PairInv
      <3>2. ASSUME NEW T
            PROVE  Has(cores', T, d, j) <=> Has(cores, T, d, j) \/ (f.type \in T /\ d = c /\ j = k)
        <4>1. Has(cores', T, d, j) <=> Has(cores, T, d, j) \/ (f.type \in T /\ f.id = d /\ f.key = j)
          BY <1>1, <1>2, <1>15, HasAppend
        <4> QED
          BY <4>1, Zenon DEF c, k
      <3>3. CASE d # c \/ j # k
        <4>1. LessPair(d, j)
          BY <1>6, <1>8, <1>12, <1>15, <3>2, <3>3, Zenon DEF LessPair, Queued
        <4> QED
          BY <3>1, <4>1, LessPairKeeps, Zenon
      <3>4. CASE d = c /\ j = k
        <4>1. Has(cores', Ask, c, k) => f.type \in Ask
          BY <1>11, <3>2, <3>4, Zenon
        <4>2. f.type \in Ask => f.type = "ACQUIRE"
          BY Zenon DEF Ask
        <4>3. Has(cores', Ask, c, k) => ~Has(toDpu', Req, c, k) /\ ~Has(up'[c], Req, c, k)
          BY <1>5, <1>6, <1>9, <1>10, <4>1, <4>2, Zenon DEF QueueInv
        <4>4. QueueInv(d, j)'
          BY <1>6, <1>12, <1>15, <3>1, <3>4, <4>3, Zenon DEF QueueInv
        <4>5. /\ Asks(d, j)' => Asks(d, j)
              /\ Wants(d, j)' => Wants(d, j)
          BY <1>6, <1>10, <1>12, <3>2, <3>4, Zenon DEF Asks, Wants
        <4>6. /\ (Given(d, j)' <=> Given(d, j)) /\ (Queued(d, j)' <=> Queued(d, j))
              /\ (Holds(d, j)' <=> Holds(d, j))
          BY <1>6, <1>8, <1>15, Zenon DEF Given, Queued, Holds
        <4>7. PlaceInv(d, j)'
          BY <1>6, <1>8, <3>1, <4>5, <4>6, Zenon DEF PlaceInv
        <4> QED
          BY <4>4, <4>7, Zenon
      <3> QED
        BY <3>3, <3>4, Zenon
    <2> QED
      BY <2>1, <2>2, <2>3, <2>4, Zenon DEF HcopInv, PairInv
  <1> QED
    BY <1>6, <1>14, <1>15, Zenon DEF g

\* The switch floods what comes from the DPU.
LEMMA FloodKeeps ==
  ASSUME HcopInv, SwitchFromDpu
  PROVE  HcopInv'
  <1> DEFINE f == Head(fromDpu)
             c == f.id
             k == f.key
  <1>1. fromDpu \in Seq(Frame) /\ fromDpu # << >> /\ down \in [Clients -> Seq(AnswerFrame)]
    BY DEF HcopInv, TypeInv, SwitchFromDpu
  <1>2. f \in Frame /\ Tail(fromDpu) \in Seq(Frame)
    BY <1>1, TailAt
  <1>3. Forward
    BY <1>1, Zenon DEF HcopInv, WayInv
  <1>4. Final(fromDpu, "GRANT", Gr) /\ Told(fromDpu, Tier)
    BY Zenon DEF HcopInv, OrderInv, WayInv
  <1>5. /\ Final(Tail(fromDpu), "GRANT", Gr)
        /\ f.type = "GRANT" => ~Has(Tail(fromDpu), Gr, c, k)
    BY <1>1, <1>4, FinalTail
  <1>6. Told(Tail(fromDpu), Tier) /\ (f.type \in {"GRANT", "DENY"} => f.tier = Tier)
    BY <1>1, <1>4, WayTail, Zenon
  <1>7. /\ fromDpu' = Tail(fromDpu) /\ place' = place /\ dpuKeys' = dpuKeys
        /\ up' = up /\ cores' = cores /\ client' = client
    BY DEF SwitchFromDpu
  <1>8. /\ swKeys' = swKeys /\ toDpu' = toDpu
        /\ down' = IF IsRequest(f) THEN down ELSE [down EXCEPT ![c] = Append(down[c], f)]
    <2>1. Route(f, TRUE) = "Flood"
      BY <1>3 DEF Route, Forward
    <2>2. HandlePacket(f, TRUE)
      BY Zenon DEF SwitchFromDpu
    <2> QED
      BY <2>1, <2>2, Zenon DEF HandlePacket, Flood
  <1>9. (Forward' <=> Forward) /\ Tier' = Tier /\ \A j \in Keys : Entry(j)' = Entry(j)
    BY <1>7, <1>8, SameTable, Zenon
  <1>10. IsRequest(f) \/ (f \in AnswerFrame /\ c \in Clients /\ k \in Keys /\ f.type \in {"GRANT", "DENY"})
    BY <1>2 DEF Frame, RequestFrame, AnswerFrame, IsRequest, Req
  <1>11. ASSUME NEW T, NEW d, NEW j PROVE Has(fromDpu', T, d, j) => Has(fromDpu, T, d, j)
    BY <1>1, <1>7, HasTail
  <1>12. f.type \in Gr => Has(fromDpu, Gr, c, k) /\ f.type = "GRANT"
    BY <1>1, HasTail DEF Gr
  <1> HIDE DEF f, c, k
  <1>13. CASE IsRequest(f)
    <2>1. down' = down
      BY <1>8, <1>13, Zenon
    <2>2. TypeInv'
      BY <1>2, <1>7, <1>8, <2>1, Zenon DEF HcopInv, TypeInv
    <2>3. WayInv'
      BY <1>3, <1>6, <1>7, <1>8, <1>9, <2>1, Zenon DEF HcopInv, WayInv
    <2>4. OrderInv'
      BY <1>5, <1>7, <1>8, <1>9, <2>1, Zenon DEF HcopInv, OrderInv
    <2>5. ASSUME NEW d \in Clients, NEW j \in Keys PROVE PlaceInv(d, j)' /\ QueueInv(d, j)'
      <3>1. PlaceInv(d, j) /\ QueueInv(d, j)
        BY Zenon DEF HcopInv, PairInv
      <3>2. LessPair(d, j)
        BY <1>7, <1>8, <1>9, <1>11, <2>1, Zenon DEF LessPair, Queued
      <3> QED
        BY <3>1, <3>2, LessPairKeeps, Zenon
    <2> QED
      BY <2>2, <2>3, <2>4, <2>5, Zenon DEF HcopInv, PairInv
  <1>14. CASE ~IsRequest(f)
    <2>1. f \in AnswerFrame /\ c \in Clients /\ k \in Keys /\ f.type \in {"GRANT", "DENY"} /\ f.tier = Tier
      BY <1>6, <1>10, <1>14, Zenon
    <2>2. down[c] \in Seq(AnswerFrame) /\ Append(down[c], f) \in Seq(AnswerFrame)
      BY <1>1, <2>1, AppendAt
    <2>3. /\ down' \in [Clients -> Seq(AnswerFrame)]
          /\ down'[c] = Append(down[c], f) /\ \A d \in Clients \ {c} : down'[d] = down[d]
      BY <1>1, <1>8, <1>14, <2>1, <2>2, ExceptAt, Zenon
    <2>4. TypeInv'
      BY <1>2, <1>7, <1>8, <2>3, Zenon DEF HcopInv, TypeInv
    <2>5. Back(down[c], c, Tier) /\ Final(down[c], "GRANT", Gr)
      BY <2>1, Zenon DEF HcopInv, OrderInv, WayInv
    <2>6. WayInv'
      <3>1. Back(Append(down[c], f), c, Tier)
        BY <2>1, <2>2, <2>5, WayAppend, Zenon DEF c
      <3>2. \A d \in Clients : Back(down'[d], d, Tier)
        BY <2>3, <3>1, Zenon DEF HcopInv, WayInv
      <3> QED
        BY <1>3, <1>6, <1>7, <1>8, <1>9, <3>2, Zenon DEF HcopInv, WayInv
    <2>7. PlaceInv(c, k) /\ QueueInv(c, k)
      BY <2>1, Zenon DEF HcopInv, PairInv
    <2>8. f.type \in Gr => ~Has(down[c], Gr, c, k)
      BY <1>12, <2>7, Zenon DEF QueueInv
    <2>9. OrderInv'
      <3>1. f.type \in Gr => ~Has(down[c], {"GRANT"}, f.id, f.key)
        BY <2>8, Zenon DEF Gr, c, k
      <3>2. Final(Append(down[c], f), "GRANT", Gr)
        BY <2>1, <2>2, <2>5, <3>1, FinalAppend, Zenon
      <3>3. \A d \in Clients : Final(down'[d], "GRANT", Gr)
        BY <2>3, <3>2, Zenon DEF HcopInv, OrderInv
      <3> QED
        BY <1>5, <1>7, <1>8, <1>9, <3>3, Zenon DEF HcopInv, OrderInv
    <2>10. ASSUME NEW d \in Clients, NEW j \in Keys PROVE PlaceInv(d, j)' /\ QueueInv(d, j)'
      <3>1. PlaceInv(d, j) /\ QueueInv(d, j)
        BY Zenon DEF HcopInv, PairInv
      <3>2. Has(down'[d], Gr, d, j) => Has(down[d], Gr, d, j) \/ (f.type \in Gr /\ d = c /\ j = k)
        <4>1. Has(Append(down[c], f), Gr, c, j) => Has(down[c], Gr, c, j) \/ (f.type \in Gr /\ j = f.key)
          BY <2>1, <2>2, HasAppend
        <4> QED
          BY <2>3, <4>1, Zenon DEF k
      <3>3. CASE ~(f.type \in Gr /\ d = c /\ j = k)
        <4>1. LessPair(d, j)
          BY <1>7, <1>8, <1>9, <1>11, <3>2, <3>3, Zenon DEF LessPair, Queued
        <4> QED
          BY <3>1, <4>1, LessPairKeeps, Zenon
      <3>4. CASE f.type \in Gr /\ d = c /\ j = k
        <4>1. ~Has(fromDpu', Gr, c, k)
          BY <1>5, <1>7, <1>12, <3>4, Zenon
        <4>2. QueueInv(d, j)'
          BY <1>7, <1>8, <3>1, <3>4, <4>1, Zenon DEF QueueInv
        <4>3. Given(d, j)' => Given(d, j)
          BY <1>12, <3>4, Zenon DEF Given
        <4>4. /\ (Asks(d, j)' <=> Asks(d, j)) /\ (Wants(d, j)' <=> Wants(d, j))
              /\ (Holds(d, j)' <=> Holds(d, j)) /\ (Queued(d, j)' <=> Queued(d, j))
          BY <1>7, <1>8, <1>9, Zenon DEF Asks, Wants, Queued, Holds
        <4>5. PlaceInv(d, j)'
          BY <1>7, <1>9, <3>1, <4>3, <4>4, Zenon DEF PlaceInv
        <4> QED
          BY <4>2, <4>5, Zenon
      <3> QED
        BY <3>3, <3>4, Zenon
    <2> QED
      BY <2>4, <2>6, <2>9, <2>10, Zenon DEF HcopInv, PairInv
  <1> QED
    BY <1>13, <1>14, Zenon

-----------------------------------------------------------------------------
(* Requests that reach the table in use. *)

\* What the DPU does to its table and sends for a request f: a GRANT to the client to,
\* or something that is no GRANT.
Sent(f, to, out) ==
  \/ to # kFree /\ out = <<Answer("GRANT", to, f.key, "dpu")>>
  \/ to = kFree /\ out \in {<< >>, <<f>>, <<Answer("DENY", f.id, f.key, "dpu")>>}

\* LockDpuHandler takes one turn of the table and sends accordingly.
LEMMA DpuServes ==
  ASSUME TypeInv, NEW f \in RequestFrame, DpuTable(f)
  PROVE  /\ dpuKeys' \in [Keys -> KeyState]
         /\ \A j \in Keys \ {f.key} : dpuKeys'[j] = dpuKeys[j]
         /\ \E to \in Clients \cup {kFree} :
              Turn(dpuKeys[f.key], dpuKeys'[f.key], f.id, f.type, to) /\ Sent(f, to, DpuOut(f))
  <1> DEFINE c == f.id
             k == f.key
             e == dpuKeys[k]
             st == Dpu!AcquireStatus(k, c)
  <1>1. c \in Clients /\ k \in Keys /\ f.type \in {"ACQUIRE", "RELEASE"}
    BY DEF RequestFrame, Req
  <1>2. /\ dpuKeys \in [Keys -> KeyState] /\ e \in KeyState /\ kFree \notin Clients
        /\ e.holder \in Clients \cup {kFree} /\ e.expiry \in Nat /\ e.waiters \in Seq([id : Clients, lease : Nat])
    BY <1>1, PlacementAssumption, Zenon DEF TypeInv, KeyState
  <1>3. CASE f.type = "RELEASE"
    <2>1. Dpu!Release(k, c, 0) /\ (Dpu!IsHolder(k, c) <=> e.holder = c)
      BY <1>3 DEF DpuTable, Dpu!IsHolder
    <2>2. CASE e.holder # c
      <3>1. dpuKeys' = dpuKeys
        BY <2>1, <2>2 DEF Dpu!Release
      <3>2. DpuOut(f) = << >>
        BY <1>3, <2>1, <2>2 DEF DpuOut
      <3>3. Turn(e, dpuKeys'[k], c, f.type, kFree) /\ Sent(f, kFree, DpuOut(f))
        BY <3>1, <3>2 DEF Turn, Sent
      <3> QED
        BY <1>2, <3>1, <3>3
    <2>3. CASE e.holder = c
      <3> DEFINE n == Dpu!HandOn(k, 0)
      <3>1. dpuKeys' = [dpuKeys EXCEPT ![k] = n]
        BY <2>1, <2>3 DEF Dpu!Release
      <3>2. DpuOut(f) = IF n.holder # kFree THEN <<Answer("GRANT", n.holder, k, "dpu")>> ELSE << >>
        BY <1>3, <2>1, <2>3 DEF DpuOut
      <3>3. CASE e.waiters = << >>
        <4>1. n = [holder |-> kFree, expiry |-> 0, waiters |-> << >>]
          BY <3>3 DEF Dpu!HandOn, Dpu!NoKey
        <4> HIDE DEF n
        <4>2. n \in KeyState
          <5>1. << >> \in Seq([id : Clients, lease : Nat])
            OBVIOUS
          <5> QED
            BY <4>1, <5>1 DEF KeyState
        <4>3. Turn(e, n, c, f.type, kFree) /\ Sent(f, kFree, DpuOut(f))
          BY <1>3, <2>3, <3>2, <3>3, <4>1 DEF Turn, Sent
        <4> QED
          BY <1>1, <1>2, <3>1, <4>2, <4>3
      <3>4. CASE e.waiters # << >>
        <4>1. n = [holder |-> Head(e.waiters).id, expiry |-> 0 + Head(e.waiters).lease, waiters |-> Tail(e.waiters)]
          BY <3>4 DEF Dpu!HandOn
        <4> HIDE DEF n
        <4>2. /\ Head(e.waiters) \in [id : Clients, lease : Nat]
              /\ Tail(e.waiters) \in Seq([id : Clients, lease : Nat])
          BY <1>2, <3>4, TailAt, Zenon
        <4>3. n \in KeyState /\ n.holder \in Clients /\ n.holder # kFree
          <5>1. Head(e.waiters).id \in Clients /\ 0 + Head(e.waiters).lease \in Nat
            BY <4>2
          <5>2. n \in KeyState /\ n.holder = Head(e.waiters).id
            BY <4>1, <4>2, <5>1, Zenon DEF KeyState
          <5> QED
            BY <1>2, <5>1, <5>2
        <4>4. Turn(e, n, c, f.type, n.holder) /\ Sent(f, n.holder, DpuOut(f))
          <5>1. n.holder = Head(e.waiters).id /\ n.waiters = Tail(e.waiters)
            BY <4>1
          <5>2. DpuOut(f) = <<Answer("GRANT", n.holder, k, "dpu")>>
            BY <3>2, <4>3, Zenon
          <5> QED
            BY <1>3, <2>3, <3>4, <4>3, <5>1, <5>2, Zenon DEF Turn, Sent
        <4> QED
          BY <1>1, <1>2, <3>1, <4>3, <4>4
      <3> QED
        BY <3>3, <3>4
    <2> QED
      BY <2>2, <2>3
  <1>4. CASE f.type = "ACQUIRE"
    <2>1. Dpu!Acquire(k, c, 0, 0)
      BY <1>4 DEF DpuTable
    <2>2. /\ st \in {"KeyOverflow", "Granted", "Contention", "Denied"}
          /\ st = "Granted" => e.holder \in {kFree, c}
          /\ st = "Denied" => e.holder # c
      BY DEF Dpu!AcquireStatus, Dpu!IsFree, Dpu!IsHolder
    <2>3. DpuOut(f) = CASE st = "KeyOverflow" -> <<f>>
                        [] st = "Granted" -> <<Answer("GRANT", c, k, "dpu")>>
                        [] OTHER -> <<Answer("DENY", c, k, "dpu")>>
      BY <1>4, <2>2 DEF DpuOut
    <2> HIDE DEF st
    <2>4. CASE st = "Granted"
      <3> DEFINE n == [holder |-> c, expiry |-> 0 + 1, waiters |-> e.waiters]
      <3>1. dpuKeys' = [dpuKeys EXCEPT ![k] = n]
        BY <2>1, <2>4 DEF Dpu!Acquire, Dpu!GrantLock, Dpu!LeaseOf, st
      <3>2. n \in KeyState
        BY <1>1, <1>2 DEF KeyState
      <3>3. Turn(e, n, c, f.type, c) /\ Sent(f, c, DpuOut(f))
        BY <1>1, <1>2, <1>4, <2>2, <2>3, <2>4 DEF Turn, Sent
      <3> HIDE DEF n
      <3> QED
        BY <1>1, <1>2, <3>1, <3>2, <3>3
    <2>5. CASE st # "Granted"
      <3>1. Sent(f, kFree, DpuOut(f))
        BY <2>2, <2>3, <2>5 DEF Sent
      <3>2. CASE dpuKeys' = dpuKeys
        <4>1. Turn(e, dpuKeys'[k], c, f.type, kFree)
          BY <3>2 DEF Turn
        <4> QED
          BY <1>2, <3>1, <3>2, <4>1
      <3>3. CASE dpuKeys' # dpuKeys
        <4> DEFINE w == Append(e.waiters, [id |-> c, lease |-> 1])
                   n == [e EXCEPT !.waiters = w]
        <4>1. st = "Denied" /\ dpuKeys' = [dpuKeys EXCEPT ![k] = n]
          <5>1. st = "Denied" /\ Dpu!Enqueue(k, c, 0)
            BY <2>1, <2>2, <2>5, <3>3 DEF Dpu!Acquire, st
          <5> QED
            BY <3>3, <5>1 DEF Dpu!Enqueue, Dpu!LeaseOf
        <4>2. w \in Seq([id : Clients, lease : Nat])
          BY <1>1, <1>2, AppendAt
        <4>3. n \in KeyState /\ n.holder = e.holder /\ n.waiters = w
          <5> HIDE DEF w
          <5> QED
            BY <1>2, <4>2, Zenon DEF KeyState
        <4>4. Turn(e, n, c, f.type, kFree)
          BY <1>4, <2>2, <4>1, <4>3 DEF Turn
        <4> HIDE DEF n
        <4> QED
          BY <1>1, <1>2, <3>1, <4>1, <4>3, <4>4
      <3> QED
        BY <3>2, <3>3
    <2> QED
      BY <2>4, <2>5
  <1> QED
    BY <1>1, <1>3, <1>4

\* Nobody is given a lock twice.
LEMMA FreshGrant ==
  ASSUME PairInv, NEW c \in Clients, NEW k \in Keys, NEW ty, NEW to \in Clients,
         ty = "ACQUIRE" => Asks(c, k), NEW n, Effect(Entry(k), n, c, ty, to)
  PROVE  ~Given(to, k)
  <1>1. to # kFree
    BY PlacementAssumption
  <1>2. PlaceInv(to, k) /\ PlaceInv(c, k)
    BY Zenon DEF PairInv
  <1>3. (ty = "ACQUIRE" /\ to = c) \/ Queued(to, k)
    BY <1>1, Zenon DEF Effect, Queued
  <1> QED
    BY <1>2, <1>3, Zenon DEF PlaceInv

\* A sequence and one more.
LEMMA ConcatOne ==
  ASSUME NEW S, NEW s \in Seq(S), NEW g \in S
  PROVE  s \o << >> = s /\ s \o <<g>> = Append(s, g)
  OBVIOUS

\* A core of the DPU is done.
LEMMA TimedKeeps ==
  ASSUME HcopInv, Timed
  PROVE  HcopInv'
  <1>1. cores \in Seq(RequestFrame) /\ cores # << >> /\ fromDpu \in Seq(Frame) /\ TypeInv
    BY DEF HcopInv, TypeInv, Timed
  <1>2. Head(cores) \in RequestFrame /\ Tail(cores) \in Seq(RequestFrame)
    BY <1>1, TailAt
  <1> PICK f \in RequestFrame : f = Head(cores)
    BY <1>2, Zenon
  <1> DEFINE c == f.id
             k == f.key
  <1>3. c \in Clients /\ k \in Keys /\ f.type \in Req
    BY <1>2 DEF RequestFrame
  <1>4. Final(cores, "ACQUIRE", Req) /\ Final(fromDpu, "GRANT", Gr) /\ Told(fromDpu, Tier)
    BY Zenon DEF HcopInv, OrderInv, WayInv
  <1>5. /\ Final(Tail(cores), "ACQUIRE", Req)
        /\ f.type = "ACQUIRE" => ~Has(Tail(cores), Req, c, k)
    BY <1>1, <1>4, FinalTail
  <1>6. /\ cores' = Tail(cores) /\ place' = place /\ swKeys' = swKeys /\ up' = up
        /\ down' = down /\ toDpu' = toDpu /\ client' = client
        /\ fromDpu' = fromDpu \o DpuOut(f) /\ DpuTable(f)
    BY DEF Timed
  <1>7. Forward /\ Forward' /\ Tier = "dpu" /\ Tier' = "dpu"
    <2>1. Forward
      BY <1>1, Zenon DEF HcopInv, WayInv
    <2> QED
      BY <1>6, <2>1 DEF Forward, Tier
  <1>8. \A j \in Keys : Entry(j) = dpuKeys[j] /\ Entry(j)' = dpuKeys'[j]
    BY <1>7, Zenon DEF Entry
  <1>9. /\ dpuKeys' \in [Keys -> KeyState] /\ \A j \in Keys \ {k} : Entry(j)' = Entry(j)
        /\ \E to \in Clients \cup {kFree} :
             Turn(Entry(k), dpuKeys'[k], c, f.type, to) /\ Sent(f, to, DpuOut(f))
    BY <1>1, <1>2, <1>3, <1>6, <1>8, DpuServes, Zenon
  <1>10. PICK to \in Clients \cup {kFree} :
           Turn(Entry(k), dpuKeys'[k], c, f.type, to) /\ Sent(f, to, DpuOut(f))
    BY <1>9, Zenon
  <1>11. Has(cores, Req, c, k) /\ (f.type = "ACQUIRE" => Has(cores, Ask, c, k))
    BY <1>1, <1>3, HasTail DEF Ask
  <1>12. ASSUME NEW T, NEW d, NEW j PROVE Has(cores', T, d, j) => Has(cores, T, d, j)
    BY <1>1, <1>6, HasTail
  <1> DEFINE out == DpuOut(f)
             n == dpuKeys'[k]
  <1> HIDE DEF c, k, out, n
  <1>13. PlaceInv(c, k) /\ QueueInv(c, k) /\ PairInv /\ Entry(k) \in KeyState /\ Once(Entry(k).waiters)
    BY <1>1, <1>3, EntryType, Zenon DEF HcopInv, PairInv, OrderInv
  <1>14. /\ Wants(c, k) /\ (f.type = "ACQUIRE" => Asks(c, k))
         /\ f.type = "ACQUIRE" => ~Queued(c, k) /\ ~Has(toDpu, Req, c, k) /\ ~Has(up[c], Req, c, k)
    BY <1>11, <1>13, Zenon DEF Wants, Asks, PlaceInv, QueueInv
  <1>15. Effect(Entry(k), n, c, f.type, to) /\ Once(n.waiters)
    <2>1. f.type = "ACQUIRE" => ~Waits(Entry(k).waiters, c)
      BY <1>14, Zenon DEF Queued
    <2> QED
      BY <1>3, <1>10, <1>13, <2>1, TurnEffect, Zenon DEF n
  <1>16. to \in Clients => ~Given(to, k)
    BY <1>3, <1>13, <1>14, <1>15, FreshGrant, Zenon
  <1>17. \/ fromDpu' = fromDpu
         \/ \E g \in Frame :
              /\ fromDpu' = Append(fromDpu, g)
              /\ g.type \in {"GRANT", "DENY"} => g.tier = "dpu"
              /\ g.type \in Gr => to \in Clients /\ g.id = to /\ g.key = k
    <2>1. CASE to # kFree /\ out = <<Answer("GRANT", to, k, "dpu")>>
      <3> DEFINE g == Answer("GRANT", to, k, "dpu")
      <3>1. g \in Frame /\ g.tier = "dpu" /\ to \in Clients /\ g.id = to /\ g.key = k
        BY <1>3, <2>1 DEF Answer, Frame, AnswerFrame
      <3>2. out = <<g>>
        BY <2>1, Zenon
      <3> HIDE DEF g
      <3>3. fromDpu' = Append(fromDpu, g)
        BY <1>1, <1>6, <3>1, <3>2, ConcatOne, Zenon DEF out
      <3> QED
        BY <3>1, <3>3, Zenon
    <2>2. CASE out = << >>
      BY <1>1, <1>2, <1>6, <2>2, ConcatOne DEF out, Frame
    <2>3. CASE out = <<f>>
      <3>1. f \in Frame /\ f.type \notin {"GRANT", "DENY"} /\ f.type \notin Gr
        BY <1>2 DEF Frame, RequestFrame, Req, Gr
      <3>2. fromDpu' = Append(fromDpu, f)
        BY <1>1, <1>6, <2>3, <3>1, ConcatOne, Zenon DEF out
      <3> QED
        BY <3>1, <3>2, Zenon
    <2>4. CASE out = <<Answer("DENY", c, k, "dpu")>>
      <3> DEFINE g == Answer("DENY", c, k, "dpu")
      <3>1. g \in Frame /\ g.tier = "dpu" /\ g.type \notin Gr
        BY <1>3 DEF Answer, Frame, AnswerFrame, Gr
      <3>2. out = <<g>>
        BY <2>4, Zenon
      <3> HIDE DEF g
      <3>3. fromDpu' = Append(fromDpu, g)
        BY <1>1, <1>6, <3>1, <3>2, ConcatOne, Zenon DEF out
      <3> QED
        BY <3>1, <3>3, Zenon
    <2> QED
      BY <1>10, <2>1, <2>2, <2>3, <2>4 DEF Sent, out, c, k
  <1>18. /\ fromDpu' \in Seq(Frame) /\ Told(fromDpu', Tier) /\ Final(fromDpu', "GRANT", Gr)
         /\ \A d \in Clients, j \in Keys :
              Has(fromDpu', Gr, d, j) => Has(fromDpu, Gr, d, j) \/ (d = to /\ j = k)
    <2>1. CASE fromDpu' = fromDpu
      BY <1>1, <1>4, <2>1, Zenon
    <2>2. ASSUME NEW g \in Frame, fromDpu' = Append(fromDpu, g),
                 g.type \in {"GRANT", "DENY"} => g.tier = "dpu",
                 g.type \in Gr => to \in Clients /\ g.id = to /\ g.key = k
          PROVE  <1>18
      <3>1. fromDpu' \in Seq(Frame)
        BY <1>1, <2>2, AppendAt
      <3>2. Told(fromDpu', Tier)
        BY <1>1, <1>4, <1>7, <2>2, WayAppend
      <3>3. g.type \in Gr => ~Has(fromDpu, {"GRANT"}, g.id, g.key)
        BY <1>16, <2>2, Zenon DEF Given, Gr
      <3>4. Final(fromDpu', "GRANT", Gr)
        BY <1>1, <1>4, <2>2, <3>3, FinalAppend, Zenon
      <3>5. ASSUME NEW d \in Clients, NEW j \in Keys, Has(fromDpu', Gr, d, j)
            PROVE  Has(fromDpu, Gr, d, j) \/ (d = to /\ j = k)
        BY <1>1, <2>2, <3>5, HasAppend
      <3> QED
        BY <3>1, <3>2, <3>4, <3>5, Zenon
    <2> QED
      BY <1>17, <2>1, <2>2, Zenon
  <1>19. TypeInv'
    BY <1>2, <1>6, <1>9, <1>18, Zenon DEF HcopInv, TypeInv
  <1>20. WayInv'
    BY <1>6, <1>7, <1>18, Zenon DEF HcopInv, WayInv
  <1>21. OrderInv'
    <2>1. \A j \in Keys : Once(Entry(j)'.waiters)
      BY <1>3, <1>8, <1>9, <1>15, Zenon DEF HcopInv, OrderInv, n
    <2> QED
      BY <1>5, <1>6, <1>18, <2>1, Zenon DEF HcopInv, OrderInv
  <1>22. Served(c, k, f.type, to)
    <2>1. \A d \in Clients, j \in Keys : Fewer(d, j)
      BY <1>6, <1>12, Zenon DEF Fewer
    <2>2. f.type = "ACQUIRE" => ~(Has(cores', Req, c, k) \/ Has(toDpu', Req, c, k) \/ Has(up'[c], Req, c, k))
      BY <1>5, <1>6, <1>14, Zenon
    <2>3. Gives(to, k)
      BY <1>6, <1>18, Zenon DEF Gives
    <2> QED
      BY <1>6, <1>7, <1>8, <1>9, <1>3, <1>14, <1>15, <2>1, <2>2, <2>3, Zenon DEF Served, Wants, n
  <1>23. PairInv'
    BY <1>3, <1>13, <1>22, ServeKeeps, Zenon
  <1> QED
    BY <1>19, <1>20, <1>21, <1>23, Zenon DEF HcopInv

\* What the switch does to its table and sends for a request f when it has no DPU: it
\* keeps no waiters, and answers nothing but a GRANT.
LEMMA SwServes ==
  ASSUME TypeInv, NEW f \in RequestFrame, HandleLock(f), ~place.fallback,
         \A j \in Keys : swKeys[j].waiters = << >>
  PROVE  /\ swKeys' \in [Keys -> KeyState] /\ toDpu' = toDpu
         /\ \A j \in Keys \ {f.key} : swKeys'[j] = swKeys[j]
         /\ \E to \in Clients \cup {kFree} :
              /\ Turn(swKeys[f.key], swKeys'[f.key], f.id, f.type, to)
              /\ swKeys'[f.key].waiters = << >>
              /\ \/ to = kFree /\ down' = down
                 \/ /\ to = f.id /\ f.type = "ACQUIRE"
                    /\ down' = [down EXCEPT ![f.id] = Append(@, Answer("GRANT", f.id, f.key, "switch"))]
  <1> DEFINE c == f.id
             k == f.key
             e == swKeys[k]
             st == Sw!AcquireStatus(k, c)
             g == Answer("GRANT", c, k, "switch")
  <1>1. c \in Clients /\ k \in Keys /\ f.type \in {"ACQUIRE", "RELEASE"} /\ e.waiters = << >>
    BY DEF RequestFrame, Req
  <1>2. /\ swKeys \in [Keys -> KeyState] /\ e \in KeyState /\ kFree \notin Clients
        /\ e.holder \in Clients \cup {kFree} /\ e.expiry \in Nat
    BY <1>1, PlacementAssumption DEF TypeInv, KeyState
  <1>3. << >> \in Seq([id : Clients, lease : Nat])
    OBVIOUS
  <1>4. \A n \in KeyState : /\ [swKeys EXCEPT ![k] = n] \in [Keys -> KeyState]
                            /\ [swKeys EXCEPT ![k] = n][k] = n
                            /\ \A j \in Keys \ {k} : [swKeys EXCEPT ![k] = n][j] = swKeys[j]
    BY <1>1, <1>2
  <1>5. \A x : ToFallback(x) => toDpu' = toDpu
    BY DEF ToFallback
  <1>6. CASE f.type = "RELEASE"
    <2>1. Sw!Release(k, c, 0) /\ (Sw!IsHolder(k, c) <=> e.holder = c)
      BY <1>6 DEF HandleLock, Sw!IsHolder
    <2>2. LockException(f) = "none" /\ ~ForwardsRelease(f)
      BY <1>6 DEF LockException, ForwardsRelease
    <2>3. down' = down /\ toDpu' = toDpu
      BY <1>6, <2>2 DEF HandleLock
    <2>4. CASE e.holder # c
      <3>1. swKeys' = swKeys
        BY <2>1, <2>4 DEF Sw!Release
      <3>2. Turn(e, swKeys'[k], c, f.type, kFree) /\ swKeys'[k].waiters = << >>
        BY <1>1, <3>1 DEF Turn
      <3> QED
        BY <1>2, <2>3, <3>1, <3>2
    <2>5. CASE e.holder = c
      <3> DEFINE n == [holder |-> kFree, expiry |-> 0, waiters |-> << >>]
      <3>1. swKeys' = [swKeys EXCEPT ![k] = n]
        BY <1>1, <2>1, <2>5 DEF Sw!Release, Sw!HandOn, Sw!NoKey
      <3>2. n \in KeyState
        BY <1>3 DEF KeyState
      <3>3. Turn(e, n, c, f.type, kFree) /\ n.waiters = << >>
        BY <1>1, <1>6, <2>5 DEF Turn
      <3> HIDE DEF n
      <3> QED
        BY <1>4, <2>3, <3>1, <3>2, <3>3
    <2> QED
      BY <2>4, <2>5
  <1>7. CASE f.type = "ACQUIRE"
    <2>1. Sw!Acquire(k, c, 0, 0) /\ ~ForwardsRelease(f)
      BY <1>7 DEF HandleLock, ForwardsRelease
    <2>2. /\ st \in {"KeyOverflow", "Granted", "Contention"}
          /\ st = "Granted" => e.holder \in {kFree, c}
      BY <1>1 DEF Sw!AcquireStatus, Sw!IsFree, Sw!IsHolder
    <2>3. st = "Granted" <=> LockException(f) = "none"
      BY <1>7, <2>2 DEF LockException
    <2> HIDE DEF st
    <2>4. CASE st = "Granted"
      <3> DEFINE n == [holder |-> c, expiry |-> 0 + 1, waiters |-> e.waiters]
      <3>1. swKeys' = [swKeys EXCEPT ![k] = n]
        BY <2>1, <2>4 DEF Sw!Acquire, Sw!GrantLock, Sw!LeaseOf, st
      <3>2. n \in KeyState /\ n.waiters = << >>
        BY <1>1, <1>2, <1>3 DEF KeyState
      <3>3. Turn(e, n, c, f.type, c)
        BY <1>1, <1>7, <2>2, <2>4 DEF Turn
      <3>4. down' = [down EXCEPT ![c] = Append(@, g)] /\ toDpu' = toDpu
        BY <1>7, <2>1, <2>3, <2>4 DEF HandleLock
      <3> HIDE DEF n
      <3> QED
        BY <1>1, <1>4, <1>7, <3>1, <3>2, <3>3, <3>4
    <2>5. CASE st # "Granted"
      <3>1. swKeys' = swKeys
        BY <2>1, <2>2, <2>5 DEF Sw!Acquire, st
      <3>2. down' = down /\ toDpu' = toDpu
        BY <1>5, <2>3, <2>5 DEF HandleLock
      <3>3. Turn(e, swKeys'[k], c, f.type, kFree) /\ swKeys'[k].waiters = << >>
        BY <1>1, <3>1 DEF Turn
      <3> QED
        BY <1>2, <3>1, <3>2, <3>3
    <2> QED
      BY <2>4, <2>5
  <1> QED
    BY <1>1, <1>6, <1>7

\* A request reaches the switch of a placement without a DPU.
LEMMA ProcessKeeps ==
  ASSUME HcopInv, OneTable, ~Forward, NEW c \in Clients, SwitchFromClient(c)
  PROVE  HcopInv'
  <1>1. /\ up \in [Clients -> Seq(RequestFrame)] /\ up[c] \in Seq(RequestFrame) /\ up[c] # << >>
        /\ down \in [Clients -> Seq(AnswerFrame)] /\ down[c] \in Seq(AnswerFrame) /\ TypeInv
    BY DEF HcopInv, TypeInv, SwitchFromClient
  <1>2. Head(up[c]) \in RequestFrame /\ Tail(up[c]) \in Seq(RequestFrame)
    BY <1>1, TailAt
  <1> PICK f \in RequestFrame : f = Head(up[c])
    BY <1>2, Zenon
  <1>3. Own(up[c], c) /\ Final(up[c], "ACQUIRE", Req) /\ Final(down[c], "GRANT", Gr) /\ Back(down[c], c, Tier)
    BY Zenon DEF HcopInv, WayInv, OrderInv
  <1>4. Own(Tail(up[c]), c) /\ f.id = c /\ f.exc = "none"
    BY <1>1, <1>3, WayTail, Zenon
  <1> DEFINE k == f.key
  <1>5. /\ Final(Tail(up[c]), "ACQUIRE", Req)
        /\ f.type = "ACQUIRE" => ~Has(Tail(up[c]), Req, c, k)
    BY <1>1, <1>3, <1>4, FinalTail, Zenon
  <1>6. k \in Keys /\ f.type \in Req
    BY DEF RequestFrame
  <1>7. /\ up' = [up EXCEPT ![c] = Tail(up[c])]
        /\ place' = place /\ dpuKeys' = dpuKeys /\ fromDpu' = fromDpu /\ cores' = cores
        /\ client' = client /\ HandlePacket(f, FALSE)
    BY Zenon DEF SwitchFromClient
  <1>8. ~Forward' /\ Tier = "switch" /\ Tier' = "switch"
    BY <1>7 DEF Forward, Tier
  <1>9. /\ toDpu = << >> /\ cores = << >> /\ fromDpu = << >>
        /\ \A j \in Keys : swKeys[j].waiters = << >>
    BY Zenon DEF HcopInv, WayInv
  <1>10. ~place.fallback
    BY DEF OneTable, Forward
  <1>11. HandleLock(f)
    <2>1. Route(f, FALSE) = "Process"
      BY <1>4 DEF Route, Forward
    <2> QED
      BY <1>7, <2>1, Zenon DEF HandlePacket
  <1>12. \A j \in Keys : Entry(j) = swKeys[j] /\ Entry(j)' = swKeys'[j]
    BY <1>8, Zenon DEF Entry
  <1>13. /\ swKeys' \in [Keys -> KeyState] /\ toDpu' = toDpu
         /\ \A j \in Keys \ {k} : swKeys'[j] = swKeys[j]
         /\ \E to \in Clients \cup {kFree} :
              /\ Turn(swKeys[k], swKeys'[k], c, f.type, to)
              /\ swKeys'[k].waiters = << >>
              /\ \/ to = kFree /\ down' = down
                 \/ /\ to = c /\ f.type = "ACQUIRE"
                    /\ down' = [down EXCEPT ![c] = Append(@, Answer("GRANT", c, k, "switch"))]
    BY <1>1, <1>4, <1>9, <1>10, <1>11, SwServes, Zenon
  <1>14. PICK to \in Clients \cup {kFree} :
           /\ Turn(Entry(k), swKeys'[k], c, f.type, to)
           /\ swKeys'[k].waiters = << >>
           /\ \/ to = kFree /\ down' = down
              \/ /\ to = c /\ f.type = "ACQUIRE"
                 /\ down' = [down EXCEPT ![c] = Append(down[c], Answer("GRANT", c, k, "switch"))]
    <2>1. Entry(k) = swKeys[k]
      BY <1>6, <1>12, Zenon
    <2> QED
      BY <1>13, <2>1
  <1>15. Has(up[c], Req, c, k) /\ (f.type = "ACQUIRE" => Has(up[c], Ask, c, k))
    BY <1>1, <1>4, <1>6, HasTail, Zenon DEF Ask
  <1>16. /\ up' \in [Clients -> Seq(RequestFrame)]
         /\ up'[c] = Tail(up[c]) /\ \A d \in Clients \ {c} : up'[d] = up[d]
    BY <1>1, <1>2, <1>7, ExceptAt, Zenon
  <1>17. ASSUME NEW T, NEW d \in Clients, NEW j \in Keys
         PROVE  Has(up'[d], T, d, j) => Has(up[d], T, d, j)
    <2>1. Has(Tail(up[c]), T, c, j) => Has(up[c], T, c, j)
      BY <1>1, HasTail
    <2> QED
      BY <1>16, <2>1, Zenon
  <1> DEFINE n == swKeys'[k]
  <1> HIDE DEF k, n
  <1>18. PlaceInv(c, k) /\ PairInv /\ Entry(k) \in KeyState /\ Once(Entry(k).waiters)
    BY <1>1, <1>6, EntryType, Zenon DEF HcopInv, PairInv, OrderInv
  <1>19. /\ Wants(c, k) /\ (f.type = "ACQUIRE" => Asks(c, k))
         /\ f.type = "ACQUIRE" => ~Queued(c, k)
    BY <1>15, <1>18, Zenon DEF Wants, Asks, PlaceInv
  <1>20. Effect(Entry(k), n, c, f.type, to) /\ Once(n.waiters)
    <2>1. f.type = "ACQUIRE" => ~Waits(Entry(k).waiters, c)
      BY <1>19, Zenon DEF Queued
    <2> QED
      BY <1>14, <1>18, <2>1, TurnEffect, Zenon DEF n
  <1>21. to \in Clients => ~Given(to, k)
    BY <1>6, <1>18, <1>19, <1>20, FreshGrant, Zenon
  <1>22. /\ down' \in [Clients -> Seq(AnswerFrame)]
         /\ \A d \in Clients : Back(down'[d], d, Tier) /\ Final(down'[d], "GRANT", Gr)
         /\ \A d \in Clients, j \in Keys :
              Has(down'[d], Gr, d, j) => Has(down[d], Gr, d, j) \/ (d = to /\ j = k)
    <2>1. CASE down' = down
      BY <1>1, <2>1, Zenon DEF HcopInv, WayInv, OrderInv
    <2>2. CASE to = c /\ down' = [down EXCEPT ![c] = Append(down[c], Answer("GRANT", c, k, "switch"))]
      <3> DEFINE g == Answer("GRANT", c, k, "switch")
      <3>1. g \in AnswerFrame /\ g.type = "GRANT" /\ g.id = c /\ g.key = k /\ g.tier = Tier
        BY <1>6, <1>8 DEF Answer, AnswerFrame
      <3>2. down' = [down EXCEPT ![c] = Append(down[c], g)]
        BY <2>2, Zenon
      <3> HIDE DEF g
      <3>3. Append(down[c], g) \in Seq(AnswerFrame)
        BY <1>1, <3>1, AppendAt
      <3>4. /\ down' \in [Clients -> Seq(AnswerFrame)]
            /\ down'[c] = Append(down[c], g) /\ \A d \in Clients \ {c} : down'[d] = down[d]
        BY <1>1, <3>2, <3>3, ExceptAt, Zenon
      <3>5. Back(down'[c], c, Tier)
        <4>1. Back(Append(down[c], g), c, Tier)
          BY <1>1, <1>3, <3>1, WayAppend, Zenon
        <4> QED
          BY <3>4, <4>1, Zenon
      <3>6. ~Has(down[c], {"GRANT"}, g.id, g.key)
        BY <1>21, <2>2, <3>1, Zenon DEF Given, Gr
      <3>7. Final(down'[c], "GRANT", Gr)
        <4>1. Final(Append(down[c], g), "GRANT", Gr)
          BY <1>1, <1>3, <3>1, <3>6, FinalAppend, Zenon
        <4> QED
          BY <3>4, <4>1, Zenon
      <3>8. ASSUME NEW j \in Keys, Has(down'[c], Gr, c, j) PROVE Has(down[c], Gr, c, j) \/ j = k
        BY <1>1, <3>1, <3>4, <3>8, HasAppend
      <3>9. \A d \in Clients : Back(down'[d], d, Tier) /\ Final(down'[d], "GRANT", Gr)
        BY <3>4, <3>5, <3>7, Zenon DEF HcopInv, WayInv, OrderInv
      <3> QED
        BY <2>2, <3>4, <3>8, <3>9, Zenon
    <2> QED
      BY <1>14, <2>1, <2>2, Zenon
  <1>23. TypeInv'
    BY <1>7, <1>13, <1>16, <1>22, Zenon DEF HcopInv, TypeInv
  <1>24. WayInv'
    <2>1. \A d \in Clients : Own(up'[d], d)
      BY <1>4, <1>16, Zenon DEF HcopInv, WayInv
    <2>2. \A j \in Keys : swKeys'[j].waiters = << >>
      BY <1>9, <1>13, <1>14, Zenon
    <2>3. Tier' = Tier
      BY <1>8, Zenon
    <2> QED
      BY <1>7, <1>9, <1>13, <1>22, <2>1, <2>2, <2>3, Zenon DEF HcopInv, WayInv
  <1>25. OrderInv'
    <2>1. \A j \in Keys : Once(Entry(j)'.waiters)
      BY <1>6, <1>12, <1>13, <1>20, Zenon DEF HcopInv, OrderInv, n
    <2>2. \A d \in Clients : Final(up'[d], "ACQUIRE", Req)
      BY <1>5, <1>16, Zenon DEF HcopInv, OrderInv
    <2> QED
      BY <1>7, <1>13, <1>22, <2>1, <2>2, Zenon DEF HcopInv, OrderInv
  <1>26. Served(c, k, f.type, to)
    <2>1. \A d \in Clients, j \in Keys : Fewer(d, j)
      BY <1>7, <1>13, <1>17, Zenon DEF Fewer
    <2>2. f.type = "ACQUIRE" => ~Wants(c, k)'
      <3>1. ~Has(cores, Req, c, k) /\ ~Has(toDpu, Req, c, k)
        BY <1>9 DEF Has
      <3> QED
        BY <1>5, <1>7, <1>13, <1>16, <3>1, Zenon DEF Wants
    <2>3. Gives(to, k)
      BY <1>7, <1>22, Zenon DEF Gives
    <2>4. Entry(k)' = n /\ \A j \in Keys \ {k} : Entry(j)' = Entry(j)
      BY <1>6, <1>12, <1>13, Zenon DEF n
    <2> QED
      BY <1>7, <1>8, <1>19, <1>20, <2>1, <2>2, <2>3, <2>4, Zenon DEF Served
  <1>27. PairInv'
    BY <1>6, <1>18, <1>26, ServeKeeps, Zenon
  <1> QED
    BY <1>23, <1>24, <1>25, <1>27, Zenon DEF HcopInv

-----------------------------------------------------------------------------
(* The theorems. *)

\* The invariant holds at first.
LEMMA HcopInit ==
  ASSUME Init
  PROVE  HcopInv
  <1>1. /\ \A T, c, k : ~Has(<< >>, T, c, k)
        /\ \A t, T : Final(<< >>, t, T)
        /\ \A c : Own(<< >>, c) /\ ~Waits(<< >>, c)
        /\ \A c, t : Back(<< >>, c, t) /\ Told(<< >>, t)
        /\ Once(<< >>)
    BY DEF Has, Final, Own, Back, Told, Waits, Once
  <1>2. \A k \in Keys : Entry(k).waiters = << >> /\ swKeys[k].waiters = << >>
    BY DEF Init, Sw!KeysInit, Dpu!KeysInit, Sw!NoKey, Dpu!NoKey, Entry
  <1>3. /\ toDpu = << >> /\ fromDpu = << >> /\ cores = << >>
        /\ \A c \in Clients : up[c] = << >> /\ down[c] = << >>
        /\ \A c \in Clients, k \in Keys : client[<<c, k>>] = "idle"
    BY DEF Init
  <1>4. TypeInv
    <2>1. << >> \in Seq([id : Clients, lease : Nat])
      OBVIOUS
    <2>2. Sw!NoKey \in KeyState /\ Dpu!NoKey \in KeyState
      BY <2>1 DEF Sw!NoKey, Dpu!NoKey, KeyState
    <2>3. swKeys \in [Keys -> KeyState] /\ dpuKeys \in [Keys -> KeyState]
      BY <2>2, Zenon DEF Init, Sw!KeysInit, Dpu!KeysInit
    <2> QED
      BY <2>3 DEF Init, TypeInv
  <1>5. WayInv
    BY <1>1, <1>2, <1>3, Zenon DEF WayInv
  <1>6. OrderInv
    BY <1>1, <1>2, <1>3, Zenon DEF OrderInv
  <1>7. PairInv
    <2> SUFFICES ASSUME NEW c \in Clients, NEW k \in Keys
                 PROVE  PlaceInv(c, k) /\ QueueInv(c, k)
      BY Zenon DEF PairInv
    <2>1. ~Asks(c, k) /\ ~Wants(c, k) /\ ~Given(c, k) /\ ~Queued(c, k)
      BY <1>1, <1>2, <1>3, Zenon DEF Asks, Wants, Given, Queued
    <2>2. ~Holds(c, k)
      BY <1>3 DEF Holds
    <2>3. PlaceInv(c, k)
      BY <2>1, <2>2, Zenon DEF PlaceInv
    <2>4. QueueInv(c, k)
      BY <1>1, <1>3, Zenon DEF QueueInv
    <2> QED
      BY <2>3, <2>4, Zenon
  <1> QED
    BY <1>4, <1>5, <1>6, <1>7, Zenon DEF HcopInv

\* And every step keeps it, where one table is in use.
LEMMA HcopStep ==
  ASSUME HcopInv, OneTable, [Next]_vars
  PROVE  HcopInv'
  <1>1. ASSUME NEW c \in Clients, NEW k \in Keys, SendAcquire(c, k) PROVE HcopInv'
    <2>1. Sends(c, k, "ACQUIRE", "asked") /\ client[<<c, k>>] = "idle" /\ "ACQUIRE" \in Req
      BY <1>1 DEF SendAcquire, Sends, Req
    <2> QED
      BY <2>1, SendKeeps, Zenon
  <1>2. ASSUME NEW c \in Clients, NEW k \in Keys, SendRelease(c, k) PROVE HcopInv'
    <2>1. Sends(c, k, "RELEASE", "idle") /\ Holds(c, k) /\ "RELEASE" \in Req
      BY <1>2 DEF SendRelease, Sends, Req
    <2> QED
      BY <2>1, SendKeeps, Zenon
  <1>3. ASSUME NEW c \in Clients, SwitchFromClient(c) PROVE HcopInv'
    BY <1>3, PassOnKeeps, ProcessKeeps, Zenon
  <1>4. ASSUME UNCHANGED vars PROVE HcopInv'
    <2>1. /\ place' = place /\ swKeys' = swKeys /\ dpuKeys' = dpuKeys /\ up' = up /\ down' = down
          /\ toDpu' = toDpu /\ fromDpu' = fromDpu /\ cores' = cores /\ client' = client
      BY <1>4 DEF vars
    <2>2. (Forward' <=> Forward) /\ Tier' = Tier /\ \A k \in Keys : Entry(k)' = Entry(k)
      BY <2>1, SameTable, Zenon
    <2>3. ASSUME NEW c \in Clients, NEW k \in Keys PROVE PlaceInv(c, k)' /\ QueueInv(c, k)'
      <3>1. PlaceInv(c, k) /\ QueueInv(c, k)
        BY Zenon DEF HcopInv, PairInv
      <3>2. LessPair(c, k)
        BY <2>1, <2>2, Zenon DEF LessPair, Queued
      <3> QED
        BY <3>1, <3>2, LessPairKeeps, Zenon
    <2>4. TypeInv' /\ WayInv' /\ OrderInv'
      BY <2>1, <2>2, ZenonT(30) DEF HcopInv, TypeInv, WayInv, OrderInv
    <2> QED
      BY <2>3, <2>4, Zenon DEF HcopInv, PairInv
  <1> QED
    BY <1>1, <1>2, <1>3, <1>4, ReceiveKeeps, FloodKeeps, EthRxKeeps, TimedKeeps, Zenon DEF Next

\* The placement of an experiment never changes.
LEMMA PlaceStays ==
  ASSUME [Next]_vars
  PROVE  place' = place
  BY Zenon DEF Next, vars, SendAcquire, SendRelease, Receive, SwitchFromClient, SwitchFromDpu, EthRx, Timed

\* What the invariant says about those who hold a lock.
LEMMA HoldsOnce ==
  ASSUME HcopInv
  PROVE  MutualExclusion /\ HoldersInTable
  <1>1. ASSUME NEW c \in Clients, NEW k \in Keys, Holds(c, k)
        PROVE  Entry(k).holder = c /\ client[<<c, k>>] = Tier
    BY <1>1, Zenon DEF HcopInv, PairInv, PlaceInv
  <1>2. MutualExclusion
    BY <1>1, Zenon DEF MutualExclusion
  <1>3. ASSUME NEW c \in Clients, NEW k \in Keys, client[<<c, k>>] = "switch"
        PROVE  Sw!IsHolder(k, c)
    BY <1>1, <1>3 DEF Holds, Tier, Entry, Sw!IsHolder
  <1>4. ASSUME NEW c \in Clients, NEW k \in Keys, client[<<c, k>>] = "dpu"
        PROVE  Dpu!IsHolder(k, c)
    BY <1>1, <1>4 DEF Holds, Tier, Entry, Dpu!IsHolder
  <1> QED
    BY <1>2, <1>3, <1>4, Zenon DEF HoldersInTable

\* With one table in use every state satisfies HcopInv: every client is at one place at
\* most per key, and only the client that the table names as the holder has the lock or
\* a GRANT under way.
THEOREM HcopOneTable == Spec => [](OneTable => HcopInv)
  <1>1. Init => (OneTable => HcopInv)
    BY HcopInit
  <1>2. (OneTable => HcopInv) /\ [Next]_vars => (OneTable => HcopInv)'
    <2> SUFFICES ASSUME OneTable => HcopInv, [Next]_vars, OneTable' PROVE HcopInv'
      OBVIOUS
    <2>1. OneTable
      BY PlaceStays DEF OneTable
    <2> QED
      BY <2>1, HcopStep
  <1> QED
    BY <1>1, <1>2, PTL DEF Spec

\* In the placements switch_only and dpu_only no two clients hold a lock, for any number
\* of clients, keys and cores and any size of the table: frames that the DPU escalates
\* are lost, and a client may ask again before its release has arrived.
THEOREM HcopExclusion == Spec => []OneTableExclusion
  <1>1. (OneTable => HcopInv) => OneTableExclusion
    BY HoldsOnce DEF OneTableExclusion
  <1> QED
    BY <1>1, HcopOneTable, PTL

\* In the same placements a client that holds a lock is the holder that the table of its
\* tier names.
THEOREM HcopHolders == Spec => [](OneTable => HoldersInTable)
  <1>1. (OneTable => HcopInv) => (OneTable => HoldersInTable)
    BY HoldsOnce
  <1> QED
    BY <1>1, HcopOneTable, PTL

=============================================================================
