----------------------------- MODULE LockProofs -----------------------------
(***************************************************************************)
(* Proofs about LockService: with clients that do not repeat an ACQUIRE    *)
(* after a DENY, LockInv is inductive, and with it mutual exclusion holds  *)
(* for any number of clients and keys, any leases, table and queue sizes.  *)
(***************************************************************************)
EXTENDS LockService, TLAPS

-----------------------------------------------------------------------------
(* Types. *)

\* A pair is a client and a key.
LEMMA PairType ==
  ASSUME NEW p \in Pairs
  PROVE  p[1] \in Clients /\ p[2] \in Keys /\ p = <<p[1], p[2]>>
  BY DEF Pairs

\* A lease is positive, also the default one.
LEMMA LeasePos ==
  ASSUME NEW c \in Clients
  PROVE  LeaseOf(Lease[c]) \in Nat /\ LeaseOf(Lease[c]) > 0
  BY ClientAssumption, TableAssumption DEF LeaseOf

\* A tick keeps expiry times natural numbers and in order.
LEMMA OlderNat ==
  ASSUME NEW e \in Nat
  PROVE  /\ Older(e) \in Nat /\ Older(e) <= e
         /\ (e = 0 <=> Older(e) = 0)
         /\ \A f \in Nat : e <= f => Older(e) <= Older(f)
  BY DEF Older

(* A sequence of answers, one expiry time at a time. *)
LEMMA OlderAnswers ==
  ASSUME NEW q \in Seq(Answer)
  PROVE  LET r == [i \in DOMAIN q |-> [q[i] EXCEPT !.expiry = Older(@)]] IN
         /\ r \in Seq(Answer) /\ DOMAIN r = DOMAIN q
         /\ \A i \in DOMAIN q : r[i].type = q[i].type /\ r[i].expiry = Older(q[i].expiry)
  <1> DEFINE r == [i \in DOMAIN q |-> [q[i] EXCEPT !.expiry = Older(@)]]
  <1>1. DOMAIN q = 1 .. Len(q) /\ Len(q) \in Nat
    OBVIOUS
  <1>2. ASSUME NEW i \in DOMAIN q
        PROVE  /\ r[i] \in Answer
               /\ r[i].type = q[i].type /\ r[i].expiry = Older(q[i].expiry)
    <2>1. q[i] \in Answer
      BY <1>1
    <2> QED
      BY <2>1, OlderNat, Zenon DEF Answer
  <1>3. r \in [1 .. Len(q) -> Answer]
    BY <1>1, <1>2, Zenon
  <1>4. r \in Seq(Answer)
    BY <1>1, <1>3
  <1> QED
    BY <1>2, <1>4, Zenon

\* The parts of a table entry.
LEMMA EntryType ==
  ASSUME TypeOK, NEW k \in Keys
  PROVE  /\ keys[k] \in KeyState /\ keys[k].expiry \in Nat
         /\ keys[k].holder \in Clients \cup {kFree}
         /\ keys[k].waiters \in Seq(Waiter)
         /\ \A i \in DOMAIN keys[k].waiters :
              /\ keys[k].waiters[i] \in Waiter
              /\ keys[k].waiters[i].id \in Clients /\ keys[k].waiters[i].lease \in Nat
  <1>1. keys[k] \in KeyState
    BY Zenon DEF TypeOK
  <1>2. keys[k].waiters \in Seq(Waiter)
    BY <1>1, Zenon DEF KeyState
  <1>3. \A i \in DOMAIN keys[k].waiters : keys[k].waiters[i] \in Waiter
    BY <1>2
  <1> QED
    BY <1>1, <1>2, <1>3, Zenon DEF KeyState, Waiter

(* The entry after its holder is gone. *)
LEMMA HandOnEntry ==
  ASSUME TypeOK, NEW k \in Keys
  PROVE  LET w == keys[k].waiters IN
         /\ HandOn(k, Now) \in KeyState
         /\ w = << >> => HandOn(k, Now) = NoKey
         /\ w # << >> => /\ HandOn(k, Now).holder = Head(w).id
                         /\ HandOn(k, Now).expiry = Now + Head(w).lease
                         /\ HandOn(k, Now).waiters = Tail(w)
                         /\ Head(w).id \in Clients /\ Head(w).lease \in Nat
  <1> DEFINE w == keys[k].waiters
  <1>1. w \in Seq(Waiter) /\ Now \in Nat
    BY EntryType, ClientAssumption, Zenon
  <1>2. CASE w = << >>
    BY <1>2 DEF HandOn, NoKey, KeyState
  <1>3. CASE w # << >>
    <2>1. Head(w) \in Waiter /\ Tail(w) \in Seq(Waiter)
      BY <1>1, <1>3
    <2>2. Head(w).id \in Clients /\ Head(w).lease \in Nat
      BY <2>1, Zenon DEF Waiter
    <2>3. HandOn(k, Now) = [holder |-> Head(w).id, expiry |-> Now + Head(w).lease, waiters |-> Tail(w)]
      BY <1>3, Zenon DEF HandOn
    <2> QED
      BY <1>1, <1>3, <2>1, <2>2, <2>3, SMTT(30) DEF KeyState
  <1> QED
    BY <1>2, <1>3, Zenon

(* Answers of the manager. *)
LEMMA OutType ==
  ASSUME TypeOK, NEW c \in Clients, NEW d \in Clients, NEW k \in Keys
  PROVE  /\ AcquireOut(k, c, Lease[c], Now) \in Seq(Answer)
         /\ ReleaseOut(k, c, d, Now) \in Seq(Answer)
         /\ TimeoutOut(k, d, Now) \in Seq(Answer)
  <1>1. Deny \in Answer /\ Timeout \in Answer
    BY Zenon DEF Deny, Timeout, Answer
  <1>2. Grant(Now + LeaseOf(Lease[c])) \in Answer
    BY LeasePos, ClientAssumption DEF Grant, Answer
  <1>3. keys[k].waiters # << >> => Grant(Now + Head(keys[k].waiters).lease) \in Answer
    BY HandOnEntry, ClientAssumption, SMTT(30) DEF Grant, Answer
  <1>4. AcquireOut(k, c, Lease[c], Now) \in Seq(Answer)
    BY <1>1, <1>2 DEF AcquireOut
  <1>5. ReleaseOut(k, c, d, Now) \in Seq(Answer)
    BY <1>3 DEF ReleaseOut, IsNext
  <1>6. TimeoutOut(k, d, Now) \in Seq(Answer)
    <2> DEFINE t == IF IsHolder(k, d) THEN <<Timeout>> ELSE << >>
               g == IF IsNext(k, d) THEN <<Grant(Now + Head(keys[k].waiters).lease)>> ELSE << >>
    <2>1. t \in Seq(Answer)
      BY <1>1
    <2>2. g \in Seq(Answer)
      BY <1>3 DEF IsNext
    <2>3. TimeoutOut(k, d, Now) = IF ~Expired(k, Now) THEN << >> ELSE t \o g
      BY Zenon DEF TimeoutOut
    <2> HIDE DEF t, g
    <2> QED
      BY <2>1, <2>2, <2>3
  <1> QED
    BY <1>4, <1>5, <1>6, Zenon

\* HandleAcquire keeps the table well typed.
LEMMA AcquireType ==
  ASSUME TypeOK, NEW c \in Clients, NEW k \in Keys, Acquire(k, c, Lease[c], Now)
  PROVE  keys' \in [Keys -> KeyState]
  <1>1. keys[k].waiters \in Seq(Waiter) /\ keys[k] \in KeyState /\ keys \in [Keys -> KeyState]
    BY EntryType, Zenon DEF TypeOK
  <1>2. LeaseOf(Lease[c]) \in Nat /\ Now \in Nat
    BY LeasePos, ClientAssumption, Zenon
  <1>3. CASE GrantLock(k, c, Lease[c], Now)
    BY <1>1, <1>2, <1>3 DEF GrantLock, KeyState
  <1>4. CASE Enqueue(k, c, Lease[c])
    <2>1. [id |-> c, lease |-> LeaseOf(Lease[c])] \in Waiter
      BY <1>2, Zenon DEF Waiter
    <2>2. Append(keys[k].waiters, [id |-> c, lease |-> LeaseOf(Lease[c])]) \in Seq(Waiter)
      BY <1>1, <2>1
    <2> QED
      BY <1>1, <1>4, <2>2, Zenon DEF Enqueue, KeyState
  <1>5. CASE UNCHANGED keys
    BY <1>1, <1>5, Zenon
  <1> QED
    BY <1>3, <1>4, <1>5, Zenon DEF Acquire

(* Type correctness of the table, the channels and the clients. *)
LEMMA TypeKeeps ==
  ASSUME TypeOK, [Next]_vars
  PROVE  TypeOK'
  <1>1. ASSUME NEW c \in Clients, NEW k \in Keys, SendAcquire(c, k)
        PROVE  TypeOK'
    BY <1>1 DEF SendAcquire, TypeOK, Pairs
  <1>2. ASSUME NEW c \in Clients, NEW k \in Keys, SendRelease(c, k)
        PROVE  TypeOK'
    BY <1>2 DEF SendRelease, TypeOK, Pairs
  <1>3. ASSUME NEW c \in Clients, NEW k \in Keys, Receive(c, k)
        PROVE  TypeOK'
    <2> DEFINE p == <<c, k>>
    <2>1. p \in Pairs
      BY Zenon DEF Pairs
    <2>2. resp[p] \in Seq(Answer) /\ resp[p] # << >>
      BY <1>3, <2>1, Zenon DEF Receive, TypeOK
    <2>3. Head(resp[p]) \in Answer /\ Tail(resp[p]) \in Seq(Answer)
      BY <2>2
    <2>4. Head(resp[p]).expiry \in Nat
      BY <2>3, Zenon DEF Answer
    <2> QED
      BY <1>3, <2>1, <2>3, <2>4, Zenon DEF Receive, TypeOK
  <1>4. ASSUME NEW c \in Clients, NEW k \in Keys, HandleAcquire(c, k)
        PROVE  TypeOK'
    <2>1. <<c, k>> \in Pairs
      BY Zenon DEF Pairs
    <2>2. keys' \in [Keys -> KeyState]
      BY <1>4, AcquireType, Zenon DEF HandleAcquire
    <2>3. resp' \in [Pairs -> Seq(Answer)]
      BY <1>4, <2>1, OutType DEF HandleAcquire, TypeOK
    <2>4. req' \in [Pairs -> Seq({"ACQUIRE", "RELEASE"})]
      BY <1>4, <2>1 DEF HandleAcquire, TypeOK
    <2> QED
      BY <1>4, <2>2, <2>3, <2>4, Zenon DEF HandleAcquire, TypeOK, cvars
  <1>5. ASSUME NEW c \in Clients, NEW k \in Keys, HandleRelease(c, k)
        PROVE  TypeOK'
    <2>1. <<c, k>> \in Pairs
      BY Zenon DEF Pairs
    <2>2. keys' \in [Keys -> KeyState]
      BY <1>5, HandOnEntry, Zenon DEF HandleRelease, Release, TypeOK
    <2>3. resp' \in [Pairs -> Seq(Answer)]
      <3> SUFFICES ASSUME NEW q \in Pairs
                   PROVE  resp'[q] \in Seq(Answer)
        BY <1>5, Zenon DEF HandleRelease
      <3>1. resp[q] \in Seq(Answer) /\ ReleaseOut(k, c, q[1], Now) \in Seq(Answer)
        BY OutType, PairType, Zenon DEF TypeOK
      <3>2. resp'[q] = IF q[2] = k THEN resp[q] \o ReleaseOut(k, c, q[1], Now) ELSE resp[q]
        BY <1>5, Zenon DEF HandleRelease
      <3> QED
        BY <3>1, <3>2
    <2>4. req' \in [Pairs -> Seq({"ACQUIRE", "RELEASE"})]
      BY <1>5, <2>1 DEF HandleRelease, TypeOK
    <2> QED
      BY <1>5, <2>2, <2>3, <2>4, Zenon DEF HandleRelease, TypeOK, cvars
  <1>6. CASE Timer
    <2>1. keys' \in [Keys -> KeyState]
      BY <1>6, HandOnEntry, Zenon DEF Timer, CheckTimeouts, TypeOK
    <2>2. ASSUME NEW q \in Pairs
          PROVE  resp'[q] \in Seq(Answer)
      <3>1. resp[q] \in Seq(Answer) /\ TimeoutOut(q[2], q[1], Now) \in Seq(Answer)
        BY OutType, PairType, Zenon DEF TypeOK
      <3>2. resp'[q] = resp[q] \o TimeoutOut(q[2], q[1], Now)
        BY <1>6, Zenon DEF Timer
      <3> QED
        BY <3>1, <3>2
    <2>3. resp' \in [Pairs -> Seq(Answer)]
      BY <1>6, <2>2, Zenon DEF Timer
    <2> QED
      BY <1>6, <2>1, <2>3, Zenon DEF Timer, TypeOK, cvars
  <1>7. CASE Tick
    <2>1. keys' \in [Keys -> KeyState]
      BY <1>7, EntryType, OlderNat, Zenon DEF Tick, KeyState
    <2>2. resp' \in [Pairs -> Seq(Answer)]
      BY <1>7, OlderAnswers DEF Tick, TypeOK
    <2>3. view' \in [Pairs -> Nat]
      BY <1>7, OlderNat, Zenon DEF Tick, TypeOK
    <2> QED
      BY <1>7, <2>1, <2>2, <2>3, Zenon DEF Tick, TypeOK
  <1>8. CASE UNCHANGED vars
    BY <1>8, Zenon DEF vars, cvars, TypeOK
  <1> QED
    BY <1>1, <1>2, <1>3, <1>4, <1>5, <1>6, <1>7, <1>8, Zenon DEF Next, Client, Serve

-----------------------------------------------------------------------------
(* The inductive invariant. *)

\* What is where after an Append.
LEMMA AppendAt ==
  ASSUME NEW S, NEW q \in Seq(S), NEW x \in S
  PROVE  /\ Append(q, x) \in Seq(S) /\ Len(q) \in Nat /\ DOMAIN q = 1 .. Len(q)
         /\ Len(Append(q, x)) = Len(q) + 1 /\ DOMAIN Append(q, x) = 1 .. Len(q) + 1
         /\ Append(q, x)[Len(q) + 1] = x
         /\ \A i \in 1 .. Len(q) : Append(q, x)[i] = q[i]
  OBVIOUS

\* Elements of a concatenation.
LEMMA ConcatAt ==
  ASSUME NEW S, NEW q \in Seq(S), NEW o \in Seq(S)
  PROVE  /\ q \o o \in Seq(S) /\ Len(q) \in Nat /\ Len(o) \in Nat
         /\ DOMAIN q = 1 .. Len(q) /\ DOMAIN o = 1 .. Len(o)
         /\ DOMAIN (q \o o) = 1 .. Len(q) + Len(o)
         /\ \A i \in DOMAIN (q \o o) :
              \/ i \in DOMAIN q /\ (q \o o)[i] = q[i]
              \/ i > Len(q) /\ i - Len(q) \in DOMAIN o /\ (q \o o)[i] = o[i - Len(q)]
  OBVIOUS

(* A pair to which the manager only sends what it may: TIMEOUT, or at last a *)
(* GRANT to a client that was in the queue and leaves it.                    *)
LEMMA PassiveKeeps ==
  ASSUME TypeOK, NEW p \in Pairs, RequestInv(p), AnswerInv(p), NEW o \in Seq(Answer),
         resp'[p] = resp[p] \o o,
         view'[p] = view[p], asked'[p] = asked[p], waits'[p] = waits[p],
         req'[p] = req[p] \/ (req[p] # << >> /\ req'[p] = Tail(req[p])),
         IsWaiting(p[2], p[1])' => IsWaiting(p[2], p[1]),
         \A i \in DOMAIN o : o[i].type # "GRANT" => o[i].type = "TIMEOUT" /\ o[i].expiry = 0,
         \A i \in DOMAIN o : o[i].type = "GRANT" =>
            IsWaiting(p[2], p[1]) /\ ~IsWaiting(p[2], p[1])' /\ i = Len(o)
  PROVE  RequestInv(p)' /\ AnswerInv(p)'
  <1> DEFINE q == resp[p]
             W == IsWaiting(p[2], p[1])
             r == req[p]
             s == req'[p]
  <1>1. q \in Seq(Answer) /\ r \in Seq({"ACQUIRE", "RELEASE"})
    BY Zenon DEF TypeOK
  <1>2. /\ DOMAIN q = 1 .. Len(q) /\ DOMAIN o = 1 .. Len(o) /\ Len(q) \in Nat /\ Len(o) \in Nat
        /\ DOMAIN (q \o o) = 1 .. Len(q) + Len(o)
    BY <1>1, ConcatAt
  <1>3. \A i \in DOMAIN (q \o o) :
           \/ i \in DOMAIN q /\ (q \o o)[i] = q[i]
           \/ i > Len(q) /\ i - Len(q) \in DOMAIN o /\ (q \o o)[i] = o[i - Len(q)]
    BY <1>1, ConcatAt
  <1>4. Quiet(p) => Quiet(p)'
    <2> SUFFICES ASSUME Quiet(p)
                 PROVE  Quiet(p)'
      BY Zenon
    <2>1. ~W /\ ~W' /\ \A i \in DOMAIN q : q[i].type = "TIMEOUT"
      BY Zenon DEF Quiet
    <2>2. \A i \in DOMAIN o : o[i].type = "TIMEOUT"
      BY <2>1, Zenon
    <2>3. \A i \in DOMAIN (q \o o) : (q \o o)[i].type = "TIMEOUT"
      BY <1>3, <2>1, <2>2, Zenon
    <2> QED
      BY <2>1, <2>3, Zenon DEF Quiet
  <1>5. /\ s \in Seq({"ACQUIRE", "RELEASE"})
        /\ \A i \in DOMAIN s : \E j \in DOMAIN r : r[j] = s[i] /\ j - Len(r) = i - Len(s)
    <2>1. CASE s = r
      BY <1>1, <2>1, Zenon
    <2>2. CASE r # << >> /\ s = Tail(r)
      <3>1. s \in Seq({"ACQUIRE", "RELEASE"}) /\ Len(s) = Len(r) - 1 /\ Len(r) \in Nat
        BY <1>1, <2>2
      <3>2. \A i \in DOMAIN s : i + 1 \in DOMAIN r /\ s[i] = r[i + 1]
        BY <1>1, <2>2, <3>1
      <3> QED
        BY <3>1, <3>2
    <2> QED
      BY <2>1, <2>2, Zenon
  <1>6. \A m : Has(p, m)' => Has(p, m)
    BY <1>5, Zenon DEF Has
  <1>7. \A i \in DOMAIN s : s[i] = "ACQUIRE" => i = Len(s)
    <2>1. \A j \in DOMAIN r : r[j] = "ACQUIRE" => j = Len(r)
      BY Zenon DEF RequestInv
    <2>2. Len(s) \in Nat /\ Len(r) \in Nat /\ DOMAIN s \subseteq Nat /\ DOMAIN r \subseteq Nat
      BY <1>1, <1>5, SMTT(30)
    <2> QED
      BY <1>5, <2>1, <2>2
  <1>8. RequestInv(p)'
    BY <1>4, <1>6, <1>7, Zenon DEF RequestInv
  <1>9. AnswerInv(p)'
    <2> SUFFICES ASSUME NEW i \in DOMAIN (q \o o)
                 PROVE  IF (q \o o)[i].type = "GRANT"
                        THEN /\ ~W'
                             /\ \A j \in DOMAIN (q \o o) : j > i => (q \o o)[j].type = "TIMEOUT"
                        ELSE (q \o o)[i].expiry = 0
      BY Zenon DEF AnswerInv
    <2>1. CASE i \in DOMAIN q /\ (q \o o)[i] = q[i]
      <3>1. CASE q[i].type = "GRANT"
        <4>1. ~W /\ \A j \in DOMAIN q : j > i => q[j].type = "TIMEOUT"
          BY <2>1, <3>1, Zenon DEF AnswerInv
        <4>2. \A j \in DOMAIN o : o[j].type = "TIMEOUT"
          BY <4>1, Zenon
        <4>3. \A j \in DOMAIN (q \o o) : j > i => (q \o o)[j].type = "TIMEOUT"
          BY <1>3, <4>1, <4>2, SMTT(30)
        <4> QED
          BY <2>1, <3>1, <4>1, <4>3, Zenon
      <3>2. CASE q[i].type # "GRANT"
        BY <2>1, <3>2, Zenon DEF AnswerInv
      <3> QED
        BY <3>1, <3>2, SMTT(30)
    <2>2. CASE i - Len(q) \in DOMAIN o /\ (q \o o)[i] = o[i - Len(q)]
      <3> DEFINE n == i - Len(q)
      <3>1. n \in DOMAIN o /\ (q \o o)[i] = o[n]
        BY <2>2, Zenon
      <3>2. n = Len(o) => ~ \E j \in DOMAIN (q \o o) : j > i
        BY <1>2
      <3> HIDE DEF n
      <3>3. CASE o[n].type = "GRANT"
        <4>1. n = Len(o) /\ ~W'
          BY <3>1, <3>3, Zenon
        <4> QED
          BY <3>1, <3>2, <3>3, <4>1, Zenon
      <3>4. CASE o[n].type # "GRANT"
        BY <3>1, <3>4, Zenon
      <3> QED
        BY <3>3, <3>4, Zenon
    <2> QED
      BY <1>3, <2>1, <2>2, SMTT(30)
  <1> QED
    BY <1>8, <1>9, Zenon

\* A step that leaves a client alone, or takes it off a queue, keeps its part.
LEMMA SameKeeps ==
  ASSUME NEW p \in Pairs, RequestInv(p), AnswerInv(p),
         IsWaiting(p[2], p[1])' => IsWaiting(p[2], p[1]), resp'[p] = resp[p], req'[p] = req[p],
         view'[p] = view[p], asked'[p] = asked[p], waits'[p] = waits[p]
  PROVE  RequestInv(p)' /\ AnswerInv(p)'
  <1>1. Quiet(p) => Quiet(p)'
    BY Zenon DEF Quiet
  <1>2. Has(p, "RELEASE")' = Has(p, "RELEASE") /\ Has(p, "ACQUIRE")' = Has(p, "ACQUIRE")
    BY Zenon DEF Has
  <1>3. RequestInv(p)'
    BY <1>1, <1>2, Zenon DEF RequestInv
  <1>4. AnswerInv(p)'
    BY Zenon DEF AnswerInv
  <1> QED
    BY <1>3, <1>4, Zenon

-----------------------------------------------------------------------------
(* Steps of the clients. *)

\* Sending an ACQUIRE keeps LockInv.
LEMMA SendAcquireKeeps ==
  ASSUME TypeOK, LockInv, ~Retry, NEW c \in Clients, NEW k \in Keys, SendAcquire(c, k)
  PROVE  LockInv'
  <1> DEFINE p == <<c, k>>
  <1>1. p \in Pairs /\ p[1] = c /\ p[2] = k
    BY Zenon DEF Pairs
  <1>2. /\ \A q \in Pairs : /\ resp'[q] = resp[q] /\ view'[q] = view[q] /\ waits'[q] = waits[q]
                            /\ q # p => req'[q] = req[q] /\ asked'[q] = asked[q]
        /\ keys' = keys /\ resp' = resp /\ view' = view
        /\ req'[p] = Append(req[p], "ACQUIRE") /\ asked'[p] = TRUE
    BY <1>1, Zenon DEF SendAcquire, TypeOK
  <1>3. ~asked[p] /\ (view[p] # 0 \/ ~waits[p]) /\ RequestInv(p)
    BY <1>1, Zenon DEF SendAcquire, LockInv
  <1>4. Quiet(p)
    BY <1>3, Zenon DEF RequestInv
  <1>5. Quiet(p)'
    BY <1>1, <1>2, <1>4, SMTT(30) DEF Quiet, IsWaiting
  <1>6. ~Has(p, "ACQUIRE") /\ (Has(p, "RELEASE") => view[p] = 0)
    BY <1>3, Zenon DEF RequestInv
  <1>7. req[p] \in Seq({"ACQUIRE", "RELEASE"})
    BY <1>1, Zenon DEF TypeOK
  <1>8. /\ DOMAIN req'[p] = 1 .. Len(req[p]) + 1 /\ Len(req'[p]) = Len(req[p]) + 1 /\ Len(req[p]) \in Nat
        /\ req'[p][Len(req[p]) + 1] = "ACQUIRE"
        /\ \A i \in 1 .. Len(req[p]) : req'[p][i] = req[p][i] /\ req[p][i] # "ACQUIRE"
    <2>1. "ACQUIRE" \in {"ACQUIRE", "RELEASE"}
      BY Zenon
    <2>2. \A i \in DOMAIN req[p] : req[p][i] # "ACQUIRE"
      BY <1>6, Zenon DEF Has
    <2>3. /\ DOMAIN req'[p] = 1 .. Len(req[p]) + 1 /\ Len(req'[p]) = Len(req[p]) + 1
          /\ Len(req[p]) \in Nat
          /\ DOMAIN req[p] = 1 .. Len(req[p]) /\ req'[p][Len(req[p]) + 1] = "ACQUIRE"
          /\ \A i \in 1 .. Len(req[p]) : req'[p][i] = req[p][i]
      BY <1>2, <1>7, <2>1, AppendAt
    <2> QED
      BY <2>2, <2>3, SMTT(30)
  <1>9. Has(p, "RELEASE")' => Has(p, "RELEASE")
    BY <1>8, <1>7, SMTT(30) DEF Has
  <1>10. \A i \in DOMAIN req'[p] : req'[p][i] = "ACQUIRE" => i = Len(req'[p])
    BY <1>8, SMTT(30)
  <1>11. RequestInv(p)'
    BY <1>2, <1>5, <1>6, <1>9, <1>10, <1>1, SMTT(30) DEF RequestInv
  <1>12. AnswerInv(p)'
    <2>1. IsWaiting(p[2], p[1])' = IsWaiting(p[2], p[1]) /\ resp'[p] = resp[p]
      BY <1>1, <1>2, Zenon DEF IsWaiting
    <2>2. AnswerInv(p)
      BY <1>1, Zenon DEF LockInv
    <2> QED
      BY <2>1, <2>2, Zenon DEF AnswerInv
  <1>13. \A q \in Pairs : q # p => RequestInv(q)' /\ AnswerInv(q)'
    <2> SUFFICES ASSUME NEW q \in Pairs, q # p
                 PROVE  RequestInv(q)' /\ AnswerInv(q)'
      BY Zenon
    <2>1. IsWaiting(q[2], q[1])' = IsWaiting(q[2], q[1])
      BY <1>2, SMTT(30) DEF IsWaiting
    <2> QED
      BY <1>2, <2>1, SameKeeps, Zenon DEF LockInv
  <1>14. (\A x \in Keys : EntryInv(x)') /\ LeaseHonoured'
    BY <1>2 DEF LockInv, EntryInv, LeaseHonoured, IsFree, IsHolder
  <1> QED
    BY <1>11, <1>12, <1>13, <1>14, Zenon DEF LockInv

\* Sending RELEASE keeps LockInv: the client gives up its view first.
LEMMA SendReleaseKeeps ==
  ASSUME TypeOK, LockInv, NEW c \in Clients, NEW k \in Keys, SendRelease(c, k)
  PROVE  LockInv'
  <1> DEFINE p == <<c, k>>
  <1>1. p \in Pairs /\ p[1] = c /\ p[2] = k
    BY Zenon DEF Pairs
  <1>2. /\ \A q \in Pairs : /\ resp'[q] = resp[q] /\ asked'[q] = asked[q] /\ waits'[q] = waits[q]
                            /\ q # p => req'[q] = req[q] /\ view'[q] = view[q]
        /\ keys' = keys /\ resp' = resp
        /\ req'[p] = Append(req[p], "RELEASE") /\ view'[p] = 0
    BY <1>1, Zenon DEF SendRelease, TypeOK
  <1>3. ~asked[p] /\ view[p] # 0 /\ RequestInv(p)
    BY <1>1, Zenon DEF SendRelease, LockInv
  <1>4. Quiet(p) /\ ~Has(p, "ACQUIRE")
    BY <1>3, Zenon DEF RequestInv
  <1>5. Quiet(p)'
    BY <1>1, <1>2, <1>4, Zenon DEF Quiet, IsWaiting
  <1>6. req[p] \in Seq({"ACQUIRE", "RELEASE"})
    BY <1>1, Zenon DEF TypeOK
  <1>7. \A i \in DOMAIN req'[p] : req'[p][i] # "ACQUIRE"
    <2>1. "RELEASE" \in {"ACQUIRE", "RELEASE"} /\ \A i \in DOMAIN req[p] : req[p][i] # "ACQUIRE"
      BY <1>4, Zenon DEF Has
    <2>2. /\ DOMAIN req'[p] = 1 .. Len(req[p]) + 1 /\ Len(req[p]) \in Nat
          /\ DOMAIN req[p] = 1 .. Len(req[p]) /\ req'[p][Len(req[p]) + 1] = "RELEASE"
          /\ \A i \in 1 .. Len(req[p]) : req'[p][i] = req[p][i]
      BY <1>2, <1>6, <2>1, AppendAt
    <2> QED
      BY <2>1, <2>2, SMTT(30)
  <1>8. RequestInv(p)'
    BY <1>2, <1>5, <1>7, ZenonT(30) DEF RequestInv, Has
  <1>9. AnswerInv(p)'
    <2>1. IsWaiting(p[2], p[1])' = IsWaiting(p[2], p[1]) /\ resp'[p] = resp[p]
      BY <1>1, <1>2, Zenon DEF IsWaiting
    <2>2. AnswerInv(p)
      BY <1>1, Zenon DEF LockInv
    <2> QED
      BY <2>1, <2>2, Zenon DEF AnswerInv
  <1>10. \A q \in Pairs : q # p => RequestInv(q)' /\ AnswerInv(q)'
    <2> SUFFICES ASSUME NEW q \in Pairs, q # p
                 PROVE  RequestInv(q)' /\ AnswerInv(q)'
      BY Zenon
    <2>1. IsWaiting(q[2], q[1])' = IsWaiting(q[2], q[1])
      BY <1>2, SMTT(30) DEF IsWaiting
    <2> QED
      BY <1>2, <2>1, SameKeeps, Zenon DEF LockInv
  <1>11. \A x \in Keys : EntryInv(x)'
    BY <1>2, SMTT(30) DEF LockInv, EntryInv, IsFree, IsHolder
  <1>12. LeaseHonoured'
    <2> SUFFICES ASSUME NEW d \in Clients, NEW x \in Keys,
                        NEW e \in {view'[<<d, x>>]} \cup {resp'[<<d, x>>][i].expiry : i \in DOMAIN resp'[<<d, x>>]},
                        e > Now
                 PROVE  (IsHolder(x, d) /\ keys[x].expiry >= e)'
      BY Zenon DEF LeaseHonoured
    <2>1. <<d, x>> \in Pairs /\ Now \in Nat /\ ~(0 > Now)
      BY ClientAssumption DEF Pairs
    <2>2. e \in {view[<<d, x>>]} \cup {resp[<<d, x>>][i].expiry : i \in DOMAIN resp[<<d, x>>]}
      BY <1>2, <2>1, SMTT(30)
    <2> QED
      BY <1>2, <2>2, Zenon DEF LockInv, LeaseHonoured, IsHolder
  <1> QED
    BY <1>8, <1>9, <1>10, <1>11, <1>12, Zenon DEF LockInv

-----------------------------------------------------------------------------
(* A client's receive step, and the steps that hand a lock on. *)

\* A client that takes an answer keeps LockInv.
LEMMA ReceiveKeeps ==
  ASSUME TypeOK, LockInv, NEW c \in Clients, NEW k \in Keys, Receive(c, k)
  PROVE  LockInv'
  <1> DEFINE p == <<c, k>>
             q == resp[p]
             m == Head(q)
  <1>1. p \in Pairs /\ p[1] = c /\ p[2] = k
    BY Zenon DEF Pairs
  <1>2. /\ \A x \in Pairs : /\ req'[x] = req[x]
                            /\ x # p => /\ resp'[x] = resp[x] /\ view'[x] = view[x]
                                        /\ asked'[x] = asked[x] /\ waits'[x] = waits[x]
        /\ keys' = keys /\ resp'[p] = Tail(q) /\ view'[p] = m.expiry
        /\ asked'[p] = (m.type = "TIMEOUT" /\ asked[p])
        /\ waits'[p] = (m.type = "DENY" \/ (m.type = "TIMEOUT" /\ waits[p]))
    BY <1>1, Zenon DEF Receive, TypeOK
  <1>3. q \in Seq(Answer) /\ q # << >> /\ m \in Answer /\ m = q[1] /\ 1 \in DOMAIN q
    BY <1>1 DEF Receive, TypeOK
  <1>4. m.type \in {"GRANT", "DENY", "TIMEOUT"}
    BY <1>3, Zenon DEF Answer
  <1>5. \A i \in DOMAIN Tail(q) : i + 1 \in DOMAIN q /\ Tail(q)[i] = q[i + 1] /\ i \in Nat /\ i + 1 > 1
    BY <1>3
  <1>6. \A x \in Pairs : IsWaiting(x[2], x[1])' = IsWaiting(x[2], x[1])
    BY <1>2, Zenon DEF IsWaiting
  <1>7. RequestInv(p) /\ AnswerInv(p)
    BY <1>1, Zenon DEF LockInv
  <1>17. /\ resp'[p] = Tail(q) /\ view'[p] = m.expiry
         /\ IsWaiting(p[2], p[1])' = IsWaiting(p[2], p[1])
    BY <1>1, <1>2, <1>6
  <1>8. Quiet(p) => Quiet(p)' /\ m.type = "TIMEOUT"
    BY <1>3, <1>5, <1>17, SMTT(30) DEF Quiet
  <1>9. m.type = "GRANT" => Quiet(p)'
    BY <1>3, <1>5, <1>7, <1>17, SMTT(60) DEF AnswerInv, Quiet
  <1>10. m.type # "GRANT" => m.expiry = 0
    BY <1>3, <1>7, Zenon DEF AnswerInv
  <1>11. Has(p, "RELEASE")' = Has(p, "RELEASE") /\ Has(p, "ACQUIRE")' = Has(p, "ACQUIRE")
    BY <1>1, <1>2 DEF Has
  <1>12. RequestInv(p)'
    <2>1. Has(p, "RELEASE") => Quiet(p) /\ view'[p] = 0
      BY <1>2, <1>7, <1>8, <1>10, Zenon DEF RequestInv
    <2>2. Has(p, "ACQUIRE") => Quiet(p) /\ asked'[p]
      BY <1>2, <1>7, <1>8, Zenon DEF RequestInv
    <2>3. ~asked'[p] /\ (view'[p] # 0 \/ ~waits'[p]) => Quiet(p)'
      <3>1. CASE m.type = "GRANT"
        BY <1>9, <3>1, Zenon
      <3>2. CASE m.type = "DENY"
        BY <1>2, <1>10, <3>2, Zenon
      <3>3. CASE m.type = "TIMEOUT"
        BY <1>2, <1>7, <1>8, <1>10, <3>3, Zenon DEF RequestInv
      <3> QED
        BY <1>4, <3>1, <3>2, <3>3, Zenon
    <2>4. \A i \in DOMAIN req'[p] : req'[p][i] = "ACQUIRE" => i = Len(req'[p])
      BY <1>1, <1>2, <1>7 DEF RequestInv
    <2> QED
      BY <1>8, <1>11, <2>1, <2>2, <2>3, <2>4, Zenon DEF RequestInv
  <1>13. AnswerInv(p)'
    <2> SUFFICES ASSUME NEW i \in DOMAIN Tail(q)
                 PROVE  IF Tail(q)[i].type = "GRANT"
                        THEN /\ ~IsWaiting(p[2], p[1])
                             /\ \A j \in DOMAIN Tail(q) : j > i => Tail(q)[j].type = "TIMEOUT"
                        ELSE Tail(q)[i].expiry = 0
      BY <1>1, <1>2, <1>6, SMTT(30) DEF AnswerInv
    <2>1. i + 1 \in DOMAIN q /\ Tail(q)[i] = q[i + 1]
      BY <1>5, Zenon
    <2>2. \A j \in DOMAIN Tail(q) : j > i => j + 1 \in DOMAIN q /\ j + 1 > i + 1 /\ Tail(q)[j] = q[j + 1]
      BY <1>5
    <2> QED
      BY <1>7, <2>1, <2>2, Zenon DEF AnswerInv
  <1>14. \A x \in Pairs : x # p => RequestInv(x)' /\ AnswerInv(x)'
    BY <1>2, <1>6, SameKeeps, SMTT(30) DEF LockInv
  <1>15. \A x \in Keys : EntryInv(x)'
    BY <1>2 DEF LockInv, EntryInv, IsFree, IsHolder
  <1>16. LeaseHonoured'
    <2> SUFFICES ASSUME NEW d \in Clients, NEW x \in Keys,
                        NEW e \in {view'[<<d, x>>]} \cup {resp'[<<d, x>>][i].expiry : i \in DOMAIN resp'[<<d, x>>]},
                        e > Now
                 PROVE  (IsHolder(x, d) /\ keys[x].expiry >= e)'
      BY Zenon DEF LeaseHonoured
    <2>1. <<d, x>> \in Pairs
      BY Zenon DEF Pairs
    <2>2. e \in {view[<<d, x>>]} \cup {resp[<<d, x>>][i].expiry : i \in DOMAIN resp[<<d, x>>]}
      <3>1. CASE <<d, x>> = p
        <4>1. e \in {m.expiry} \cup {Tail(q)[i].expiry : i \in DOMAIN Tail(q)}
          BY <1>17, <3>1, Zenon
        <4>2. e \in {q[i].expiry : i \in DOMAIN q}
          <5>1. CASE e = m.expiry
            BY <1>3, <5>1, Zenon
          <5>2. CASE \E i \in DOMAIN Tail(q) : e = Tail(q)[i].expiry
            BY <1>5, <5>2, Zenon
          <5> QED
            BY <4>1, <5>1, <5>2, Zenon
        <4> QED
          BY <4>2, <3>1, Zenon
      <3>2. CASE <<d, x>> # p
        BY <1>2, <2>1, <3>2
      <3> QED
        BY <3>1, <3>2, Zenon
    <2> QED
      BY <1>2, <2>2, Zenon DEF LockInv, LeaseHonoured, IsHolder
  <1> QED
    BY <1>12, <1>13, <1>14, <1>15, <1>16, Zenon DEF LockInv

-----------------------------------------------------------------------------
(* Steps of the manager that hand locks on: RELEASE and expired leases. *)

\* Handing a key on: its next waiter leaves the queue and holds it, nobody else moves up.
LEMMA HandOnKeeps ==
  ASSUME TypeOK, NEW k \in Keys, EntryInv(k), keys'[k] = HandOn(k, Now)
  PROVE  /\ EntryInv(k)'
         /\ \A d \in Clients :
              /\ IsWaiting(k, d)' => IsWaiting(k, d)
              /\ IsNext(k, d) => /\ IsWaiting(k, d) /\ ~IsWaiting(k, d)' /\ IsHolder(k, d)'
                                 /\ keys'[k].expiry = Now + Head(keys[k].waiters).lease
  <1> DEFINE w == keys[k].waiters
  <1>1. w \in Seq(Waiter)
    BY EntryType, Zenon
  <1>2. CASE w = << >>
    <2>1. keys'[k] = NoKey
      BY <1>2, HandOnEntry, Zenon
    <2>2. \A d \in Clients : ~IsHolder(k, d)'
      BY <2>1, TableAssumption DEF NoKey, IsHolder
    <2> QED
      BY <1>2, <2>1, <2>2 DEF NoKey, EntryInv, IsWaiting, IsNext, IsFree
  <1>3. CASE w # << >>
    <2> DEFINE h == Head(w)
               t == Tail(w)
    <2>1. /\ keys'[k].holder = h.id /\ keys'[k].expiry = Now + h.lease /\ keys'[k].waiters = t
          /\ h.id \in Clients /\ h.lease \in Nat
      BY <1>3, HandOnEntry, Zenon
    <2>2. h = w[1] /\ 1 \in DOMAIN w
      BY <1>1, <1>3
    <2>3. \A i \in DOMAIN t : i + 1 \in DOMAIN w /\ t[i] = w[i + 1] /\ i \in Nat /\ i + 1 # 1
      BY <1>1, <1>3
    <2>4. /\ \A i \in DOMAIN w : w[i].lease = LeaseOf(Lease[w[i].id])
          /\ \A i, j \in DOMAIN w : w[i].id = w[j].id => i = j
      BY Zenon DEF EntryInv
    <2> HIDE DEF h, t
    <2>5. ~IsFree(k)'
      BY <2>1, TableAssumption, Zenon DEF IsFree
    <2>6. \A i \in DOMAIN t : t[i].id # h.id /\ t[i].lease = LeaseOf(Lease[t[i].id])
      BY <2>2, <2>3, <2>4
    <2>7. \A i, j \in DOMAIN t : t[i].id = t[j].id => i = j
      BY <2>3, <2>4, SMTT(30)
    <2>8. \A c \in Clients : IsHolder(k, c)' => keys'[k].expiry <= Now + LeaseOf(Lease[c])
      BY <2>1, <2>2, <2>4, ClientAssumption, SMTT(30) DEF IsHolder
    <2>9. EntryInv(k)'
      BY <2>1, <2>5, <2>6, <2>7, <2>8 DEF EntryInv
    <2>10. \A d \in Clients : IsWaiting(k, d)' => IsWaiting(k, d) /\ d # h.id
      BY <2>1, <2>3, <2>6 DEF IsWaiting
    <2>11. \A d \in Clients : IsNext(k, d) => IsWaiting(k, d) /\ d = h.id
      BY <2>2, Zenon DEF IsWaiting, IsNext, h
    <2> QED
      BY <2>1, <2>9, <2>10, <2>11, Zenon DEF IsHolder, h
  <1> QED
    BY <1>2, <1>3, Zenon

(* What a client finds in its channel when a lock is handed on. *)
LEMMA OutShape ==
  ASSUME NEW A \in BOOLEAN, NEW B \in BOOLEAN, NEW g \in Answer, g.type = "GRANT"
  PROVE  LET o == (IF A THEN <<Timeout>> ELSE << >>) \o (IF B THEN <<g>> ELSE << >>) IN
         /\ o \in Seq(Answer)
         /\ \A i \in DOMAIN o :
              \/ o[i] = Timeout
              \/ o[i] = g /\ B /\ i = Len(o)
  <1>1. Timeout \in Answer /\ Timeout.type = "TIMEOUT"
    BY Zenon DEF Timeout, Answer
  <1>2. CASE A /\ B
    BY <1>1, <1>2
  <1>3. CASE A /\ ~B
    BY <1>1, <1>3
  <1>4. CASE ~A /\ B
    BY <1>1, <1>4
  <1>5. CASE ~A /\ ~B
    BY <1>1, <1>5
  <1> QED
    BY <1>2, <1>3, <1>4, <1>5, Zenon
(* The keys Gone are handed on, the pairs in T are sent TIMEOUT. *)
HandedOut(Gone, T, p) ==
  IF p[2] \in Gone
  THEN (IF p \in T THEN <<Timeout>> ELSE << >>)
       \o (IF IsNext(p[2], p[1]) THEN <<Grant(Now + Head(keys[p[2]].waiters).lease)>> ELSE << >>)
  ELSE << >>

\* What a client is sent when the keys in Gone are handed on: TIMEOUT to the old
\* holder, GRANT to the first in the queue.
LEMMA HandedOutShape ==
  ASSUME TypeOK, NEW Gone, NEW T, NEW p \in Pairs
  PROVE  LET o == HandedOut(Gone, T, p) IN
         /\ o \in Seq(Answer)
         /\ p[2] \notin Gone => o = << >>
         /\ \A i \in DOMAIN o :
              \/ o[i] = Timeout
              \/ /\ o[i] = Grant(Now + Head(keys[p[2]].waiters).lease)
                 /\ IsNext(p[2], p[1]) /\ i = Len(o) /\ p[2] \in Gone
  <1> DEFINE g == Grant(Now + Head(keys[p[2]].waiters).lease)
  <1>1. CASE p[2] \notin Gone
    BY <1>1 DEF HandedOut
  <1>2. CASE p[2] \in Gone /\ keys[p[2]].waiters # << >>
    <2>1. g \in Answer /\ g.type = "GRANT"
      BY <1>2, PairType, HandOnEntry, ClientAssumption, SMTT(30) DEF Grant, Answer
    <2> HIDE DEF g
    <2> DEFINE A == p \in T
               B == IsNext(p[2], p[1])
               o == (IF A THEN <<Timeout>> ELSE << >>) \o (IF B THEN <<g>> ELSE << >>)
    <2>2. A \in BOOLEAN /\ B \in BOOLEAN
      BY DEF IsNext
    <2>3. HandedOut(Gone, T, p) = o
      BY <1>2, Zenon DEF HandedOut, g
    <2> HIDE DEF A, B
    <2>4. /\ o \in Seq(Answer)
          /\ \A i \in DOMAIN o : o[i] = Timeout \/ (o[i] = g /\ B /\ i = Len(o))
      BY <2>1, <2>2, OutShape
    <2> HIDE DEF o
    <2> QED
      BY <1>2, <2>3, <2>4 DEF g, B
  <1>3. CASE p[2] \in Gone /\ keys[p[2]].waiters = << >>
    <2>1. ~IsNext(p[2], p[1])
      BY <1>3, Zenon DEF IsNext
    <2>2. HandedOut(Gone, T, p) = (IF p \in T THEN <<Timeout>> ELSE << >>) \o << >>
      BY <1>3, <2>1, Zenon DEF HandedOut
    <2>3. Timeout \in Answer
      BY Zenon DEF Timeout, Answer
    <2> QED
      BY <1>3, <2>2, <2>3
  <1> QED
    BY <1>1, <1>2, <1>3, Zenon

\* The keys in Gone are handed on and the pairs in T are sent TIMEOUT, nothing
\* else is sent, and the clients do nothing.
HandsOn(Gone, T) ==
  /\ \A k \in Keys : keys'[k] = IF k \in Gone THEN HandOn(k, Now) ELSE keys[k]
  /\ \A p \in Pairs : /\ resp'[p] = resp[p] \o HandedOut(Gone, T, p)
                      /\ view'[p] = view[p] /\ asked'[p] = asked[p] /\ waits'[p] = waits[p]
                      /\ req'[p] = req[p] \/ (req[p] # << >> /\ req'[p] = Tail(req[p]))

Released(k, c) == IF IsHolder(k, c) THEN {k} ELSE {}
Expiring == {k \in Keys : Expired(k, Now)}
Holders == {p \in Pairs : IsHolder(p[2], p[1])}

\* LockInv after the manager has handed on the keys in Gone, whose leases nobody
\* counts on any more.
LEMMA ManagerKeeps ==
  ASSUME TypeOK, LockInv, NEW Gone, NEW T,
         HandsOn(Gone, T),
         \A k \in Gone, d \in Clients : k \in Keys =>
           \A e \in {view[<<d, k>>]} \cup {resp[<<d, k>>][i].expiry : i \in DOMAIN resp[<<d, k>>]} :
             ~(e > Now)
  PROVE  LockInv'
  <1> SUFFICES ASSUME
           \A k \in Keys : keys'[k] = IF k \in Gone THEN HandOn(k, Now) ELSE keys[k],
           \A p \in Pairs : /\ resp'[p] = resp[p] \o HandedOut(Gone, T, p)
                            /\ view'[p] = view[p] /\ asked'[p] = asked[p] /\ waits'[p] = waits[p]
                            /\ req'[p] = req[p] \/ (req[p] # << >> /\ req'[p] = Tail(req[p]))
         PROVE LockInv'
    BY Zenon DEF HandsOn
  <1>1. \A k \in Keys : EntryInv(k)'
    <2> SUFFICES ASSUME NEW k \in Keys
                 PROVE  EntryInv(k)'
      BY Zenon
    <2>1. EntryInv(k)
      BY Zenon DEF LockInv
    <2>2. CASE k \in Gone
      BY <2>1, <2>2, HandOnKeeps, SMTT(30)
    <2>3. CASE k \notin Gone
      BY <2>1, <2>3, SMTT(30) DEF EntryInv, IsFree, IsHolder
    <2> QED
      BY <2>2, <2>3, Zenon
  <1>2. ASSUME NEW p \in Pairs
        PROVE  /\ IsWaiting(p[2], p[1])' => IsWaiting(p[2], p[1])
               /\ p[2] \in Gone /\ IsNext(p[2], p[1]) =>
                    IsWaiting(p[2], p[1]) /\ ~IsWaiting(p[2], p[1])'
    <2>1. p[1] \in Clients /\ p[2] \in Keys /\ EntryInv(p[2])
      BY PairType, SMTT(30) DEF LockInv
    <2>2. CASE p[2] \in Gone
      BY <2>1, <2>2, HandOnKeeps, Zenon
    <2>3. CASE p[2] \notin Gone
      BY <2>1, <2>3, Zenon DEF IsWaiting
    <2> QED
      BY <2>2, <2>3, Zenon
  <1>3. ASSUME NEW p \in Pairs
        PROVE  RequestInv(p)' /\ AnswerInv(p)'
    <2> DEFINE o == HandedOut(Gone, T, p)
    <2>1. /\ o \in Seq(Answer)
          /\ \A i \in DOMAIN o : o[i] = Timeout \/ (/\ o[i].type = "GRANT" /\ i = Len(o)
                                                    /\ IsNext(p[2], p[1]) /\ p[2] \in Gone)
      BY HandedOutShape DEF Grant
    <2> HIDE DEF o
    <2>2. \A i \in DOMAIN o : o[i].type # "GRANT" => o[i].type = "TIMEOUT" /\ o[i].expiry = 0
      BY <2>1, SMTT(60) DEF Timeout
    <2>3. \A i \in DOMAIN o : o[i].type = "GRANT" =>
            IsWaiting(p[2], p[1]) /\ ~IsWaiting(p[2], p[1])' /\ i = Len(o)
      BY <2>1, <1>2 DEF Timeout
    <2>4. RequestInv(p) /\ AnswerInv(p) /\ resp'[p] = resp[p] \o o
      BY Zenon DEF LockInv, o
    <2> QED
      BY <2>1, <2>2, <2>3, <2>4, <1>2, PassiveKeeps, Zenon
  <1>4. LeaseHonoured'
    <2> SUFFICES ASSUME NEW d \in Clients, NEW k \in Keys,
                        NEW e \in {view'[<<d, k>>]} \cup {resp'[<<d, k>>][i].expiry : i \in DOMAIN resp'[<<d, k>>]},
                        e > Now
                 PROVE  (IsHolder(k, d) /\ keys[k].expiry >= e)'
      BY Zenon DEF LeaseHonoured
    <2> DEFINE p == <<d, k>>
               o == HandedOut(Gone, T, p)
    <2>1. p \in Pairs /\ p[1] = d /\ p[2] = k /\ EntryInv(k)
      BY SMTT(30) DEF Pairs, LockInv
    <2>2. resp[p] \in Seq(Answer) /\ o \in Seq(Answer)
      BY <2>1, HandedOutShape, SMTT(30) DEF TypeOK
    <2>4. \/ e \in {view[p]} \cup {resp[p][i].expiry : i \in DOMAIN resp[p]}
          \/ \E i \in DOMAIN o : e = o[i].expiry
      <3> DEFINE q == resp[p]
      <3>1. view'[p] = view[p] /\ resp'[p] = q \o o /\ q \in Seq(Answer) /\ o \in Seq(Answer)
        BY <2>1, <2>2, ZenonT(30)
      <3>2. e = view'[p] \/ \E i \in DOMAIN resp'[p] : e = resp'[p][i].expiry
        BY Zenon
      <3> HIDE DEF q, o
      <3>3. CASE \E i \in DOMAIN (q \o o) : e = (q \o o)[i].expiry
        <4>1. PICK i \in DOMAIN (q \o o) : e = (q \o o)[i].expiry
          BY <3>3, SMTT(30)
        <4>2. \/ i \in DOMAIN q /\ (q \o o)[i] = q[i]
              \/ i - Len(q) \in DOMAIN o /\ (q \o o)[i] = o[i - Len(q)]
          BY <3>1, <4>1, ConcatAt, SMTT(30)
        <4>3. (\E n \in DOMAIN q : e = q[n].expiry) \/ \E n \in DOMAIN o : e = o[n].expiry
          BY <4>1, <4>2, SMTT(30)
        <4> QED
          BY <4>3, SMTT(30) DEF q
      <3> QED
        BY <3>1, <3>2, <3>3, Zenon
    <2>5. CASE e \in {view[p]} \cup {resp[p][i].expiry : i \in DOMAIN resp[p]}
      <3>1. k \notin Gone
        BY <2>5, SMTT(30)
      <3> QED
        BY <2>5, <3>1 DEF LockInv, LeaseHonoured, IsHolder
    <2>6. CASE \E i \in DOMAIN o : e = o[i].expiry
      <3>1. PICK i \in DOMAIN o : e = o[i].expiry
        BY <2>6, SMTT(30)
      <3>2. o[i] # Timeout
        BY <3>1, ClientAssumption, SMTT(30) DEF Timeout
      <3>3. o[i] = Grant(Now + Head(keys[k].waiters).lease) /\ IsNext(k, d) /\ k \in Gone
        BY <2>1, <3>2, HandedOutShape, SMTT(60)
      <3>4. keys'[k] = HandOn(k, Now)
        BY <3>3, Zenon
      <3>5. IsHolder(k, d)' /\ keys'[k].expiry = Now + Head(keys[k].waiters).lease
        BY <2>1, <3>3, <3>4, HandOnKeeps, Zenon
      <3>6. keys[k].waiters # << >>
        BY <3>3, ZenonT(30) DEF IsNext
      <3>7. Now + Head(keys[k].waiters).lease \in Nat
        BY <3>6, HandOnEntry, ClientAssumption, SMTT(30)
      <3> QED
        BY <3>1, <3>3, <3>5, <3>7, SMTT(30) DEF Grant
    <2> QED
      BY <2>4, <2>5, <2>6, SMTT(30)
  <1> QED
    BY <1>1, <1>3, <1>4, Zenon DEF LockInv

\* Handling a RELEASE hands the key on if it comes from the holder.
LEMMA ReleaseHandsOn ==
  ASSUME TypeOK, NEW c \in Clients, NEW k \in Keys, HandleRelease(c, k)
  PROVE  HandsOn(Released(k, c), {})
  <1> DEFINE p == <<c, k>>
             Gone == IF IsHolder(k, c) THEN {k} ELSE {}
  <1>1. p \in Pairs
    BY Zenon DEF Pairs
  <1>2. \A x \in Keys : keys'[x] = IF x \in Gone THEN HandOn(x, Now) ELSE keys[x]
    BY Zenon DEF HandleRelease, Release, TypeOK
  <1>3. /\ req[p] # << >> /\ req[p] \in Seq({"ACQUIRE", "RELEASE"}) /\ Head(req[p]) = "RELEASE"
        /\ \A q \in Pairs : req'[q] = IF q = p THEN Tail(req[p]) ELSE req[q]
    BY <1>1, Zenon DEF HandleRelease, TypeOK
  <1>4. \A q \in Pairs : view'[q] = view[q] /\ asked'[q] = asked[q] /\ waits'[q] = waits[q]
    BY Zenon DEF HandleRelease, cvars
  <1>5. ASSUME NEW q \in Pairs
        PROVE  resp'[q] = resp[q] \o HandedOut(Gone, {}, q)
    <2> DEFINE g == <<Grant(Now + Head(keys[k].waiters).lease)>>
    <2>1. resp[q] \in Seq(Answer) /\ q[1] \in Clients
      BY PairType, Zenon DEF TypeOK
    <2>2. resp'[q] = IF q[2] = k THEN resp[q] \o ReleaseOut(k, c, q[1], Now) ELSE resp[q]
      BY SMTT(60) DEF HandleRelease
    <2>3. CASE q[2] = k /\ IsHolder(k, c)
      <3>1. ReleaseOut(k, c, q[1], Now) = IF IsNext(k, q[1]) THEN g ELSE << >>
        BY <2>3, Zenon DEF ReleaseOut
      <3>2. HandedOut(Gone, {}, q) = << >> \o (IF IsNext(k, q[1]) THEN g ELSE << >>)
        BY <2>3, Zenon DEF HandedOut
      <3>3. << >> \o g = g /\ << >> \o << >> = << >>
        OBVIOUS
      <3> QED
        BY <2>2, <2>3, <3>1, <3>2, <3>3, Zenon
    <2>4. CASE ~(q[2] = k /\ IsHolder(k, c))
      <3>1. HandedOut(Gone, {}, q) = << >>
        BY <2>4, Zenon DEF HandedOut
      <3>2. q[2] = k => ReleaseOut(k, c, q[1], Now) = << >>
        BY <2>4, Zenon DEF ReleaseOut
      <3>3. resp[q] \o << >> = resp[q]
        BY <2>1
      <3> QED
        BY <2>2, <3>1, <3>2, <3>3, Zenon
    <2> QED
      BY <2>3, <2>4, Zenon
  <1> HIDE DEF Gone
  <1>6. HandsOn(Gone, {})
    BY <1>2, <1>3, <1>4, <1>5, Zenon DEF HandsOn
  <1> QED
    BY <1>6, Zenon DEF Released, Gone

\* CheckTimeouts hands on the keys whose leases are over and tells their holders.
LEMMA TimerHandsOn ==
  ASSUME TypeOK, Timer
  PROVE  HandsOn(Expiring, Holders)
  <1> DEFINE Gone == {k \in Keys : Expired(k, Now)}
             T == {p \in Pairs : IsHolder(p[2], p[1])}
  <1>1. \A k \in Keys : keys'[k] = IF k \in Gone THEN HandOn(k, Now) ELSE keys[k]
    BY Zenon DEF Timer, CheckTimeouts
  <1>2. \A p \in Pairs : /\ view'[p] = view[p] /\ asked'[p] = asked[p] /\ waits'[p] = waits[p]
                         /\ req'[p] = req[p]
    BY Zenon DEF Timer, cvars
  <1>3. ASSUME NEW p \in Pairs
        PROVE  resp'[p] = resp[p] \o HandedOut(Gone, T, p)
    <2>1. HandedOut(Gone, T, p) = TimeoutOut(p[2], p[1], Now)
      BY PairType, Zenon DEF HandedOut, TimeoutOut
    <2> QED
      BY <2>1, ZenonT(30) DEF Timer
  <1> HIDE DEF Gone, T
  <1>4. HandsOn(Gone, T)
    BY <1>1, <1>2, <1>3, Zenon DEF HandsOn
  <1> QED
    BY <1>4, Zenon DEF Expiring, Holders, Gone, T

\* Handling a RELEASE, also one that comes too late, keeps LockInv.
LEMMA HandleReleaseKeeps ==
  ASSUME TypeOK, LockInv, NEW c \in Clients, NEW k \in Keys, HandleRelease(c, k)
  PROVE  LockInv'
  <1> DEFINE p == <<c, k>>
             Gone == Released(k, c)
  <1>1. p \in Pairs
    BY Zenon DEF Pairs
  <1>2. req[p] # << >> /\ req[p] \in Seq({"ACQUIRE", "RELEASE"}) /\ Head(req[p]) = "RELEASE"
    BY <1>1, Zenon DEF HandleRelease, TypeOK
  <1>3. ASSUME NEW x \in Gone, NEW d \in Clients,
               NEW e \in {view[<<d, x>>]} \cup {resp[<<d, x>>][i].expiry : i \in DOMAIN resp[<<d, x>>]},
               e > Now
        PROVE  FALSE
    <2>1. x = k /\ IsHolder(k, c)
      BY <1>3, Zenon DEF Released
    <2>2. IsHolder(k, d)
      BY <1>3, <2>1, Zenon DEF LockInv, LeaseHonoured
    <2>3. d = c
      BY <2>1, <2>2, Zenon DEF IsHolder
    <2>4. Has(p, "RELEASE") /\ RequestInv(p) /\ AnswerInv(p)
      BY <1>1, <1>2 DEF Has, LockInv
    <2>5. view[p] = 0 /\ \A i \in DOMAIN resp[p] : resp[p][i].type = "TIMEOUT"
      BY <2>4, Zenon DEF RequestInv, Quiet
    <2>6. \A i \in DOMAIN resp[p] : resp[p][i].expiry = 0
      BY <2>4, <2>5, Zenon DEF AnswerInv
    <2>7. e = 0
      BY <1>3, <2>1, <2>3, <2>5, <2>6, Zenon
    <2> QED
      BY <1>3, <2>7, ClientAssumption
  <1>4. \A x \in Gone, d \in Clients : x \in Keys =>
          \A e \in {view[<<d, x>>]} \cup {resp[<<d, x>>][i].expiry : i \in DOMAIN resp[<<d, x>>]} :
            ~(e > Now)
    BY <1>3, Zenon
  <1>5. HandsOn(Gone, {})
    BY ReleaseHandsOn, Zenon
  <1> HIDE DEF Gone
  <1> QED
    BY <1>4, <1>5, ManagerKeeps, Zenon

\* CheckTimeouts keeps LockInv: only leases that are over are taken away.
LEMMA TimerKeeps ==
  ASSUME TypeOK, LockInv, Timer
  PROVE  LockInv'
  <1> DEFINE Gone == Expiring
  <1>1. ASSUME NEW k \in Gone, NEW d \in Clients,
               NEW e \in {view[<<d, k>>]} \cup {resp[<<d, k>>][i].expiry : i \in DOMAIN resp[<<d, k>>]},
               e > Now
        PROVE  FALSE
    <2>1. k \in Keys /\ Now >= keys[k].expiry
      BY Zenon DEF Expired, Expiring
    <2>2. keys[k].expiry >= e
      BY <1>1, <2>1, Zenon DEF LockInv, LeaseHonoured
    <2>3. e \in Nat
      <3>1. <<d, k>> \in Pairs
        BY <2>1, Zenon DEF Pairs
      <3>2. view[<<d, k>>] \in Nat /\ resp[<<d, k>>] \in Seq(Answer)
        BY <3>1, Zenon DEF TypeOK
      <3>3. \A i \in DOMAIN resp[<<d, k>>] : resp[<<d, k>>][i] \in Answer
        BY <3>2
      <3> QED
        BY <3>2, <3>3, SMTT(30) DEF Answer
    <2> QED
      BY <1>1, <2>1, <2>2, <2>3, EntryType, ClientAssumption
  <1>2. \A x \in Gone, d \in Clients : x \in Keys =>
          \A e \in {view[<<d, x>>]} \cup {resp[<<d, x>>][i].expiry : i \in DOMAIN resp[<<d, x>>]} :
            ~(e > Now)
    BY <1>1, Zenon
  <1>3. HandsOn(Gone, Holders)
    BY TimerHandsOn, Zenon
  <1> HIDE DEF Gone
  <1> QED
    BY <1>2, <1>3, ManagerKeeps, Zenon

-----------------------------------------------------------------------------
(* ACQUIRE, time and the theorems. *)

(* The entry of the key after an ACQUIRE, and who waits for it. *)
LEMMA AcquireEntry ==
  ASSUME TypeOK, NEW c \in Clients, NEW k \in Keys, EntryInv(k),
         Acquire(k, c, Lease[c], Now), ~IsWaiting(k, c)
  PROVE  /\ EntryInv(k)'
         /\ \A x \in Keys : x # k => keys'[x] = keys[x]
         /\ \A d \in Clients : d # c => (IsWaiting(k, d)' <=> IsWaiting(k, d))
         /\ AcquireStatus(k, c) # "Denied" => ~IsWaiting(k, c)'
         /\ AcquireStatus(k, c) # "Granted" =>
              keys'[k].holder = keys[k].holder /\ keys'[k].expiry = keys[k].expiry
         /\ AcquireStatus(k, c) = "Granted" =>
              /\ keys'[k].holder = c /\ keys'[k].expiry = Now + LeaseOf(Lease[c])
              /\ \A d \in Clients : IsHolder(k, d) => d = c /\ keys[k].expiry <= keys'[k].expiry
  <1> DEFINE w == keys[k].waiters
             n == [id |-> c, lease |-> LeaseOf(Lease[c])]
             S == AcquireStatus(k, c)
  <1>1. w \in Seq(Waiter) /\ keys[k] \in KeyState /\ keys \in [Keys -> KeyState] /\ EntryInv(k)
    BY EntryType, Zenon DEF TypeOK
  <1>2. \A i \in DOMAIN w : w[i].id # c
    BY Zenon DEF IsWaiting
  <1>3. CASE S = "Granted"
    <2>1. keys' = [keys EXCEPT ![k] = [holder |-> c, expiry |-> Now + LeaseOf(Lease[c]), waiters |-> w]]
      BY <1>3, Zenon DEF Acquire, GrantLock
    <2>2. keys'[k] = [holder |-> c, expiry |-> Now + LeaseOf(Lease[c]), waiters |-> w]
      BY <1>1, <2>1, Zenon
    <2>3. IsFree(k) \/ IsHolder(k, c)
      BY <1>3, Zenon DEF AcquireStatus
    <2>4. \A d \in Clients : IsHolder(k, d) => d = c /\ keys[k].expiry <= Now + LeaseOf(Lease[c])
      BY <1>1, <2>3, TableAssumption, Zenon DEF IsFree, IsHolder, EntryInv
    <2>5. \A d \in Clients : IsWaiting(k, d)' <=> IsWaiting(k, d)
      BY <2>2 DEF IsWaiting
    <2>6. EntryInv(k)'
      <3>1. c # kFree /\ Now \in Nat /\ LeaseOf(Lease[c]) \in Nat
        BY TableAssumption, ClientAssumption, LeasePos, Zenon
      <3> QED
        BY <1>1, <1>2, <2>2, <3>1 DEF EntryInv, IsFree, IsHolder
    <2> QED
      BY <1>1, <1>3, <2>1, <2>2, <2>4, <2>5, <2>6, Zenon
  <1>4. CASE S = "Denied"
    <2>1. keys' = [keys EXCEPT ![k].waiters = Append(w, n)]
      BY <1>4, Zenon DEF Acquire, Enqueue
    <2>2. /\ keys'[k].holder = keys[k].holder /\ keys'[k].expiry = keys[k].expiry
          /\ keys'[k].waiters = Append(w, n) /\ \A x \in Keys : x # k => keys'[x] = keys[x]
      BY <1>1, <2>1, Zenon DEF KeyState
    <2>3. ~IsFree(k) /\ ~IsHolder(k, c)
      BY <1>4, Zenon DEF AcquireStatus
    <2>4. n \in Waiter
      BY LeasePos, Zenon DEF Waiter
    <2>5. /\ Len(w) \in Nat /\ DOMAIN w = 1 .. Len(w) /\ DOMAIN Append(w, n) = 1 .. Len(w) + 1
          /\ Append(w, n)[Len(w) + 1] = n /\ \A i \in 1 .. Len(w) : Append(w, n)[i] = w[i]
      BY <1>1, <2>4, AppendAt
    <2>6. \A i \in DOMAIN Append(w, n) :
            \/ i \in DOMAIN w /\ Append(w, n)[i] = w[i]
            \/ i = Len(w) + 1 /\ Append(w, n)[i] = n
      BY <2>5
    <2>7. n.id = c /\ n.lease = LeaseOf(Lease[c])
      BY Zenon
    <2> DEFINE a == Append(w, n)
    <2>8. keys'[k].waiters = a /\ \A i \in DOMAIN w : i \in DOMAIN a
      BY <2>2, <2>5
    <2>9. \A i \in DOMAIN a : (i \in DOMAIN w /\ a[i] = w[i]) \/ (i = Len(w) + 1 /\ a[i] = n)
      BY <2>6, Zenon
    <2>10. \A i \in DOMAIN w : a[i] = w[i]
      BY <2>5, Zenon
    <2> HIDE DEF n, a
    <2>11. \A d \in Clients : d # c => (IsWaiting(k, d)' <=> IsWaiting(k, d))
      BY <2>7, <2>8, <2>9, <2>10, Zenon DEF IsWaiting
    <2>12. /\ \A i \in DOMAIN a : a[i].id # keys[k].holder /\ a[i].lease = LeaseOf(Lease[a[i].id])
           /\ \A i, j \in DOMAIN a : a[i].id = a[j].id => i = j
      BY <1>1, <1>2, <2>3, <2>7, <2>9, Zenon DEF EntryInv, IsHolder
    <2>13. EntryInv(k)'
      BY <1>1, <2>2, <2>3, <2>8, <2>12, SMTT(30) DEF EntryInv, IsFree, IsHolder
    <2> QED
      BY <1>4, <2>2, <2>11, <2>13, Zenon
  <1>5. CASE S # "Granted" /\ S # "Denied"
    <2>1. keys' = keys
      BY <1>5, Zenon DEF Acquire
    <2> QED
      BY <1>1, <1>5, <2>1, Zenon DEF EntryInv, IsFree, IsHolder, IsWaiting
  <1> QED
    BY <1>3, <1>4, <1>5, Zenon

\* Handling an ACQUIRE, as a grant, a renewal, a place in the queue or a refusal,
\* keeps LockInv.
LEMMA HandleAcquireKeeps ==
  ASSUME TypeOK, LockInv, NEW c \in Clients, NEW k \in Keys, HandleAcquire(c, k)
  PROVE  LockInv'
  <1> DEFINE p == <<c, k>>
             q == resp[p]
             o == AcquireOut(k, c, Lease[c], Now)
             S == AcquireStatus(k, c)
  <1>1. p \in Pairs /\ p[1] = c /\ p[2] = k /\ RequestInv(p) /\ AnswerInv(p)
    BY Zenon DEF Pairs, LockInv
  <1>2. /\ req[p] # << >> /\ req[p] \in Seq({"ACQUIRE", "RELEASE"}) /\ Head(req[p]) = "ACQUIRE"
        /\ req'[p] = Tail(req[p]) /\ resp'[p] = q \o o
        /\ \A x \in Pairs : x # p => req'[x] = req[x] /\ resp'[x] = resp[x]
    BY <1>1, Zenon DEF HandleAcquire, TypeOK
  <1>3. Acquire(k, c, Lease[c], Now) /\ view' = view /\ asked' = asked /\ waits' = waits
    BY Zenon DEF HandleAcquire, cvars
  <1>4. req[p][1] = "ACQUIRE" /\ 1 \in DOMAIN req[p] /\ Len(req[p]) = 1
    <2>1. req[p][1] = "ACQUIRE" /\ 1 \in DOMAIN req[p]
      BY <1>2
    <2> QED
      BY <1>1, <2>1, Zenon DEF RequestInv
  <1>5. \A i \in DOMAIN req'[p] : FALSE
    <2> DEFINE r == req[p]
    <2>1. r \in Seq({"ACQUIRE", "RELEASE"}) /\ Len(r) = 1 /\ r # << >>
      BY <1>2, <1>4, Zenon
    <2> HIDE DEF r
    <2>2. Tail(r) \in Seq({"ACQUIRE", "RELEASE"}) /\ Len(Tail(r)) = 0
      BY <2>1
    <2> DEFINE t == Tail(r)
    <2> HIDE DEF t
    <2>4. t \in Seq({"ACQUIRE", "RELEASE"}) /\ Len(t) = 0
      BY <2>2, Zenon DEF t
    <2>5. DOMAIN t = 1 .. Len(t)
      BY <2>4
    <2>3. \A i \in DOMAIN t : FALSE
      BY <2>4, <2>5
    <2> QED
      BY <1>2, <2>3, Zenon DEF r, t
  <1>6. asked[p] /\ ~IsWaiting(k, c) /\ \A i \in DOMAIN q : q[i].type = "TIMEOUT"
    BY <1>1, <1>4, Zenon DEF RequestInv, Has, Quiet
  <1>7. \A i \in DOMAIN q : q[i].expiry = 0
    BY <1>1, <1>6, Zenon DEF AnswerInv
  <1>8. q \in Seq(Answer) /\ o \in Seq(Answer)
    BY <1>1, OutType, Zenon DEF TypeOK
  <1>9. \/ S = "Granted" /\ o = <<Grant(Now + LeaseOf(Lease[c]))>>
        \/ S # "Granted" /\ (o = <<Deny>> \/ o = << >>)
    BY Zenon DEF AcquireOut
  <1>10. \A i \in DOMAIN o : /\ i = 1 /\ Len(o) = 1
                             /\ IF S = "Granted" THEN o[i] = Grant(Now + LeaseOf(Lease[c]))
                                ELSE o[i] = Deny
    BY <1>9
  <1> HIDE DEF q, o, S
  <1>11. /\ DOMAIN (q \o o) = 1 .. Len(q) + Len(o) /\ Len(q) \in Nat /\ DOMAIN q = 1 .. Len(q)
         /\ \A i \in DOMAIN (q \o o) :
              \/ i \in DOMAIN q /\ (q \o o)[i] = q[i]
              \/ i > Len(q) /\ i - Len(q) \in DOMAIN o /\ (q \o o)[i] = o[i - Len(q)]
    BY <1>8, ConcatAt
  <1>12. \A i \in DOMAIN (q \o o) :
           \/ (q \o o)[i].type = "TIMEOUT" /\ (q \o o)[i].expiry = 0
           \/ S # "Granted" /\ (q \o o)[i] = Deny
           \/ /\ S = "Granted" /\ (q \o o)[i] = Grant(Now + LeaseOf(Lease[c]))
              /\ \A j \in DOMAIN (q \o o) : ~(j > i)
    <2> SUFFICES ASSUME NEW i \in DOMAIN (q \o o)
                 PROVE  \/ (q \o o)[i].type = "TIMEOUT" /\ (q \o o)[i].expiry = 0
                        \/ S # "Granted" /\ (q \o o)[i] = Deny
                        \/ /\ S = "Granted" /\ (q \o o)[i] = Grant(Now + LeaseOf(Lease[c]))
                           /\ \A j \in DOMAIN (q \o o) : ~(j > i)
      BY Zenon
    <2>1. CASE i \in DOMAIN q /\ (q \o o)[i] = q[i]
      BY <1>6, <1>7, <2>1, Zenon
    <2>2. CASE i > Len(q) /\ i - Len(q) \in DOMAIN o /\ (q \o o)[i] = o[i - Len(q)]
      <3>1. i - Len(q) = 1 /\ Len(o) = 1
        BY <1>10, <2>2, Zenon
      <3>2. \A j \in DOMAIN (q \o o) : ~(j > i)
        BY <1>11, <3>1
      <3> QED
        BY <1>10, <2>2, <3>2, Zenon
    <2> QED
      BY <1>11, <2>1, <2>2, Zenon
  <1>13. /\ EntryInv(k)'
         /\ \A x \in Keys : x # k => keys'[x] = keys[x]
         /\ \A d \in Clients : d # c => (IsWaiting(k, d)' <=> IsWaiting(k, d))
         /\ S # "Denied" => ~IsWaiting(k, c)'
         /\ S # "Granted" => keys'[k].holder = keys[k].holder /\ keys'[k].expiry = keys[k].expiry
         /\ S = "Granted" =>
              /\ keys'[k].holder = c /\ keys'[k].expiry = Now + LeaseOf(Lease[c])
              /\ \A d \in Clients : IsHolder(k, d) => d = c /\ keys[k].expiry <= keys'[k].expiry
    <2>1. EntryInv(k)
      BY Zenon DEF LockInv
    <2> QED
      BY <1>3, <1>6, <2>1, AcquireEntry, Zenon DEF S
  <1>14. RequestInv(p)'
    <2>1. ~Has(p, "RELEASE")' /\ ~Has(p, "ACQUIRE")' /\ asked'[p]
      BY <1>3, <1>5, <1>6, Zenon DEF Has
    <2> QED
      BY <1>5, <2>1, Zenon DEF RequestInv
  <1>15. AnswerInv(p)'
    <2>1. \A i \in DOMAIN (q \o o) :
            IF (q \o o)[i].type = "GRANT"
            THEN ~IsWaiting(k, c)' /\ \A j \in DOMAIN (q \o o) : ~(j > i)
            ELSE (q \o o)[i].expiry = 0
      BY <1>12, <1>13 DEF Deny, Grant
    <2> QED
      BY <1>1, <1>2, <2>1, Zenon DEF AnswerInv
  <1>16. \A x \in Pairs : x # p => RequestInv(x)' /\ AnswerInv(x)'
    <2> SUFFICES ASSUME NEW x \in Pairs, x # p
                 PROVE  RequestInv(x)' /\ AnswerInv(x)'
      BY Zenon
    <2>1. IsWaiting(x[2], x[1])' => IsWaiting(x[2], x[1])
      <3>1. CASE x[2] = k
        BY <1>13, <3>1, PairType, Zenon
      <3>2. CASE x[2] # k
        BY <1>13, <3>2, PairType, Zenon DEF IsWaiting
      <3> QED
        BY <3>1, <3>2, Zenon
    <2>2. /\ resp'[x] = resp[x] /\ req'[x] = req[x] /\ view'[x] = view[x]
          /\ asked'[x] = asked[x] /\ waits'[x] = waits[x] /\ RequestInv(x) /\ AnswerInv(x)
      BY <1>2, <1>3, SMTT(30) DEF LockInv
    <2> QED
      BY <2>1, <2>2, SameKeeps, Zenon
  <1>17. \A x \in Keys : EntryInv(x)'
    BY <1>13 DEF LockInv, EntryInv, IsFree, IsHolder
  <1>18. LeaseHonoured'
    <2> SUFFICES ASSUME NEW d \in Clients, NEW x \in Keys,
                        NEW e \in {view'[<<d, x>>]} \cup {resp'[<<d, x>>][i].expiry : i \in DOMAIN resp'[<<d, x>>]},
                        e > Now
                 PROVE  (IsHolder(x, d) /\ keys[x].expiry >= e)'
      BY Zenon DEF LeaseHonoured
    <2>1. <<d, x>> \in Pairs /\ Now \in Nat
      BY ClientAssumption, Zenon DEF Pairs
    <2>2. \/ e \in {view[<<d, x>>]} \cup {resp[<<d, x>>][i].expiry : i \in DOMAIN resp[<<d, x>>]}
          \/ <<d, x>> = p /\ S = "Granted" /\ e = Now + LeaseOf(Lease[c])
      <3>1. CASE <<d, x>> = p
        <4>1. e = view[p] \/ \E i \in DOMAIN (q \o o) : e = (q \o o)[i].expiry
          BY <1>2, <1>3, <3>1, Zenon
        <4>2. \A i \in DOMAIN (q \o o) :
                 \/ (q \o o)[i].expiry = 0
                 \/ S = "Granted" /\ (q \o o)[i].expiry = Now + LeaseOf(Lease[c])
          BY <1>12 DEF Deny, Grant
        <4> QED
          BY <2>1, <3>1, <4>1, <4>2
      <3>2. CASE <<d, x>> # p
        BY <1>2, <1>3, <2>1, <3>2, Zenon
      <3> QED
        BY <3>1, <3>2, Zenon
    <2>3. CASE e \in {view[<<d, x>>]} \cup {resp[<<d, x>>][i].expiry : i \in DOMAIN resp[<<d, x>>]}
      <3>1. IsHolder(x, d) /\ keys[x].expiry >= e
        BY <2>3, Zenon DEF LockInv, LeaseHonoured
      <3>2. CASE x # k
        BY <1>13, <3>1, <3>2, Zenon DEF IsHolder
      <3>3. CASE x = k /\ S # "Granted"
        BY <1>13, <3>1, <3>3, Zenon DEF IsHolder
      <3>4. CASE x = k /\ S = "Granted"
        <4>1. d = c /\ keys[k].expiry <= keys'[k].expiry /\ keys'[k].holder = c
          BY <1>13, <3>1, <3>4, Zenon
        <4>2. keys[k].expiry \in Nat /\ keys'[k].expiry \in Nat /\ e \in Nat
          <5>1. keys'[k].expiry \in Nat
            BY <1>13, <3>4, LeasePos, ClientAssumption
          <5>2. view[<<d, x>>] \in Nat /\ resp[<<d, x>>] \in Seq(Answer)
            BY <2>1, Zenon DEF TypeOK
          <5>4. \A i \in DOMAIN resp[<<d, x>>] : resp[<<d, x>>][i] \in Answer
            BY <5>2
          <5>3. \A i \in DOMAIN resp[<<d, x>>] : resp[<<d, x>>][i].expiry \in Nat
            BY <5>4, Zenon DEF Answer
          <5> QED
            BY <2>3, <5>1, <5>2, <5>3, EntryType, SMTT(30)
        <4> QED
          BY <3>1, <3>4, <4>1, <4>2, SMTT(30) DEF IsHolder
      <3> QED
        BY <3>2, <3>3, <3>4, Zenon
    <2>4. CASE <<d, x>> = p /\ S = "Granted" /\ e = Now + LeaseOf(Lease[c])
      <3>1. Now + LeaseOf(Lease[c]) \in Nat
        BY <2>1, LeasePos
      <3> QED
        BY <1>13, <2>4, <3>1 DEF IsHolder
    <2> QED
      BY <2>2, <2>3, <2>4, Zenon
  <1> QED
    BY <1>14, <1>15, <1>16, <1>17, <1>18, Zenon DEF LockInv

\* The passing of time keeps LockInv: table and views age together.
LEMMA TickKeeps ==
  ASSUME TypeOK, LockInv, Tick
  PROVE  LockInv'
  <1>1. \A k \in Keys : /\ keys'[k].holder = keys[k].holder /\ keys'[k].waiters = keys[k].waiters
                        /\ keys'[k].expiry = Older(keys[k].expiry)
    BY EntryType, Zenon DEF Tick, KeyState
  <1>2. ASSUME NEW p \in Pairs
        PROVE  /\ resp[p] \in Seq(Answer) /\ DOMAIN resp'[p] = DOMAIN resp[p]
               /\ \A i \in DOMAIN resp[p] : /\ resp'[p][i].type = resp[p][i].type
                                            /\ resp'[p][i].expiry = Older(resp[p][i].expiry)
    <2>1. resp[p] \in Seq(Answer)
      BY Zenon DEF TypeOK
    <2>2. resp'[p] = [i \in DOMAIN resp[p] |-> [resp[p][i] EXCEPT !.expiry = Older(@)]]
      BY Zenon DEF Tick
    <2> QED
      BY <2>1, <2>2, OlderAnswers
  <1>3. \A p \in Pairs : view[p] \in Nat /\ view'[p] = Older(view[p])
    BY Zenon DEF Tick, TypeOK
  <1>4. req' = req /\ asked' = asked /\ waits' = waits
    BY Zenon DEF Tick
  <1>5. \A p \in Pairs : IsWaiting(p[2], p[1])' = IsWaiting(p[2], p[1])
    BY <1>1, PairType, Zenon DEF IsWaiting
  <1>6. ASSUME NEW p \in Pairs
        PROVE  RequestInv(p)' /\ AnswerInv(p)'
    <2>1. RequestInv(p) /\ AnswerInv(p)
      BY Zenon DEF LockInv
    <2>2. Quiet(p)' = Quiet(p)
      BY <1>2, <1>5, Zenon DEF Quiet
    <2>3. view[p] = 0 <=> view'[p] = 0
      BY <1>3, OlderNat, Zenon
    <2>4. Has(p, "RELEASE")' = Has(p, "RELEASE") /\ Has(p, "ACQUIRE")' = Has(p, "ACQUIRE")
      BY <1>4, Zenon DEF Has
    <2>5. RequestInv(p)'
      BY <1>4, <2>1, <2>2, <2>3, <2>4, Zenon DEF RequestInv
    <2>6. \A i \in DOMAIN resp[p] : resp[p][i].expiry = 0 => resp'[p][i].expiry = 0
      BY <1>2 DEF Older
    <2>7. AnswerInv(p)'
      BY <1>2, <1>5, <2>1, <2>6 DEF AnswerInv
    <2> QED
      BY <2>5, <2>7, Zenon
  <1>7. ASSUME NEW k \in Keys
        PROVE  EntryInv(k)'
    <2>1. \A c \in Clients : IsHolder(k, c)' => keys'[k].expiry <= Now + LeaseOf(Lease[c])
      <3> SUFFICES ASSUME NEW c \in Clients, IsHolder(k, c)'
                   PROVE  keys'[k].expiry <= Now + LeaseOf(Lease[c])
        BY Zenon
      <3>1. keys[k].expiry <= Now + LeaseOf(Lease[c]) /\ keys[k].expiry \in Nat
        BY <1>1, EntryType, Zenon DEF LockInv, EntryInv, IsHolder
      <3>2. keys'[k].expiry <= keys[k].expiry /\ keys'[k].expiry \in Nat
        BY <1>1, <3>1, OlderNat, Zenon
      <3> QED
        BY <3>1, <3>2, LeasePos, ClientAssumption
    <2> QED
      BY <1>1, <2>1 DEF LockInv, EntryInv, IsFree
  <1>8. LeaseHonoured'
    <2> SUFFICES ASSUME NEW d \in Clients, NEW x \in Keys,
                        NEW e \in {view'[<<d, x>>]} \cup {resp'[<<d, x>>][i].expiry : i \in DOMAIN resp'[<<d, x>>]},
                        e > Now
                 PROVE  (IsHolder(x, d) /\ keys[x].expiry >= e)'
      BY Zenon DEF LeaseHonoured
    <2> DEFINE p == <<d, x>>
    <2>1. p \in Pairs /\ Now \in Nat
      BY ClientAssumption, Zenon DEF Pairs
    <2>2. \A i \in DOMAIN resp[p] : resp[p][i] \in Answer
      BY <1>2, <2>1
    <2>3. \E f \in {view[p]} \cup {resp[p][i].expiry : i \in DOMAIN resp[p]} :
             f \in Nat /\ e = Older(f)
      <3>1. CASE e = view'[p]
        BY <1>3, <2>1, <3>1, Zenon
      <3>2. CASE \E i \in DOMAIN resp'[p] : e = resp'[p][i].expiry
        <4>1. PICK i \in DOMAIN resp'[p] : e = resp'[p][i].expiry
          BY <3>2, Zenon
        <4>2. i \in DOMAIN resp[p] /\ e = Older(resp[p][i].expiry)
          BY <1>2, <2>1, <4>1, Zenon
        <4>3. resp[p][i].expiry \in Nat
          BY <2>2, <4>2, Zenon DEF Answer
        <4> QED
          BY <4>2, <4>3, Zenon
      <3> QED
        BY <3>1, <3>2, Zenon
    <2>4. PICK f \in {view[p]} \cup {resp[p][i].expiry : i \in DOMAIN resp[p]} :
             f \in Nat /\ e = Older(f)
      BY <2>3, Zenon
    <2>5. e \in Nat /\ e <= f
      BY <2>4, OlderNat, Zenon
    <2>6. f > Now
      BY <2>1, <2>4, <2>5
    <2>7. IsHolder(x, d) /\ keys[x].expiry >= f
      BY <2>4, <2>6, Zenon DEF LockInv, LeaseHonoured
    <2>8. keys[x].expiry \in Nat /\ f <= keys[x].expiry
      BY <2>4, <2>7, EntryType, Zenon
    <2>9. Older(f) <= Older(keys[x].expiry) /\ Older(keys[x].expiry) \in Nat
      BY <2>4, <2>8, OlderNat, Zenon
    <2> QED
      BY <1>1, <2>4, <2>5, <2>7, <2>9, Zenon DEF IsHolder
  <1> QED
    BY <1>6, <1>7, <1>8, Zenon DEF LockInv

\* The initial state: nothing held, nothing under way.
LEMMA InitLock ==
  ASSUME Init
  PROVE  TypeOK /\ LockInv
  <1>1. TypeOK
    BY DEF Init, KeysInit, TypeOK, KeyState, NoKey
  <1>2. \A k \in Keys : keys[k] = [holder |-> kFree, expiry |-> 0, waiters |-> << >>]
    BY Zenon DEF Init, KeysInit, NoKey
  <1>3. \A p \in Pairs : req[p] = << >> /\ resp[p] = << >> /\ view[p] = 0
    BY Zenon DEF Init
  <1>4. \A p \in Pairs : RequestInv(p) /\ AnswerInv(p)
    BY <1>2, <1>3, PairType, SMTT(30) DEF RequestInv, AnswerInv, Quiet, Has, IsWaiting
  <1>5. \A k \in Keys : EntryInv(k)
    BY <1>2, TableAssumption DEF EntryInv, IsHolder
  <1>6. LeaseHonoured
    BY <1>3, ClientAssumption DEF LeaseHonoured, Pairs
  <1> QED
    BY <1>1, <1>4, <1>5, <1>6, Zenon DEF LockInv

\* LockManager and its clients keep to their types, for all constants.
THEOREM LockTypes == Spec => []TypeOK
  BY InitLock, TypeKeeps, PTL DEF Spec

\* With clients that do not repeat an ACQUIRE after a DENY, the invariant of
\* LockManager::Acquire, Release and CheckTimeouts is inductive.
THEOREM LockInvariant == ASSUME ~Retry PROVE Spec => [](TypeOK /\ LockInv)
  <1>1. ASSUME TypeOK, LockInv, [Next]_vars
        PROVE  TypeOK' /\ LockInv'
    <2>1. TypeOK'
      BY <1>1, TypeKeeps, Zenon
    <2>2. CASE UNCHANGED vars
      <3>1. keys' = keys /\ req' = req /\ resp' = resp /\ view' = view /\ asked' = asked /\ waits' = waits
        BY <2>2, Zenon DEF vars, cvars
      <3>2. \A p \in Pairs : IsWaiting(p[2], p[1])' = IsWaiting(p[2], p[1])
        BY <3>1, Zenon DEF IsWaiting
      <3>3. \A p \in Pairs : RequestInv(p)' /\ AnswerInv(p)'
        BY <1>1, <3>1, <3>2, SameKeeps, SMTT(30) DEF LockInv
      <3>4. \A k \in Keys : EntryInv(k)'
        BY <1>1, <3>1 DEF LockInv, EntryInv, IsFree, IsHolder
      <3>5. LeaseHonoured'
        BY <1>1, <3>1 DEF LockInv, LeaseHonoured, IsHolder
      <3> QED
        BY <2>1, <3>3, <3>4, <3>5, Zenon DEF LockInv
    <2> QED
      BY <1>1, <2>1, <2>2, SendAcquireKeeps, SendReleaseKeeps, ReceiveKeeps, HandleAcquireKeeps,
         HandleReleaseKeeps, TimerKeeps, TickKeeps, Zenon DEF Next, Client, Serve
  <1> QED
    BY <1>1, InitLock, PTL DEF Spec

\* The manager honours every lease a client counts on until it runs out.
THEOREM LockLeaseHonoured == ASSUME ~Retry PROVE Spec => []LeaseHonoured
  <1>1. LockInv => LeaseHonoured
    BY Zenon DEF LockInv
  <1> QED
    BY <1>1, LockInvariant, PTL

\* Per-key mutual exclusion of lock::LockManager, for any number of clients
\* and keys, any leases and any table and queue sizes.
THEOREM LockMutualExclusion == ASSUME ~Retry PROVE Spec => []MutualExclusion
  <1>1. LockInv => MutualExclusion
    BY DEF LockInv, LeaseHonoured, MutualExclusion, IsHolder
  <1> QED
    BY <1>1, LockInvariant, PTL

-----------------------------------------------------------------------------
(* The queue of a key. *)

\* A step leaves the queue of a key alone, adds a client at its end, or takes the
\* first one off it and makes it the holder.
Queued(k) == \E n \in Waiter : keys'[k].waiters = Append(keys[k].waiters, n)
QueueMoves(k) == \/ keys'[k].waiters = keys[k].waiters
                 \/ Queued(k)
                 \/ keys'[k] = HandOn(k, Now)

\* ACQUIRE, also a repeated one of a client that is queued already.
LEMMA AcquireQueue ==
  ASSUME TypeOK, NEW c \in Clients, NEW x \in Keys, HandleAcquire(c, x), NEW k \in Keys, EntryInv(k)
  PROVE  EntryInv(k)' /\ QueueMoves(k)
  <1>1. Acquire(x, c, Lease[c], Now) /\ keys \in [Keys -> KeyState]
    BY Zenon DEF HandleAcquire, TypeOK
  <1>2. CASE keys'[k] = keys[k]
    BY <1>2, Zenon DEF EntryInv, IsFree, IsHolder, QueueMoves
  <1>3. CASE x = k /\ IsWaiting(k, c)
    <2>1. PICK i \in DOMAIN keys[k].waiters : keys[k].waiters[i].id = c
      BY <1>3, Zenon DEF IsWaiting
    <2>2. ~IsFree(k) /\ ~IsHolder(k, c)
      BY <2>1 DEF EntryInv, IsHolder
    <2>3. AcquireStatus(k, c) # "Granted"
      BY <2>2, Zenon DEF AcquireStatus, Overflow
    <2>4. keys' = keys
      BY <1>1, <1>3, <2>3, Zenon DEF Acquire, Enqueue
    <2> QED
      BY <1>2, <2>4, Zenon
  <1>4. CASE x = k /\ ~IsWaiting(k, c)
    <2>1. EntryInv(k)'
      BY <1>1, <1>4, AcquireEntry, Zenon
    <2>2. CASE AcquireStatus(k, c) = "Granted"
      <3>1. keys' = [keys EXCEPT ![k] = [holder |-> c, expiry |-> Now + LeaseOf(Lease[c]),
                                         waiters |-> keys[k].waiters]]
        BY <1>1, <1>4, <2>2, Zenon DEF Acquire, GrantLock
      <3> QED
        BY <1>1, <2>1, <3>1, Zenon DEF QueueMoves
    <2>3. CASE AcquireStatus(k, c) = "Denied"
      <3> DEFINE n == [id |-> c, lease |-> LeaseOf(Lease[c])]
      <3>1. keys' = [keys EXCEPT ![k].waiters = Append(@, n)]
        BY <1>1, <1>4, <2>3, Zenon DEF Acquire, Enqueue
      <3>2. n \in Waiter
        BY LeasePos, Zenon DEF Waiter
      <3>3. keys'[k].waiters = Append(keys[k].waiters, n)
        BY <1>1, <3>1, Zenon DEF KeyState
      <3> QED
        BY <2>1, <3>2, <3>3, Zenon DEF QueueMoves, Queued
    <2>4. CASE AcquireStatus(k, c) # "Granted" /\ AcquireStatus(k, c) # "Denied"
      <3>1. keys' = keys
        BY <1>1, <1>4, <2>4, Zenon DEF Acquire
      <3> QED
        BY <1>2, <3>1, Zenon
    <2> QED
      BY <2>2, <2>3, <2>4, Zenon
  <1>5. CASE x # k
    <2>1. keys'[k] = keys[k]
      BY <1>1, <1>5, Zenon DEF Acquire, GrantLock, Enqueue
    <2> QED
      BY <1>2, <2>1, Zenon
  <1> QED
    BY <1>3, <1>4, <1>5, Zenon

\* The same for every step: the entry of a key stays sound whatever the clients
\* send, repeated requests included.
LEMMA EntryKeeps ==
  ASSUME TypeOK, [Next]_vars, NEW k \in Keys, EntryInv(k)
  PROVE  EntryInv(k)' /\ QueueMoves(k)
  <1>1. CASE keys'[k] = keys[k]
    BY <1>1, Zenon DEF EntryInv, IsFree, IsHolder, QueueMoves
  <1>2. CASE keys'[k] = HandOn(k, Now)
    BY <1>2, HandOnKeeps, Zenon DEF QueueMoves
  <1>3. ASSUME NEW c \in Clients, NEW x \in Keys, Client(c, x)
        PROVE  keys'[k] = keys[k]
    BY <1>3, Zenon DEF Client, SendAcquire, SendRelease, Receive
  <1>4. ASSUME NEW c \in Clients, NEW x \in Keys, HandleRelease(c, x)
        PROVE  keys'[k] = keys[k] \/ keys'[k] = HandOn(k, Now)
    BY <1>4, Zenon DEF HandleRelease, Release, TypeOK
  <1>5. ASSUME Timer
        PROVE  keys'[k] = keys[k] \/ keys'[k] = HandOn(k, Now)
    BY <1>5, Zenon DEF Timer, CheckTimeouts
  <1>6. CASE Tick
    <2>1. /\ keys'[k].holder = keys[k].holder /\ keys'[k].waiters = keys[k].waiters
          /\ keys'[k].expiry = Older(keys[k].expiry)
      BY <1>6, EntryType, Zenon DEF Tick, KeyState
    <2>2. \A c \in Clients : IsHolder(k, c)' => keys'[k].expiry <= Now + LeaseOf(Lease[c])
      <3> SUFFICES ASSUME NEW c \in Clients, IsHolder(k, c)'
                   PROVE  keys'[k].expiry <= Now + LeaseOf(Lease[c])
        BY Zenon
      <3>1. keys[k].expiry <= Now + LeaseOf(Lease[c]) /\ keys[k].expiry \in Nat
        BY <2>1, EntryType, Zenon DEF EntryInv, IsHolder
      <3>2. keys'[k].expiry <= keys[k].expiry /\ keys'[k].expiry \in Nat
        BY <2>1, <3>1, OlderNat, Zenon
      <3> QED
        BY <3>1, <3>2, LeasePos, ClientAssumption
    <2> QED
      BY <2>1, <2>2, Zenon DEF EntryInv, IsFree, QueueMoves
  <1>7. CASE UNCHANGED vars
    BY <1>1, <1>7, Zenon DEF vars
  <1> QED
    BY <1>1, <1>2, <1>3, <1>4, <1>5, <1>6, <1>7, AcquireQueue, Zenon DEF Next, Serve

\* Nobody in the queue changes places.
LEMMA OrderKept ==
  ASSUME TypeOK, NEW k \in Keys, EntryInv(k), QueueMoves(k), NEW c \in Clients, NEW d \in Clients,
         Before(k, c, d), IsWaiting(k, c)
  PROVE  Before(k, c, d)'
  <1> DEFINE w == keys[k].waiters
             v == keys'[k].waiters
  <1>1. w \in Seq(Waiter)
    BY EntryType, Zenon
  <1>2. ~IsHolder(k, c)
    BY Zenon DEF IsWaiting, IsHolder, EntryInv
  <1>3. PICK i \in DOMAIN w, j \in DOMAIN w : i < j /\ w[i].id = c /\ w[j].id = d
    BY <1>2, Zenon DEF Before
  <1>4. i \in Nat /\ j \in Nat /\ i >= 1 /\ j > 1 /\ j <= Len(w) /\ Len(w) \in Nat
    BY <1>1, <1>3
  <1>5. CASE v = w
    BY <1>3, <1>5, Zenon DEF Before
  <1>6. CASE Queued(k)
    <2>1. PICK n \in Waiter : v = Append(w, n)
      BY <1>6, Zenon DEF Queued
    <2>2. i \in DOMAIN v /\ j \in DOMAIN v /\ v[i] = w[i] /\ v[j] = w[j]
      BY <1>1, <1>3, <2>1, AppendAt
    <2> QED
      BY <1>3, <2>2, Zenon DEF Before
  <1>7. CASE keys'[k] = HandOn(k, Now)
    <2>1. w # << >>
      BY <1>1, <1>4
    <2>2. keys'[k].holder = Head(w).id /\ v = Tail(w)
      BY <1>7, <2>1, HandOnEntry, Zenon
    <2>3. j - 1 \in DOMAIN Tail(w) /\ Tail(w)[j - 1] = w[j]
      BY <1>1, <1>4, <2>1
    <2>4. CASE i = 1
      <3>1. Head(w) = w[1]
        BY <1>1, <2>1
      <3> QED
        BY <1>3, <2>2, <2>3, <2>4, <3>1, Zenon DEF Before, IsHolder, IsWaiting
    <2>5. CASE i # 1
      <3>1. i - 1 \in DOMAIN Tail(w) /\ Tail(w)[i - 1] = w[i] /\ i - 1 < j - 1
        BY <1>1, <1>3, <1>4, <2>1, <2>5
      <3> QED
        BY <1>3, <2>2, <2>3, <3>1, Zenon DEF Before
    <2> QED
      BY <2>4, <2>5, Zenon
  <1> QED
    BY <1>5, <1>6, <1>7, Zenon DEF QueueMoves

\* GrantNextWaiter serves in the order of arrival, for all constants and also
\* when clients repeat their requests.
THEOREM LockNoOvertaking == Spec => NoOvertaking
  <1> DEFINE Sound == TypeOK /\ \A k \in Keys : EntryInv(k)
             Kept == \A k \in Keys, c, d \in Clients :
                       Before(k, c, d) /\ IsWaiting(k, c) => Before(k, c, d)'
  <1>1. Init => Sound
    BY InitLock, Zenon DEF LockInv
  <1>2. Sound /\ [Next]_vars => Sound'
    BY TypeKeeps, EntryKeeps, Zenon
  <1>3. Sound /\ [Next]_vars => [Kept]_vars
    BY EntryKeeps, OrderKept, Zenon
  <1> HIDE DEF Sound, Kept
  <1>4. Spec => [][Kept]_vars
    BY <1>1, <1>2, <1>3, PTL DEF Spec
  <1> QED
    BY <1>4, Zenon DEF NoOvertaking, Kept

-----------------------------------------------------------------------------
(* Clients that were denied. *)

\* Room for everybody else in every queue: there are at most MaxWaiters + 1
\* different clients, so the DENY of a full queue, after which the client is
\* nowhere in the table, does not happen.
Room == \A s \in Seq(Clients) :
          (\A i, j \in 1 .. Len(s) : s[i] = s[j] => i = j) => Len(s) <= MaxWaiters + 1

\* After a DENY, received or still under way, the client is in the queue or a
\* GRANT has been sent after it.
ToldInv(p) ==
  /\ waits[p] => \/ IsWaiting(p[2], p[1])
                 \/ \E j \in DOMAIN resp[p] : resp[p][j].type = "GRANT"
  /\ \A i \in DOMAIN resp[p] : resp[p][i].type = "DENY" =>
       \/ IsWaiting(p[2], p[1])
       \/ \E j \in DOMAIN resp[p] : j > i /\ resp[p][j].type = "GRANT"
Told == \A p \in Pairs : ToldInv(p)

\* Holder, waiters and the client that asks are all different.
LEMMA RoomLeft ==
  ASSUME TypeOK, Room, NEW k \in Keys, EntryInv(k), NEW c \in Clients,
         ~IsWaiting(k, c), ~IsFree(k), ~IsHolder(k, c)
  PROVE  Len(keys[k].waiters) < MaxWaiters
  <1> DEFINE w == keys[k].waiters
             n == Len(w)
             h == keys[k].holder
             s == [i \in 1 .. n + 2 |-> IF i <= n THEN w[i].id ELSE IF i = n + 1 THEN h ELSE c]
  <1>1. /\ w \in Seq(Waiter) /\ h \in Clients
        /\ \A i \in DOMAIN w : w[i].id \in Clients
    BY EntryType, Zenon DEF IsFree
  <1>2. DOMAIN w = 1 .. n /\ n \in Nat
    BY <1>1
  <1>3. \A i \in 1 .. n : w[i].id # h /\ w[i].id # c
    BY <1>2, Zenon DEF EntryInv, IsWaiting
  <1>4. \A i, j \in 1 .. n : w[i].id = w[j].id => i = j
    BY <1>2, Zenon DEF EntryInv
  <1>5. h # c
    BY Zenon DEF IsHolder
  <1>6. MaxWaiters \in Nat
    BY TableAssumption
  <1> HIDE DEF w, n, h
  <1>7. s \in Seq(Clients) /\ Len(s) = n + 2
    <2>1. s \in [1 .. n + 2 -> Clients]
      BY <1>1, <1>2
    <2>2. n + 2 \in Nat
      BY <1>2
    <2> QED
      BY <2>1, <2>2
  <1>8. \A i, j \in 1 .. n + 2 : s[i] = s[j] => i = j
    BY <1>2, <1>3, <1>4, <1>5
  <1>9. n + 2 <= MaxWaiters + 1
    <2> HIDE DEF s
    <2> QED
      BY <1>7, <1>8, Zenon DEF Room
  <1> QED
    BY <1>2, <1>6, <1>9 DEF n, w

\* Messages of the manager to a client keep its part, if a DENY comes with a
\* place in the queue and a place in the queue is lost only to a GRANT.
LEMMA SentTold ==
  ASSUME TypeOK, NEW p \in Pairs, ToldInv(p), NEW o \in Seq(Answer),
         resp'[p] = resp[p] \o o, waits'[p] = waits[p],
         \A i \in DOMAIN o : o[i].type = "DENY" => IsWaiting(p[2], p[1])',
         IsWaiting(p[2], p[1]) =>
            IsWaiting(p[2], p[1])' \/ \E i \in DOMAIN o : o[i].type = "GRANT"
  PROVE  ToldInv(p)'
  <1> DEFINE q == resp[p]
             W == IsWaiting(p[2], p[1])
  <1>1. q \in Seq(Answer)
    BY Zenon DEF TypeOK
  <1>2. /\ DOMAIN q = 1 .. Len(q) /\ DOMAIN o = 1 .. Len(o) /\ Len(q) \in Nat /\ Len(o) \in Nat
        /\ DOMAIN (q \o o) = 1 .. Len(q) + Len(o)
        /\ \A i \in DOMAIN (q \o o) :
              \/ i \in DOMAIN q /\ (q \o o)[i] = q[i]
              \/ i > Len(q) /\ i - Len(q) \in DOMAIN o /\ (q \o o)[i] = o[i - Len(q)]
    BY <1>1, ConcatAt
  <1>3. \A i \in DOMAIN q : i \in DOMAIN (q \o o) /\ (q \o o)[i] = q[i]
    BY <1>1
  <1>4. \A i \in DOMAIN o : Len(q) + i \in DOMAIN (q \o o) /\ (q \o o)[Len(q) + i] = o[i]
    BY <1>1
  <1>5. ASSUME W, ~W'
        PROVE  \E j \in DOMAIN (q \o o) : (q \o o)[j].type = "GRANT" /\ \A i \in DOMAIN q : j > i
    <2>1. PICK i \in DOMAIN o : o[i].type = "GRANT"
      BY <1>5, Zenon
    <2>2. \A n \in DOMAIN q : Len(q) + i > n
      BY <1>2
    <2> QED
      BY <1>4, <2>1, <2>2, Zenon
  <1>6. waits[p] => W' \/ \E j \in DOMAIN (q \o o) : (q \o o)[j].type = "GRANT"
    BY <1>3, <1>5, Zenon DEF ToldInv
  <1>7. ASSUME NEW i \in DOMAIN (q \o o), (q \o o)[i].type = "DENY", ~W'
        PROVE  \E j \in DOMAIN (q \o o) : j > i /\ (q \o o)[j].type = "GRANT"
    <2>1. i \in DOMAIN q /\ (q \o o)[i] = q[i]
      BY <1>2, <1>7, Zenon
    <2> QED
      BY <1>3, <1>5, <1>7, <2>1, Zenon DEF ToldInv
  <1> QED
    BY <1>6, <1>7, ZenonT(30) DEF ToldInv

\* Taking an answer: a GRANT ends the wait, after a DENY the client waits.
LEMMA ReceiveTold ==
  ASSUME TypeOK, Told, NEW c \in Clients, NEW k \in Keys, Receive(c, k)
  PROVE  Told'
  <1> DEFINE p == <<c, k>>
             q == resp[p]
             m == Head(q)
             W == IsWaiting(p[2], p[1])
  <1>1. p \in Pairs
    BY Zenon DEF Pairs
  <1>2. /\ \A x \in Pairs : x # p => resp'[x] = resp[x] /\ waits'[x] = waits[x]
        /\ keys' = keys /\ resp'[p] = Tail(q)
        /\ waits'[p] = (m.type = "DENY" \/ (m.type = "TIMEOUT" /\ waits[p]))
    BY <1>1, Zenon DEF Receive, TypeOK
  <1>3. q \in Seq(Answer) /\ q # << >>
    BY <1>1, Zenon DEF Receive, TypeOK
  <1>4. m = q[1] /\ 1 \in DOMAIN q
    BY <1>3
  <1>5. \A i \in DOMAIN Tail(q) : i + 1 \in DOMAIN q /\ Tail(q)[i] = q[i + 1]
    BY <1>3
  <1>6. \A j \in DOMAIN q : j # 1 => j > 1 /\ j - 1 \in DOMAIN Tail(q) /\ Tail(q)[j - 1] = q[j]
    BY <1>3
  <1>7. \A i \in DOMAIN Tail(q), j \in DOMAIN q : j > i + 1 => j # 1 /\ j - 1 > i
    BY <1>3
  <1>8. \A x \in Pairs : IsWaiting(x[2], x[1])' = IsWaiting(x[2], x[1])
    BY <1>2, Zenon DEF IsWaiting
  <1>9. ToldInv(p)
    BY <1>1, Zenon DEF Told
  <1>10. ToldInv(p)'
    <2>1. waits'[p] => W \/ \E j \in DOMAIN Tail(q) : Tail(q)[j].type = "GRANT"
      <3>1. CASE m.type = "DENY"
        <4>1. W \/ \E j \in DOMAIN q : j > 1 /\ q[j].type = "GRANT"
          BY <1>4, <1>9, <3>1, Zenon DEF ToldInv
        <4>2. ~(1 > 1)
          OBVIOUS
        <4> QED
          BY <1>6, <4>1, <4>2, Zenon
      <3>2. CASE m.type = "TIMEOUT" /\ waits[p]
        <4>1. W \/ \E j \in DOMAIN q : q[j].type = "GRANT"
          BY <1>9, <3>2, Zenon DEF ToldInv
        <4>2. q[1].type # "GRANT"
          BY <1>4, <3>2, Zenon
        <4> QED
          BY <1>6, <4>1, <4>2, Zenon
      <3> QED
        BY <1>2, <3>1, <3>2, Zenon
    <2>2. ASSUME NEW i \in DOMAIN Tail(q), Tail(q)[i].type = "DENY", ~W
          PROVE  \E j \in DOMAIN Tail(q) : j > i /\ Tail(q)[j].type = "GRANT"
      <3>1. i + 1 \in DOMAIN q /\ q[i + 1].type = "DENY"
        BY <1>5, <2>2, Zenon
      <3>2. PICK j \in DOMAIN q : j > i + 1 /\ q[j].type = "GRANT"
        BY <1>9, <2>2, <3>1, Zenon DEF ToldInv
      <3>3. j # 1 /\ j - 1 > i
        BY <1>7, <3>2, Zenon
      <3> QED
        BY <1>6, <3>2, <3>3, Zenon
    <2>3. W' = W
      BY <1>1, <1>8, Zenon
    <2> QED
      BY <1>2, <2>1, <2>2, <2>3, SMTT(30) DEF ToldInv
  <1>11. \A x \in Pairs : x # p => ToldInv(x)'
    BY <1>2, <1>8 DEF Told, ToldInv
  <1> QED
    BY <1>10, <1>11, Zenon DEF Told

\* Handing keys on: who leaves a queue is sent a GRANT, nobody is sent a DENY.
LEMMA HandsOnTold ==
  ASSUME TypeOK, Told, \A k \in Keys : EntryInv(k), NEW Gone, NEW T, HandsOn(Gone, T)
  PROVE  Told'
  <1> SUFFICES ASSUME NEW p \in Pairs
               PROVE  ToldInv(p)'
    BY Zenon DEF Told
  <1> DEFINE k == p[2]
             c == p[1]
             o == HandedOut(Gone, T, p)
             g == Grant(Now + Head(keys[k].waiters).lease)
  <1>1. k \in Keys /\ c \in Clients /\ EntryInv(k) /\ ToldInv(p)
    BY PairType, Zenon DEF Told
  <1>2. o \in Seq(Answer) /\ \A i \in DOMAIN o : o[i].type # "DENY"
    BY HandedOutShape DEF Timeout, Grant
  <1>3. resp'[p] = resp[p] \o o /\ waits'[p] = waits[p]
    BY Zenon DEF HandsOn
  <1>4. ASSUME IsWaiting(k, c), ~IsWaiting(k, c)'
        PROVE  \E i \in DOMAIN o : o[i].type = "GRANT"
    <2>1. k \in Gone /\ keys'[k] = HandOn(k, Now)
      BY <1>1, <1>4, Zenon DEF HandsOn, IsWaiting
    <2>2. IsNext(k, c)
      <3> DEFINE w == keys[k].waiters
      <3>1. PICK i \in DOMAIN w : w[i].id = c
        BY <1>4, Zenon DEF IsWaiting
      <3>2. w \in Seq(Waiter)
        BY <1>1, EntryType, Zenon
      <3>3. w # << >>
        BY <3>1, <3>2
      <3>4. keys'[k].waiters = Tail(w)
        BY <1>1, <2>1, <3>3, HandOnEntry, Zenon
      <3>5. i = 1 \/ (i - 1 \in DOMAIN Tail(w) /\ Tail(w)[i - 1] = w[i])
        BY <3>1, <3>2, <3>3, SMTT(30)
      <3>6. i = 1
        BY <1>4, <3>1, <3>4, <3>5, Zenon DEF IsWaiting
      <3>7. Head(w) = w[1]
        BY <3>2, <3>3
      <3> QED
        BY <3>1, <3>3, <3>6, <3>7, Zenon DEF IsNext
    <2>3. g \in Answer /\ g.type = "GRANT"
      BY <1>1, <2>2, HandOnEntry, ClientAssumption, SMTT(30) DEF Grant, Answer, IsNext
    <2>4. o = (IF p \in T THEN <<Timeout>> ELSE << >>) \o <<g>>
      BY <2>1, <2>2, Zenon DEF HandedOut
    <2> HIDE DEF g, o
    <2>5. o = <<Timeout>> \o <<g>> \/ o = << >> \o <<g>>
      BY <2>4, Zenon
    <2>6. Len(o) \in DOMAIN o /\ o[Len(o)] = g
      <3>1. Timeout \in Answer
        BY Zenon DEF Timeout, Answer
      <3> QED
        BY <2>3, <2>5, <3>1
    <2> QED
      BY <2>3, <2>6, Zenon
  <1> HIDE DEF o
  <1> QED
    BY <1>1, <1>2, <1>3, <1>4, SentTold, Zenon

\* A DENY comes with a place in the queue.
LEMMA AcquireTold ==
  ASSUME TypeOK, LockInv, Room, Told, NEW c \in Clients, NEW k \in Keys, HandleAcquire(c, k)
  PROVE  Told'
  <1> DEFINE p == <<c, k>>
             o == AcquireOut(k, c, Lease[c], Now)
             w == keys[k].waiters
  <1>1. p \in Pairs /\ p[1] = c /\ p[2] = k
    BY Zenon DEF Pairs
  <1>2. /\ Acquire(k, c, Lease[c], Now) /\ waits' = waits
        /\ resp'[p] = resp[p] \o o /\ req[p] # << >> /\ Head(req[p]) = "ACQUIRE"
        /\ \A x \in Pairs : x # p => resp'[x] = resp[x]
    BY <1>1, Zenon DEF HandleAcquire, cvars, TypeOK
  <1>3. RequestInv(p) /\ EntryInv(k) /\ req[p] \in Seq({"ACQUIRE", "RELEASE"})
    BY <1>1, Zenon DEF LockInv, TypeOK
  <1>4. ~IsWaiting(k, c)
    <2>1. 1 \in DOMAIN req[p] /\ req[p][1] = "ACQUIRE"
      BY <1>2, <1>3
    <2> QED
      BY <1>1, <1>3, <2>1, Zenon DEF RequestInv, Has, Quiet
  <1>5. /\ \A x \in Keys : x # k => keys'[x] = keys[x]
        /\ \A d \in Clients : d # c => (IsWaiting(k, d)' <=> IsWaiting(k, d))
    BY <1>2, <1>3, <1>4, AcquireEntry, Zenon
  <1>6. o \in Seq(Answer)
    BY OutType, Zenon
  <1>7. ASSUME NEW i \in DOMAIN o, o[i].type = "DENY"
        PROVE  IsWaiting(k, c)'
    <2>1. AcquireStatus(k, c) # "Granted" /\ AcquireStatus(k, c) # "KeyOverflow"
      BY <1>7 DEF AcquireOut, Grant
    <2>2. ~IsFree(k) /\ ~IsHolder(k, c)
      BY <2>1, Zenon DEF AcquireStatus
    <2>3. Len(w) < MaxWaiters
      BY <1>3, <1>4, <2>2, RoomLeft, Zenon
    <2>4. w \in Seq(Waiter)
      BY EntryType, Zenon
    <2>5. ~(Len(w) >= MaxWaiters)
      BY <2>3, <2>4, TableAssumption
    <2>6. AcquireStatus(k, c) = "Denied"
      BY <2>1, <2>2, <2>5, Zenon DEF AcquireStatus
    <2> DEFINE n == [id |-> c, lease |-> LeaseOf(Lease[c])]
    <2>7. keys' = [keys EXCEPT ![k].waiters = Append(@, n)]
      BY <1>2, <1>4, <2>6, Zenon DEF Acquire, Enqueue
    <2>8. keys'[k].waiters = Append(w, n)
      BY <2>7, Zenon DEF TypeOK, KeyState
    <2>9. n \in Waiter
      BY LeasePos, Zenon DEF Waiter
    <2>10. Len(w) + 1 \in DOMAIN Append(w, n) /\ Append(w, n)[Len(w) + 1] = n
      BY <2>4, <2>9, AppendAt
    <2> QED
      BY <2>8, <2>10 DEF IsWaiting
  <1>8. ToldInv(p)'
    <2>1. ToldInv(p) /\ waits'[p] = waits[p]
      BY <1>1, <1>2, Zenon DEF Told
    <2> HIDE DEF o
    <2> QED
      BY <1>1, <1>2, <1>4, <1>6, <1>7, <2>1, SentTold, Zenon
  <1>9. ASSUME NEW x \in Pairs, x # p
        PROVE  ToldInv(x)'
    <2>1. IsWaiting(x[2], x[1])' <=> IsWaiting(x[2], x[1])
      <3>1. CASE x[2] = k
        BY <1>5, <1>9, <3>1, PairType, Zenon
      <3>2. CASE x[2] # k
        BY <1>5, <3>2, PairType, Zenon DEF IsWaiting
      <3> QED
        BY <3>1, <3>2, Zenon
    <2>2. ToldInv(x) /\ resp'[x] = resp[x] /\ waits'[x] = waits[x]
      BY <1>2, <1>9, Zenon DEF Told
    <2> QED
      BY <2>1, <2>2, Zenon DEF ToldInv
  <1> QED
    BY <1>8, <1>9, Zenon DEF Told

\* Every step keeps Told.
LEMMA ToldKeeps ==
  ASSUME TypeOK, LockInv, Room, Told, [Next]_vars
  PROVE  Told'
  <1>1. \A k \in Keys : EntryInv(k)
    BY Zenon DEF LockInv
  <1>2. CASE keys' = keys /\ resp' = resp /\ waits' = waits
    <2>1. \A x \in Pairs : IsWaiting(x[2], x[1])' <=> IsWaiting(x[2], x[1])
      BY <1>2, Zenon DEF IsWaiting
    <2> QED
      BY <1>2, <2>1 DEF Told, ToldInv
  <1>3. ASSUME NEW c \in Clients, NEW k \in Keys, SendAcquire(c, k) \/ SendRelease(c, k)
        PROVE  keys' = keys /\ resp' = resp /\ waits' = waits
    BY <1>3, Zenon DEF SendAcquire, SendRelease
  <1>4. CASE UNCHANGED vars
    BY <1>2, <1>4, Zenon DEF vars, cvars
  <1>5. CASE Tick
    <2>1. \A k \in Keys : keys'[k].waiters = keys[k].waiters
      BY <1>5, EntryType, Zenon DEF Tick, KeyState
    <2>2. ASSUME NEW p \in Pairs
          PROVE  /\ DOMAIN resp'[p] = DOMAIN resp[p]
                 /\ \A i \in DOMAIN resp[p] : resp'[p][i].type = resp[p][i].type
      <3>1. resp[p] \in Seq(Answer)
        BY Zenon DEF TypeOK
      <3>2. resp'[p] = [i \in DOMAIN resp[p] |-> [resp[p][i] EXCEPT !.expiry = Older(@)]]
        BY <1>5, Zenon DEF Tick
      <3> QED
        BY <3>1, <3>2, OlderAnswers
    <2>3. waits' = waits
      BY <1>5, Zenon DEF Tick
    <2>4. \A x \in Pairs : IsWaiting(x[2], x[1])' <=> IsWaiting(x[2], x[1])
      BY <2>1, PairType, Zenon DEF IsWaiting
    <2> QED
      BY <2>2, <2>3, <2>4 DEF Told, ToldInv
  <1>6. ASSUME NEW c \in Clients, NEW k \in Keys, HandleRelease(c, k)
        PROVE  Told'
    BY <1>1, <1>6, ReleaseHandsOn, HandsOnTold, Zenon
  <1>7. CASE Timer
    BY <1>1, <1>7, TimerHandsOn, HandsOnTold, Zenon
  <1> QED
    BY <1>2, <1>3, <1>4, <1>5, <1>6, <1>7, ReceiveTold, AcquireTold, Zenon DEF Next, Client, Serve

\* No client that LockManager denied is forgotten, for any number of clients and
\* keys, as long as max_waiters_per_key_ leaves room for all of them.
THEOREM LockNotForgotten == ASSUME ~Retry, Room PROVE Spec => []NotForgotten
  <1>1. Init => Told
    <2> SUFFICES ASSUME Init, NEW p \in Pairs
                 PROVE  ToldInv(p)
      BY Zenon DEF Told
    <2>1. resp[p] = << >> /\ waits[p] = FALSE
      BY Zenon DEF Init
    <2> QED
      BY <2>1 DEF ToldInv
  <1>2. Told => NotForgotten
    BY DEF Told, ToldInv, NotForgotten, Pairs
  <1> QED
    BY <1>1, <1>2, LockInvariant, ToldKeeps, PTL DEF Spec
=============================================================================
