---------------------------- MODULE BarrierProofs ----------------------------
(***************************************************************************)
(* Proofs about BarrierService: BarrierInv is inductive, and nobody passes *)
(* a barrier early, for any number of nodes and barriers, any number of    *)
(* generations from two on, and any number of repeated messages.           *)
(***************************************************************************)
EXTENDS BarrierService, FiniteSetTheorems, TLAPS

(* Division by GenMod. *)
LEMMA DivMod ==
  ASSUME NEW r \in Nat
  PROVE  /\ r \div GenMod \in Int /\ r % GenMod \in 0 .. GenMod - 1
         /\ r = GenMod * (r \div GenMod) + (r % GenMod)
  <1>1. r \div GenMod \in Int /\ r % GenMod \in 0 .. GenMod - 1
    BY BarrierAssumption
  <1>2. r = GenMod * (r \div GenMod) + (r % GenMod)
    BY BarrierAssumption
  <1> QED
    BY <1>1, <1>2

\* A quotient and a remainder make up a number with that remainder.
LEMMA ModOf ==
  ASSUME NEW q \in Int, NEW x \in 0 .. GenMod - 1
  PROVE  (GenMod * q + x) % GenMod = x
  BY BarrierAssumption

\* Two rounds in a row have different generations, and the next generation is
\* that of the next round: what uint16_t wrap-around does to current_generation.
LEMMA GenStep ==
  ASSUME NEW r \in Nat
  PROVE  /\ Gen(r) \in 0 .. GenMod - 1 /\ Gen(r) \in Nat
         /\ Gen(r + 1) = (Gen(r) + 1) % GenMod
         /\ Gen(r + 1) # Gen(r)
  <1> DEFINE q == r \div GenMod
             x == r % GenMod
  <1>1. q \in Int /\ x \in 0 .. GenMod - 1 /\ r = GenMod * q + x /\ Gen(r) = x /\ GenMod \in Nat /\ GenMod >= 2
    BY DivMod, BarrierAssumption DEF Gen
  <1> HIDE DEF q, x
  <1>2. CASE x + 1 < GenMod
    <2>1. x + 1 \in 0 .. GenMod - 1 /\ r + 1 = GenMod * q + (x + 1) /\ x + 1 = GenMod * 0 + (x + 1)
      BY <1>1, <1>2
    <2>2. (r + 1) % GenMod = x + 1 /\ (x + 1) % GenMod = x + 1
      BY <1>1, <2>1, ModOf
    <2> QED
      BY <1>1, <2>2 DEF Gen
  <1>3. CASE x + 1 = GenMod
    <2>1. 0 \in 0 .. GenMod - 1 /\ r + 1 = GenMod * (q + 1) + 0 /\ x + 1 = GenMod * 1 + 0 /\ q + 1 \in Int
      BY <1>1, <1>3
    <2>2. (r + 1) % GenMod = 0 /\ (x + 1) % GenMod = 0
      BY <2>1, ModOf
    <2> QED
      BY <1>1, <1>3, <2>2 DEF Gen
  <1> QED
    BY <1>1, <1>2, <1>3

\* A node and a barrier form a pair.
LEMMA PairOf ==
  ASSUME NEW n \in Nodes, NEW b \in Barriers
  PROVE  <<n, b>> \in Pairs /\ <<n, b>>[1] = n /\ <<n, b>>[2] = b
  BY DEF Pairs

(* What Arrive works on. *)
LEMMA EntryFacts ==
  ASSUME TypeOK, NEW b \in Barriers
  PROVE  /\ Entry(b) \in BarrierState /\ NoBarrier \in BarrierState
         /\ b \in Tracked => Entry(b) = barriers[b]
  BY BarrierAssumption DEF TypeOK, Entry, Fresh, NoBarrier, BarrierState

\* Arrive keeps the table well typed.
LEMMA ArriveType ==
  ASSUME TypeOK, NEW b \in Barriers, NEW n \in Nodes, NEW g \in Nat, Arrive(b, g, n)
  PROVE  /\ barriers' \in [Barriers -> BarrierState]
         /\ \A x \in Barriers : x # b => barriers'[x] = barriers[x]
  <1> DEFINE s == Entry(b)
             a == [s EXCEPT !.count = @ + 1, !.arrived = @ \cup ({n} \cap Marked)]
  <1>1. s \in BarrierState /\ barriers \in [Barriers -> BarrierState]
    BY EntryFacts DEF TypeOK
  <1>5. /\ s.count \in Nat /\ s.arrived \in SUBSET Nodes /\ s.participants \in Nat
        /\ s.generation \in 0 .. GenMod - 1 /\ s.generation + 1 \in Nat
    BY <1>1, BarrierAssumption DEF BarrierState
  <1>6. s.count + 1 \in Nat /\ s.arrived \cup ({n} \cap Marked) \in SUBSET Nodes
    BY <1>5
  <1>2. a \in BarrierState
    BY <1>1, <1>6, Zenon DEF BarrierState
  <1>3. Released(a) \in BarrierState
    <2>1. (a.generation + 1) % GenMod \in 0 .. GenMod - 1
      BY <1>1, <1>5, DivMod DEF BarrierState
    <2> QED
      BY <1>2, <2>1, Zenon DEF Released, BarrierState
  <1>4. \/ barriers' = barriers
        \/ barriers' = [barriers EXCEPT ![b] = a]
        \/ barriers' = [barriers EXCEPT ![b] = Released(a)]
        \/ barriers' = [barriers EXCEPT ![b] = s]
    BY Zenon DEF Arrive
  <1> HIDE DEF s, a
  <1> QED
    BY <1>1, <1>2, <1>3, <1>4

\* Every step keeps the types.
LEMMA TypeKeeps ==
  ASSUME TypeOK, [Next]_vars
  PROVE  TypeOK'
  <1>1. ASSUME NEW n \in Nodes, NEW b \in Barriers, SendArrive(n, b)
        PROVE  TypeOK'
    BY <1>1, PairOf DEF SendArrive, TypeOK
  <1>2. ASSUME NEW n \in Nodes, NEW b \in Barriers, ReceiveRelease(n, b)
        PROVE  TypeOK'
    BY <1>2, PairOf DEF ReceiveRelease, TypeOK
  <1>3. ASSUME NEW n \in Nodes, NEW b \in Barriers, HandleArrive(n, b)
        PROVE  TypeOK'
    <2> DEFINE p == <<n, b>>
               r == Head(arrive[p])
    <2>1. p \in Pairs /\ arrive[p] \in Seq(Nat) /\ arrive[p] # << >>
      BY <1>3, PairOf DEF HandleArrive, TypeOK
    <2>2. r \in Nat /\ Tail(arrive[p]) \in Seq(Nat)
      BY <2>1
    <2> HIDE DEF r
    <2>3. Gen(r) \in Nat
      BY <2>2, GenStep, Zenon
    <2>4. barriers' \in [Barriers -> BarrierState]
      <3>1. Arrive(b, Gen(r), n)
        BY <1>3 DEF HandleArrive, r
      <3> QED
        BY <2>3, <3>1, ArriveType
    <2>5. release' \in [Pairs -> Seq(Nat)]
      <3>1. ASSUME NEW q \in Pairs
            PROVE  Append(release[q], r) \in Seq(Nat) /\ release[q] \in Seq(Nat)
        BY <2>2 DEF TypeOK
      <3> QED
        BY <1>3, <3>1, Zenon DEF HandleArrive, r
    <2>6. arrive' \in [Pairs -> Seq(Nat)]
      <3>1. arrive' = [arrive EXCEPT ![p] = Tail(arrive[p])] /\ arrive \in [Pairs -> Seq(Nat)]
        BY <1>3 DEF HandleArrive, TypeOK
      <3> QED
        BY <2>1, <2>2, <3>1
    <2> QED
      BY <1>3, <2>4, <2>5, <2>6, Zenon DEF HandleArrive, TypeOK
  <1>4. CASE UNCHANGED vars
    BY <1>4 DEF vars, TypeOK
  <1> QED
    BY <1>1, <1>2, <1>3, <1>4 DEF Next

-----------------------------------------------------------------------------
(* The inductive invariant, one barrier at a time. *)

(* What InRound says about one node. *)
NodeInv(n, b, R) ==
  LET p == <<n, b>>
      a == arrive[p] IN
  /\ \/ round[p] = R /\ release[p] = << >>
     \/ round[p] = R - 1 /\ release[p] = <<R - 1>> /\ waiting[p]
  /\ \A i \in DOMAIN a : a[i] = R - 1 \/ (a[i] = R /\ round[p] = R /\ waiting[p])
  /\ \A i, j \in DOMAIN a : i < j => a[i] <= a[j]
  /\ waiting[p] => round[p] < MaxRound
  /\ n \in barriers[b].arrived =>
       round[p] = R /\ waiting[p] /\ \A i \in DOMAIN a : a[i] = R
EntryInv(b, R) ==
  /\ barriers[b].generation = Gen(R)
  /\ b \notin Tracked => R = 0 /\ barriers[b] = NoBarrier
  /\ b \in Tracked => barriers[b].participants = Cardinality(Nodes)
  /\ barriers[b].count = Cardinality(barriers[b].arrived)

\* InRound splits into a part about the entry and one about each node.
LEMMA InRoundParts ==
  ASSUME NEW b, NEW R
  PROVE  InRound(b, R) <=> EntryInv(b, R) /\ \A n \in Nodes : NodeInv(n, b, R)
  BY DEF InRound, EntryInv, NodeInv

\* A step that leaves the channels and the round of a node alone keeps its part.
LEMMA SameNode ==
  ASSUME NEW n, NEW b, NEW R, NodeInv(n, b, R), n \in barriers'[b].arrived => n \in barriers[b].arrived,
         arrive'[<<n, b>>] = arrive[<<n, b>>], release'[<<n, b>>] = release[<<n, b>>],
         round'[<<n, b>>] = round[<<n, b>>], waiting'[<<n, b>>] = waiting[<<n, b>>]
  PROVE  NodeInv(n, b, R)'
  BY DEF NodeInv

\* A step that leaves the entry of a barrier alone keeps its part.
LEMMA SameEntry ==
  ASSUME NEW b \in Barriers, NEW R, EntryInv(b, R), barriers'[b] = barriers[b]
  PROVE  EntryInv(b, R)'
  BY DEF EntryInv, Tracked

\* Sending ARRIVE, for the first time or again, keeps the round of the manager.
LEMMA SendArriveKeeps ==
  ASSUME TypeOK, NEW n \in Nodes, NEW b \in Barriers, SendArrive(n, b),
         NEW R \in Nat, EntryInv(b, R), \A m \in Nodes : NodeInv(m, b, R)
  PROVE  EntryInv(b, R)' /\ \A m \in Nodes : NodeInv(m, b, R)'
  <1> DEFINE p == <<n, b>>
             a == arrive[p]
             r == round[p]
  <1>1. p \in Pairs /\ a \in Seq(Nat) /\ r \in Nat
    BY PairOf DEF TypeOK
  <1>2. /\ barriers' = barriers /\ release' = release /\ round' = round
        /\ arrive'[p] = Append(a, r)
        /\ \A q \in Pairs : q # p => arrive'[q] = arrive[q] /\ waiting'[q] = waiting[q]
        /\ round[p] < MaxRound
    BY <1>1, Zenon DEF SendArrive, TypeOK
  <1>3. waiting'[p] = TRUE
    BY <1>1 DEF SendArrive, TypeOK
  <1>4. /\ DOMAIN a = 1 .. Len(a) /\ DOMAIN Append(a, r) = 1 .. Len(a) + 1 /\ Len(a) \in Nat
        /\ Append(a, r)[Len(a) + 1] = r /\ \A i \in 1 .. Len(a) : Append(a, r)[i] = a[i]
    BY <1>1
  <1>5. NodeInv(n, b, R)
    OBVIOUS
  <1>9. \A i \in DOMAIN a : a[i] \in Nat
    BY <1>1
  <1>6. \A i \in DOMAIN a : a[i] <= r /\ a[i] \in Nat
    <2>1. r = R \/ (r = R - 1)
      BY <1>5 DEF NodeInv
    <2>2. \A i \in DOMAIN a : a[i] = R - 1 \/ (a[i] = R /\ r = R)
      BY <1>5, Zenon DEF NodeInv
    <2> QED
      BY <1>9, <2>1, <2>2
  <1>7. NodeInv(n, b, R)'
    <2> DEFINE c == Append(a, r)
    <2>1. \A i \in DOMAIN c : (i \in DOMAIN a /\ c[i] = a[i]) \/ (i = Len(a) + 1 /\ c[i] = r)
      BY <1>4
    <2>2. \A i, j \in DOMAIN c : i < j => i \in DOMAIN a
      BY <1>4
    <2> HIDE DEF c
    <2>3. \A i \in DOMAIN c : c[i] = R - 1 \/ (c[i] = R /\ r = R)
      BY <1>5, <2>1, Zenon DEF NodeInv
    <2>4. \A i, j \in DOMAIN c : i < j => c[i] <= c[j]
      <3> SUFFICES ASSUME NEW i \in DOMAIN c, NEW j \in DOMAIN c, i < j
                   PROVE  c[i] <= c[j]
        OBVIOUS
      <3>1. i \in DOMAIN a /\ c[i] = a[i]
        BY <1>4, <2>1, <2>2, Zenon
      <3>2. CASE j \in DOMAIN a /\ c[j] = a[j]
        BY <1>5, <3>1, <3>2, Zenon DEF NodeInv
      <3>3. CASE c[j] = r
        BY <1>6, <3>1, <3>3
      <3> QED
        BY <2>1, <3>2, <3>3
    <2>5. n \in barriers[b].arrived => r = R /\ \A i \in DOMAIN c : c[i] = R
      BY <1>5, <2>1, Zenon DEF NodeInv
    <2>6. (r = R /\ release[p] = << >>) \/ (r = R - 1 /\ release[p] = <<R - 1>>)
      BY <1>5, Zenon DEF NodeInv
    <2>7. arrive'[p] = c
      BY <1>2 DEF c
    <2> QED
      BY <1>2, <1>3, <2>3, <2>4, <2>5, <2>6, <2>7, Zenon DEF NodeInv
  <1>8. \A m \in Nodes : m # n => NodeInv(m, b, R)'
    <2> SUFFICES ASSUME NEW m \in Nodes, m # n
                 PROVE  NodeInv(m, b, R)'
      OBVIOUS
    <2>1. <<m, b>> \in Pairs /\ <<m, b>> # p
      BY PairOf
    <2> QED
      BY <1>2, <2>1, SameNode
  <1> QED
    BY <1>2, <1>7, <1>8, SameEntry

\* A node that receives RELEASE joins the round of the manager.
LEMMA ReceiveReleaseKeeps ==
  ASSUME TypeOK, NEW n \in Nodes, NEW b \in Barriers, ReceiveRelease(n, b),
         NEW R \in Nat, EntryInv(b, R), \A m \in Nodes : NodeInv(m, b, R)
  PROVE  EntryInv(b, R)' /\ \A m \in Nodes : NodeInv(m, b, R)'
  <1> DEFINE p == <<n, b>>
  <1>1. p \in Pairs /\ NodeInv(n, b, R) /\ round[p] \in Nat
    BY PairOf DEF TypeOK
  <1>2. round[p] = R - 1 /\ release[p] = <<R - 1>> /\ waiting[p] /\ release[p] # << >>
    BY <1>1, Zenon DEF NodeInv, ReceiveRelease
  <1>3. Head(release[p]) = round[p] /\ Tail(release[p]) = << >>
    BY <1>2
  <1>4. /\ barriers' = barriers /\ arrive' = arrive
        /\ release'[p] = << >> /\ round'[p] = R
        /\ \A q \in Pairs : q # p => release'[q] = release[q] /\ round'[q] = round[q]
    BY <1>1, <1>2, <1>3 DEF ReceiveRelease, TypeOK
  <1>5. waiting'[p] = FALSE /\ \A q \in Pairs : q # p => waiting'[q] = waiting[q]
    BY <1>1, <1>2, <1>3, Zenon DEF ReceiveRelease, TypeOK
  <1>9. R - 1 # R
    OBVIOUS
  <1>6. /\ \A i \in DOMAIN arrive[p] : arrive[p][i] = R - 1
        /\ \A i, j \in DOMAIN arrive[p] : i < j => arrive[p][i] <= arrive[p][j]
        /\ n \notin barriers[b].arrived
    BY <1>1, <1>2, <1>9, Zenon DEF NodeInv
  <1>7. NodeInv(n, b, R)'
    BY <1>4, <1>5, <1>6, Zenon DEF NodeInv
  <1>8. \A m \in Nodes : m # n => NodeInv(m, b, R)'
    <2> SUFFICES ASSUME NEW m \in Nodes, m # n
                 PROVE  NodeInv(m, b, R)'
      OBVIOUS
    <2>1. <<m, b>> \in Pairs /\ <<m, b>> # p
      BY PairOf
    <2> QED
      BY <1>4, <1>5, <2>1, SameNode
  <1> QED
    BY <1>4, <1>7, <1>8, SameEntry

(* The manager is in round R: an ARRIVE of round R - 1 changes nothing, one of *)
(* round R counts its sender once and opens the barrier when all have come.    *)
LEMMA ArriveOld ==
  ASSUME TypeOK, NEW n \in Nodes, NEW b \in Barriers, NEW R \in Nat, R >= 1, EntryInv(b, R),
         Arrive(b, Gen(R - 1), n)
  PROVE  barriers' = barriers /\ ArriveStatus(b, Gen(R - 1), n) # "Release"
  <1>1. Gen(R - 1) \in Nat /\ Gen(R) \in Nat /\ Gen(R - 1) # Gen(R)
    <2>1. R - 1 \in Nat /\ (R - 1) + 1 = R
      OBVIOUS
    <2> QED
      BY <2>1, GenStep
  <1>2. b \in Tracked /\ Entry(b) = barriers[b] /\ Entry(b).generation = Gen(R) /\ ~Full(b)
    BY EntryFacts DEF EntryInv, Full
  <1>3. GenerationCheck(Gen(R - 1), Gen(R)) \in {"LateArrival", "FutureArrival"}
    BY <1>1 DEF GenerationCheck
  <1>4. ArriveStatus(b, Gen(R - 1), n) \in {"LateArrival", "FutureArrival"}
    BY <1>2, <1>3 DEF ArriveStatus
  <1>5. barriers' = [barriers EXCEPT ![b] = barriers[b]]
    BY <1>2, <1>4, Zenon DEF Arrive
  <1> QED
    BY <1>4, <1>5 DEF TypeOK

\* The entry Arrive works on, new or not, is that of the current round.
LEMMA EntryCurrent ==
  ASSUME TypeOK, NEW b \in Barriers, NEW R \in Nat, EntryInv(b, R), Nodes # {}
  PROVE  /\ Entry(b) \in BarrierState /\ Entry(b).generation = Gen(R)
         /\ Entry(b).participants = Cardinality(Nodes) /\ Entry(b).participants # 0
         /\ Entry(b).arrived = barriers[b].arrived
         /\ Entry(b).count = Cardinality(Entry(b).arrived)
  <1>1. Cardinality(Nodes) \in Nat /\ Cardinality(Nodes) # 0
    BY BarrierAssumption, FS_CardinalityType, FS_EmptySet
  <1>2. CASE b \in Tracked
    BY <1>1, <1>2, EntryFacts DEF EntryInv
  <1>3. CASE b \notin Tracked
    <2>1. R = 0 /\ barriers[b] = NoBarrier /\ Entry(b) = Fresh(Participants)
      BY <1>3 DEF EntryInv, Entry
    <2>2. barriers[b].generation = Gen(R) /\ NoBarrier.generation = 0
      BY DEF EntryInv, NoBarrier, Fresh
    <2> QED
      BY <1>1, <2>1, <2>2, EntryFacts, ServiceAssumption, FS_EmptySet DEF NoBarrier, Fresh
  <1> QED
    BY <1>2, <1>3

\* What Arrive does with an ARRIVE of the current round.
LEMMA ArriveNew ==
  ASSUME TypeOK, NEW n \in Nodes, NEW b \in Barriers, NEW R \in Nat, EntryInv(b, R),
         Arrive(b, Gen(R), n)
  PROVE  LET opens == ArriveStatus(b, Gen(R), n) = "Release"
             now == barriers[b].arrived \cup {n} IN
         \/ barriers' = barriers /\ ~opens
         \/ EntryInv(b, R)' /\ barriers'[b].arrived = now /\ ~opens
         \/ EntryInv(b, R + 1)' /\ barriers'[b].arrived = {} /\ opens /\ now = Nodes
  <1> DEFINE s == Entry(b)
             a == [s EXCEPT !.count = @ + 1, !.arrived = @ \cup ({n} \cap Marked)]
             status == ArriveStatus(b, Gen(R), n)
             now == barriers[b].arrived \cup {n}
  <1>1. /\ s \in BarrierState /\ s.generation = Gen(R) /\ s.arrived = barriers[b].arrived
        /\ s.participants = Cardinality(Nodes) /\ s.participants # 0
        /\ s.count = Cardinality(s.arrived) /\ barriers \in [Barriers -> BarrierState]
    <2>1. Nodes # {}
      OBVIOUS
    <2> QED
      BY <2>1, EntryCurrent DEF TypeOK
  <1>2. Gen(R) \in Nat /\ GenerationCheck(Gen(R), Gen(R)) = "Current"
    <2>1. Gen(R) \in Nat
      BY GenStep
    <2> QED
      BY <2>1 DEF GenerationCheck
  <1>3. status \in {"LayoutOverflow", "InvalidConfiguration", "DuplicateArrival", "Release", "Ok"}
    BY <1>1, <1>2 DEF ArriveStatus
  <1>4. CASE status \in {"LayoutOverflow", "InvalidConfiguration"}
    BY <1>4 DEF Arrive
  <1>5. CASE status = "DuplicateArrival"
    <2>1. n \in s.arrived
      BY <1>1, <1>2, <1>5 DEF ArriveStatus, Duplicate
    <2>2. b \in Tracked
      <3>1. barriers[b].arrived # {}
        BY <1>1, <2>1
      <3>2. NoBarrier.arrived = {}
        BY DEF NoBarrier, Fresh
      <3> QED
        BY <3>1, <3>2 DEF EntryInv
    <2>3. barriers' = [barriers EXCEPT ![b] = barriers[b]]
      BY <1>5, <2>2, EntryFacts, Zenon DEF Arrive
    <2> QED
      BY <1>1, <1>5, <2>3
  <1>6. ASSUME status \in {"Ok", "Release"}
        PROVE  /\ n \notin s.arrived /\ (status = "Release" <=> s.count + 1 >= s.participants)
               /\ IsFiniteSet(now) /\ now \in SUBSET Nodes
               /\ Cardinality(now) = s.count + 1 /\ s.count \in Nat /\ Cardinality(Nodes) \in Nat
    <2>1. n \notin s.arrived /\ (status = "Release" <=> s.count + 1 >= s.participants)
      BY <1>1, <1>2, <1>6, ServiceAssumption DEF ArriveStatus, Duplicate, Complete
    <2>2. s.arrived \in SUBSET Nodes /\ IsFiniteSet(Nodes) /\ s.count \in Nat
      BY <1>1, BarrierAssumption DEF BarrierState
    <2>3. IsFiniteSet(s.arrived)
      BY <2>2, FS_Subset
    <2> QED
      BY <1>1, <2>1, <2>2, <2>3, FS_AddElement, FS_CardinalityType
  <1>7. CASE status = "Ok"
    <2>1. barriers' = [barriers EXCEPT ![b] = a]
      BY <1>7 DEF Arrive
    <2>2. /\ a.generation = s.generation /\ a.participants = s.participants
          /\ a.count = s.count + 1 /\ a.arrived = s.arrived \cup {n}
      BY <1>1, ServiceAssumption DEF BarrierState
    <2> HIDE DEF a, s
    <2>3. barriers'[b] = a /\ b \in Tracked'
      BY <1>1, <2>1, <2>2 DEF Tracked
    <2>4. EntryInv(b, R)' /\ barriers'[b].arrived = now
      BY <1>1, <1>6, <1>7, <2>2, <2>3, Zenon DEF EntryInv
    <2> QED
      BY <1>7, <2>4
  <1>8. CASE status = "Release"
    <2>1. barriers' = [barriers EXCEPT ![b] = Released(a)]
      BY <1>8 DEF Arrive
    <2>2. /\ Released(a).generation = (s.generation + 1) % GenMod
          /\ Released(a).participants = s.participants
          /\ Released(a).count = 0 /\ Released(a).arrived = {}
      BY <1>1 DEF BarrierState, Released
    <2>6. Gen(R + 1) = (Gen(R) + 1) % GenMod
      BY GenStep
    <2>5. now = Nodes
      <3>1. Cardinality(now) <= Cardinality(Nodes)
        BY <1>6, <1>8, BarrierAssumption, FS_Subset
      <3>2. Cardinality(now) >= Cardinality(Nodes)
        BY <1>1, <1>6, <1>8
      <3>3. Cardinality(now) = Cardinality(Nodes)
        BY <1>6, <1>8, <3>1, <3>2
      <3> QED
        BY <1>6, <1>8, <3>3, BarrierAssumption, FS_Subset
    <2> HIDE DEF a, s
    <2>3. barriers'[b] = Released(a) /\ b \in Tracked'
      BY <1>1, <2>1, <2>2 DEF Tracked
    <2>4. EntryInv(b, R + 1)' /\ barriers'[b].arrived = {}
      BY <1>1, <2>2, <2>3, <2>6, FS_EmptySet DEF EntryInv
    <2> QED
      BY <1>8, <2>4, <2>5
  <1> QED
    BY <1>3, <1>4, <1>5, <1>7, <1>8

(* What is left of a channel once its head is taken. *)
LEMMA TailAt ==
  ASSUME NEW a \in Seq(Nat), a # << >>
  PROVE  /\ Head(a) = a[1] /\ 1 \in DOMAIN a /\ DOMAIN a = 1 .. Len(a) /\ Len(a) \in Nat
         /\ DOMAIN Tail(a) = 1 .. Len(a) - 1
         /\ \A i \in DOMAIN Tail(a) : i \in Nat /\ i >= 1 /\ i + 1 \in DOMAIN a /\ Tail(a)[i] = a[i + 1]
  <1>1. Len(a) \in Nat /\ Len(a) >= 1 /\ DOMAIN a = 1 .. Len(a) /\ Head(a) = a[1]
    OBVIOUS
  <1>2. DOMAIN Tail(a) = 1 .. Len(a) - 1 /\ \A i \in 1 .. Len(a) - 1 : Tail(a)[i] = a[i + 1]
    OBVIOUS
  <1> QED
    BY <1>1, <1>2

\* The ARRIVE at the head of a channel is of the current round or the one before,
\* and those behind it stay in order.
LEMMA HandledHead ==
  ASSUME TypeOK, NEW n \in Nodes, NEW b \in Barriers, NEW R \in Nat, NodeInv(n, b, R),
         arrive[<<n, b>>] # << >>
  PROVE  LET p == <<n, b>>
             a == arrive[p] IN
         /\ \/ a[1] = R - 1 /\ R >= 1 /\ n \notin barriers[b].arrived
            \/ a[1] = R /\ round[p] = R /\ waiting[p] /\ \A i \in DOMAIN Tail(a) : Tail(a)[i] = R
         /\ \A i \in DOMAIN Tail(a) : \E j \in DOMAIN a : Tail(a)[i] = a[j]
         /\ \A i, j \in DOMAIN Tail(a) : i < j => Tail(a)[i] <= Tail(a)[j]
  <1> DEFINE p == <<n, b>>
             a == arrive[p]
             t == Tail(a)
  <1> SUFFICES /\ \/ a[1] = R - 1 /\ R >= 1 /\ n \notin barriers[b].arrived
                  \/ a[1] = R /\ round[p] = R /\ waiting[p] /\ \A i \in DOMAIN t : t[i] = R
               /\ \A i \in DOMAIN t : \E j \in DOMAIN a : t[i] = a[j]
               /\ \A i, j \in DOMAIN t : i < j => t[i] <= t[j]
    BY Zenon
  <1>1. p \in Pairs /\ a \in Seq(Nat) /\ a # << >>
    BY PairOf DEF TypeOK
  <1>2. /\ Head(a) = a[1] /\ 1 \in DOMAIN a
        /\ \A i \in DOMAIN t : i \in Nat /\ i >= 1 /\ i + 1 \in DOMAIN a /\ t[i] = a[i + 1]
    BY <1>1, TailAt, Zenon
  <1>3. \A i \in DOMAIN a : a[i] \in Nat
    BY <1>1
  <1>4. /\ \A i \in DOMAIN a : a[i] = R - 1 \/ (a[i] = R /\ round[p] = R /\ waiting[p])
        /\ \A i, j \in DOMAIN a : i < j => a[i] <= a[j]
        /\ n \in barriers[b].arrived => \A i \in DOMAIN a : a[i] = R
    BY DEF NodeInv
  <1> HIDE DEF a, t
  <1>5. \A i, j \in DOMAIN t : i < j => t[i] <= t[j]
    BY <1>2, <1>4
  <1>8. \A i \in DOMAIN t : \E j \in DOMAIN a : t[i] = a[j]
    BY <1>2
  <1>6. CASE a[1] = R - 1
    <2>1. R >= 1 /\ R - 1 # R
      BY <1>2, <1>3, <1>6
    <2>2. n \notin barriers[b].arrived
      BY <1>2, <1>4, <1>6, <2>1
    <2> QED
      BY <1>2, <1>5, <1>6, <1>8, <2>1, <2>2
  <1>7. CASE a[1] = R /\ round[p] = R /\ waiting[p]
    <2>1. \A i \in DOMAIN t : t[i] = R
      <3> SUFFICES ASSUME NEW i \in DOMAIN t
                   PROVE  t[i] = R
        OBVIOUS
      <3>1. a[1] <= a[i + 1] /\ (a[i + 1] = R - 1 \/ a[i + 1] = R)
        BY <1>2, <1>4
      <3> QED
        BY <1>2, <1>7, <3>1
    <2> QED
      BY <1>2, <1>5, <1>7, <1>8, <2>1
  <1> QED
    BY <1>2, <1>4, <1>6, <1>7

\* Handling an ARRIVE keeps the round of the manager, or moves it to the next
\* when the last node has come.
LEMMA HandleArriveKeeps ==
  ASSUME TypeOK, NEW n \in Nodes, NEW b \in Barriers, HandleArrive(n, b),
         NEW R \in 0 .. MaxRound, EntryInv(b, R), \A m \in Nodes : NodeInv(m, b, R)
  PROVE  \E S \in 0 .. MaxRound : EntryInv(b, S)' /\ \A m \in Nodes : NodeInv(m, b, S)'
  <1> DEFINE p == <<n, b>>
             a == arrive[p]
             t == Tail(a)
             opens == ArriveStatus(b, Gen(a[1]), n) = "Release"
             now == barriers[b].arrived \cup {n}
  <1>1. p \in Pairs /\ a \in Seq(Nat) /\ a # << >> /\ R \in Nat /\ R <= MaxRound /\ MaxRound \in Nat
    BY PairOf, ServiceAssumption DEF TypeOK, HandleArrive
  <1>2. Head(a) = a[1]
    BY <1>1, TailAt
  <1>3. /\ Arrive(b, Gen(a[1]), n) /\ arrive'[p] = t
        /\ \A q \in Pairs : q # p => arrive'[q] = arrive[q]
        /\ round' = round /\ waiting' = waiting
    BY <1>1, <1>2 DEF HandleArrive, TypeOK
  <1>4. \A m \in Nodes : release'[<<m, b>>] = IF opens THEN Append(release[<<m, b>>], a[1])
                                                       ELSE release[<<m, b>>]
    BY <1>2, PairOf, SMTT(30) DEF HandleArrive
  <1>5. /\ \/ a[1] = R - 1 /\ R >= 1 /\ n \notin barriers[b].arrived
           \/ a[1] = R /\ round[p] = R /\ waiting[p] /\ \A i \in DOMAIN t : t[i] = R
        /\ \A i \in DOMAIN t : \E j \in DOMAIN a : t[i] = a[j]
        /\ \A i, j \in DOMAIN t : i < j => t[i] <= t[j]
    BY <1>1, HandledHead, Zenon
  <1>6. \A m \in Nodes : m # n => <<m, b>> \in Pairs /\ arrive'[<<m, b>>] = arrive[<<m, b>>]
    BY <1>3, PairOf
  <1>7. NodeInv(n, b, R)
    OBVIOUS
  <1> HIDE DEF t, a, opens
  <1>8. ASSUME barriers'[b].arrived = barriers[b].arrived, ~opens
        PROVE  \A m \in Nodes : NodeInv(m, b, R)'
    <2>1. NodeInv(n, b, R)'
      <3>1. \A i \in DOMAIN t : t[i] = R - 1 \/ (t[i] = R /\ round[p] = R /\ waiting[p])
        BY <1>5, <1>7, Zenon DEF NodeInv, a
      <3>2. n \in barriers[b].arrived =>
              round[p] = R /\ waiting[p] /\ \A i \in DOMAIN t : t[i] = R
        BY <1>5, <1>7, Zenon DEF NodeInv, a
      <3>3. /\ \/ round[p] = R /\ release[p] = << >>
               \/ round[p] = R - 1 /\ release[p] = <<R - 1>> /\ waiting[p]
            /\ waiting[p] => round[p] < MaxRound
        BY <1>7, Zenon DEF NodeInv
      <3>4. release'[p] = release[p]
        BY <1>4, <1>8
      <3> QED
        BY <1>3, <1>5, <1>8, <3>1, <3>2, <3>3, <3>4, Zenon DEF NodeInv
    <2>2. ASSUME NEW m \in Nodes, m # n
          PROVE  NodeInv(m, b, R)'
      BY <1>3, <1>4, <1>6, <1>8, <2>2, SameNode, Zenon
    <2> QED
      BY <2>1, <2>2
  <1>9. CASE a[1] = R - 1 /\ R >= 1
    <2>1. barriers' = barriers /\ ~opens
      BY <1>1, <1>3, <1>9, ArriveOld DEF opens
    <2>2. EntryInv(b, R)'
      BY <2>1, SameEntry
    <2> QED
      BY <1>8, <2>1, <2>2
  <1>10. CASE a[1] = R
    <2>1. round[p] = R /\ waiting[p] /\ \A i \in DOMAIN t : t[i] = R
      <3>1. R # R - 1
        BY <1>1, SMTT(30)
      <3> QED
        BY <1>5, <1>10, <3>1
    <2>2. \/ barriers' = barriers /\ ~opens
          \/ EntryInv(b, R)' /\ barriers'[b].arrived = now /\ ~opens
          \/ EntryInv(b, R + 1)' /\ barriers'[b].arrived = {} /\ opens /\ now = Nodes
      BY <1>1, <1>3, <1>10, ArriveNew DEF opens
    <2>3. CASE barriers' = barriers /\ ~opens
      BY <1>8, <2>3, SameEntry
    <2>4. CASE EntryInv(b, R)' /\ barriers'[b].arrived = now /\ ~opens
      <3>1. release[p] = << >> /\ R < MaxRound
        BY <1>1, <1>7, <2>1 DEF NodeInv
      <3>2. release'[p] = release[p] /\ n \in now
        BY <1>4, <2>4, SMTT(30)
      <3>3. NodeInv(n, b, R)'
        BY <1>3, <1>5, <2>1, <2>4, <3>1, <3>2, ZenonT(30) DEF NodeInv
      <3>4. ASSUME NEW m \in Nodes, m # n
            PROVE  NodeInv(m, b, R)'
        <4>1. m \in barriers'[b].arrived <=> m \in barriers[b].arrived
          BY <2>4, <3>4
        <4>2. release'[<<m, b>>] = release[<<m, b>>]
          BY <1>4, <2>4
        <4> QED
          BY <1>3, <1>6, <3>4, <4>1, <4>2, SameNode, SMTT(30)
      <3> QED
        BY <2>4, <3>3, <3>4, SMTT(30)
    <2>5. CASE EntryInv(b, R + 1)' /\ barriers'[b].arrived = {} /\ opens /\ now = Nodes
      <3>1. ASSUME NEW m \in Nodes
            PROVE  /\ round[<<m, b>>] = R /\ waiting[<<m, b>>] /\ release[<<m, b>>] = << >>
                   /\ \A i \in DOMAIN arrive'[<<m, b>>] : arrive'[<<m, b>>][i] = R
                   /\ R < MaxRound
        <4>1. round[<<m, b>>] = R /\ waiting[<<m, b>>]
          BY <2>1, <2>5, SMTT(30) DEF NodeInv
        <4>2. release[<<m, b>>] = << >> /\ R < MaxRound
          BY <1>1, <4>1 DEF NodeInv
        <4>3. \A i \in DOMAIN arrive'[<<m, b>>] : arrive'[<<m, b>>][i] = R
          <5>1. CASE m = n
            BY <1>3, <2>1, <5>1
          <5>2. CASE m # n
            <6>1. m \in barriers[b].arrived /\ arrive'[<<m, b>>] = arrive[<<m, b>>] /\ NodeInv(m, b, R)
              BY <1>6, <2>5, <5>2
            <6> QED
              BY <6>1, ZenonT(30) DEF NodeInv
          <5> QED
            BY <5>1, <5>2
        <4> QED
          BY <4>1, <4>2, <4>3, SMTT(30)
      <3>2. R + 1 \in 0 .. MaxRound /\ (R + 1) - 1 = R
        BY <1>1, <3>1
      <3>3. ASSUME NEW m \in Nodes
            PROVE  NodeInv(m, b, R + 1)'
        <4>1. release'[<<m, b>>] = <<R>>
          BY <1>4, <1>10, <2>5, <3>1
        <4>2. \A i, j \in DOMAIN arrive'[<<m, b>>] :
                i < j => arrive'[<<m, b>>][i] <= arrive'[<<m, b>>][j]
          BY <1>1, <3>1
        <4>3. /\ round'[<<m, b>>] = (R + 1) - 1 /\ waiting'[<<m, b>>]
              /\ release'[<<m, b>>] = <<(R + 1) - 1>> /\ round'[<<m, b>>] < MaxRound
          <5>1. round'[<<m, b>>] = R /\ R < MaxRound /\ (R + 1) - 1 = R
            BY <1>3, <3>1, <3>2
          <5>2. waiting'[<<m, b>>]
            BY <1>3, <3>1
          <5> QED
            BY <4>1, <5>1, <5>2
        <4>4. \A i \in DOMAIN arrive'[<<m, b>>] : arrive'[<<m, b>>][i] = (R + 1) - 1
          BY <3>1, <3>2
        <4>5. m \notin barriers'[b].arrived
          BY <2>5
        <4> QED
          BY <4>2, <4>3, <4>4, <4>5, Zenon DEF NodeInv
      <3> QED
        BY <2>5, <3>2, <3>3
    <2> QED
      BY <2>2, <2>3, <2>4, <2>5
  <1> QED
    BY <1>5, <1>9, <1>10

\* Every step keeps BarrierInv.
LEMMA InvKeeps ==
  ASSUME TypeOK, BarrierInv, [Next]_vars
  PROVE  BarrierInv'
  <1> SUFFICES ASSUME NEW c \in Barriers
               PROVE  \E S \in 0 .. MaxRound : InRound(c, S)'
    BY DEF BarrierInv
  <1>1. PICK R \in 0 .. MaxRound : EntryInv(c, R) /\ \A m \in Nodes : NodeInv(m, c, R)
    BY InRoundParts DEF BarrierInv
  <1>2. R \in Nat
    BY <1>1, SMTT(30)
  <1>3. SUFFICES \E S \in 0 .. MaxRound : EntryInv(c, S)' /\ \A m \in Nodes : NodeInv(m, c, S)'
    BY <1>3, Zenon DEF InRound, EntryInv, NodeInv
  <1>4. ASSUME barriers'[c] = barriers[c],
               \A m \in Nodes : /\ arrive'[<<m, c>>] = arrive[<<m, c>>]
                                /\ release'[<<m, c>>] = release[<<m, c>>]
                                /\ round'[<<m, c>>] = round[<<m, c>>]
                                /\ waiting'[<<m, c>>] = waiting[<<m, c>>]
        PROVE  EntryInv(c, R)' /\ \A m \in Nodes : NodeInv(m, c, R)'
    BY <1>1, <1>4, SameEntry, SameNode, Zenon
  <1>5. ASSUME NEW n \in Nodes, NEW b \in Barriers, SendArrive(n, b)
        PROVE  EntryInv(c, R)' /\ \A m \in Nodes : NodeInv(m, c, R)'
    <2>1. CASE b = c
      BY <1>1, <1>2, <1>5, <2>1, SendArriveKeeps
    <2>2. CASE b # c
      <3>1. \A m \in Nodes : <<m, c>> \in Pairs /\ <<m, c>> # <<n, b>> /\ <<n, b>> \in Pairs
        BY <2>2, PairOf
      <3> QED
        BY <1>4, <1>5, <3>1, Zenon DEF SendArrive, TypeOK
    <2> QED
      BY <2>1, <2>2
  <1>6. ASSUME NEW n \in Nodes, NEW b \in Barriers, ReceiveRelease(n, b)
        PROVE  EntryInv(c, R)' /\ \A m \in Nodes : NodeInv(m, c, R)'
    <2>1. CASE b = c
      BY <1>1, <1>2, <1>6, <2>1, ReceiveReleaseKeeps
    <2>2. CASE b # c
      <3>1. \A m \in Nodes : <<m, c>> \in Pairs /\ <<m, c>> # <<n, b>> /\ <<n, b>> \in Pairs
        BY <2>2, PairOf
      <3>2. \A m \in Nodes : waiting'[<<m, c>>] = waiting[<<m, c>>]
        BY <1>6, <3>1 DEF ReceiveRelease, TypeOK
      <3>3. /\ barriers' = barriers /\ arrive' = arrive
            /\ \A m \in Nodes : /\ release'[<<m, c>>] = release[<<m, c>>]
                                /\ round'[<<m, c>>] = round[<<m, c>>]
        BY <1>6, <3>1 DEF ReceiveRelease, TypeOK
      <3> QED
        BY <1>4, <3>2, <3>3
    <2> QED
      BY <2>1, <2>2
  <1>7. ASSUME NEW n \in Nodes, NEW b \in Barriers, HandleArrive(n, b)
        PROVE  \E S \in 0 .. MaxRound : EntryInv(c, S)' /\ \A m \in Nodes : NodeInv(m, c, S)'
    <2>1. CASE b = c
      BY <1>1, <1>7, <2>1, HandleArriveKeeps
    <2>2. CASE b # c
      <3> DEFINE r == Head(arrive[<<n, b>>])
      <3>1. \A m \in Nodes : /\ <<m, c>> \in Pairs /\ <<m, c>> # <<n, b>> /\ <<n, b>> \in Pairs
                             /\ <<m, c>>[2] = c
        BY <2>2, PairOf
      <3>2. r \in Nat /\ Arrive(b, Gen(r), n)
        <4>1. <<n, b>> \in Pairs /\ arrive[<<n, b>>] # << >> /\ Arrive(b, Gen(r), n)
          BY <1>7, PairOf DEF HandleArrive
        <4>2. arrive[<<n, b>>] \in Seq(Nat)
          BY <4>1 DEF TypeOK
        <4> QED
          BY <4>1, <4>2
      <3>3. \A m \in Nodes : /\ arrive'[<<m, c>>] = arrive[<<m, c>>]
                             /\ release'[<<m, c>>] = release[<<m, c>>]
        <4>1. \A m \in Nodes : arrive'[<<m, c>>] = arrive[<<m, c>>]
          BY <1>7, <3>1 DEF HandleArrive, TypeOK
        <4>2. \A m \in Nodes : release'[<<m, c>>] = release[<<m, c>>]
          BY <1>7, <2>2, <3>1 DEF HandleArrive
        <4> QED
          BY <4>1, <4>2
      <3>5. round' = round /\ waiting' = waiting
        BY <1>7 DEF HandleArrive
      <3> HIDE DEF r
      <3>4. Gen(r) \in Nat
        BY <3>2, GenStep
      <3>6. barriers'[c] = barriers[c]
        BY <2>2, <3>2, <3>4, ArriveType
      <3> QED
        BY <1>4, <3>3, <3>5, <3>6
    <2> QED
      BY <2>1, <2>2
  <1>8. CASE UNCHANGED vars
    BY <1>4, <1>8 DEF vars
  <1> QED
    BY <1>5, <1>6, <1>7, <1>8 DEF Next

\* The initial state: round 0 everywhere.
LEMMA InitBarrier == Init => TypeOK /\ BarrierInv
  <1> SUFFICES ASSUME Init
               PROVE  TypeOK /\ BarrierInv
    OBVIOUS
  <1>1. Gen(0) = 0 /\ NoBarrier \in BarrierState /\ 0 \in 0 .. MaxRound
    <2>1. 0 \in 0 .. GenMod - 1 /\ GenMod * 0 + 0 = 0
      BY BarrierAssumption
    <2>2. Gen(0) = 0
      BY <2>1, ModOf DEF Gen
    <2> QED
      BY <2>1, <2>2, ServiceAssumption DEF NoBarrier, Fresh, BarrierState
  <1>2. TypeOK
    BY <1>1 DEF Init, BarriersInit, TypeOK
  <1>3. ASSUME NEW b \in Barriers
        PROVE  InRound(b, 0)
    <2>1. /\ barriers[b] = NoBarrier /\ NoBarrier.generation = 0 /\ NoBarrier.arrived = {}
          /\ NoBarrier.count = 0 /\ NoBarrier.participants = 0 /\ b \notin Tracked
      BY DEF Init, BarriersInit, NoBarrier, Fresh, Tracked
    <2>2. \A m \in Nodes : NodeInv(m, b, 0)
      BY <2>1, PairOf DEF Init, NodeInv
    <2> QED
      BY <1>1, <2>1, <2>2, FS_EmptySet, InRoundParts DEF EntryInv
  <1> QED
    BY <1>1, <1>2, <1>3 DEF BarrierInv

-----------------------------------------------------------------------------
(* BarrierManager and its nodes keep their types: in particular the generation *)
(* stays within uint16_t and the bitmap within the nodes.                      *)
THEOREM BarrierTypes == Spec => []TypeOK
  BY InitBarrier, TypeKeeps, PTL DEF Spec

(* At every moment each barrier is in one round that accounts for all arrivals *)
(* counted and all messages under way (Arrive in barrier_state.cc).            *)
THEOREM BarrierInvariant == Spec => []BarrierInv
  <1>1. TypeOK /\ BarrierInv /\ [Next]_vars => TypeOK' /\ BarrierInv'
    BY TypeKeeps, InvKeeps
  <1> QED
    BY <1>1, InitBarrier, PTL DEF Spec

(* No node leaves a barrier before all have reached it: the RELEASE that Arrive *)
(* sends on the last missing arrival is the only way on.                        *)
THEOREM BarrierNobodyPasses == Spec => []NobodyPasses
  <1>1. TypeOK /\ BarrierInv => NobodyPasses
    <2> SUFFICES ASSUME TypeOK, BarrierInv, NEW b \in Barriers, NEW n \in Nodes, NEW m \in Nodes,
                        round[<<n, b>>] > round[<<m, b>>]
                 PROVE  round[<<n, b>>] = round[<<m, b>>] + 1 /\ waiting[<<m, b>>]
      BY DEF NobodyPasses
    <2>1. PICK R \in 0 .. MaxRound : \A x \in Nodes : NodeInv(x, b, R)
      BY InRoundParts DEF BarrierInv
    <2>2. round[<<n, b>>] \in {R, R - 1} /\ (round[<<m, b>>] = R \/ (round[<<m, b>>] = R - 1 /\ waiting[<<m, b>>]))
      BY <2>1 DEF NodeInv
    <2> QED
      BY <2>1, <2>2
  <1> QED
    BY <1>1, BarrierTypes, BarrierInvariant, PTL

(* An ARRIVE of a released round leaves barrier and nodes alone (the checks on *)
(* the generation in Arrive), also across the wrap of the generation.          *)
THEOREM BarrierStaleIgnored == Spec => StaleIgnored
  <1> DEFINE Ignored == \A p \in Pairs :
               /\ arrive[p] # << >> /\ arrive'[p] = Tail(arrive[p])
               /\ Head(arrive[p]) < round[p] \/ release[p] # << >>
               => barriers' = barriers /\ release' = release
  <1>1. ASSUME TypeOK, BarrierInv, [Next]_vars
        PROVE  Ignored
    <2> SUFFICES ASSUME NEW n \in Nodes, NEW b \in Barriers,
                        arrive[<<n, b>>] # << >>, arrive'[<<n, b>>] = Tail(arrive[<<n, b>>]),
                        Head(arrive[<<n, b>>]) < round[<<n, b>>] \/ release[<<n, b>>] # << >>
                 PROVE  barriers' = barriers /\ release' = release
      BY DEF Pairs
    <2> DEFINE a == arrive[<<n, b>>]
    <2>1. <<n, b>> \in Pairs /\ a \in Seq(Nat) /\ round[<<n, b>>] \in Nat
      BY <1>1, PairOf DEF TypeOK
    <2>2. /\ Tail(a) \in Seq(Nat) /\ Len(Tail(a)) = Len(a) - 1 /\ Len(a) \in Nat /\ Tail(a) # a
          /\ \A x \in Nat : Len(Append(a, x)) = Len(a) + 1
      <3>1. Tail(a) \in Seq(Nat) /\ Len(Tail(a)) = Len(a) - 1 /\ Len(a) \in Nat
        BY <2>1
      <3>2. \A x \in Nat : Len(Append(a, x)) = Len(a) + 1
        BY <2>1
      <3>3. Tail(a) # a
        <4> DEFINE t == Tail(a)
        <4>1. Len(t) = Len(a) - 1 /\ Len(a) \in Nat
          BY <3>1
        <4> HIDE DEF t, a
        <4>2. t # a
          BY <4>1
        <4> QED
          BY <4>2 DEF t
      <3> QED
        BY <3>1, <3>2, <3>3
    <2>3. ASSUME NEW m \in Nodes, NEW c \in Barriers, SendArrive(m, c)
          PROVE  FALSE
      <3>1. arrive'[<<n, b>>] = a \/ arrive'[<<n, b>>] = Append(a, round[<<n, b>>])
        BY <1>1, <2>1, <2>3, Zenon DEF SendArrive, TypeOK
      <3> QED
        BY <2>1, <2>2, <3>1
    <2>4. ASSUME NEW m \in Nodes, NEW c \in Barriers, HandleArrive(m, c)
          PROVE  barriers' = barriers /\ release' = release
      <3>1. <<m, c>> = <<n, b>>
        <4>1. arrive' = [arrive EXCEPT ![<<m, c>>] = Tail(arrive[<<m, c>>])]
          BY <2>4 DEF HandleArrive
        <4>2. <<m, c>> # <<n, b>> => arrive'[<<n, b>>] = a
          BY <1>1, <2>1, <4>1 DEF TypeOK
        <4> QED
          BY <2>2, <4>2
      <3>2. HandleArrive(n, b)
        BY <2>4, <3>1
      <3>3. PICK R \in 0 .. MaxRound : EntryInv(b, R) /\ NodeInv(n, b, R)
        BY <1>1, InRoundParts DEF BarrierInv
      <3>4. R \in Nat /\ Head(a) = a[1]
        BY <2>1, TailAt
      <3>5. (a[1] = R - 1 /\ R >= 1) \/ (a[1] = R /\ round[<<n, b>>] = R)
        <4>1. \/ a[1] = R - 1 /\ R >= 1 /\ n \notin barriers[b].arrived
              \/ a[1] = R /\ round[<<n, b>>] = R /\ waiting[<<n, b>>]
                 /\ \A i \in DOMAIN Tail(a) : Tail(a)[i] = R
          BY <1>1, <3>3, <3>4, HandledHead, ZenonT(30)
        <4> QED
          BY <4>1
      <3>6. round[<<n, b>>] = R => release[<<n, b>>] = << >>
        BY <3>3, <3>4 DEF NodeInv
      <3>7. a[1] = R - 1 /\ R >= 1
        BY <3>4, <3>5, <3>6
      <3> HIDE DEF a
      <3>8. Arrive(b, Gen(R - 1), n)
        BY <3>2, <3>4, <3>7 DEF HandleArrive, a
      <3>9. barriers' = barriers /\ ArriveStatus(b, Gen(R - 1), n) # "Release"
        BY <1>1, <3>3, <3>4, <3>7, <3>8, ArriveOld, SMTT(30)
      <3>10. release' = [q \in Pairs |-> release[q]]
        BY <3>2, <3>4, <3>7, <3>9 DEF HandleArrive, a
      <3> QED
        BY <1>1, <3>9, <3>10 DEF TypeOK
    <2>5. ASSUME NEW m \in Nodes, NEW c \in Barriers, ReceiveRelease(m, c)
          PROVE  FALSE
      BY <2>2, <2>5 DEF ReceiveRelease
    <2>6. CASE UNCHANGED vars
      BY <2>6 DEF vars
    <2> QED
      BY <1>1, <2>3, <2>4, <2>5, <2>6 DEF Next
  <1>2. TypeOK /\ BarrierInv /\ [Next]_vars => [Ignored]_vars
    BY <1>1
  <1> QED
    BY <1>2, BarrierTypes, BarrierInvariant, PTL DEF Spec, StaleIgnored
=============================================================================
