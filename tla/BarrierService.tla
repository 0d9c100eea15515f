--------------------------- MODULE BarrierService ---------------------------
(***************************************************************************)
(* A BarrierManager and the nodes that meet at its barriers.  A node sends *)
(* ARRIVE, repeats it while it waits, and goes on at RELEASE; channels are *)
(* reliable and FIFO.  The nodes are the guest programs of the disk images,*)
(* known here by the messages of barrier_proto.h.                          *)
(*                                                                         *)
(* Nodes count rounds without limit; what is on the wire, and all that the *)
(* manager sees, is the round modulo GenMod.                               *)
(***************************************************************************)
EXTENDS BarrierManager, Sequences

CONSTANTS MaxRound,    \* nodes stop before this round
          MaxCopies    \* ARRIVE messages a node may have under way

\* The nodes of a barrier are at most 64, numbered from 0.
ASSUME ServiceAssumption ==
  /\ Nodes \subseteq Marked /\ Participants = Cardinality(Nodes) /\ MaxRound \in Nat /\ MaxCopies \in Nat

VARIABLES arrive,    \* arrive[n, b]: rounds of the ARRIVE messages under way
          release,   \* release[n, b]: rounds of the RELEASE messages under way
          round,     \* round[n, b]: the round n is in
          waiting    \* waiting[n, b]: n has arrived and waits for RELEASE

vars == <<barriers, arrive, release, round, waiting>>

Pairs == Nodes \X Barriers
Gen(r) == r % GenMod

Init == /\ BarriersInit
        /\ arrive = [p \in Pairs |-> << >>] /\ release = [p \in Pairs |-> << >>]
        /\ round = [p \in Pairs |-> 0] /\ waiting = [p \in Pairs |-> FALSE]

-----------------------------------------------------------------------------
(* Nodes. *)

\* The first ARRIVE of a round, or a repeated one.
SendArrive(n, b) ==
  LET p == <<n, b>> IN
  /\ round[p] < MaxRound /\ Len(arrive[p]) < MaxCopies
  /\ arrive' = [arrive EXCEPT ![p] = Append(@, round[p])]
  /\ waiting' = [waiting EXCEPT ![p] = TRUE]
  /\ UNCHANGED <<barriers, release, round>>

\* A RELEASE of another generation is ignored.
ReceiveRelease(n, b) ==
  LET p == <<n, b>>
      mine == waiting[p] /\ Gen(Head(release[p])) = Gen(round[p]) IN
  /\ release[p] # << >>
  /\ release' = [release EXCEPT ![p] = Tail(@)]
  /\ round' = [round EXCEPT ![p] = IF mine THEN @ + 1 ELSE @]
  /\ waiting' = [waiting EXCEPT ![p] = @ /\ ~mine]
  /\ UNCHANGED <<barriers, arrive>>

-----------------------------------------------------------------------------
(* The manager: HandleMessage; RELEASE is broadcast. *)

HandleArrive(n, b) ==
  LET p == <<n, b>>
      r == Head(arrive[p])
      opens == ArriveStatus(b, Gen(r), n) = "Release" IN
  /\ arrive[p] # << >>
  /\ arrive' = [arrive EXCEPT ![p] = Tail(@)]
  /\ Arrive(b, Gen(r), n)
  /\ release' = [q \in Pairs |-> IF opens /\ q[2] = b THEN Append(release[q], r) ELSE release[q]]
  /\ UNCHANGED <<round, waiting>>

Next == \E n \in Nodes, b \in Barriers :
          SendArrive(n, b) \/ ReceiveRelease(n, b) \/ HandleArrive(n, b)

Spec == Init /\ [][Next]_vars

\* Messages are delivered and handled, and a node arrives at every barrier.
FairSpec == /\ Spec
            /\ \A n \in Nodes, b \in Barriers :
                 /\ WF_vars(HandleArrive(n, b)) /\ WF_vars(ReceiveRelease(n, b))
                 /\ WF_vars(~waiting[<<n, b>>] /\ SendArrive(n, b))

-----------------------------------------------------------------------------
(* Properties. *)

\* Types: in particular current_generation stays within uint16_t.
TypeOK == /\ barriers \in [Barriers -> BarrierState]
          /\ arrive \in [Pairs -> Seq(Nat)] /\ release \in [Pairs -> Seq(Nat)]
          /\ round \in [Pairs -> Nat] /\ waiting \in [Pairs -> BOOLEAN]

\* A barrier: no node goes on to round r + 1 before every node has arrived at
\* round r, whatever is repeated, late or wrapped around.
NobodyPasses ==
  \A b \in Barriers, n, m \in Nodes :
    round[<<n, b>>] > round[<<m, b>>] =>
      round[<<n, b>>] = round[<<m, b>>] + 1 /\ waiting[<<m, b>>]

\* An ARRIVE of a round that has been released leaves the barrier alone, also
\* when the generation has wrapped and the old number is the larger one.
StaleIgnored ==
  [][\A p \in Pairs :
       /\ arrive[p] # << >> /\ arrive'[p] = Tail(arrive[p])
       /\ Head(arrive[p]) < round[p] \/ release[p] # << >>
       => barriers' = barriers /\ release' = release]_vars

\* Why that is so, as an inductive invariant.  R is the round the manager is
\* in.  A node is in round R, or it waits for the RELEASE of round R - 1 that is
\* on its way; its ARRIVE messages are of these two rounds and in order, and
\* those left once the manager has counted it are of round R.
InRound(b, R) ==
  /\ barriers[b].generation = Gen(R)
  /\ b \notin Tracked => R = 0 /\ barriers[b] = NoBarrier
  /\ b \in Tracked => barriers[b].participants = Cardinality(Nodes)
  /\ barriers[b].count = Cardinality(barriers[b].arrived)
  /\ \A n \in Nodes : LET p == <<n, b>>
                          a == arrive[p] IN
       /\ \/ round[p] = R /\ release[p] = << >>
          \/ round[p] = R - 1 /\ release[p] = <<R - 1>> /\ waiting[p]
       /\ \A i \in DOMAIN a : a[i] = R - 1 \/ (a[i] = R /\ round[p] = R /\ waiting[p])
       /\ \A i, j \in DOMAIN a : i < j => a[i] <= a[j]
       /\ waiting[p] => round[p] < MaxRound
       /\ n \in barriers[b].arrived =>
            round[p] = R /\ waiting[p] /\ \A i \in DOMAIN a : a[i] = R
BarrierInv == \A b \in Barriers : \E R \in 0 .. MaxRound : InRound(b, R)

\* Everybody gets through all rounds.
AllRounds == \A p \in Pairs : <>(round[p] = MaxRound)

=============================================================================
