--------------------------- MODULE BarrierManager ---------------------------
(***************************************************************************)
(* barrier::BarrierManager: a table of counting barriers with generations. *)
(* Generations are uint16_t in the code; GenMod stands for 2^16.           *)
(***************************************************************************)
EXTENDS Integers, FiniteSets

CONSTANTS Nodes,         \* sender ids
          Marked,        \* those below 64, which have a bit in arrived_bitmap
          Barriers,      \* barrier ids
          MaxBarriers,   \* max_barriers_
          Participants,  \* default_participants_
          GenMod         \* number of generations before current_generation wraps

ASSUME BarrierAssumption ==
  /\ IsFiniteSet(Nodes) /\ IsFiniteSet(Barriers)
  /\ MaxBarriers \in Nat /\ Participants \in Nat /\ GenMod \in Nat /\ GenMod >= 2

VARIABLE barriers   \* barriers_[b]; NoBarrier when there is no entry

BarrierState == [generation : 0 .. GenMod - 1, participants : Nat,
                 count : Nat, arrived : SUBSET Nodes]
Fresh(n) == [generation |-> 0, participants |-> n, count |-> 0, arrived |-> {}]
NoBarrier == Fresh(0)

BarriersInit == barriers = [b \in Barriers |-> NoBarrier]

Tracked == {b \in Barriers : barriers[b].participants # 0}

-----------------------------------------------------------------------------
(* Mutants. *)

DuplicateNever(s, n) == FALSE
GenerationCheckNone(g, current) == "Current"
ReleasedKeepsBitmap(s) == [s EXCEPT !.generation = (@ + 1) % GenMod, !.count = 0]

-----------------------------------------------------------------------------
(* Arrive. *)

\* SetParticipants(b, n): kInvalidConfiguration unless 2 <= n <= 64.
ValidSize(n) == n >= 2 /\ n <= 64

Full(b) == b \notin Tracked /\ Cardinality(Tracked) >= MaxBarriers

\* The entry Arrive works on, made with the default size if there is none.
Entry(b) == IF b \in Tracked THEN barriers[b] ELSE Fresh(Participants)

GenerationCheck(g, current) ==
  CASE g < current -> "LateArrival" [] g > current -> "FutureArrival" [] OTHER -> "Current"

\* The sender's bit is set already; without a bit it is counted every time.
Duplicate(s, n) == n \in Marked /\ n \in s.arrived

\* This arrival is the last one missing.
Complete(s) == s.count + 1 >= s.participants

ArriveStatus(b, g, n) ==
  LET s == Entry(b)
      check == GenerationCheck(g, s.generation) IN
  IF Full(b) THEN "LayoutOverflow"
  ELSE IF b \notin Tracked /\ ~ValidSize(Participants) THEN "InvalidConfiguration"
  ELSE IF check # "Current" THEN check
  ELSE IF Duplicate(s, n) THEN "DuplicateArrival"
  ELSE IF Complete(s) THEN "Release" ELSE "Ok"

\* The barrier opens: current_generation++ in uint16_t, counts reset.
Released(s) == [s EXCEPT !.generation = (@ + 1) % GenMod, !.count = 0, !.arrived = {}]

Arrive(b, g, n) ==
  LET s == Entry(b)
      a == [s EXCEPT !.count = @ + 1, !.arrived = @ \cup ({n} \cap Marked)]
      status == ArriveStatus(b, g, n) IN
  barriers' = IF status \in {"LayoutOverflow", "InvalidConfiguration"} THEN barriers
              ELSE [barriers EXCEPT ![b] = CASE status = "Ok" -> a
                                             [] status = "Release" -> Released(a)
                                             [] OTHER -> s]

=============================================================================
