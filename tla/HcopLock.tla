------------------------------ MODULE HcopLock ------------------------------
(***************************************************************************)
(* The lock primitive across two tiers: clients on the ports of            *)
(* hcop_switch, whose PrimitiveEngine runs a lock table without queues,    *)
(* and behind the fallback port the DPU with a table of its own, worked on *)
(* by a pool of ARM cores.  A placement of the experiments is              *)
(*   switch_only   mode = "process", no fallback,                          *)
(*   dpu_only      mode = "forward", fallback to the DPU,                  *)
(*   switch_dpu    mode = "process", fallback to the DPU;                  *)
(* mode = "forward" without fallback has no tier that would answer.        *)
(*                                                                         *)
(* Time is left out: no tier ever calls LockManager::CheckTimeouts, so an  *)
(* expiry time is written and never read.  The delays of the switch        *)
(* pipeline and of a core are the same for all frames and keep their order.*)
(*                                                                         *)
(* The clients are guest programs of the disk images, known here by the    *)
(* messages of lock_proto.h: they ask, hold from GRANT to RELEASE, never   *)
(* repeat a request, and drop flooded frames that do not answer them.      *)
(***************************************************************************)
EXTENDS Integers, Sequences, FiniteSets

CONSTANTS Clients, kFree, Keys,
          SwitchKeys,  \* capacity of the table of the switch
          DpuKeys, DpuWaiters,
          Placements   \* the placements to consider

\* A placement: placement_mode, whether fallback_port_index leads to a DPU, its
\* arm_cores, users: who competes for which key, and inFlight: a bound on the
\* requests of each client under way.
ASSUME PlacementAssumption ==
  /\ SwitchKeys \in Nat \ {0} /\ {DpuKeys, DpuWaiters} \subseteq Nat
  /\ IsFiniteSet(Keys) /\ kFree \notin Clients
  /\ \A p \in Placements : /\ p.mode \in {"process", "forward"} /\ p.fallback \in BOOLEAN
                           /\ p.cores \in Nat \ {0} /\ p.users \subseteq Clients \X Keys
                           /\ p.inFlight \in [Clients -> Nat]

VARIABLES place,    \* the placement of this experiment
          swKeys,   \* the LockManager of the switch
          dpuKeys,  \* the LockManager of the DPU
          up,       \* up[c]: frames from the port of c to the switch
          down,     \* down[c]: answers on their way to c
          toDpu, fromDpu,
          cores,    \* frames in the cores of the DPU, oldest first
          client    \* client[<<c, k>>]: "idle", "asked", "waits", or the tier it has the lock from

vars == <<place, swKeys, dpuKeys, up, down, toDpu, fromDpu, cores, client>>

Sw == INSTANCE LockManager WITH keys <- swKeys, MaxKeys <- SwitchKeys,
                                MaxWaiters <- 0, DefaultLease <- 1
Dpu == INSTANCE LockManager WITH keys <- dpuKeys, MaxKeys <- DpuKeys,
                                 MaxWaiters <- DpuWaiters, DefaultLease <- 1

Request(type, c, k) == [type |-> type, id |-> c, key |-> k, exc |-> "none"]
Answer(type, c, k, tier) == [type |-> type, id |-> c, key |-> k, tier |-> tier]
IsRequest(f) == f.type \in {"ACQUIRE", "RELEASE"}

Init == /\ place \in Placements
        /\ Sw!KeysInit /\ Dpu!KeysInit
        /\ up = [c \in Clients |-> << >>] /\ down = [c \in Clients |-> << >>]
        /\ toDpu = << >> /\ fromDpu = << >> /\ cores = << >>
        /\ client = [p \in Clients \X Keys |-> "idle"]

-----------------------------------------------------------------------------
(* Clients. *)

Requests(c) ==
  Len(up[c]) + Len(SelectSeq(toDpu \o cores \o fromDpu, LAMBDA f : IsRequest(f) /\ f.id = c))

Holds(c, k) == client[<<c, k>>] \in {"switch", "dpu"}

SendAcquire(c, k) ==
  /\ <<c, k>> \in place.users /\ client[<<c, k>>] = "idle" /\ Requests(c) < place.inFlight[c]
  /\ client' = [client EXCEPT ![<<c, k>>] = "asked"]
  /\ up' = [up EXCEPT ![c] = Append(@, Request("ACQUIRE", c, k))]
  /\ UNCHANGED <<place, swKeys, dpuKeys, down, toDpu, fromDpu, cores>>

SendRelease(c, k) ==
  /\ Holds(c, k)
  /\ client' = [client EXCEPT ![<<c, k>>] = "idle"]
  /\ up' = [up EXCEPT ![c] = Append(@, Request("RELEASE", c, k))]
  /\ UNCHANGED <<place, swKeys, dpuKeys, down, toDpu, fromDpu, cores>>

Receive(c) ==
  LET f == Head(down[c]) IN
  /\ down[c] # << >>
  /\ down' = [down EXCEPT ![c] = Tail(@)]
  /\ client' = [client EXCEPT ![<<c, f.key>>] = IF f.type = "GRANT" THEN f.tier ELSE "waits"]
  /\ UNCHANGED <<place, swKeys, dpuKeys, up, toDpu, fromDpu, cores>>

-----------------------------------------------------------------------------
(* Mutants. *)

ForwardsReleaseNever(f) == FALSE
LockExceptionFullOnly(f) ==
  IF f.type = "ACQUIRE" /\ Sw!AcquireStatus(f.key, f.id) = "KeyOverflow" THEN "overflow" ELSE "none"
DpuOutToSender(f) ==
  CASE f.type = "RELEASE" -> << >>
    [] Dpu!AcquireStatus(f.key, f.id) = "Granted" -> <<Answer("GRANT", f.id, f.key, "dpu")>>
    [] OTHER -> <<Answer("DENY", f.id, f.key, "dpu")>>

-----------------------------------------------------------------------------
(* The switch. *)

\* PrimitiveEngine::HandlePacket up to the choice of the primitive.
Route(f, fromFallback) ==
  IF place.mode = "forward" THEN IF fromFallback \/ ~place.fallback THEN "Flood" ELSE "ToFallback"
  ELSE IF fromFallback /\ ~IsRequest(f) THEN "Flood"
  ELSE IF f.exc # "none" THEN "ToFallback" ELSE "Process"

\* The frame goes to all ports but the one it came from; one client wants it.
Flood(f) == down' = IF IsRequest(f) THEN down ELSE [down EXCEPT ![f.id] = Append(@, f)]

\* Without a fallback port the frame is dropped.
ToFallback(f) == toDpu' = IF place.fallback THEN Append(toDpu, f) ELSE toDpu

LockException(f) ==
  CASE f.type = "ACQUIRE" /\ Sw!AcquireStatus(f.key, f.id) = "Contention" -> "contention"
    [] f.type = "ACQUIRE" /\ Sw!AcquireStatus(f.key, f.id) = "KeyOverflow" -> "overflow"
    [] OTHER -> "none"

\* A RELEASE, answered by nobody, may be meant for the table of the DPU.
ForwardsRelease(f) == f.type = "RELEASE" /\ place.fallback

HandleLock(f) ==
  /\ IF f.type = "ACQUIRE" THEN Sw!Acquire(f.key, f.id, 0, 0) ELSE Sw!Release(f.key, f.id, 0)
  /\ IF LockException(f) # "none" \/ ForwardsRelease(f)
     THEN ToFallback([f EXCEPT !.exc = LockException(f)]) /\ UNCHANGED down
     ELSE /\ down' = IF f.type = "RELEASE" THEN down
                     ELSE [down EXCEPT ![f.id] = Append(@, Answer("GRANT", f.id, f.key, "switch"))]
          /\ UNCHANGED toDpu

HandlePacket(f, fromFallback) ==
  \/ Route(f, fromFallback) = "Flood" /\ Flood(f) /\ UNCHANGED <<swKeys, toDpu>>
  \/ Route(f, fromFallback) = "ToFallback" /\ ToFallback(f) /\ UNCHANGED <<swKeys, down>>
  \/ Route(f, fromFallback) = "Process" /\ HandleLock(f)

SwitchFromClient(c) ==
  /\ up[c] # << >>
  /\ up' = [up EXCEPT ![c] = Tail(@)]
  /\ HandlePacket(Head(up[c]), FALSE)
  /\ UNCHANGED <<place, dpuKeys, fromDpu, cores, client>>

SwitchFromDpu ==
  /\ fromDpu # << >>
  /\ fromDpu' = Tail(fromDpu)
  /\ HandlePacket(Head(fromDpu), TRUE)
  /\ UNCHANGED <<place, dpuKeys, up, cores, client>>

-----------------------------------------------------------------------------
(* The DPU. *)

CoreFree == Len(cores) < place.cores

\* EthRx; without a free core, EscalateToHost sends the frame out again.
EthRx ==
  /\ toDpu # << >>
  /\ toDpu' = Tail(toDpu)
  /\ IF CoreFree
     THEN cores' = Append(cores, Head(toDpu)) /\ UNCHANGED fromDpu
     ELSE /\ fromDpu' = Append(fromDpu, [Head(toDpu) EXCEPT !.exc = "cores"])
          /\ UNCHANGED cores
  /\ UNCHANGED <<place, swKeys, dpuKeys, up, down, client>>

DpuTable(f) ==
  IF f.type = "ACQUIRE" THEN Dpu!Acquire(f.key, f.id, 0, 0) ELSE Dpu!Release(f.key, f.id, 0)

\* The frames that LockDpuHandler sends for f; the frame itself if it escalates.
DpuOut(f) ==
  LET next == Dpu!HandOn(f.key, 0).holder IN
  CASE f.type = "ACQUIRE" /\ Dpu!AcquireStatus(f.key, f.id) = "KeyOverflow" -> <<f>>
    [] f.type = "ACQUIRE" /\ Dpu!AcquireStatus(f.key, f.id) = "Granted" ->
         <<Answer("GRANT", f.id, f.key, "dpu")>>
    [] f.type = "RELEASE" ->
         IF Dpu!IsHolder(f.key, f.id) /\ next # kFree
         THEN <<Answer("GRANT", next, f.key, "dpu")>> ELSE << >>
    [] OTHER -> <<Answer("DENY", f.id, f.key, "dpu")>>

\* A core is done: Timed runs the handler and frees the core.
Timed ==
  /\ cores # << >>
  /\ cores' = Tail(cores)
  /\ DpuTable(Head(cores))
  /\ fromDpu' = fromDpu \o DpuOut(Head(cores))
  /\ UNCHANGED <<place, swKeys, up, down, toDpu, client>>

-----------------------------------------------------------------------------
Next == \/ \E c \in Clients, k \in Keys : SendAcquire(c, k) \/ SendRelease(c, k)
        \/ \E c \in Clients : Receive(c) \/ SwitchFromClient(c)
        \/ SwitchFromDpu \/ EthRx \/ Timed

Spec == Init /\ [][Next]_vars

\* Frames are delivered and handled, and clients do not keep a lock for ever.
FairSpec == /\ Spec
            /\ \A c \in Clients : WF_vars(Receive(c)) /\ WF_vars(SwitchFromClient(c))
            /\ WF_vars(SwitchFromDpu) /\ WF_vars(EthRx) /\ WF_vars(Timed)
            /\ \A c \in Clients, k \in Keys : WF_vars(SendRelease(c, k))

-----------------------------------------------------------------------------
(* Properties. *)

\* No two clients hold a lock, whichever tier gave it to them.
MutualExclusion == \A k \in Keys, c, d \in Clients : Holds(c, k) /\ Holds(d, k) => c = d

\* Only one of the tables is in use: switch_only and dpu_only.
OneTable == place.mode = "forward" \/ ~place.fallback

\* Where only one of the tables is in use no two clients hold a lock, even if frames
\* that the DPU escalates are lost.
OneTableExclusion == OneTable => MutualExclusion

\* No frame finds all cores of the DPU, if there is one, busy, nor its table full.
Ample == /\ \A c \in Clients : place.cores >= place.inFlight[c] * Cardinality(Clients)
         /\ place.fallback => Cardinality({p[2] : p \in place.users}) <= DpuKeys

Granted(s, c, k, tier) == \E i \in DOMAIN s : s[i] = Answer("GRANT", c, k, tier)
Released(s, c, k) == \E i \in DOMAIN s : s[i].type = "RELEASE" /\ s[i].id = c /\ s[i].key = k

\* A client that holds a lock has it in the table of the tier it got it from, so
\* no other client can get it from there.
HoldersInTable == \A c \in Clients, k \in Keys : /\ client[<<c, k>>] = "switch" => Sw!IsHolder(k, c)
                                                 /\ client[<<c, k>>] = "dpu" => Dpu!IsHolder(k, c)

\* Holders are in the table of their tier, with one table or ample resources.  With
\* ample resources, a table never names a holder who has left: the holder has the
\* lock, or a GRANT from this table or the holder's RELEASE is still on its way.
TablesTruthful ==
  /\ OneTable \/ Ample => HoldersInTable
  /\ Ample => \A c \in Clients, k \in Keys :
       /\ Sw!IsHolder(k, c) => \/ client[<<c, k>>] = "switch" \/ Granted(down[c], c, k, "switch")
                               \/ Released(up[c], c, k)
       /\ Dpu!IsHolder(k, c) => \/ client[<<c, k>>] = "dpu"
                                \/ Granted(down[c] \o fromDpu, c, k, "dpu")
                                \/ Released(up[c] \o toDpu \o cores \o fromDpu, c, k)

\* With a DPU of ample resources, whoever asks gets the lock, after a DENY by
\* being queued.
EventuallyGranted ==
  \A c \in Clients, k \in Keys :
    Ample /\ place.fallback /\ client[<<c, k>>] = "asked" ~> Holds(c, k)

=============================================================================
