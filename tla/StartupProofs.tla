---------------------------- MODULE StartupProofs ----------------------------
(***************************************************************************)
(* Proofs about the start of a simulation, for any number of processes,    *)
(* channels, interfaces, setups and external proxies: the channels that    *)
(* Handshake opens are sound, and SimulationExecutor starts processes in   *)
(* order and leaves none behind.                                           *)
(***************************************************************************)
EXTENDS SimulationExecutor, FiniteSetTheorems, TLAPS

-----------------------------------------------------------------------------
(* Ends and their owners. *)

\* The end a process handles is one of its own.
LEMMA OwnerLemma ==
  /\ \A e \in Ends : Owner(e) \in Procs
  /\ \A p \in Procs : \A i \in DOMAIN Ifs[p] : Ifs[p][i] \in Ends /\ Owner(Ifs[p][i]) = p
<1> DEFINE Has(e, p) == \E i \in DOMAIN Ifs[p] : Ifs[p][i] = e
<1>1. ASSUME NEW e \in Ends PROVE \E p \in Procs : Has(e, p)
  BY Zenon DEF Ends
<1>2. ASSUME NEW e \in Ends PROVE Owner(e) \in Procs /\ Has(e, Owner(e))
  <2>1. Owner(e) = CHOOSE p \in Procs : Has(e, p)
    BY Zenon DEF Owner, OwnerOf
  <2> HIDE DEF Has
  <2>2. QED
    BY <1>1, <2>1, Zenon
<1>3. ASSUME NEW p \in Procs, NEW i \in DOMAIN Ifs[p]
      PROVE Ifs[p][i] \in Ends /\ Owner(Ifs[p][i]) = p
  <2>1. Ifs[p][i] \in Ends
    BY DEF Ends
  <2>2. PICK j \in DOMAIN Ifs[Owner(Ifs[p][i])] : Ifs[Owner(Ifs[p][i])][j] = Ifs[p][i]
    BY <2>1, <1>2, Zenon
  <2>3. QED
    BY <2>1, <2>2, <1>2, HandshakeAssumption
<1>4. QED
  BY <1>2, <1>3, Zenon

\* The two ends of a channel are each other's peers.
LEMMA PeerLemma ==
  \A e \in Ends : /\ Peer(e) \in Ends /\ Peer(Peer(e)) = e /\ Peer(e) # e
                  /\ Peer(e)[2] # e[2] /\ e[2] \in {"lis", "con"} /\ Peer(e)[2] \in {"lis", "con"}
<1> SUFFICES ASSUME NEW e \in Ends
             PROVE  /\ Peer(e) \in Ends /\ Peer(Peer(e)) = e /\ Peer(e) # e
                    /\ Peer(e)[2] # e[2] /\ e[2] \in {"lis", "con"} /\ Peer(e)[2] \in {"lis", "con"}
  BY Zenon
<1>1. /\ e = <<e[1], e[2]>> /\ e[2] \in {"lis", "con"} /\ Peer(e) \in Ends
  BY HandshakeAssumption, Zenon
<1>2. Peer(e)[2] # e[2] /\ Peer(e)[1] = e[1] /\ Peer(e)[2] \in {"lis", "con"}
  BY <1>1, Zenon DEF Peer
<1>3. Peer(Peer(e)) = <<e[1], e[2]>>
  BY <1>1, <1>2, Zenon DEF Peer
<1>4. QED
  BY <1>1, <1>2, <1>3, Zenon

\* The size of a queue is not 0.
LEMMA SizeLemma == \A shape \in PosNat \X PosNat : Size(shape) \in PosNat
<1> SUFFICES ASSUME NEW a \in PosNat, NEW b \in PosNat PROVE a * b \in PosNat
  BY Zenon DEF Size
<1>1. QED
  BY DEF PosNat

\* Intervals of which one ends before the other begins.
LEMMA IntervalLemma ==
  ASSUME NEW a \in Nat, NEW b \in Nat, NEW c \in Nat, NEW d \in Nat, b <= c
  PROVE  (a .. b - 1) \cap (c .. d - 1) = {} /\ (c .. d - 1) \cap (a .. b - 1) = {}
OBVIOUS

-----------------------------------------------------------------------------
(* Channels. *)

ConnState == {"Closed", "Listening", "RxTx", "Rx", "Open"}
Queue == [off : Nat, shape : Nat \X Nat]

EndpointTypes ==
  /\ setup \in Setups
  /\ at \in [Procs -> Nat] /\ \A p \in Procs : at[p] \in DOMAIN Ifs[p]
  /\ pos \in [Procs -> Nat]
  /\ conn \in [Ends -> ConnState] /\ sync \in [Ends -> BOOLEAN]
  /\ in \in [Ends -> Queue] /\ out \in [Ends -> Queue]

\* The ends whose queues Listen has laid out, and where they end in the pool.
Listener(e) == e[2] = "lis" /\ conn[e] # "Closed"
EndOf(e) == out[e].off + Size(par[e].out)

\* Listen lays out the queues of an end one after the other and moves pool->pos
\* behind them: they lie below it, and on one side of those of any other end.
PoolInv ==
  /\ \A p \in Procs : pos[p] <= setup.pool[p]
  /\ \A e \in Ends : e[2] = "lis" /\ conn[e] = "Closed" => in[e] = NoQueue /\ out[e] = NoQueue
  /\ \A e \in Ends : Listener(e) =>
       /\ in[e].shape = par[e].in /\ out[e].shape = par[e].out
       /\ out[e].off = in[e].off + Size(par[e].in)
       /\ EndOf(e) <= pos[Owner(e)]
  /\ \A e, f \in Ends : Listener(e) /\ Listener(f) /\ Owner(e) = Owner(f) /\ e # f =>
       EndOf(e) <= in[f].off \/ EndOf(f) <= in[e].off

\* What Connect and IntroRecv have made sure of.
IntroInv ==
  \A e \in Ends :
    /\ e[2] = "con" /\ conn[e] # "Closed" => Listener(Peer(e))
    /\ Open(e) => Acceptable(e) /\ sync[e] = SyncOf(e)
    /\ Open(e) /\ e[2] = "con" => in[e] = out[Peer(e)] /\ out[e] = in[Peer(e)]

ChannelInv == EndpointTypes /\ PoolInv /\ IntroInv

\* No interface is left between two that a process sets up.
LEMMA AdvanceLemma ==
  ASSUME EndpointTypes, NEW p \in Procs, Advance(p)
  PROVE  at' \in [Procs -> Nat] /\ \A q \in Procs : at'[q] \in DOMAIN Ifs[q]
BY HandshakeAssumption DEF EndpointTypes, Advance, PosNat

\* The interface a process is at is one of its own.
LEMMA CurrentLemma ==
  ASSUME EndpointTypes, NEW p \in Procs
  PROVE  Current(p) \in Ends /\ Owner(Current(p)) = p
BY OwnerLemma, Zenon DEF EndpointTypes, Current

\* The parameters of an interface: queues with a size, and a mode.
LEMMA ParLemma ==
  ASSUME EndpointTypes, NEW e \in Ends
  PROVE  /\ Size(par[e].in) \in PosNat /\ Size(par[e].out) \in PosNat
         /\ par[e].in \in Nat \X Nat /\ par[e].out \in Nat \X Nat
         /\ par[e].mode \in {"Disabled", "Optional", "Required"}
<1>1. /\ par[e].mode \in {"Disabled", "Optional", "Required"}
      /\ par[e].in \in PosNat \X PosNat /\ par[e].out \in PosNat \X PosNat
  BY HandshakeAssumption, Zenon DEF EndpointTypes, par
<1>2. QED
  BY <1>1, SizeLemma, Zenon DEF PosNat

\* The channels at the start.
LEMMA ChannelInit == HandshakeInit => ChannelInv
<1> SUFFICES ASSUME HandshakeInit PROVE ChannelInv
  BY Zenon
<1>1. EndpointTypes
  BY HandshakeAssumption DEF HandshakeInit, EndpointTypes, ConnState, Queue, NoQueue, PosNat
<1>2. PoolInv
  BY <1>1, HandshakeAssumption, OwnerLemma DEF HandshakeInit, EndpointTypes, PoolInv, Listener
<1>3. IntroInv
  BY Zenon DEF HandshakeInit, IntroInv, Open
<1>4. QED
  BY <1>1, <1>2, <1>3, Zenon DEF ChannelInv

\* Listen takes the next part of the pool.
LEMMA ListenChannels ==
  ASSUME ChannelInv, NEW p \in Procs, Listen(p), ~UNCHANGED endpoints
  PROVE  ChannelInv'
<1>1. PICK e \in Ends : e = Current(p) /\ Owner(e) = p
  BY CurrentLemma, Zenon DEF ChannelInv
<1>2. /\ phase[p] = "Setup" /\ e[2] = "lis" /\ conn[e] = "Closed" /\ PoolFits(p, e)
      /\ in' = [in EXCEPT ![e] = [off |-> pos[p], shape |-> par[e].in]]
      /\ out' = [out EXCEPT ![e] = [off |-> OutOffset(p, e), shape |-> par[e].out]]
      /\ pos' = [pos EXCEPT ![p] = pos[p] + Size(par[e].in) + Size(par[e].out)]
      /\ conn' = [conn EXCEPT ![e] = "Listening"]
      /\ UNCHANGED at \/ Advance(p)
      /\ UNCHANGED <<setup, sync, intro>>
  BY <1>1, Zenon DEF Listen, Fail
<1>3. /\ Size(par[e].in) \in PosNat /\ Size(par[e].out) \in PosNat
      /\ par[e].in \in Nat \X Nat /\ par[e].out \in Nat \X Nat
  BY <1>1, ParLemma, Zenon DEF ChannelInv
<1>4. par' = par
  BY <1>2, Zenon DEF par
<1>5. EndpointTypes'
  <2>1. at' \in [Procs -> Nat] /\ \A q \in Procs : at'[q] \in DOMAIN Ifs[q]
    BY <1>2, AdvanceLemma, Zenon DEF ChannelInv, EndpointTypes
  <2>2. OutOffset(p, e) \in Nat
    BY <1>3 DEF ChannelInv, EndpointTypes, OutOffset, PosNat
  <2>3. in' \in [Ends -> Queue] /\ out' \in [Ends -> Queue]
    BY <1>2, <1>1, <1>3, <2>2, Zenon DEF ChannelInv, EndpointTypes, Queue
  <2>4. pos' \in [Procs -> Nat] /\ conn' \in [Ends -> ConnState]
    BY <1>2, <1>1, <1>3 DEF ChannelInv, EndpointTypes, ConnState, PosNat
  <2>5. QED
    BY <1>2, <2>1, <2>3, <2>4, Zenon DEF ChannelInv, EndpointTypes
<1>6. PoolInv'
  <2>1. \A x \in Ends : x # e => in'[x] = in[x] /\ out'[x] = out[x] /\ conn'[x] = conn[x]
    BY <1>2, Zenon DEF ChannelInv, EndpointTypes
  <2>2. /\ in'[e] = [off |-> pos[p], shape |-> par[e].in]
        /\ out'[e] = [off |-> pos[p] + Size(par[e].in), shape |-> par[e].out]
        /\ conn'[e] = "Listening"
    BY <1>2, <1>1, Zenon DEF ChannelInv, EndpointTypes, OutOffset
  <2>3. /\ \A q \in Procs : pos[q] \in Nat /\ pos'[q] \in Nat /\ pos'[q] >= pos[q]
        /\ \A q \in Procs : q # p => pos'[q] = pos[q]
        /\ pos'[p] = pos[p] + Size(par[e].in) + Size(par[e].out)
    BY <1>2, <1>3 DEF ChannelInv, EndpointTypes, PosNat
  <2>4. \A q \in Procs : pos'[q] <= setup'.pool[q]
    BY <1>2, <2>3, ZenonT(30) DEF ChannelInv, PoolInv, PoolFits
  <2>5. \A x \in Ends : x # e => EndOf(x)' = EndOf(x) /\ Listener(x)' = Listener(x)
    BY <1>4, <2>1, Zenon DEF EndOf, Listener
  <2>6. EndOf(e)' = pos'[p] /\ in'[e].off = pos[p] /\ out'[e].off = pos[p] + Size(par[e].in)
    BY <1>3, <1>4, <2>2, <2>3 DEF EndOf, PosNat
  <2>7. \A x \in Ends : Owner(x) \in Procs /\ in[x].off \in Nat /\ out[x].off \in Nat /\ EndOf(x) \in Nat
    BY OwnerLemma, ParLemma DEF ChannelInv, EndpointTypes, Queue, EndOf, PosNat
  <2>8. ASSUME NEW x \in Ends, x[2] = "lis", conn'[x] = "Closed" PROVE in'[x] = NoQueue /\ out'[x] = NoQueue
    BY <2>1, <2>2, <2>8 DEF ChannelInv, PoolInv
  <2>9. ASSUME NEW x \in Ends, Listener(x)'
        PROVE  /\ in'[x].shape = par'[x].in /\ out'[x].shape = par'[x].out
               /\ out'[x].off = in'[x].off + Size(par'[x].in)
               /\ EndOf(x)' <= pos'[Owner(x)]
    <3>1. CASE x = e
      BY <3>1, <1>1, <1>4, <2>2, <2>3, <2>6
    <3>2. CASE x # e
      BY <3>2, <2>9, <1>4, <2>1, <2>3, <2>5, <2>7 DEF ChannelInv, PoolInv
    <3>3. QED
      BY <3>1, <3>2, Zenon
  <2>10. \A x \in Ends : x # e /\ Listener(x)' /\ Owner(x) = p => EndOf(x)' <= in'[e].off
    BY <2>5, <2>6, Zenon DEF ChannelInv, PoolInv
  <2>11. ASSUME NEW x \in Ends, NEW y \in Ends, Listener(x)', Listener(y)', Owner(x) = Owner(y), x # y
         PROVE  EndOf(x)' <= in'[y].off \/ EndOf(y)' <= in'[x].off
    <3>1. CASE x # e /\ y # e
      BY <3>1, <2>11, <2>1, <2>5, Zenon DEF ChannelInv, PoolInv
    <3>2. CASE x = e
      BY <3>2, <2>11, <2>10, <1>1, Zenon
    <3>3. CASE y = e
      BY <3>3, <2>11, <2>10, <1>1, Zenon
    <3>4. QED
      BY <3>1, <3>2, <3>3, Zenon
  <2>12. QED
    BY <2>4, <2>8, <2>9, <2>11, Zenon DEF PoolInv
<1>7. IntroInv'
  <2> SUFFICES ASSUME NEW x \in Ends
               PROVE  /\ x[2] = "con" /\ conn'[x] # "Closed" => Listener(Peer(x))'
                      /\ Open(x)' => Acceptable(x)' /\ sync'[x] = SyncOf(x)'
                      /\ Open(x)' /\ x[2] = "con" => in'[x] = out'[Peer(x)] /\ out'[x] = in'[Peer(x)]
    BY Zenon DEF IntroInv
  <2>1. Acceptable(x)' = Acceptable(x) /\ SyncOf(x)' = SyncOf(x)
    BY <1>4, Zenon DEF Acceptable, SyncOf, Flags
  <2>2. Listener(Peer(x)) => Listener(Peer(x))' /\ Peer(x) # e
    BY <1>2, <1>1, PeerLemma, Zenon DEF ChannelInv, EndpointTypes, Listener
  <2>3. Open(x)' => Open(x) /\ x # e
    BY <1>2, <1>1, Zenon DEF ChannelInv, EndpointTypes, Open
  <2>4. x[2] = "con" => x # e /\ conn'[x] = conn[x] /\ in'[x] = in[x] /\ out'[x] = out[x]
    BY <1>2, <1>1, Zenon DEF ChannelInv, EndpointTypes
  <2>5. Peer(x) # e => in'[Peer(x)] = in[Peer(x)] /\ out'[Peer(x)] = out[Peer(x)]
    BY <1>2, PeerLemma, Zenon DEF ChannelInv, EndpointTypes
  <2>6. Open(x) => conn[x] # "Closed"
    BY Zenon DEF Open
  <2>7. QED
    BY <1>2, <2>1, <2>2, <2>3, <2>4, <2>5, <2>6, Zenon DEF ChannelInv, IntroInv
<1>8. QED
  BY <1>5, <1>6, <1>7, Zenon DEF ChannelInv

\* A step that moves the connection of one end, and nothing that Listen has laid out.
LEMMA OneEndMoves ==
  ASSUME ChannelInv, EndpointTypes', UNCHANGED <<setup, pos>>,
         NEW e \in Ends, NEW state \in ConnState \ {"Closed"},
         conn' = [conn EXCEPT ![e] = state],
         \A x \in Ends : x # e => sync'[x] = sync[x] /\ in'[x] = in[x] /\ out'[x] = out[x],
         e[2] = "lis" => conn[e] # "Closed" /\ in'[e] = in[e] /\ out'[e] = out[e],
         e[2] = "con" => Listener(Peer(e)),
         state = "Open" => Acceptable(e) /\ sync'[e] = SyncOf(e),
         state = "Open" /\ e[2] = "con" => in'[e] = out[Peer(e)] /\ out'[e] = in[Peer(e)]
  PROVE  ChannelInv'
<1>1. par' = par
  BY Zenon DEF par
<1>2. \A x \in Ends : conn'[x] = IF x = e THEN state ELSE conn[x]
  BY Zenon DEF ChannelInv, EndpointTypes
<1>3. \A x \in Ends : x[2] = "lis" => /\ in'[x] = in[x] /\ out'[x] = out[x]
                                      /\ Listener(x)' <=> Listener(x)
                                      /\ EndOf(x)' = EndOf(x)
  BY <1>1, <1>2, Zenon DEF Listener, EndOf
<1>4. \A x \in Ends : Acceptable(x)' = Acceptable(x) /\ SyncOf(x)' = SyncOf(x)
  BY <1>1, Zenon DEF Acceptable, SyncOf, Flags
<1>5. PoolInv'
  <2>1. \A x \in Ends : x[2] = "lis" /\ conn'[x] = "Closed" => in'[x] = NoQueue /\ out'[x] = NoQueue
    BY <1>2, <1>3 DEF ChannelInv, PoolInv
  <2>2. \A x \in Ends : Listener(x)' => Listener(x) /\ x[2] = "lis"
    BY <1>3, Zenon DEF Listener
  <2>3. QED
    BY <1>1, <1>3, <2>1, <2>2, ZenonT(30) DEF ChannelInv, PoolInv
<1>6. IntroInv'
  <2> SUFFICES ASSUME NEW x \in Ends
               PROVE  /\ x[2] = "con" /\ conn'[x] # "Closed" => Listener(Peer(x))'
                      /\ Open(x)' => Acceptable(x)' /\ sync'[x] = SyncOf(x)'
                      /\ Open(x)' /\ x[2] = "con" => in'[x] = out'[Peer(x)] /\ out'[x] = in'[Peer(x)]
    BY Zenon DEF IntroInv
  <2>1. x[2] = "con" => /\ Peer(x) \in Ends /\ Peer(x)[2] = "lis"
                        /\ in'[Peer(x)] = in[Peer(x)] /\ out'[Peer(x)] = out[Peer(x)]
                        /\ Listener(Peer(x))' <=> Listener(Peer(x))
    BY <1>3, PeerLemma, Zenon
  <2>2. QED
    BY <1>2, <1>4, <2>1 DEF ChannelInv, IntroInv, Open
<1>7. QED
  BY <1>5, <1>6, Zenon DEF ChannelInv

\* A connection is accepted or made.
LEMMA ConnectChannels ==
  ASSUME ChannelInv, NEW p \in Procs, BlockingAccept(p) \/ Connect(p), ~UNCHANGED endpoints
  PROVE  ChannelInv'
<1>1. PICK e \in Ends : e = Current(p) /\ Owner(e) = p
  BY CurrentLemma, Zenon DEF ChannelInv
<1>2. /\ e[2] = "lis" => conn[e] # "Closed"
      /\ e[2] = "con" => conn[Peer(e)] # "Closed"
      /\ conn' = [conn EXCEPT ![e] = "RxTx"]
      /\ Advance(p) /\ UNCHANGED <<setup, pos, sync, in, out, intro>>
  BY <1>1, Zenon DEF BlockingAccept, Connect, Fail, Refused
<1>3. EndpointTypes'
  BY <1>2, AdvanceLemma, Zenon DEF ChannelInv, EndpointTypes, ConnState
<1>4. e[2] = "con" => Listener(Peer(e))
  BY <1>2, PeerLemma, Zenon DEF Listener
<1>5. QED
  BY <1>2, <1>3, <1>4, OneEndMoves, Zenon DEF ConnState

\* A turn of Establish.
LEMMA TurnChannels ==
  ASSUME ChannelInv, NEW p \in Procs, NEW e \in Turns(p), Turn(p, e), ~UNCHANGED endpoints
  PROVE  ChannelInv'
<1> DEFINE state == IF Receives(e) THEN "Open" ELSE AfterSend(e)
<1>1. /\ ~Rejected(e) /\ e \in Ends
      /\ conn' = [conn EXCEPT ![e] = state]
      /\ sync' = [sync EXCEPT ![e] = IF Receives(e) THEN SyncOf(e) ELSE sync[e]]
      /\ in' = [in EXCEPT ![e] = IF Receives(e) /\ e[2] = "con" THEN ConnecterIn(e) ELSE in[e]]
      /\ out' = [out EXCEPT ![e] = IF Receives(e) /\ e[2] = "con" THEN ConnecterOut(e) ELSE out[e]]
      /\ at' = [at EXCEPT ![p] = IF p \in Blocking /\ state = "Open" /\ at[p] < Len(Ifs[p])
                                 THEN at[p] + 1 ELSE at[p]]
      /\ UNCHANGED <<setup, pos>>
  BY Zenon DEF Turn, Turns, Fail
<1>2. Sends(e) \/ Receives(e)
  BY <1>1, Zenon DEF Turns, Due
<1>3. conn[e] # "Closed" /\ state \in {"Open", "Rx"} /\ (state = "Open" <=> Receives(e))
  BY <1>2, Zenon DEF Sends, Receives, AfterSend, Connected
<1>4. Receives(e) => Acceptable(e)
  BY <1>1, Zenon DEF Rejected
<1>5. Peer(e) \in Ends
  BY <1>1, PeerLemma, Zenon
<1>6. EndpointTypes'
  <2>1. at' \in [Procs -> Nat] /\ \A q \in Procs : at'[q] \in DOMAIN Ifs[q]
    BY <1>1, HandshakeAssumption DEF ChannelInv, EndpointTypes, PosNat
  <2>2. in' \in [Ends -> Queue] /\ out' \in [Ends -> Queue]
    BY <1>1, <1>5, Zenon DEF ChannelInv, EndpointTypes, ConnecterIn, ConnecterOut
  <2>3. conn' \in [Ends -> ConnState]
    BY <1>1, <1>3, Zenon DEF ChannelInv, EndpointTypes, ConnState
  <2>4. SyncOf(e) \in BOOLEAN
    BY Zenon DEF SyncOf
  <2>5. sync' \in [Ends -> BOOLEAN]
    BY <1>1, <2>4, Zenon DEF ChannelInv, EndpointTypes
  <2>6. QED
    BY <1>1, <2>1, <2>2, <2>3, <2>5, Zenon DEF ChannelInv, EndpointTypes
<1>7. /\ \A x \in Ends : x # e => sync'[x] = sync[x] /\ in'[x] = in[x] /\ out'[x] = out[x]
      /\ e[2] = "lis" => in'[e] = in[e] /\ out'[e] = out[e]
      /\ state = "Open" => sync'[e] = SyncOf(e)
      /\ state = "Open" /\ e[2] = "con" => in'[e] = out[Peer(e)] /\ out'[e] = in[Peer(e)]
  BY <1>1, <1>3, Zenon DEF ChannelInv, EndpointTypes, ConnecterIn, ConnecterOut
<1>8. e[2] = "con" => Listener(Peer(e))
  BY <1>1, <1>3, Zenon DEF ChannelInv, IntroInv
<1> HIDE DEF state
<1>9. QED
  BY <1>1, <1>3, <1>4, <1>6, <1>7, <1>8, OneEndMoves, Zenon DEF ConnState

\* Only the processes change the ends of channels.
LEMMA ChannelStep == ChannelInv /\ [Next]_vars => ChannelInv'
<1> SUFFICES ASSUME ChannelInv, [Next]_vars PROVE ChannelInv'
  BY Zenon
<1>1. CASE UNCHANGED endpoints
  BY <1>1, ZenonT(30) DEF endpoints, ChannelInv, EndpointTypes, PoolInv, IntroInv, Listener, EndOf, Open, Acceptable,
              SyncOf, Flags, par
<1>2. CASE ~UNCHANGED endpoints
  <2>1. PICK p \in Procs : Step(p)
    BY <1>2, Zenon DEF Next, vars, Executor, Cancel, Process, Sort, Gathered, GatherFails,
         GatherCancelled, WaitOver, Drain, Escalate,
                Terminated, Begin, Launched, Ready, TimedOut, Reaped, ExternalUp, ExternalReady, Exit
  <2>2. QED
    BY <1>2, <2>1, ListenChannels, ConnectChannels, TurnChannels, Zenon DEF Step, Establish
<1>3. QED
  BY <1>1, <1>2, Zenon

\* ChannelInv implies the soundness of the channels.
LEMMA ChannelSafe == ChannelInv => ChannelsSound
<1> SUFFICES ASSUME ChannelInv PROVE ChannelsSound
  BY Zenon
<1>1. ASSUME NEW e \in Ends, Open(e)
      PROVE  Compatible(e) /\ sync[e] = (par[e].mode # "Disabled" /\ par[Peer(e)].mode # "Disabled")
  BY <1>1, ParLemma, PeerLemma, Zenon DEF ChannelInv, IntroInv, Acceptable, SyncOf, Flags, Compatible
<1>2. ASSUME NEW e \in Ends, Open(e), Open(Peer(e))
      PROVE  sync[e] = sync[Peer(e)] /\ in[e] = out[Peer(e)] /\ in[e] # out[e]
  <2>1. sync[e] = sync[Peer(e)]
    BY <1>1, <1>2, PeerLemma, Zenon
  <2>2. \A l \in Ends : Listener(l) => in[l] # out[l]
    <3>1. \A l \in Ends : Listener(l) => out[l].off = in[l].off + Size(par[l].in)
      BY Zenon DEF ChannelInv, PoolInv
    <3>2. \A l \in Ends : in[l].off \in Nat /\ Size(par[l].in) \in PosNat
      BY ParLemma, Zenon DEF ChannelInv, EndpointTypes, Queue
    <3>3. QED
      BY <3>1, <3>2 DEF PosNat
  <2>3. CASE e[2] = "con"
    <3>1. in[e] = out[Peer(e)] /\ out[e] = in[Peer(e)] /\ Listener(Peer(e)) /\ Peer(e) \in Ends
      BY <1>2, <2>3, PeerLemma, Zenon DEF ChannelInv, IntroInv, Open
    <3>2. QED
      BY <2>1, <2>2, <3>1, Zenon
  <2>4. CASE e[2] = "lis"
    <3>1. Peer(e) \in Ends /\ Peer(e)[2] = "con" /\ Peer(Peer(e)) = e
      BY <2>4, PeerLemma, Zenon
    <3>2. in[e] = out[Peer(e)] /\ Listener(e)
      BY <1>2, <3>1, Zenon DEF ChannelInv, IntroInv, Open
    <3>3. QED
      BY <2>1, <2>2, <3>2, Zenon
  <2>5. QED
    BY <2>1, <2>3, <2>4, PeerLemma, Zenon
<1>3. ASSUME NEW e \in Ends, e[2] = "lis"
      PROVE  /\ ~Listener(e) => Cells(in[e]) = {} /\ Cells(out[e]) = {}
             /\ Listener(e) => /\ Cells(in[e]) = in[e].off .. out[e].off - 1
                               /\ Cells(out[e]) = out[e].off .. EndOf(e) - 1
                               /\ in[e].off \in Nat /\ out[e].off \in Nat /\ EndOf(e) \in Nat
                               /\ in[e].off < out[e].off /\ out[e].off < EndOf(e)
                               /\ EndOf(e) <= setup.pool[Owner(e)]
  <2>1. Size(par[e].in) \in PosNat /\ Size(par[e].out) \in PosNat
    BY ParLemma, Zenon DEF ChannelInv
  <2>2. in[e].off \in Nat /\ out[e].off \in Nat
    BY Zenon DEF ChannelInv, EndpointTypes, Queue
  <2>3. CASE ~Listener(e)
    <3>1. in[e] = NoQueue /\ out[e] = NoQueue
      BY <1>3, <2>3, Zenon DEF ChannelInv, PoolInv, Listener
    <3>2. QED
      BY <2>3, <3>1 DEF Cells, Size, NoQueue
  <2>4. CASE Listener(e)
    <3>1. /\ in[e].shape = par[e].in /\ out[e].shape = par[e].out
          /\ out[e].off = in[e].off + Size(par[e].in)
          /\ EndOf(e) <= pos[Owner(e)]
      BY <2>4, Zenon DEF ChannelInv, PoolInv
    <3>2. /\ pos[Owner(e)] \in Nat /\ pos[Owner(e)] <= setup.pool[Owner(e)]
          /\ setup.pool[Owner(e)] \in Nat
      BY OwnerLemma, HandshakeAssumption DEF ChannelInv, EndpointTypes, PoolInv
    <3>3. Cells(in[e]) = in[e].off .. in[e].off + Size(in[e].shape) - 1
      BY Zenon DEF Cells
    <3>4. Cells(out[e]) = out[e].off .. out[e].off + Size(out[e].shape) - 1
      BY Zenon DEF Cells
    <3>5. EndOf(e) = out[e].off + Size(par[e].out)
      BY Zenon DEF EndOf
    <3>6. Cells(in[e]) = in[e].off .. out[e].off - 1
      <4>1. in[e].off + Size(par[e].in) - 1 = out[e].off - 1
        BY <2>1, <2>2, <3>1 DEF PosNat
      <4>2. QED
        BY <3>1, <3>3, <4>1, Zenon
    <3>7. Cells(out[e]) = out[e].off .. EndOf(e) - 1
      <4>1. out[e].off + Size(par[e].out) - 1 = EndOf(e) - 1
        BY <2>1, <2>2, <3>1, <3>5 DEF PosNat
      <4>2. QED
        BY <3>1, <3>4, <4>1, Zenon
    <3>8. /\ EndOf(e) \in Nat /\ in[e].off < out[e].off /\ out[e].off < EndOf(e)
          /\ EndOf(e) <= setup.pool[Owner(e)]
      BY <2>1, <2>2, <3>1, <3>2, <3>5 DEF PosNat
    <3>9. QED
      BY <2>2, <2>4, <3>6, <3>7, <3>8, Zenon
  <2>5. QED
    BY <2>3, <2>4, Zenon
<1>4. ASSUME NEW e \in Ends, e[2] = "lis"
      PROVE  /\ Cells(in[e]) \cap Cells(out[e]) = {}
             /\ Cells(in[e]) \cup Cells(out[e]) \subseteq 0 .. setup.pool[Owner(e)] - 1
  <2>1. setup.pool[Owner(e)] \in Nat
    BY OwnerLemma, HandshakeAssumption DEF ChannelInv, EndpointTypes
  <2>2. CASE Listener(e)
    <3>1. Cells(in[e]) \cap Cells(out[e]) = {}
      BY <1>3, <1>4, <2>2, IntervalLemma, SMTT(30)
    <3>2. Cells(in[e]) \subseteq 0 .. setup.pool[Owner(e)] - 1
      BY <1>3, <1>4, <2>1, <2>2, SMTT(30)
    <3>3. Cells(out[e]) \subseteq 0 .. setup.pool[Owner(e)] - 1
      BY <1>3, <1>4, <2>1, <2>2
    <3>4. QED
      BY <3>1, <3>2, <3>3, Zenon
  <2>3. QED
    BY <1>3, <1>4, <2>2, Zenon
<1>5. ASSUME NEW e \in Ends, NEW f \in Ends, Owner(e) = Owner(f), e[2] = "lis", f[2] = "lis", e # f
      PROVE  (Cells(in[e]) \cup Cells(out[e])) \cap (Cells(in[f]) \cup Cells(out[f])) = {}
  <2>1. CASE Listener(e) /\ Listener(f)
    <3>1. EndOf(e) <= in[f].off \/ EndOf(f) <= in[e].off
      BY <1>5, <2>1, Zenon DEF ChannelInv, PoolInv
    <3>2. ASSUME NEW l \in Ends, Listener(l)
          PROVE  Cells(in[l]) \cup Cells(out[l]) \subseteq in[l].off .. EndOf(l) - 1
      <4>1. /\ Cells(in[l]) = in[l].off .. out[l].off - 1 /\ Cells(out[l]) = out[l].off .. EndOf(l) - 1
            /\ in[l].off \in Nat /\ out[l].off \in Nat /\ EndOf(l) \in Nat
            /\ in[l].off < out[l].off /\ out[l].off < EndOf(l)
        BY <1>3, <3>2, Zenon DEF Listener
      <4>2. in[l].off .. out[l].off - 1 \subseteq in[l].off .. EndOf(l) - 1
        BY <4>1
      <4>3. out[l].off .. EndOf(l) - 1 \subseteq in[l].off .. EndOf(l) - 1
        BY <4>1
      <4>4. QED
        BY <4>1, <4>2, <4>3, Zenon
    <3>3. (in[e].off .. EndOf(e) - 1) \cap (in[f].off .. EndOf(f) - 1) = {}
      BY <1>3, <1>5, <2>1, <3>1, IntervalLemma, ZenonT(30)
    <3>4. QED
      BY <2>1, <3>2, <3>3, Zenon
  <2>2. CASE ~(Listener(e) /\ Listener(f))
    BY <1>3, <1>5, <2>2, Zenon
  <2>3. QED
    BY <2>1, <2>2, Zenon
<1>6. QED
  BY <1>1, <1>2, <1>4, <1>5, Zenon DEF ChannelsSound

\* The channels of a simulation are sound: both ends agree on synchronisation and on
\* the queues, incompatible ends never open, and queues never overlap in a pool.
THEOREM StartupChannels == Spec => []ChannelsSound
<1>1. Init => ChannelInv
  BY ChannelInit, Zenon DEF Init
<1>2. QED
  BY <1>1, ChannelStep, ChannelSafe, PTL DEF Spec

-----------------------------------------------------------------------------
(* The executor. *)

TaskStates == {"none", "created", "launching", "waiting", "killing", "done", "raised", "cancelled"}
ControlTypes ==
  /\ phase \in [Procs -> {"Off", "Setup", "Establish", "Running", "Failed", "Exited"}]
  /\ main \in {"sort", "gather", "wait", "drain", "terminate", "returned", "raised"}
  /\ npred \in [Nodes -> Nat \cup {NODE_OUT, NODE_DONE}]
  /\ task \in [Nodes -> TaskStates]
  /\ cancelled \in BOOLEAN
  /\ running \subseteq Procs

\* What those who depend on n wait for.
Available(n) == (n \in Procs => SocketsExist(n)) /\ (n \in Externals => n \in up)

\* npredecessors counts the dependencies that are not done.  A component has a start
\* task from when it is passed out, with all its dependencies done, which means that
\* their sockets exist.  A start task that has ended without an exception means the
\* same as long as nobody cancels it, that is, until run() stops to gather or is
\* cancelled.
Gathering == main \in {"sort", "gather"} /\ ~cancelled
Untouched(p) == phase[p] = "Off" /\ p \notin running
NotDone(n) == {m \in Graph[n] : npred[m] # NODE_DONE}
OrderInv ==
  /\ \A n \in Nodes : npred[n] \in Nat => npred[n] = Cardinality(NotDone(n)) /\ task[n] = "none"
  /\ \A n \in Nodes : npred[n] \notin Nat => NotDone(n) = {} /\ task[n] # "none"
  /\ \A n \in Nodes : npred[n] = NODE_DONE => Available(n)
  /\ Gathering => \A n \in Nodes : task[n] = "done" => Available(n)
  /\ \A p \in Procs : task[p] \in {"none", "created"} => Untouched(p)

\* A process that is alive is registered, or is being launched by its start task.
Kept(p) == phase[p] = "Off" \/ Gone(p) \/ p \in running \/ task[p] = "launching"

\* After run() has been cancelled, the start tasks that are left await the ends of
\* processes they have killed.  Where run() is tells which start tasks are left.
SomeRaised == \E n \in Nodes : task[n] = "raised"
SomeCancelled == \E n \in Nodes : task[n] = "cancelled"
OnlyKilling == cancelled /\ \A n \in Unfinished : task[n] = "killing"
LostAProxy == \E p \in Proxies : LaunchLost(p) /\ \E n \in Nodes \ {p} : task[n] = "cancelled"
EndInv ==
  /\ \A p \in Procs : Kept(p)
  /\ \A n \in Nodes : task[n] = "launching" => n \in Procs
  /\ \A n \in Nodes : task[n] = "killing" => cancelled /\ n \in Procs /\ phase[n] = "Exited"
  /\ main = "sort" => ~cancelled
  /\ main = "gather" => ~cancelled \/ OnlyKilling
  /\ main \in {"wait", "terminate", "returned"} => Unfinished = {}
  /\ main = "drain" => Unfinished = {} \/ SomeRaised \/ (OnlyKilling /\ SomeCancelled)
  /\ main = "returned" => \A p \in running : Gone(p)
  /\ main = "raised" => SomeRaised \/ (cancelled /\ LostAProxy)

ExecutorInv == ControlTypes /\ OrderInv /\ EndInv

\* The graph is about processes and external proxies; a component depends on finitely many.
LEMMA GraphLemma ==
  /\ Nodes = Procs \cup Externals
  /\ \A n \in Nodes : Graph[n] \subseteq Nodes /\ IsFiniteSet(Graph[n])
<1>1. Nodes = Procs \cup Externals
  BY ExecutorAssumption, Zenon DEF Graph
<1>2. ASSUME NEW n \in Nodes
      PROVE  Graph[n] \subseteq Nodes /\ Graph[n] \subseteq Procs \cup {External[n]}
  BY <1>1, Zenon DEF Graph, Dependencies, Externals
<1>3. ASSUME NEW n \in Nodes PROVE IsFiniteSet(Graph[n])
  <2>1. IsFiniteSet(Procs \cup {External[n]})
    BY ExecutorAssumption, FS_AddElement, Zenon
  <2>2. QED
    BY <1>2, <2>1, FS_Subset, Zenon
<1>4. QED
  BY <1>1, <1>2, <1>3, Zenon

\* A socket file that exists stays, and so does an external proxy that is up.
LEMMA AvailableStays ==
  ASSUME ChannelInv, [Next]_vars
  PROVE  \A n \in Nodes : Available(n) => Available(n)'
<1>1. ASSUME NEW p \in Procs, Step(p)
      PROVE  \A e \in Ends : conn[e] # "Closed" => conn'[e] # "Closed"
  <2>1. CASE Listen(p)
    BY <2>1, CurrentLemma, Zenon DEF Listen, Fail, endpoints, ChannelInv, EndpointTypes
  <2>2. CASE BlockingAccept(p) \/ Connect(p)
    BY <2>2, CurrentLemma, Zenon DEF BlockingAccept, Connect, Fail, endpoints, ChannelInv, EndpointTypes
  <2>3. CASE Establish(p)
    <3>1. PICK e \in Turns(p) : Turn(p, e)
      BY <2>3, Zenon DEF Establish
    <3>2. CASE UNCHANGED conn
      BY <3>2, Zenon
    <3>3. CASE ~UNCHANGED conn
      <4>1. /\ ~Rejected(e) /\ e \in Ends
            /\ conn' = [conn EXCEPT ![e] = IF Receives(e) THEN "Open" ELSE AfterSend(e)]
        BY <3>1, <3>3, Zenon DEF Turn, Turns, Fail, endpoints
      <4>2. Sends(e) \/ Receives(e)
        BY <4>1, Zenon DEF Turns, Due
      <4>3. conn'[e] # "Closed"
        BY <4>1, <4>2, Zenon DEF Sends, AfterSend, ChannelInv, EndpointTypes
      <4>4. QED
        BY <4>1, <4>3, Zenon DEF ChannelInv, EndpointTypes
    <3>4. QED
      BY <3>2, <3>3, Zenon
  <2>4. QED
    BY <1>1, <2>1, <2>2, <2>3, Zenon DEF Step
<1>2. \A e \in Ends : conn[e] # "Closed" => conn'[e] # "Closed"
  <2>1. UNCHANGED endpoints \/ \E p \in Procs : Step(p)
    BY Zenon DEF Next, vars, Executor, Cancel, Process, Sort, Gathered, GatherFails,
         GatherCancelled, WaitOver, Drain, Escalate,
           Terminated, Begin, Launched, Ready, TimedOut, Reaped, ExternalUp, ExternalReady, Exit
  <2>2. QED
    BY <1>1, <2>1, Zenon DEF endpoints
<1>3. up \subseteq up'
  BY Zenon DEF Next, vars, control, Executor, Cancel, Process, Sort, Gathered, GatherFails,
         GatherCancelled, WaitOver, Drain, Escalate,
         Terminated, Begin, Launched, Ready, TimedOut, Reaped, ExternalUp, ExternalReady, Exit
<1>4. QED
  BY <1>2, <1>3, Zenon DEF Available, SocketsExist

\* Start tasks go on or are cancelled, and so do processes, while the sorter rests.
Moves ==
  /\ UNCHANGED npred
  /\ \A n \in Nodes : task'[n] # task[n] =>
       /\ task[n] \in {"created", "launching", "waiting", "killing"} /\ task'[n] \notin {"none", "created"}
       /\ task[n] = "killing" => task'[n] \in {"done", "cancelled"}
       /\ task'[n] = "done" /\ Gathering' => Available(n)
  /\ \A p \in Procs : Untouched(p) /\ ~Untouched(p)' => task'[p] \notin {"none", "created"}
  /\ \A p \in Procs : (Gone(p) => Gone(p)') /\ (phase[p] = "Exited" => phase'[p] = "Exited")
  /\ (Gathering' => Gathering) /\ (cancelled => cancelled')

\* Such a step keeps the order.
LEMMA MovesOrder ==
  ASSUME ControlTypes, OrderInv, Moves, ControlTypes',
         \A n \in Nodes : Available(n) => Available(n)'
  PROVE  OrderInv'
<1>1. \A n \in Nodes : NotDone(n)' = NotDone(n) /\ npred'[n] = npred[n]
  BY Zenon DEF Moves, NotDone
<1>2. \A n \in Nodes : task'[n] = "none" <=> task[n] = "none"
  BY Zenon DEF Moves
<1>3. \A p \in Procs : task'[p] \in {"none", "created"} => Untouched(p)'
  BY GraphLemma, Zenon DEF OrderInv, Moves
<1>4. Gathering' => \A n \in Nodes : task'[n] = "done" => Available(n)'
  BY Zenon DEF OrderInv, Moves
<1>5. QED
  BY <1>1, <1>2, <1>3, <1>4, Zenon DEF OrderInv

\* No start task is added, and none that has ended with an exception is forgotten.
LEMMA MovesTasks ==
  ASSUME Moves
  PROVE  /\ Unfinished' \subseteq Unfinished
         /\ (SomeRaised => SomeRaised') /\ (SomeCancelled => SomeCancelled')
         /\ (OnlyKilling => OnlyKilling') /\ (LostAProxy => LostAProxy')
<1>1. Unfinished' \subseteq Unfinished
  BY Zenon DEF Moves, Unfinished, Finished
<1>2. (SomeRaised => SomeRaised') /\ (SomeCancelled => SomeCancelled')
  BY Zenon DEF Moves, SomeRaised, SomeCancelled
<1>3. ASSUME OnlyKilling PROVE OnlyKilling'
  <2>1. cancelled'
    BY <1>3, Zenon DEF OnlyKilling, Moves
  <2>2. \A n \in Unfinished' : n \in Nodes /\ task[n] = "killing" /\ ~Finished(n)'
    BY <1>1, <1>3, Zenon DEF OnlyKilling, Unfinished
  <2>3. \A n \in Unfinished' : task'[n] = "killing"
    BY <2>2, Zenon DEF Moves, Finished
  <2>4. QED
    BY <2>1, <2>3, Zenon DEF OnlyKilling
<1>4. ASSUME LostAProxy PROVE LostAProxy'
  <2>1. PICK p \in Proxies : LaunchLost(p) /\ \E n \in Nodes \ {p} : task[n] = "cancelled"
    BY <1>4, Zenon DEF LostAProxy
  <2>2. p \in Procs /\ p \in Nodes
    BY GraphLemma, ExecutorAssumption, Zenon
  <2>3. LaunchLost(p)' /\ \E n \in Nodes \ {p} : task'[n] = "cancelled"
    BY <2>1, <2>2, Zenon DEF Moves, LaunchLost
  <2>4. QED
    BY <2>3, Zenon DEF LostAProxy
<1>5. QED
  BY <1>1, <1>2, <1>3, <1>4, Zenon

\* A start task whose process was killed stays so until it ends.
LEMMA MovesKilling ==
  ASSUME Moves, EndInv, \A n \in Nodes : task'[n] = "killing" => task[n] = "killing"
  PROVE  \A n \in Nodes : task'[n] = "killing" => cancelled' /\ n \in Procs /\ phase'[n] = "Exited"
BY Zenon DEF Moves, EndInv

\* A step that leaves run() where it is.
LEMMA MovesEnd ==
  ASSUME ControlTypes, EndInv, Moves, UNCHANGED <<main, cancelled>>,
         \A p \in Procs : Kept(p)',
         \A n \in Nodes : task'[n] = "killing" => task[n] = "killing",
         \A n \in Nodes : task'[n] = "launching" => task[n] = "launching" \/ n \in Procs,
         main = "returned" => running' = running
  PROVE  EndInv'
<1>1. \A p \in Procs : Gone(p) => Gone(p)'
  BY Zenon DEF Moves
<1>2. main = "returned" => \A p \in running' : Gone(p)'
  BY <1>1, Zenon DEF EndInv, ControlTypes
<1>3. \A n \in Nodes : task'[n] = "killing" => cancelled' /\ n \in Procs /\ phase'[n] = "Exited"
  BY MovesKilling, Zenon
<1>4. QED
  BY <1>2, <1>3, MovesTasks, Zenon DEF EndInv

\* The steps of the start tasks of processes.
LEMMA StartTaskStep ==
  ASSUME ExecutorInv, NEW p \in Procs, Begin(p) \/ Launched(p) \/ Ready(p) \/ TimedOut(p) \/ Reaped(p)
  PROVE  ControlTypes' /\ Moves /\ EndInv'
<1>1. p \in Nodes /\ p \notin Externals
  BY GraphLemma, ExecutorAssumption, Zenon
<1>a. AfterCancel(p) \in {"done", "cancelled"}
  BY Zenon DEF AfterCancel
<1>2. ControlTypes'
  BY <1>1, <1>a, Zenon DEF ExecutorInv, ControlTypes, TaskStates, Begin, Launched, Ready, TimedOut, Reaped
<1>3. UNCHANGED <<main, npred, cancelled>> /\ p \in Unfinished
  BY <1>1, Zenon DEF Begin, Launched, Ready, TimedOut, Reaped, Unfinished, Finished
<1>4. /\ task[p] \in {"created", "launching", "waiting", "killing"}
      /\ task'[p] \in {"launching", "waiting", "done", "raised", "cancelled"}
      /\ task[p] = "killing" => task'[p] \in {"done", "cancelled"}
      /\ \A n \in Nodes : n # p => task'[n] = task[n]
      /\ task'[p] = "done" => SocketsExist(p) \/ task[p] = "killing"
  BY <1>1, <1>a, Zenon DEF ExecutorInv, ControlTypes, TaskStates, Begin, Launched, Ready, TimedOut, Reaped
<1>b. task'[p] = "done" /\ Gathering' => SocketsExist(p)
  BY <1>1, <1>3, <1>4, Zenon DEF ExecutorInv, EndInv, Gathering
<1>5. \A q \in Procs : \/ phase'[q] = phase[q]
                       \/ q = p /\ task[p] = "created" /\ phase'[q] = "Setup" /\ task'[p] = "launching"
  BY <1>1, Zenon DEF ExecutorInv, ControlTypes, TaskStates, Begin, Launched, Ready, TimedOut, Reaped
<1>6. Moves
  <2>1. \A q \in Procs : (Gone(q) => Gone(q)') /\ (phase[q] = "Exited" => phase'[q] = "Exited")
    <3>1. task[p] = "created" => phase[p] = "Off"
      BY Zenon DEF ExecutorInv, OrderInv, Untouched
    <3>2. QED
      BY <1>5, <3>1, Zenon DEF Gone
  <2>2. \A q \in Procs : Untouched(q) /\ ~Untouched(q)' => task'[q] \notin {"none", "created"}
    BY <1>4, <1>5, Zenon DEF Untouched, Begin, Launched, Ready, TimedOut, Reaped
  <2>3. QED
    BY <1>1, <1>3, <1>4, <1>b, <2>1, <2>2, Zenon DEF Moves, Available, Gathering
<1>7. \A q \in Procs : Kept(q)'
  <2>1. running \subseteq running' /\ (task[p] = "launching" => p \in running')
    BY Zenon DEF Begin, Launched, Ready, TimedOut, Reaped
  <2>2. \A q \in Procs : Gone(q) => Gone(q)'
    BY <1>6, Zenon DEF Moves
  <2>3. \A q \in Procs : Kept(q)
    BY Zenon DEF ExecutorInv, EndInv
  <2>4. QED
    BY <1>4, <1>5, <2>1, <2>2, <2>3, GraphLemma, Zenon DEF Kept
<1>8. main # "returned"
  BY <1>3, Zenon DEF ExecutorInv, EndInv
<1>9. QED
  BY <1>2, <1>3, <1>4, <1>6, <1>7, <1>8, MovesEnd, Zenon DEF ExecutorInv

\* External proxies come up, and the tasks that wait for them go on.
LEMMA ExternalStep ==
  ASSUME ExecutorInv, NEW x \in Externals, ExternalUp(x) \/ ExternalReady(x)
  PROVE  ControlTypes' /\ Moves /\ EndInv'
<1>1. x \in Nodes /\ x \notin Procs
  BY GraphLemma, ExecutorAssumption, Zenon
<1>2. ControlTypes' /\ UNCHANGED <<main, npred, phase, running, cancelled>>
  BY <1>1, Zenon DEF ExecutorInv, ControlTypes, TaskStates, ExternalUp, ExternalReady, endpoints
<1>3. Moves
  BY <1>1, <1>2, Zenon DEF ExecutorInv, ControlTypes, TaskStates, Moves,
         ExternalUp, ExternalReady, Available, Gathering,
         Gone, Untouched
<1>4. \A q \in Procs : Kept(q)'
  <2>1. \A q \in Procs : task'[q] = task[q]
    BY <1>1, GraphLemma, Zenon DEF ExecutorInv, ControlTypes, TaskStates, ExternalUp, ExternalReady
  <2>2. QED
    BY <1>2, <2>1, Zenon DEF ExecutorInv, EndInv, Kept, Gone
<1>5. \A n \in Nodes : task'[n] \in {"launching", "killing"} => task'[n] = task[n]
  BY <1>1, Zenon DEF ExecutorInv, ControlTypes, TaskStates, ExternalUp, ExternalReady
<1>6. QED
  BY <1>2, <1>3, <1>4, <1>5, MovesEnd, Zenon DEF ExecutorInv

Stops(n, state) == state = AfterCancel(n) \/ (task[n] = "launching" /\ state = "killing")

\* Cancellation ends start tasks; it kills a process that is being launched.
LEMMA CancelTasksLemma ==
  ASSUME ExecutorInv, NEW S \in SUBSET Unfinished, task' = [n \in Nodes |-> task'[n]],
         phase' = KilledByCancel(S),
         \A n \in Nodes : IF n \in S THEN Stops(n, task'[n]) ELSE task'[n] = task[n],
         UNCHANGED <<npred, running>>, main' \in {"gather", "drain", "raised"},
         cancelled' \in BOOLEAN, cancelled => cancelled', main' = "gather" => cancelled'
  PROVE  /\ ControlTypes' /\ Moves /\ \A p \in Procs : Kept(p)'
<1>1. \A n \in Nodes : AfterCancel(n) \in {"done", "cancelled"}
  BY Zenon DEF AfterCancel
<1>2. \A p \in Procs : phase'[p] = IF p \in S /\ task[p] = "launching" THEN "Exited" ELSE phase[p]
  BY Zenon DEF KilledByCancel
<1>3. \A n \in S : n \in Nodes /\ task[n] \in {"created", "launching", "waiting", "killing"}
  BY Zenon DEF Unfinished, Finished, ExecutorInv, ControlTypes, TaskStates
<1>4. \A n \in S : task'[n] \in {"killing", "done", "cancelled"} /\ (task[n] = "killing" => task'[n] # "killing")
  BY <1>1, <1>3, Zenon DEF Stops
<1>5. ControlTypes'
  <2>1. \A n \in Nodes : task'[n] \in TaskStates
    BY <1>4, Zenon DEF ExecutorInv, ControlTypes, TaskStates
  <2>2. task' \in [Nodes -> TaskStates]
    BY <2>1, Zenon
  <2>3. QED
    BY <2>2, Zenon DEF KilledByCancel, ExecutorInv, ControlTypes
<1>6. \A p \in Procs : (Gone(p) => Gone(p)') /\ (phase[p] = "Exited" => phase'[p] = "Exited")
  BY <1>2, Zenon DEF Gone
<1>7. Moves
  <2>1. \A p \in Procs : Untouched(p) /\ ~Untouched(p)' => p \in S
    BY <1>2, Zenon DEF Untouched
  <2>2. ~Gathering'
    BY Zenon DEF Gathering
  <2>3. QED
    BY <1>3, <1>4, <1>6, <2>1, <2>2, Zenon DEF Moves
<1>8. \A p \in Procs : Kept(p)'
  <2> SUFFICES ASSUME NEW p \in Procs PROVE Kept(p)'
    BY Zenon
  <2>1. Kept(p) /\ p \in Nodes
    BY GraphLemma, Zenon DEF ExecutorInv, EndInv
  <2>2. CASE p \in S /\ task[p] = "launching"
    BY <1>2, <2>2, Zenon DEF Kept, Gone
  <2>3. CASE ~(p \in S /\ task[p] = "launching")
    <3>1. phase'[p] = phase[p] /\ (task[p] = "launching" => task'[p] = "launching")
      BY <1>2, <2>1, <2>3, Zenon
    <3>2. QED
      BY <2>1, <3>1, Zenon DEF Kept, Gone
  <2>4. QED
    BY <2>2, <2>3, Zenon
<1>9. QED
  BY <1>5, <1>7, <1>8, Zenon

\* The start tasks that are launching or killing a process afterwards.
LEMMA CancelKilling ==
  ASSUME ExecutorInv, NEW S \in SUBSET Unfinished, phase' = KilledByCancel(S),
         \A n \in Nodes : IF n \in S THEN Stops(n, task'[n]) ELSE task'[n] = task[n],
         \A n \in Nodes : task'[n] = "killing" => cancelled'
  PROVE  /\ \A n \in Nodes : task'[n] = "launching" => n \in Procs
         /\ \A n \in Nodes : task'[n] = "killing" => cancelled' /\ n \in Procs /\ phase'[n] = "Exited"
<1> SUFFICES ASSUME NEW n \in Nodes
             PROVE  /\ task'[n] = "launching" => n \in Procs
                    /\ task'[n] = "killing" => n \in Procs /\ phase'[n] = "Exited"
  BY Zenon
<1>1. AfterCancel(n) \in {"done", "cancelled"}
  BY Zenon DEF AfterCancel
<1>2. n \in Procs => phase'[n] = IF n \in S /\ task[n] = "launching" THEN "Exited" ELSE phase[n]
  BY Zenon DEF KilledByCancel
<1>3. /\ task[n] = "launching" => n \in Procs
      /\ task[n] = "killing" => n \in Procs /\ phase[n] = "Exited"
  BY Zenon DEF ExecutorInv, EndInv
<1>4. CASE n \in S
  BY <1>1, <1>2, <1>3, <1>4, Zenon DEF Stops
<1>5. CASE n \notin S
  BY <1>2, <1>3, <1>5, Zenon
<1>6. QED
  BY <1>4, <1>5, Zenon

\* An interrupt.
LEMMA CancelStep ==
  ASSUME ExecutorInv, Cancel
  PROVE  ControlTypes' /\ Moves /\ EndInv'
<1> DEFINE over == Unfinished = {} \/ SomeRaised
           S == IF over THEN {} ELSE Unfinished
<1>1. /\ CancelAll(S) /\ UNCHANGED <<npred, running>> /\ cancelled' = TRUE
      /\ main \in {"gather", "wait"} /\ main' = IF over THEN "drain" ELSE main
  BY Zenon DEF Cancel, SomeRaised
<1>2. \A n \in Nodes : task'[n] = IF n \notin S THEN task[n]
                                  ELSE IF task[n] = "launching" THEN "killing" ELSE AfterCancel(n)
  BY <1>1, Zenon DEF CancelAll
<1>3. \A n \in Nodes : IF n \in S THEN Stops(n, task'[n]) ELSE task'[n] = task[n]
  BY <1>2, Zenon DEF Stops
<1>4. ~over => main' = "gather"
  BY <1>1, Zenon DEF ExecutorInv, EndInv
<1>5. main' \in {"gather", "drain"} /\ phase' = KilledByCancel(S) /\ S \in SUBSET Unfinished
  BY <1>1, <1>4, Zenon DEF CancelAll
<1>6. ControlTypes' /\ Moves /\ \A p \in Procs : Kept(p)'
  <2>1. task' = [n \in Nodes |-> task'[n]]
    BY <1>1, Zenon DEF CancelAll
  <2> HIDE DEF S
  <2>2. QED
    BY <1>1, <1>3, <1>5, <2>1, CancelTasksLemma, Zenon
<1>7. /\ \A n \in Nodes : task'[n] = "launching" => n \in Procs
      /\ \A n \in Nodes : task'[n] = "killing" => cancelled' /\ n \in Procs /\ phase'[n] = "Exited"
  <2> HIDE DEF S
  <2>1. QED
    BY <1>1, <1>3, <1>5, CancelKilling, Zenon
<1>8. CASE over
  <2>1. main' = "drain" /\ (Unfinished' = {} \/ SomeRaised')
    BY <1>1, <1>6, <1>8, MovesTasks, Zenon
  <2>2. QED
    BY <1>6, <1>7, <2>1, Zenon DEF EndInv
<1>9. CASE ~over
  <2>1. \A n \in Nodes : AfterCancel(n) \in {"done", "cancelled"}
    BY Zenon DEF AfterCancel
  <2>2. \A n \in Unfinished' : n \in Unfinished /\ n \in Nodes /\ ~Finished(n)'
    BY <1>6, MovesTasks, Zenon DEF Unfinished
  <2>3. \A n \in Unfinished' : task'[n] = "killing"
    BY <1>2, <1>9, <2>1, <2>2, Zenon DEF Finished
  <2>4. OnlyKilling'
    BY <1>1, <2>3, Zenon DEF OnlyKilling
  <2>5. QED
    BY <1>4, <1>6, <1>7, <1>9, <2>4, Zenon DEF EndInv
<1>10. QED
  BY <1>6, <1>8, <1>9, Zenon

\* The start tasks that are left when something has gone wrong.
LEMMA DrainStep ==
  ASSUME ExecutorInv, Drain
  PROVE  ControlTypes' /\ Moves /\ EndInv'
<1>1. CASE Unfinished = {} /\ main' = "terminate" /\ UNCHANGED <<task, phase>>
  <2>1. UNCHANGED <<npred, running, cancelled>> /\ main = "drain"
    BY Zenon DEF Drain
  <2>2. ControlTypes' /\ Moves
    BY <1>1, <2>1, Zenon DEF ExecutorInv, ControlTypes, Moves, Gathering, Gone, Untouched
  <2>3. EndInv'
    BY <1>1, <2>1, Zenon DEF ExecutorInv, EndInv, Kept, Gone, Unfinished, Finished
  <2>4. QED
    BY <2>2, <2>3, Zenon
<1>2. CASE ~(Unfinished = {} /\ main' = "terminate" /\ UNCHANGED <<task, phase>>)
  <2>1. PICK n \in Unfinished : /\ task' = [task EXCEPT ![n] = AfterCancel(n)]
                                /\ phase' = KilledByCancel({n})
                                /\ main' = IF AfterCancel(n) = "cancelled" THEN "raised" ELSE "drain"
    BY <1>2, Zenon DEF Drain
  <2>2. UNCHANGED <<npred, running, cancelled>> /\ main = "drain" /\ main' \in {"drain", "raised"}
    BY <2>1, Zenon DEF Drain
  <2>3. AfterCancel(n) \in {"done", "cancelled"} /\ n \in Nodes
    BY Zenon DEF AfterCancel, Unfinished
  <2>4. /\ task'[n] = AfterCancel(n)
        /\ \A m \in Nodes : IF m \in {n} THEN Stops(m, task'[m]) ELSE task'[m] = task[m]
    BY <2>1, <2>3, Zenon DEF ExecutorInv, ControlTypes, Stops
  <2>5. ControlTypes' /\ Moves /\ \A p \in Procs : Kept(p)'
    <3>1. task' = [m \in Nodes |-> task'[m]] /\ cancelled' \in BOOLEAN
      BY <2>1, <2>2, <2>3, Zenon DEF ExecutorInv, ControlTypes
    <3>2. {n} \in SUBSET Unfinished
      BY Zenon
    <3>3. QED
      BY <2>1, <2>2, <2>4, <3>1, <3>2, CancelTasksLemma, Zenon
  <2>6. \A m \in Nodes : task'[m] \in {"launching", "killing"} => task'[m] = task[m]
    BY <2>3, <2>4, Zenon
  <2>7. /\ \A m \in Nodes : task'[m] = "launching" => m \in Procs
        /\ \A m \in Nodes : task'[m] = "killing" => cancelled' /\ m \in Procs /\ phase'[m] = "Exited"
    BY <2>5, <2>6, MovesKilling, Zenon DEF ExecutorInv, EndInv
  <2>8. CASE SomeRaised
    <3>1. SomeRaised'
      BY <2>5, <2>8, MovesTasks, Zenon
    <3>2. QED
      BY <2>2, <2>5, <2>7, <3>1, Zenon DEF EndInv
  <2>9. CASE OnlyKilling /\ SomeCancelled
    <3>1. OnlyKilling' /\ SomeCancelled'
      BY <2>5, <2>9, MovesTasks, Zenon
    <3>2. main' = "raised" => cancelled' /\ LostAProxy'
      <4> SUFFICES ASSUME main' = "raised" PROVE LostAProxy'
        BY <3>1, Zenon DEF OnlyKilling
      <4>1. task'[n] = "cancelled" /\ task[n] = "killing" /\ AfterCancel(n) = "cancelled"
        BY <2>1, <2>3, <2>4, <2>9, Zenon DEF OnlyKilling
      <4>2. n \in Proxies /\ phase[n] = "Exited" /\ n \in Procs
        BY <2>3, <4>1, Zenon DEF AfterCancel, ExecutorInv, EndInv
      <4>3. phase'[n] = "Exited"
        BY <2>5, <4>2, Zenon DEF Moves
      <4>4. PICK m \in Nodes : task[m] = "cancelled"
        BY <2>9, Zenon DEF SomeCancelled
      <4>5. m # n /\ task'[m] = "cancelled"
        BY <2>4, <4>1, <4>4, Zenon
      <4>6. QED
        BY <4>1, <4>2, <4>3, <4>5, Zenon DEF LostAProxy, LaunchLost
    <3>3. QED
      BY <2>2, <2>5, <2>7, <3>1, <3>2, Zenon DEF EndInv
  <2>10. QED
    BY <2>2, <2>5, <2>8, <2>9, Zenon DEF ExecutorInv, EndInv
<1>3. QED
  BY <1>1, <1>2, Zenon

\* The other steps of run().
LEMMA RunStep ==
  ASSUME ExecutorInv, GatherFails \/ GatherCancelled \/ WaitOver \/ Escalate \/ Terminated
  PROVE  ControlTypes' /\ Moves /\ EndInv'
<1>1. UNCHANGED <<phase, npred, task, running, cancelled>>
  BY Zenon DEF GatherFails, GatherCancelled, WaitOver, Escalate, Terminated
<1>2. ControlTypes' /\ Moves
  BY <1>1, Zenon DEF ExecutorInv, ControlTypes, Moves, Gathering, Gone, Untouched, GatherFails,
         GatherCancelled, WaitOver, Escalate, Terminated
<1>3. /\ Unfinished' = Unfinished /\ SomeRaised' = SomeRaised /\ SomeCancelled' = SomeCancelled
      /\ OnlyKilling' = OnlyKilling
      /\ \A p \in Procs : Gone(p)' = Gone(p) /\ Kept(p)' = Kept(p)
  BY <1>1, Zenon DEF Unfinished, Finished, SomeRaised, SomeCancelled, OnlyKilling, Gone, Kept
<1>4. EndInv'
  <2>1. \A p \in Procs : Kept(p)
    BY Zenon DEF ExecutorInv, EndInv
  <2>a. /\ \A n \in Nodes : task'[n] = "launching" => n \in Procs
        /\ \A n \in Nodes : task'[n] = "killing" => cancelled' /\ n \in Procs /\ phase'[n] = "Exited"
    BY <1>1, Zenon DEF ExecutorInv, EndInv
  <2>2. \A p \in running : p \in Procs
    BY Zenon DEF ExecutorInv, ControlTypes
  <2>3. CASE GatherFails
    BY <1>3, <2>1, <2>a, <2>3, Zenon DEF EndInv, GatherFails, SomeRaised
  <2>b. CASE GatherCancelled
    BY <1>1, <1>3, <2>1, <2>a, <2>b, Zenon DEF ExecutorInv, EndInv, GatherCancelled, SomeCancelled
  <2>4. CASE WaitOver
    BY <1>3, <2>1, <2>a, <2>4, Zenon DEF ExecutorInv, EndInv, WaitOver
  <2>5. CASE Escalate
    BY <1>3, <2>1, <2>a, <2>5, Zenon DEF ExecutorInv, EndInv, Escalate
  <2>6. CASE Terminated
    BY <1>1, <1>3, <2>1, <2>a, <2>2, <2>6, Zenon DEF ExecutorInv, EndInv, Terminated
  <2>7. QED
    BY <2>3, <2>b, <2>4, <2>5, <2>6, Zenon
<1>5. QED
  BY <1>2, <1>4, Zenon

\* The steps of a process.
LEMMA ProcessStep ==
  ASSUME ExecutorInv, NEW p \in Procs, Process(p)
  PROVE  ControlTypes' /\ Moves /\ EndInv'
<1>1. UNCHANGED <<main, npred, task, running, cancelled>>
  BY Zenon DEF Process, Exit, control
<1>2. \/ UNCHANGED phase
      \/ /\ ~Gone(p) /\ task[p] \notin {"none", "created"}
         /\ \E f \in {"Setup", "Establish", "Running", "Failed", "Exited"} :
              phase' = [phase EXCEPT ![p] = f] /\ (phase[p] # "Off" \/ f = "Exited")
  <2>1. CASE Step(p)
    <3>1. phase[p] \in {"Setup", "Establish"}
      BY <2>1, Zenon DEF Step, Listen, BlockingAccept, Connect, Establish
    <3>2. NextPhase(p) \in {"Setup", "Establish"}
      BY <3>1, Zenon DEF NextPhase
    <3>3. \/ UNCHANGED phase
          \/ \E f \in {"Setup", "Establish", "Running", "Failed", "Exited"} : phase' = [phase EXCEPT ![p] = f]
      <4>1. CASE Listen(p) \/ BlockingAccept(p) \/ Connect(p)
        BY <4>1, <3>2, Zenon DEF Listen, BlockingAccept, Connect, Advance, Fail
      <4>2. CASE Establish(p)
        BY <4>2, <3>1, Zenon DEF Establish, Turn, Fail
      <4>3. QED
        BY <2>1, <4>1, <4>2, Zenon DEF Step
    <3>4. QED
      BY <3>1, <3>3, Zenon DEF Gone, ExecutorInv, OrderInv, Untouched
  <2>2. CASE Exit(p)
    BY <2>2, Zenon DEF Exit, Finish, Signalled, Gone, ExecutorInv, OrderInv, Untouched
  <2>3. QED
    BY <2>1, <2>2, Zenon DEF Process
<1>3. ControlTypes'
  BY <1>1, <1>2, Zenon DEF ExecutorInv, ControlTypes
<1>4. \A q \in Procs : /\ Gone(q) => Gone(q)'
                       /\ phase[q] = "Exited" => phase'[q] = "Exited"
                       /\ phase'[q] # phase[q] => /\ q = p /\ task[p] \notin {"none", "created"}
                                                  /\ ~Gone(q) /\ (phase[q] # "Off" \/ Gone(q)')
  BY <1>2, Zenon DEF ExecutorInv, ControlTypes, Gone
<1>5. Moves
  BY <1>1, <1>4, Zenon DEF Moves, Gathering, Untouched
<1>6. \A q \in Procs : Kept(q)'
  <2> SUFFICES ASSUME NEW q \in Procs PROVE Kept(q)'
    BY Zenon
  <2>1. Kept(q)
    BY Zenon DEF ExecutorInv, EndInv
  <2>2. CASE phase'[q] = phase[q]
    BY <1>1, <1>4, <2>1, <2>2, Zenon DEF Kept
  <2>3. CASE phase'[q] # phase[q]
    BY <1>1, <1>4, <2>1, <2>3, Zenon DEF Kept
  <2>4. QED
    BY <2>2, <2>3, Zenon
<1>7. QED
  BY <1>1, <1>3, <1>5, <1>6, MovesEnd, Zenon DEF ExecutorInv

\* get_ready passes out components all of whose dependencies are done.
LEMMA SortStep ==
  ASSUME ExecutorInv, Sort
  PROVE  ExecutorInv'
<1> DEFINE ready == {n \in Nodes : npred[n] = 0}
<1>1. /\ main = "sort" /\ main' = "gather" /\ UNCHANGED <<phase, running, up, conn, cancelled>>
      /\ \A n \in Nodes : npred'[n] = IF n \in ready THEN NODE_OUT ELSE npred[n]
      /\ \A n \in Nodes : task'[n] = IF n \in ready THEN "created" ELSE task[n]
  BY Zenon DEF Sort, endpoints
<1>2. ControlTypes'
  BY Zenon DEF Sort, ExecutorInv, ControlTypes, TaskStates
<1>3. ASSUME NEW n \in Nodes PROVE NotDone(n)' = NotDone(n) /\ (n \in ready => NotDone(n) = {} /\ task[n] = "none")
  <2>1. NotDone(n)' = NotDone(n)
    <3>1. \A m \in Nodes : npred'[m] = NODE_DONE <=> npred[m] = NODE_DONE
      BY <1>1 DEF NODE_OUT, NODE_DONE
    <3>2. QED
      BY <3>1, GraphLemma, Zenon DEF NotDone
  <2>2. IsFiniteSet(NotDone(n))
    BY GraphLemma, FS_Subset, Zenon DEF NotDone
  <2>3. n \in ready => Cardinality(NotDone(n)) = 0 /\ task[n] = "none"
    BY DEF ExecutorInv, OrderInv
  <2>4. QED
    BY <2>1, <2>2, <2>3, FS_EmptySet, Zenon
<1>a. Gathering /\ ~cancelled
  BY <1>1, Zenon DEF ExecutorInv, EndInv, Gathering
<1>4. \A n \in Nodes : Available(n)' = Available(n)
  BY <1>1, Zenon DEF Available, SocketsExist
<1>5. OrderInv'
  <2>1. \A n \in Nodes : npred'[n] \in Nat => npred'[n] = npred[n] /\ task'[n] = task[n]
    BY <1>1 DEF NODE_OUT
  <2>2. \A n \in Nodes : npred'[n] \notin Nat => \/ npred[n] \notin Nat /\ task'[n] = task[n]
                                                 \/ n \in ready /\ task'[n] = "created"
    BY <1>1, Zenon
  <2>3. \A n \in Nodes : npred'[n] \in Nat => npred'[n] = Cardinality(NotDone(n)') /\ task'[n] = "none"
    BY <1>3, <2>1, Zenon DEF ExecutorInv, OrderInv
  <2>4. \A n \in Nodes : npred'[n] \notin Nat => NotDone(n)' = {} /\ task'[n] # "none"
    BY <1>3, <2>2, Zenon DEF ExecutorInv, OrderInv
  <2>5. \A n \in Nodes : npred'[n] = NODE_DONE => Available(n)'
    BY <1>1, <1>4 DEF ExecutorInv, OrderInv, NODE_OUT, NODE_DONE
  <2>6. \A n \in Nodes : task'[n] = "done" => Available(n)'
    BY <1>1, <1>4, <1>a, Zenon DEF ExecutorInv, OrderInv
  <2>7. \A p \in Procs : task'[p] \in {"none", "created"} => Untouched(p)'
    BY <1>1, <1>3, GraphLemma, Zenon DEF ExecutorInv, OrderInv, Untouched
  <2>8. QED
    BY <2>3, <2>4, <2>5, <2>6, <2>7, Zenon DEF OrderInv
<1>6. EndInv'
  <2>1. \A p \in Procs : Kept(p)'
    BY <1>1, <1>3, GraphLemma, Zenon DEF ExecutorInv, EndInv, Kept, Gone
  <2>2. \A n \in Nodes : task'[n] \in {"launching", "killing"} => task'[n] = task[n]
    BY <1>1, Zenon
  <2>3. QED
    BY <1>1, <1>a, <2>1, <2>2, Zenon DEF ExecutorInv, EndInv
<1>7. QED
  BY <1>2, <1>5, <1>6, Zenon DEF ExecutorInv

\* done() takes the components that have been passed out off the counts of those
\* that depend on them.
LEMMA GatheredStep ==
  ASSUME ExecutorInv, Gathered
  PROVE  ExecutorInv'
<1> DEFINE passed == {m \in Nodes : npred[m] = NODE_OUT}
<1>1. /\ main = "gather" /\ main' \in {"sort", "wait"}
      /\ UNCHANGED <<phase, running, up, conn, task, cancelled>> /\ ~cancelled
      /\ \A n \in Nodes : task[n] \in {"none", "done"}
      /\ npred' = MarkDone
  BY Zenon DEF Gathered, endpoints
<1>2. ASSUME NEW n \in Nodes, npred[n] \in Nat
      PROVE  npred'[n] = npred[n] - Cardinality(Graph[n] \cap passed)
  BY <1>1, <1>2 DEF MarkDone, NODE_OUT, NODE_DONE
<1>3. ASSUME NEW n \in Nodes, npred[n] \notin Nat
      PROVE  npred'[n] = NODE_DONE
  BY <1>1, <1>3, Zenon DEF MarkDone, ExecutorInv, ControlTypes
<1>4. ASSUME NEW n \in Nodes, npred[n] \in Nat
      PROVE  npred'[n] = Cardinality(NotDone(n) \ passed) /\ npred'[n] \in Nat
  <2>1. IsFiniteSet(NotDone(n))
    BY GraphLemma, FS_Subset, Zenon DEF NotDone
  <2>2. Graph[n] \cap passed = NotDone(n) \cap passed
    BY DEF NotDone, NODE_OUT, NODE_DONE
  <2>3. npred[n] = Cardinality(NotDone(n))
    BY <1>4, Zenon DEF ExecutorInv, OrderInv
  <2>4. /\ IsFiniteSet(NotDone(n) \ passed)
        /\ Cardinality(NotDone(n) \ passed) = Cardinality(NotDone(n)) - Cardinality(NotDone(n) \cap passed)
    BY <2>1, FS_Difference, Zenon
  <2>5. Cardinality(NotDone(n) \ passed) \in Nat
    BY <2>4, FS_CardinalityType, Zenon
  <2>6. npred'[n] = Cardinality(NotDone(n) \ passed)
    BY <1>2, <1>4, <2>2, <2>3, <2>4, Zenon
  <2>7. QED
    BY <2>5, <2>6, Zenon
<1>5. ASSUME NEW n \in Nodes PROVE NotDone(n)' = NotDone(n) \ passed
  <2>1. \A m \in Nodes : npred'[m] = NODE_DONE <=> npred[m] = NODE_DONE \/ m \in passed
    <3> SUFFICES ASSUME NEW m \in Nodes PROVE npred'[m] = NODE_DONE <=> npred[m] = NODE_DONE \/ m \in passed
      BY Zenon
    <3>1. CASE npred[m] \in Nat
      <4>1. npred'[m] \in Nat
        BY <3>1, <1>4, Zenon
      <4>2. QED
        BY <3>1, <4>1 DEF NODE_OUT, NODE_DONE
    <3>2. CASE npred[m] \notin Nat
      BY <3>2, <1>3, Zenon DEF ExecutorInv, ControlTypes
    <3>3. QED
      BY <3>1, <3>2, Zenon
  <2>2. QED
    BY <2>1, GraphLemma, Zenon DEF NotDone
<1>6. ControlTypes'
  <2>1. npred' \in [Nodes -> Nat \cup {NODE_OUT, NODE_DONE}]
    <3>1. \A n \in Nodes : npred'[n] \in Nat \cup {NODE_OUT, NODE_DONE}
      BY <1>3, <1>4, Zenon
    <3>2. npred' = [n \in Nodes |-> npred'[n]]
      BY <1>1, Zenon DEF MarkDone
    <3>3. QED
      BY <3>1, <3>2, Zenon
  <2>2. QED
    BY <1>1, <2>1, Zenon DEF ExecutorInv, ControlTypes
<1>7. \A n \in Nodes : Available(n)' = Available(n)
  BY <1>1, Zenon DEF Available, SocketsExist
<1>8. OrderInv'
  <2>1. \A n \in Nodes : npred'[n] \in Nat <=> npred[n] \in Nat
    <3>1. \A n \in Nodes : npred[n] \in Nat => npred'[n] \in Nat
      BY <1>4, Zenon
    <3>2. \A n \in Nodes : npred[n] \notin Nat => npred'[n] \notin Nat
      BY <1>3 DEF NODE_DONE
    <3>3. QED
      BY <3>1, <3>2, Zenon
  <2>2. \A n \in Nodes : npred'[n] \in Nat => npred'[n] = Cardinality(NotDone(n)') /\ task'[n] = "none"
    BY <1>1, <1>4, <1>5, <2>1, Zenon DEF ExecutorInv, OrderInv
  <2>3. \A n \in Nodes : npred'[n] \notin Nat => NotDone(n)' = {} /\ task'[n] # "none"
    BY <1>1, <1>5, <2>1, Zenon DEF ExecutorInv, OrderInv
  <2>4. \A n \in Nodes : task[n] = "done" => Available(n)'
    BY <1>1, <1>7, Zenon DEF ExecutorInv, OrderInv, Gathering
  <2>5. \A n \in Nodes : npred'[n] = NODE_DONE => Available(n)'
    <3>1. \A n \in Nodes : npred'[n] = NODE_DONE => npred[n] \notin Nat
      BY <2>1 DEF NODE_DONE
    <3>2. \A n \in Nodes : npred[n] \notin Nat => task[n] = "done"
      BY <1>1, Zenon DEF ExecutorInv, OrderInv
    <3>3. QED
      BY <2>4, <3>1, <3>2, Zenon
  <2>6. \A p \in Procs : task'[p] \in {"none", "created"} => Untouched(p)'
    BY <1>1, Zenon DEF ExecutorInv, OrderInv, Untouched
  <2>7. QED
    BY <1>1, <2>2, <2>3, <2>4, <2>5, <2>6, Zenon DEF OrderInv
<1>9. EndInv'
  <2>1. Unfinished' = {}
    BY <1>1, Zenon DEF Unfinished, Finished
  <2>2. \A p \in Procs : Kept(p)'
    BY <1>1, Zenon DEF ExecutorInv, EndInv, Kept, Gone
  <2>3. QED
    BY <1>1, <2>1, <2>2, Zenon DEF EndInv
<1>10. QED
  BY <1>6, <1>8, <1>9, Zenon DEF ExecutorInv

\* The executor at the start.
LEMMA ExecutorInit == Init => ExecutorInv
<1> SUFFICES ASSUME Init PROVE ExecutorInv
  BY Zenon
<1>1. \A n \in Nodes : NotDone(n) = Graph[n] /\ npred[n] = Cardinality(Graph[n]) /\ npred[n] \in Nat
  <2>1. \A n \in Nodes : npred[n] = Cardinality(Graph[n]) /\ npred[n] \in Nat
    BY GraphLemma, FS_CardinalityType, Zenon DEF Init
  <2>2. QED
    BY <2>1, GraphLemma DEF NotDone, NODE_DONE
<1>2. ControlTypes
  BY <1>1, Zenon DEF Init, HandshakeInit, ControlTypes, TaskStates
<1>3. OrderInv
  <2>1. \A n \in Nodes : task[n] = "none" /\ npred[n] # NODE_DONE
    BY <1>1 DEF Init, NODE_DONE
  <2>2. \A p \in Procs : Untouched(p)
    BY Zenon DEF Init, HandshakeInit, Untouched
  <2>3. QED
    BY <1>1, <2>1, <2>2, Zenon DEF OrderInv
<1>4. EndInv
  BY Zenon DEF Init, HandshakeInit, EndInv, Kept
<1>5. QED
  BY <1>2, <1>3, <1>4, Zenon DEF ExecutorInv

\* Every step of the executor and of the processes keeps the invariants.
LEMMA ExecutorStep == ChannelInv /\ ExecutorInv /\ [Next]_vars => ExecutorInv'
<1> SUFFICES ASSUME ChannelInv, ExecutorInv, [Next]_vars PROVE ExecutorInv'
  BY Zenon
<1>1. CASE ControlTypes' /\ Moves /\ EndInv'
  BY <1>1, AvailableStays, MovesOrder, Zenon DEF ExecutorInv
<1>2. CASE UNCHANGED vars
  <2>1. UNCHANGED <<phase, main, npred, task, running, up, cancelled, conn>>
    BY <1>2, Zenon DEF vars, control, endpoints
  <2>2. ControlTypes' /\ OrderInv'
    BY <2>1 DEF ExecutorInv, ControlTypes, OrderInv, Gathering, NotDone, Available, SocketsExist, Untouched
  <2>3. EndInv'
    BY <2>1 DEF ExecutorInv, EndInv, Kept, Gone, Unfinished, Finished, SomeRaised, SomeCancelled, OnlyKilling,
                LostAProxy, LaunchLost
  <2>4. QED
    BY <2>2, <2>3, Zenon DEF ExecutorInv
<1>3. CASE Next
  <2>1. CASE Sort \/ Gathered
    BY <2>1, SortStep, GatheredStep, Zenon
  <2>2. CASE Cancel \/ Drain \/ GatherFails \/ GatherCancelled \/ WaitOver \/ Escalate \/ Terminated
    BY <1>1, <2>2, CancelStep, DrainStep, RunStep, Zenon
  <2>3. CASE \E p \in Procs : Begin(p) \/ Launched(p) \/ Ready(p) \/ TimedOut(p) \/ Reaped(p)
    BY <1>1, <2>3, StartTaskStep, Zenon
  <2>4. CASE \E x \in Externals : ExternalUp(x) \/ ExternalReady(x)
    BY <1>1, <2>4, ExternalStep, Zenon
  <2>5. CASE \E p \in Procs : Process(p)
    BY <1>1, <2>5, ProcessStep, Zenon
  <2>6. QED
    BY <1>3, <2>1, <2>2, <2>3, <2>4, <2>5, Zenon DEF Next, Executor
<1>4. QED
  BY <1>2, <1>3, Zenon

\* The invariants imply that processes are started in order.
LEMMA OrderSafe == ExecutorInv => StartOrder
<1> SUFFICES ASSUME ExecutorInv, NEW p \in Procs, phase[p] # "Off"
             PROVE  /\ \A e \in Ends : Owner(e) = p /\ e[2] = "con" => conn[Peer(e)] # "Closed"
                    /\ p \in Proxies => External[p] \in up \cup {NoProxy}
  BY Zenon DEF StartOrder
<1>1. p \in Nodes /\ p \notin Externals
  BY GraphLemma, ExecutorAssumption, Zenon
<1>2. task[p] # "none"
  BY Zenon DEF ExecutorInv, OrderInv, Untouched
<1>3. \A m \in Graph[p] : Available(m)
  <2>1. NotDone(p) = {}
    BY <1>1, <1>2, Zenon DEF ExecutorInv, OrderInv
  <2>2. \A m \in Graph[p] : m \in Nodes /\ npred[m] = NODE_DONE
    BY <1>1, <2>1, GraphLemma, Zenon DEF NotDone
  <2>3. QED
    BY <2>2, Zenon DEF ExecutorInv, OrderInv
<1>4. Graph[p] = Dependencies(p)
  BY <1>1, GraphLemma, Zenon DEF Graph
<1>5. ASSUME NEW e \in Ends, Owner(e) = p, e[2] = "con" PROVE conn[Peer(e)] # "Closed"
  <2>1. /\ Peer(e) \in Ends /\ Peer(e)[2] = "lis" /\ Owner(Peer(e)) \in Procs \ {p}
    BY <1>5, PeerLemma, OwnerLemma, HandshakeAssumption, Zenon
  <2>2. Owner(Peer(e)) \in Graph[p]
    BY <1>1, <1>4, <1>5, <2>1, Zenon DEF Dependencies
  <2>3. QED
    BY <1>3, <2>1, <2>2, Zenon DEF Available, SocketsExist
<1>6. p \in Proxies => External[p] \in up \cup {NoProxy}
  <2> SUFFICES ASSUME p \in Proxies, External[p] # NoProxy PROVE External[p] \in up
    BY Zenon
  <2>1. External[p] \in Externals /\ External[p] \in Graph[p]
    BY <1>1, <1>4, Zenon DEF Dependencies, Externals
  <2>2. QED
    BY <1>3, <2>1, Zenon DEF Available
<1>7. QED
  BY <1>5, <1>6, Zenon

\* The invariants imply that no process is left behind.
LEMMA EndSafe == ExecutorInv => NothingLeft
<1> SUFFICES ASSUME ExecutorInv PROVE NothingLeft
  BY Zenon
<1>1. ASSUME main = "returned", NEW p \in Procs PROVE phase[p] = "Off" \/ Gone(p)
  <2>1. p \in Nodes /\ Unfinished = {}
    BY <1>1, GraphLemma, Zenon DEF ExecutorInv, EndInv
  <2>2. task[p] # "launching"
    BY <2>1, Zenon DEF Unfinished, Finished
  <2>3. QED
    BY <1>1, <2>2, Zenon DEF ExecutorInv, EndInv, Kept
<1>2. QED
  BY <1>1, Zenon DEF NothingLeft, ExecutorInv, EndInv, SomeRaised, LostAProxy

\* ChannelInv and ExecutorInv hold in every run of the executor.
THEOREM StartupInvariant == Spec => [](ChannelInv /\ ExecutorInv)
<1>1. Init => ChannelInv /\ ExecutorInv
  BY ChannelInit, ExecutorInit, Zenon DEF Init
<1>2. ChannelInv /\ ExecutorInv /\ [Next]_vars => (ChannelInv /\ ExecutorInv)'
  BY ChannelStep, ExecutorStep, Zenon
<1>3. QED
  BY <1>1, <1>2, PTL DEF Spec

\* Nobody is started before those it connects to can be connected to.
THEOREM StartupOrder == Spec => []StartOrder
BY StartupInvariant, OrderSafe, PTL

\* When run() returns nothing is left running, and it ends with CancelledError only
\* after a start task has failed, or when it was cancelled while a proxy was being
\* launched and another start task was cancelled with that one.
THEOREM StartupNothingLeft == Spec => []NothingLeft
BY StartupInvariant, EndSafe, PTL

=============================================================================
