------------------------------ MODULE Handshake ------------------------------
(***************************************************************************)
(* How simulator processes set up their channels: Listen and Connect, and  *)
(* SimBricksBaseIfEstablish, which drives all interfaces of a process      *)
(* through accept, intro exchange and queue set-up.                        *)
(*                                                                         *)
(* A channel l has a listening end <<l, "lis">> and a connecting end       *)
(* <<l, "con">>.  A process that is started (by SimulationExecutor) leaves *)
(* phase "Off".  The end of a process closes its connections; what it has  *)
(* sent before can still be read, and the socket files stay behind.        *)
(***************************************************************************)
EXTENDS Integers, Sequences, FiniteSetsExt

CONSTANTS Procs,       \* simulator processes
          Ifs,         \* Ifs[p]: the ends of p in the order it handles them
          Blocking,    \* processes with blocking_conn
          Setups       \* the configurations to consider, which say for each end e and
                       \* process p: par[e], the parameters of e; pool[p], the size of
                       \* p's shared-memory pool; broken, the processes without a
                       \* program; silent, the external proxies that do not come up

Ends == UNION {{Ifs[p][i] : i \in DOMAIN Ifs[p]} : p \in Procs}
OwnerOf == [e \in Ends |-> CHOOSE p \in Procs : \E i \in DOMAIN Ifs[p] : Ifs[p][i] = e]
Owner(e) == OwnerOf[e]
Peer(e) == <<e[1], IF e[2] = "lis" THEN "con" ELSE "lis">>

\* An end belongs to one process, which handles it once; every channel has two ends,
\* at two processes; queue shapes are <<entry size, number of entries>>, neither of
\* them 0: positions in a queue are taken modulo the number of its entries.
PosNat == Nat \ {0}
ASSUME HandshakeAssumption ==
  /\ \A p \in Procs : Len(Ifs[p]) \in PosNat /\ DOMAIN Ifs[p] = 1 .. Len(Ifs[p])
  /\ \A p, q \in Procs : \A i \in DOMAIN Ifs[p], j \in DOMAIN Ifs[q] :
       Ifs[p][i] = Ifs[q][j] => p = q /\ i = j
  /\ \A e \in Ends : /\ e = <<e[1], e[2]>> /\ e[2] \in {"lis", "con"}
                     /\ Peer(e) \in Ends /\ Owner(Peer(e)) # Owner(e)
  /\ \A s \in Setups, e \in Ends : /\ s.par[e].mode \in {"Disabled", "Optional", "Required"}
                                   /\ s.par[e].in \in PosNat \X PosNat
                                   /\ s.par[e].out \in PosNat \X PosNat
  /\ \A s \in Setups : s.pool \in [Procs -> Nat]
  /\ Blocking \subseteq Procs

VARIABLES setup,   \* the configuration
          phase,   \* phase[p]: "Off", "Setup", "Establish", "Running", "Failed" or "Exited"
          at,      \* at[p]: index of the interface p is at, during set-up or with blocking_conn
          pos,     \* pos[p]: pool->pos
          conn,    \* conn[e]: conn_state
          sync,    \* sync[e]
          in, out, \* in[e], out[e]: queue of e, as [off, shape]
          intro    \* intro[e]: e's intro is on its way to the peer

endpoints == <<setup, at, pos, conn, sync, in, out, intro>>

NoQueue == [off |-> 0, shape |-> <<0, 0>>]
Size(shape) == shape[1] * shape[2]

par == setup.par

HandshakeInit ==
        /\ setup \in Setups
        /\ phase = [p \in Procs |-> "Off"] /\ at = [p \in Procs |-> 1] /\ pos = [p \in Procs |-> 0]
        /\ conn = [e \in Ends |-> "Closed"] /\ sync = [e \in Ends |-> FALSE]
        /\ in = [e \in Ends |-> NoQueue] /\ out = [e \in Ends |-> NoQueue]
        /\ intro = [e \in Ends |-> FALSE]

-----------------------------------------------------------------------------
(* Mutants. *)

AcceptableAny(e) == par[Peer(e)].proto = par[e].proto
ConnectedFirstOnly(e) == conn[e]

-----------------------------------------------------------------------------
(* Setting up the sockets. *)

Current(p) == Ifs[p][at[p]]

Gone(p) == phase[p] \in {"Failed", "Exited"}

\* p fails: its Establish, Listen or Connect returns -1 and the process ends.
Fail(p) == /\ phase' = [phase EXCEPT ![p] = "Failed"]
           /\ UNCHANGED endpoints

NextPhase(p) == IF at[p] < Len(Ifs[p]) THEN phase[p] ELSE "Establish"
Advance(p) == /\ at' = [at EXCEPT ![p] = IF @ < Len(Ifs[p]) THEN @ + 1 ELSE 1]
              /\ phase' = [phase EXCEPT ![p] = NextPhase(p)]

\* The connection of the peer is in the backlog.
Pending(e) == conn[Peer(e)] # "Closed"

\* Both queues of the channel are laid out in the pool, in before out.
OutOffset(p, e) == pos[p] + Size(par[e].in)
PoolFits(p, e) == pos[p] + Size(par[e].in) + Size(par[e].out) <= setup.pool[p]

\* SimbricksBaseIfListen; with blocking_conn its accept is a step of its own.
Listen(p) ==
  LET e == Current(p) IN
  /\ phase[p] = "Setup" /\ e[2] = "lis" /\ conn[e] = "Closed"
  /\ \/ ~PoolFits(p, e) /\ Fail(p)
     \/ /\ PoolFits(p, e)
        /\ in' = [in EXCEPT ![e] = [off |-> pos[p], shape |-> par[e].in]]
        /\ out' = [out EXCEPT ![e] = [off |-> OutOffset(p, e), shape |-> par[e].out]]
        /\ pos' = [pos EXCEPT ![p] = @ + Size(par[e].in) + Size(par[e].out)]
        /\ conn' = [conn EXCEPT ![e] = "Listening"]
        /\ IF p \in Blocking THEN UNCHANGED <<at, phase>> ELSE Advance(p)
        /\ UNCHANGED <<setup, sync, intro>>

BlockingAccept(p) ==
  LET e == Current(p) IN
  /\ phase[p] = "Setup" /\ p \in Blocking /\ e[2] = "lis" /\ conn[e] = "Listening" /\ Pending(e)
  /\ conn' = [conn EXCEPT ![e] = "RxTx"]
  /\ Advance(p)
  /\ UNCHANGED <<setup, pos, sync, in, out, intro>>

\* SimbricksBaseIfConnect; refused when there is no socket or the listener has gone.
Refused(e) == conn[Peer(e)] = "Closed" \/ Gone(Owner(Peer(e)))
Connect(p) ==
  LET e == Current(p) IN
  /\ phase[p] = "Setup" /\ e[2] = "con"
  /\ \/ Refused(e) /\ Fail(p)
     \/ /\ ~Refused(e)
        /\ conn' = [conn EXCEPT ![e] = "RxTx"]
        /\ Advance(p)
        /\ UNCHANGED <<setup, pos, sync, in, out, intro>>

-----------------------------------------------------------------------------
(* SimBricksBaseIfEstablish: its loop goes over all interfaces until they are open. *)

\* SimbricksBaseIfConnected: accepts a pending connection.
Connected(e) == IF conn[e] = "Listening" /\ Pending(e) THEN "RxTx" ELSE conn[e]

\* IntroSend is due, and fails when the peer has gone.
Sends(e) == Connected(e) = "RxTx"
SendFails(e) == Sends(e) /\ Gone(Owner(Peer(e)))

\* Establish sends before it receives, so it never waits to send only.
AfterSend(e) == IF Sends(e) THEN "Rx" ELSE Connected(e)

\* IntroRecv finds an intro, or end of file from a peer that is gone.
Receives(e) == AfterSend(e) = "Rx" /\ intro[Peer(e)]
Eof(e) == AfterSend(e) = "Rx" /\ ~intro[Peer(e)] /\ Gone(Owner(Peer(e)))

\* The flags of e's intro.
Flags(e) == [sync |-> par[e].mode # "Disabled", force |-> par[e].mode = "Required"]

\* What IntroRecv makes of the peer's protocol and flags.
Acceptable(e) ==
  LET f == Flags(Peer(e)) IN
  /\ par[Peer(e)].proto = par[e].proto
  /\ ~(f.force /\ par[e].mode = "Disabled")
  /\ ~(~f.sync /\ ~f.force /\ par[e].mode = "Required")
SyncOf(e) == par[e].mode # "Disabled" /\ (Flags(Peer(e)).sync \/ Flags(Peer(e)).force)

\* The queues of a connecting end, from the offsets in the listener's intro.
ConnecterIn(e) == out[Peer(e)]
ConnecterOut(e) == in[Peer(e)]

\* Establish gives up on e.
Rejected(e) == SendFails(e) \/ Eof(e) \/ (Receives(e) /\ ~Acceptable(e))

\* The interfaces of p that a turn of the loop may be about: those with something
\* to do.  With blocking_conn recvmsg waits for the intro of the current interface.
Due(e) == Sends(e) \/ Receives(e) \/ Rejected(e)
Turns(p) == {e \in Ends : /\ Owner(e) = p /\ Due(e)
                          /\ p \in Blocking => e = Current(p)}

\* All interfaces of p are open, e with the state it is about to enter.
AllOpen(p, e, state) ==
  \A i \in DOMAIN Ifs[p] : (IF Ifs[p][i] = e THEN state ELSE conn[Ifs[p][i]]) = "Open"

\* A turn about interface e; the turns that find nothing to do are left out.
Turn(p, e) ==
  LET state == IF Receives(e) THEN "Open" ELSE AfterSend(e) IN
  \/ Rejected(e) /\ Fail(p)
  \/ /\ ~Rejected(e)
     /\ conn' = [conn EXCEPT ![e] = state]
     /\ intro' = [x \in Ends |-> (intro[x] \/ (x = e /\ Sends(e))) /\ ~(x = Peer(e) /\ Receives(e))]
     /\ sync' = [sync EXCEPT ![e] = IF Receives(e) THEN SyncOf(e) ELSE @]
     /\ in' = [in EXCEPT ![e] = IF Receives(e) /\ e[2] = "con" THEN ConnecterIn(e) ELSE @]
     /\ out' = [out EXCEPT ![e] = IF Receives(e) /\ e[2] = "con" THEN ConnecterOut(e) ELSE @]
     /\ at' = [at EXCEPT ![p] = IF p \in Blocking /\ state = "Open" /\ @ < Len(Ifs[p]) THEN @ + 1 ELSE @]
     /\ phase' = [phase EXCEPT ![p] = IF AllOpen(p, e, state) THEN "Running" ELSE @]
     /\ UNCHANGED <<setup, pos>>

Establish(p) == phase[p] = "Establish" /\ \E e \in Turns(p) : Turn(p, e)

Step(p) == Listen(p) \/ BlockingAccept(p) \/ Connect(p) \/ Establish(p)

-----------------------------------------------------------------------------
(* Properties. *)

Open(e) == conn[e] = "Open"
Compatible(e) == /\ par[e].proto = par[Peer(e)].proto
                 /\ ~(par[e].mode = "Required" /\ par[Peer(e)].mode = "Disabled")
                 /\ ~(par[e].mode = "Disabled" /\ par[Peer(e)].mode = "Required")

Cells(q) == q.off .. q.off + Size(q.shape) - 1

\* Both ends of an open channel came to the same conclusion on synchronisation,
\* each from its own mode and the flags of the peer's intro; were they to differ,
\* one side would wait for sync messages that never come.  What one end sends into
\* the other reads from.  No end of a channel with incompatible parameters ever
\* opens: both sides notice (IntroRecv), neither starts to simulate on its own.
\* And the queues a process lays out lie in its pool and do not overlap (Listen).
ChannelsSound ==
  /\ \A e \in Ends : /\ Open(e) /\ Open(Peer(e)) =>
                         sync[e] = sync[Peer(e)] /\ in[e] = out[Peer(e)] /\ in[e] # out[e]
                     /\ ~Compatible(e) => ~Open(e)
  /\ \A e, f \in Ends : Owner(e) = Owner(f) /\ e[2] = "lis" /\ f[2] = "lis" =>
       /\ e # f => (Cells(in[e]) \cup Cells(out[e])) \cap (Cells(in[f]) \cup Cells(out[f])) = {}
       /\ Cells(in[e]) \cap Cells(out[e]) = {}
       /\ Cells(in[e]) \cup Cells(out[e]) \subseteq 0 .. setup.pool[Owner(e)] - 1

\* The pool of p has room for all queues p lays out.
Fits(p) == MapThenSumSet(LAMBDA e : Size(par[e].in) + Size(par[e].out),
                         {e \in Ends : Owner(e) = p /\ e[2] = "lis"}) <= setup.pool[p]

=============================================================================
