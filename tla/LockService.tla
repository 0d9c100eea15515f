---------------------------- MODULE LockService ----------------------------
(***************************************************************************)
(* One LockManager and its clients over reliable FIFO channels.  Messages  *)
(* about different keys never influence one another at either end, so each *)
(* pair of client and key has a channel of its own.                        *)
(*                                                                         *)
(* Time is relative: the code only adds leases to the current time and     *)
(* compares, so the current time is the constant Now and a tick makes      *)
(* every expiry time one smaller.  No bound on time is needed.             *)
(*                                                                         *)
(* The clients are the guest programs of the disk images, known here by    *)
(* the messages of lock_proto.h: a client holds the lock from GRANT to its *)
(* RELEASE, a TIMEOUT or the expiry time, and has one ACQUIRE in flight.   *)
(***************************************************************************)
EXTENDS LockManager

CONSTANTS Lease,   \* Lease[c]: lease_duration_ns c asks for, 0 for the default
          Now,     \* the current time
          Renew,   \* the clients that may send ACQUIRE again while they hold the lock
          Retry    \* clients may send ACQUIRE again after a DENY

ASSUME ClientAssumption ==
  /\ Lease \in [Clients -> Nat] /\ Now \in Nat \ {0}
  /\ Renew \subseteq Clients /\ Retry \in BOOLEAN

VARIABLES req,     \* req[c, k]: ACQUIRE and RELEASE messages under way
          resp,    \* resp[c, k]: answers under way
          view,    \* view[c, k]: expiry of the lease c thinks it has, 0 for none
          asked,   \* asked[c, k]: an ACQUIRE has not been answered yet
          waits    \* waits[c, k]: c was denied and counts on being queued

cvars == <<view, asked, waits>>
vars == <<keys, req, resp, cvars>>

Pairs == Clients \X Keys

Init == /\ KeysInit
        /\ req = [p \in Pairs |-> << >>] /\ resp = [p \in Pairs |-> << >>]
        /\ view = [p \in Pairs |-> 0]
        /\ asked = [p \in Pairs |-> FALSE] /\ waits = [p \in Pairs |-> FALSE]

-----------------------------------------------------------------------------
(* Clients. *)

SendAcquire(c, k) ==
  LET p == <<c, k>> IN
  /\ ~asked[p]
  /\ IF view[p] = 0 THEN waits[p] => Retry ELSE c \in Renew
  /\ req' = [req EXCEPT ![p] = Append(@, "ACQUIRE")]
  /\ asked' = [asked EXCEPT ![p] = TRUE]
  /\ UNCHANGED <<keys, resp, view, waits>>

SendRelease(c, k) ==
  LET p == <<c, k>> IN
  /\ view[p] # 0 /\ ~asked[p]
  /\ req' = [req EXCEPT ![p] = Append(@, "RELEASE")]
  /\ view' = [view EXCEPT ![p] = 0]
  /\ UNCHANGED <<keys, resp, asked, waits>>

Receive(c, k) ==
  LET p == <<c, k>>
      m == Head(resp[p]) IN
  /\ resp[p] # << >>
  /\ resp' = [resp EXCEPT ![p] = Tail(@)]
  /\ view' = [view EXCEPT ![p] = m.expiry]
  /\ asked' = [asked EXCEPT ![p] = m.type = "TIMEOUT" /\ @]
  /\ waits' = [waits EXCEPT ![p] = m.type = "DENY" \/ (m.type = "TIMEOUT" /\ @)]
  /\ UNCHANGED <<keys, req>>

-----------------------------------------------------------------------------
(* The manager: HandleMessage, and CheckTimeouts as driven by the caller. *)

HandleAcquire(c, k) ==
  LET p == <<c, k>> IN
  /\ req[p] # << >> /\ Head(req[p]) = "ACQUIRE"
  /\ req' = [req EXCEPT ![p] = Tail(@)]
  /\ Acquire(k, c, Lease[c], Now)
  /\ resp' = [resp EXCEPT ![p] = @ \o AcquireOut(k, c, Lease[c], Now)]
  /\ UNCHANGED cvars

HandleRelease(c, k) ==
  LET p == <<c, k>> IN
  /\ req[p] # << >> /\ Head(req[p]) = "RELEASE"
  /\ req' = [req EXCEPT ![p] = Tail(@)]
  /\ Release(k, c, Now)
  /\ resp' = [q \in Pairs |-> IF q[2] = k THEN resp[q] \o ReleaseOut(k, c, q[1], Now) ELSE resp[q]]
  /\ UNCHANGED cvars

Timer ==
  /\ \E k \in Keys : Expired(k, Now)
  /\ CheckTimeouts(Now)
  /\ resp' = [q \in Pairs |-> resp[q] \o TimeoutOut(q[2], q[1], Now)]
  /\ UNCHANGED <<req, cvars>>

\* Expiry times in the past need not be told apart.
Older(e) == IF e > 1 THEN e - 1 ELSE e
Tick ==
  /\ keys' = [k \in Keys |-> [keys[k] EXCEPT !.expiry = Older(@)]]
  /\ resp' = [p \in Pairs |-> [i \in DOMAIN resp[p] |-> [resp[p][i] EXCEPT !.expiry = Older(@)]]]
  /\ view' = [p \in Pairs |-> Older(view[p])]
  /\ UNCHANGED <<req, asked, waits>>

Client(c, k) == SendAcquire(c, k) \/ SendRelease(c, k) \/ Receive(c, k)
Serve(c, k) == HandleAcquire(c, k) \/ HandleRelease(c, k)

Next == \/ \E c \in Clients, k \in Keys : Client(c, k) \/ Serve(c, k)
        \/ Timer \/ Tick

Spec == Init /\ [][Next]_vars

\* Messages are delivered and handled.  Nothing else is promised: no code calls
\* CheckTimeouts, and clients need not release.
FairSpec == /\ Spec
            /\ \A c \in Clients, k \in Keys : WF_vars(Serve(c, k)) /\ WF_vars(Receive(c, k))

-----------------------------------------------------------------------------
(* Properties. *)

Answer == [type : {"GRANT", "DENY", "TIMEOUT"}, expiry : Nat]

\* Types: the entries of the table are those of KeyState, expiry times and
\* clients' views are never negative.
TypeOK == /\ keys \in [Keys -> KeyState]
          /\ req \in [Pairs -> Seq({"ACQUIRE", "RELEASE"})]
          /\ resp \in [Pairs -> Seq(Answer)]
          /\ view \in [Pairs -> Nat]
          /\ asked \in [Pairs -> BOOLEAN] /\ waits \in [Pairs -> BOOLEAN]

\* lock_state.h: "per-key mutual-exclusion".  Two clients never both have a
\* lease on a key that they were granted, have not released and that runs on.
MutualExclusion ==
  \A k \in Keys, c, d \in Clients : view[<<c, k>>] > Now /\ view[<<d, k>>] > Now => c = d

\* A lease the client counts on is one the manager honours at least as long,
\* also when the GRANT is still under way.
LeaseHonoured ==
  \A c \in Clients, k \in Keys :
    \A e \in {view[<<c, k>>]} \cup {resp[<<c, k>>][i].expiry : i \in DOMAIN resp[<<c, k>>]} :
       e > Now => IsHolder(k, c) /\ keys[k].expiry >= e

\* Waiters are served in the order in which they were queued: nobody is
\* overtaken and nobody leaves the queue but by being granted the lock.
Before(k, c, d) ==
  \/ IsHolder(k, c) /\ IsWaiting(k, d)
  \/ \E i, j \in DOMAIN keys[k].waiters :
       i < j /\ keys[k].waiters[i].id = c /\ keys[k].waiters[j].id = d
NoOvertaking ==
  [][\A k \in Keys, c, d \in Clients :
       Before(k, c, d) /\ IsWaiting(k, c) => Before(k, c, d)']_vars

\* Why that is so, as an inductive invariant.  Quiet: nothing is coming to the
\* client but perhaps a TIMEOUT.  A client with requests under way, or one that
\* is free to send some, is quiet; and a GRANT is the last word to a client.
Quiet(p) == /\ ~IsWaiting(p[2], p[1])
            /\ \A i \in DOMAIN resp[p] : resp[p][i].type = "TIMEOUT"
Has(p, m) == \E i \in DOMAIN req[p] : req[p][i] = m
RequestInv(p) ==
  /\ Has(p, "RELEASE") => Quiet(p) /\ view[p] = 0
  /\ Has(p, "ACQUIRE") => Quiet(p) /\ asked[p]
  /\ \A i \in DOMAIN req[p] : req[p][i] = "ACQUIRE" => i = Len(req[p])
  /\ ~asked[p] /\ (view[p] # 0 \/ ~waits[p]) => Quiet(p)
AnswerInv(p) ==
  \A i \in DOMAIN resp[p] :
    IF resp[p][i].type = "GRANT"
    THEN /\ ~IsWaiting(p[2], p[1])
         /\ \A j \in DOMAIN resp[p] : j > i => resp[p][j].type = "TIMEOUT"
    ELSE resp[p][i].expiry = 0
EntryInv(k) ==
  LET w == keys[k].waiters IN
  /\ IsFree(k) => w = << >>
  /\ \A i \in DOMAIN w : w[i].id # keys[k].holder /\ w[i].lease = LeaseOf(Lease[w[i].id])
  /\ \A i, j \in DOMAIN w : w[i].id = w[j].id => i = j
  /\ \A c \in Clients : IsHolder(k, c) => keys[k].expiry <= Now + LeaseOf(Lease[c])
LockInv == /\ \A p \in Pairs : RequestInv(p) /\ AnswerInv(p)
           /\ \A k \in Keys : EntryInv(k)
           /\ LeaseHonoured

\* A client that was denied is queued, holds the lock by now, or finds the news
\* among the answers under way.  Needs room for everybody in the queue: the
\* DENY of a full queue reads like any other.
NotForgotten ==
  \A c \in Clients, k \in Keys : waits[<<c, k>>] =>
     IsWaiting(k, c) \/ IsHolder(k, c) \/ resp[<<c, k>>] # << >>

\* With that room, every ACQUIRE is granted in the end, unless some client keeps
\* the lock for ever, that is, never releases it and is never timed out: no
\* waiter is passed over or stranded by the order of requests, releases,
\* renewals and timeouts, whether or not CheckTimeouts is ever called.
KeepsLock(d, k) == view[<<d, k>>] # 0
EventuallyGranted ==
  \A k \in Keys :
    \/ \A c \in Clients : asked[<<c, k>>] ~> view[<<c, k>>] # 0
    \/ \E d \in Clients : <>[]KeepsLock(d, k)

=============================================================================
