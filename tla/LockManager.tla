---------------------------- MODULE LockManager ----------------------------
(***************************************************************************)
(* lock::LockManager: a table of per-key mutexes with leases and a bounded *)
(* queue of waiters per key.  The table is shared code of all tiers: the   *)
(* switch runs it without queues (MaxWaiters = 0), the DPU with queues.    *)
(* This module is the table alone; LockService adds clients and a network  *)
(* and HcopLock puts two tables behind one another.                        *)
(***************************************************************************)
EXTENDS Integers, Sequences, FiniteSets

CONSTANTS Clients,       \* requester ids
          kFree,         \* 0xFF, the holder_id of a free key
          Keys,
          MaxKeys,       \* max_keys_
          MaxWaiters,    \* max_waiters_per_key_
          DefaultLease   \* default_lease_ns_

ASSUME TableAssumption ==
  /\ MaxKeys \in Nat /\ MaxWaiters \in Nat /\ DefaultLease \in Nat \ {0}
  /\ IsFiniteSet(Keys) /\ kFree \notin Clients

VARIABLE keys   \* keys[k]: keys_[k]; NoKey, its default, when there is no entry

Waiter == [id : Clients, lease : Nat]
KeyState == [holder : Clients \cup {kFree}, expiry : Nat, waiters : Seq(Waiter)]
NoKey == [holder |-> kFree, expiry |-> 0, waiters |-> << >>]

KeysInit == keys = [k \in Keys |-> NoKey]

\* Entries are made by Acquire and dropped by MaybeRemoveKey, so between two
\* calls the map holds exactly the keys that somebody holds.
IsFree(k) == keys[k].holder = kFree
Tracked == {k \in Keys : ~IsFree(k)}
IsHolder(k, c) == keys[k].holder = c
IsWaiting(k, c) == \E i \in DOMAIN keys[k].waiters : keys[k].waiters[i].id = c

Grant(e) == [type |-> "GRANT", expiry |-> e]
Deny == [type |-> "DENY", expiry |-> 0]
Timeout == [type |-> "TIMEOUT", expiry |-> 0]

-----------------------------------------------------------------------------
(* Mutants: the bugs the properties of LockService and HcopLock would show. *)

HandOnLast(k, now) ==
  LET w == keys[k].waiters IN
  IF w = << >> THEN NoKey
  ELSE [holder |-> w[Len(w)].id, expiry |-> now + w[Len(w)].lease,
        waiters |-> SubSeq(w, 1, Len(w) - 1)]
HandOnClears(k, now) ==
  LET w == keys[k].waiters IN
  IF w = << >> THEN NoKey
  ELSE [holder |-> Head(w).id, expiry |-> now + Head(w).lease, waiters |-> << >>]
HandOnKeepsKey(k, now) ==
  LET w == keys[k].waiters IN
  IF w = << >> THEN [keys[k] EXCEPT !.expiry = 0]
  ELSE [holder |-> Head(w).id, expiry |-> now + Head(w).lease, waiters |-> Tail(w)]
ReleaseByAnyone(k, c, now) == keys' = [keys EXCEPT ![k] = HandOnClears(k, now)]
ExpiredEarly(k, now) == ~IsFree(k) /\ now + 1 >= keys[k].expiry

-----------------------------------------------------------------------------
(* Acquire. *)

LeaseOf(lease) == IF lease = 0 THEN DefaultLease ELSE lease

\* GetOrCreateKey fails.
Overflow(k) == IsFree(k) /\ Cardinality(Tracked) >= MaxKeys

\* MaxWaiters = 0 is a queue that is always full.
AcquireStatus(k, c) ==
  CASE Overflow(k) -> "KeyOverflow"
    [] ~Overflow(k) /\ (IsFree(k) \/ IsHolder(k, c)) -> "Granted"
    [] ~IsFree(k) /\ ~IsHolder(k, c) /\ Len(keys[k].waiters) >= MaxWaiters -> "Contention"
    [] OTHER -> "Denied"

\* GrantLock on a free key, or the lease refreshed for the holder.
GrantLock(k, c, lease, now) ==
  keys' = [keys EXCEPT ![k] =
             [holder |-> c, expiry |-> now + LeaseOf(lease), waiters |-> keys[k].waiters]]

Enqueue(k, c, lease) ==
  keys' = IF IsWaiting(k, c) THEN keys
          ELSE [keys EXCEPT ![k].waiters = Append(@, [id |-> c, lease |-> LeaseOf(lease)])]

Acquire(k, c, lease, now) ==
  CASE AcquireStatus(k, c) = "Granted" -> GrantLock(k, c, lease, now)
    [] AcquireStatus(k, c) = "Denied"  -> Enqueue(k, c, lease)
    [] OTHER -> UNCHANGED keys

\* What Acquire sends back to the requester.
AcquireOut(k, c, lease, now) ==
  CASE AcquireStatus(k, c) = "Granted" -> <<Grant(now + LeaseOf(lease))>>
    [] AcquireStatus(k, c) = "KeyOverflow" -> << >>
    [] OTHER -> <<Deny>>

-----------------------------------------------------------------------------
(* Release and lease expiry. *)

\* The entry after the holder is gone: GrantNextWaiter or MaybeRemoveKey.
HandOn(k, now) ==
  LET w == keys[k].waiters IN
  IF w = << >> THEN NoKey
  ELSE [holder |-> Head(w).id, expiry |-> now + Head(w).lease, waiters |-> Tail(w)]

ReleaseStatus(k, c) == IF IsHolder(k, c) THEN "Ok" ELSE "NotHeld"

Release(k, c, now) ==
  keys' = IF IsHolder(k, c) THEN [keys EXCEPT ![k] = HandOn(k, now)] ELSE keys

\* The client that gets a GRANT because the holder of k is gone, if any.
IsNext(k, d) == keys[k].waiters # << >> /\ Head(keys[k].waiters).id = d

ReleaseOut(k, c, d, now) ==
  IF IsHolder(k, c) /\ IsNext(k, d) THEN <<Grant(now + Head(keys[k].waiters).lease)>> ELSE << >>

Expired(k, now) == ~IsFree(k) /\ keys[k].expiry > 0 /\ now >= keys[k].expiry

CheckTimeouts(now) ==
  keys' = [k \in Keys |-> IF Expired(k, now) THEN HandOn(k, now) ELSE keys[k]]

\* What CheckTimeouts sends to d because of k: TIMEOUT before GRANT.
TimeoutOut(k, d, now) ==
  IF ~Expired(k, now) THEN << >>
  ELSE (IF IsHolder(k, d) THEN <<Timeout>> ELSE << >>)
       \o (IF IsNext(k, d) THEN <<Grant(now + Head(keys[k].waiters).lease)>> ELSE << >>)

=============================================================================
