--------------------------- MODULE MCLockService ---------------------------
(* Three clients and one key: who is next when leases run out and holders   *)
(* release or renew in any order.                                           *)
EXTENDS LockService, TLC

CONSTANTS a, b, c

MCClients == {a, b, c}
MCRenew == {a, c}
MCLease == (a :> 1 @@ b :> 0 @@ c :> 2)
=============================================================================
