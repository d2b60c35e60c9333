----------------------------- MODULE LockManager -----------------------------
(***************************************************************************)
(* The Redis lock that the pollers of all hub processes compete for, those *)
(* of a schedule for one lock and those of the recurring messages for      *)
(* another (lib/middlewares/lock_manager.js on redlock): a key with a      *)
(* token of its owner and a TTL of 60 s.                                   *)
(*                                                                         *)
(* The token is the name of the poller: a poller cannot take the lock a    *)
(* second time before its run has ended, so the name identifies the        *)
(* acquisition as redlock's random value does.                             *)
(***************************************************************************)
CONSTANTS
    Pollers,  \* interval timers of the hub processes; one may have several runs
    Free      \* the lock's key is absent from Redis

ASSUME FreeAssumption == Free \notin Pollers

VARIABLE lock  \* the owner of the lock, or Free

LockTypeOK == lock \in Pollers \cup {Free}
LockInit == lock = Free

\* Mutant: the key is set whether it exists or not.
TryAcquireAlways(p) == lock' = p

\* SET NX PX: succeeds only while the key is absent; any failure is "no lock".
TryAcquire(p) == lock = Free /\ lock' = p

\* Mutant: the key is deleted without looking at the token.
ReleaseAnyLock(p) == p \in Pollers /\ lock' = Free

(* External: redlock's unlock script, which unlock() runs in Redis, deletes*)
(* the key only if it still holds the caller's token; if the lease has     *)
(* ended meanwhile it reports an error, which ends the caller's run all    *)
(* the same.                                                               *)
ReleaseLock(p) == lock' = IF lock = p THEN Free ELSE lock

\* Mutant: the key has no TTL.
LeaseNeverEnds == FALSE

\* The TTL of a lock nobody works under any more has run out.
LeaseEnds == lock # Free /\ lock' = Free

=============================================================================
