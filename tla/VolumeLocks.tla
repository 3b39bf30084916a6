---------------------------- MODULE VolumeLocks ----------------------------
(***************************************************************************)
(* The in-memory lock table of pkg/common/idlocker.go: a set of strings    *)
(* behind a mutex, so TryAcquire and Release are atomic.  Both gRPC        *)
(* servers own one table each.  The operators take the set and return the  *)
(* new one; the servers keep the set in their variable volumeLocks.        *)
(***************************************************************************)

\* NewVolumeLocks: the empty table of a freshly started process.
NewVolumeLocks == {}

\* Mutant: TryAcquire without the Has check.
TryAcquireUnchecked(locks, id) == TRUE

\* The boolean TryAcquire returns.
TryAcquire(locks, id) == id \notin locks

\* The table after a successful TryAcquire.
Acquired(locks, id) == locks \cup {id}

\* The table after Release.  Release does not ask who holds the lock.
Release(locks, id) == locks \ {id}
=============================================================================
