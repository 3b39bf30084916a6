--------------------------- MODULE OperationLock ---------------------------
(***************************************************************************)
(* The counting lock of pkg/common/idlocker.go: one counter per operation  *)
(* and volume id, behind a mutex, so that tryAcquire and release are       *)
(* atomic.  No handler of the driver uses it yet; the callers here take a  *)
(* lock, do their work and give it back, as its comments ask.              *)
(***************************************************************************)
EXTENDS Integers, FiniteSets

CONSTANTS
    Callers,  \* goroutines (a bound)
    VolumeIDs,
    NoLock

Operations == {"create", "delete", "clone", "restore", "expand"}

ASSUME OperationLockAssumption ==
    /\ IsFiniteSet(Callers)
    /\ NoLock \notin Operations \X VolumeIDs

VARIABLES
    locks,  \* OperationLock.locks; 0 is an absent key
    held    \* the operation each caller is in

vars == <<locks, held>>

Init ==
    /\ locks = [op \in Operations |-> [id \in VolumeIDs |-> 0]]
    /\ held = [c \in Callers |-> NoLock]

\* Mutant: deleteOp does not look for a running restore.
BlockersWithoutRestore(op) ==
    CASE op \in {"create", "restore"} -> {"delete"}
      [] op = "clone" -> {"delete", "expand"}
      [] op = "delete" -> {"expand", "clone", "create"}
      [] op = "expand" -> {"delete", "clone", "create"}

\* The operations that tryAcquire looks for before it lets op in.
Blockers(op) ==
    CASE op \in {"create", "restore"} -> {"delete"}
      [] op = "clone" -> {"delete", "expand"}
      [] op = "delete" -> {"expand", "clone", "create", "restore"}
      [] op = "expand" -> {"delete", "clone", "create"}

\* Mutant: no operation is counted, every one sets its counter to 1.
AcquiredCountOne(op, id) == 1

\* The counter after a successful tryAcquire: parallel creations, clones and
\* restores are counted, a deletion or an expansion sets it to 1.
AcquiredCount(op, id) ==
    IF op \in {"delete", "expand"} THEN 1 ELSE locks[op][id] + 1

\* tryAcquire without an error; with one it changes nothing.
tryAcquire(c, op, id) ==
    /\ held[c] = NoLock
    /\ \A b \in Blockers(op) : locks[b][id] = 0
    /\ locks' = [locks EXCEPT ![op][id] = AcquiredCount(op, id)]
    /\ held' = [held EXCEPT ![c] = <<op, id>>]

\* release: the counter goes down, an absent key stays absent.
release(c) ==
    /\ held[c] # NoLock
    /\ LET op == held[c][1]
           id == held[c][2]
       IN  locks' = [locks EXCEPT ![op][id] = IF @ > 0 THEN @ - 1 ELSE 0]
    /\ held' = [held EXCEPT ![c] = NoLock]

Next ==
    \E c \in Callers :
        \/ \E op \in Operations, id \in VolumeIDs : tryAcquire(c, op, id)
        \/ release(c)

Spec == Init /\ [][Next]_vars
-----------------------------------------------------------------------------

InOperation(op, id) == {c \in Callers : held[c] = <<op, id>>}

\* The counters of the operations that may run in parallel are the numbers
\* of callers inside, whatever callers do with the other two: no release
\* frees the lock of an operation that is still running.
CountsAreHolders ==
    \A op \in {"create", "clone", "restore"}, id \in VolumeIDs :
        locks[op][id] = Cardinality(InOperation(op, id))

\* A deletion starts only when no clone, snapshot creation or restore of the
\* volume is running, an expansion only when no clone or creation is, also
\* after some of several parallel ones have ended.  (An entry of a deletion
\* or an expansion is not counted: when two of them share it, the first
\* release opens the volume to the others.)
StartsAlone ==
    [][\A c \in Callers, id \in VolumeIDs :
          held[c] = NoLock =>
              /\ held'[c] = <<"delete", id>> =>
                    \A op \in {"clone", "create", "restore"} : InOperation(op, id) = {}
              /\ held'[c] = <<"expand", id>> =>
                    \A op \in {"clone", "create"} : InOperation(op, id) = {}]_vars
=============================================================================
