------------------------ MODULE OperationLockProofs ------------------------
(***************************************************************************)
(* Proofs about the counting lock, for any finite number of callers and    *)
(* any volume ids.                                                         *)
(***************************************************************************)
EXTENDS OperationLock, FiniteSetTheorems, TLAPS

\* The counters are numbers, and a caller is in one operation or in none.
Types ==
    /\ locks \in [Operations -> [VolumeIDs -> Nat]]
    /\ held \in [Callers -> (Operations \X VolumeIDs) \cup {NoLock}]

\* The operations that are counted.
Counted == {"create", "clone", "restore"}

LEMMA InitTypes == Init => Types
  BY DEF Init, Types

LEMMA AcquireTypes ==
    ASSUME Types, NEW c \in Callers, NEW op \in Operations, NEW id \in VolumeIDs,
           tryAcquire(c, op, id)
    PROVE  Types'
<1>1. AcquiredCount(op, id) \in Nat BY DEF AcquiredCount, Types
<1>2. [locks[op] EXCEPT ![id] = AcquiredCount(op, id)] \in [VolumeIDs -> Nat]
  BY <1>1 DEF Types
<1>3. QED BY <1>2 DEF tryAcquire, Types

\* The operation and the volume of a caller that is about to release.
LEMMA Holding ==
    ASSUME Types, NEW c \in Callers, held[c] # NoLock
    PROVE  /\ held[c][1] \in Operations /\ held[c][2] \in VolumeIDs
           /\ held[c] = <<held[c][1], held[c][2]>>
  BY DEF Types

LEMMA ReleaseTypes ==
    ASSUME Types, NEW c \in Callers, release(c)
    PROVE  Types'
<1>1. PICK op \in Operations, id \in VolumeIDs :
        /\ held[c] = <<op, id>>
        /\ locks' = [locks EXCEPT ![op][id] = IF @ > 0 THEN @ - 1 ELSE 0]
  BY Holding DEF release
<1>2. [locks[op] EXCEPT ![id] = IF @ > 0 THEN @ - 1 ELSE 0] \in [VolumeIDs -> Nat]
  BY DEF Types
<1>3. QED BY <1>1, <1>2 DEF release, Types

LEMMA TypesInductive == Spec => []Types
<1>1. Types /\ UNCHANGED vars => Types' BY DEF Types, vars
<1>2. Types /\ [Next]_vars => Types'
  BY <1>1, AcquireTypes, ReleaseTypes DEF Next
<1>3. QED BY <1>2, InitTypes, PTL DEF Spec

-----------------------------------------------------------------------------

LEMMA HoldersFinite ==
    ASSUME NEW op, NEW id
    PROVE  IsFiniteSet(InOperation(op, id)) /\ Cardinality(InOperation(op, id)) \in Nat
<1>1. InOperation(op, id) \in SUBSET Callers BY DEF InOperation
<1>2. IsFiniteSet(InOperation(op, id)) BY <1>1, FS_Subset, OperationLockAssumption
<1>3. QED BY <1>2, FS_CardinalityType

\* The counter goes up with the caller that comes in.
LEMMA AcquireCounts ==
    ASSUME Types, CountsAreHolders, NEW c \in Callers,
           NEW op \in Operations, NEW id \in VolumeIDs, tryAcquire(c, op, id)
    PROVE  CountsAreHolders'
<1> SUFFICES ASSUME NEW o \in Counted, NEW i \in VolumeIDs
             PROVE  locks'[o][i] = Cardinality(InOperation(o, i)')
  BY DEF CountsAreHolders, Counted
<1>0. o \in Operations /\ locks[o][i] = Cardinality(InOperation(o, i))
  BY DEF CountsAreHolders, Counted, Operations
<1>1. /\ held'[c] = <<op, id>> /\ held[c] = NoLock
      /\ \A b \in Callers : b # c => held'[b] = held[b]
  BY DEF tryAcquire, Types
<1>2. CASE o = op /\ i = id
  <2>1. c \notin InOperation(o, i) /\ InOperation(o, i)' = InOperation(o, i) \cup {c}
    BY <1>1, <1>2, OperationLockAssumption DEF InOperation
  <2>2. Cardinality(InOperation(o, i)') = Cardinality(InOperation(o, i)) + 1
    BY <2>1, HoldersFinite, FS_AddElement
  <2>3. locks'[o][i] = locks[o][i] + 1
    BY <1>2 DEF tryAcquire, AcquiredCount, Types, Counted
  <2>4. QED BY <1>0, <2>2, <2>3
<1>3. CASE ~(o = op /\ i = id)
  <2>1. InOperation(o, i)' = InOperation(o, i)
    BY <1>0, <1>1, <1>3, OperationLockAssumption DEF InOperation
  <2>2. locks'[o][i] = locks[o][i]
    BY <1>0, <1>3 DEF tryAcquire, Types
  <2>3. QED BY <1>0, <2>1, <2>2
<1>4. QED BY <1>2, <1>3

\* ... and down with the one that leaves: it is never 0 while one is inside.
LEMMA ReleaseCounts ==
    ASSUME Types, CountsAreHolders, NEW c \in Callers, release(c)
    PROVE  CountsAreHolders'
<1> SUFFICES ASSUME NEW o \in Counted, NEW i \in VolumeIDs
             PROVE  locks'[o][i] = Cardinality(InOperation(o, i)')
  BY DEF CountsAreHolders, Counted
<1>0. o \in Operations /\ locks[o][i] = Cardinality(InOperation(o, i))
  BY DEF CountsAreHolders, Counted, Operations
<1>1. PICK op \in Operations, id \in VolumeIDs :
        /\ held[c] = <<op, id>>
        /\ locks' = [locks EXCEPT ![op][id] = IF @ > 0 THEN @ - 1 ELSE 0]
  BY Holding DEF release
<1>2. held'[c] = NoLock /\ \A b \in Callers : b # c => held'[b] = held[b]
  BY DEF release, Types
<1>3. CASE o = op /\ i = id
  <2>1. c \in InOperation(o, i) /\ InOperation(o, i)' = InOperation(o, i) \ {c}
    BY <1>0, <1>1, <1>2, <1>3, OperationLockAssumption DEF InOperation
  <2>2. Cardinality(InOperation(o, i)') = Cardinality(InOperation(o, i)) - 1
    BY <2>1, HoldersFinite, FS_RemoveElement
  <2>3. Cardinality(InOperation(o, i)) > 0
    BY <2>1, HoldersFinite, FS_EmptySet
  <2>4. locks'[o][i] = locks[o][i] - 1
    BY <1>0, <1>1, <1>3, <2>3 DEF Types
  <2>5. QED BY <1>0, <2>2, <2>4
<1>4. CASE ~(o = op /\ i = id)
  <2>1. InOperation(o, i)' = InOperation(o, i)
    <3>1. held[c] # <<o, i>> BY <1>1, <1>4
    <3>2. held'[c] # <<o, i>> BY <1>0, <1>2, OperationLockAssumption
    <3>3. QED BY <1>2, <3>1, <3>2 DEF InOperation
  <2>2. locks'[o][i] = locks[o][i]
    BY <1>0, <1>1, <1>4 DEF Types
  <2>3. QED BY <1>0, <2>1, <2>2
<1>5. QED BY <1>3, <1>4

LEMMA InitCounts == Init => CountsAreHolders
<1> SUFFICES ASSUME Init, NEW o \in Counted, NEW i \in VolumeIDs
             PROVE  locks[o][i] = Cardinality(InOperation(o, i))
  BY DEF CountsAreHolders, Counted
<1>1. InOperation(o, i) = {}
  BY OperationLockAssumption DEF Init, InOperation, Counted, Operations
<1>2. QED BY <1>1, FS_EmptySet DEF Init, Counted, Operations

\* The counters of creations, clones and restores are the numbers of callers
\* inside: releasing one of several never frees the others' lock.
THEOREM CountsExact == Spec => []CountsAreHolders
<1>1. CountsAreHolders /\ UNCHANGED vars => CountsAreHolders'
  BY DEF CountsAreHolders, InOperation, vars
<1>2. Types /\ CountsAreHolders /\ [Next]_vars => CountsAreHolders'
  BY <1>1, AcquireCounts, ReleaseCounts DEF Next
<1>3. QED BY <1>2, InitCounts, TypesInductive, PTL DEF Spec

-----------------------------------------------------------------------------

\* An operation that looks for op finds 0 only when nobody is inside.
LEMMA ZeroMeansEmpty ==
    ASSUME CountsAreHolders, NEW op \in Counted, NEW id \in VolumeIDs, locks[op][id] = 0
    PROVE  InOperation(op, id) = {}
<1>1. Cardinality(InOperation(op, id)) = 0 BY DEF CountsAreHolders, Counted
<1>2. QED BY <1>1, HoldersFinite, FS_EmptySet

LEMMA StepStartsAlone ==
    ASSUME Types, CountsAreHolders, Next, NEW c \in Callers, NEW id \in VolumeIDs,
           held[c] = NoLock
    PROVE  /\ held'[c] = <<"delete", id>> =>
                \A op \in {"clone", "create", "restore"} : InOperation(op, id) = {}
           /\ held'[c] = <<"expand", id>> =>
                \A op \in {"clone", "create"} : InOperation(op, id) = {}
<1> SUFFICES ASSUME NEW o \in {"delete", "expand"}, held'[c] = <<o, id>>
             PROVE  \A op \in Blockers(o) \cap Counted : InOperation(op, id) = {}
  BY DEF Blockers, Counted
<1>0. <<o, id>> # NoLock BY OperationLockAssumption DEF Operations
<1>1. tryAcquire(c, o, id)
  <2>1. ASSUME NEW b \in Callers, release(b) PROVE FALSE
    BY <1>0, <2>1 DEF release, Types
  <2>2. PICK b \in Callers, op \in Operations, i \in VolumeIDs : tryAcquire(b, op, i)
    BY <2>1 DEF Next
  <2>3. b = c /\ op = o /\ i = id
    BY <1>0, <2>2 DEF tryAcquire, Types
  <2>4. QED BY <2>2, <2>3
<1>2. QED BY <1>1, ZeroMeansEmpty DEF tryAcquire

\* Neither a deletion nor an expansion starts while an operation that it
\* looks for is still running, however many of them have ended.
THEOREM ExclusiveStart == Spec => StartsAlone
<1>1. Types /\ CountsAreHolders /\ [Next]_vars =>
        [\A c \in Callers, id \in VolumeIDs :
          held[c] = NoLock =>
              /\ held'[c] = <<"delete", id>> =>
                    \A op \in {"clone", "create", "restore"} : InOperation(op, id) = {}
              /\ held'[c] = <<"expand", id>> =>
                    \A op \in {"clone", "create"} : InOperation(op, id) = {}]_vars
  BY StepStartsAlone
<1>2. QED BY <1>1, TypesInductive, CountsExact, PTL DEF Spec, StartsAlone
=============================================================================
