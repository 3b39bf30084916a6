----------------------- MODULE ControllerServerProofs -----------------------
(***************************************************************************)
(* Proofs about the controller service, for any number of handlers,        *)
(* clusters, names, sizes and key files; that it implements VolumeService; *)
(* and, at the end, what a claim can count on when the sidecars call it    *)
(* (Provisioning), for any number of faults.                               *)
(***************************************************************************)
EXTENDS Provisioning, SizesProofs

-----------------------------------------------------------------------------
(* Types                                                                   *)

LEMMA SizesInt ==
    ASSUME NEW b \in 0..FloatExact
    PROVE  /\ RoundUpGiB(b) \in Nat
           /\ RoundOffBytes(b) \in Nat
           /\ RoundUpGiB(RoundOffBytes(b)) \in Nat
<1>1. b \in Nat /\ GiB \in Nat BY SizesAssumption
<1>2. RoundUpGiB(b) \in Nat BY <1>1, RoundUpLeast
<1>3. RoundOffBytes(b) \in Nat
  <2>1. CASE b = 0 BY <1>1, <2>1, RoundOffOfZero
  <2>2. CASE b \in 1..FloatExact
    BY <1>1, <1>2, <2>2, RoundOffIsRoundUp
  <2>3. QED BY <2>1, <2>2, SizesAssumption
<1>4. QED BY <1>2, <1>3, RoundUpLeast

\* What a request asks for and is answered is a number.
LEMMA RequestNumbers ==
    ASSUME NEW r \in Requests
    PROVE  /\ r.op = "create" => CreateQuota(r) \in Int
           /\ r.op = "expand" => ExpandQuota(r) \in Int
           /\ Success(r) \in Replies
           /\ Success(r).code = "OK"
           /\ r.vol \in VolumeIDs
           /\ r.op = "create" => r.vol \in ComposedIDs
           /\ LockKey(r) \in Names \cup VolumeIDs
<1>1. r.bytes \in 0..FloatExact
  <2>1. r.bytes \in CreateBytes \cup {0} \cup ExpandBytes
    BY DEF Requests, CreateRequests, DeleteRequests, ExpandRequests
  <2>2. CreateBytes \cup {0} \cup ExpandBytes \subseteq 0..FloatExact
    BY RequestsAssumption, SizesAssumption
  <2>3. QED BY <2>1, <2>2
<1>2. /\ r.op = "create" => CreateQuota(r) \in Int
      /\ r.op = "expand" => ExpandQuota(r) \in Int
  BY <1>1, SizesInt DEF CreateQuota, ExpandQuota
<1>3. Success(r) \in Replies /\ Success(r).code = "OK"
  BY <1>1, SizesInt DEF Success, OK, Replies
<1>4. /\ r.vol \in VolumeIDs
      /\ r.op = "create" => r.vol \in ComposedIDs
  BY DEF Requests, CreateRequests, DeleteRequests, ExpandRequests, VolumeIDs
<1>5. LockKey(r) \in Names \cup VolumeIDs
  BY <1>4 DEF LockKey, ComposedIDs
<1>6. QED BY <1>2, <1>3, <1>4, <1>5

LEMMA ReplyTypes ==
    /\ NoReply \in Replies
    /\ \A c \in ErrorCodes : Error(c) \in Replies
    /\ \A c \in ErrorCodes : Error(c) # NoReply /\ Error(c).code # "OK"
    /\ \A rep : rep.code = "OK" => rep # NoReply
  BY DEF NoReply, Replies, Error, ErrorCodes

-----------------------------------------------------------------------------
(* Types and the shape of a handler                                        *)

\* The labels at which a handler has not decided its answer.
UndecidedAt == {"idle", "credentials", "lock", "plist", "create", "delete",
                "quota"}

\* Where a handler can be, given what it serves; its answer is decided
\* exactly when the deferred calls run; a command only runs for a volume
\* whose id decoded.
Shape(h) ==
    /\ pc[h] = "idle" => req[h] = NoRequest
    /\ pc[h] # "idle" => req[h] \in Requests
    /\ pc[h] \in {"plist", "create"} => req[h].op = "create"
    /\ pc[h] = "delete" => req[h].op = "delete" /\ Decodes(req[h].vol)
    /\ pc[h] = "quota" => req[h].op = "expand" /\ Decodes(req[h].vol)
    /\ pc[h] = "credentials" /\ req[h].op = "delete" => Decodes(req[h].vol)
    /\ reply[h] = NoReply <=> pc[h] \in UndecidedAt

HandlerShape == \A h \in Handlers : Shape(h)

\* A step of h changes only its own entries.
LEMMA ShapeOfOthers ==
    ASSUME TypeOK, HandlerShape, NEW h \in Handlers,
           NEW l \in Labels, NEW r \in Requests \cup {NoRequest},
           NEW rep \in Replies,
           pc' = [pc EXCEPT ![h] = l], req' = [req EXCEPT ![h] = r],
           reply' = [reply EXCEPT ![h] = rep],
           Shape(h)'
    PROVE  /\ HandlerShape'
           /\ pc' \in [Handlers -> Labels]
           /\ req' \in [Handlers -> Requests \cup {NoRequest}]
           /\ reply' \in [Handlers -> Replies]
<1>1. ASSUME NEW g \in Handlers, g # h PROVE Shape(g)'
  <2>1. pc'[g] = pc[g] /\ req'[g] = req[g] /\ reply'[g] = reply[g]
    BY <1>1 DEF TypeOK
  <2>2. Shape(g) BY DEF HandlerShape
  <2>3. QED BY <2>1, <2>2 DEF Shape
<1>2. HandlerShape' BY <1>1 DEF HandlerShape
<1>3. QED BY <1>2 DEF TypeOK

LEMMA InitShape == Init => TypeOK /\ HandlerShape
  BY ReplyTypes DEF Init, TypeOK, NewVolumeLocks, Labels, HandlerShape, Shape,
                    UndecidedAt

ControlTypes ==
    /\ pc \in [Handlers -> Labels]
    /\ req \in [Handlers -> Requests \cup {NoRequest}]
    /\ reply \in [Handlers -> Replies]

\* The handler decides and turns to its deferred calls.
LEMMA DecideShape ==
    ASSUME TypeOK, HandlerShape, NEW h \in Handlers, pc[h] # "idle",
           NEW l \in {"delkey", "release", "return"}, Goto(h, l),
           NEW rep \in Replies, rep # NoReply, Answer(h, rep),
           UNCHANGED req
    PROVE  HandlerShape' /\ ControlTypes'
<1>1. req' = [req EXCEPT ![h] = req[h]] /\ req[h] \in Requests
  BY DEF TypeOK, HandlerShape, Shape
<1>2. pc'[h] = l /\ reply'[h] = rep /\ req'[h] = req[h] BY DEF TypeOK, Goto, Answer
<1>3. Shape(h)' BY <1>1, <1>2 DEF Shape, UndecidedAt
<1>4. QED BY <1>1, <1>3, ShapeOfOthers DEF Goto, Answer, ControlTypes, Labels

\* The handler goes on without an answer, or with the one it has.
LEMMA MoveShape ==
    ASSUME TypeOK, HandlerShape, NEW h \in Handlers, pc[h] # "idle",
           NEW l \in Labels, Goto(h, l), UNCHANGED <<req, reply>>,
           l \in UndecidedAt <=> pc[h] \in UndecidedAt,
           l # "idle",
           l \in {"plist", "create"} => req[h].op = "create",
           l = "delete" => req[h].op = "delete" /\ Decodes(req[h].vol),
           l = "quota" => req[h].op = "expand" /\ Decodes(req[h].vol),
           l = "credentials" /\ req[h].op = "delete" => Decodes(req[h].vol)
    PROVE  HandlerShape' /\ ControlTypes'
<1>1. /\ req' = [req EXCEPT ![h] = req[h]] /\ req[h] \in Requests
      /\ reply' = [reply EXCEPT ![h] = reply[h]] /\ reply[h] \in Replies
  BY DEF TypeOK, HandlerShape, Shape
<1>2. pc'[h] = l /\ reply'[h] = reply[h] /\ req'[h] = req[h] BY DEF TypeOK, Goto
<1>3. Shape(h)' BY <1>1, <1>2 DEF Shape, UndecidedAt, HandlerShape
<1>4. QED BY <1>1, <1>3, ShapeOfOthers DEF Goto, ControlTypes

\* Every step of a handler keeps the types and the shape.
LEMMA StepShape ==
    ASSUME TypeOK, HandlerShape, NEW h \in Handlers, Receive(h) \/ Step(h)
    PROVE  TypeOK' /\ HandlerShape'
<1>0. Shape(h) BY DEF HandlerShape
<1>r. pc[h] # "idle" => req[h] \in Requests BY <1>0 DEF Shape
<1>e. /\ \A c \in {"Internal", "Aborted", "InvalidArgument"} :
            Error(c) \in Replies /\ Error(c) # NoReply
      /\ pc[h] # "idle" => Success(req[h]) \in Replies /\ Success(req[h]) # NoReply
  BY <1>r, ReplyTypes, RequestNumbers DEF ErrorCodes
<1>t. ASSUME ControlTypes', UNCHANGED <<pools, volumeLocks, keyFiles, cr>>
      PROVE  TypeOK'
  BY <1>t DEF TypeOK, ControlTypes
<1>1. CASE Receive(h)
  <2>1. PICK r \in Requests :
          /\ req' = [req EXCEPT ![h] = r]
          /\ Goto(h, IF r.op = "create" THEN "credentials" ELSE "lock")
    BY <1>1 DEF Receive
  <2>2. PICK l \in Labels : /\ pc' = [pc EXCEPT ![h] = l]
                            /\ l \in {"credentials", "lock"}
                            /\ l = "credentials" => r.op = "create"
    BY <2>1 DEF Goto, Labels
  <2>3. /\ reply' = [reply EXCEPT ![h] = reply[h]]
        /\ reply[h] = NoReply /\ reply[h] \in Replies
    BY <1>0, <1>1 DEF Receive, Shape, UndecidedAt, TypeOK
  <2>4. Shape(h)'
    BY <2>1, <2>2, <2>3 DEF Shape, TypeOK, UndecidedAt
  <2>5. HandlerShape' /\ ControlTypes'
    BY <2>1, <2>2, <2>3, <2>4, ShapeOfOthers DEF ControlTypes
  <2>6. QED BY <1>1, <2>5, <1>t DEF Receive
<1>2. CASE NewAdminCredentials(h)
  <2>1. pc[h] = "credentials" /\ UNCHANGED req BY <1>2 DEF NewAdminCredentials
  <2>2. HandlerShape' /\ ControlTypes'
    <3>1. CASE AfterCredentials(h) /\ req[h].op = "expand" /\ ~Decodes(req[h].vol)
      BY <1>e, <2>1, <3>1, DecideShape DEF AfterCredentials
    <3>2. CASE AfterCredentials(h) /\ ~(req[h].op = "expand" /\ ~Decodes(req[h].vol))
      <4>1. req[h].op \in {"create", "delete", "expand"}
        BY <1>r, <2>1 DEF Requests, CreateRequests, DeleteRequests, ExpandRequests
      <4>2. PICK l \in {"lock", "delete", "quota"} :
              /\ Goto(h, l) /\ UNCHANGED reply
              /\ l = "delete" => req[h].op = "delete"
              /\ l = "quota" => req[h].op = "expand"
        BY <3>2, <4>1 DEF AfterCredentials
      <4>3. QED
        BY <1>0, <2>1, <3>2, <4>2, MoveShape DEF Shape, Labels, UndecidedAt
    <3>3. CASE /\ Answer(h, Error("InvalidArgument"))
               /\ Goto(h, ExitWithoutKey(req[h]))
      BY <1>e, <2>1, <3>3, DecideShape DEF ExitWithoutKey
    <3>4. QED BY <1>2, <3>1, <3>2, <3>3 DEF NewAdminCredentials
  <2>3. QED BY <1>2, <2>2 DEF NewAdminCredentials, ControlTypes, TypeOK
<1>3. CASE RejectArguments(h)
  <2>1. HandlerShape' /\ ControlTypes'
    BY <1>3, <1>e, DecideShape DEF RejectArguments, ExitWithoutLock
  <2>2. QED BY <1>3, <1>t, <2>1 DEF RejectArguments
<1>4. CASE AbortBusy(h)
  <2>1. HandlerShape' /\ ControlTypes'
    BY <1>4, <1>e, DecideShape DEF AbortBusy, ExitWithoutLock
  <2>2. QED BY <1>4, <1>t, <2>1 DEF AbortBusy
<1>5. CASE AcquireLock(h)
  <2>1. HandlerShape' /\ ControlTypes'
    BY <1>5, <1>e, DecideShape, MoveShape
       DEF AcquireLock, ExitWithLock, ExitWithLockAndKey, Labels, UndecidedAt
  <2>2. LockKey(req[h]) \in Names \cup VolumeIDs
    BY <1>5, <1>r, RequestNumbers DEF AcquireLock
  <2>3. QED BY <1>5, <2>1, <2>2 DEF AcquireLock, Acquired, TypeOK, ControlTypes
<1>6. CASE ExecPlist(h)
  <2>1. req[h].op = "create" BY <1>0, <1>6 DEF ExecPlist, Shape
  <2>2. HandlerShape' /\ ControlTypes'
    BY <1>6, <1>e, <2>1, DecideShape, MoveShape
       DEF ExecPlist, ExitWithLockAndKey, Labels, UndecidedAt
  <2>3. QED BY <1>6, <1>t, <2>2 DEF ExecPlist
<1>7. CASE ExecCreate(h)
  <2>1. HandlerShape' /\ ControlTypes'
    BY <1>7, <1>e, DecideShape DEF ExecCreate, AnswerCommand, ExitWithLockAndKey
  <2>2. CreateQuota(req[h]) \in Int
    BY <1>0, <1>7, <1>r, RequestNumbers DEF ExecCreate, Shape
  <2>3. QED BY <1>7, <2>1, <2>2 DEF ExecCreate, TypeOK, ControlTypes
<1>8. CASE ExecDelete(h)
  <2>1. HandlerShape' /\ ControlTypes'
    BY <1>8, <1>e, DecideShape DEF ExecDelete, AnswerCommand, ExitWithLockAndKey
  <2>2. QED BY <1>8, <2>1 DEF ExecDelete, TypeOK, ControlTypes
<1>9. CASE ExecQuota(h)
  <2>1. HandlerShape' /\ ControlTypes'
    BY <1>9, <1>e, DecideShape DEF ExecQuota, AnswerCommand, ExitWithLockAndKey
  <2>2. ExpandQuota(req[h]) \in Int
    BY <1>0, <1>9, <1>r, RequestNumbers DEF ExecQuota, Shape
  <2>3. QED BY <1>9, <2>1, <2>2 DEF ExecQuota, TypeOK, ControlTypes
<1>10. CASE DeleteCredentials(h)
  <2>1. HandlerShape' /\ ControlTypes'
    BY <1>10, MoveShape DEF DeleteCredentials, Labels, UndecidedAt
  <2>2. QED BY <1>10, <2>1 DEF DeleteCredentials, TypeOK, ControlTypes
<1>11. CASE ReleaseLock(h)
  <2>1. HandlerShape' /\ ControlTypes'
    BY <1>11, MoveShape DEF ReleaseLock, Labels, UndecidedAt
  <2>2. QED BY <1>11, <2>1 DEF ReleaseLock, Release, TypeOK, ControlTypes
<1>12. CASE Return(h)
  <2>1. Shape(h)'
    BY <1>12 DEF Return, Goto, Shape, UndecidedAt, TypeOK
  <2>2. HandlerShape' /\ ControlTypes'
    BY <1>12, <2>1, ShapeOfOthers, ReplyTypes DEF Return, Goto, Labels, ControlTypes
  <2>3. QED BY <1>12, <1>t, <2>2 DEF Return
<1>13. QED
  BY <1>1, <1>2, <1>3, <1>4, <1>5, <1>6, <1>7, <1>8, <1>9, <1>10, <1>11, <1>12
     DEF Step

\* The death of the process keeps the types and the shape.
LEMMA CrashShape == TypeOK /\ Crash => TypeOK' /\ HandlerShape'
  BY ReplyTypes DEF Crash, TypeOK, NewVolumeLocks, Labels, HandlerShape, Shape,
                    UndecidedAt

LEMMA StutterShape ==
    TypeOK /\ HandlerShape /\ UNCHANGED vars => TypeOK' /\ HandlerShape'
  BY DEF vars, TypeOK, HandlerShape, Shape

\* Each handler's request, answer, key file and label fit together in every
\* reachable state of the controller service.
THEOREM TypeCorrect == Spec => [](TypeOK /\ HandlerShape)
<1>1. TypeOK /\ HandlerShape /\ [Next]_vars => (TypeOK /\ HandlerShape)'
  BY StepShape, CrashShape, StutterShape DEF Next
<1>2. QED BY <1>1, InitShape, PTL DEF Spec

-----------------------------------------------------------------------------
(* Locks                                                                   *)

LockInv == MutualExclusion /\ LocksHaveHolders

OthersUnchanged(h) ==
    \A g \in Handlers \ {h} : pc'[g] = pc[g] /\ req'[g] = req[g]

\* A step that leaves the table alone and neither starts nor ends holding.
LEMMA LockFrame ==
    ASSUME LockInv, NEW h \in Handlers, OthersUnchanged(h),
           UNCHANGED volumeLocks,
           HoldsLock(h)' <=> HoldsLock(h),
           HoldsLock(h) => req'[h] = req[h]
    PROVE  LockInv'
<1>1. \A g \in Handlers : HoldsLock(g)' <=> HoldsLock(g)
  BY DEF OthersUnchanged, HoldsLock
<1>2. \A g \in Handlers : HoldsLock(g) => req'[g] = req[g]
  BY DEF OthersUnchanged
<1>3. MutualExclusion' BY <1>1, <1>2 DEF LockInv, MutualExclusion
<1>4. LocksHaveHolders' BY <1>1, <1>2 DEF LockInv, LocksHaveHolders
<1>5. QED BY <1>3, <1>4 DEF LockInv

\* TryAcquire succeeds.
LEMMA LockTaken ==
    ASSUME LockInv, NEW h \in Handlers, OthersUnchanged(h),
           LockKey(req[h]) \notin volumeLocks,
           volumeLocks' = volumeLocks \cup {LockKey(req[h])},
           req'[h] = req[h], ~HoldsLock(h), HoldsLock(h)'
    PROVE  LockInv'
<1>1. \A g \in Handlers \ {h} : HoldsLock(g)' <=> HoldsLock(g)
  BY DEF OthersUnchanged, HoldsLock
<1>2. \A g \in Handlers : req'[g] = req[g] BY DEF OthersUnchanged
<1>3. \A g \in Handlers : HoldsLock(g) => LockKey(req[g]) \in volumeLocks
  BY DEF LockInv, LocksHaveHolders
<1>4. MutualExclusion' BY <1>1, <1>2, <1>3 DEF LockInv, MutualExclusion
<1>5. LocksHaveHolders' BY <1>1, <1>2 DEF LockInv, LocksHaveHolders
<1>6. QED BY <1>4, <1>5 DEF LockInv

\* Release by the holder.
LEMMA LockReleased ==
    ASSUME LockInv, NEW h \in Handlers, OthersUnchanged(h),
           volumeLocks' = volumeLocks \ {LockKey(req[h])},
           req'[h] = req[h], HoldsLock(h), ~HoldsLock(h)'
    PROVE  LockInv'
<1>1. \A g \in Handlers \ {h} : HoldsLock(g)' <=> HoldsLock(g)
  BY DEF OthersUnchanged, HoldsLock
<1>2. \A g \in Handlers : req'[g] = req[g] BY DEF OthersUnchanged
<1>3. \A g \in Handlers \ {h} : HoldsLock(g) => LockKey(req[g]) # LockKey(req[h])
  BY DEF LockInv, MutualExclusion
<1>4. MutualExclusion' BY <1>1, <1>2 DEF LockInv, MutualExclusion
<1>5. LocksHaveHolders' BY <1>1, <1>2, <1>3 DEF LockInv, LocksHaveHolders
<1>6. QED BY <1>4, <1>5 DEF LockInv

LEMMA StepLocks ==
    ASSUME TypeOK, HandlerShape, LockInv, NEW h \in Handlers,
           Receive(h) \/ Step(h)
    PROVE  LockInv'
<1>0. Shape(h) /\ (pc[h] # "idle" => req[h].op \in {"create", "delete", "expand"})
  BY DEF HandlerShape, Shape, Requests, CreateRequests, DeleteRequests, ExpandRequests
<1>1. CASE Receive(h)
  <2>1. OthersUnchanged(h) /\ UNCHANGED volumeLocks
    BY <1>1 DEF Receive, Goto, OthersUnchanged, TypeOK
  <2>2. ~HoldsLock(h) BY <1>1 DEF Receive, HoldsLock
  <2>3. ~HoldsLock(h)' BY <1>1 DEF Receive, Goto, HoldsLock, TypeOK
  <2>4. QED BY <2>1, <2>2, <2>3, LockFrame
<1>2. CASE NewAdminCredentials(h)
  <2>1. OthersUnchanged(h) /\ UNCHANGED <<volumeLocks, req>>
    BY <1>2 DEF NewAdminCredentials, AfterCredentials, Goto, OthersUnchanged, TypeOK
  <2>2. HoldsLock(h)' <=> HoldsLock(h)
    BY <1>0, <1>2 DEF NewAdminCredentials, AfterCredentials, ExitWithoutKey, Goto,
                      HoldsLock, TypeOK
  <2>3. QED BY <2>1, <2>2, LockFrame
<1>3. CASE RejectArguments(h)
  <2>1. OthersUnchanged(h) /\ UNCHANGED <<volumeLocks, req>>
    BY <1>3 DEF RejectArguments, Goto, OthersUnchanged, TypeOK
  <2>2. HoldsLock(h)' <=> HoldsLock(h)
    BY <1>3 DEF RejectArguments, ExitWithoutLock, Goto, HoldsLock, TypeOK
  <2>3. QED BY <2>1, <2>2, LockFrame
<1>4. CASE AbortBusy(h)
  <2>1. OthersUnchanged(h) /\ UNCHANGED <<volumeLocks, req>>
    BY <1>4 DEF AbortBusy, Goto, OthersUnchanged, TypeOK
  <2>2. HoldsLock(h)' <=> HoldsLock(h)
    BY <1>4 DEF AbortBusy, ExitWithoutLock, Goto, HoldsLock, TypeOK
  <2>3. QED BY <2>1, <2>2, LockFrame
<1>5. CASE AcquireLock(h)
  <2>1. OthersUnchanged(h) /\ req'[h] = req[h]
    BY <1>5 DEF AcquireLock, Goto, OthersUnchanged, TypeOK
  <2>2. ~HoldsLock(h) BY <1>5 DEF AcquireLock, HoldsLock
  <2>3. HoldsLock(h)'
    BY <1>5 DEF AcquireLock, ExitWithLock, ExitWithLockAndKey, Goto, HoldsLock, TypeOK
  <2>4. QED BY <1>5, <2>1, <2>2, <2>3, LockTaken DEF AcquireLock, TryAcquire, Acquired
<1>6. CASE ExecPlist(h) \/ ExecCreate(h) \/ ExecDelete(h) \/ ExecQuota(h)
  <2>1. OthersUnchanged(h) /\ UNCHANGED <<volumeLocks, req>>
    BY <1>6 DEF ExecPlist, ExecCreate, ExecDelete, ExecQuota, Goto, OthersUnchanged, TypeOK
  <2>2. HoldsLock(h) /\ HoldsLock(h)'
    BY <1>0, <1>6 DEF ExecPlist, ExecCreate, ExecDelete, ExecQuota, Shape,
                      ExitWithLockAndKey, Goto, HoldsLock, TypeOK
  <2>3. QED BY <2>1, <2>2, LockFrame
<1>7. CASE DeleteCredentials(h)
  <2>1. OthersUnchanged(h) /\ UNCHANGED <<volumeLocks, req>>
    BY <1>7 DEF DeleteCredentials, Goto, OthersUnchanged, TypeOK
  <2>2. HoldsLock(h)' <=> HoldsLock(h)
    BY <1>7 DEF DeleteCredentials, Goto, HoldsLock, TypeOK
  <2>3. QED BY <2>1, <2>2, LockFrame
<1>8. CASE ReleaseLock(h)
  <2>1. OthersUnchanged(h) /\ req'[h] = req[h]
    BY <1>8 DEF ReleaseLock, Goto, OthersUnchanged, TypeOK
  <2>2. HoldsLock(h) /\ ~HoldsLock(h)'
    BY <1>8 DEF ReleaseLock, Goto, HoldsLock, TypeOK
  <2>3. QED BY <1>8, <2>1, <2>2, LockReleased DEF ReleaseLock, Release
<1>9. CASE Return(h)
  <2>1. OthersUnchanged(h) /\ UNCHANGED volumeLocks
    BY <1>9 DEF Return, Goto, OthersUnchanged, TypeOK
  <2>2. ~HoldsLock(h) /\ ~HoldsLock(h)'
    BY <1>9 DEF Return, Goto, HoldsLock, TypeOK, NoRequest
  <2>3. QED BY <2>1, <2>2, LockFrame
<1>10. QED
  BY <1>1, <1>2, <1>3, <1>4, <1>5, <1>6, <1>7, <1>8, <1>9 DEF Step

LEMMA CrashLocks == Crash => LockInv'
  BY DEF Crash, LockInv, MutualExclusion, LocksHaveHolders, HoldsLock,
         NewVolumeLocks, NoRequest

LEMMA StutterLocks == LockInv /\ UNCHANGED vars => LockInv'
  BY DEF vars, LockInv, MutualExclusion, LocksHaveHolders, HoldsLock

LEMMA InitLocks == Init => LockInv
  BY DEF Init, LockInv, MutualExclusion, LocksHaveHolders, HoldsLock,
         NewVolumeLocks, NoRequest

\* No two handlers of the controller service are inside the critical
\* section of the same lock.
THEOREM Mutex == Spec => []MutualExclusion
<1>1. LockInv /\ TypeOK /\ HandlerShape /\ [Next]_vars => LockInv'
  BY StepLocks, CrashLocks, StutterLocks DEF Next
<1>2. LockInv => MutualExclusion BY DEF LockInv
<1>3. QED BY <1>1, <1>2, InitLocks, TypeCorrect, PTL DEF Spec

\* The lock table holds exactly the locks of the running handlers: no lock
\* leaks on any return path or across a restart.
THEOREM NoLockLeak == Spec => []LocksHaveHolders
<1>1. LockInv /\ TypeOK /\ HandlerShape /\ [Next]_vars => LockInv'
  BY StepLocks, CrashLocks, StutterLocks DEF Next
<1>2. LockInv => LocksHaveHolders BY DEF LockInv
<1>3. QED BY <1>1, <1>2, InitLocks, TypeCorrect, PTL DEF Spec

-----------------------------------------------------------------------------
(* Key files                                                               *)

\* The handler is between NewAdminCredentials and DeleteCredentials.
HoldsKey(h) ==
    IF req[h].op = "create"
    THEN pc[h] \in {"lock", "plist", "create", "release", "delkey"}
    ELSE pc[h] \in {"delete", "quota", "delkey"}

KeyInv ==
    /\ \A h \in Handlers : HoldsKey(h) => cr[h] \in keyFiles
    /\ \A h \in Handlers : ~HoldsKey(h) => cr[h] = NoKey
    /\ \A g, h \in Handlers : g # h /\ cr[g] = cr[h] => cr[g] = NoKey

\* A step that removes no key file and neither starts nor ends using one.
LEMMA KeyFrame ==
    ASSUME KeyInv, NEW h \in Handlers, OthersUnchanged(h),
           keyFiles \subseteq keyFiles', cr' = cr, HoldsKey(h)' <=> HoldsKey(h)
    PROVE  KeyInv'
<1>1. \A g \in Handlers : HoldsKey(g)' <=> HoldsKey(g)
  BY DEF OthersUnchanged, HoldsKey
<1>2. QED BY <1>1 DEF KeyInv

LEMMA StepKeys ==
    ASSUME TypeOK, HandlerShape, KeyInv, NEW h \in Handlers,
           Receive(h) \/ Step(h)
    PROVE  KeyInv'
<1>0. Shape(h) /\ (pc[h] # "idle" => req[h].op \in {"create", "delete", "expand"})
  BY DEF HandlerShape, Shape, Requests, CreateRequests, DeleteRequests, ExpandRequests
<1>1. CASE Receive(h)
  <2>1. OthersUnchanged(h) /\ UNCHANGED <<keyFiles, cr>>
    BY <1>1 DEF Receive, Goto, OthersUnchanged, TypeOK
  <2>2. ~HoldsKey(h) BY <1>1 DEF Receive, HoldsKey
  <2>3. ~HoldsKey(h)' BY <1>1 DEF Receive, Goto, HoldsKey, TypeOK
  <2>4. QED BY <2>1, <2>2, <2>3, KeyFrame
<1>2. CASE NewAdminCredentials(h)
  <2>1. OthersUnchanged(h) /\ UNCHANGED req
    BY <1>2 DEF NewAdminCredentials, AfterCredentials, Goto, OthersUnchanged, TypeOK
  <2>2. ~HoldsKey(h) BY <1>2 DEF NewAdminCredentials, HoldsKey
  <2>3. ASSUME NEW k \in KeyFiles \ keyFiles, keyFiles' = keyFiles \cup {k},
               cr' = [cr EXCEPT ![h] = k], AfterCredentials(h)
        PROVE  KeyInv'
    <3>1. HoldsKey(h)'
      BY <1>0, <1>2, <2>1, <2>3 DEF NewAdminCredentials, AfterCredentials, Goto,
                                    HoldsKey, TypeOK
    <3>2. \A g \in Handlers \ {h} : /\ HoldsKey(g)' <=> HoldsKey(g)
                                    /\ cr'[g] = cr[g]
      BY <2>1, <2>3 DEF OthersUnchanged, HoldsKey, TypeOK
    <3>3. cr'[h] = k /\ k # NoKey BY <2>3, KeyAssumption DEF TypeOK
    <3>4. \A g \in Handlers \ {h} : cr[g] # k
      BY <2>3, <3>3 DEF KeyInv
    <3>5. QED BY <2>3, <3>1, <3>2, <3>3, <3>4 DEF KeyInv
  <2>4. ASSUME Goto(h, ExitWithoutKey(req[h])), keyFiles \subseteq keyFiles', cr' = cr
        PROVE  KeyInv'
    <3>1. ~HoldsKey(h)'
      BY <2>1, <2>4 DEF ExitWithoutKey, Goto, HoldsKey, TypeOK
    <3>2. QED BY <2>1, <2>2, <2>4, <3>1, KeyFrame
  <2>5. QED BY <1>2, <2>3, <2>4 DEF NewAdminCredentials
<1>3. CASE RejectArguments(h) \/ AbortBusy(h)
  <2>1. OthersUnchanged(h) /\ UNCHANGED <<keyFiles, cr, req>>
    BY <1>3 DEF RejectArguments, AbortBusy, Goto, OthersUnchanged, TypeOK
  <2>2. HoldsKey(h)' <=> HoldsKey(h)
    BY <1>3, <2>1 DEF RejectArguments, AbortBusy, ExitWithoutLock, Goto, HoldsKey, TypeOK
  <2>3. QED BY <2>1, <2>2, KeyFrame
<1>4. CASE AcquireLock(h)
  <2>1. OthersUnchanged(h) /\ UNCHANGED <<keyFiles, cr, req>>
    BY <1>4 DEF AcquireLock, Goto, OthersUnchanged, TypeOK
  <2>2. HoldsKey(h)' <=> HoldsKey(h)
    BY <1>0, <1>4, <2>1 DEF AcquireLock, ExitWithLock, ExitWithLockAndKey, Goto,
                            HoldsKey, TypeOK
  <2>3. QED BY <2>1, <2>2, KeyFrame
<1>5. CASE ExecPlist(h) \/ ExecCreate(h) \/ ExecDelete(h) \/ ExecQuota(h)
  <2>1. OthersUnchanged(h) /\ UNCHANGED <<keyFiles, cr, req>>
    BY <1>5 DEF ExecPlist, ExecCreate, ExecDelete, ExecQuota, Goto, OthersUnchanged, TypeOK
  <2>2. HoldsKey(h) /\ HoldsKey(h)'
    BY <1>0, <1>5, <2>1 DEF ExecPlist, ExecCreate, ExecDelete, ExecQuota, Shape,
                            ExitWithLockAndKey, Goto, HoldsKey, TypeOK
  <2>3. QED BY <2>1, <2>2, KeyFrame
<1>6. CASE DeleteCredentials(h)
  <2>1. OthersUnchanged(h) /\ UNCHANGED req
    BY <1>6 DEF DeleteCredentials, Goto, OthersUnchanged, TypeOK
  <2>2. HoldsKey(h) /\ ~HoldsKey(h)'
    BY <1>6, <2>1 DEF DeleteCredentials, Goto, HoldsKey, TypeOK
  <2>3. \A g \in Handlers \ {h} : /\ HoldsKey(g)' <=> HoldsKey(g)
                                  /\ cr'[g] = cr[g]
    BY <1>6, <2>1 DEF DeleteCredentials, OthersUnchanged, HoldsKey, TypeOK
  <2>4. cr'[h] = NoKey /\ keyFiles \ {cr[h]} \subseteq keyFiles'
    BY <1>6 DEF DeleteCredentials, TypeOK
  <2>5. cr[h] # NoKey BY <2>2, KeyAssumption DEF KeyInv, TypeOK
  <2>6. \A g \in Handlers \ {h} : HoldsKey(g) => cr[g] # cr[h]
    BY <2>5 DEF KeyInv
  <2>7. QED BY <2>2, <2>3, <2>4, <2>5, <2>6 DEF KeyInv
<1>7. CASE ReleaseLock(h)
  <2>1. OthersUnchanged(h) /\ UNCHANGED <<keyFiles, cr, req>>
    BY <1>7 DEF ReleaseLock, Goto, OthersUnchanged, TypeOK
  <2>2. HoldsKey(h)' <=> HoldsKey(h)
    BY <1>7, <2>1 DEF ReleaseLock, Goto, HoldsKey, TypeOK
  <2>3. QED BY <2>1, <2>2, KeyFrame
<1>8. CASE Return(h)
  <2>1. OthersUnchanged(h) /\ UNCHANGED <<keyFiles, cr>>
    BY <1>8 DEF Return, Goto, OthersUnchanged, TypeOK
  <2>2. ~HoldsKey(h) /\ ~HoldsKey(h)'
    BY <1>8 DEF Return, Goto, HoldsKey, TypeOK, NoRequest
  <2>3. QED BY <2>1, <2>2, KeyFrame
<1>9. QED
  BY <1>1, <1>2, <1>3, <1>4, <1>5, <1>6, <1>7, <1>8 DEF Step

LEMMA CrashKeys == Crash => KeyInv'
  BY DEF Crash, KeyInv, HoldsKey, NoRequest

LEMMA StutterKeys == KeyInv /\ UNCHANGED vars => KeyInv'
  BY DEF vars, KeyInv, HoldsKey

LEMMA InitKeys == Init => KeyInv
  BY DEF Init, KeyInv, HoldsKey, NoRequest

LEMMA KeysInductive == Spec => []KeyInv
<1>1. KeyInv /\ TypeOK /\ HandlerShape /\ [Next]_vars => KeyInv'
  BY StepKeys, CrashKeys, StutterKeys DEF Next
<1>2. QED BY <1>1, InitKeys, TypeCorrect, PTL DEF Spec

\* Every fcfs_pool command runs with the key file of its own handler in
\* place, and no handler can remove another's file.
THEOREM KeysPrivate == Spec => []KeysArePrivate
<1>1. KeyInv /\ TypeOK /\ HandlerShape => KeysArePrivate
  BY DEF KeyInv, HoldsKey, HandlerShape, Shape, KeysArePrivate
<1>2. QED BY <1>1, KeysInductive, TypeCorrect, PTL

\* A step of a handler makes a key file an orphan only by trying to remove
\* it.
LEMMA StepOrphans ==
    ASSUME TypeOK, KeyInv, NEW h \in Handlers, Receive(h) \/ Step(h)
    PROVE  \A k \in OrphanKeys' \ OrphanKeys : TriesRemoval(h, k)
<1>1. CASE UNCHANGED <<keyFiles, cr>> BY <1>1 DEF OrphanKeys
<1>2. CASE NewAdminCredentials(h) /\ cr' # cr
  <2>1. PICK k \in KeyFiles \ keyFiles :
           keyFiles' = keyFiles \cup {k} /\ cr' = [cr EXCEPT ![h] = k]
    BY <1>2 DEF NewAdminCredentials
  <2>2. cr'[h] = k /\ \A g \in Handlers \ {h} : cr'[g] = cr[g]
    BY <2>1 DEF TypeOK
  <2>3. cr[h] = NoKey BY <1>2 DEF NewAdminCredentials, HoldsKey, KeyInv
  <2>4. cr[h] \notin keyFiles BY <2>3, KeyAssumption DEF TypeOK
  <2>5. QED BY <2>1, <2>2, <2>4 DEF OrphanKeys
<1>3. CASE NewAdminCredentials(h) /\ cr' = cr /\ keyFiles' # keyFiles
  <2>0. cr[h] = NoKey BY <1>3 DEF NewAdminCredentials, HoldsKey, KeyInv
  <2>1. pc[h] = "credentials" /\ reply'[h] = Error("InvalidArgument")
    BY <1>3, <2>0, KeyAssumption DEF NewAdminCredentials, Answer, TypeOK
  <2>2. \A k \in OrphanKeys' \ OrphanKeys : k \notin keyFiles BY <1>3 DEF OrphanKeys
  <2>3. QED BY <2>1, <2>2 DEF TriesRemoval, Error
<1>4. CASE DeleteCredentials(h)
  <2>1. keyFiles' \subseteq keyFiles /\ \A g \in Handlers \ {h} : cr'[g] = cr[g]
    BY <1>4 DEF DeleteCredentials, TypeOK
  <2>2. \A k \in OrphanKeys' \ OrphanKeys : k = cr[h] BY <2>1 DEF OrphanKeys
  <2>3. QED BY <1>4, <2>2 DEF TriesRemoval, DeleteCredentials
<1>5. QED
  BY <1>1, <1>2, <1>3, <1>4
     DEF Step, Receive, RejectArguments, AbortBusy, AcquireLock, ExecPlist,
         ExecCreate, ExecDelete, ExecQuota, ReleaseLock, Return

\* Whatever the handlers do and whatever fails, only the death of the
\* process or a failing os.Remove leaves an admin key behind.
THEOREM NoKeyLeak == Spec => KeysRemoved
<1> DEFINE Removed == Crash \/ \A k \in OrphanKeys' \ OrphanKeys :
                                 \E h \in Handlers : TriesRemoval(h, k)
<1>1. TypeOK /\ KeyInv /\ [Next]_vars => [Removed]_vars
  BY StepOrphans DEF Next
<1> HIDE DEF Removed
<1>2. Spec => [][Removed]_vars BY <1>1, TypeCorrect, KeysInductive, PTL DEF Spec
<1>3. QED BY <1>2 DEF Removed, KeysRemoved

-----------------------------------------------------------------------------
(* Check, then act                                                         *)

\* Two handlers about to create the same pool would hold the same lock, so
\* nobody creates a pool between another's plist and create.
LEMMA StepAbsent ==
    ASSUME TypeOK, HandlerShape, MutualExclusion, CheckedAbsent,
           NEW h \in Handlers, Receive(h) \/ Step(h)
    PROVE  CheckedAbsent'
<1>1. SUFFICES ASSUME NEW g \in Handlers, pc'[g] = "create"
               PROVE  pools'[req'[g].vol] = Absent
  BY DEF CheckedAbsent
<1>2. Shape(h) /\ Shape(g) BY DEF HandlerShape
<1>3. CASE g = h
  <2>0. pc[h] # "idle" => req[h].op \in {"create", "delete", "expand"}
    BY <1>2 DEF Shape, Requests, CreateRequests, DeleteRequests, ExpandRequests
  <2>1. ExecPlist(h)
    BY <1>1, <1>3, <2>0 DEF Step, Receive, NewAdminCredentials, AfterCredentials,
       RejectArguments, AbortBusy, AcquireLock, ExecCreate, ExecDelete,
       ExecQuota, DeleteCredentials, ReleaseLock, Return, Goto, TypeOK,
       ExitWithoutKey, ExitWithoutLock, ExitWithLock, ExitWithLockAndKey
  <2>2. QED BY <1>1, <1>3, <2>1 DEF ExecPlist, Goto, ExitWithLockAndKey, TypeOK
<1>4. CASE g # h
  <2>1. pc[g] = "create" /\ req'[g] = req[g]
    BY <1>1, <1>4 DEF Step, Receive, NewAdminCredentials, AfterCredentials,
       RejectArguments, AbortBusy, AcquireLock, ExecPlist, ExecCreate, ExecDelete,
       ExecQuota, DeleteCredentials, ReleaseLock, Return, Goto, TypeOK
  <2>2. pools[req[g].vol] = Absent /\ req[g].vol \in ComposedIDs
    BY <1>2, <2>1, RequestNumbers DEF CheckedAbsent, Shape
  <2>3. CASE ExecCreate(h)
    <3>1. req[g].op = "create" /\ req[h].op = "create"
      BY <1>2, <2>1, <2>3 DEF Shape, ExecCreate
    <3>2. HoldsLock(g) /\ HoldsLock(h)
      BY <2>1, <2>3, <3>1 DEF HoldsLock, ExecCreate
    <3>3. req[g].vol # req[h].vol
      BY <1>4, <3>1, <3>2 DEF MutualExclusion, LockKey
    <3>4. pools'[req[g].vol] = pools[req[g].vol]
      BY <2>2, <2>3, <3>3 DEF ExecCreate, TypeOK
    <3>5. QED BY <2>1, <2>2, <3>4
  <2>4. CASE ExecDelete(h)
    <3>1. pools'[req[g].vol] \in {pools[req[g].vol], Absent}
      BY <2>2, <2>4 DEF ExecDelete, TypeOK
    <3>2. QED BY <2>1, <2>2, <3>1
  <2>5. CASE ExecQuota(h)
    <3>1. pools'[req[g].vol] = pools[req[g].vol]
      BY <2>2, <2>5 DEF ExecQuota, TypeOK
    <3>2. QED BY <2>1, <2>2, <3>1
  <2>6. CASE UNCHANGED pools BY <2>1, <2>2, <2>6
  <2>7. QED
    BY <2>3, <2>4, <2>5, <2>6
       DEF Step, Receive, NewAdminCredentials, RejectArguments, AbortBusy,
           AcquireLock, ExecPlist, DeleteCredentials, ReleaseLock, Return
<1>5. QED BY <1>3, <1>4

LEMMA CrashAbsent == Crash => CheckedAbsent'
  BY DEF Crash, CheckedAbsent

LEMMA StutterAbsent == CheckedAbsent /\ UNCHANGED vars => CheckedAbsent'
  BY DEF vars, CheckedAbsent

LEMMA InitAbsent == Init => CheckedAbsent
  BY DEF Init, CheckedAbsent

\* The absence that plist reported to CreateVolume still holds when its
\* create command runs.
THEOREM CheckThenActSafe == Spec => []CheckedAbsent
<1>1. /\ TypeOK /\ HandlerShape /\ MutualExclusion
      /\ CheckedAbsent /\ [Next]_vars
      => CheckedAbsent'
  BY StepAbsent, CrashAbsent, StutterAbsent DEF Next
<1>2. QED BY <1>1, InitAbsent, TypeCorrect, Mutex, PTL DEF Spec

-----------------------------------------------------------------------------
(***************************************************************************)
(* The controller service implements the safety part of VolumeService: the *)
(* request table, the answers and the pools are the same, and each step of *)
(* a handler is one atomic step of the service or none at all.             *)
(***************************************************************************)

\* The two modules read requests and sizes through the same definitions.
LEMMA SameOperators ==
    /\ \A r : Service!Success(r) = Success(r)
    /\ \A r : Service!CreateQuota(r) = CreateQuota(r)
    /\ \A r : Service!ExpandQuota(r) = ExpandQuota(r)
    /\ \A c : Service!Error(c) = Error(c)
    /\ \A v : Service!Decodes(v) <=> Decodes(v)
    /\ Service!NoReply = NoReply
    /\ Service!NoRequest = NoRequest
    /\ Service!Requests = Requests
    /\ Service!ErrorCodes = ErrorCodes
    /\ Service!ComposedIDs = ComposedIDs
  BY DEF Service!Success, Success, Service!OK, OK, Service!CreateQuota, CreateQuota,
         Service!ExpandQuota, ExpandQuota, Service!Error, Error, Service!Decodes, Decodes,
         Service!NoReply, NoReply, Service!NoRequest, NoRequest, Service!Requests, Requests,
         Service!CreateRequests, CreateRequests, Service!DeleteRequests, DeleteRequests,
         Service!ExpandRequests, ExpandRequests, Service!VolumeIDs, VolumeIDs,
         Service!ErrorCodes, ErrorCodes, Service!ComposedIDs, ComposedIDs,
         Service!RoundUpGiB, RoundUpGiB, Service!RoundOffBytes, RoundOffBytes,
         Service!roundUpSize, roundUpSize, Service!ToFloat64, ToFloat64,
         Service!WrapInt64, WrapInt64, Service!CeilGiB, CeilGiB,
         Service!NearestMultiple, NearestMultiple, Service!Ulp, Ulp

\* The initial states are the service's.
LEMMA InitMaps == Init => Service!Init
  BY SameOperators DEF Init, Service!Init

\* An error without an effect is a refusal.
LEMMA RefuseMaps ==
    ASSUME NEW h \in Handlers, req[h] # NoRequest, reply[h] = NoReply,
           NEW c \in ErrorCodes, Answer(h, Error(c)), UNCHANGED <<pools, req>>
    PROVE  Service!Refuse(h)
  BY SameOperators DEF Answer, Service!Refuse, Service!Undecided

\* Every step of a handler is a step of the service on its behalf, or
\* changes nothing the service knows.
LEMMA StepMaps ==
    ASSUME TypeOK, HandlerShape, KeysArePrivate, NEW h \in Handlers,
           Receive(h) \/ Step(h)
    PROVE  \/ Service!Receive(h) \/ Service!Serve(h)
           \/ UNCHANGED Service!vars
<1>0. /\ Shape(h)
      /\ "Internal" \in ErrorCodes /\ "Aborted" \in ErrorCodes
      /\ "InvalidArgument" \in ErrorCodes
  BY DEF HandlerShape, ErrorCodes
<1>1. pc[h] # "idle" =>
        /\ req[h] \in Requests /\ req[h] # NoRequest
        /\ req[h].op \in {"create", "delete", "expand"}
  BY <1>0 DEF Shape, NoRequest, Requests, CreateRequests, DeleteRequests, ExpandRequests
<1>2. pc[h] \in UndecidedAt <=> reply[h] = NoReply
  BY <1>0 DEF Shape
<1>3. CASE Receive(h)
  BY <1>0, <1>3, SameOperators DEF Receive, Service!Receive, Shape
<1>4. CASE NewAdminCredentials(h)
  <2>1. CASE UNCHANGED reply
    BY <1>4, <2>1 DEF NewAdminCredentials, Service!vars
  <2>2. CASE \E c \in ErrorCodes : Answer(h, Error(c))
    BY <1>1, <1>2, <1>4, <2>2, RefuseMaps
       DEF NewAdminCredentials, UndecidedAt, Service!Serve
  <2>3. QED BY <1>0, <1>4, <2>1, <2>2 DEF NewAdminCredentials, AfterCredentials
<1>5. CASE RejectArguments(h) \/ AbortBusy(h)
  BY <1>0, <1>1, <1>2, <1>5, RefuseMaps
     DEF RejectArguments, AbortBusy, UndecidedAt, Service!Serve
<1>6. CASE AcquireLock(h)
  <2>1. CASE UNCHANGED reply
    BY <1>6, <2>1 DEF AcquireLock, Service!vars
  <2>2. CASE \E c \in ErrorCodes : Answer(h, Error(c))
    BY <1>1, <1>2, <1>6, <2>2, RefuseMaps DEF AcquireLock, UndecidedAt, Service!Serve
  <2>3. QED BY <1>0, <1>6, <2>1, <2>2 DEF AcquireLock
<1>7. CASE ExecPlist(h)
  <2>1. req[h].op = "create" /\ req[h] # NoRequest /\ reply[h] = NoReply
    BY <1>0, <1>1, <1>2, <1>7 DEF ExecPlist, Shape, UndecidedAt
  <2>2. CASE pools[req[h].vol] # Absent /\ Answer(h, Success(req[h]))
    BY <1>7, <2>1, <2>2, SameOperators
       DEF ExecPlist, Answer, Service!Serve, Service!Create, Service!Undecided
  <2>3. CASE UNCHANGED reply
    BY <1>7, <2>3 DEF ExecPlist, Service!vars
  <2>4. CASE Answer(h, Error("Internal"))
    BY <1>0, <1>7, <2>1, <2>4, RefuseMaps DEF ExecPlist, Service!Serve
  <2>5. QED BY <1>7, <2>2, <2>3, <2>4 DEF ExecPlist
<1>8. CASE ExecCreate(h)
  <2>1. req[h].op = "create" /\ req[h] # NoRequest /\ reply[h] = NoReply
    BY <1>0, <1>1, <1>2, <1>8 DEF ExecCreate, Shape, UndecidedAt
  <2>2. CASE /\ pools[req[h].vol] = Absent
             /\ pools' = [pools EXCEPT ![req[h].vol] = CreateQuota(req[h])]
             /\ AnswerCommand(h)
    BY <1>8, <2>1, <2>2, SameOperators
       DEF ExecCreate, AnswerCommand, Answer, Service!Serve, Service!Create,
           Service!Undecided, Service!AnswerEffect
  <2>3. CASE Answer(h, Error("Internal")) /\ UNCHANGED pools
    BY <1>0, <1>8, <2>1, <2>3, RefuseMaps DEF ExecCreate, Service!Serve
  <2>4. QED BY <1>8, <2>2, <2>3 DEF ExecCreate
<1>9. CASE ExecDelete(h)
  <2>1. /\ req[h].op = "delete" /\ req[h] # NoRequest /\ reply[h] = NoReply
        /\ Decodes(req[h].vol)
    BY <1>0, <1>1, <1>2, <1>9 DEF ExecDelete, Shape, UndecidedAt
  <2>2. KeyReadable(h) BY <1>9 DEF ExecDelete, KeysArePrivate, KeyReadable
  <2>3. CASE /\ pools[req[h].vol] # Absent
             /\ pools' = [pools EXCEPT ![req[h].vol] = Absent]
             /\ AnswerCommand(h)
    BY <1>9, <2>1, <2>3, SameOperators
       DEF ExecDelete, AnswerCommand, Answer, Service!Serve, Service!Delete,
           Service!Undecided, Service!AnswerEffect
  <2>4. CASE /\ pools[req[h].vol] = Absent
             /\ Answer(h, Success(req[h]))
             /\ UNCHANGED pools
    BY <1>9, <2>1, <2>4, SameOperators
       DEF ExecDelete, Answer, Service!Serve, Service!Delete, Service!Undecided
  <2>5. CASE Answer(h, Error("Internal")) /\ UNCHANGED pools
    BY <1>0, <1>9, <2>1, <2>5, RefuseMaps DEF ExecDelete, Service!Serve
  <2>6. QED BY <1>9, <2>2, <2>3, <2>4, <2>5 DEF ExecDelete
<1>10. CASE ExecQuota(h)
  <2>1. /\ req[h].op = "expand" /\ req[h] # NoRequest /\ reply[h] = NoReply
        /\ Decodes(req[h].vol)
    BY <1>0, <1>1, <1>2, <1>10 DEF ExecQuota, Shape, UndecidedAt
  <2>2. CASE /\ pools[req[h].vol] # Absent
             /\ pools' = [pools EXCEPT ![req[h].vol] = ExpandQuota(req[h])]
             /\ AnswerCommand(h)
    BY <1>10, <2>1, <2>2, SameOperators
       DEF ExecQuota, AnswerCommand, Answer, Service!Serve, Service!Expand,
           Service!Undecided, Service!AnswerEffect
  <2>3. CASE Answer(h, Error("Internal")) /\ UNCHANGED pools
    BY <1>0, <1>10, <2>1, <2>3, RefuseMaps DEF ExecQuota, Service!Serve
  <2>4. QED BY <1>10, <2>2, <2>3 DEF ExecQuota
<1>11. CASE DeleteCredentials(h) \/ ReleaseLock(h)
  BY <1>11 DEF DeleteCredentials, ReleaseLock, Service!vars
<1>12. CASE Return(h)
  BY <1>2, <1>12, SameOperators
     DEF Return, UndecidedAt, Service!Serve, Service!Return
<1>13. QED
  BY <1>3, <1>4, <1>5, <1>6, <1>7, <1>8, <1>9, <1>10, <1>11, <1>12 DEF Step

LEMMA CrashMaps == Crash => Service!Crash
  BY SameOperators DEF Crash, Service!Crash

\* The controller service implements the atomic volume service: whatever
\* the interleaving of its handlers, their errors and restarts, the pools
\* and the answers are those of requests that act at one moment each.
THEOREM Refinement == Spec => Service!Safe
<1>1. TypeOK /\ HandlerShape /\ KeysArePrivate /\ [Next]_vars
        => [Service!Next]_(Service!vars)
  <2>1. ASSUME TypeOK, HandlerShape, KeysArePrivate, Next
        PROVE  Service!Next \/ UNCHANGED Service!vars
    BY <2>1, StepMaps, CrashMaps DEF Next, Service!Next
  <2>2. UNCHANGED vars => UNCHANGED Service!vars BY DEF vars, Service!vars
  <2>3. QED BY <2>1, <2>2
<1>2. QED BY <1>1, InitMaps, TypeCorrect, KeysPrivate, PTL DEF Spec, Service!Safe

-----------------------------------------------------------------------------
(* The callers: what a claim was promised                                  *)

\* The quota that a request for so many bytes leads to.
Quota(b) == RoundUpGiB(b)

\* The handler has the lock and its command may still act.
Busy(h) == HoldsLock(h) /\ reply[h] = NoReply

Exists(v) == pools[v] # Absent

SidecarTypes ==
    /\ claim \in [ComposedIDs -> {"none", "wanted", "bound", "released", "gone"}]
    /\ want \in [ComposedIDs -> 0..FloatExact]
    /\ told \in [ComposedIDs -> Int]
    /\ awaited \subseteq Handlers
    /\ late \in BOOLEAN

\* What a call under way has to do with its claim: calls are made in the
\* order of the claim's life, a creation names the size of the claim and a
\* call that is waited for the latest one.
Creation(h, v) ==
    /\ claim[v] # "none"
    /\ claim[v] = "wanted" => req[h].bytes = want[v]
    /\ h \in awaited => claim[v] = "wanted"

Expansion(h, v) ==
    /\ claim[v] \in {"bound", "released", "gone"}
    /\ h \in awaited => /\ told[v] < req[h].bytes
                        /\ Exists(v) => pools[v] <= Quota(req[h].bytes)

Deletion(h, v) ==
    /\ claim[v] \in {"released", "gone"}
    /\ h \in awaited => claim[v] = "released"

CallOf(h) ==
    /\ req[h].vol \in ComposedIDs
    /\ req[h].bytes <= want[req[h].vol]
    /\ req[h].op = "create" => Creation(h, req[h].vol)
    /\ req[h].op = "expand" => Expansion(h, req[h].vol)
    /\ req[h].op = "delete" => Deletion(h, req[h].vol)
    /\ reply[h].code = "OK" => reply[h] = Success(req[h])

SameClass(g, h) ==
    req[g].vol = req[h].vol /\ (req[g].op = "expand" <=> req[h].op = "expand")

\* One call of each kind is waited for, and the expansion that is waited for
\* is the largest so far.
OneCall ==
    /\ \A h \in awaited : pc[h] # "idle"
    /\ \A g, h \in awaited : SameClass(g, h) => g = h
    /\ \A g \in Handlers, h \in awaited :
          pc[g] # "idle" /\ req[h].op = "expand" /\ req[g].vol = req[h].vol
             => req[g].bytes <= req[h].bytes

\* No pool is larger than its claim.
NoLarger ==
    \A v \in ComposedIDs :
        Exists(v) => pools[v] <= Quota(want[v]) /\ claim[v] # "none"

CallsInv ==
    /\ SidecarTypes
    /\ \A h \in Handlers : pc[h] # "idle" => CallOf(h)
    /\ OneCall
    /\ NoLarger

\* While no forgotten call has taken a lock late.  A creation only acts for
\* a claim that still wants its volume, an expansion only makes a pool
\* larger than what was told and than it was; an answer that is waited for
\* still holds.
Orderly(h, v) ==
    /\ req[h].op = "create" /\ Busy(h) => claim[v] = "wanted"
    /\ req[h].op = "expand" /\ Busy(h) =>
          told[v] < req[h].bytes /\ (Exists(v) => pools[v] <= Quota(req[h].bytes))

Awaits(h, v) ==
    h \in awaited /\ reply[h].code = "OK" =>
        /\ req[h].op = "create" => Exists(v)
        /\ req[h].op = "expand" /\ claim[v] = "bound" => pools[v] = Quota(req[h].bytes)
        /\ req[h].op = "delete" => ~Exists(v)

\* Nobody else is about to act on what an answer that is waited for says.
Settled ==
    \A g \in Handlers, h \in awaited :
        reply[h].code = "OK" /\ Busy(g) /\ req[g].vol = req[h].vol => req[g].op # req[h].op

Promised(v) ==
    /\ claim[v] = "wanted" /\ Exists(v) => pools[v] = Quota(want[v])
    /\ claim[v] = "bound" => Exists(v) /\ GiBToBytes(pools[v]) >= told[v]
    /\ claim[v] = "gone" => ~Exists(v)

OrderInv ==
    /\ \A h \in Handlers :
          pc[h] # "idle" => Orderly(h, req[h].vol) /\ Awaits(h, req[h].vol)
    /\ Settled
    /\ \A v \in ComposedIDs : Promised(v)

-----------------------------------------------------------------------------
(* The callers are among those that ControllerServer allows                *)

LEMMA ProvisioningImplements == [ProvisioningNext]_allVars => [Next]_vars
<1> SUFFICES ASSUME [ProvisioningNext]_allVars PROVE [Next]_vars OBVIOUS
<1>1. CASE UNCHANGED vars BY <1>1
<1>2. ASSUME NEW v \in ComposedIDs, Call(v) PROVE Next
  BY <1>2 DEF Call, Provision, Resize, Delete, Ask, Next
<1>3. ASSUME NEW v \in ComposedIDs, AddClaim(v) \/ GrowClaim(v) \/ ReleaseClaim(v)
      PROVE  UNCHANGED vars
  BY <1>3 DEF AddClaim, GrowClaim, ReleaseClaim
<1>4. ASSUME NEW h \in Handlers, HandlerStep(h) \/ ReceiveAnswer(h) \/ LateAnswer(h)
      PROVE  Next
  BY <1>4 DEF HandlerStep, Work, ReceiveAnswer, LateAnswer, Step, Next
<1>5. ASSUME NEW h \in Handlers, GiveUp(h) PROVE UNCHANGED vars BY <1>5 DEF GiveUp
<1>6. CASE PluginCrash BY <1>6 DEF PluginCrash, Next
<1>7. CASE UNCHANGED allVars BY <1>7 DEF allVars
<1>8. QED BY <1>1, <1>2, <1>3, <1>4, <1>5, <1>6, <1>7 DEF ProvisioningNext

\* What holds of the controller whoever calls it.
ServerInv == TypeOK /\ HandlerShape /\ LockInv /\ KeyInv

LEMMA ServerInductive == ServerInv /\ [Next]_vars => ServerInv'
  BY StepShape, CrashShape, StutterShape, StepLocks, CrashLocks, StutterLocks,
     StepKeys, CrashKeys, StutterKeys DEF ServerInv, Next

-----------------------------------------------------------------------------
(* Sizes of claims                                                         *)

LEMMA QuotaFacts ==
    ASSUME NEW b \in 1..FloatExact
    PROVE  /\ b \in Nat \ {0}
           /\ Quota(b) \in Nat
           /\ GiBToBytes(Quota(b)) >= b
           /\ GiBToBytes(Quota(b)) \in Nat
           /\ RoundOffBytes(b) = GiBToBytes(Quota(b))
<1>1. b \in Nat \ {0} BY SizesAssumption
<1>2. RoundUpGiB(b) \in Nat /\ RoundUpGiB(b) * GiB >= b BY <1>1, RoundUpLeast
<1>3. RoundUpGiB(b) * GiB \in Nat BY <1>2, SizesAssumption
<1>4. QED BY <1>1, <1>2, <1>3, RoundOffIsRoundUp DEF Quota, GiBToBytes

\* A larger claim has no smaller quota.
LEMMA QuotaMonotone ==
    ASSUME NEW a \in 1..FloatExact, NEW b \in 1..FloatExact, a <= b
    PROVE  Quota(a) <= Quota(b)
<1>1. /\ a \in Nat \ {0} /\ b \in Nat \ {0} /\ GiB \in Nat \ {0} BY SizesAssumption
<1>2. PICK m \in Nat : m = Quota(a) /\ (m - 1) * GiB < a BY <1>1, RoundUpLeast DEF Quota
<1>3. PICK n \in Nat : n = Quota(b) /\ n * GiB >= b BY <1>1, RoundUpLeast DEF Quota
<1>4. (m - 1) * GiB < n * GiB BY <1>1, <1>2, <1>3
<1>5. m - 1 < n BY <1>1, <1>4, FactorOrder
<1>6. QED BY <1>2, <1>3, <1>5

\* The sidecars' creations and expansions set the same quota for the same
\* size and report it.
LEMMA RequestQuotas ==
    ASSUME NEW r \in Requests, r.op # "delete"
    PROVE  /\ r.bytes \in 1..FloatExact
           /\ CreateQuota(r) = Quota(r.bytes)
           /\ ExpandQuota(r) = Quota(r.bytes)
           /\ Success(r).capacity = GiBToBytes(Quota(r.bytes))
<1>1. r.bytes \in 1..FloatExact
  BY RequestsAssumption, ProvisioningAssumption
     DEF Requests, CreateRequests, DeleteRequests, ExpandRequests
<1>2. CreateQuota(r) = Quota(r.bytes) BY <1>1, RoundTwice DEF CreateQuota, Quota
<1>3. Success(r).capacity = GiBToBytes(Quota(r.bytes))
  BY <1>1, QuotaFacts DEF Success, OK
<1>4. QED BY <1>1, <1>2, <1>3 DEF ExpandQuota, Quota

-----------------------------------------------------------------------------
(* The steps of a handler, as its callers notice them                      *)

\* Requests stay, other handlers too.
Kept(h) ==
    /\ UNCHANGED req
    /\ pc[h] # "idle" /\ pc'[h] # "idle"
    /\ \A g \in Handlers \ {h} : pc'[g] = pc[g] /\ reply'[g] = reply[g]

\* The handler has run its command.
Answers(h) == reply'[h] = Success(req[h]) \/ (reply'[h] # NoReply /\ reply'[h].code # "OK")

Passes(h) ==
    /\ UNCHANGED pools
    /\ reply'[h] = reply[h] \/ reply'[h].code # "OK"
    /\ Busy(h)' => Busy(h)

Takes(h) ==
    /\ pc[h] = "lock"
    /\ volumeLocks' # volumeLocks
    /\ UNCHANGED pools
    /\ reply'[h].code # "OK"

Finds(h) ==
    /\ Busy(h) /\ req[h].op = "create" /\ Exists(req[h].vol)
    /\ UNCHANGED pools
    /\ reply'[h] = Success(req[h])

Creates(h) ==
    /\ Busy(h) /\ req[h].op = "create" /\ ~Exists(req[h].vol)
    /\ pools' = [pools EXCEPT ![req[h].vol] = Quota(req[h].bytes)]
    /\ Answers(h)

Deletes(h) ==
    /\ Busy(h) /\ req[h].op = "delete"
    /\ pools' = pools \/ pools' = [pools EXCEPT ![req[h].vol] = Absent]
    /\ Answers(h)
    /\ reply'[h].code = "OK" => pools'[req[h].vol] = Absent

Resizes(h) ==
    /\ pc[h] = "quota"
    /\ Busy(h) /\ req[h].op = "expand" /\ Exists(req[h].vol)
    /\ pools' = [pools EXCEPT ![req[h].vol] = Quota(req[h].bytes)]
    /\ Answers(h)

\* Every step of a handler is one of these.
LEMMA WorkEffects ==
    ASSUME ServerInv, NEW h \in Handlers, Work(h)
    PROVE  /\ Kept(h)
           /\ \/ Passes(h) \/ Takes(h) \/ Finds(h)
              \/ Creates(h) \/ Deletes(h) \/ Resizes(h)
<1>0. TypeOK /\ Shape(h) /\ pc[h] # "return" /\ Step(h) /\ ~Return(h)
  BY DEF ServerInv, HandlerShape, Work, Return
<1>r. /\ pc[h] # "idle"
      /\ req[h] \in Requests /\ req[h].op \in {"create", "delete", "expand"}
  BY <1>0 DEF Step, NewAdminCredentials, RejectArguments, AbortBusy, AcquireLock,
     ExecPlist, ExecCreate, ExecDelete, ExecQuota, DeleteCredentials, ReleaseLock,
     Shape, Requests, CreateRequests, DeleteRequests, ExpandRequests
<1>e. \A c \in {"Internal", "Aborted", "InvalidArgument"} :
         Error(c) # NoReply /\ Error(c).code # "OK"
  BY ReplyTypes DEF ErrorCodes
<1>n. NoReply.code # "OK" BY DEF NoReply
<1>b. Busy(h) => pc[h] \in {"plist", "create", "credentials", "delete", "quota"}
  BY <1>0 DEF Busy, HoldsLock, Shape, UndecidedAt
<1>k. Kept(h)
  BY <1>0, <1>r DEF Kept, Step, NewAdminCredentials, AfterCredentials, RejectArguments,
     AbortBusy, AcquireLock, ExecPlist, ExecCreate, ExecDelete, ExecQuota,
     DeleteCredentials, ReleaseLock, ExitWithoutKey, ExitWithoutLock, ExitWithLock,
     ExitWithLockAndKey, AnswerCommand, Goto, Answer, TypeOK
<1>1. CASE NewAdminCredentials(h)
  <2>1. UNCHANGED pools /\ pc[h] = "credentials" /\ reply[h] = NoReply /\ UNCHANGED req
    BY <1>0, <1>1 DEF NewAdminCredentials, Shape, UndecidedAt
  <2>2. reply'[h] = NoReply \/ (reply'[h].code # "OK" /\ reply'[h] # NoReply)
    BY <1>0, <1>1, <1>e, <2>1 DEF NewAdminCredentials, AfterCredentials, Answer, TypeOK
  <2>3. ASSUME Busy(h)' PROVE Busy(h)
    <3>1. AfterCredentials(h)
      BY <1>0, <1>1, <1>e, <2>3 DEF NewAdminCredentials, Answer, Busy, TypeOK
    <3>2. req[h].op # "create"
      BY <1>0, <1>r, <2>1, <2>3, <3>1 DEF AfterCredentials, Goto, Busy, HoldsLock, TypeOK
    <3>3. QED BY <2>1, <3>2 DEF Busy, HoldsLock
  <2>4. QED BY <1>k, <2>1, <2>2, <2>3 DEF Passes
<1>2. CASE RejectArguments(h) \/ AbortBusy(h)
  <2>1. UNCHANGED pools /\ reply'[h] # NoReply /\ reply'[h].code # "OK"
    BY <1>0, <1>2, <1>e DEF RejectArguments, AbortBusy, Answer, TypeOK
  <2>2. QED BY <1>k, <2>1 DEF Passes, Busy
<1>3. CASE AcquireLock(h)
  <2>1. pc[h] = "lock" /\ UNCHANGED pools /\ reply[h] = NoReply
    BY <1>0, <1>3 DEF AcquireLock, Shape, UndecidedAt
  <2>2. volumeLocks' # volumeLocks BY <1>3 DEF AcquireLock, TryAcquire, Acquired
  <2>3. reply'[h].code # "OK"
    BY <1>0, <1>3, <1>e, <1>n, <2>1 DEF AcquireLock, Answer, TypeOK
  <2>4. QED BY <1>k, <2>1, <2>2, <2>3 DEF Takes
<1>4. CASE ExecPlist(h)
  <2>1. Busy(h) /\ req[h].op = "create" /\ reply[h] = NoReply
    BY <1>0, <1>4 DEF ExecPlist, Shape, UndecidedAt, Busy, HoldsLock
  <2>2. CASE Exists(req[h].vol) /\ Answer(h, Success(req[h]))
    BY <1>0, <1>4, <1>k, <2>1, <2>2 DEF ExecPlist, Finds, Answer, TypeOK
  <2>3. CASE UNCHANGED reply \/ Answer(h, Error("Internal"))
    BY <1>0, <1>4, <1>e, <1>k, <2>1, <2>3 DEF ExecPlist, Passes, Answer, TypeOK
  <2>4. QED BY <1>4, <2>2, <2>3 DEF ExecPlist, Exists
<1>5. CASE ExecCreate(h)
  <2>1. Busy(h) /\ req[h].op = "create"
    BY <1>0, <1>5 DEF ExecCreate, Shape, UndecidedAt, Busy, HoldsLock
  <2>2. CASE ~Exists(req[h].vol) /\ AnswerCommand(h)
             /\ pools' = [pools EXCEPT ![req[h].vol] = CreateQuota(req[h])]
    <3>1. CreateQuota(req[h]) = Quota(req[h].bytes) BY <1>r, <2>1, RequestQuotas
    <3>2. Answers(h)
      BY <1>0, <1>e, <2>2 DEF AnswerCommand, Answer, Answers, TypeOK
    <3>3. QED BY <1>k, <2>1, <2>2, <3>1, <3>2 DEF Creates
  <2>3. CASE UNCHANGED pools /\ Answer(h, Error("Internal"))
    BY <1>0, <1>e, <1>k, <2>1, <2>3 DEF Passes, Answer, TypeOK
  <2>4. QED BY <1>5, <2>2, <2>3 DEF ExecCreate, Exists
<1>6. CASE ExecDelete(h)
  <2>1. Busy(h) /\ req[h].op = "delete" /\ req[h].vol \in ComposedIDs
    BY <1>0, <1>6 DEF ExecDelete, Shape, UndecidedAt, Busy, HoldsLock, Decodes
  <2>2. KeyReadable(h)
    BY <1>6, <2>1 DEF ExecDelete, ServerInv, KeyInv, HoldsKey, KeyReadable
  <2>3. Answers(h)
    BY <1>0, <1>e, <1>6 DEF ExecDelete, AnswerCommand, Answer, Answers, TypeOK
  <2>4. pools' = pools \/ pools' = [pools EXCEPT ![req[h].vol] = Absent]
    BY <1>6 DEF ExecDelete
  <2>5. reply'[h].code = "OK" => pools'[req[h].vol] = Absent
    BY <1>0, <1>e, <1>6, <2>1, <2>2 DEF ExecDelete, Answer, TypeOK
  <2>6. QED BY <1>k, <2>1, <2>3, <2>4, <2>5 DEF Deletes
<1>7. CASE ExecQuota(h)
  <2>1. Busy(h) /\ req[h].op = "expand" /\ pc[h] = "quota"
    BY <1>0, <1>7 DEF ExecQuota, Shape, UndecidedAt, Busy, HoldsLock
  <2>2. CASE Exists(req[h].vol) /\ AnswerCommand(h)
             /\ pools' = [pools EXCEPT ![req[h].vol] = ExpandQuota(req[h])]
    <3>1. ExpandQuota(req[h]) = Quota(req[h].bytes) BY <1>r, <2>1, RequestQuotas
    <3>2. Answers(h)
      BY <1>0, <1>e, <2>2 DEF AnswerCommand, Answer, Answers, TypeOK
    <3>3. QED BY <1>k, <2>1, <2>2, <3>1, <3>2 DEF Resizes
  <2>3. CASE UNCHANGED pools /\ Answer(h, Error("Internal"))
    BY <1>0, <1>e, <1>k, <2>1, <2>3 DEF Passes, Answer, TypeOK
  <2>4. QED BY <1>7, <2>2, <2>3 DEF ExecQuota, Exists
<1>8. CASE DeleteCredentials(h) \/ ReleaseLock(h)
  <2>1. UNCHANGED <<pools, reply>> BY <1>8 DEF DeleteCredentials, ReleaseLock
  <2>2. ~Busy(h)
    BY <1>0, <1>8 DEF DeleteCredentials, ReleaseLock, Shape, UndecidedAt, Busy
  <2>3. reply'[h] # NoReply
    BY <1>0, <1>8, <2>1 DEF DeleteCredentials, ReleaseLock, Shape, UndecidedAt
  <2>4. QED BY <1>k, <2>1, <2>3 DEF Passes, Busy
<1>9. QED BY <1>0, <1>1, <1>2, <1>3, <1>4, <1>5, <1>6, <1>7, <1>8 DEF Step

-----------------------------------------------------------------------------
(* The order of the calls                                                  *)

\* Sizes are numbers that the quotas compare.
LEMMA SizesOfCalls ==
    ASSUME ServerInv, SidecarTypes, NEW h \in Handlers, pc[h] # "idle"
    PROVE  /\ req[h] \in Requests
           /\ req[h].op \in {"create", "delete", "expand"}
           /\ req[h].bytes \in Nat
           /\ req[h].op # "delete" =>
                 req[h].bytes \in 1..FloatExact /\ Quota(req[h].bytes) \in Nat
           /\ req[h].op = "delete" => req[h].bytes = 0
<1>1. req[h] \in Requests BY DEF ServerInv, HandlerShape, Shape
<1>2. /\ req[h].op \in {"create", "delete", "expand"}
      /\ req[h].op = "delete" => req[h].bytes = 0
  BY <1>1 DEF Requests, CreateRequests, DeleteRequests, ExpandRequests
<1>3. req[h].op # "delete" => req[h].bytes \in 1..FloatExact /\ Quota(req[h].bytes) \in Nat
  BY <1>1, RequestQuotas, QuotaFacts
<1>4. req[h].bytes \in Nat BY <1>2, <1>3, SizesAssumption
<1>5. QED BY <1>1, <1>2, <1>3, <1>4

\* A step of a handler leaves a pool, takes it away or gives it the quota of
\* its request.
LEMMA PoolEffects ==
    ASSUME ServerInv, CallsInv, NEW h \in Handlers, Kept(h),
           Passes(h) \/ Takes(h) \/ Finds(h) \/ Creates(h) \/ Deletes(h) \/ Resizes(h),
           NEW v \in ComposedIDs, Exists(v)'
    PROVE  \/ pools'[v] = pools[v] /\ Exists(v)
           \/ /\ v = req[h].vol /\ req[h].op \in {"create", "expand"}
              /\ pools'[v] = Quota(req[h].bytes)
<1>1. pools \in [ComposedIDs -> Int \cup {Absent}] BY DEF ServerInv, TypeOK
<1>2. CASE Passes(h) \/ Takes(h) \/ Finds(h) BY <1>2 DEF Passes, Takes, Finds, Exists
<1>3. CASE Creates(h) \/ Resizes(h) BY <1>1, <1>3 DEF Creates, Resizes, Exists
<1>4. CASE Deletes(h) BY <1>1, <1>4 DEF Deletes, Exists
<1>5. QED BY <1>2, <1>3, <1>4

\* The steps of the handlers keep the order.
LEMMA WorkCalls ==
    ASSUME ServerInv, CallsInv, NEW h \in Handlers, Kept(h),
           Passes(h) \/ Takes(h) \/ Finds(h) \/ Creates(h) \/ Deletes(h) \/ Resizes(h),
           UNCHANGED <<claim, want, told, awaited>>, late' \in BOOLEAN
    PROVE  CallsInv'
<1>0. SidecarTypes /\ OneCall /\ NoLarger /\ \A g \in Handlers : pc[g] # "idle" => CallOf(g)
  BY DEF CallsInv
<1>1. SidecarTypes' BY <1>0 DEF SidecarTypes
<1>2. \A g \in Handlers : pc'[g] # "idle" <=> pc[g] # "idle" BY DEF Kept
<1>3. OneCall' BY <1>0, <1>2 DEF OneCall, SameClass, SidecarTypes, Kept
<1>4. ASSUME NEW v \in ComposedIDs, Exists(v)'
      PROVE  pools'[v] <= Quota(want[v]) /\ claim[v] # "none"
  <2>1. CASE pools'[v] = pools[v] /\ Exists(v) BY <1>0, <2>1 DEF NoLarger
  <2>2. CASE /\ v = req[h].vol /\ req[h].op \in {"create", "expand"}
             /\ pools'[v] = Quota(req[h].bytes)
    <3>1. CallOf(h) /\ pc[h] # "idle" BY <1>0 DEF Kept
    <3>2. req[h].bytes \in 1..FloatExact /\ req[h].bytes <= want[v]
      BY <1>0, <2>2, <3>1, SizesOfCalls DEF CallOf
    <3>3. want[v] \in 0..FloatExact BY <1>0 DEF SidecarTypes
    <3>4. want[v] \in 1..FloatExact BY <3>2, <3>3, SizesAssumption
    <3>5. Quota(req[h].bytes) <= Quota(want[v]) BY <3>2, <3>4, QuotaMonotone
    <3>6. claim[v] # "none" BY <2>2, <3>1 DEF CallOf, Creation, Expansion
    <3>7. QED BY <2>2, <3>5, <3>6
  <2>3. QED BY <1>4, <2>1, <2>2, PoolEffects
<1>5. NoLarger' BY <1>4 DEF NoLarger
<1>6. ASSUME NEW g \in Handlers, pc'[g] # "idle" PROVE CallOf(g)'
  <2>1. CallOf(g) /\ req'[g] = req[g] /\ pc[g] # "idle" BY <1>0, <1>2, <1>6 DEF Kept
  <2> PICK v \in ComposedIDs : v = req[g].vol BY <2>1 DEF CallOf
  <2>2. reply'[g].code = "OK" => reply'[g] = Success(req[g])
    <3>1. CASE g # h BY <2>1, <3>1 DEF Kept, CallOf
    <3>2. CASE g = h
      BY <2>1, <3>2 DEF CallOf, Passes, Takes, Finds, Creates, Deletes, Resizes, Answers
    <3>3. QED BY <3>1, <3>2
  <2>3. ASSUME g \in awaited, req[g].op = "expand", Exists(v)'
        PROVE  pools'[v] <= Quota(req[g].bytes)
    <3>1. CASE pools'[v] = pools[v] /\ Exists(v)
      BY <2>1, <2>3, <3>1 DEF CallOf, Expansion
    <3>2. CASE /\ v = req[h].vol /\ req[h].op \in {"create", "expand"}
               /\ pools'[v] = Quota(req[h].bytes)
      <4>1. pc[h] # "idle" BY DEF Kept
      <4>2. req[h].bytes <= req[g].bytes BY <1>0, <2>1, <2>3, <3>2, <4>1 DEF OneCall
      <4>3. req[h].bytes \in 1..FloatExact /\ req[g].bytes \in 1..FloatExact
        BY <1>0, <2>1, <2>3, <3>2, <4>1, SizesOfCalls
      <4>4. QED BY <3>2, <4>2, <4>3, QuotaMonotone
    <3>3. QED BY <2>3, <3>1, <3>2, PoolEffects
  <2>4. QED BY <2>1, <2>2, <2>3 DEF CallOf, Creation, Expansion, Deletion
<1>7. QED BY <1>1, <1>3, <1>5, <1>6 DEF CallsInv

-----------------------------------------------------------------------------
(* What the answers are worth, as long as no forgotten call is late        *)

\* Two handlers with the lock never do the same to one volume, nor does one
\* expand what another deletes.
LEMMA BusyAlone ==
    ASSUME ServerInv, NEW g \in Handlers, NEW h \in Handlers, Busy(g), Busy(h),
           req[g].vol = req[h].vol,
           req[g].op = "create" <=> req[h].op = "create"
    PROVE  g = h
  BY DEF ServerInv, LockInv, MutualExclusion, Busy, LockKey

\* A handler that has answered is not busy.
LEMMA AnsweredIdle ==
    ASSUME NEW h \in Handlers, Answers(h) \/ reply'[h] = Success(req[h])
    PROVE  ~Busy(h)'
<1>1. Success(req[h]) # NoReply BY DEF Success, OK, NoReply
<1>2. QED BY <1>1 DEF Answers, Busy

\* Busy handlers other than the one that steps are the same.
LEMMA BusyOthers ==
    ASSUME NEW h \in Handlers, Kept(h), NEW g \in Handlers, g # h
    PROVE  Busy(g)' <=> Busy(g)
  BY DEF Kept, Busy, HoldsLock

\* A step that neither acts nor decides OK.
LEMMA QuietOrder ==
    ASSUME OrderInv, awaited \subseteq Handlers,
           NEW h \in Handlers, Kept(h), UNCHANGED <<pools, claim, want, told, awaited>>,
           reply'[h] = reply[h] \/ reply'[h].code # "OK",
           Busy(h)' => Busy(h) \/ Orderly(h, req[h].vol)',
           Busy(h)' /\ ~Busy(h) =>
              \A k \in awaited : k # h /\ reply[k].code = "OK" /\ req[h].vol = req[k].vol
                                    => req[h].op # req[k].op
    PROVE  OrderInv'
<1>1. \A g \in Handlers : Busy(g)' => Busy(g) \/ g = h BY BusyOthers
<1>2. \A g \in Handlers : reply'[g].code = "OK" => reply[g].code = "OK" BY DEF Kept
<1>3. ASSUME NEW g \in Handlers, pc'[g] # "idle"
      PROVE  Orderly(g, req[g].vol)' /\ Awaits(g, req[g].vol)'
  <2>1. pc[g] # "idle" BY <1>3 DEF Kept
  <2>2. Orderly(g, req[g].vol) /\ Awaits(g, req[g].vol) BY <2>1 DEF OrderInv
  <2>3. UNCHANGED req BY DEF Kept
  <2>4. Awaits(g, req[g].vol)' BY <1>2, <2>2, <2>3 DEF Awaits, Exists
  <2>5. Orderly(g, req[g].vol)' BY <1>1, <2>2, <2>3 DEF Orderly, Exists
  <2>6. QED BY <2>4, <2>5
<1>4. Settled'
  <2> SUFFICES ASSUME NEW g \in Handlers, NEW k \in awaited, reply'[k].code = "OK", Busy(g)',
                      req[g].vol = req[k].vol
               PROVE  req[g].op # req[k].op
    BY DEF Settled, Kept
  <2>1. reply[k].code = "OK" BY <1>2
  <2>2. CASE Busy(g) BY <2>1, <2>2 DEF OrderInv, Settled
  <2>3. CASE ~Busy(g)
    <3>1. g = h BY <1>1, <2>3
    <3>2. k # h BY <3>1 DEF Busy, NoReply
    <3>3. QED BY <2>1, <2>3, <3>1, <3>2
  <2>4. QED BY <2>2, <2>3
<1>5. \A v \in ComposedIDs : Promised(v)' BY DEF OrderInv, Promised, Exists
<1>6. QED BY <1>3, <1>4, <1>5 DEF OrderInv

\* A call that takes its lock while it is waited for.
LEMMA TakesOrder ==
    ASSUME ServerInv, CallsInv, OrderInv, NEW h \in awaited, Kept(h), Takes(h),
           UNCHANGED <<claim, want, told, awaited>>
    PROVE  OrderInv'
<1>0. h \in Handlers /\ awaited \subseteq Handlers BY DEF CallsInv, SidecarTypes
<1>1. CallOf(h) /\ UNCHANGED req /\ UNCHANGED pools
  BY <1>0 DEF CallsInv, Kept, Takes
<1>2. Orderly(h, req[h].vol)'
  BY <1>1 DEF CallOf, Creation, Expansion, Orderly, Exists
<1>3. ASSUME NEW k \in awaited, k # h, req[h].vol = req[k].vol PROVE req[h].op # req[k].op
  BY <1>3 DEF CallsInv, OneCall, SameClass
<1>4. QED BY <1>0, <1>1, <1>2, <1>3, QuietOrder DEF Takes

\* A command acts or finds its pool: then the handler has decided, and no
\* other one does the same to the volume.
LEMMA ActsOrder ==
    ASSUME ServerInv, CallsInv, OrderInv, NEW h \in Handlers, Kept(h), Busy(h), ~Busy(h)',
           UNCHANGED <<claim, want, told, awaited>>,
           NEW v \in ComposedIDs, v = req[h].vol,
           \A u \in ComposedIDs \ {v} : pools'[u] = pools[u],
           \A g \in Handlers : pc[g] # "idle" /\ req[g].vol = v /\ Busy(g) /\ g # h
              => Orderly(g, v)',
           \A g \in awaited : req[g].vol = v => Awaits(g, v)',
           Promised(v)'
    PROVE  OrderInv'
<1>0. awaited \subseteq Handlers /\ UNCHANGED req BY DEF CallsInv, SidecarTypes, Kept
<1>1. ASSUME NEW g \in Handlers, pc'[g] # "idle"
      PROVE  Orderly(g, req[g].vol)' /\ Awaits(g, req[g].vol)'
  <2>1. pc[g] # "idle" BY <1>1 DEF Kept
  <2>2. PICK u \in ComposedIDs : u = req[g].vol BY <2>1 DEF CallsInv, CallOf
  <2>3. Orderly(g, u) /\ Awaits(g, u) BY <2>1, <2>2 DEF OrderInv
  <2>4. Orderly(g, u)'
    <3>1. CASE ~Busy(g)' BY <3>1 DEF Orderly
    <3>2. CASE Busy(g)' /\ u = v BY <1>0, <2>1, <2>2, <3>2, BusyOthers
    <3>3. CASE Busy(g)' /\ u # v
      <4>1. Busy(g) /\ g # h BY <3>3, BusyOthers
      <4>2. pools'[u] = pools[u] BY <3>3
      <4>3. QED BY <1>0, <2>3, <4>1, <4>2 DEF Orderly, Exists
    <3>4. QED BY <3>1, <3>2, <3>3
  <2>5. Awaits(g, u)'
    <3>1. CASE g \notin awaited BY <3>1 DEF Awaits
    <3>2. CASE g \in awaited /\ u = v BY <2>2, <3>2
    <3>3. CASE g \in awaited /\ u # v
      <4>1. g # h BY <2>2, <3>3
      <4>2. pools'[u] = pools[u] /\ reply'[g] = reply[g] BY <3>3, <4>1 DEF Kept
      <4>3. QED BY <1>0, <2>3, <4>2 DEF Awaits, Exists
    <3>4. QED BY <3>1, <3>2, <3>3
  <2>6. QED BY <1>0, <2>2, <2>4, <2>5
<1>2. Settled'
  <2> SUFFICES ASSUME NEW g \in Handlers, NEW k \in awaited, reply'[k].code = "OK", Busy(g)',
                      req[g].vol = req[k].vol, req[g].op = req[k].op
               PROVE  FALSE
    BY <1>0 DEF Settled
  <2>1. Busy(g) /\ g # h BY BusyOthers
  <2>2. CASE k = h BY <2>1, <2>2, BusyAlone
  <2>3. CASE k # h
    <3>1. reply[k].code = "OK" BY <1>0, <2>3 DEF Kept
    <3>2. QED BY <2>1, <3>1 DEF OrderInv, Settled
  <2>4. QED BY <2>2, <2>3
<1>3. ASSUME NEW u \in ComposedIDs PROVE Promised(u)'
  <2>1. CASE u = v BY <2>1
  <2>2. CASE u # v
    <3>1. pools'[u] = pools[u] /\ Promised(u) BY <2>2 DEF OrderInv
    <3>2. QED BY <3>1 DEF Promised, Exists
  <2>3. QED BY <2>1, <2>2
<1>4. QED BY <1>1, <1>2, <1>3 DEF OrderInv

LEMMA WorkOrder ==
    ASSUME ServerInv, CallsInv, OrderInv, NEW h \in Handlers, Kept(h),
           Passes(h) \/ Takes(h) \/ Finds(h) \/ Creates(h) \/ Deletes(h) \/ Resizes(h),
           Takes(h) => h \in awaited,
           UNCHANGED <<claim, want, told, awaited>>
    PROVE  OrderInv'
<1>0. /\ awaited \subseteq Handlers /\ UNCHANGED req /\ pc[h] # "idle"
      /\ \A g \in awaited : pc[g] # "idle"
      /\ \A g \in Handlers : pc[g] # "idle" => CallOf(g)
      /\ pools \in [ComposedIDs -> Int \cup {Absent}]
  BY DEF CallsInv, SidecarTypes, OneCall, Kept, ServerInv, TypeOK
<1>1. CASE Passes(h) BY <1>0, <1>1, QuietOrder DEF Passes
<1>2. CASE Takes(h) BY <1>2, TakesOrder
<1>3. PICK v \in ComposedIDs : v = req[h].vol BY <1>0 DEF CallOf
<1>4. Orderly(h, v) /\ Awaits(h, v) /\ Promised(v) BY <1>0, <1>3 DEF OrderInv
<1>g. \A g \in Handlers : pc[g] # "idle" /\ req[g].vol = v => Orderly(g, v) /\ Awaits(g, v)
  BY DEF OrderInv
<1>5. CASE Finds(h)
  <2>1. Busy(h) /\ ~Busy(h)' /\ UNCHANGED pools /\ Exists(v) /\ req[h].op = "create"
    BY <1>3, <1>5, AnsweredIdle DEF Finds
  <2>2. ASSUME NEW g \in Handlers, pc[g] # "idle", req[g].vol = v, Busy(g), g # h
        PROVE  Orderly(g, v)'
    <3>1. Busy(g)' <=> Busy(g) BY <2>2, BusyOthers
    <3>2. QED BY <1>0, <1>g, <2>1, <2>2, <3>1 DEF Orderly, Exists
  <2>3. ASSUME NEW g \in awaited, req[g].vol = v PROVE Awaits(g, v)'
    <3>1. CASE g = h BY <1>0, <2>1, <3>1 DEF Awaits, Exists
    <3>2. CASE g # h
      <4>1. reply'[g] = reply[g] /\ Awaits(g, v) BY <1>0, <1>g, <2>3, <3>2 DEF Kept
      <4>2. QED BY <1>0, <2>1, <4>1 DEF Awaits, Exists
    <3>3. QED BY <3>1, <3>2
  <2>4. Promised(v)' BY <1>4, <2>1 DEF Promised, Exists
  <2>5. QED BY <1>3, <2>1, <2>2, <2>3, <2>4, ActsOrder
<1>6. CASE Creates(h)
  <2>1. /\ Busy(h) /\ ~Busy(h)' /\ req[h].op = "create" /\ claim[v] = "wanted"
        /\ pools'[v] = Quota(req[h].bytes) /\ \A u \in ComposedIDs \ {v} : pools'[u] = pools[u]
    BY <1>0, <1>3, <1>4, <1>6, AnsweredIdle DEF Creates, Orderly
  <2>2. Exists(v)'
    <3>1. Quota(req[h].bytes) \in Nat BY <1>0, <2>1, SizesOfCalls DEF CallsInv
    <3>2. QED BY <2>1, <3>1, RequestsAssumption DEF Exists
  <2>3. ASSUME NEW g \in Handlers, pc[g] # "idle", req[g].vol = v
        PROVE  req[g].op = "create"
    <3>1. req[g].op \in {"create", "delete", "expand"} BY <2>3, SizesOfCalls DEF CallsInv
    <3>2. QED BY <1>0, <2>1, <2>3, <3>1 DEF CallOf, Expansion, Deletion
  <2>4. \A g \in Handlers : pc[g] # "idle" /\ req[g].vol = v => Orderly(g, v)' /\ Awaits(g, v)'
    BY <1>0, <2>1, <2>2, <2>3 DEF Orderly, Awaits
  <2>5. Promised(v)'
    <3>1. req[h].bytes = want[v] BY <1>0, <1>3, <2>1 DEF CallOf, Creation
    <3>2. QED BY <2>1, <3>1 DEF Promised
  <2>6. QED BY <1>0, <1>3, <2>1, <2>4, <2>5, ActsOrder
<1>7. CASE Deletes(h)
  <2>1. /\ Busy(h) /\ ~Busy(h)' /\ req[h].op = "delete" /\ claim[v] \in {"released", "gone"}
        /\ pools'[v] = pools[v] \/ ~Exists(v)'
        /\ \A u \in ComposedIDs \ {v} : pools'[u] = pools[u]
    BY <1>0, <1>3, <1>7, AnsweredIdle DEF Deletes, CallOf, Deletion, Exists
  <2>2. ASSUME NEW g \in Handlers, pc[g] # "idle", req[g].vol = v, Busy(g), g # h
        PROVE  Orderly(g, v)'
    <3>1. Busy(g)' <=> Busy(g) BY <2>2, BusyOthers
    <3>2. QED BY <1>0, <1>g, <2>1, <2>2, <3>1 DEF Orderly, Exists
  <2>3. ASSUME NEW g \in awaited, req[g].vol = v PROVE Awaits(g, v)'
    <3>1. req[g].op # "create" BY <1>0, <2>1, <2>3 DEF CallOf, Creation
    <3>2. CASE g = h BY <1>0, <1>3, <1>7, <2>1, <3>2 DEF Deletes, Awaits, Exists
    <3>3. CASE g # h
      <4>1. reply'[g] = reply[g] /\ Awaits(g, v) BY <1>0, <1>g, <2>3, <3>3 DEF Kept
      <4>2. QED BY <1>0, <2>1, <3>1, <4>1 DEF Awaits, Exists
    <3>4. QED BY <3>2, <3>3
  <2>4. Promised(v)' BY <1>4, <2>1 DEF Promised, Exists
  <2>5. QED BY <1>3, <2>1, <2>2, <2>3, <2>4, ActsOrder
<1>8. CASE Resizes(h)
  <2>1. /\ Busy(h) /\ ~Busy(h)' /\ req[h].op = "expand" /\ Exists(v)
        /\ claim[v] \in {"bound", "released"} /\ told[v] < req[h].bytes
        /\ pools'[v] = Quota(req[h].bytes) /\ \A u \in ComposedIDs \ {v} : pools'[u] = pools[u]
    BY <1>0, <1>3, <1>4, <1>8, AnsweredIdle
       DEF Resizes, Orderly, Promised, CallOf, Expansion
  <2>2. req[h].bytes \in 1..FloatExact /\ Quota(req[h].bytes) \in Nat
    BY <1>0, <2>1, SizesOfCalls DEF CallsInv
  <2>3. Exists(v)' BY <2>1, <2>2, RequestsAssumption DEF Exists
  <2>4. ASSUME NEW g \in Handlers, pc[g] # "idle", req[g].vol = v, Busy(g), g # h
        PROVE  Orderly(g, v)'
    <3>1. req[g].op # "expand" BY <1>3, <2>1, <2>4, BusyAlone
    <3>2. Busy(g)' <=> Busy(g) BY <2>4, BusyOthers
    <3>3. QED BY <1>0, <1>g, <2>4, <3>1, <3>2 DEF Orderly
  <2>5. ASSUME NEW g \in awaited, req[g].vol = v PROVE Awaits(g, v)'
    <3>1. CASE g = h BY <1>0, <2>1, <3>1 DEF Awaits
    <3>2. CASE g # h
      <4>1. reply'[g] = reply[g] /\ Awaits(g, v) BY <1>0, <1>g, <2>5, <3>2 DEF Kept
      <4>2. reply[g].code = "OK" => req[g].op # "expand" /\ req[g].op # "delete"
        BY <1>3, <2>1, <2>5, <4>1 DEF OrderInv, Settled, Awaits
      <4>3. QED BY <1>0, <2>3, <4>1, <4>2 DEF Awaits
    <3>3. QED BY <3>1, <3>2
  <2>6. Promised(v)'
    <3>1. GiBToBytes(Quota(req[h].bytes)) >= told[v]
      <4>1. told[v] \in Int BY DEF CallsInv, SidecarTypes
      <4>2. QED BY <2>1, <2>2, <4>1, QuotaFacts
    <3>2. QED BY <2>1, <2>3, <3>1 DEF Promised
  <2>7. QED BY <1>3, <2>1, <2>4, <2>5, <2>6, ActsOrder
<1>9. QED BY <1>1, <1>2, <1>5, <1>6, <1>7, <1>8

-----------------------------------------------------------------------------
(* The steps of the sidecars                                               *)

LateInv == ~late => OrderInv

\* A claim appears, grows or is given up: no call notices.
LEMMA ClaimSteps ==
    ASSUME ServerInv, CallsInv, LateInv, NEW v \in ComposedIDs,
           AddClaim(v) \/ GrowClaim(v) \/ ReleaseClaim(v)
    PROVE  CallsInv' /\ LateInv'
<1>0. /\ SidecarTypes /\ OneCall /\ NoLarger
      /\ \A g \in Handlers : pc[g] # "idle" => CallOf(g)
      /\ UNCHANGED <<pools, req, reply, pc, volumeLocks, told, awaited, late>>
  BY DEF CallsInv, AddClaim, GrowClaim, ReleaseClaim, vars
<1>b. CreateBytes \subseteq 1..FloatExact /\ ExpandBytes \subseteq 1..FloatExact
  BY RequestsAssumption, ProvisioningAssumption
<1>1. /\ \A u \in ComposedIDs \ {v} : claim'[u] = claim[u] /\ want'[u] = want[u]
      /\ want'[v] \in 0..FloatExact
      /\ SidecarTypes'
  <2>1. CASE AddClaim(v)
    <3>1. PICK b \in CreateBytes : want' = [want EXCEPT ![v] = b] BY <2>1 DEF AddClaim
    <3>2. b \in 0..FloatExact BY <1>b, SizesAssumption
    <3>3. claim' = [claim EXCEPT ![v] = "wanted"] BY <2>1 DEF AddClaim
    <3>4. QED BY <1>0, <3>1, <3>2, <3>3 DEF SidecarTypes
  <2>2. CASE GrowClaim(v)
    <3>1. PICK b \in ExpandBytes : want' = [want EXCEPT ![v] = b] BY <2>2 DEF GrowClaim
    <3>2. b \in 0..FloatExact BY <1>b, SizesAssumption
    <3>3. claim' = claim BY <2>2 DEF GrowClaim
    <3>4. QED BY <1>0, <3>1, <3>2, <3>3 DEF SidecarTypes
  <2>3. CASE ReleaseClaim(v)
    <3>1. claim' = [claim EXCEPT ![v] = "released"] /\ want' = want BY <2>3 DEF ReleaseClaim
    <3>2. QED BY <1>0, <3>1 DEF SidecarTypes
  <2>4. QED BY <2>1, <2>2, <2>3
<1>2. /\ claim[v] \in {"none", "bound"} /\ want[v] \in 0..FloatExact
      /\ claim[v] = "none" => claim'[v] = "wanted"
      /\ claim[v] = "bound" => claim'[v] \in {"bound", "released"} /\ want[v] <= want'[v]
  <2>1. CASE AddClaim(v) BY <1>0, <2>1 DEF AddClaim, SidecarTypes
  <2>2. CASE GrowClaim(v)
    <3>1. PICK b \in ExpandBytes : b > want[v] /\ want' = [want EXCEPT ![v] = b]
      BY <2>2 DEF GrowClaim
    <3>2. b \in 1..FloatExact /\ want[v] \in 0..FloatExact /\ want'[v] = b
      BY <1>0, <1>b, <3>1 DEF SidecarTypes
    <3>3. want[v] <= want'[v] BY <3>1, <3>2, SizesAssumption
    <3>4. QED BY <2>2, <3>2, <3>3 DEF GrowClaim
  <2>3. CASE ReleaseClaim(v)
    BY <1>0, <2>3, SizesAssumption DEF ReleaseClaim, SidecarTypes
  <2>4. QED BY <2>1, <2>2, <2>3
<1>3. ASSUME NEW g \in Handlers, pc[g] # "idle", req[g].vol = v
      PROVE  /\ claim[v] = "bound"
             /\ req[g].op # "delete"
             /\ req[g].op = "create" => g \notin awaited
  <2>1. CallOf(g) /\ req[g].op \in {"create", "delete", "expand"}
    BY <1>0, <1>3, SizesOfCalls
  <2>2. QED BY <1>2, <1>3, <2>1 DEF CallOf, Creation, Expansion, Deletion
<1>4. ASSUME NEW g \in Handlers, pc'[g] # "idle" PROVE CallOf(g)'
  <2>1. CallOf(g) /\ pc[g] # "idle" /\ req[g].bytes \in Nat BY <1>0, <1>4, SizesOfCalls
  <2>2. CASE req[g].vol = v
    <3>1. /\ claim[v] = "bound" /\ req[g].op # "delete"
          /\ req[g].op = "create" => g \notin awaited
      BY <1>3, <2>1, <2>2
    <3>2. claim'[v] \in {"bound", "released"} /\ want[v] <= want'[v] BY <1>2, <3>1
    <3>3. req[g].bytes <= want'[v]
      BY <1>1, <1>2, <2>1, <2>2, <3>2 DEF CallOf
    <3>4. QED BY <1>0, <2>1, <2>2, <3>1, <3>2, <3>3 DEF CallOf, Creation, Expansion, Exists
  <2>3. CASE req[g].vol # v
    <3>1. claim'[req[g].vol] = claim[req[g].vol] /\ want'[req[g].vol] = want[req[g].vol]
      BY <1>1, <2>1, <2>3 DEF CallOf
    <3>2. QED BY <1>0, <2>1, <3>1 DEF CallOf, Creation, Expansion, Deletion, Exists
  <2>4. QED BY <2>2, <2>3
<1>5. OneCall' BY <1>0 DEF OneCall, SameClass
<1>6. ASSUME NEW u \in ComposedIDs, Exists(u)' PROVE pools'[u] <= Quota(want'[u]) /\ claim'[u] # "none"
  <2>1. Exists(u) /\ pools[u] <= Quota(want[u]) /\ claim[u] # "none" /\ pools[u] \in Int
    BY <1>0, <1>6 DEF NoLarger, Exists, ServerInv, TypeOK
  <2>2. CASE u = v
    <3>1. claim[v] = "bound" /\ want[v] <= want'[v] BY <1>2, <2>1, <2>2
    <3>2. CASE want[v] = want'[v] BY <1>0, <1>2, <2>1, <2>2, <3>1, <3>2
    <3>3. CASE want[v] # want'[v]
      <4>1. want[v] \in Nat /\ want'[v] \in Nat BY <1>1, <1>2, SizesAssumption
      <4>2. Quota(want[v]) \in Nat /\ Quota(want'[v]) \in Nat
        BY <4>1, RoundUpLeast DEF Quota
      <4>3. Quota(want[v]) <= Quota(want'[v])
        <5>1. CASE want[v] = 0 BY <4>2, <5>1, RoundUpOfZero DEF Quota
        <5>2. CASE want[v] # 0
          <6>1. want[v] \in 1..FloatExact /\ want'[v] \in 1..FloatExact
            BY <1>1, <1>2, <3>1, <4>1, <5>2, SizesAssumption
          <6>2. QED BY <3>1, <6>1, QuotaMonotone
        <5>3. QED BY <5>1, <5>2
      <4>4. QED BY <1>0, <1>2, <2>1, <2>2, <3>1, <4>2, <4>3
    <3>4. QED BY <3>2, <3>3
  <2>3. CASE u # v BY <1>0, <1>1, <2>1, <2>3
  <2>4. QED BY <2>2, <2>3
<1>7. CallsInv' BY <1>1, <1>4, <1>5, <1>6 DEF CallsInv, NoLarger
<1>8. ASSUME OrderInv PROVE OrderInv'
  <2>1. ASSUME NEW g \in Handlers, pc'[g] # "idle"
        PROVE  Orderly(g, req[g].vol)' /\ Awaits(g, req[g].vol)'
    <3>1. /\ pc[g] # "idle" /\ CallOf(g) /\ (Busy(g)' <=> Busy(g))
          /\ Orderly(g, req[g].vol) /\ Awaits(g, req[g].vol)
      BY <1>0, <1>8, <2>1 DEF OrderInv, Busy, HoldsLock
    <3>2. CASE req[g].vol = v
      BY <1>0, <1>2, <1>3, <3>1, <3>2 DEF Orderly, Awaits, Exists
    <3>3. CASE req[g].vol # v
      <4>1. claim'[req[g].vol] = claim[req[g].vol] BY <1>1, <3>1, <3>3 DEF CallOf
      <4>2. QED BY <1>0, <3>1, <4>1 DEF Orderly, Awaits, Exists
    <3>4. QED BY <3>2, <3>3
  <2>2. Settled' BY <1>0, <1>8 DEF OrderInv, Settled, Busy, HoldsLock
  <2>3. ASSUME NEW u \in ComposedIDs PROVE Promised(u)'
    <3>1. Promised(u) BY <1>8 DEF OrderInv
    <3>2. CASE u = v
      BY <1>0, <1>2, <3>1, <3>2 DEF Promised, Exists, NoLarger
    <3>3. CASE u # v BY <1>0, <1>1, <3>1, <3>3 DEF Promised, Exists
    <3>4. QED BY <3>2, <3>3
  <2>4. QED BY <2>1, <2>2, <2>3 DEF OrderInv
<1>9. QED BY <1>0, <1>7, <1>8 DEF LateInv

\* A sidecar makes a call.
LEMMA AskSteps ==
    ASSUME ServerInv, CallsInv, LateInv, NEW v \in ComposedIDs, Call(v)
    PROVE  CallsInv' /\ LateInv'
<1>0. /\ SidecarTypes /\ OneCall /\ NoLarger /\ TypeOK /\ HandlerShape
      /\ \A g \in Handlers : pc[g] # "idle" => CallOf(g)
  BY DEF CallsInv, ServerInv
<1>1. PICK op \in {"create", "expand", "delete"}, b \in 0..FloatExact :
           /\ Ask(op, v, b)
           /\ op = "create" => claim[v] = "wanted" /\ b = want[v]
           /\ op = "expand" => claim[v] = "bound" /\ told[v] < want[v] /\ b = want[v]
           /\ op = "delete" => claim[v] = "released" /\ b = 0
  <2>1. want[v] \in 0..FloatExact /\ 0 \in 0..FloatExact
    BY <1>0, SizesAssumption DEF SidecarTypes
  <2>2. QED BY <2>1 DEF Call, Provision, Resize, Delete
<1>2. PICK h \in Handlers : /\ Receive(h) /\ req'[h] = [op |-> op, vol |-> v, bytes |-> b]
                            /\ awaited' = awaited \cup {h}
  BY <1>1 DEF Ask
<1>3. /\ UNCHANGED <<pools, reply, volumeLocks, claim, want, told, late>>
      /\ pc[h] = "idle" /\ reply[h] = NoReply
      /\ pc'[h] \in {"credentials", "lock"} /\ (pc'[h] = "credentials" <=> op = "create")
      /\ \A g \in Handlers \ {h} : pc'[g] = pc[g] /\ req'[g] = req[g]
  <2>1. PICK r \in Requests : /\ req' = [req EXCEPT ![h] = r]
                              /\ Goto(h, IF r.op = "create" THEN "credentials" ELSE "lock")
    BY <1>2 DEF Receive
  <2>2. r = [op |-> op, vol |-> v, bytes |-> b] BY <1>0, <1>2, <2>1 DEF TypeOK
  <2>3. r.op = op BY <2>2
  <2>4. /\ pc'[h] \in {"credentials", "lock"} /\ (pc'[h] = "credentials" <=> op = "create")
        /\ \A g \in Handlers \ {h} : pc'[g] = pc[g] /\ req'[g] = req[g]
    BY <1>0, <2>1, <2>3 DEF TypeOK, Goto
  <2>5. pc[h] = "idle" /\ reply[h] = NoReply
    BY <1>0, <1>2 DEF Receive, HandlerShape, Shape, UndecidedAt
  <2>6. QED BY <1>1, <1>2, <2>4, <2>5 DEF Receive, Ask
<1>4. h \notin awaited /\ awaited \subseteq Handlers
  BY <1>0, <1>3 DEF OneCall, SidecarTypes
<1>5. req'[h].op = op /\ req'[h].vol = v /\ req'[h].bytes = b BY <1>2
<1>6. ~Busy(h)'
  BY <1>3, <1>5 DEF Busy, HoldsLock
<1>7. \A g \in Handlers \ {h} : (Busy(g)' <=> Busy(g)) /\ (g \in awaited' <=> g \in awaited)
  BY <1>2, <1>3 DEF Busy, HoldsLock
<1>8. SidecarTypes' BY <1>0, <1>2, <1>3 DEF SidecarTypes
<1>9. b \in Nat /\ b <= want[v] /\ want[v] \in Nat
  BY <1>0, <1>1, SizesAssumption DEF SidecarTypes
<1>10. CallOf(h)'
  <2>1. reply'[h].code # "OK" BY <1>3 DEF NoReply
  <2>2. op = "expand" => (Exists(v) => pools[v] <= Quota(b)) BY <1>0, <1>1 DEF NoLarger
  <2>3. op = "create" => Creation(h, v)'
    BY <1>1, <1>3, <1>5 DEF Creation
  <2>4. op = "expand" => Expansion(h, v)'
    BY <1>1, <1>3, <1>5, <2>2 DEF Expansion, Exists
  <2>5. op = "delete" => Deletion(h, v)'
    BY <1>1, <1>3 DEF Deletion
  <2>6. QED BY <1>3, <1>5, <1>9, <2>1, <2>3, <2>4, <2>5 DEF CallOf
<1>11. ASSUME NEW g \in Handlers, g # h, pc'[g] # "idle" PROVE CallOf(g)'
  <2>1. CallOf(g) /\ (g \in awaited' <=> g \in awaited) /\ req'[g] = req[g]
    BY <1>0, <1>3, <1>7, <1>11
  <2>2. QED BY <1>3, <2>1 DEF CallOf, Creation, Expansion, Deletion, Exists
<1>12. OneCall'
  <2>1. \A g \in awaited' : pc'[g] # "idle" BY <1>0, <1>2, <1>3, <1>4 DEF OneCall
  <2>2. ASSUME NEW g \in awaited, SameClass(g, h)' PROVE FALSE
    <3>1. req'[g] = req[g] /\ req[g].vol = v BY <1>3, <1>4, <1>5, <2>2 DEF SameClass
    <3>2. (req[g].op = "expand") # (op = "expand") BY <1>1, <3>1 DEF Ask
    <3>3. req[g].op = "expand" <=> op = "expand" BY <1>5, <2>2, <3>1 DEF SameClass
    <3>4. QED BY <3>2, <3>3
  <2>3. ASSUME NEW g \in awaited', NEW k \in awaited', SameClass(g, k)' PROVE g = k
    <3>1. CASE g = h /\ k # h
      <4>1. SameClass(k, h)' BY <2>3, <3>1 DEF SameClass
      <4>2. QED BY <1>2, <2>2, <3>1, <4>1
    <3>2. CASE g # h /\ k = h BY <1>2, <2>2, <2>3, <3>2
    <3>3. CASE g # h /\ k # h
      <4>1. g \in awaited /\ k \in awaited /\ req'[g] = req[g] /\ req'[k] = req[k]
        BY <1>2, <1>3, <1>4, <3>3
      <4>2. QED BY <1>0, <2>3, <4>1 DEF OneCall, SameClass
    <3>4. QED BY <3>1, <3>2, <3>3
  <2>4. ASSUME NEW g \in Handlers, NEW k \in awaited', pc'[g] # "idle",
               req'[k].op = "expand", req'[g].vol = req'[k].vol
        PROVE  req'[g].bytes <= req'[k].bytes
    <3>1. CASE g = h /\ k = h BY <1>5, <1>9, <3>1
    <3>2. CASE g # h /\ k = h
      <4>1. CallOf(g) /\ req'[g] = req[g] /\ req[g].vol = v
        BY <1>0, <1>3, <1>5, <2>4, <3>2
      <4>2. QED BY <1>1, <1>5, <2>4, <3>2, <4>1 DEF CallOf
    <3>3. CASE g = h /\ k # h
      <4>1. k \in awaited /\ req'[k] = req[k] /\ req[k].vol = v /\ k \in Handlers
        BY <1>2, <1>3, <1>4, <1>5, <2>4, <3>3
      <4>2. CallOf(k) /\ pc[k] # "idle" BY <1>0, <4>1 DEF OneCall
      <4>3. op = "delete"
        BY <1>1, <2>2, <1>5, <2>4, <3>3, <4>1, <4>2 DEF CallOf, Expansion, SameClass
      <4>4. req[k].bytes \in Nat BY <1>0, <4>1, <4>2, SizesOfCalls
      <4>5. QED BY <1>1, <1>5, <3>3, <4>1, <4>3, <4>4
    <3>4. CASE g # h /\ k # h
      <4>1. k \in awaited /\ req'[g] = req[g] /\ req'[k] = req[k] /\ pc[g] # "idle"
        BY <1>2, <1>3, <1>4, <2>4, <3>4
      <4>2. QED BY <1>0, <2>4, <4>1 DEF OneCall
    <3>5. QED BY <3>1, <3>2, <3>3, <3>4
  <2>5. QED BY <2>1, <2>3, <2>4 DEF OneCall
<1>13. CallsInv' BY <1>0, <1>3, <1>8, <1>10, <1>11, <1>12 DEF CallsInv, NoLarger, Exists
<1>14. ASSUME OrderInv PROVE OrderInv'
  <2>1. ASSUME NEW g \in Handlers, pc'[g] # "idle"
        PROVE  Orderly(g, req[g].vol)' /\ Awaits(g, req[g].vol)'
    <3>1. CASE g = h BY <1>3, <1>6, <3>1 DEF Orderly, Awaits, NoReply
    <3>2. CASE g # h
      <4>1. /\ req'[g] = req[g] /\ (Busy(g)' <=> Busy(g)) /\ (g \in awaited' <=> g \in awaited)
            /\ Orderly(g, req[g].vol) /\ Awaits(g, req[g].vol)
        BY <1>3, <1>7, <1>14, <2>1, <3>2 DEF OrderInv
      <4>2. QED BY <1>3, <4>1 DEF Orderly, Awaits, Exists
    <3>3. QED BY <3>1, <3>2
  <2>2. Settled'
    <3> SUFFICES ASSUME NEW g \in Handlers, NEW k \in awaited', reply'[k].code = "OK",
                        Busy(g)', req'[g].vol = req'[k].vol
                 PROVE  req'[g].op # req'[k].op
      BY DEF Settled
    <3>1. g # h /\ k # h BY <1>3, <1>6 DEF NoReply
    <3>2. /\ k \in awaited /\ req'[g] = req[g] /\ req'[k] = req[k] /\ Busy(g)
          /\ reply[k].code = "OK"
      BY <1>2, <1>3, <1>4, <1>7, <3>1
    <3>3. QED BY <1>14, <3>2 DEF OrderInv, Settled
  <2>3. \A u \in ComposedIDs : Promised(u)' BY <1>3, <1>14 DEF OrderInv, Promised, Exists
  <2>4. QED BY <2>1, <2>2, <2>3 DEF OrderInv
<1>15. QED BY <1>3, <1>13, <1>14 DEF LateInv

\* A handler ends, or its caller forgets it: nobody waits for it any more.
LEMMA LeaveSteps ==
    ASSUME ServerInv, CallsInv, LateInv, NEW h \in Handlers,
           \/ LateAnswer(h)
           \/ GiveUp(h)
           \/ ReceiveAnswer(h) /\ reply[h].code # "OK"
    PROVE  CallsInv' /\ LateInv'
<1>0. /\ SidecarTypes /\ OneCall /\ NoLarger /\ TypeOK
      /\ \A g \in Handlers : pc[g] # "idle" => CallOf(g)
  BY DEF CallsInv, ServerInv
<1>1. /\ UNCHANGED <<pools, claim, want, told, late>>
      /\ awaited' \subseteq awaited \ {h}
      /\ \A g \in Handlers \ {h} : pc'[g] = pc[g] /\ req'[g] = req[g] /\ reply'[g] = reply[g]
      /\ \/ pc'[h] = "idle" /\ reply'[h] = NoReply
         \/ pc'[h] = pc[h] /\ req'[h] = req[h] /\ reply'[h] = reply[h]
  <2>1. CASE LateAnswer(h)
    BY <1>0, <2>1 DEF LateAnswer, sidecars, Return, Goto, TypeOK
  <2>2. CASE GiveUp(h) BY <2>2 DEF GiveUp, vars
  <2>3. CASE ReceiveAnswer(h) /\ reply[h].code # "OK"
    <3>1. UNCHANGED <<claim, told, want, late>> /\ awaited' = awaited \ {h} /\ Return(h)
      BY <2>3 DEF ReceiveAnswer
    <3>2. QED BY <1>0, <3>1 DEF Return, Goto, TypeOK
  <2>4. QED BY <2>1, <2>2, <2>3
<1>2. ASSUME NEW g \in Handlers, pc'[g] # "idle"
      PROVE  pc'[g] = pc[g] /\ req'[g] = req[g] /\ reply'[g] = reply[g]
  BY <1>1, <1>2
<1>3. awaited' \subseteq Handlers \ {h} BY <1>0, <1>1 DEF SidecarTypes
<1>4. SidecarTypes' BY <1>0, <1>1 DEF SidecarTypes
<1>5. ASSUME NEW g \in Handlers, pc'[g] # "idle" PROVE CallOf(g)'
  <2>1. /\ CallOf(g) /\ req'[g] = req[g] /\ reply'[g] = reply[g]
        /\ g \in awaited' => g \in awaited
    BY <1>0, <1>1, <1>2, <1>5
  <2>2. QED BY <1>1, <2>1 DEF CallOf, Creation, Expansion, Deletion, Exists
<1>6. OneCall'
  <2>1. \A g \in awaited' : g \in awaited /\ pc'[g] = pc[g] /\ req'[g] = req[g]
    BY <1>1, <1>3
  <2>2. \A g \in Handlers : pc'[g] # "idle" => pc[g] # "idle" /\ req'[g] = req[g] BY <1>2
  <2>3. QED BY <1>0, <2>1, <2>2 DEF OneCall, SameClass
<1>7. CallsInv' BY <1>0, <1>1, <1>4, <1>5, <1>6 DEF CallsInv, NoLarger, Exists
<1>8. \A g \in Handlers : Busy(g)' => pc'[g] # "idle" /\ Busy(g)
  <2> SUFFICES ASSUME NEW g \in Handlers, Busy(g)' PROVE pc'[g] # "idle" /\ Busy(g)
    OBVIOUS
  <2>1. pc'[g] # "idle" BY DEF Busy, HoldsLock
  <2>2. QED BY <1>2, <2>1 DEF Busy, HoldsLock
<1>9. ASSUME OrderInv PROVE OrderInv'
  <2>1. ASSUME NEW g \in Handlers, pc'[g] # "idle"
        PROVE  Orderly(g, req[g].vol)' /\ Awaits(g, req[g].vol)'
    <3>1. /\ pc'[g] = pc[g] /\ req'[g] = req[g] /\ reply'[g] = reply[g]
          /\ g \in awaited' => g \in awaited
          /\ Orderly(g, req[g].vol) /\ Awaits(g, req[g].vol)
      BY <1>1, <1>2, <1>9, <2>1 DEF OrderInv
    <3>2. QED BY <1>1, <1>8, <3>1 DEF Orderly, Awaits, Exists
  <2>2. Settled'
    <3> SUFFICES ASSUME NEW g \in Handlers, NEW k \in awaited', reply'[k].code = "OK",
                        Busy(g)', req'[g].vol = req'[k].vol
                 PROVE  req'[g].op # req'[k].op
      BY DEF Settled
    <3>1. k \in awaited /\ req'[k] = req[k] /\ reply'[k] = reply[k] BY <1>1, <1>3
    <3>2. Busy(g) /\ req'[g] = req[g] BY <1>2, <1>8
    <3>3. QED BY <1>9, <3>1, <3>2 DEF OrderInv, Settled
  <2>3. \A u \in ComposedIDs : Promised(u)' BY <1>1, <1>9 DEF OrderInv, Promised, Exists
  <2>4. QED BY <2>1, <2>2, <2>3 DEF OrderInv
<1>10. QED BY <1>1, <1>7, <1>9 DEF LateInv

\* A sidecar is answered OK.
LEMMA AnswerSteps ==
    ASSUME ServerInv, CallsInv, LateInv, NEW h \in Handlers,
           ReceiveAnswer(h), reply[h].code = "OK"
    PROVE  CallsInv' /\ LateInv'
<1>0. /\ SidecarTypes /\ OneCall /\ NoLarger /\ TypeOK
      /\ \A g \in Handlers : pc[g] # "idle" => CallOf(g)
  BY DEF CallsInv, ServerInv
<1>1. h \in awaited /\ pc[h] # "idle" /\ CallOf(h) /\ Return(h)
  BY <1>0 DEF ReceiveAnswer, OneCall
<1>2. PICK v \in ComposedIDs : v = req[h].vol BY <1>1 DEF CallOf
<1>3. PICK op \in {"create", "delete", "expand"} : op = req[h].op BY <1>0, <1>1, SizesOfCalls
<1>4. /\ UNCHANGED <<pools, want, late>> /\ awaited' = awaited \ {h}
      /\ \A g \in Handlers \ {h} : pc'[g] = pc[g] /\ req'[g] = req[g] /\ reply'[g] = reply[g]
      /\ pc'[h] = "idle" /\ reply'[h] = NoReply
  BY <1>0, <1>1 DEF ReceiveAnswer, Return, Goto, TypeOK
<1>5. /\ op = "create" => claim' = [claim EXCEPT ![v] = "bound"]
      /\ op = "delete" => claim' = [claim EXCEPT ![v] = "gone"]
      /\ op = "expand" => claim' = claim
      /\ told' = IF op # "delete" THEN [told EXCEPT ![v] = reply[h].capacity] ELSE told
  BY <1>2, <1>3 DEF ReceiveAnswer
<1>6. /\ reply[h].capacity \in Int
      /\ op # "delete" => reply[h].capacity = GiBToBytes(Quota(req[h].bytes))
  <2>1. reply[h].capacity \in Int BY <1>0 DEF TypeOK, Replies
  <2>2. reply[h] = Success(req[h]) /\ req[h] \in Requests
    BY <1>0, <1>1, SizesOfCalls DEF CallOf
  <2>3. QED BY <1>3, <2>1, <2>2, RequestQuotas
<1>7. SidecarTypes' BY <1>0, <1>3, <1>4, <1>5, <1>6 DEF SidecarTypes
<1>8. \A u \in ComposedIDs \ {v} : claim'[u] = claim[u] /\ told'[u] = told[u]
  BY <1>0, <1>3, <1>5 DEF SidecarTypes
<1>9. /\ op = "create" => claim[v] = "wanted" /\ claim'[v] = "bound"
      /\ op = "delete" => claim[v] = "released" /\ claim'[v] = "gone" /\ told'[v] = told[v]
      /\ op = "expand" => claim'[v] = claim[v] /\ claim[v] \in {"bound", "released", "gone"}
      /\ op # "delete" => told'[v] = GiBToBytes(Quota(req[h].bytes))
  BY <1>0, <1>1, <1>2, <1>3, <1>5, <1>6 DEF SidecarTypes, CallOf, Creation, Expansion, Deletion
<1>10. ASSUME NEW g \in Handlers, pc'[g] # "idle"
       PROVE  /\ g # h /\ pc'[g] = pc[g] /\ req'[g] = req[g] /\ reply'[g] = reply[g]
              /\ pc[g] # "idle" /\ CallOf(g) /\ (g \in awaited' <=> g \in awaited)
              /\ req[g].op \in {"create", "delete", "expand"}
  <2>1. g # h BY <1>4, <1>10
  <2>2. pc[g] # "idle" BY <1>4, <1>10, <2>1
  <2>3. QED BY <1>0, <1>4, <2>1, <2>2, SizesOfCalls
<1>11. ASSUME NEW g \in Handlers, pc'[g] # "idle", g \in awaited, req[g].vol = v
       PROVE  (req[g].op = "expand") # (op = "expand")
  BY <1>0, <1>1, <1>2, <1>3, <1>10, <1>11 DEF OneCall, SameClass
<1>12. ASSUME NEW g \in Handlers, pc'[g] # "idle" PROVE CallOf(g)'
  <2>1. CASE req[g].vol = v
    <3>1. req[g].op = "create" => Creation(g, v)'
      BY <1>3, <1>4, <1>9, <1>10, <1>11, <1>12, <2>1 DEF CallOf, Creation
    <3>2. req[g].op = "expand" => Expansion(g, v)'
      BY <1>3, <1>4, <1>9, <1>10, <1>11, <1>12, <2>1 DEF CallOf, Expansion, Exists
    <3>3. req[g].op = "delete" => Deletion(g, v)'
      BY <1>3, <1>4, <1>9, <1>10, <1>11, <1>12, <2>1 DEF CallOf, Deletion
    <3>4. QED BY <1>4, <1>10, <1>12, <2>1, <3>1, <3>2, <3>3 DEF CallOf
  <2>2. CASE req[g].vol # v
    <3>1. claim'[req[g].vol] = claim[req[g].vol] /\ told'[req[g].vol] = told[req[g].vol]
      BY <1>8, <1>10, <1>12, <2>2 DEF CallOf
    <3>2. QED
      BY <1>4, <1>10, <1>12, <3>1 DEF CallOf, Creation, Expansion, Deletion, Exists
  <2>3. QED BY <2>1, <2>2
<1>13. OneCall'
  <2>1. \A g \in awaited' : /\ g \in awaited /\ pc'[g] = pc[g] /\ req'[g] = req[g]
    BY <1>0, <1>4 DEF SidecarTypes
  <2>2. \A g \in Handlers : pc'[g] # "idle" => pc[g] # "idle" /\ req'[g] = req[g] BY <1>10
  <2>3. QED BY <1>0, <2>1, <2>2 DEF OneCall, SameClass
<1>14. NoLarger' BY <1>0, <1>3, <1>4, <1>8, <1>9 DEF NoLarger, Exists
<1>15. CallsInv' BY <1>7, <1>12, <1>13, <1>14 DEF CallsInv
<1>16. \A g \in Handlers : Busy(g)' => pc'[g] # "idle" /\ Busy(g)
  <2> SUFFICES ASSUME NEW g \in Handlers, Busy(g)' PROVE pc'[g] # "idle" /\ Busy(g)
    OBVIOUS
  <2>1. pc'[g] # "idle" BY DEF Busy, HoldsLock
  <2>2. QED BY <1>10, <2>1 DEF Busy, HoldsLock
<1>17. ASSUME OrderInv PROVE OrderInv'
  <2>0. Awaits(h, v) /\ Promised(v) BY <1>1, <1>2, <1>17 DEF OrderInv
  <2>1. ASSUME NEW g \in Handlers, pc'[g] # "idle"
        PROVE  Orderly(g, req[g].vol)' /\ Awaits(g, req[g].vol)'
    <3>1. Orderly(g, req[g].vol) /\ Awaits(g, req[g].vol) BY <1>10, <1>17, <2>1 DEF OrderInv
    <3>2. Busy(g)' /\ req[g].vol = v => req[g].op # op
      BY <1>1, <1>2, <1>3, <1>16, <1>17 DEF OrderInv, Settled
    <3>3. CASE req[g].vol = v
      <4>1. Orderly(g, v)'
        <5>1. CASE ~Busy(g)' BY <5>1 DEF Orderly
        <5>2. CASE Busy(g)'
          <6>1. req[g].op # op /\ Busy(g) BY <1>16, <3>2, <3>3, <5>2
          <6>2. req[g].op = "create" => claim[v] = "wanted" BY <3>1, <3>3, <6>1 DEF Orderly
          <6>3. req[g].op # "create" BY <1>3, <1>9, <6>1, <6>2
          <6>4. req[g].op = "expand" => op = "delete"
            BY <1>3, <1>9, <1>10, <2>1, <3>3, <6>1 DEF CallOf, Expansion
          <6>5. QED
            BY <1>4, <1>9, <1>10, <2>1, <3>1, <3>3, <6>1, <6>3, <6>4 DEF Orderly, Exists
        <5>3. QED BY <5>1, <5>2
      <4>2. Awaits(g, v)'
        <5>1. req[g].op = "expand" => op # "create"
          BY <1>9, <1>10, <2>1, <3>3 DEF CallOf, Expansion
        <5>2. claim'[v] = "bound" => op = "create" \/ claim'[v] = claim[v] BY <1>3, <1>9
        <5>3. QED
          BY <1>4, <1>10, <2>1, <3>1, <3>3, <5>1, <5>2 DEF Awaits, Exists
      <4>3. QED BY <1>10, <2>1, <3>3, <4>1, <4>2
    <3>4. CASE req[g].vol # v
      <4>1. claim'[req[g].vol] = claim[req[g].vol] /\ told'[req[g].vol] = told[req[g].vol]
        BY <1>8, <1>10, <2>1, <3>4 DEF CallOf
      <4>2. QED BY <1>4, <1>10, <1>16, <2>1, <3>1, <4>1 DEF Orderly, Awaits, Exists
    <3>5. QED BY <3>3, <3>4
  <2>2. Settled'
    <3> SUFFICES ASSUME NEW g \in Handlers, NEW k \in awaited', reply'[k].code = "OK",
                        Busy(g)', req'[g].vol = req'[k].vol
                 PROVE  req'[g].op # req'[k].op
      BY DEF Settled
    <3>1. k \in awaited /\ req'[k] = req[k] /\ reply'[k] = reply[k]
      BY <1>0, <1>4 DEF SidecarTypes
    <3>2. Busy(g) /\ req'[g] = req[g] BY <1>10, <1>16
    <3>3. QED BY <1>17, <3>1, <3>2 DEF OrderInv, Settled
  <2>3. Promised(v)'
    <3>1. CASE op = "create"
      <4>1. Exists(v) /\ pools[v] = Quota(want[v]) /\ req[h].bytes = want[v]
        BY <1>1, <1>2, <1>3, <1>9, <2>0, <3>1 DEF Awaits, Promised, CallOf, Creation
      <4>2. told'[v] = GiBToBytes(pools[v]) /\ told'[v] \in Int
        BY <1>7, <1>9, <3>1, <4>1 DEF SidecarTypes
      <4>3. QED BY <1>4, <1>9, <3>1, <4>1, <4>2 DEF Promised, Exists
    <3>2. CASE op = "delete"
      BY <1>1, <1>3, <1>4, <1>9, <2>0, <3>2 DEF Awaits, Promised, Exists
    <3>3. CASE op = "expand"
      <4>1. claim[v] = "bound" => Exists(v) /\ pools[v] = Quota(req[h].bytes)
        BY <1>1, <1>3, <2>0, <3>3 DEF Awaits, Promised
      <4>2. told'[v] = GiBToBytes(Quota(req[h].bytes)) /\ told'[v] \in Int
        BY <1>7, <1>9, <3>3 DEF SidecarTypes
      <4>3. claim[v] = "bound" => GiBToBytes(pools'[v]) >= told'[v] BY <1>4, <4>1, <4>2
      <4>4. QED BY <1>4, <1>9, <2>0, <3>3, <4>1, <4>3 DEF Promised, Exists
    <3>4. QED BY <3>1, <3>2, <3>3
  <2>4. ASSUME NEW u \in ComposedIDs, u # v PROVE Promised(u)'
    BY <1>4, <1>8, <1>17, <2>4 DEF OrderInv, Promised, Exists
  <2>5. QED BY <2>1, <2>2, <2>3, <2>4 DEF OrderInv
<1>18. QED BY <1>4, <1>15, <1>17 DEF LateInv

\* The death of the process: all calls are forgotten.
LEMMA CrashSteps ==
    ASSUME CallsInv, LateInv, PluginCrash
    PROVE  CallsInv' /\ LateInv'
<1>1. /\ UNCHANGED <<pools, claim, want, told, late>> /\ awaited' = {}
      /\ \A g \in Handlers : pc'[g] = "idle"
  BY DEF PluginCrash, Crash
<1>2. SidecarTypes' BY <1>1 DEF CallsInv, SidecarTypes
<1>3. CallsInv' BY <1>1, <1>2 DEF CallsInv, OneCall, NoLarger, Exists
<1>4. ASSUME OrderInv PROVE OrderInv'
  <2>1. \A g \in Handlers : ~Busy(g)' BY <1>1 DEF Busy, HoldsLock
  <2>2. QED BY <1>1, <1>4, <2>1 DEF OrderInv, Settled, Promised, Exists
<1>5. QED BY <1>1, <1>3, <1>4 DEF LateInv

ProvisioningInv == ServerInv /\ CallsInv /\ LateInv

\* A step of a handler, with what its callers make of it.
LEMMA HandlerSteps ==
    ASSUME ServerInv, CallsInv, LateInv, NEW h \in Handlers, HandlerStep(h)
    PROVE  CallsInv' /\ LateInv'
<1>1. /\ Kept(h) /\ UNCHANGED <<claim, want, told, awaited>>
      /\ Passes(h) \/ Takes(h) \/ Finds(h) \/ Creates(h) \/ Deletes(h) \/ Resizes(h)
  BY WorkEffects DEF HandlerStep
<1>2. late' = (late \/ (h \notin awaited /\ pc[h] = "lock" /\ volumeLocks' # volumeLocks))
  BY DEF HandlerStep
<1>3. late' \in BOOLEAN /\ late \in BOOLEAN BY <1>2 DEF CallsInv, SidecarTypes
<1>4. CallsInv' BY <1>1, <1>3, WorkCalls
<1>5. ~late' => ~late /\ (Takes(h) => h \in awaited) BY <1>2, <1>3 DEF Takes
<1>6. QED BY <1>1, <1>4, <1>5, WorkOrder DEF LateInv

LEMMA ProvisioningInductive ==
    ProvisioningInv /\ [ProvisioningNext]_allVars => ProvisioningInv'
<1> SUFFICES ASSUME ProvisioningInv, [ProvisioningNext]_allVars PROVE ProvisioningInv' OBVIOUS
<1>0. ServerInv /\ CallsInv /\ LateInv BY DEF ProvisioningInv
<1>1. ServerInv' BY <1>0, ProvisioningImplements, ServerInductive
<1>2. CASE UNCHANGED allVars
  <2>1. CallsInv'
    BY <1>0, <1>2 DEF allVars, vars, sidecars, CallsInv, SidecarTypes, OneCall, SameClass,
       NoLarger, Exists, CallOf, Creation, Expansion, Deletion
  <2>2. LateInv'
    BY <1>0, <1>2 DEF allVars, vars, sidecars, LateInv, OrderInv, Orderly, Awaits, Settled,
       Promised, Busy, HoldsLock, Exists
  <2>3. QED BY <1>1, <2>1, <2>2 DEF ProvisioningInv
<1>3. ASSUME NEW v \in ComposedIDs,
             AddClaim(v) \/ GrowClaim(v) \/ ReleaseClaim(v) \/ Call(v)
      PROVE  ProvisioningInv'
  BY <1>0, <1>1, <1>3, ClaimSteps, AskSteps DEF ProvisioningInv
<1>4. ASSUME NEW h \in Handlers,
             HandlerStep(h) \/ ReceiveAnswer(h) \/ LateAnswer(h) \/ GiveUp(h)
      PROVE  ProvisioningInv'
  BY <1>0, <1>1, <1>4, HandlerSteps, AnswerSteps, LeaveSteps DEF ProvisioningInv
<1>5. CASE PluginCrash BY <1>0, <1>1, <1>5, CrashSteps DEF ProvisioningInv
<1>6. QED BY <1>2, <1>3, <1>4, <1>5 DEF ProvisioningNext

LEMMA ProvisioningStart == ProvisioningInit => ProvisioningInv
<1> SUFFICES ASSUME ProvisioningInit PROVE ProvisioningInv OBVIOUS
<1>1. Init /\ \A h \in Handlers : pc[h] = "idle" BY DEF ProvisioningInit, Init
<1>2. ServerInv BY <1>1, InitShape, InitLocks, InitKeys DEF ServerInv
<1>3. \A v \in ComposedIDs : ~Exists(v) /\ claim[v] = "none"
  BY DEF ProvisioningInit, Init, Exists
<1>4. SidecarTypes
  <2>1. 0 \in 0..FloatExact /\ 0 \in Int BY SizesAssumption
  <2>2. QED BY <2>1 DEF ProvisioningInit, SidecarTypes
<1>5. awaited = {} BY DEF ProvisioningInit
<1>6. CallsInv BY <1>1, <1>3, <1>4, <1>5 DEF CallsInv, OneCall, NoLarger
<1>7. OrderInv BY <1>1, <1>3, <1>5 DEF OrderInv, Settled, Promised
<1>8. QED BY <1>2, <1>6, <1>7 DEF ProvisioningInv, LateInv

LEMMA ProvisioningInvariant == ProvisioningSpec => []ProvisioningInv
  BY ProvisioningStart, ProvisioningInductive, PTL DEF ProvisioningSpec

\* Unless a call that its sidecar had forgotten took a lock late, a bound
\* claim has its volume with at least the capacity that was answered, and
\* nothing is left of a claim that is gone: for any number of claims, calls
\* and faults, although CreateVolume locks another string than the other two.
THEOREM ClaimsKept == ProvisioningSpec => []PromisesKept
<1>1. ProvisioningInv => PromisesKept
  BY DEF ProvisioningInv, LateInv, OrderInv, Promised, Exists, PromisesKept
<1>2. QED BY <1>1, ProvisioningInvariant, PTL

\* No expansion makes a pool smaller, except one that its sidecar had
\* forgotten and that took its lock late.
THEOREM NoShrinking == ProvisioningSpec => ShrinksOnlyLate
<1> DEFINE Shrinks(v) == pools[v] # Absent /\ pools'[v] # Absent /\ pools'[v] < pools[v]
           LateQuota(v) == late /\ \E h \in Handlers \ awaited :
                                      pc[h] = "quota" /\ req[h].vol = v
<1>1. ASSUME ProvisioningInv, ProvisioningNext, NEW v \in ComposedIDs, Shrinks(v)
      PROVE  LateQuota(v)
  <2>0. /\ ServerInv /\ CallsInv /\ LateInv
        /\ pools[v] \in Int /\ pools'[v] # pools[v] /\ Exists(v) /\ Exists(v)'
    BY <1>1 DEF ProvisioningInv, ServerInv, TypeOK, Exists
  <2>1. PICK h \in Handlers : HandlerStep(h)
    <3>1. ~UNCHANGED pools BY <2>0
    <3>2. QED
      BY <1>1, <3>1 DEF ProvisioningNext, AddClaim, GrowClaim, ReleaseClaim, Call, Provision,
         Resize, Delete, Ask, Receive, ReceiveAnswer, LateAnswer, Return, GiveUp,
         PluginCrash, Crash, vars
  <2>2. Kept(h) /\ (Creates(h) \/ Deletes(h) \/ Resizes(h))
    BY <2>0, <2>1, WorkEffects DEF HandlerStep, Passes, Takes, Finds
  <2>3. /\ v = req[h].vol /\ req[h].op \in {"create", "expand"}
        /\ pools'[v] = Quota(req[h].bytes)
    BY <2>0, <2>2, PoolEffects
  <2>4. Resizes(h) BY <2>0, <2>2, <2>3 DEF Creates, Deletes
  <2>5. pc[h] # "idle" /\ req[h].op = "expand" /\ Busy(h) BY <2>4 DEF Resizes
  <2>6. Quota(req[h].bytes) \in Nat BY <2>0, <2>3, <2>5, SizesOfCalls DEF CallsInv
  <2>7. ~(pools[v] <= Quota(req[h].bytes)) BY <1>1, <2>0, <2>3, <2>6
  <2>8. h \notin awaited BY <2>0, <2>3, <2>5, <2>7 DEF CallsInv, CallOf, Expansion
  <2>9. late
    <3>1. ~OrderInv BY <2>0, <2>3, <2>5, <2>7 DEF OrderInv, Orderly
    <3>2. QED BY <2>0, <3>1 DEF LateInv
  <2>10. QED BY <2>3, <2>4, <2>8, <2>9 DEF Resizes
<1>2. ProvisioningInv /\ [ProvisioningNext]_allVars =>
         [\A v \in ComposedIDs : Shrinks(v) => LateQuota(v)]_allVars
  BY <1>1
<1>3. QED BY <1>2, ProvisioningInvariant, PTL DEF ProvisioningSpec, ShrinksOnlyLate
=============================================================================
