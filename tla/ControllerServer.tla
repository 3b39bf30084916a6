-------------------------- MODULE ControllerServer --------------------------
(***************************************************************************)
(* The CSI controller service, pkg/fcfs-driver/controllerserver.go, over   *)
(* the lock table of pkg/common/idlocker.go, the temporary key files of    *)
(* pkg/common/credentials.go and the fcfs_pool commands of                 *)
(* pkg/fcfs/fcfs.go.                                                       *)
(*                                                                         *)
(* gRPC runs every request in a goroutine of its own, so handlers          *)
(* interleave at every step that touches shared state: the lock table, the *)
(* key directory and the FastCFS cluster.  The commands ignore the         *)
(* request's context, so a call the client has given up on still runs to   *)
(* its end; a retry is just another request.  The process may die at any   *)
(* moment: it forgets its locks and its handlers, the cluster keeps its    *)
(* pools and the key directory (an emptyDir volume) keeps its files.       *)
(***************************************************************************)
EXTENDS CSIRequests, VolumeLocks

CONSTANTS
    KeyFiles,  \* names ioutil.TempFile can pick in /tmp/csi/keys (a bound)
    NoKey      \* the handler has no key file

ASSUME KeyAssumption == NoKey \notin KeyFiles

VARIABLES
    pools,        \* external: quota of each pool in the cluster, or Absent
    req,          \* the request each handler serves
    reply,        \* its answer, NoReply until the handler has decided
    pc,           \* where the handler is
    volumeLocks,  \* controllerServer.volumeLocks
    keyFiles,     \* files present in the key directory
    cr            \* Credentials.KeyFile of each handler

vars == <<pools, req, reply, pc, volumeLocks, keyFiles, cr>>

Labels == {"idle", "credentials", "lock", "plist", "create", "delete",
           "quota", "delkey", "release", "return"}

Init ==
    /\ pools = [v \in ComposedIDs |-> Absent]
    /\ req = [h \in Handlers |-> NoRequest]
    /\ reply = [h \in Handlers |-> NoReply]
    /\ pc = [h \in Handlers |-> "idle"]
    /\ volumeLocks = NewVolumeLocks
    /\ keyFiles = {}
    /\ cr = [h \in Handlers |-> NoKey]

-----------------------------------------------------------------------------

\* Mutant: CreateVolume locks the config base path of the storage class.
LockKeyBasePath(r) == IF r.op = "create" THEN r.vol[1] ELSE r.vol

\* The string each operation locks: CreateVolume the request name,
\* DeleteVolume and ControllerExpandVolume the volume id.
LockKey(r) == IF r.op = "create" THEN r.vol[2] ELSE r.vol

Goto(h, label) == pc' = [pc EXCEPT ![h] = label]
Answer(h, rep) == reply' = [reply EXCEPT ![h] = rep]

\* Where the deferred calls start once the handler has decided: the one
\* deferred last runs first.  CreateVolume defers DeleteCredentials before
\* Release, the other two defer Release first.
ExitWithLockAndKey(r) == IF r.op = "create" THEN "release" ELSE "delkey"
ExitWithLock(r) == "release"
ExitWithoutKey(r) == IF r.op = "create" THEN "return" ELSE "release"

\* Mutant: DeleteCredentials is deferred only once the lock is taken.
ExitWithoutLockOrKey(r) == "return"

ExitWithoutLock(r) == IF r.op = "create" THEN "delkey" ELSE "return"

-----------------------------------------------------------------------------

\* A request arrives.  CreateVolume stores the admin key first, the other
\* two try the lock first.
Receive(h) ==
    /\ pc[h] = "idle"
    /\ \E r \in Requests :
          /\ req' = [req EXCEPT ![h] = r]
          /\ Goto(h, IF r.op = "create" THEN "credentials" ELSE "lock")
    /\ UNCHANGED <<pools, reply, volumeLocks, keyFiles, cr>>

\* Where a handler goes with its key file stored: DeleteVolume has decoded
\* its id by then, ControllerExpandVolume decodes it now.
AfterCredentials(h) ==
    LET r == req[h] IN
    IF r.op = "expand" /\ ~Decodes(r.vol)
    THEN Answer(h, Error("Internal")) /\ Goto(h, "delkey")
    ELSE /\ Goto(h, CASE r.op = "create" -> "lock"
                      [] r.op = "delete" -> "delete"
                      [] r.op = "expand" -> "quota")
         /\ UNCHANGED reply

\* Mutant: the key is stored under a fixed name, shared by all requests.
NewAdminCredentialsFixedName(h) ==
    /\ pc[h] = "credentials"
    /\ LET k == CHOOSE k \in KeyFiles : TRUE IN
          /\ keyFiles' = keyFiles \cup {k}
          /\ cr' = [cr EXCEPT ![h] = k]
          /\ AfterCredentials(h)
    /\ UNCHANGED <<pools, req, volumeLocks>>

\* NewAdminCredentials with storeKey: TempFile picks a name not in use.
\* A file that cannot be written is removed again, unless that fails too.
NewAdminCredentials(h) ==
    /\ pc[h] = "credentials"
    /\ \/ \E k \in KeyFiles \ keyFiles :
             /\ keyFiles' = keyFiles \cup {k}
             /\ cr' = [cr EXCEPT ![h] = k]
             /\ AfterCredentials(h)
       \/ /\ Answer(h, Error("InvalidArgument"))
          /\ Goto(h, ExitWithoutKey(req[h]))
          /\ \/ UNCHANGED keyFiles
             \/ \E k \in KeyFiles \ keyFiles : keyFiles' = keyFiles \cup {k}
          /\ UNCHANGED cr
    /\ UNCHANGED <<pools, req, volumeLocks>>

\* A missing name, id or capability, or a block volume: refused before the
\* lock is tried.
RejectArguments(h) ==
    /\ pc[h] = "lock"
    /\ Answer(h, Error("InvalidArgument"))
    /\ Goto(h, ExitWithoutLock(req[h]))
    /\ UNCHANGED <<pools, req, volumeLocks, keyFiles, cr>>

\* Mutant: Release deferred before the result of TryAcquire is looked at,
\* so an aborted request frees the lock of the running one.
AbortBusyReleasing(h) ==
    /\ pc[h] = "lock"
    /\ ~TryAcquire(volumeLocks, LockKey(req[h]))
    /\ Answer(h, Error("Aborted"))
    /\ Goto(h, ExitWithoutLock(req[h]))
    /\ volumeLocks' = Release(volumeLocks, LockKey(req[h]))
    /\ UNCHANGED <<pools, req, keyFiles, cr>>

\* TryAcquire returned false.
AbortBusy(h) ==
    /\ pc[h] = "lock"
    /\ ~TryAcquire(volumeLocks, LockKey(req[h]))
    /\ Answer(h, Error("Aborted"))
    /\ Goto(h, ExitWithoutLock(req[h]))
    /\ UNCHANGED <<pools, req, volumeLocks, keyFiles, cr>>

\* TryAcquire returned true; the options are then read from the request
\* (CreateVolume: base path missing or id too long) or decoded from the id.
AcquireLock(h) ==
    LET r == req[h] IN
    /\ pc[h] = "lock"
    /\ TryAcquire(volumeLocks, LockKey(r))
    /\ volumeLocks' = Acquired(volumeLocks, LockKey(r))
    /\ \/ /\ r.op = "create"
          /\ Goto(h, "plist")
          /\ UNCHANGED reply
       \/ /\ r.op = "create"
          /\ Answer(h, Error("InvalidArgument"))
          /\ Goto(h, ExitWithLockAndKey(r))
       \/ /\ r.op = "delete" /\ ~Decodes(r.vol)
          /\ Answer(h, Error("Internal"))
          /\ Goto(h, ExitWithLock(r))
       \/ /\ r.op = "delete" => Decodes(r.vol)
          /\ r.op \in {"delete", "expand"}
          /\ Goto(h, "credentials")
          /\ UNCHANGED reply
    /\ UNCHANGED <<pools, req, keyFiles, cr>>

-----------------------------------------------------------------------------
(***************************************************************************)
(* The fcfs_pool commands.  The command itself is external: it needs the   *)
(* key file, acts on the cluster at one moment, and may fail before or     *)
(* after it acted.                                                         *)
(***************************************************************************)

KeyReadable(h) == cr[h] \in keyFiles

\* The command acted; it exits with success or with an error.
AnswerCommand(h) ==
    Answer(h, Success(req[h])) \/ Answer(h, Error("Internal"))

\* Mutant: the name lock is given up between the check and the creation.
ExecPlistUnlocking(h) ==
    /\ pc[h] = "plist"
    /\ \/ /\ pools[req[h].vol] # Absent
          /\ Answer(h, Success(req[h]))
          /\ Goto(h, ExitWithLockAndKey(req[h]))
          /\ UNCHANGED volumeLocks
       \/ /\ pools[req[h].vol] = Absent
          /\ Goto(h, "create")
          /\ volumeLocks' = Release(volumeLocks, LockKey(req[h]))
          /\ UNCHANGED reply
    /\ UNCHANGED <<pools, req, keyFiles, cr>>

\* Mutant: a failed plist is taken to mean that the pool exists.
ExecPlistErrorMeansExists(h) ==
    /\ pc[h] = "plist"
    /\ \/ /\ Answer(h, Success(req[h]))
          /\ Goto(h, ExitWithLockAndKey(req[h]))
       \/ /\ KeyReadable(h)
          /\ pools[req[h].vol] = Absent
          /\ Goto(h, "create")
          /\ UNCHANGED reply
    /\ UNCHANGED <<pools, req, volumeLocks, keyFiles, cr>>

\* VolumeExists: an existing pool is answered at once with the requested
\* capacity, an absent one is created next, any other exit is an error.
ExecPlist(h) ==
    /\ pc[h] = "plist"
    /\ \/ /\ KeyReadable(h)
          /\ pools[req[h].vol] # Absent
          /\ Answer(h, Success(req[h]))
          /\ Goto(h, ExitWithLockAndKey(req[h]))
       \/ /\ KeyReadable(h)
          /\ pools[req[h].vol] = Absent
          /\ Goto(h, "create")
          /\ UNCHANGED reply
       \/ /\ Answer(h, Error("Internal"))
          /\ Goto(h, ExitWithLockAndKey(req[h]))
    /\ UNCHANGED <<pools, req, volumeLocks, keyFiles, cr>>

\* cfs.CreateVolume: "fcfs_pool create" refuses a name that is taken.
ExecCreate(h) ==
    /\ pc[h] = "create"
    /\ \/ /\ KeyReadable(h)
          /\ pools[req[h].vol] = Absent
          /\ pools' = [pools EXCEPT ![req[h].vol] = CreateQuota(req[h])]
          /\ AnswerCommand(h)
       \/ /\ Answer(h, Error("Internal"))
          /\ UNCHANGED pools
    /\ Goto(h, ExitWithLockAndKey(req[h]))
    /\ UNCHANGED <<req, volumeLocks, keyFiles, cr>>

\* cfs.DeleteVolume: output with "No such file or directory" counts as
\* success.  fcfs_pool prints it for a pool that is gone and for a key file
\* that it cannot find.
ExecDelete(h) ==
    /\ pc[h] = "delete"
    /\ \/ /\ KeyReadable(h)
          /\ pools[req[h].vol] # Absent
          /\ pools' = [pools EXCEPT ![req[h].vol] = Absent]
          /\ AnswerCommand(h)
       \/ /\ KeyReadable(h) => pools[req[h].vol] = Absent
          /\ Answer(h, Success(req[h]))
          /\ UNCHANGED pools
       \/ /\ Answer(h, Error("Internal"))
          /\ UNCHANGED pools
    /\ Goto(h, ExitWithLockAndKey(req[h]))
    /\ UNCHANGED <<req, volumeLocks, keyFiles, cr>>

\* ResizeVolume: "fcfs_pool quota" sets the quota whatever it was before.
ExecQuota(h) ==
    /\ pc[h] = "quota"
    /\ \/ /\ KeyReadable(h)
          /\ pools[req[h].vol] # Absent
          /\ pools' = [pools EXCEPT ![req[h].vol] = ExpandQuota(req[h])]
          /\ AnswerCommand(h)
       \/ /\ Answer(h, Error("Internal"))
          /\ UNCHANGED pools
    /\ Goto(h, ExitWithLockAndKey(req[h]))
    /\ UNCHANGED <<req, volumeLocks, keyFiles, cr>>

-----------------------------------------------------------------------------

\* The deferred DeleteCredentials; the error of os.Remove is ignored.
DeleteCredentials(h) ==
    /\ pc[h] = "delkey"
    /\ keyFiles' = keyFiles \ {cr[h]} \/ UNCHANGED keyFiles
    /\ cr' = [cr EXCEPT ![h] = NoKey]
    /\ Goto(h, IF req[h].op = "create" THEN "return" ELSE "release")
    /\ UNCHANGED <<pools, req, reply, volumeLocks>>

\* Mutant: a handler that never reaches its deferred Release.
ReleaseLockStuck(h) ==
    /\ pc[h] = "release" /\ reply[h].code = "OK"
    /\ volumeLocks' = Release(volumeLocks, LockKey(req[h]))
    /\ Goto(h, IF req[h].op = "create" THEN "delkey" ELSE "return")
    /\ UNCHANGED <<pools, req, reply, keyFiles, cr>>

\* The deferred Release.  A CreateVolume handler still has its key file.
ReleaseLock(h) ==
    /\ pc[h] = "release"
    /\ volumeLocks' = Release(volumeLocks, LockKey(req[h]))
    /\ Goto(h, IF req[h].op = "create" THEN "delkey" ELSE "return")
    /\ UNCHANGED <<pools, req, reply, keyFiles, cr>>

\* The answer is on the wire (or lost with its connection).
Return(h) ==
    /\ pc[h] = "return"
    /\ req' = [req EXCEPT ![h] = NoRequest]
    /\ reply' = [reply EXCEPT ![h] = NoReply]
    /\ Goto(h, "idle")
    /\ UNCHANGED <<pools, volumeLocks, keyFiles, cr>>

\* The process dies and is restarted by the kubelet.
Crash ==
    /\ req' = [h \in Handlers |-> NoRequest]
    /\ reply' = [h \in Handlers |-> NoReply]
    /\ pc' = [h \in Handlers |-> "idle"]
    /\ volumeLocks' = NewVolumeLocks
    /\ cr' = [h \in Handlers |-> NoKey]
    /\ UNCHANGED <<pools, keyFiles>>

Step(h) ==
    \/ NewAdminCredentials(h)
    \/ RejectArguments(h)
    \/ AbortBusy(h)
    \/ AcquireLock(h)
    \/ ExecPlist(h)
    \/ ExecCreate(h)
    \/ ExecDelete(h)
    \/ ExecQuota(h)
    \/ DeleteCredentials(h)
    \/ ReleaseLock(h)
    \/ Return(h)

Next == (\E h \in Handlers : Receive(h) \/ Step(h)) \/ Crash

\* A goroutine that can run does run, and the commands terminate: weak
\* fairness of each handler.  Nothing makes requests arrive.
Spec == Init /\ [][Next]_vars /\ \A h \in Handlers : WF_vars(Step(h))
-----------------------------------------------------------------------------

\* The handler is between a successful TryAcquire and its deferred Release.
HoldsLock(h) ==
    IF req[h].op = "create"
    THEN pc[h] \in {"plist", "create", "release"}
    ELSE pc[h] \in {"credentials", "delete", "quota", "delkey", "release"}

\* Key files no handler will remove.
OrphanKeys == keyFiles \ {cr[h] : h \in Handlers}

TypeOK ==
    /\ pools \in [ComposedIDs -> Int \cup {Absent}]
    /\ req \in [Handlers -> Requests \cup {NoRequest}]
    /\ reply \in [Handlers -> Replies]
    /\ pc \in [Handlers -> Labels]
    /\ volumeLocks \subseteq Names \cup VolumeIDs
    /\ keyFiles \subseteq KeyFiles
    /\ cr \in [Handlers -> KeyFiles \cup {NoKey}]

\* Two handlers never hold the lock of the same string (TryAcquire lets one
\* in, the other is aborted without releasing what it does not hold).
MutualExclusion ==
    \A g, h \in Handlers :
        g # h /\ HoldsLock(g) /\ HoldsLock(h) => LockKey(req[g]) # LockKey(req[h])

\* The table holds exactly the locks of the running handlers: every return
\* path of the three handlers releases what it acquired and nothing else,
\* and a restart leaves no lock behind.
LocksHaveHolders ==
    volumeLocks = {LockKey(req[h]) : h \in {g \in Handlers : HoldsLock(g)}}

\* CreateVolume's check-then-act is safe: when the handler runs
\* "fcfs_pool create", the absence that "plist" reported still holds,
\* whatever other creations, deletions and expansions ran in between.
CheckedAbsent ==
    \A h \in Handlers : pc[h] = "create" => pools[req[h].vol] = Absent

\* Every command finds the key file its handler stored, and no handler can
\* remove the file of another.  ExecDelete turns a missing key file into a
\* deletion reported but not done.
KeysArePrivate ==
    /\ \A h \in Handlers :
          pc[h] \in {"plist", "create", "delete", "quota"} => cr[h] \in keyFiles
    /\ \A g, h \in Handlers : g # h /\ cr[g] = cr[h] => cr[g] = NoKey

\* The handler tries to remove the file in this step: its own one in
\* DeleteCredentials, or one that storeKey could not write.
TriesRemoval(h, k) ==
    \/ pc[h] = "delkey" /\ k = cr[h]
    \/ pc[h] = "credentials" /\ k \notin keyFiles /\ reply'[h].code = "InvalidArgument"

\* Every return path of the three handlers tries to remove the admin key it
\* has stored: a file stays in the key directory only when the process dies
\* or os.Remove fails.
KeysRemoved ==
    [][Crash \/ \A k \in OrphanKeys' \ OrphanKeys :
                   \E h \in Handlers : TriesRemoval(h, k)]_vars

\* No lock is held for ever: a retry that was aborted can get through.
LocksFreed ==
    \A k \in Names \cup VolumeIDs : k \in volumeLocks ~> k \notin volumeLocks

Service == INSTANCE VolumeService WITH pools <- pools, req <- req, reply <- reply

\* The controller implements the atomic volume service, its liveness
\* included: each request acts at most once, at one moment between arrival
\* and answer, OK means that it acted, and every request is answered unless
\* the process dies.
ImplementsService == Service!Spec
=============================================================================
