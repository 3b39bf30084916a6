----------------------------- MODULE NodeServer -----------------------------
(***************************************************************************)
(* The CSI node service, pkg/fcfs-driver/nodeserver.go with mount.go, over *)
(* the lock table of pkg/common/idlocker.go, the fcfs_fused daemons that   *)
(* pkg/fcfs/fcfs.go starts and the proxy that may start them instead       *)
(* (pkg/fcfsfused-proxy/server).                                           *)
(*                                                                         *)
(* The handlers check the host's mount table and then act on it in further *)
(* system calls and commands, so everything else that changes the table    *)
(* can run in between: the handlers of other requests, a daemon that dies, *)
(* a restart of the plugin, a mount that the proxy still owes to a plugin  *)
(* process that is gone, and the kubelet, which makes and removes          *)
(* directories.  All five requests of a volume lock the volume id.         *)
(* Requests come in any order: this is the node service on its own.        *)
(***************************************************************************)
EXTENDS Mounts, VolumeLocks, FiniteSets

CONSTANTS
    Handlers,      \* goroutines that serve requests (a bound)
    Volumes,       \* volume ids
    Pods,          \* pods that use the volumes
    ReadonlyPods,  \* the pods that mount them read-only
    Proxy,         \* EnableFcfsFusedProxy
    MaxStack,      \* bound on the mounts stacked on one path
    MaxOwed        \* bound on the mounts the proxy owes for one volume

ASSUME NodeAssumption ==
    /\ IsFiniteSet(Handlers)
    /\ ReadonlyPods \subseteq Pods
    /\ "staging" \notin Pods
    /\ Proxy \in BOOLEAN
    /\ MaxStack \in Nat \ {0}
    /\ MaxOwed \in Nat

VARIABLES
    mounts,       \* external: the mounts of each path, the last one on top
    dirs,         \* external: the paths that exist
    owed,         \* mounts the proxy will still do, by volume, though the
                  \* plugin process that asked for them is gone
    req,          \* the request each handler serves
    reply,        \* its answer, NoReply until the handler has decided
    pc,           \* where the handler is
    volumeLocks   \* nodeServer.volumeLocks

host == <<mounts, dirs, owed>>
vars == <<mounts, dirs, owed, req, reply, pc, volumeLocks>>

\* The kubelet derives the paths from the volume and the pod: a path is the
\* staging path of one volume or the target path of one volume in one pod.
Staging(v) == <<v, "staging">>
Target(v, p) == <<v, p>>
StagingPaths == {Staging(v) : v \in Volumes}
TargetPaths == {Target(v, p) : v \in Volumes, p \in Pods}
Paths == StagingPaths \cup TargetPaths

Ops == {"stage", "unstage", "publish", "unpublish", "stats"}
Requests ==
    [op : {"stage", "unstage"}, path : StagingPaths]
        \cup [op : {"publish", "unpublish"}, path : TargetPaths]
        \cup [op : {"stats"}, path : Paths]
NoRequest == [op |-> "none", path |-> <<>>]

VolumeId(r) == r.path[1]
Readonly(r) == r.path[2] \in ReadonlyPods

NoReply == "none"
Codes == {"OK", "InvalidArgument", "NotFound", "Aborted", "Internal"}

Labels == {"idle", "validate", "lock", "inspect", "readdir", "unmount",
           "makedir", "fuse", "exec", "bind", "remount", "rmtarget",
           "umount", "remove", "cleanup", "rmdir", "statfs", "release",
           "return"}

Init ==
    /\ mounts = [p \in Paths |-> <<>>]
    /\ dirs = {}
    /\ owed = [v \in Volumes |-> 0]
    /\ req = [h \in Handlers |-> NoRequest]
    /\ reply = [h \in Handlers |-> NoReply]
    /\ pc = [h \in Handlers |-> "idle"]
    /\ volumeLocks = NewVolumeLocks

-----------------------------------------------------------------------------

Goto(h, label) == pc' = [pc EXCEPT ![h] = label]
Answer(h, code) == reply' = [reply EXCEPT ![h] = code]

\* The handler goes on, or it decides: holding the lock, or without it.
Continue(h, label) == Goto(h, label) /\ UNCHANGED reply
Decide(h, code) == Answer(h, code) /\ Goto(h, "release")
Refuse(h, code) == Answer(h, code) /\ Goto(h, "return")

Path(h) == req[h].path
Shown(h) == IF Path(h) \in dirs THEN Top(mounts[Path(h)]) ELSE "missing"

Unmounted(h) == mounts' = [mounts EXCEPT ![Path(h)] = Pop(@)]

\* rmdir removes an existing directory that nothing is mounted on.
Removable(h) == Path(h) \in dirs /\ mounts[Path(h)] = <<>>

-----------------------------------------------------------------------------

\* Request r arrives.
Accept(h, r) ==
    /\ pc[h] = "idle"
    /\ req' = [req EXCEPT ![h] = r]
    /\ Goto(h, IF r.op \in {"stage", "stats"} THEN "validate" ELSE "lock")
    /\ UNCHANGED <<reply, volumeLocks, host>>

Receive(h) == \E r \in Requests : Accept(h, r)

\* What two of the handlers look at before they try the lock: a staging
\* path must exist, a volume path must be a mount point.  The first takes
\* any other error of stat for a path that exists, the second returns it.
Validate(h) ==
    /\ pc[h] = "validate"
    /\ \/ /\ req[h].op = "stage"
          /\ IF Shown(h) = "missing" THEN Refuse(h, "InvalidArgument")
                                     ELSE Continue(h, "lock")
       \/ /\ req[h].op = "stats"
          /\ \/ Shown(h) = "missing" /\ Refuse(h, "NotFound")
             \/ Shown(h) \in {"none", "bare"} /\ Refuse(h, "InvalidArgument")
             \/ Shown(h) = "live" /\ Continue(h, "lock")
             \/ Shown(h) # "missing" /\ Refuse(h, "Internal")
    /\ UNCHANGED <<req, volumeLocks, host>>

\* A missing id, path, capability or secret, or a block volume.
RejectArguments(h) ==
    /\ pc[h] \in {"validate", "lock"}
    /\ Refuse(h, "InvalidArgument")
    /\ UNCHANGED <<req, volumeLocks, host>>

\* Mutant: Release deferred before the result of TryAcquire is looked at.
AbortBusyReleasing(h) ==
    /\ pc[h] = "lock"
    /\ ~TryAcquire(volumeLocks, VolumeId(req[h]))
    /\ volumeLocks' = Release(volumeLocks, VolumeId(req[h]))
    /\ Refuse(h, "Aborted")
    /\ UNCHANGED <<req, host>>

\* TryAcquire returned false.
AbortBusy(h) ==
    /\ pc[h] = "lock"
    /\ ~TryAcquire(volumeLocks, VolumeId(req[h]))
    /\ Refuse(h, "Aborted")
    /\ UNCHANGED <<req, volumeLocks, host>>

\* TryAcquire returned true.
AcquireLock(h) ==
    /\ pc[h] = "lock"
    /\ TryAcquire(volumeLocks, VolumeId(req[h]))
    /\ volumeLocks' = Acquired(volumeLocks, VolumeId(req[h]))
    /\ Continue(h, CASE req[h].op = "unpublish" -> "umount"
                     [] req[h].op = "stats" -> "statfs"
                     [] OTHER -> "inspect")
    /\ UNCHANGED <<req, host>>

-----------------------------------------------------------------------------
(***************************************************************************)
(* ensureMountPoint, the start of NodeStageVolume and NodePublishVolume.   *)
(***************************************************************************)

\* Mutant: a path that stat fails on is taken for one that is not mounted.
InspectIgnoringCorruption(h) ==
    /\ pc[h] = "inspect" /\ req[h].op \in {"stage", "publish"}
    /\ \/ Shown(h) = "live" /\ Continue(h, "readdir")
       \/ Shown(h) # "live" /\ Continue(h, "makedir")
    /\ UNCHANGED <<req, volumeLocks, host>>

\* IsLikelyNotMountPoint, and IsCorruptedDir if it fails.
InspectMountPoint(h) ==
    /\ pc[h] = "inspect" /\ req[h].op \in {"stage", "publish"}
    /\ \/ Shown(h) \in {"live", "dead"} /\ Continue(h, "readdir")
       \/ Shown(h) \in {"missing", "none", "bare"} /\ Continue(h, "makedir")
       \/ Decide(h, "Internal")
    /\ UNCHANGED <<req, volumeLocks, host>>

\* Mutant: an unreadable mount is looked at again until it can be read.
ReadMountPointRetrying(h) ==
    /\ pc[h] = "readdir"
    /\ \/ Shown(h) \notin {"dead", "missing"} /\ Decide(h, "OK")
       \/ Continue(h, "inspect")
    /\ UNCHANGED <<req, volumeLocks, host>>

\* A path that can be read is taken to be mounted already.  Any error of
\* ReadDir, one that a working daemon reports too, leads to the umount.
ReadMountPoint(h) ==
    /\ pc[h] = "readdir"
    /\ \/ Shown(h) \notin {"dead", "missing"} /\ Decide(h, "OK")
       \/ Continue(h, "unmount")
    /\ UNCHANGED <<req, volumeLocks, host>>

\* Mutant: the error is returned and the mount is left alone.
UnmountCorruptedSkipped(h) ==
    /\ pc[h] = "unmount"
    /\ Decide(h, "Internal")
    /\ UNCHANGED <<req, volumeLocks, host>>

\* The mount that cannot be read is taken away.  The error of ReadDir is returned
\* even when umount succeeds.
UnmountCorrupted(h) ==
    /\ pc[h] = "unmount"
    /\ \/ mounts[Path(h)] # <<>> /\ Unmounted(h)
       \/ UNCHANGED mounts
    /\ Decide(h, "Internal")
    /\ UNCHANGED <<req, volumeLocks, dirs, owed>>

MakeDir(h) ==
    /\ pc[h] = "makedir"
    /\ \/ /\ dirs' = dirs \cup {Path(h)}
          /\ Continue(h, IF req[h].op = "stage" THEN "fuse" ELSE "bind")
       \/ Decide(h, "Internal") /\ UNCHANGED dirs
    /\ UNCHANGED <<req, volumeLocks, mounts, owed>>

-----------------------------------------------------------------------------
(***************************************************************************)
(* NodeStageVolume: FcfsMount.                                             *)
(***************************************************************************)

\* The volume id is decoded, or the options of a static volume are read
\* from the context, the mount point is made, and the credentials are
\* stored or the proxy is dialled; each of these may fail.
FcfsMount(h) ==
    /\ pc[h] = "fuse"
    /\ \/ dirs' = dirs \cup {Path(h)} /\ Continue(h, "exec")
       \/ UNCHANGED dirs /\ Decide(h, "Internal")
    /\ UNCHANGED <<req, volumeLocks, mounts, owed>>

\* The daemon of volume v ends: every mount it serves is dead.
DaemonGone(v) ==
    [p \in Paths |-> IF p[1] = v THEN Orphaned(mounts[p]) ELSE mounts[p]]

\* The same when it is told to stop: it may take its own mount away.
DaemonStopped(v) ==
    {DaemonGone(v)} \cup
        {[DaemonGone(v) EXCEPT ![p] = Pop(@)] :
            p \in {q \in {Staging(v)} : IsMountPoint(mounts[q])}}

\* "fcfs_fused ... restart", external: the daemon that runs for v is
\* stopped, then a new one mounts on the staging path, or fails to.
FcfsFusedRestart(v, mounted) ==
    /\ mounted => Staging(v) \in dirs /\ Len(mounts[Staging(v)]) < MaxStack
    /\ \E m \in DaemonStopped(v) :
          mounts' = IF mounted
                    THEN [m EXCEPT ![Staging(v)] = Append(@, NewMount("live"))]
                    ELSE m

\* FuseMount runs the command in the plugin, MountFcfsFused in the proxy:
\* the handler then waits for the proxy's answer, without a deadline.  The
\* command may fail before or after it acted.
ExecFcfsFused(h) ==
    /\ pc[h] = "exec"
    /\ \/ FcfsFusedRestart(VolumeId(req[h]), TRUE) /\ Decide(h, "OK")
       \/ /\ \E mounted \in BOOLEAN : FcfsFusedRestart(VolumeId(req[h]), mounted)
          /\ Decide(h, "Internal")
       \/ Decide(h, "Internal") /\ UNCHANGED mounts
    /\ UNCHANGED <<req, volumeLocks, dirs, owed>>

-----------------------------------------------------------------------------
(***************************************************************************)
(* NodePublishVolume: Mount is two commands, "mount -o bind" and "mount -o *)
(* remount", and only the second one carries "ro".                         *)
(***************************************************************************)

\* A bind of the staging path shows what that path shows at this moment.
BindMount(h) ==
    LET source == Staging(VolumeId(req[h])) IN
    /\ pc[h] = "bind"
    /\ \/ /\ {source, Path(h)} \subseteq dirs /\ ~IsCorrupted(mounts[source])
          /\ Len(mounts[Path(h)]) < MaxStack
          /\ mounts' = [mounts EXCEPT ![Path(h)] =
                 Append(@, NewMount(IF IsMountPoint(mounts[source]) THEN "live" ELSE "bare"))]
          /\ Continue(h, "remount")
       \/ /\ Continue(h, "rmtarget")
          /\ UNCHANGED mounts
    /\ UNCHANGED <<req, volumeLocks, dirs, owed>>

RemountBind(h) ==
    /\ pc[h] = "remount"
    /\ \/ /\ mounts' = [mounts EXCEPT ![Path(h)] = Remounted(@, Readonly(req[h]))]
          /\ Decide(h, "OK")
       \/ /\ Continue(h, "rmtarget")
          /\ UNCHANGED mounts
    /\ UNCHANGED <<req, volumeLocks, dirs, owed>>

\* Mount failed: the target is removed, unless the bind is still on it.
RemoveTarget(h) ==
    /\ pc[h] = "rmtarget"
    /\ \/ Removable(h) /\ dirs' = dirs \ {Path(h)}
       \/ UNCHANGED dirs
    /\ Decide(h, "Internal")
    /\ UNCHANGED <<req, volumeLocks, mounts, owed>>

-----------------------------------------------------------------------------
(***************************************************************************)
(* NodeUnpublishVolume, NodeUnstageVolume and NodeGetVolumeStats.          *)
(***************************************************************************)

\* unmountVolume.  The error it looks into is "exit status 32", which holds
\* none of the texts it looks for, so every failure of umount is returned,
\* that of a path that is not mounted too.
UnmountVolume(h) ==
    /\ pc[h] = "umount"
    /\ \/ mounts[Path(h)] # <<>> /\ Unmounted(h) /\ Continue(h, "remove")
       \/ Decide(h, "Internal") /\ UNCHANGED mounts
    /\ UNCHANGED <<req, volumeLocks, dirs, owed>>

\* The directory is removed; a missing one is fine.
RemoveUnpublished(h) ==
    /\ pc[h] = "remove"
    /\ \/ Removable(h) /\ dirs' = dirs \ {Path(h)} /\ Decide(h, "OK")
       \/ Shown(h) = "missing" /\ UNCHANGED dirs /\ Decide(h, "OK")
       \/ Shown(h) # "missing" /\ UNCHANGED dirs /\ Decide(h, "Internal")
    /\ UNCHANGED <<req, volumeLocks, mounts, owed>>

\* Mutant: every error of the check is taken for a path that is gone.
InspectStagingAnyError(h) ==
    /\ pc[h] = "inspect" /\ req[h].op = "unstage"
    /\ IF Shown(h) = "live" THEN Continue(h, "cleanup") ELSE Decide(h, "OK")
    /\ UNCHANGED <<req, volumeLocks, host>>

\* IsLikelyNotMountPoint of NodeUnstageVolume: a dead mount is an error, and
\* the stat of any other path may fail too.
InspectStaging(h) ==
    /\ pc[h] = "inspect" /\ req[h].op = "unstage"
    /\ \/ Shown(h) = "missing" /\ Decide(h, "NotFound")
       \/ Shown(h) \in {"none", "bare"} /\ Decide(h, "OK")
       \/ Shown(h) = "live" /\ Continue(h, "cleanup")
       \/ Shown(h) # "missing" /\ Decide(h, "Internal")
    /\ UNCHANGED <<req, volumeLocks, host>>

\* Mutant: the directory is to be removed without the umount.
CleanupMountPointMounted(h) ==
    /\ pc[h] = "cleanup"
    /\ IF Shown(h) = "missing" THEN Decide(h, "OK") ELSE Continue(h, "rmdir")
    /\ UNCHANGED <<req, volumeLocks, host>>

\* CleanupMountPoint looks again: nothing to do for a missing path, rmdir
\* for a path that is not mounted, umount for a mounted or corrupted one.
CleanupMountPoint(h) ==
    /\ pc[h] = "cleanup"
    /\ \/ Shown(h) = "missing" /\ Decide(h, "OK") /\ UNCHANGED <<mounts, dirs>>
       \/ Removable(h) /\ dirs' = dirs \ {Path(h)} /\ Decide(h, "OK") /\ UNCHANGED mounts
       \/ Shown(h) \in {"live", "dead"} /\ Unmounted(h) /\ Continue(h, "rmdir") /\ UNCHANGED dirs
       \/ Shown(h) # "missing" /\ Decide(h, "Internal") /\ UNCHANGED <<mounts, dirs>>
    /\ UNCHANGED <<req, volumeLocks, owed>>

\* ... and once more after umount: only a path that is no mount point now
\* can be removed, any other outcome is an error.
RemoveCleaned(h) ==
    /\ pc[h] = "rmdir"
    /\ \/ Removable(h) /\ dirs' = dirs \ {Path(h)} /\ Decide(h, "OK")
       \/ UNCHANGED dirs /\ Decide(h, "Internal")
    /\ UNCHANGED <<req, volumeLocks, mounts, owed>>

\* statfs answers for whatever the path shows, a plain directory too.
StatFS(h) ==
    /\ pc[h] = "statfs"
    /\ \/ Shown(h) \in {"live", "none", "bare"} /\ Decide(h, "OK")
       \/ Decide(h, "Internal")
    /\ UNCHANGED <<req, volumeLocks, host>>

-----------------------------------------------------------------------------

\* Mutant: the lock is released at the end, not deferred.
ReleaseLockOnSuccess(h) ==
    /\ pc[h] = "release"
    /\ volumeLocks' = IF reply[h] = "OK" THEN Release(volumeLocks, VolumeId(req[h]))
                                         ELSE volumeLocks
    /\ Goto(h, "return")
    /\ UNCHANGED <<req, reply, host>>

\* Mutant: the lock is released where an error is returned, not deferred.
ReleaseLockOnError(h) ==
    /\ pc[h] = "release"
    /\ volumeLocks' = IF reply[h] = "OK" THEN volumeLocks
                                         ELSE Release(volumeLocks, VolumeId(req[h]))
    /\ Goto(h, "return")
    /\ UNCHANGED <<req, reply, host>>

\* The deferred Release.
ReleaseLock(h) ==
    /\ pc[h] = "release"
    /\ volumeLocks' = Release(volumeLocks, VolumeId(req[h]))
    /\ Goto(h, "return")
    /\ UNCHANGED <<req, reply, host>>

\* The answer is on the wire (or lost with its connection).
Return(h) ==
    /\ pc[h] = "return"
    /\ req' = [req EXCEPT ![h] = NoRequest]
    /\ reply' = [reply EXCEPT ![h] = NoReply]
    /\ Goto(h, "idle")
    /\ UNCHANGED <<volumeLocks, host>>

-----------------------------------------------------------------------------

\* Handlers whose mount is at the proxy.
AtProxy(v) == {h \in Handlers : Proxy /\ pc[h] = "exec" /\ VolumeId(req[h]) = v}

\* The plugin dies and is restarted by the kubelet.  Without the proxy the
\* daemons run in its container and end with it; the proxy goes on with the
\* mounts it was asked for.
Crash ==
    /\ \A v \in Volumes : owed[v] + Cardinality(AtProxy(v)) <= MaxOwed
    /\ owed' = [v \in Volumes |-> owed[v] + Cardinality(AtProxy(v))]
    /\ mounts' = IF Proxy THEN mounts ELSE [p \in Paths |-> Orphaned(mounts[p])]
    /\ req' = [h \in Handlers |-> NoRequest]
    /\ reply' = [h \in Handlers |-> NoReply]
    /\ pc' = [h \in Handlers |-> "idle"]
    /\ volumeLocks' = NewVolumeLocks
    /\ UNCHANGED dirs

\* The proxy does a mount nobody waits for any more.
ProxyOwedMount(v) ==
    /\ owed[v] > 0
    /\ owed' = [owed EXCEPT ![v] = @ - 1]
    /\ \/ \E mounted \in BOOLEAN : FcfsFusedRestart(v, mounted)
       \/ UNCHANGED mounts
    /\ UNCHANGED <<dirs, req, reply, pc, volumeLocks>>

\* The proxy dies with its daemons; the handlers that wait get an error.
ProxyCrash ==
    /\ Proxy
    /\ mounts' = [p \in Paths |-> Orphaned(mounts[p])]
    /\ owed' = [v \in Volumes |-> 0]
    /\ LET waiting == UNION {AtProxy(v) : v \in Volumes} IN
          /\ reply' = [h \in Handlers |-> IF h \in waiting THEN "Internal" ELSE reply[h]]
          /\ pc' = [h \in Handlers |-> IF h \in waiting THEN "release" ELSE pc[h]]
    /\ UNCHANGED <<dirs, req, volumeLocks>>

\* A daemon dies.
DaemonDies(v) ==
    /\ mounts' = DaemonGone(v)
    /\ UNCHANGED <<dirs, owed, req, reply, pc, volumeLocks>>

\* External: the kubelet makes the staging directory before it asks for
\* staging, and removes the directories it is done with.
KubeletMakesDir(v) ==
    /\ dirs' = dirs \cup {Staging(v)}
    /\ UNCHANGED <<mounts, owed, req, reply, pc, volumeLocks>>

KubeletRemovesDir(p) ==
    /\ mounts[p] = <<>>
    /\ dirs' = dirs \ {p}
    /\ UNCHANGED <<mounts, owed, req, reply, pc, volumeLocks>>

\* A handler of a well-formed request, up to its return.
Work(h) ==
    \/ Validate(h) \/ AbortBusy(h) \/ AcquireLock(h)
    \/ InspectMountPoint(h) \/ ReadMountPoint(h) \/ UnmountCorrupted(h) \/ MakeDir(h)
    \/ FcfsMount(h) \/ ExecFcfsFused(h)
    \/ BindMount(h) \/ RemountBind(h) \/ RemoveTarget(h)
    \/ UnmountVolume(h) \/ RemoveUnpublished(h)
    \/ InspectStaging(h) \/ CleanupMountPoint(h) \/ RemoveCleaned(h)
    \/ StatFS(h)
    \/ ReleaseLock(h)

Step(h) == Work(h) \/ RejectArguments(h) \/ Return(h)

Environment ==
    \/ Crash
    \/ ProxyCrash
    \/ \E v \in Volumes :
          ProxyOwedMount(v) \/ DaemonDies(v) \/ KubeletMakesDir(v)
    \/ \E p \in Paths : KubeletRemovesDir(p)

Next == (\E h \in Handlers : Receive(h) \/ Step(h)) \/ Environment

\* A goroutine that can run does run, and the commands and the proxy
\* answer: weak fairness of each handler.
Spec == Init /\ [][Next]_vars /\ \A h \in Handlers : WF_vars(Step(h))
-----------------------------------------------------------------------------

\* The handler is between a successful TryAcquire and its deferred Release.
HoldsLock(h) == pc[h] \notin {"idle", "validate", "lock", "return"}

TypeOK ==
    /\ mounts \in [Paths -> Seq(Mount)]
    /\ dirs \subseteq Paths
    /\ owed \in [Volumes -> 0..MaxOwed]
    /\ req \in [Handlers -> Requests \cup {NoRequest}]
    /\ reply \in [Handlers -> Codes \cup {NoReply}]
    /\ pc \in [Handlers -> Labels]
    /\ volumeLocks \subseteq Volumes

\* The table holds exactly the volumes of the running handlers, and each
\* belongs to one handler: on a node, unlike in the controller, no two
\* operations on one volume ever overlap.
OneOperationPerVolume ==
    /\ volumeLocks = {VolumeId(req[h]) : h \in {g \in Handlers : HoldsLock(g)}}
    /\ \A g, h \in Handlers :
          g # h /\ HoldsLock(g) /\ HoldsLock(h) => VolumeId(req[g]) # VolumeId(req[h])

\* FastCFS is only ever the top mount of a path: no request buries a mount
\* of the volume, dead or alive, under another one, where no later unmount
\* of the path would find it.  With the proxy this holds for the target
\* paths; a mount it still owes can bury one on a staging path.
NothingBuried ==
    \A p \in IF Proxy THEN TargetPaths ELSE Paths :
        \A i \in DOMAIN mounts[p] : mounts[p][i].fs # "bare" => i = Len(mounts[p])

\* An OK answer still describes the host when the handler is about to
\* release the lock, whatever died or was retried since it looked: a staged
\* or published path has a mount, an unstaged or unpublished one has none,
\* and the unpublished directory is gone.
AnswersHold ==
    \A h \in Handlers :
        pc[h] = "release" /\ reply[h] = "OK" =>
            /\ req[h].op \in {"stage", "publish"} => mounts[Path(h)] # <<>>
            /\ req[h].op \in {"unstage", "unpublish"} => mounts[Path(h)] = <<>>
            /\ req[h].op = "unpublish" => Path(h) \notin dirs

\* What ensureMountPoint saw still holds when the handler acts on it, several
\* system calls later: the mount it takes away after a failed ReadDir is one
\* of FastCFS, and neither "fcfs_fused restart" nor the bind meets one.
ChecksHold ==
    \A h \in Handlers :
        /\ pc[h] = "unmount" => Shown(h) \in {"live", "dead"}
        /\ pc[h] \in {"fuse", "exec", "bind"} => Shown(h) \notin {"live", "dead"}

\* With the proxy a mount can come late, so AnswersHold is too much to ask of
\* a staging path.  What is left: at the moment when an unstaging or an
\* unpublication is decided to be OK, the path has no mount.
UnmountedWhenDecided ==
    [][\A h \in Handlers :
          req[h].op \in {"unstage", "unpublish"} /\ reply[h] = NoReply /\ reply'[h] = "OK" =>
              mounts'[Path(h)] = <<>>]_vars

\* Every request is answered, unless the plugin dies, which also ends it.
Answered == \A h \in Handlers : pc[h] # "idle" ~> pc[h] = "idle"

\* What the CSI interface says of NodePublishVolumeRequest.readonly ("SP
\* MUST publish the volume in readonly mode"): a read-only publication that
\* is answered OK is read-only.
ReadonlyHonoured ==
    [][\A h \in Handlers :
          /\ req[h].op = "publish" /\ Readonly(req[h])
          /\ reply[h] = NoReply /\ reply'[h] = "OK"
          => mounts'[Path(h)][Len(mounts'[Path(h)])].ro]_vars

\* What unmountVolume does with "not mounted" and "No such file or
\* directory": unpublishing a path that is not mounted is no error.
UnpublishIdempotent ==
    [][\A h \in Handlers :
          pc[h] = "umount" /\ mounts[Path(h)] = <<>> => reply'[h] # "Internal"]_vars
=============================================================================
