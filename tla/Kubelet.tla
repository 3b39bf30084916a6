------------------------------ MODULE Kubelet -------------------------------
(***************************************************************************)
(* The node service under its caller.  Pods come and go; the kubelet       *)
(* stages a volume, publishes it for each pod, unpublishes and unstages    *)
(* it, one call for a volume at a time, and repeats a call until it is     *)
(* answered OK.  It cannot see the mount table: it goes by the answers,    *)
(* and an answer may be an error, late or lost.                            *)
(*                                                                         *)
(* The kubelet is external and modelled by the order of calls that the     *)
(* node service is written for.  A call that timed out is forgotten, while *)
(* its handler goes on: mostly with the lock of the volume, which turns    *)
(* every later call away until it has ended, but it may also be still in   *)
(* front of the lock, in the stat of NodeStageVolume for example, and take *)
(* it at any later time.  late remembers the volumes where that happened.  *)
(*                                                                         *)
(* Deaths, timeouts and failures of commands are faults, MaxFaults of them *)
(* at most.  What fails of necessity, because of what the mount table is,  *)
(* is no fault and fails again at every retry.                             *)
(***************************************************************************)
EXTENDS NodeServer

CONSTANT MaxFaults  \* faults of a behaviour (a bound)

ASSUME KubeletAssumption == MaxFaults \in Nat

VARIABLES
    pod,      \* whether a pod is "wanted" or "gone"
    belief,   \* what the kubelet takes a path to be: "clean", "ready", or
              \* "tried" when it has asked and has not been answered OK
    awaited,  \* the handlers whose answer it waits for
    late,     \* the volumes whose lock was taken for a forgotten call
    faults    \* the faults left

kubelet == <<pod, belief, awaited, late, faults>>
allVars == <<vars, kubelet>>

KubeletInit ==
    /\ Init
    /\ pod = [p \in Pods |-> "gone"]
    /\ belief = [p \in Paths |-> "clean"]
    /\ awaited = {}
    /\ late = {}
    /\ faults = MaxFaults

-----------------------------------------------------------------------------

Wanted == {p \in Pods : pod[p] = "wanted"}

\* No call for the volume is awaited.
Free(v) == \A h \in awaited : VolumeId(req[h]) # v

\* A pod has paths of its own: a name is used again once they are clean.
AddPod(p) ==
    /\ pod[p] = "gone" /\ \A v \in Volumes : belief[Target(v, p)] = "clean"
    /\ pod' = [pod EXCEPT ![p] = "wanted"]
    /\ UNCHANGED <<vars, belief, awaited, late, faults>>

RemovePod(p) ==
    /\ pod[p] = "wanted"
    /\ pod' = [pod EXCEPT ![p] = "gone"]
    /\ UNCHANGED <<vars, belief, awaited, late, faults>>

\* The kubelet calls: from now on it does not know what the path is.
Ask(op, path) ==
    /\ Free(path[1])
    /\ \E h \in Handlers :
          /\ Accept(h, [op |-> op, path |-> path])
          /\ awaited' = awaited \cup {h}
    /\ belief' = [belief EXCEPT ![path] = "tried"]
    /\ UNCHANGED <<pod, late, faults>>

MakeStagingDir(v) ==
    /\ Free(v) /\ Wanted # {} /\ belief[Staging(v)] # "ready"
    /\ Staging(v) \notin dirs
    /\ KubeletMakesDir(v)
    /\ UNCHANGED kubelet

Stage(v) ==
    /\ Wanted # {} /\ belief[Staging(v)] # "ready" /\ Staging(v) \in dirs
    /\ Ask("stage", Staging(v))

Publish(v, p) ==
    /\ p \in Wanted /\ belief[Staging(v)] = "ready" /\ belief[Target(v, p)] # "ready"
    /\ Ask("publish", Target(v, p))

Unpublish(v, p) ==
    /\ pod[p] = "gone" /\ belief[Target(v, p)] # "clean"
    /\ Ask("unpublish", Target(v, p))

\* The last user is gone.
Unstage(v) ==
    /\ Wanted = {} /\ belief[Staging(v)] # "clean"
    /\ \A p \in Pods : belief[Target(v, p)] = "clean"
    /\ Ask("unstage", Staging(v))

RemoveCleanDir(path) ==
    /\ Wanted = {} /\ belief[path] = "clean" /\ path \in dirs
    /\ KubeletRemovesDir(path)
    /\ UNCHANGED kubelet

\* The kubelet is answered.
ReceiveAnswer(h) ==
    /\ h \in awaited
    /\ Return(h)
    /\ awaited' = awaited \ {h}
    /\ belief' = IF reply[h] # "OK" THEN belief
                 ELSE [belief EXCEPT ![Path(h)] =
                          IF req[h].op \in {"stage", "publish"} THEN "ready" ELSE "clean"]
    /\ UNCHANGED <<pod, late, faults>>

\* The answer to a call it has given up.
LateAnswer(h) ==
    /\ h \notin awaited
    /\ Return(h)
    /\ UNCHANGED kubelet

-----------------------------------------------------------------------------

Fault == faults > 0 /\ faults' = faults - 1

\* The step is an error, or leads to the cleanup after one.
Errs(h) == reply'[h] = "Internal" \/ pc'[h] \in {"rmtarget", "unmount"}

\* What the step of the handler needs of the mount table to succeed.
CanSucceed(h) ==
    LET source == Staging(VolumeId(req[h])) IN
    CASE pc[h] = "exec" -> Path(h) \in dirs /\ Len(mounts[Path(h)]) < MaxStack
      [] pc[h] = "bind" -> /\ {source, Path(h)} \subseteq dirs /\ ~IsCorrupted(mounts[source])
                           /\ Len(mounts[Path(h)]) < MaxStack
      [] pc[h] \in {"unmount", "umount"} -> mounts[Path(h)] # <<>>
      [] pc[h] \in {"rmtarget", "remove", "rmdir"} -> Removable(h)
      [] pc[h] = "cleanup" -> Shown(h) # "bare"
      [] pc[h] \in {"validate", "readdir", "statfs"} \/ (pc[h] = "inspect" /\ req[h].op = "unstage") ->
            Shown(h) \notin {"missing", "dead"}
      [] OTHER -> TRUE

\* The step is an error and need not have been one, or it is the cleanup
\* after an error and does nothing although it could.
Spontaneous(h) ==
    /\ CanSucceed(h)
    /\ IF pc[h] \in {"unmount", "rmtarget"} THEN UNCHANGED host ELSE Errs(h)

\* The step takes the lock for a call that nobody waits for any more.
TakesLockLate(h) == h \notin awaited /\ AcquireLock(h)

HandlerStep(h) ==
    /\ Work(h)
    /\ IF reply[h] = NoReply /\ Spontaneous(h) THEN Fault ELSE UNCHANGED faults
    /\ late' = IF TakesLockLate(h) THEN late \cup {VolumeId(req[h])} ELSE late
    /\ UNCHANGED <<pod, belief, awaited>>

\* The call times out, wherever its handler is.
GiveUp(h) ==
    /\ h \in awaited
    /\ Fault
    /\ awaited' = awaited \ {h}
    /\ UNCHANGED <<vars, pod, belief, late>>

PluginCrash ==
    /\ Crash
    /\ Fault
    /\ awaited' = {}
    /\ UNCHANGED <<pod, belief, late>>

DaemonFault(v) ==
    /\ DaemonDies(v)
    /\ Fault
    /\ UNCHANGED <<pod, belief, awaited, late>>

DeviceCalls(v) == MakeStagingDir(v) \/ Stage(v) \/ Unstage(v)
PodCalls(v, p) == Publish(v, p) \/ Unpublish(v, p)

KubeletNext ==
    \/ \E p \in Pods : AddPod(p) \/ RemovePod(p)
    \/ \E v \in Volumes : DeviceCalls(v) \/ DaemonFault(v)
    \/ \E v \in Volumes, p \in Pods : PodCalls(v, p)
    \/ \E path \in Paths : RemoveCleanDir(path)
    \/ \E h \in Handlers : HandlerStep(h) \/ ReceiveAnswer(h) \/ LateAnswer(h) \/ GiveUp(h)
    \/ PluginCrash

\* The handlers run, the answers arrive and the kubelet goes on calling; its
\* reconciler goes through all pods, so none is passed over for ever.
KubeletSpec ==
    /\ KubeletInit
    /\ [][KubeletNext]_allVars
    /\ \A h \in Handlers : WF_allVars(HandlerStep(h) \/ ReceiveAnswer(h) \/ LateAnswer(h))
    /\ \A v \in Volumes :
          WF_allVars(DeviceCalls(v)) /\ \A p \in Pods : SF_allVars(PodCalls(v, p))

-----------------------------------------------------------------------------

\* A path the kubelet takes to be clean has no mount, and a path it takes to
\* be ready has FastCFS on top, alive or dead: no death and no failure makes
\* it forget a mount, and no pod is given the host's own directory to write
\* to.  One thing can: a forgotten call that takes its lock late does its
\* work behind the back of the kubelet.
BeliefsHold ==
    \A path \in Paths : path[1] \notin late =>
        /\ belief[path] = "clean" => mounts[path] = <<>>
        /\ belief[path] = "ready" => Top(mounts[path]) \in {"live", "dead"}

\* The three things a retry cannot get over: a dead staging mount, which
\* cannot be bound and which NodeUnstageVolume refuses to look at; a target
\* path that is not mounted, which NodeUnpublishVolume cannot unmount; a
\* staging path that is gone, which NodeUnstageVolume does not find.
DeadStaging(v) == IsCorrupted(mounts[Staging(v)])
NoTarget(v) == \E p \in Pods : belief[Target(v, p)] = "tried" /\ mounts[Target(v, p)] = <<>>
NoStaging(v) == belief[Staging(v)] = "tried" /\ Staging(v) \notin dirs
DeadEnd(v) == DeadStaging(v) \/ NoTarget(v) \/ NoStaging(v)

\* Without a fault nothing gets stuck between two calls.
DeadEndsNeedFaults ==
    \A v \in Volumes : Free(v) /\ DeadEnd(v) => faults < MaxFaults

\* ... and no call is answered with an error: the life of a volume that
\* nothing disturbs, with all its checks of the mount table, is always OK.
FaultlessCallsSucceed ==
    faults = MaxFaults => \A h \in Handlers : reply[h] \in {NoReply, "OK"}

\* The restart of the daemon that NodeStageVolume ends with and the umount of
\* NodeUnstageVolume would break every pod that uses the volume.  A call that
\* the kubelet gave up may get to them after any number of retries; still,
\* while one of the two requests has the lock no pod has the volume mounted,
\* unless the lock of the volume was taken for a forgotten call.
UsedVolumesLeftAlone ==
    \A h \in Handlers, p \in Pods :
        /\ HoldsLock(h) /\ req[h].op \in {"stage", "unstage"}
        /\ VolumeId(req[h]) \notin late
        => mounts[Target(VolumeId(req[h]), p)] = <<>>

\* A pod that stays gets its volume, so no pod is wanted for ever without
\* it: a corrupted mount that was unmounted with an error and a call that was
\* abandoned are made good by the retry, unless the staging mount died, or a
\* late call removed the staging path, after it had been reported ready.
PodsGetVolumes ==
    \A v \in Volumes, p \in Pods :
        []<>(\/ pod[p] = "gone" \/ belief[Target(v, p)] = "ready"
             \/ belief[Staging(v)] = "ready" /\ (DeadStaging(v) \/ Staging(v) \notin dirs))

\* When all pods are gone, and until there is a new one, the kubelet gets
\* rid of everything; nothing but the three dead ends keeps it from that.
CleansUp ==
    \A v \in Volumes :
        []<>(\/ Wanted # {}
             \/ Free(v) /\ DeadEnd(v)
             \/ \A path \in Paths : path[1] = v => belief[path] = "clean")
=============================================================================
