---------------------------- MODULE KubeletProofs ----------------------------
(***************************************************************************)
(* What the kubelet concludes from the answers of the node service is true *)
(* of the mount table, for any number of pods, volumes, handlers and       *)
(* faults, as long as no forgotten call takes its lock late.  The argument *)
(* needs three things together: the lock of the volume, the order of the   *)
(* kubelet's calls, and that a forgotten call which has its lock turns the *)
(* calls after it away until it is done.                                   *)
(***************************************************************************)
EXTENDS Kubelet, NodeServerProofs

-----------------------------------------------------------------------------
(* The kubelet is one of the callers NodeServer allows                     *)

LEMMA AskRequest ==
    ASSUME NEW op \in {"stage", "unstage", "publish", "unpublish"}, NEW path \in Paths,
           op \in {"stage", "unstage"} => path \in StagingPaths,
           op \in {"publish", "unpublish"} => path \in TargetPaths
    PROVE  [op |-> op, path |-> path] \in Requests
  BY DEF Requests

\* The calls of the kubelet.
LEMMA CallCases ==
    ASSUME NEW v \in Volumes, NEW p \in Pods
    PROVE  /\ Stage(v) => Ask("stage", Staging(v)) /\ Staging(v) \in StagingPaths
           /\ Unstage(v) => Ask("unstage", Staging(v)) /\ Staging(v) \in StagingPaths
           /\ Publish(v, p) => Ask("publish", Target(v, p)) /\ Target(v, p) \in TargetPaths
           /\ Unpublish(v, p) => Ask("unpublish", Target(v, p)) /\ Target(v, p) \in TargetPaths
           /\ StagingPaths \subseteq Paths /\ TargetPaths \subseteq Paths
  BY DEF Stage, Unstage, Publish, Unpublish, StagingPaths, TargetPaths, Paths

LEMMA AskReceives ==
    ASSUME NEW op \in {"stage", "unstage", "publish", "unpublish"}, NEW path \in Paths,
           op \in {"stage", "unstage"} => path \in StagingPaths,
           op \in {"publish", "unpublish"} => path \in TargetPaths,
           Ask(op, path)
    PROVE  Next
<1>1. [op |-> op, path |-> path] \in Requests BY AskRequest
<1>2. PICK h \in Handlers : Accept(h, [op |-> op, path |-> path]) BY DEF Ask
<1>3. QED BY <1>1, <1>2 DEF Receive, Next

LEMMA KubeletImplements == [KubeletNext]_allVars => [Next]_vars
<1> SUFFICES ASSUME [KubeletNext]_allVars PROVE [Next]_vars OBVIOUS
<1>1. CASE UNCHANGED vars BY <1>1
<1>2. ASSUME NEW v \in Volumes, DeviceCalls(v) PROVE Next
  <2>1. CASE MakeStagingDir(v) BY <2>1 DEF MakeStagingDir, Next, Environment
  <2>2. CASE Stage(v)
    <3>1. Ask("stage", Staging(v)) BY <2>2 DEF Stage
    <3>2. QED BY <3>1, AskReceives, PathFacts
  <2>3. CASE Unstage(v)
    <3>1. Ask("unstage", Staging(v)) BY <2>3 DEF Unstage
    <3>2. QED BY <3>1, AskReceives, PathFacts
  <2>4. QED BY <1>2, <2>1, <2>2, <2>3 DEF DeviceCalls
<1>3. ASSUME NEW v \in Volumes, NEW p \in Pods, PodCalls(v, p) PROVE Next
  BY <1>3, CallCases, AskReceives DEF PodCalls
<1>4. ASSUME NEW h \in Handlers, HandlerStep(h) \/ ReceiveAnswer(h) \/ LateAnswer(h) PROVE Next
  BY <1>4 DEF HandlerStep, ReceiveAnswer, LateAnswer, Next, Step
<1>5. CASE PluginCrash BY <1>5 DEF PluginCrash, Next, Environment
<1>6. ASSUME NEW v \in Volumes, DaemonFault(v) PROVE Next
  BY <1>6 DEF DaemonFault, Next, Environment
<1>7. ASSUME NEW path \in Paths, RemoveCleanDir(path) PROVE Next
  BY <1>7 DEF RemoveCleanDir, Next, Environment
<1>8. CASE \/ \E p \in Pods : AddPod(p) \/ RemovePod(p)
           \/ \E h \in Handlers : GiveUp(h)
           \/ UNCHANGED allVars
  BY <1>1, <1>8 DEF AddPod, RemovePod, GiveUp, allVars
<1>9. QED BY <1>2, <1>3, <1>4, <1>5, <1>6, <1>7, <1>8 DEF KubeletNext

-----------------------------------------------------------------------------
(* What the kubelet's view of the node rests on                            *)

\* The handler has a call that can still change what its path is: the
\* kubelet waits for it, or it has had the lock of the volume since then.
Active(h) == h \in awaited \/ (HoldsLock(h) /\ VolumeId(req[h]) \notin late)

\* Whom the kubelet waits for: one call for a volume.  It never asks for
\* statistics.
CallsInv ==
    /\ awaited \subseteq Handlers
    /\ \A h \in awaited : pc[h] # "idle"
    /\ \A g, h \in awaited : g # h => VolumeId(req[g]) # VolumeId(req[h])
    /\ \A h \in Handlers : pc[h] # "idle" => req[h].op # "stats"

\* A path under an active call is believed nothing of, and a volume that is
\* being published is believed to be staged.
AsksInv ==
    \A h \in Handlers : Active(h) =>
        /\ belief[Path(h)] = "tried"
        /\ req[h].op = "publish" => belief[Staging(VolumeId(req[h]))] = "ready"

\* An OK answer on its way to the kubelet is still true when it arrives,
\* although the lock is free again: nobody has taken it since.
Arriving(h) == h \in awaited /\ pc[h] = "return" /\ reply[h] = "OK"

AnswersInv ==
    \A h \in Handlers : Arriving(h) /\ VolumeId(req[h]) \notin late =>
        /\ \A g \in Handlers : HoldsLock(g) => VolumeId(req[g]) # VolumeId(req[h])
        /\ req[h].op \in {"stage", "publish"} => mounts[Path(h)] # <<>>
        /\ req[h].op \in {"unstage", "unpublish"} => mounts[Path(h)] = <<>>

\* No plain directory is bound into a pod.
NothingBare == \A p \in Paths : p[1] \notin late => NoBare(mounts[p])

BeliefTypes == belief \in [Paths -> {"clean", "ready", "tried"}]

KubeletInv ==
    /\ BeliefTypes /\ CallsInv /\ AsksInv /\ AnswersInv /\ NothingBare /\ BeliefsHold

LEMMA KubeletInitInv == KubeletInit => LockInv /\ HostInv /\ KubeletInv
<1> SUFFICES ASSUME KubeletInit PROVE KubeletInv BY LockInit, HostInit DEF KubeletInit
<1>1. Init /\ awaited = {} /\ belief = [p \in Paths |-> "clean"] BY DEF KubeletInit
<1>2. /\ \A h \in Handlers : pc[h] = "idle" /\ ~HoldsLock(h) /\ ~Active(h) /\ ~Arriving(h)
      /\ \A p \in Paths : mounts[p] = <<>>
  BY <1>1 DEF Init, HoldsLock, Active, Arriving
<1>3. BeliefTypes /\ CallsInv BY <1>1, <1>2 DEF BeliefTypes, CallsInv
<1>4. AsksInv /\ AnswersInv BY <1>2 DEF AsksInv, AnswersInv
<1>5. NothingBare BY <1>2 DEF NothingBare, NoBare
<1>6. BeliefsHold BY <1>1, <1>2 DEF BeliefsHold
<1>7. QED BY <1>3, <1>4, <1>5, <1>6 DEF KubeletInv

\* A handler at work: it keeps its request, and it returns with OK only from
\* the deferred Release.
LEMMA WorkControl ==
    ASSUME LockInv, NEW h \in Handlers, Work(h)
    PROVE  /\ req' = req /\ Others(h)
           /\ pc[h] # "idle" /\ pc'[h] \notin {"idle", "validate"}
           /\ pc'[h] = "lock" => pc[h] = "validate"
           /\ ~HoldsLock(h) => pc[h] \in {"validate", "lock"}
           /\ ~HoldsLock(h) /\ HoldsLock(h)' => AcquireLock(h)
           /\ pc'[h] = "return" /\ reply'[h] = "OK" =>
                 pc[h] = "release" /\ reply[h] = "OK" /\ mounts' = mounts
<1>1. /\ mounts \in [Paths -> Stacks] /\ HandlerShape /\ ControlTypes /\ OneOperationPerVolume
  BY TypeParts DEF LockInv
<1>2. Shape(h) /\ (pc[h] # "idle" => req[h] \in Requests) BY <1>1 DEF HandlerShape, Shape
<1>3. Others(h) BY <1>1, StepControl DEF Step
<1>4. LockEffect(h) BY <1>1, LockStep DEF Step
<1>c. {"InvalidArgument", "NotFound", "Aborted", "Internal"} = Codes \ {"OK"} BY DEF Codes
<1>5. CASE ReleaseLock(h)
  BY <1>1, <1>3, <1>5 DEF ReleaseLock, Goto, ControlTypes, HoldsLock, host
<1>6. CASE Validate(h) \/ AbortBusy(h)
  <2>1. pc[h] \in {"validate", "lock"} /\ req' = req BY <1>6 DEF Validate, AbortBusy
  <2>2. \/ \E c \in Codes \ {"OK"} : Refuse(h, c)
        \/ pc[h] = "validate" /\ Continue(h, "lock")
    BY <1>1, <1>2, <1>6, <1>c, ValidateOutcome DEF Validate, AbortBusy
  <2>3. \/ pc'[h] = "return" /\ reply'[h] # "OK"
        \/ pc[h] = "validate" /\ pc'[h] = "lock"
    BY <1>1, <2>2 DEF Refuse, Continue, Goto, Answer, ControlTypes
  <2>4. QED BY <1>3, <2>1, <2>3 DEF HoldsLock
<1>7. CASE AcquireLock(h)
  <2>1. PICK l \in {"umount", "statfs", "inspect"} : Continue(h, l) BY <1>7 DEF AcquireLock
  <2>2. pc'[h] = l BY <1>1, <2>1 DEF Continue, Goto, ControlTypes
  <2>3. req' = req /\ pc[h] = "lock" BY <1>7 DEF AcquireLock
  <2>4. QED BY <1>3, <1>7, <2>2, <2>3
<1>8. CASE HoldsLock(h) /\ volumeLocks' = volumeLocks /\ req' = req
  <2>1. VolumeId(req[h]) \in volumeLocks BY <1>1, <1>8 DEF OneOperationPerVolume
  <2>2. HoldsLock(h)' BY <1>4, <1>8, <2>1 DEF LockEffect
  <2>3. QED BY <1>3, <1>8, <2>2 DEF HoldsLock
<1>9. QED
  BY <1>5, <1>6, <1>7, <1>8 DEF Work, HoldsLock, InspectMountPoint, ReadMountPoint,
     UnmountCorrupted, MakeDir, FcfsMount, ExecFcfsFused, BindMount, RemountBind, RemoveTarget,
     UnmountVolume, RemoveUnpublished, InspectStaging, CleanupMountPoint, RemoveCleaned, StatFS

\* What a stack keeps when its daemon goes.
LEMMA OrphanKeeps ==
    ASSUME NEW s \in Stacks, NEW t, t \in {s, Orphaned(s)}
    PROVE  /\ t = <<>> <=> s = <<>>
           /\ Top(s) \in {"live", "dead"} => Top(t) \in {"live", "dead"}
           /\ NoBare(s) => NoBare(t)
  BY OrphanedStack

\* The stacks after a step of a handler: those of the other paths are at most
\* orphaned, and its own is left without a bind of a plain directory, as
\* long as a volume is only published from a staged path.
LEMMA WorkMounts ==
    ASSUME LockInv, HostInv, KubeletInv, NEW h \in Handlers, Work(h),
           VolumeId(req[h]) \notin late, late \subseteq late'
    PROVE  /\ \A p \in Paths : p # Path(h) => mounts'[p] \in {mounts[p], Orphaned(mounts[p])}
           /\ NothingBare'
<1>1. mounts \in [Paths -> Stacks] /\ HandlerShape /\ ControlTypes BY TypeParts DEF LockInv
<1>2. MountEffect(h) BY <1>1, HostEffect DEF Step
<1>3. \A p \in Paths : p[1] \notin late => NoBare(mounts[p]) BY DEF KubeletInv, NothingBare
<1>4. CASE mounts' = mounts BY <1>3, <1>4 DEF NothingBare
<1>5. CASE mounts' # mounts
  <2>1. req[h] \in Requests /\ HoldsLock(h) /\ Shape(h)
    BY <1>1, <1>2, <1>5 DEF MountEffect, HandlerShape, Shape, HoldsLock
  <2>2. PICK q \in Paths : q = Path(h) /\ mounts[q] \in Stacks /\ q[1] \notin late
    BY <1>1, <2>1, ShownValues DEF Path, VolumeId
  <2>3. ASSUME NEW new, mounts' = [mounts EXCEPT ![q] = new], NoBare(new)
        PROVE  /\ \A p \in Paths : p # Path(h) => mounts'[p] \in {mounts[p], Orphaned(mounts[p])}
               /\ NothingBare'
    BY <1>1, <1>3, <2>2, <2>3 DEF NothingBare
  <2>4. CASE mounts[q] # <<>> /\ Unmounted(h)
    <3>1. NoBare(Pop(mounts[q])) BY <1>3, <2>2, <2>4, PopStack
    <3>2. QED BY <2>2, <2>3, <2>4, <3>1 DEF Unmounted
  <2>5. CASE /\ pc[h] = "exec"
             /\ \E mounted \in BOOLEAN : FcfsFusedRestart(VolumeId(req[h]), mounted)
    <3>1. PICK mounted \in BOOLEAN : FcfsFusedRestart(VolumeId(req[h]), mounted) BY <2>5
    <3>2. VolumeId(req[h]) \in Volumes /\ q = Staging(VolumeId(req[h]))
      BY <2>1, <2>2, <2>5, RequestFacts DEF Shape, Path
    <3>3. NoBare(mounts[q]) /\ (mounts[q] # <<>> => q \in dirs)
      BY <1>3, <2>2 DEF HostInv, PathsInv, PathInv
    <3>4. NoBare(mounts'[q]) BY <1>1, <3>1, <3>2, <3>3, RestartStack
    <3>5. \E base \in Stacks : RestartResult(VolumeId(req[h]), base, mounted)
      BY <1>1, <3>1, <3>2, RestartEffect
    <3>6. \A p \in Paths : p # q => mounts'[p] \in {mounts[p], Orphaned(mounts[p])}
      BY <3>2, <3>5 DEF RestartResult
    <3>7. \A p \in Paths : p # q /\ p[1] \notin late => NoBare(mounts'[p])
      BY <1>1, <1>3, <3>6, OrphanKeeps
    <3>8. QED BY <2>2, <3>4, <3>6, <3>7 DEF NothingBare
  <2>6. CASE pc[h] = "bind"
    <3>1. BindMount(h)
      BY <2>6 DEF Work, Validate, AbortBusy, AcquireLock, InspectMountPoint, ReadMountPoint,
         UnmountCorrupted, MakeDir, FcfsMount, ExecFcfsFused, RemountBind, RemoveTarget,
         UnmountVolume, RemoveUnpublished, InspectStaging, CleanupMountPoint, RemoveCleaned,
         StatFS, ReleaseLock
    <3>2. req[h].op = "publish" /\ VolumeId(req[h]) \in Volumes
      BY <2>1, <2>6, RequestFacts DEF Shape
    <3>3. PICK s \in Paths : s = Staging(VolumeId(req[h])) BY <3>2, PathFacts
    <3>4. belief[s] = "ready" /\ s[1] \notin late
      BY <2>1, <3>2, <3>3, PathFacts DEF KubeletInv, AsksInv, Active
    <3>5. Top(mounts[s]) \in {"live", "dead"} BY <3>4 DEF KubeletInv, BeliefsHold
    <3>6. mounts' = [mounts EXCEPT ![q] = Append(@, NewMount("live"))]
      BY <1>5, <2>2, <3>1, <3>3, <3>5 DEF BindMount, IsMountPoint, IsCorrupted
    <3>7. NoBare(Append(mounts[q], NewMount("live")))
      BY <1>3, <2>2, AppendStack DEF FileSystems
    <3>8. QED BY <2>3, <3>6, <3>7
  <2>7. CASE /\ pc[h] = "remount"
             /\ mounts' = [mounts EXCEPT ![q] = Remounted(@, Readonly(req[h]))]
    <3>1. Readonly(req[h]) \in BOOLEAN BY <2>1, RequestFacts
    <3>2. Guarded(q)
      <4>1. req[h].op = "publish" BY <2>1, <2>7 DEF Shape
      <4>2. QED BY <2>1, <2>2, <4>1, RequestFacts DEF Guarded, Path
    <3>3. mounts[q] # <<>> BY <2>1, <2>2, <2>7, <3>2 DEF HostInv, ViewsInv, View
    <3>4. NoBare(Remounted(mounts[q], Readonly(req[h])))
      BY <1>3, <2>2, <3>1, <3>3, RemountedStack
    <3>5. QED BY <2>3, <2>7, <3>4
  <2>8. QED BY <1>2, <1>5, <2>2, <2>4, <2>5, <2>6, <2>7 DEF MountEffect
<1>6. QED BY <1>4, <1>5

-----------------------------------------------------------------------------
(* The steps                                                               *)

LEMMA WorkStep ==
    ASSUME ~Proxy, LockInv, HostInv, KubeletInv, NEW h \in Handlers, Work(h),
           UNCHANGED <<belief, awaited>>, late \subseteq late',
           TakesLockLate(h) => VolumeId(req[h]) \in late'
    PROVE  KubeletInv'
<1>1. /\ mounts \in [Paths -> Stacks] /\ HandlerShape /\ OneOperationPerVolume
      /\ BeliefTypes /\ CallsInv /\ AsksInv /\ AnswersInv /\ BeliefsHold
  BY TypeParts DEF LockInv, KubeletInv
<1>2. /\ req' = req /\ Others(h)
      /\ pc[h] # "idle" /\ pc'[h] \notin {"idle", "validate"}
      /\ pc'[h] = "lock" => pc[h] = "validate"
      /\ ~HoldsLock(h) /\ HoldsLock(h)' => AcquireLock(h)
      /\ pc'[h] = "return" /\ reply'[h] = "OK" =>
            pc[h] = "release" /\ reply[h] = "OK" /\ mounts' = mounts
  BY WorkControl
<1>3. /\ ~HoldsLock(h) => mounts' = mounts
      /\ \A p \in Paths : p[1] # VolumeId(req[h]) => mounts'[p] = mounts[p]
  BY Locality DEF Step
<1>4. /\ \A p \in Paths : p[1] \notin late /\ p # Path(h) =>
            mounts'[p] \in {mounts[p], Orphaned(mounts[p])}
      /\ NothingBare'
  <2>1. CASE VolumeId(req[h]) \notin late BY <2>1, WorkMounts
  <2>2. CASE VolumeId(req[h]) \in late
    <3>1. \A p \in Paths : p[1] \notin late => mounts'[p] = mounts[p] BY <1>3, <2>2
    <3>2. QED BY <3>1 DEF KubeletInv, NothingBare
  <2>3. QED BY <2>1, <2>2
<1>5. ~HoldsLock(h) /\ HoldsLock(h)' /\ h \notin awaited => VolumeId(req[h]) \in late'
  BY <1>2 DEF TakesLockLate
<1>6. \A g \in Handlers : pc[g] # "idle" => req[g] \in Requests /\ Path(g) \in Paths
  BY <1>1, RequestFacts DEF HandlerShape, Shape, Path
<1>7. \A g \in Handlers : g # h => pc'[g] = pc[g] /\ reply'[g] = reply[g] BY <1>2 DEF Others
<1>8. BeliefTypes' BY <1>1 DEF BeliefTypes
<1>9. CallsInv' BY <1>1, <1>2, <1>7 DEF CallsInv
<1>10. AsksInv'
  <2>1. \A g \in Handlers : g # h /\ HoldsLock(g)' => HoldsLock(g) BY <1>7 DEF HoldsLock
  <2>2. \A g \in Handlers : Active(g)' => Active(g) BY <1>2, <1>5, <2>1 DEF Active
  <2>3. QED BY <1>1, <1>2, <2>2 DEF AsksInv, Path
<1>11. AnswersInv'
  <2>1. SUFFICES ASSUME NEW g \in Handlers, Arriving(g)', VolumeId(req[g]) \notin late'
                 PROVE  /\ \A f \in Handlers : HoldsLock(f)' => VolumeId(req[f]) # VolumeId(req[g])
                        /\ req[g].op \in {"stage", "publish"} => mounts'[Path(g)] # <<>>
                        /\ req[g].op \in {"unstage", "unpublish"} => mounts'[Path(g)] = <<>>
    BY <1>2 DEF AnswersInv, Path
  <2>2. CASE g = h
    <3>1. pc[h] = "release" /\ reply[h] = "OK" /\ mounts' = mounts /\ pc'[h] = "return"
      BY <1>2, <2>1, <2>2 DEF Arriving
    <3>2. HoldsLock(h) /\ ~HoldsLock(h)' BY <3>1 DEF HoldsLock
    <3>3. \A f \in Handlers : f # h /\ HoldsLock(f)' => VolumeId(req[f]) # VolumeId(req[h])
      BY <1>1, <1>7, <3>2 DEF OneOperationPerVolume, HoldsLock
    <3>4. View(h) BY <3>2 DEF HostInv, ViewsInv, Guarded
    <3>5. QED BY <2>2, <3>1, <3>2, <3>3, <3>4 DEF View
  <2>3. CASE g # h
    <3>1. Arriving(g) BY <1>7, <2>1, <2>3 DEF Arriving
    <3>2. CASE HoldsLock(h) \/ h \in awaited
      <4>1. VolumeId(req[h]) # VolumeId(req[g])
        BY <1>1, <2>1, <2>3, <3>1, <3>2 DEF CallsInv, AnswersInv, Arriving
      <4>2. \A f \in Handlers : HoldsLock(f)' => VolumeId(req[f]) # VolumeId(req[g])
        BY <1>1, <1>7, <2>1, <3>1, <4>1 DEF AnswersInv, HoldsLock
      <4>3. Path(g) \in Paths /\ Path(g)[1] # VolumeId(req[h])
        BY <1>6, <3>1, <4>1 DEF Arriving, VolumeId, Path
      <4>4. mounts'[Path(g)] = mounts[Path(g)] BY <1>3, <4>3
      <4>5. QED BY <1>1, <2>1, <3>1, <4>2, <4>4 DEF AnswersInv
    <3>3. CASE ~HoldsLock(h) /\ h \notin awaited
      <4>1. mounts' = mounts BY <1>3, <3>3
      <4>2. \A f \in Handlers : f # h /\ HoldsLock(f)' => HoldsLock(f) BY <1>7 DEF HoldsLock
      <4>3. HoldsLock(h)' => VolumeId(req[h]) # VolumeId(req[g]) BY <1>5, <2>1, <3>3
      <4>4. QED BY <1>1, <2>1, <3>1, <4>1, <4>2, <4>3 DEF AnswersInv
    <3>4. QED BY <3>2, <3>3
  <2>4. QED BY <2>2, <2>3
<1>12. BeliefsHold'
  <2>1. SUFFICES ASSUME NEW p \in Paths, p[1] \notin late
                 PROVE  /\ belief[p] = "clean" => mounts'[p] = <<>>
                        /\ belief[p] = "ready" => Top(mounts'[p]) \in {"live", "dead"}
    BY DEF BeliefsHold
  <2>2. mounts[p] \in Stacks BY <1>1
  <2>3. CASE p # Path(h)
    <3>1. mounts'[p] \in {mounts[p], Orphaned(mounts[p])} BY <1>4, <2>1, <2>3
    <3>2. QED BY <1>1, <2>1, <2>2, <3>1, OrphanKeeps DEF BeliefsHold
  <2>4. CASE p = Path(h) /\ HoldsLock(h)
    BY <1>1, <2>1, <2>4 DEF AsksInv, Active, Path, VolumeId
  <2>5. CASE ~HoldsLock(h) BY <1>1, <1>3, <2>1, <2>5 DEF BeliefsHold
  <2>6. QED BY <2>3, <2>4, <2>5
<1>13. QED BY <1>4, <1>8, <1>9, <1>10, <1>11, <1>12 DEF KubeletInv

\* A death: the handlers stay, or are all gone, and mounts are orphaned.
LEMMA DeathStep ==
    ASSUME LockInv, KubeletInv, UNCHANGED <<belief, late>>,
           \A p \in Paths : mounts'[p] \in {mounts[p], Orphaned(mounts[p])},
           \/ UNCHANGED <<awaited, req, reply, pc>>
           \/ awaited' = {} /\ \A h \in Handlers : pc'[h] = "idle"
    PROVE  KubeletInv'
<1>1. /\ mounts \in [Paths -> Stacks]
      /\ BeliefTypes /\ CallsInv /\ AsksInv /\ AnswersInv /\ BeliefsHold /\ NothingBare
      /\ HandlerShape
  BY TypeParts DEF LockInv, KubeletInv
<1>2. \A p \in Paths :
        /\ mounts'[p] = <<>> <=> mounts[p] = <<>>
        /\ Top(mounts[p]) \in {"live", "dead"} => Top(mounts'[p]) \in {"live", "dead"}
        /\ NoBare(mounts[p]) => NoBare(mounts'[p])
  BY <1>1, OrphanKeeps
<1>3. NothingBare' BY <1>1, <1>2 DEF NothingBare
<1>4. BeliefsHold' BY <1>1, <1>2 DEF BeliefsHold
<1>5. BeliefTypes' BY <1>1 DEF BeliefTypes
<1>6. CASE awaited' = {} /\ \A h \in Handlers : pc'[h] = "idle"
  <2>1. \A h \in Handlers : ~Active(h)' /\ ~Arriving(h)' BY <1>6 DEF Active, Arriving, HoldsLock
  <2>2. CallsInv' BY <1>6 DEF CallsInv
  <2>3. AsksInv' /\ AnswersInv' BY <2>1 DEF AsksInv, AnswersInv
  <2>4. QED BY <1>3, <1>4, <1>5, <2>2, <2>3 DEF KubeletInv
<1>7. CASE UNCHANGED <<awaited, req, reply, pc>>
  <2>1. CallsInv' BY <1>1, <1>7 DEF CallsInv
  <2>2. AsksInv' BY <1>1, <1>7 DEF AsksInv, Active, HoldsLock, Path
  <2>3. \A h \in awaited : Path(h) \in Paths
    BY <1>1, RequestFacts DEF CallsInv, HandlerShape, Shape, Path
  <2>4. AnswersInv' BY <1>1, <1>2, <1>7, <2>3 DEF AnswersInv, Arriving, HoldsLock, Path
  <2>5. QED BY <1>3, <1>4, <1>5, <2>1, <2>2, <2>4 DEF KubeletInv
<1>8. QED BY <1>6, <1>7

LEMMA GiveUpStep ==
    ASSUME KubeletInv, NEW h \in Handlers, GiveUp(h)
    PROVE  KubeletInv'
<1>1. /\ awaited' = awaited \ {h}
      /\ UNCHANGED <<mounts, dirs, req, reply, pc, belief, late>>
  BY DEF GiveUp, vars
<1>2. BeliefTypes' /\ BeliefsHold' /\ NothingBare'
  BY <1>1 DEF KubeletInv, BeliefTypes, BeliefsHold, NothingBare
<1>3. CallsInv' BY <1>1 DEF KubeletInv, CallsInv, HoldsLock
<1>4. AsksInv' BY <1>1 DEF KubeletInv, AsksInv, Active, HoldsLock, Path
<1>5. AnswersInv' BY <1>1 DEF KubeletInv, AnswersInv, Arriving, HoldsLock, Path
<1>6. QED BY <1>2, <1>3, <1>4, <1>5 DEF KubeletInv

LEMMA AskStep ==
    ASSUME LockInv, KubeletInv, NEW path \in Paths,
           NEW op \in {"stage", "unstage", "publish", "unpublish"},
           op \in {"stage", "unstage"} => path \in StagingPaths,
           op \in {"publish", "unpublish"} => path \in TargetPaths,
           Ask(op, path),
           op = "stage" => belief[path] # "ready",
           op = "publish" => belief[Staging(path[1])] = "ready",
           op = "unstage" => \A p \in Pods : belief[Target(path[1], p)] = "clean"
    PROVE  KubeletInv'
<1>1. /\ ControlTypes /\ HandlerShape
      /\ BeliefTypes /\ CallsInv /\ AsksInv /\ AnswersInv /\ BeliefsHold /\ NothingBare
  BY TypeParts DEF LockInv, KubeletInv
<1>2. PICK r : r = [op |-> op, path |-> path] OBVIOUS
<1>3. PICK h \in Handlers : Accept(h, r) /\ awaited' = awaited \cup {h} BY <1>2 DEF Ask
<1>4. /\ pc[h] = "idle" /\ req'[h] = r /\ pc'[h] \in {"validate", "lock"}
      /\ \A g \in Handlers : g # h => req'[g] = req[g] /\ pc'[g] = pc[g]
      /\ reply' = reply /\ mounts' = mounts /\ late' = late
  BY <1>1, <1>3 DEF Accept, Goto, ControlTypes, host, Ask
<1>5. /\ \A g \in awaited : VolumeId(req[g]) # path[1]
      /\ belief' = [belief EXCEPT ![path] = "tried"]
  BY DEF Ask, Free
<1>6. r.op = op /\ r.path = path /\ VolumeId(r) = path[1] BY <1>2 DEF VolumeId
<1>7. /\ \A p \in Paths : p # path => belief'[p] = belief[p]
      /\ belief'[path] = "tried" /\ BeliefTypes'
  BY <1>1, <1>5 DEF BeliefTypes
<1>8. h \notin awaited /\ awaited \subseteq Handlers BY <1>1, <1>4 DEF CallsInv
<1>9. CallsInv'
  <2>1. awaited' \subseteq Handlers BY <1>3, <1>8
  <2>2. \A g \in awaited' : pc'[g] # "idle" BY <1>1, <1>3, <1>4, <1>8 DEF CallsInv
  <2>3. \A f, g \in awaited' : f # g => VolumeId(req'[f]) # VolumeId(req'[g])
    BY <1>1, <1>3, <1>4, <1>5, <1>6, <1>8 DEF CallsInv
  <2>4. \A g \in Handlers : pc'[g] # "idle" => req'[g].op # "stats"
    BY <1>1, <1>4, <1>6 DEF CallsInv
  <2>5. QED BY <2>1, <2>2, <2>3, <2>4 DEF CallsInv
<1>10. AsksInv'
  <2>1. SUFFICES ASSUME NEW g \in Handlers, Active(g)'
                 PROVE  /\ belief'[Path(g)'] = "tried"
                        /\ req'[g].op = "publish" => belief'[Staging(VolumeId(req'[g]))] = "ready"
    BY DEF AsksInv
  <2>2. CASE g = h
    <3>1. Path(g)' = path BY <1>4, <1>6, <2>2 DEF Path
    <3>2. ASSUME op = "publish" PROVE belief'[Staging(path[1])] = "ready"
      <4>1. Staging(path[1]) \in StagingPaths /\ path \in TargetPaths
        BY <3>2 DEF StagingPaths, TargetPaths, Target, Staging
      <4>2. Staging(path[1]) # path /\ Staging(path[1]) \in Paths BY <4>1, PathFacts
      <4>3. QED BY <1>7, <3>2, <4>2
    <3>3. QED BY <1>4, <1>6, <1>7, <2>2, <3>1, <3>2
  <2>3. CASE g # h
    <3>1. Active(g) /\ req'[g] = req[g] /\ Path(g)' = Path(g)
      BY <1>3, <1>4, <2>1, <2>3 DEF Active, HoldsLock, Path
    <3>2. pc[g] # "idle" BY <1>1, <3>1 DEF Active, CallsInv, HoldsLock
    <3>3. req[g] \in Requests BY <1>1, <3>2 DEF HandlerShape, Shape
    <3>4. Path(g) \in Paths /\ Path(g)[1] = VolumeId(req[g]) /\ VolumeId(req[g]) \in Volumes
      BY <3>3, RequestFacts DEF Path, VolumeId
    <3>5. belief'[Path(g)] = "tried" BY <1>1, <1>7, <3>1, <3>4 DEF AsksInv
    <3>6. ASSUME req[g].op = "publish" PROVE belief'[Staging(VolumeId(req[g]))] = "ready"
      <4>1. PICK s \in Paths : /\ s = Staging(VolumeId(req[g]))
                              /\ s \in StagingPaths /\ s[1] = VolumeId(req[g])
        BY <3>4, PathFacts
      <4>2. belief[s] = "ready" BY <1>1, <3>1, <3>6, <4>1 DEF AsksInv
      <4>3. ASSUME s = path PROVE FALSE
        <5>1. op \in {"stage", "unstage"} BY <4>1, <4>3, PathFacts
        <5>2. op = "unstage" BY <4>2, <4>3, <5>1
        <5>3. Path(g) \in TargetPaths BY <3>3, <3>6, RequestFacts DEF Path
        <5>4. \E p \in Pods : Path(g) = Target(path[1], p)
          BY <3>4, <4>1, <4>3, <5>3 DEF TargetPaths, Target
        <5>5. belief[Path(g)] = "clean" BY <5>2, <5>4
        <5>6. QED BY <1>1, <3>1, <5>5 DEF AsksInv
      <4>4. QED BY <1>7, <4>1, <4>2, <4>3
    <3>7. QED BY <3>1, <3>5, <3>6
  <2>4. QED BY <2>2, <2>3
<1>11. AnswersInv'
  <2>1. \A g \in Handlers : Arriving(g)' => g # h /\ Arriving(g)
    BY <1>3, <1>4 DEF Arriving
  <2>2. \A g \in Handlers : HoldsLock(g)' => g # h /\ HoldsLock(g) BY <1>4 DEF HoldsLock
  <2>3. QED BY <1>1, <1>4, <2>1, <2>2 DEF AnswersInv, Path
<1>12. NothingBare' BY <1>1, <1>4 DEF NothingBare
<1>13. BeliefsHold' BY <1>1, <1>4, <1>7 DEF BeliefsHold
<1>14. QED BY <1>7, <1>9, <1>10, <1>11, <1>12, <1>13 DEF KubeletInv

LEMMA AnswerStep ==
    ASSUME LockInv, KubeletInv, NEW h \in Handlers, Return(h), awaited' = awaited \ {h},
           UNCHANGED late,
           \/ UNCHANGED belief
           \/ /\ h \in awaited /\ reply[h] = "OK"
              /\ belief' = [belief EXCEPT ![Path(h)] =
                               IF req[h].op \in {"stage", "publish"} THEN "ready" ELSE "clean"]
    PROVE  KubeletInv'
<1>1. /\ mounts \in [Paths -> Stacks] /\ ControlTypes /\ HandlerShape
      /\ BeliefTypes /\ CallsInv /\ AsksInv /\ AnswersInv /\ BeliefsHold /\ NothingBare
  BY TypeParts DEF LockInv, KubeletInv
<1>2. /\ pc[h] = "return" /\ pc'[h] = "idle" /\ mounts' = mounts
      /\ \A g \in Handlers : g # h => req'[g] = req[g] /\ pc'[g] = pc[g] /\ reply'[g] = reply[g]
  BY <1>1 DEF Return, Goto, ControlTypes, host
<1>3. CallsInv' BY <1>1, <1>2 DEF CallsInv
<1>4. NothingBare' BY <1>1, <1>2 DEF NothingBare
<1>5. \A g \in Handlers : Active(g)' => g # h /\ Active(g) BY <1>2 DEF Active, HoldsLock
<1>6. AnswersInv'
  <2>1. \A g \in Handlers : Arriving(g)' => g # h /\ Arriving(g) BY <1>2 DEF Arriving
  <2>2. \A g \in Handlers : HoldsLock(g)' => g # h /\ HoldsLock(g) BY <1>2 DEF HoldsLock
  <2>3. QED BY <1>1, <1>2, <2>1, <2>2 DEF AnswersInv, Path
<1>7. CASE UNCHANGED belief
  <2>1. AsksInv' BY <1>1, <1>2, <1>5, <1>7 DEF AsksInv, Path
  <2>2. BeliefTypes' /\ BeliefsHold' BY <1>1, <1>2, <1>7 DEF BeliefTypes, BeliefsHold
  <2>3. QED BY <1>3, <1>4, <1>6, <2>1, <2>2 DEF KubeletInv
<1>8. CASE /\ h \in awaited /\ reply[h] = "OK"
           /\ belief' = [belief EXCEPT ![Path(h)] =
                            IF req[h].op \in {"stage", "publish"} THEN "ready" ELSE "clean"]
  <2>1. req[h] \in Requests BY <1>1, <1>2 DEF HandlerShape, Shape
  <2>2. PICK q \in Paths : q = Path(h) /\ q[1] = VolumeId(req[h]) /\ mounts[q] \in Stacks
    BY <1>1, <2>1, RequestFacts DEF Path, VolumeId
  <2>3. req[h].op \in {"stage", "publish", "unstage", "unpublish"}
    <3>1. req[h].op \in Ops BY <2>1, RequestFacts
    <3>2. QED BY <1>1, <1>2, <3>1 DEF CallsInv, Ops
  <2>4. Arriving(h) BY <1>2, <1>8 DEF Arriving
  <2>5. /\ \A p \in Paths : p # q => belief'[p] = belief[p]
        /\ belief'[q] = IF req[h].op \in {"stage", "publish"} THEN "ready" ELSE "clean"
        /\ BeliefTypes'
    BY <1>1, <1>8, <2>2 DEF BeliefTypes
  <2>6. BeliefsHold'
    <3>1. q[1] \notin late /\ req[h].op \in {"stage", "publish"} =>
             Top(mounts[q]) \in {"live", "dead"}
      <4>1. q[1] \notin late /\ req[h].op \in {"stage", "publish"} => mounts[q] # <<>>
        BY <1>1, <2>2, <2>4 DEF AnswersInv
      <4>2. q[1] \notin late => NoBare(mounts[q]) BY <1>1 DEF NothingBare
      <4>3. QED BY <2>2, <4>1, <4>2, TopValues
    <3>2. q[1] \notin late /\ req[h].op \notin {"stage", "publish"} => mounts[q] = <<>>
      BY <1>1, <2>2, <2>3, <2>4 DEF AnswersInv
    <3>3. QED BY <1>1, <1>2, <2>5, <3>1, <3>2 DEF BeliefsHold
  <2>7. AsksInv'
    <3>1. SUFFICES ASSUME NEW g \in Handlers, Active(g)'
                   PROVE  /\ belief'[Path(g)'] = "tried"
                          /\ req'[g].op = "publish" => belief'[Staging(VolumeId(req'[g]))] = "ready"
      BY DEF AsksInv
    <3>2. g # h /\ Active(g) /\ req'[g] = req[g] /\ Path(g)' = Path(g)
      BY <1>2, <1>5, <3>1 DEF Path
    <3>3. pc[g] # "idle" BY <1>1, <3>2 DEF Active, CallsInv, HoldsLock
    <3>4. req[g] \in Requests BY <1>1, <3>3 DEF HandlerShape, Shape
    <3>5. Path(g) \in Paths /\ Path(g)[1] = VolumeId(req[g]) /\ VolumeId(req[g]) \in Volumes
      BY <3>4, RequestFacts DEF Path, VolumeId
    <3>6. VolumeId(req[g]) # VolumeId(req[h])
      BY <1>1, <1>8, <2>4, <3>2 DEF Active, CallsInv, AnswersInv
    <3>7. PICK s \in Paths : s = Staging(VolumeId(req[g])) /\ s[1] = VolumeId(req[g])
      BY <3>5, PathFacts
    <3>8. Path(g) # q /\ s # q BY <2>2, <3>5, <3>6, <3>7
    <3>9. QED BY <1>1, <2>5, <3>2, <3>5, <3>7, <3>8 DEF AsksInv
  <2>8. QED BY <1>3, <1>4, <1>6, <2>5, <2>6, <2>7 DEF KubeletInv
<1>9. QED BY <1>7, <1>8

LEMMA KubeletStep ==
    ASSUME ~Proxy, LockInv, HostInv, KubeletInv, [KubeletNext]_allVars
    PROVE  KubeletInv'
<1>1. CASE UNCHANGED <<mounts, req, reply, pc, belief, awaited, late>>
  <2>1. /\ mounts' = mounts /\ req' = req /\ reply' = reply /\ pc' = pc /\ belief' = belief
        /\ awaited' = awaited /\ late' = late
    BY <1>1
  <2>2. CallsInv' BY <2>1 DEF KubeletInv, CallsInv
  <2>3. AsksInv' BY <2>1 DEF KubeletInv, AsksInv, Active, HoldsLock, Path
  <2>4. AnswersInv' BY <2>1 DEF KubeletInv, AnswersInv, Arriving, HoldsLock, Path
  <2>5. BeliefTypes' /\ NothingBare' /\ BeliefsHold'
    BY <2>1 DEF KubeletInv, BeliefTypes, NothingBare, BeliefsHold
  <2>6. QED BY <2>2, <2>3, <2>4, <2>5 DEF KubeletInv
<1>2. CASE \/ \E p \in Pods : AddPod(p) \/ RemovePod(p)
           \/ \E v \in Volumes : MakeStagingDir(v)
           \/ \E path \in Paths : RemoveCleanDir(path)
           \/ UNCHANGED allVars
  BY <1>1, <1>2 DEF AddPod, RemovePod, MakeStagingDir, KubeletMakesDir, RemoveCleanDir,
     KubeletRemovesDir, allVars, vars, kubelet
<1>3. ASSUME NEW v \in Volumes, Stage(v) \/ Unstage(v) PROVE KubeletInv'
  <2>1. Staging(v) \in StagingPaths /\ Staging(v) \in Paths /\ Staging(v)[1] = v BY PathFacts
  <2>2. CASE Stage(v)
    <3>1. Ask("stage", Staging(v)) /\ belief[Staging(v)] # "ready" BY <2>2 DEF Stage
    <3>2. QED BY <2>1, <3>1, AskStep
  <2>3. CASE Unstage(v)
    <3>1. /\ Ask("unstage", Staging(v))
          /\ \A p \in Pods : belief[Target(Staging(v)[1], p)] = "clean"
      BY <2>1, <2>3 DEF Unstage
    <3>2. QED BY <2>1, <3>1, AskStep
  <2>4. QED BY <1>3, <2>2, <2>3
<1>4. ASSUME NEW v \in Volumes, NEW p \in Pods, PodCalls(v, p) PROVE KubeletInv'
  <2>1. Target(v, p) \in TargetPaths /\ Target(v, p) \in Paths /\ Target(v, p)[1] = v
    BY DEF TargetPaths, Target, Paths
  <2>2. CASE Publish(v, p)
    <3>1. Ask("publish", Target(v, p)) /\ belief[Staging(Target(v, p)[1])] = "ready"
      BY <2>1, <2>2 DEF Publish
    <3>2. QED BY <2>1, <3>1, AskStep
  <2>3. CASE Unpublish(v, p)
    <3>1. Ask("unpublish", Target(v, p)) BY <2>3 DEF Unpublish
    <3>2. QED BY <2>1, <3>1, AskStep
  <2>4. QED BY <1>4, <2>2, <2>3 DEF PodCalls
<1>5. ASSUME NEW h \in Handlers, HandlerStep(h) PROVE KubeletInv'
  <2>1. /\ Work(h) /\ UNCHANGED <<belief, awaited>>
        /\ late \subseteq late' /\ (TakesLockLate(h) => VolumeId(req[h]) \in late')
    BY <1>5 DEF HandlerStep
  <2>2. QED BY <2>1, WorkStep
<1>6. ASSUME NEW h \in Handlers, ReceiveAnswer(h) \/ LateAnswer(h) PROVE KubeletInv'
  BY <1>6, AnswerStep DEF ReceiveAnswer, LateAnswer, kubelet
<1>7. ASSUME NEW h \in Handlers, GiveUp(h) PROVE KubeletInv'
  BY <1>7, GiveUpStep
<1>8. CASE PluginCrash
  BY <1>8, DeathStep DEF PluginCrash, Crash
<1>9. ASSUME NEW v \in Volumes, DaemonFault(v) PROVE KubeletInv'
  BY <1>9, DeathStep DEF DaemonFault, DaemonDies, DaemonGone
<1>10. QED
  BY <1>2, <1>3, <1>4, <1>5, <1>6, <1>7, <1>8, <1>9 DEF KubeletNext, DeviceCalls

\* When the plugin mounts by itself, what the kubelet takes from the answers
\* is true: a path it takes to be clean has no mount and one it takes to be
\* ready shows FastCFS, whatever calls timed out, were retried or were
\* answered late and whatever daemons or plugin processes died meanwhile.
\* The volumes whose lock was taken for a call that had already been given
\* up are excepted, and only these.
THEOREM BeliefsCorrect ==
    ASSUME ~Proxy
    PROVE  KubeletSpec => []BeliefsHold
<1> DEFINE All == LockInv /\ HostInv /\ KubeletInv
<1>1. KubeletInit => All BY KubeletInitInv
<1>2. All /\ [KubeletNext]_allVars => All' BY KubeletStep, KubeletImplements, LockNext, HostNext
<1>3. All => BeliefsHold BY DEF KubeletInv
<1> HIDE DEF All
<1>4. QED BY <1>1, <1>2, <1>3, PTL DEF KubeletSpec

-----------------------------------------------------------------------------
(***************************************************************************)
(* Without a fault.  As long as none has happened every call is awaited    *)
(* and on the course that ends with OK, nothing is dead, and a path is in  *)
(* doubt only while a call for it is awaited.                              *)
(***************************************************************************)

\* What the call of handler h has found and left on its path so far.
OnCourse(h) ==
    /\ pc[h] \notin {"readdir", "unmount", "rmtarget", "statfs"}
    /\ pc[h] \in {"release", "return"} => reply[h] = "OK"
    /\ req[h].op \in {"stage", "publish"} /\ pc[h] \notin {"remount", "release", "return"} =>
          mounts[Path(h)] = <<>>
    /\ req[h].op = "stage" \/ pc[h] = "bind" => Path(h) \in dirs
    /\ /\ req[h].op \in {"unstage", "unpublish"}
       /\ pc[h] \in {"lock", "inspect", "umount", "cleanup"}
       => mounts[Path(h)] # <<>>
    /\ pc[h] \in {"remove", "rmdir"} => mounts[Path(h)] = <<>> /\ Path(h) \in dirs

NoneDead == \A p \in Paths : ~IsCorrupted(mounts[p])

CallsOnCourse == \A h \in Handlers : pc[h] # "idle" => h \in awaited /\ OnCourse(h)

DoubtsAwaited == \A p \in Paths : belief[p] = "tried" => \E h \in awaited : Path(h) = p

Healthy == late = {} /\ NoneDead /\ CallsOnCourse /\ DoubtsAwaited

\* A volume is published, or may be, only where it is staged.
StagedFirst ==
    \A v \in Volumes, p \in Pods :
        belief[Target(v, p)] # "clean" => belief[Staging(v)] = "ready"

FaultInv ==
    /\ faults \in 0..MaxFaults
    /\ StagedFirst
    /\ faults = MaxFaults => Healthy

LEMMA FaultInit == KubeletInit => FaultInv
<1> SUFFICES ASSUME KubeletInit PROVE FaultInv OBVIOUS
<1>1. /\ Init /\ awaited = {} /\ belief = [p \in Paths |-> "clean"]
      /\ faults = MaxFaults /\ late = {}
  BY DEF KubeletInit
<1>2. faults \in 0..MaxFaults BY <1>1, KubeletAssumption
<1>3. \A v \in Volumes, p \in Pods : Target(v, p) \in Paths BY DEF TargetPaths, Paths
<1>4. StagedFirst BY <1>1, <1>3 DEF StagedFirst
<1>5. NoneDead BY <1>1 DEF Init, NoneDead, IsCorrupted, Top
<1>6. CallsOnCourse BY <1>1 DEF Init, CallsOnCourse
<1>7. DoubtsAwaited BY <1>1 DEF DoubtsAwaited
<1>8. QED BY <1>1, <1>2, <1>4, <1>5, <1>6, <1>7 DEF FaultInv, Healthy

\* An error at a step that could succeed is a fault.
LEMMA AvoidableError ==
    ASSUME ControlTypes, NEW h \in Handlers, UNCHANGED req,
           CanSucceed(h), pc[h] \notin {"unmount", "rmtarget"},
           Decide(h, "Internal") \/ Continue(h, "rmtarget")
    PROVE  Spontaneous(h)
<1>1. Decide(h, "Internal") => reply'[h] = "Internal" BY DEF Decide, Answer, ControlTypes
<1>2. Continue(h, "rmtarget") => pc'[h] = "rmtarget" BY DEF Continue, Goto, ControlTypes
<1>3. Errs(h) BY <1>1, <1>2 DEF Errs
<1>4. QED BY <1>3 DEF Spontaneous

\* Handlers whose calls are awaited are for different volumes.
LEMMA LockFree ==
    ASSUME LockInv, KubeletInv, CallsOnCourse, NEW h \in Handlers, pc[h] = "lock"
    PROVE  VolumeId(req[h]) \notin volumeLocks
<1>1. OneOperationPerVolume /\ CallsInv BY DEF LockInv, KubeletInv
<1>2. SUFFICES ASSUME NEW g \in Handlers, HoldsLock(g), VolumeId(req[g]) = VolumeId(req[h])
               PROVE  FALSE
  BY <1>1 DEF OneOperationPerVolume
<1>3. g # h /\ g \in awaited /\ h \in awaited BY <1>2 DEF CallsOnCourse, HoldsLock
<1>4. QED BY <1>1, <1>2, <1>3 DEF CallsInv

\* While a volume is being staged none of its paths has a mount that the
\* restart of the daemon could orphan.
LEMMA StagingUnmounted ==
    ASSUME KubeletInv, StagedFirst, Healthy, NEW h \in Handlers,
           pc[h] = "exec", req[h].op = "stage", req[h] \in Requests
    PROVE  \A p \in Paths : p[1] = VolumeId(req[h]) => mounts[p] = <<>>
<1>1. /\ h \in awaited /\ mounts[Path(h)] = <<>> /\ AsksInv /\ BeliefsHold /\ late = {}
  BY DEF Healthy, CallsOnCourse, OnCourse, KubeletInv
<1>2. PICK v \in Volumes : v = VolumeId(req[h]) /\ Path(h) = Staging(v)
  BY RequestFacts DEF Path
<1>3. belief[Staging(v)] = "tried" BY <1>1, <1>2 DEF AsksInv, Active
<1>4. SUFFICES ASSUME NEW p \in Paths, p[1] = v, p # Staging(v) PROVE mounts[p] = <<>>
  BY <1>1, <1>2
<1>5. PICK d \in Pods : p = Target(v, d)
  BY <1>4 DEF Paths, StagingPaths, TargetPaths, Staging, Target
<1>6. belief[p] = "clean" BY <1>3, <1>5 DEF StagedFirst
<1>7. QED BY <1>1, <1>6 DEF BeliefsHold

\* The restart then puts the new daemon's mount on the staging path and
\* changes nothing else.
LEMMA FirstRestart ==
    ASSUME mounts \in [Paths -> Stacks], NEW v \in Volumes, FcfsFusedRestart(v, TRUE),
           \A p \in Paths : p[1] = v => mounts[p] = <<>>
    PROVE  /\ \A p \in Paths : p # Staging(v) => mounts'[p] = mounts[p]
           /\ Top(mounts'[Staging(v)]) = "live"
<1>1. PICK base \in Stacks : RestartResult(v, base, TRUE) BY RestartEffect
<1>2. Staging(v) \in Paths /\ Staging(v)[1] = v BY PathFacts
<1>3. Orphaned(<<>>) = <<>> /\ <<>> \in Stacks
  <2>1. <<>> \in Stacks BY DEF Stacks
  <2>2. QED BY <2>1, OrphanedStack
<1>4. base = <<>> /\ mounts'[Staging(v)] = Append(base, NewMount("live"))
  BY <1>1, <1>2, <1>3 DEF RestartResult, Top
<1>5. Top(mounts'[Staging(v)]) = "live" BY <1>3, <1>4, AppendStack DEF FileSystems
<1>6. QED BY <1>1, <1>3, <1>5 DEF RestartResult

\* A step of a handler that is no fault keeps its call on course.
LEMMA WorkOnCourse ==
    ASSUME ~Proxy, LockInv, HostInv, KubeletInv, StagedFirst, Healthy, NEW h \in Handlers,
           Work(h), ~(reply[h] = NoReply /\ Spontaneous(h))
    PROVE  NoneDead' /\ OnCourse(h)'
<1>1. /\ mounts \in [Paths -> Stacks] /\ HandlerShape /\ ControlTypes
      /\ CallsInv /\ AsksInv /\ NothingBare /\ BeliefsHold /\ NoneDead /\ late = {}
  BY TypeParts DEF LockInv, KubeletInv, Healthy
<1>2. req' = req /\ pc[h] # "idle" BY WorkControl
<1>3. Shape(h) /\ req[h] \in Requests BY <1>1, <1>2 DEF HandlerShape, Shape
<1>4. h \in awaited /\ OnCourse(h) BY <1>2 DEF Healthy, CallsOnCourse
<1>5. req[h].op \in {"stage", "unstage", "publish", "unpublish"}
  <2>1. req[h].op \in Ops BY <1>3, RequestFacts
  <2>2. QED BY <1>1, <1>2, <2>1 DEF CallsInv, Ops
<1>6. PICK q \in Paths : /\ q = Path(h) /\ q = Path(h)' /\ q = req[h].path
                         /\ mounts[q] \in Stacks
  BY <1>1, <1>2, <1>3, RequestFacts DEF Path
<1>7. /\ NoBare(mounts[q]) /\ TopOnly(mounts[q]) /\ (mounts[q] # <<>> => q \in dirs)
  BY <1>1, <1>6 DEF NothingBare, HostInv, PathsInv, PathInv, Guarded
<1>8. /\ Top(mounts[q]) \in {"none", "live"} /\ (Top(mounts[q]) = "none" <=> mounts[q] = <<>>)
  BY <1>1, <1>6, <1>7, TopValues DEF NoneDead, IsCorrupted
<1>9. Shown(h) = IF q \in dirs THEN Top(mounts[q]) ELSE "missing" BY <1>6 DEF Shown
<1>10. Removable(h) <=> q \in dirs /\ mounts[q] = <<>> BY <1>6 DEF Removable
<1>c. {"OK", "InvalidArgument", "NotFound", "Aborted", "Internal"} = Codes BY DEF Codes
<1>d. Decide(h, "OK") => pc'[h] = "release" /\ reply'[h] = "OK"
  BY <1>1, <1>2, <1>c, DecideControl
<1>e. \A l \in Labels : Continue(h, l) => pc'[h] = l BY <1>1, <1>2, ContinueControl
<1>f. /\ reply[h] = NoReply /\ CanSucceed(h) /\ pc[h] \notin {"unmount", "rmtarget"} =>
            ~Decide(h, "Internal") /\ ~Continue(h, "rmtarget")
  BY <1>1, <1>2, AvoidableError
<1>g. pc[h] \notin {"release", "return"} => reply[h] = NoReply BY <1>3 DEF Shape
<1>h. mounts' = mounts => NoneDead' BY <1>1 DEF NoneDead
<1>i. ASSUME NEW new, mounts' = [mounts EXCEPT ![q] = new], Top(new) # "dead"
      PROVE  mounts'[q] = new /\ NoneDead'
  BY <1>1, <1>6, <1>i DEF NoneDead, IsCorrupted
<1>11. CASE Validate(h)
  <2>1. /\ pc[h] = "validate" /\ req[h].op = "stage" /\ q \in dirs /\ mounts[q] = <<>>
    BY <1>4, <1>5, <1>6, <1>11 DEF Validate, OnCourse
  <2>2. Continue(h, "lock") /\ mounts' = mounts /\ dirs' = dirs
    BY <1>8, <1>9, <1>11, <2>1 DEF Validate, host
  <2>3. pc'[h] = "lock" BY <1>e, <2>2 DEF Labels
  <2>4. QED BY <1>2, <1>6, <1>h, <2>1, <2>2, <2>3 DEF OnCourse
<1>12. CASE AbortBusy(h)
  BY <1>12, LockFree DEF AbortBusy, TryAcquire, Healthy
<1>13. CASE AcquireLock(h)
  <2>1. pc[h] = "lock" /\ mounts' = mounts /\ dirs' = dirs BY <1>13 DEF AcquireLock, host
  <2>2. /\ req[h].op = "unpublish" => Continue(h, "umount")
        /\ req[h].op # "unpublish" => Continue(h, "inspect")
    BY <1>5, <1>13 DEF AcquireLock
  <2>3. /\ req[h].op = "unpublish" => pc'[h] = "umount"
        /\ req[h].op # "unpublish" => pc'[h] = "inspect"
    BY <1>e, <2>2 DEF Labels
  <2>4. QED BY <1>2, <1>4, <1>6, <1>h, <2>1, <2>3 DEF OnCourse
<1>14. CASE InspectMountPoint(h)
  <2>1. /\ pc[h] = "inspect" /\ req[h].op \in {"stage", "publish"} /\ mounts[q] = <<>>
        /\ mounts' = mounts /\ dirs' = dirs
    BY <1>4, <1>6, <1>14 DEF InspectMountPoint, OnCourse, host
  <2>2. CanSucceed(h) BY <2>1 DEF CanSucceed
  <2>3. Shown(h) \notin {"live", "dead"} BY <1>8, <1>9, <2>1
  <2>4. Continue(h, "makedir") BY <1>14, <1>f, <1>g, <2>1, <2>2, <2>3 DEF InspectMountPoint
  <2>5. pc'[h] = "makedir" BY <1>e, <2>4 DEF Labels
  <2>6. QED BY <1>2, <1>4, <1>6, <1>h, <2>1, <2>5 DEF OnCourse
<1>15. CASE ReadMountPoint(h) \/ UnmountCorrupted(h) \/ RemoveTarget(h) \/ StatFS(h)
  BY <1>4, <1>15 DEF OnCourse, ReadMountPoint, UnmountCorrupted, RemoveTarget, StatFS
<1>16. CASE MakeDir(h)
  <2>1. /\ pc[h] = "makedir" /\ req[h].op \in {"stage", "publish"} /\ mounts[q] = <<>>
        /\ mounts' = mounts
    BY <1>3, <1>4, <1>6, <1>16 DEF MakeDir, OnCourse, Shape
  <2>2. CanSucceed(h) BY <2>1 DEF CanSucceed
  <2>3. /\ dirs' = dirs \cup {q}
        /\ Continue(h, IF req[h].op = "stage" THEN "fuse" ELSE "bind")
    BY <1>6, <1>16, <1>f, <1>g, <2>1, <2>2 DEF MakeDir
  <2>4. pc'[h] = IF req[h].op = "stage" THEN "fuse" ELSE "bind" BY <1>e, <2>3 DEF Labels
  <2>5. QED BY <1>2, <1>6, <1>h, <2>1, <2>3, <2>4 DEF OnCourse
<1>17. CASE FcfsMount(h)
  <2>1. /\ pc[h] = "fuse" /\ req[h].op = "stage" /\ mounts[q] = <<>> /\ mounts' = mounts
    BY <1>3, <1>4, <1>6, <1>17 DEF FcfsMount, OnCourse, Shape
  <2>2. CanSucceed(h) BY <2>1 DEF CanSucceed
  <2>3. dirs' = dirs \cup {q} /\ Continue(h, "exec")
    BY <1>6, <1>17, <1>f, <1>g, <2>1, <2>2 DEF FcfsMount
  <2>4. pc'[h] = "exec" BY <1>e, <2>3 DEF Labels
  <2>5. QED BY <1>2, <1>6, <1>h, <2>1, <2>3, <2>4 DEF OnCourse
<1>18. CASE ExecFcfsFused(h)
  <2>1. /\ pc[h] = "exec" /\ req[h].op = "stage" /\ mounts[q] = <<>> /\ q \in dirs
        /\ dirs' = dirs
    BY <1>3, <1>4, <1>6, <1>18 DEF ExecFcfsFused, OnCourse, Shape
  <2>2. Len(<<>>) < MaxStack BY NodeAssumption
  <2>3. CanSucceed(h) BY <1>6, <2>1, <2>2 DEF CanSucceed
  <2>4. FcfsFusedRestart(VolumeId(req[h]), TRUE) /\ Decide(h, "OK")
    BY <1>18, <1>f, <1>g, <2>1, <2>3 DEF ExecFcfsFused
  <2>5. PICK v \in Volumes : v = VolumeId(req[h]) /\ q = Staging(v)
    BY <1>3, <1>6, <2>1, RequestFacts
  <2>6. \A p \in Paths : p[1] = v => mounts[p] = <<>>
    BY <1>3, <2>1, <2>5, StagingUnmounted
  <2>7. /\ \A p \in Paths : p # q => mounts'[p] = mounts[p]
        /\ Top(mounts'[q]) = "live"
    BY <1>1, <2>4, <2>5, <2>6, FirstRestart
  <2>8. NoneDead' BY <1>1, <2>7 DEF NoneDead, IsCorrupted
  <2>9. QED BY <1>2, <1>6, <1>d, <2>1, <2>4, <2>8 DEF OnCourse
<1>19. CASE BindMount(h)
  <2>1. /\ pc[h] = "bind" /\ req[h].op = "publish" /\ mounts[q] = <<>> /\ q \in dirs
        /\ dirs' = dirs
    BY <1>3, <1>4, <1>6, <1>19 DEF BindMount, OnCourse, Shape
  <2>2. PICK s \in Paths : s = Staging(VolumeId(req[h]))
    BY <1>3, RequestFacts, PathFacts
  <2>3. belief[s] = "ready" BY <1>1, <1>4, <2>1, <2>2 DEF AsksInv, Active
  <2>4. Top(mounts[s]) = "live" BY <1>1, <2>3 DEF BeliefsHold, NoneDead, IsCorrupted
  <2>5. s \in dirs
    <3>1. mounts[s] # <<>> BY <2>4 DEF Top
    <3>2. QED BY <3>1 DEF HostInv, PathsInv, PathInv
  <2>6. Len(<<>>) < MaxStack BY NodeAssumption
  <2>7. CanSucceed(h) BY <1>6, <2>1, <2>2, <2>4, <2>5, <2>6 DEF CanSucceed, IsCorrupted
  <2>8. /\ mounts' = [mounts EXCEPT ![q] = Append(mounts[q], NewMount("live"))]
        /\ Continue(h, "remount")
    BY <1>6, <1>19, <1>f, <1>g, <2>1, <2>2, <2>4, <2>7 DEF BindMount, IsMountPoint
  <2>9. Top(Append(mounts[q], NewMount("live"))) = "live"
    BY <1>6, AppendStack DEF FileSystems
  <2>10. NoneDead' BY <1>i, <2>8, <2>9
  <2>11. pc'[h] = "remount" BY <1>e, <2>8 DEF Labels
  <2>12. QED BY <1>2, <2>1, <2>10, <2>11 DEF OnCourse
<1>20. CASE RemountBind(h)
  <2>1. pc[h] = "remount" /\ req[h].op = "publish" /\ dirs' = dirs
    BY <1>3, <1>20 DEF RemountBind, Shape
  <2>2. CanSucceed(h) BY <2>1 DEF CanSucceed
  <2>3. /\ mounts' = [mounts EXCEPT ![q] = Remounted(mounts[q], Readonly(req[h]))]
        /\ Decide(h, "OK")
    BY <1>6, <1>20, <1>f, <1>g, <2>1, <2>2 DEF RemountBind
  <2>4. mounts[q] # <<>>
    BY <1>6, <2>1 DEF HostInv, ViewsInv, View, HoldsLock, Guarded
  <2>5. Readonly(req[h]) \in BOOLEAN BY <1>3, RequestFacts
  <2>6. Top(Remounted(mounts[q], Readonly(req[h]))) = Top(mounts[q])
    BY <1>6, <2>4, <2>5, RemountedStack
  <2>7. NoneDead' BY <1>8, <1>i, <2>3, <2>6
  <2>8. QED BY <1>2, <1>d, <2>1, <2>3, <2>7 DEF OnCourse
<1>21. ASSUME Unmounted(h), mounts[q] # <<>> PROVE mounts'[q] = <<>> /\ NoneDead'
  <2>1. Pop(mounts[q]) = <<>> BY <1>6, <1>7, <1>21, PopStack
  <2>2. mounts' = [mounts EXCEPT ![q] = <<>>] BY <1>6, <1>21, <2>1 DEF Unmounted
  <2>3. Top(<<>>) # "dead" BY DEF Top
  <2>4. QED BY <1>i, <2>2, <2>3
<1>22. CASE UnmountVolume(h)
  <2>1. /\ pc[h] = "umount" /\ req[h].op = "unpublish" /\ mounts[q] # <<>> /\ dirs' = dirs
    BY <1>3, <1>4, <1>6, <1>22 DEF UnmountVolume, OnCourse, Shape
  <2>2. CanSucceed(h) BY <1>6, <2>1 DEF CanSucceed
  <2>3. Unmounted(h) /\ Continue(h, "remove")
    BY <1>22, <1>f, <1>g, <2>1, <2>2 DEF UnmountVolume
  <2>4. pc'[h] = "remove" BY <1>e, <2>3 DEF Labels
  <2>5. QED BY <1>2, <1>6, <1>7, <1>21, <2>1, <2>3, <2>4 DEF OnCourse
<1>23. CASE RemoveUnpublished(h)
  <2>1. /\ pc[h] = "remove" /\ req[h].op = "unpublish" /\ Removable(h) /\ mounts' = mounts
    BY <1>3, <1>4, <1>6, <1>10, <1>23 DEF RemoveUnpublished, OnCourse, Shape
  <2>2. CanSucceed(h) BY <2>1 DEF CanSucceed
  <2>3. Decide(h, "OK") BY <1>23, <1>f, <1>g, <2>1, <2>2 DEF RemoveUnpublished
  <2>4. QED BY <1>2, <1>d, <1>h, <2>1, <2>3 DEF OnCourse
<1>24. CASE InspectStaging(h)
  <2>1. /\ pc[h] = "inspect" /\ req[h].op = "unstage" /\ mounts[q] # <<>>
        /\ mounts' = mounts /\ dirs' = dirs
    BY <1>4, <1>6, <1>24 DEF InspectStaging, OnCourse, host
  <2>2. Shown(h) = "live" BY <1>7, <1>8, <1>9, <2>1
  <2>3. CanSucceed(h) BY <2>1, <2>2 DEF CanSucceed
  <2>4. Continue(h, "cleanup") BY <1>24, <1>f, <1>g, <2>1, <2>2, <2>3 DEF InspectStaging
  <2>5. pc'[h] = "cleanup" BY <1>e, <2>4 DEF Labels
  <2>6. QED BY <1>2, <1>6, <1>h, <2>1, <2>5 DEF OnCourse
<1>25. CASE CleanupMountPoint(h)
  <2>1. /\ pc[h] = "cleanup" /\ req[h].op = "unstage" /\ mounts[q] # <<>>
    BY <1>3, <1>4, <1>6, <1>25 DEF CleanupMountPoint, OnCourse, Shape
  <2>2. Shown(h) = "live" /\ ~Removable(h) BY <1>7, <1>8, <1>9, <1>10, <2>1
  <2>3. CanSucceed(h) BY <2>1, <2>2 DEF CanSucceed
  <2>4. Unmounted(h) /\ Continue(h, "rmdir") /\ dirs' = dirs
    BY <1>25, <1>f, <1>g, <2>1, <2>2, <2>3 DEF CleanupMountPoint
  <2>5. pc'[h] = "rmdir" BY <1>e, <2>4 DEF Labels
  <2>6. QED BY <1>2, <1>6, <1>7, <1>21, <2>1, <2>4, <2>5 DEF OnCourse
<1>26. CASE RemoveCleaned(h)
  <2>1. /\ pc[h] = "rmdir" /\ req[h].op = "unstage" /\ Removable(h) /\ mounts' = mounts
    BY <1>3, <1>4, <1>6, <1>10, <1>26 DEF RemoveCleaned, OnCourse, Shape
  <2>2. CanSucceed(h) BY <2>1 DEF CanSucceed
  <2>3. Decide(h, "OK") BY <1>26, <1>f, <1>g, <2>1, <2>2 DEF RemoveCleaned
  <2>4. QED BY <1>2, <1>d, <1>h, <2>1, <2>3 DEF OnCourse
<1>27. CASE ReleaseLock(h)
  <2>1. /\ pc[h] = "release" /\ pc'[h] = "return" /\ reply' = reply
        /\ mounts' = mounts /\ dirs' = dirs
    BY <1>1, <1>27 DEF ReleaseLock, Goto, ControlTypes, host
  <2>2. QED BY <1>2, <1>4, <1>6, <1>h, <2>1 DEF OnCourse
<1>28. QED
  BY <1>11, <1>12, <1>13, <1>14, <1>15, <1>16, <1>17, <1>18, <1>19, <1>20, <1>22, <1>23,
     <1>24, <1>25, <1>26, <1>27 DEF Work

\* ... and leaves the other calls on theirs.
LEMMA WorkHealthy ==
    ASSUME ~Proxy, LockInv, HostInv, KubeletInv, StagedFirst, Healthy, NEW h \in Handlers,
           Work(h), ~(reply[h] = NoReply /\ Spontaneous(h)), UNCHANGED <<belief, awaited>>,
           TakesLockLate(h) \/ UNCHANGED late
    PROVE  Healthy'
<1>1. HandlerShape /\ CallsInv /\ CallsOnCourse /\ DoubtsAwaited /\ late = {}
  BY DEF LockInv, KubeletInv, Healthy
<1>2. NoneDead' /\ OnCourse(h)' BY WorkOnCourse
<1>3. req' = req /\ Others(h) /\ pc[h] # "idle" BY WorkControl
<1>4. \A p \in Paths : p[1] # VolumeId(req[h]) =>
         mounts'[p] = mounts[p] /\ (p \in dirs' <=> p \in dirs)
  BY Locality DEF Step
<1>5. ASSUME NEW g \in Handlers, pc'[g] # "idle" PROVE g \in awaited' /\ OnCourse(g)'
  <2>1. CASE g = h BY <1>1, <1>2, <1>3, <2>1 DEF CallsOnCourse
  <2>2. CASE g # h
    <3>1. pc'[g] = pc[g] /\ reply'[g] = reply[g] BY <1>3, <2>2 DEF Others
    <3>2. g \in awaited /\ h \in awaited /\ OnCourse(g) BY <1>1, <1>3, <1>5, <3>1 DEF CallsOnCourse
    <3>3. VolumeId(req[g]) # VolumeId(req[h]) BY <1>1, <2>2, <3>2 DEF CallsInv
    <3>4. req[g] \in Requests BY <1>1, <1>5, <3>1 DEF HandlerShape, Shape
    <3>5. PICK q \in Paths : q = Path(g) /\ q = Path(g)' /\ q[1] = VolumeId(req[g])
      BY <1>3, <3>4, RequestFacts DEF Path, VolumeId
    <3>6. mounts'[q] = mounts[q] /\ (q \in dirs' <=> q \in dirs) BY <1>4, <3>3, <3>5
    <3>7. QED BY <1>3, <3>1, <3>2, <3>5, <3>6 DEF OnCourse
  <2>3. QED BY <2>1, <2>2
<1>6. DoubtsAwaited' BY <1>1, <1>3 DEF DoubtsAwaited, Path
<1>7. late' = {} BY <1>1, <1>3 DEF CallsOnCourse, TakesLockLate
<1>8. QED BY <1>2, <1>5, <1>6, <1>7 DEF Healthy, CallsOnCourse

\* A new call starts on course if its path is what the kubelet takes it for.
LEMMA AskHealthy ==
    ASSUME LockInv, KubeletInv, Healthy, NEW path \in Paths,
           NEW op \in {"stage", "unstage", "publish", "unpublish"}, Ask(op, path),
           op \in {"stage", "publish"} => mounts[path] = <<>>,
           op \in {"unstage", "unpublish"} => mounts[path] # <<>>,
           op = "stage" => path \in dirs
    PROVE  Healthy'
<1>1. ControlTypes /\ CallsInv /\ NoneDead /\ CallsOnCourse /\ DoubtsAwaited /\ BeliefTypes
  BY TypeParts DEF LockInv, KubeletInv, Healthy
<1>2. PICK r : r = [op |-> op, path |-> path] OBVIOUS
<1>3. PICK h \in Handlers : Accept(h, r) /\ awaited' = awaited \cup {h} BY <1>2 DEF Ask
<1>4. /\ pc[h] = "idle" /\ req'[h] = r /\ pc'[h] \in {"validate", "lock"}
      /\ \A g \in Handlers : g # h => req'[g] = req[g] /\ pc'[g] = pc[g]
      /\ reply' = reply /\ mounts' = mounts /\ dirs' = dirs
  BY <1>1, <1>3 DEF Accept, Goto, ControlTypes, host
<1>5. r.op = op /\ r.path = path /\ Path(h)' = path BY <1>2, <1>4 DEF Path
<1>6. h \notin awaited /\ awaited \subseteq Handlers BY <1>1, <1>4 DEF CallsInv
<1>7. \A g \in awaited : Path(g)' = Path(g) /\ g \in awaited' BY <1>3, <1>4, <1>6 DEF Path
<1>8. NoneDead' BY <1>1, <1>4 DEF NoneDead
<1>9. ASSUME NEW g \in Handlers, pc'[g] # "idle" PROVE g \in awaited' /\ OnCourse(g)'
  <2>1. CASE g = h BY <1>3, <1>4, <1>5, <2>1 DEF OnCourse
  <2>2. CASE g # h
    <3>1. g \in awaited /\ OnCourse(g) BY <1>1, <1>4, <1>9, <2>2 DEF CallsOnCourse
    <3>2. QED BY <1>4, <1>7, <2>2, <3>1 DEF OnCourse
  <2>3. QED BY <2>1, <2>2
<1>10. DoubtsAwaited'
  <2>1. belief' = [belief EXCEPT ![path] = "tried"] BY DEF Ask
  <2>2. SUFFICES ASSUME NEW p \in Paths, belief'[p] = "tried"
                 PROVE  \E g \in awaited' : Path(g)' = p
    BY DEF DoubtsAwaited
  <2>3. CASE p = path BY <1>3, <1>5, <2>3
  <2>4. CASE p # path
    <3>1. belief[p] = "tried" BY <1>1, <2>1, <2>2, <2>4 DEF BeliefTypes
    <3>2. PICK g \in awaited : Path(g) = p BY <1>1, <3>1 DEF DoubtsAwaited
    <3>3. QED BY <1>7, <3>2
  <2>5. QED BY <2>3, <2>4
<1>11. late' = {} BY DEF Ask, Healthy
<1>12. QED BY <1>8, <1>9, <1>10, <1>11 DEF Healthy, CallsOnCourse

\* Nothing is in doubt about a path that no call is awaited for.
LEMMA NoDoubt ==
    ASSUME LockInv, KubeletInv, Healthy, NEW path \in Paths, Free(path[1])
    PROVE  /\ belief[path] \in {"clean", "ready"}
           /\ belief[path] = "clean" => mounts[path] = <<>>
           /\ belief[path] = "ready" => mounts[path] # <<>>
<1>1. BeliefTypes /\ BeliefsHold /\ DoubtsAwaited /\ late = {} BY DEF KubeletInv, Healthy
<1>2. belief[path] # "tried" BY <1>1 DEF DoubtsAwaited, Free, Path, VolumeId
<1>3. QED BY <1>1, <1>2 DEF BeliefTypes, BeliefsHold, Top

LEMMA CallsHealthy ==
    ASSUME LockInv, KubeletInv, Healthy, NEW v \in Volumes,
           Stage(v) \/ Unstage(v) \/ \E p \in Pods : PodCalls(v, p)
    PROVE  Healthy'
<1>1. Staging(v) \in Paths /\ Staging(v)[1] = v BY PathFacts
<1>2. \A p \in Pods : Target(v, p) \in Paths /\ Target(v, p)[1] = v
  BY DEF Target, TargetPaths, Paths
<1>3. CASE Stage(v)
  <2>1. Ask("stage", Staging(v)) /\ belief[Staging(v)] # "ready" /\ Staging(v) \in dirs
    BY <1>3 DEF Stage
  <2>2. mounts[Staging(v)] = <<>> BY <1>1, <2>1, NoDoubt DEF Ask
  <2>3. QED BY <1>1, <2>1, <2>2, AskHealthy
<1>4. CASE Unstage(v)
  <2>1. Ask("unstage", Staging(v)) /\ belief[Staging(v)] # "clean" BY <1>4 DEF Unstage
  <2>2. mounts[Staging(v)] # <<>> BY <1>1, <2>1, NoDoubt DEF Ask
  <2>3. QED BY <1>1, <2>1, <2>2, AskHealthy
<1>5. ASSUME NEW p \in Pods, Publish(v, p) PROVE Healthy'
  <2>1. Ask("publish", Target(v, p)) /\ belief[Target(v, p)] # "ready" BY <1>5 DEF Publish
  <2>2. mounts[Target(v, p)] = <<>> BY <1>2, <2>1, NoDoubt DEF Ask
  <2>3. QED BY <1>2, <2>1, <2>2, AskHealthy
<1>6. ASSUME NEW p \in Pods, Unpublish(v, p) PROVE Healthy'
  <2>1. Ask("unpublish", Target(v, p)) /\ belief[Target(v, p)] # "clean" BY <1>6 DEF Unpublish
  <2>2. mounts[Target(v, p)] # <<>> BY <1>2, <2>1, NoDoubt DEF Ask
  <2>3. QED BY <1>2, <2>1, <2>2, AskHealthy
<1>7. QED BY <1>3, <1>4, <1>5, <1>6 DEF PodCalls

LEMMA AnswerHealthy ==
    ASSUME LockInv, KubeletInv, Healthy, NEW h \in Handlers, ReceiveAnswer(h) \/ LateAnswer(h)
    PROVE  Healthy'
<1>1. /\ ControlTypes /\ HandlerShape /\ CallsInv /\ BeliefTypes
      /\ NoneDead /\ CallsOnCourse /\ DoubtsAwaited
  BY TypeParts DEF LockInv, KubeletInv, Healthy
<1>2. /\ pc[h] = "return" /\ pc'[h] = "idle" /\ mounts' = mounts /\ dirs' = dirs
      /\ \A g \in Handlers : g # h => req'[g] = req[g] /\ pc'[g] = pc[g] /\ reply'[g] = reply[g]
  BY <1>1 DEF ReceiveAnswer, LateAnswer, Return, Goto, ControlTypes, host
<1>3. h \in awaited /\ reply[h] = "OK" BY <1>1, <1>2 DEF CallsOnCourse, OnCourse
<1>4. /\ awaited' = awaited \ {h} /\ awaited \subseteq Handlers
      /\ belief' = [belief EXCEPT ![Path(h)] =
                       IF req[h].op \in {"stage", "publish"} THEN "ready" ELSE "clean"]
  BY <1>1, <1>3 DEF ReceiveAnswer, LateAnswer, CallsInv
<1>5. \A g \in awaited' : g # h /\ g \in awaited /\ Path(g)' = Path(g) BY <1>2, <1>4 DEF Path
<1>6. NoneDead' BY <1>1, <1>2 DEF NoneDead
<1>7. ASSUME NEW g \in Handlers, pc'[g] # "idle" PROVE g \in awaited' /\ OnCourse(g)'
  <2>1. g # h /\ g \in awaited' /\ OnCourse(g) BY <1>1, <1>2, <1>4, <1>7 DEF CallsOnCourse
  <2>2. QED BY <1>2, <1>5, <2>1 DEF OnCourse
<1>8. DoubtsAwaited'
  <2>1. SUFFICES ASSUME NEW p \in Paths, belief'[p] = "tried"
                 PROVE  \E g \in awaited' : Path(g)' = p
    BY DEF DoubtsAwaited
  <2>2. p # Path(h) /\ belief[p] = "tried" BY <1>1, <1>4, <2>1 DEF BeliefTypes
  <2>3. PICK g \in awaited : Path(g) = p BY <1>1, <2>2 DEF DoubtsAwaited
  <2>4. g \in awaited' BY <1>4, <2>2, <2>3
  <2>5. QED BY <1>5, <2>3, <2>4
<1>9. late' = {} BY DEF ReceiveAnswer, LateAnswer, kubelet, Healthy
<1>10. QED BY <1>6, <1>7, <1>8, <1>9 DEF Healthy, CallsOnCourse

\* The kubelet's own directories.
LEMMA DirHealthy ==
    ASSUME KubeletInv, Healthy, UNCHANGED <<mounts, req, reply, pc, belief, awaited, late>>,
           \A p \in dirs : p \in dirs' \/ belief[p] = "clean"
    PROVE  Healthy'
<1>1. AsksInv /\ NoneDead /\ CallsOnCourse /\ DoubtsAwaited BY DEF KubeletInv, Healthy
<1>2. NoneDead' /\ DoubtsAwaited' BY <1>1 DEF NoneDead, DoubtsAwaited, Path
<1>3. ASSUME NEW g \in Handlers, pc'[g] # "idle" PROVE g \in awaited' /\ OnCourse(g)'
  <2>1. g \in awaited /\ OnCourse(g) /\ Path(g)' = Path(g) BY <1>1, <1>3 DEF CallsOnCourse, Path
  <2>2. Path(g) \in dirs => Path(g) \in dirs' BY <1>1, <2>1 DEF AsksInv, Active, CallsOnCourse
  <2>3. QED BY <2>1, <2>2 DEF OnCourse
<1>4. QED BY <1>2, <1>3 DEF Healthy, CallsOnCourse

LEMMA StagedFirstCalls ==
    ASSUME BeliefTypes, StagedFirst, NEW v \in Volumes,
           Stage(v) \/ Unstage(v) \/ \E p \in Pods : PodCalls(v, p)
    PROVE  StagedFirst'
<1>1. \A w \in Volumes, d \in Pods :
        /\ Target(w, d) \in Paths /\ Staging(w) \in Paths
        /\ \A u \in Volumes : Staging(u) # Target(w, d)
        /\ Staging(w) = Staging(v) => w = v
        /\ \A p \in Pods : Target(w, d) = Target(v, p) => w = v
  BY NodeAssumption DEF Paths, StagingPaths, TargetPaths, Staging, Target
<1>2. SUFFICES ASSUME NEW w \in Volumes, NEW d \in Pods, belief'[Target(w, d)] # "clean"
               PROVE  belief'[Staging(w)] = "ready"
  BY DEF StagedFirst
<1>3. CASE Stage(v) \/ Unstage(v)
  <2>1. /\ belief' = [belief EXCEPT ![Staging(v)] = "tried"]
        /\ belief[Staging(v)] # "ready" \/ \A e \in Pods : belief[Target(v, e)] = "clean"
    BY <1>3 DEF Stage, Unstage, Ask
  <2>2. belief[Target(w, d)] # "clean" BY <1>1, <1>2, <2>1 DEF BeliefTypes
  <2>3. belief[Staging(w)] = "ready" /\ w # v BY <2>1, <2>2 DEF StagedFirst
  <2>4. QED BY <1>1, <2>1, <2>3 DEF BeliefTypes
<1>4. ASSUME NEW p \in Pods, PodCalls(v, p) PROVE belief'[Staging(w)] = "ready"
  <2>1. /\ belief' = [belief EXCEPT ![Target(v, p)] = "tried"]
        /\ belief[Staging(v)] = "ready"
    BY <1>4 DEF PodCalls, Publish, Unpublish, Ask, StagedFirst
  <2>2. belief[Staging(w)] = "ready"
    <3>1. CASE Target(w, d) = Target(v, p) BY <1>1, <2>1, <3>1
    <3>2. CASE Target(w, d) # Target(v, p)
      BY <1>1, <1>2, <2>1, <3>2 DEF StagedFirst, BeliefTypes
    <3>3. QED BY <3>1, <3>2
  <2>3. QED BY <1>1, <2>1, <2>2 DEF BeliefTypes
<1>5. QED BY <1>3, <1>4

LEMMA StagedFirstAnswer ==
    ASSUME LockInv, KubeletInv, StagedFirst, NEW h \in Handlers, ReceiveAnswer(h)
    PROVE  StagedFirst'
<1>1. HandlerShape /\ CallsInv /\ BeliefTypes /\ AsksInv BY DEF LockInv, KubeletInv
<1>2. pc[h] # "idle" /\ h \in awaited BY DEF ReceiveAnswer, Return
<1>3. req[h] \in Requests BY <1>1, <1>2 DEF HandlerShape, Shape
<1>4. req[h].op \in {"stage", "unstage", "publish", "unpublish"}
  <2>1. req[h].op \in Ops BY <1>3, RequestFacts
  <2>2. QED BY <1>1, <1>2, <2>1 DEF CallsInv, Ops
<1>5. PICK q \in Paths, v \in Volumes : q = Path(h) /\ v = VolumeId(req[h]) /\ v = q[1]
  BY <1>3, RequestFacts DEF Path, VolumeId
<1>6. belief[q] = "tried" BY <1>1, <1>2, <1>5 DEF AsksInv, Active
<1>7. \A w \in Volumes, d \in Pods :
        /\ Target(w, d) \in Paths /\ Staging(w) \in Paths
        /\ \A u \in Volumes : Staging(u) # Target(w, d)
        /\ Staging(w)[1] = w /\ Target(w, d)[1] = w
        /\ Target(w, d) \in TargetPaths /\ Staging(w) \notin TargetPaths
  BY NodeAssumption DEF Paths, StagingPaths, TargetPaths, Staging, Target
<1>8. CASE belief' = belief BY <1>8 DEF StagedFirst
<1>9. CASE belief' # belief
  <2>1. belief' = [belief EXCEPT ![q] =
                      IF req[h].op \in {"stage", "publish"} THEN "ready" ELSE "clean"]
    BY <1>5, <1>9 DEF ReceiveAnswer
  <2>2. SUFFICES ASSUME NEW w \in Volumes, NEW d \in Pods, belief'[Target(w, d)] # "clean"
                 PROVE  belief'[Staging(w)] = "ready"
    BY DEF StagedFirst
  <2>3. CASE req[h].op \in {"stage", "unstage"}
    <3>1. q = Staging(v) BY <1>3, <1>5, <2>3, RequestFacts DEF Path
    <3>2. belief[Target(w, d)] # "clean" BY <1>1, <1>7, <2>1, <2>2, <3>1 DEF BeliefTypes
    <3>3. belief[Staging(w)] = "ready" BY <3>2 DEF StagedFirst
    <3>4. Staging(w) # q BY <1>6, <3>3
    <3>5. QED BY <1>1, <1>7, <2>1, <3>3, <3>4 DEF BeliefTypes
  <2>4. CASE req[h].op \in {"publish", "unpublish"}
    <3>1. q \in TargetPaths BY <1>3, <1>5, <2>4, RequestFacts DEF Path
    <3>2. belief'[Staging(w)] = belief[Staging(w)] BY <1>1, <1>7, <2>1, <3>1 DEF BeliefTypes
    <3>3. CASE Target(w, d) = q
      BY <1>6, <3>2, <3>3 DEF StagedFirst
    <3>4. CASE Target(w, d) # q
      <4>1. belief[Target(w, d)] # "clean" BY <1>1, <1>7, <2>1, <2>2, <3>4 DEF BeliefTypes
      <4>2. QED BY <3>2, <4>1 DEF StagedFirst
    <3>5. QED BY <3>3, <3>4
  <2>5. QED BY <1>4, <2>3, <2>4
<1>10. QED BY <1>8, <1>9

LEMMA FaultStep ==
    ASSUME ~Proxy, LockInv, HostInv, KubeletInv, FaultInv, [KubeletNext]_allVars
    PROVE  FaultInv'
<1>1. StagedFirst /\ faults \in 0..MaxFaults /\ (faults = MaxFaults => Healthy) /\ BeliefTypes
  BY DEF FaultInv, KubeletInv
<1>2. ASSUME Fault, UNCHANGED belief PROVE FaultInv'
  <2>1. faults' \in 0..MaxFaults /\ faults' # MaxFaults
    BY <1>1, <1>2, KubeletAssumption DEF Fault
  <2>2. StagedFirst' BY <1>1, <1>2 DEF StagedFirst
  <2>3. QED BY <2>1, <2>2 DEF FaultInv
<1>3. ASSUME faults' = faults, StagedFirst', Healthy => Healthy' PROVE FaultInv'
  BY <1>1, <1>3 DEF FaultInv
<1>4. UNCHANGED belief => StagedFirst' BY <1>1 DEF StagedFirst
<1>5. CASE \/ \E p \in Pods : AddPod(p) \/ RemovePod(p)
           \/ UNCHANGED allVars
  <2>1. UNCHANGED <<mounts, dirs, req, reply, pc, belief, awaited, late>> /\ faults' = faults
    BY <1>5 DEF AddPod, RemovePod, allVars, vars, kubelet
  <2>2. QED BY <1>3, <1>4, <2>1, DirHealthy
<1>6. ASSUME NEW v \in Volumes, MakeStagingDir(v) PROVE FaultInv'
  <2>1. /\ UNCHANGED <<mounts, req, reply, pc, belief, awaited, late>> /\ faults' = faults
        /\ \A p \in dirs : p \in dirs'
    BY <1>6 DEF MakeStagingDir, KubeletMakesDir, kubelet
  <2>2. QED BY <1>3, <1>4, <2>1, DirHealthy
<1>7. ASSUME NEW path \in Paths, RemoveCleanDir(path) PROVE FaultInv'
  <2>1. /\ UNCHANGED <<mounts, req, reply, pc, belief, awaited, late>> /\ faults' = faults
        /\ \A p \in dirs : p \in dirs' \/ belief[p] = "clean"
    BY <1>7 DEF RemoveCleanDir, KubeletRemovesDir, kubelet
  <2>2. QED BY <1>3, <1>4, <2>1, DirHealthy
<1>8. ASSUME NEW v \in Volumes, Stage(v) \/ Unstage(v) \/ \E p \in Pods : PodCalls(v, p)
      PROVE  FaultInv'
  <2>1. faults' = faults
    BY <1>8 DEF Stage, Unstage, PodCalls, Publish, Unpublish, Ask
  <2>2. StagedFirst' BY <1>1, <1>8, StagedFirstCalls
  <2>3. Healthy => Healthy' BY <1>8, CallsHealthy
  <2>4. QED BY <1>3, <2>1, <2>2, <2>3
<1>9. ASSUME NEW h \in Handlers, HandlerStep(h) PROVE FaultInv'
  <2>1. Work(h) /\ UNCHANGED <<belief, awaited>> /\ (TakesLockLate(h) \/ UNCHANGED late)
    BY <1>9 DEF HandlerStep
  <2>2. CASE reply[h] = NoReply /\ Spontaneous(h)
    BY <1>2, <1>9, <2>1, <2>2 DEF HandlerStep
  <2>3. CASE ~(reply[h] = NoReply /\ Spontaneous(h))
    <3>1. faults' = faults BY <1>9, <2>3 DEF HandlerStep
    <3>2. Healthy => Healthy' BY <1>1, <2>1, <2>3, WorkHealthy
    <3>3. QED BY <1>3, <1>4, <2>1, <3>1, <3>2
  <2>4. QED BY <2>2, <2>3
<1>10. ASSUME NEW h \in Handlers, ReceiveAnswer(h) \/ LateAnswer(h) PROVE FaultInv'
  <2>1. faults' = faults BY <1>10 DEF ReceiveAnswer, LateAnswer, kubelet
  <2>2. StagedFirst' BY <1>1, <1>4, <1>10, StagedFirstAnswer DEF LateAnswer, kubelet
  <2>3. Healthy => Healthy' BY <1>10, AnswerHealthy
  <2>4. QED BY <1>3, <2>1, <2>2, <2>3
<1>11. ASSUME NEW h \in Handlers, GiveUp(h) PROVE FaultInv'
  BY <1>2, <1>11 DEF GiveUp
<1>12. CASE PluginCrash \/ \E v \in Volumes : DaemonFault(v)
  BY <1>2, <1>12 DEF PluginCrash, DaemonFault
<1>13. QED
  BY <1>5, <1>6, <1>7, <1>8, <1>9, <1>10, <1>11, <1>12 DEF KubeletNext, DeviceCalls

LEMMA FaultInvariant ==
    ASSUME ~Proxy
    PROVE  KubeletSpec => [](LockInv /\ HostInv /\ KubeletInv /\ FaultInv)
<1> DEFINE All == LockInv /\ HostInv /\ KubeletInv /\ FaultInv
<1>1. KubeletInit => All BY KubeletInitInv, FaultInit
<1>2. All /\ [KubeletNext]_allVars => All'
  BY KubeletStep, KubeletImplements, LockNext, HostNext, FaultStep
<1> HIDE DEF All
<1>3. KubeletSpec => []All BY <1>1, <1>2, PTL DEF KubeletSpec
<1>4. QED BY <1>3 DEF All

\* When the plugin mounts by itself, a dead end needs a fault: as long as no
\* daemon and no plugin process dies, no call times out and no command fails
\* that could succeed, no volume gets stuck between two calls.
THEOREM DeadEndsCorrect ==
    ASSUME ~Proxy
    PROVE  KubeletSpec => []DeadEndsNeedFaults
<1>1. LockInv /\ HostInv /\ KubeletInv /\ FaultInv => DeadEndsNeedFaults
  <2>1. SUFFICES ASSUME LockInv, KubeletInv, FaultInv, NEW v \in Volumes, Free(v), DeadEnd(v),
                        faults = MaxFaults
                 PROVE  FALSE
    BY KubeletAssumption DEF DeadEndsNeedFaults, FaultInv
  <2>2. Healthy BY <2>1 DEF FaultInv
  <2>3. Staging(v) \in Paths /\ Staging(v)[1] = v BY PathFacts
  <2>4. \A p \in Pods : Target(v, p) \in Paths /\ Target(v, p)[1] = v
    BY DEF Target, TargetPaths, Paths
  <2>5. ~DeadStaging(v) BY <2>2, <2>3 DEF DeadStaging, Healthy, NoneDead
  <2>6. belief[Staging(v)] # "tried" BY <2>1, <2>2, <2>3, NoDoubt
  <2>7. \A p \in Pods : belief[Target(v, p)] # "tried" BY <2>1, <2>2, <2>4, NoDoubt
  <2>8. QED BY <2>1, <2>5, <2>6, <2>7 DEF DeadEnd, NoTarget, NoStaging
<1>2. QED BY <1>1, FaultInvariant, PTL

\* ... and every call is answered OK: none of the errors that the handlers
\* pass on is one they run into by themselves.
THEOREM CallsSucceed ==
    ASSUME ~Proxy
    PROVE  KubeletSpec => []FaultlessCallsSucceed
<1>1. LockInv /\ HostInv /\ KubeletInv /\ FaultInv => FaultlessCallsSucceed
  <2>1. SUFFICES ASSUME LockInv, FaultInv, faults = MaxFaults, NEW h \in Handlers
                 PROVE  reply[h] \in {NoReply, "OK"}
    BY DEF FaultlessCallsSucceed
  <2>2. Shape(h) /\ CallsOnCourse BY <2>1 DEF LockInv, HandlerShape, FaultInv, Healthy
  <2>3. CASE pc[h] \notin {"release", "return"} BY <2>2, <2>3 DEF Shape
  <2>4. CASE pc[h] \in {"release", "return"} BY <2>2, <2>4 DEF CallsOnCourse, OnCourse
  <2>5. QED BY <2>3, <2>4
<1>2. QED BY <1>1, FaultInvariant, PTL

\* When the plugin mounts by itself, no daemon is restarted and no staging
\* path unmounted under a pod, whatever calls timed out and went on with
\* their lock: while such a call can act, the kubelet does not take the
\* volume to be staged and so has it published nowhere.  A call that was
\* given up in front of the lock can do it, and nothing else.
THEOREM NoRestartUnderPods ==
    ASSUME ~Proxy
    PROVE  KubeletSpec => []UsedVolumesLeftAlone
<1>1. LockInv /\ HostInv /\ KubeletInv /\ FaultInv => UsedVolumesLeftAlone
  <2>1. SUFFICES ASSUME LockInv, KubeletInv, FaultInv, NEW h \in Handlers, NEW p \in Pods,
                        HoldsLock(h), req[h].op \in {"stage", "unstage"},
                        VolumeId(req[h]) \notin late
                 PROVE  mounts[Target(VolumeId(req[h]), p)] = <<>>
    BY DEF UsedVolumesLeftAlone
  <2>2. HandlerShape /\ AsksInv /\ BeliefsHold /\ StagedFirst
    BY <2>1 DEF LockInv, KubeletInv, FaultInv
  <2>3. req[h] \in Requests BY <2>1, <2>2 DEF HandlerShape, Shape, HoldsLock
  <2>4. PICK v \in Volumes : v = VolumeId(req[h]) /\ Path(h) = Staging(v)
    BY <2>1, <2>3, RequestFacts DEF Path
  <2>5. belief[Staging(v)] = "tried" BY <2>1, <2>2, <2>4 DEF AsksInv, Active
  <2>6. belief[Target(v, p)] = "clean" BY <2>2, <2>5 DEF StagedFirst
  <2>7. Target(v, p) \in Paths /\ Target(v, p)[1] \notin late
    BY <2>1, <2>4 DEF TargetPaths, Paths, Target
  <2>8. QED BY <2>2, <2>4, <2>6, <2>7 DEF BeliefsHold
<1>2. QED BY <1>1, FaultInvariant, PTL
=============================================================================
