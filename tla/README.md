# TLA+ model of the FastCFS CSI driver

The driver (`pkg/`) connects Kubernetes to FastCFS. The *controller service*
turns PVCs into FastCFS pools with the `fcfs_pool` command; the *node service*
mounts them with the `fcfs_fused` daemon and bind mounts, either itself or
through the `fcfsfused-proxy` on the host. Both are gRPC servers: every request
runs in a goroutine of its own, the commands ignore the request's context, and
callers (csi-provisioner, csi-resizer, kubelet) retry until they get OK. What
has to be right is therefore what happens when requests overlap, fail half-way,
are retried, or a process dies.

## 1. Inventory

| Component (source) | State | Operations | Hard behaviour | Correct means |
|---|---|---|---|---|
| Volume lock table (`common/idlocker.go`) | set of strings, in memory | TryAcquire, Release | taken by concurrent handlers, lost in a crash, Release does not ask who holds | one holder per string, no leak on any return path |
| Counting lock (`common/idlocker.go`) | counter per operation and id | five acquire/release pairs | parallel operations, entries that are not counted | conflicting operations never overlap |
| Controller (`fcfs-driver/controllerserver.go`, `fcfs/fcfs.go`) | lock table; pools in the cluster | CreateVolume, DeleteVolume, ControllerExpandVolume | check-then-act over two commands, commands that act and fail, retries, late calls, crash | behaves like an atomic volume service; a claim has what it was told |
| Credentials (`common/credentials.go`) | temporary key files | store, delete | concurrent requests, early returns, crash | private to a request, removed by it unless os.Remove fails |
| Sizes (`common/utils.go`) | none | RoundOffBytes, RoundUpGiB | float64 and int64 limits, 0 bytes | reported bytes = quota, least sufficient |
| Volume ids and options (`common/volid.go`, `fcfs-driver/volumeoptions.go`) | none | compose, decompose, options of a static volume | length limits, 16-bit cursor, slices without bounds check, ids written by hand | an id leads back to its pool |
| Topology (`common/topology.go`, `fcfs/metedata.go`) | labels read at start | label matching | several topologies, missing labels, request that hangs | one of those asked for; every label reported |
| Node (`fcfs-driver/nodeserver.go`, `mount.go`) | lock table; host's mount table | stage, unstage, publish, unpublish, stats | checks and actions are separate system calls; daemons die; plugin restarts; answers are lost | an OK answer is true; no mount is lost or buried; pods get volumes, volumes are cleaned up |
| Fused proxy (`fcfsfused-proxy`, client in `fcfs/fcfs.go`) | mutex, key file, connections | MountFcfsFused | outlives the plugin, call without deadline | one command at a time, every call answered, OK means mounted |
| Plugin process (`cmd/fcfsplugin`, `fcfs-driver/fcfsdriver.go`, `csi-common`) | driver object, servers, socket file | start, serve, identity and capability calls | role flags, nil servers, Serve failing, stale socket | serves its role, survives its calls, comes back |
| Version, flag parsing, logging, generated code | constants | - | - | - |

The components interact by calls (handlers use locks, credentials, options,
commands), through files (key files, sockets), through the cluster and through
the host's mount table. `PROJECT.json` lists the hazards with their lines.

## 2. Modules

| Module | Models |
|---|---|
| `VolumeLocks` | the lock table, as operators on a set; used by both servers |
| `Sizes` | the two roundings, with the unit, the float64 and the int64 widths as parameters |
| `VolumeID` | the codec of volume ids on lengths and offsets |
| `Topology` | the two uses of topology labels |
| `VolumeOptions` | one volume from CreateVolume (or a handle written by hand) on: which pool, size, secrets and topology each request works with; composes the three above |
| `CSIRequests` | controller requests and answers, the quota of each request |
| `VolumeService` | **abstract**: each request acts at most once, atomically; OK means that it acted |
| `ControllerServer` | **detailed**: the three handlers, step by step; refines `VolumeService` |
| `Provisioning` | `ControllerServer` under its callers: claims, csi-provisioner, csi-resizer |
| `OperationLock` | the counting lock with arbitrary callers |
| `Mounts` | external: what the plugin sees of the mount table (a stack per path) |
| `NodeServer` | the five node requests, `fcfs_fused`, the proxy as one step |
| `Kubelet` | `NodeServer` under its caller: pods and the kubelet |
| `ProxyService` | **abstract**: what the node plugin may count on when it mounts through the proxy |
| `FusedProxy` | **detailed**: client and proxy, two processes; refines `ProxyService` |
| `Plugin` | the life of a plugin process |
| `MC*` | symmetry and input sets for TLC |
| `SizesProofs`, `VolumeOptionsProofs` | theorems about sizes, ids, static handles and topologies |
| `ControllerServerProofs` | theorems about `ControllerServer`, its refinement of `VolumeService`, and `Provisioning` |
| `OperationLockProofs`, `NodeServerProofs`, `KubeletProofs`, `FusedProxyProofs`, `PluginProofs` | theorems about the module of that name |

**ControllerServer.** `pc[h]` says where handler `h` is. The three handlers
share actions but not their order: CreateVolume stores the key
(`NewAdminCredentials`), checks its arguments, takes the lock, then runs
`plist` and perhaps `create`; the other two lock first. The order of the
deferred calls differs accordingly (`ExitWith...`). `LockKey` is the request
name for CreateVolume and the volume id otherwise, as in the code. A command is
one action that may fail before or after it acted; a request the caller has
given up on simply goes on. `DeleteCredentials` may leave its file, and so may
`storeKey` after a failed write: both ignore the error of os.Remove. `Crash`
clears handlers and locks and keeps pools and key files (the key directory is an
emptyDir of the pod).

**Provisioning.** A claim is wanted, bound, perhaps grown, released, gone. A
sidecar has one call at a time for a volume and repeats it until OK. A call that
timed out is forgotten while its handler goes on; `late` remembers that such a
call took a lock, which it may do after any number of later calls.

**VolumeOptions.** A volume id is its length and, for each offset, the number
that the four characters there stand for; a field is a span of offsets. That is
all the decoder looks at, and it keeps what matters: which part of the id each
request takes for the pool, when a slice is out of bounds (a panic), when an id
is refused and tried as a static volume. Everywhere else an id is the pair of
cluster and name; `SamePool` is why that is sound.

**NodeServer.** A path has a stack of mounts, each `live` (FastCFS, daemon
running), `dead` (daemon gone, ENOTCONN) or `bare` (bind of a plain directory,
which `IsLikelyNotMountPoint` cannot see). Every system call or command that
the table can change around is an action: `ensureMountPoint` is
`InspectMountPoint`, `ReadMountPoint`, `UnmountCorrupted`, `MakeDir`; `Mount`
is `BindMount` then `RemountBind` (the vendored mounter runs two commands).
`Crash` kills the daemons when they run in the plugin's container
(`Proxy = FALSE`), and with the proxy leaves it a mount that nobody waits for
(`owed`). `DaemonDies`, `ProxyCrash` and the kubelet's handling of directories
are the environment. What `fcfs_fused restart` does is external: the old daemon
is stopped, with or without its own mount going away, and a new one mounts or
fails. Requests come in any order; failures the code passes on as Internal
(stat, mkdir, mount, umount, rmdir errors) may happen at any time, and so may
an error of the ReadDir in `ensureMountPoint`, after which a working mount is
unmounted like a dead one.

**Kubelet.** Replaces the arbitrary requests by the order the node service is
written for: stage, publish per pod, unpublish, unstage, each repeated until it
is answered OK. `belief` is what the kubelet takes each path to be; it only
changes with an OK answer to a call it still waits for. A call can be given up
wherever its handler is. Mostly that is behind the lock, but NodeStageVolume
stats its path before (`validate.go:28`), and a stat of a FUSE mount can hang:
`late` remembers the volumes whose lock was taken for a call already given up.

**FusedProxy.** `cpc` is where the plugin's call for each volume is (dial, call,
wait, return), `spc` where each goroutine of the proxy is. The proxy's handler
keeps the order of its deferred calls: the key goes before the mutex. Either
process may die at any step; a goroutine whose caller is gone works on
(`awaited`). The mapping to `ProxyService` counts such goroutines as restarts
that are owed.

**Plugin.** `conf` is the command line, drawn from `Configs`; the actions follow
`main`, `Run` and `serve` up to `Listen`, then `logGRPC` answers the calls.
`Calls` are all calls of the CSI interface; a request that names a volume may be
refused before its handler does anything, or have an id that the decoder reads
beyond its end (`Requests`; `VolumeOptions` has the decoder). `klog.Fatal` and a
panic, for which there is no recover, end the process (`Exit`), the socket file
stays. What the handlers do otherwise is in the modules above ("Handled").

Abstractions: paths are derived from volume and pod; answers are codes,
capacities and capabilities; messages, logging and mount flags other than `ro`
are left out. The node's own key file is part of the steps that need it, which
may fail.

## 3. Runs

| Run | Result | Shows |
|---|---|---|
| `controller_safety` | pass | three handlers, one dynamic and one static volume, crash: locks exact and keys private on every return path, which all try to remove their key; check-then-create safe |
| `provisioning` | pass | a claim's life with two faults: it has what it was told unless a forgotten call came late, only such a call shrinks a pool, every claim is served; refinement of `VolumeService` with liveness; locks are freed |
| `volume_options` | pass | all int64 sizes scaled, identifiers around the length limit, lists of topologies, handles: see the properties' comments |
| `static_handles` | violation | short handles and handles that begin with hexadecimal digits panic |
| `operation_lock` | pass | the counters of parallel operations are exact for any callers; deletions and expansions do not start beside them |
| `node_direct` | pass | no request buries a FastCFS mount or acts on a stale look at its path, OK answers are true, one operation per volume |
| `node_proxy` | pass | proxy crashes and late mounts: a path has no mount when its unstaging or unpublication is decided; every request is answered |
| `node_readonly`, `node_unpublish` | violation | see the findings in `PROJECT.json` |
| `kubelet` | pass | two pods, two faults: beliefs are true and there is no restart and no unstaging under a pod, unless a forgotten call came late; pods get their volumes and everything is cleaned up, but for three dead ends; without a fault none of these and every call OK |
| `fused_proxy` | pass | two volumes, two goroutines: one command at a time, every return path tries to remove its key, refinement of `ProxyService` with liveness |
| `plugin` | pass | over command lines and node labels: role, topology, survival of all calls but two kinds, recovery |

The lock-key mismatch of the controller is harmless for the cluster:
`CheckedAbsent` holds because an absent pool can only be changed by a creation,
and creations of one name exclude each other; the refinement shows the same.
In `node_direct` the per-volume lock carries `AnswersHold` and `ChecksHold`: a
path that ensureMountPoint found mounted still is when it is unmounted, and one
found free still is when `fcfs_fused` or the bind meets it. That the unmount
takes away a dead mount only cannot be said, see below. With the proxy both fail (a mount that is still owed appears
after an unstaging was answered), which is why `node_proxy` does not list them;
`NothingBuried` speaks of target paths only there and is proved (`Unburied`). What is left of the
answers is `UnmountedWhenDecided`: the OK of an unstaging or unpublication is
true when it is decided. For the same reason `kubelet` is about a plugin without
the proxy.

**Faults.** In `Provisioning` and `Kubelet`, deaths, timeouts and failures of
commands use up a budget, `MaxFaults`, so that retries can be shown to get
through. An error counts as a fault only if the same step could have gone well
(`Spontaneous`): what fails of necessity, because of what the mount table or the
cluster is, costs nothing and fails again at every retry. `Provisioning` asks
this with ENABLED; `Kubelet` with `CanSucceed`, which says for each label what
the step needs of the mount table (TLC confirmed on the instance of `kubelet`
that the two forms agree wherever a step can err), so that it can be proved about. A key file that
stays because os.Remove failed is a fault of `Provisioning` too.

**The dead ends.** `CleansUp` and `PodsGetVolumes` name what no retry gets over:
(1) a staging mount whose daemon died: publishing fails, and NodeUnstageVolume
answers Internal (only a new NodeStageVolume would unmount it, and the kubelet
does not stage what it takes to be staged; a forgotten unstaging that comes late
and removes the path has the same effect); (2) a target path that is not
mounted, which NodeUnpublishVolume cannot unmount (finding `node_unpublish`);
(3) a staging path that is gone, for which NodeUnstageVolume answers NotFound.
`DeadEndsNeedFaults` says that none of them comes about without a fault, and
`FaultlessCallsSucceed` that then no call fails at all: none of the handlers'
checks of the mount table refuses what the calls before it have left there.

**Late calls.** `fcfs_fused ... restart` kills the daemon whose mount every pod
of the volume is bound to. `UsedVolumesLeftAlone` says that no call of
NodeStageVolume or NodeUnstageVolume, one that the kubelet gave up while it had
the lock included, holds the lock while a pod has the volume mounted. The
exception, here and in `BeliefsHold`, is a volume in `late`, and it is needed:
without it TLC finds a NodeStageVolume that is given up in front of the lock,
the pod removed and the volume unstaged with OK, and then the forgotten call
mounting it again; or the forgotten call having the lock of a volume that a retry
has staged and pods use, where an error of ReadDir makes it unmount. The same goes for NodePublishVolume, which then binds a directory
that is no longer staged. Liveness has no such exception: `CleansUp` and
`PodsGetVolumes` are about what the kubelet comes to believe, also after that.

**Seen while modelling**, and not a run:
* CreateVolume locks the request name, DeleteVolume and ControllerExpandVolume
  the volume id, so two operations on one volume overlap although
  `idlocker.go:32` speaks of volume ids with an ongoing operation.
* CreateVolume answers a pool it finds with the size of the request
  (`controllerserver.go:116`, with a TODO at 100-103). `PromisesKept` shows that
  a claim that keeps its size until it is bound is told the truth.
* A 0-byte expansion (`limit_bytes` only) sets a quota of `0g` and reports
  1 GiB. Beyond 2^53 bytes CreateVolume can hand out a byte less than required,
  and in the last GiB of int64 the product wraps to a negative size
  (`RoundingErrorBounded` stops there).
* NodeGetVolumeStats checks the mount before it has the lock and can answer with
  the usage of the host's file system.
* A call that was forgotten before it took its lock can shrink a pool or bring a
  deleted one back (`late` in `Provisioning`).
* `Len` counts three of the five separators (`volid.go:46`), so ids of up to 130
  bytes pass the limit of 128 (`maxVolIDLen`); `SamePool` covers them.
* A node call that was given up before it took its lock can mount a volume that
  was unstaged, unmount one that is in use, or bind a plain directory
  (`late` in `Kubelet`).
* After any error of ReadDir `ensureMountPoint` unmounts the path
  (`nodeserver.go:325-332`), also when the daemon works and the error passes.
* ControllerExpandVolume asks for no capability, so an ephemeral controller, which
  refuses to create and delete volumes, expands them.
* With the proxy, a plugin that dies while its mount is at the proxy leaves that
  mount to come: the volume can be unstaged with OK and be mounted after that.
* The last topology of the preferred list wins, while `csi.pb.go:1588-1589` asks
  for the first one that can be met.
* `ParseEndpoint` accepts `UNIX://`, which `net.Listen` refuses and for which no
  socket file is removed. Without a linked-in version GetPluginInfo answers
  Unavailable. GetPluginCapabilities names CONTROLLER_SERVICE in a node process
  as well, where a controller call then ends the process (`NoReceiver`).
* Every mount through the proxy dials a connection that is never closed.
* Two deletions or two expansions share one entry of `OperationLock`, so the
  first release lets other operations in, and a snapshot creation does not look
  for a running expansion although an expansion looks for a creation.

**Bounds.** Handlers: three where lock and key races matter (holder, waiter and
one that was aborted), two elsewhere, since every property relates at most two
handlers and each handler serves any number of requests in turn. Volumes: one
per lock string in play; operations on different volumes share only the table,
the key directory and the proxy's mutex (two volumes in `fused_proxy`).
`KeyFiles` has a name per handler, one more in `provisioning` for a leaked file,
so that an orphan does not look like a failing TempFile for ever; in
`controller_safety` leaked files use the names up and NewAdminCredentials then
still has its error branch. `MaxFaults` = 2:
one fault to get into trouble and one to disturb the way out. `GiB` is 2 or 16
with `FloatExact` and `IntLimit` scaled so that both limits lie inside the input
sets; `MaxVolIDLen` = 20 and `Word` = 64 keep the order of the real 128 and
2^16. Three expansion sizes let a late one be smaller than two others.
`MaxStack` = 2 allows a mount to be stacked on another, the first illegal case;
`MaxOwed` = 1 is one mount owed by the proxy per volume; `MaxConns` = 2 is
reached. `Configs` has all combinations of the role flags and, around a sound
command line, each way to spoil one.

**Fairness.** Weak fairness of each handler's steps: a goroutine that can run
does run and the commands end (nothing in the code bounds them). In `FusedProxy`
the goroutines get strong fairness for the mutex, because `sync.Mutex` hands
itself to a waiter that has starved; nothing makes a proxy that is down start
again, and calls are answered all the same since dialling has a timeout.
`Provisioning`: the sidecars go on calling (weak). `Kubelet`: its calls for the
device weak, those for each pod strong, since its reconciler passes all pods
while a call for another one may disable this one's for a while. `Plugin`: the
process runs, Kubernetes restarts what ended, the liveness probe goes on. No
fairness for arrivals, crashes, daemons, pods or labels; `Recovers` assumes that
the labels are there in the end.

## 4. Proofs

All proofs are for every value of the constants, under the named assumptions of
the modules: `SizesAssumption`, `UlpAssumption`, `VolumeIDAssumption`,
`VolumeOptionsAssumption`, `RequestsAssumption`, `KeyAssumption`,
`ProvisioningAssumption`, `OperationLockAssumption`, `NodeAssumption`,
`KubeletAssumption`, `FusedProxyAssumption`, `PluginAssumption`. They say that
sets of values that are meant to differ do, that numbers are numbers, and the
relations between the widths that the code has (a unit of 2^30 bytes is a whole
number of the distances of neighbouring floats, an id fits the 16-bit cursor).
Every inductive invariant below was first checked by TLC on the instances of
the runs.

* `SizesProofs`: quotient lemmas; RoundUpGiB and the ceiling give the least
  sufficient multiple; within exact floats RoundOffBytes is RoundUpGiB times
  the unit; rounding twice changes nothing. Beyond them, rounding to a float
  never passes a multiple of the distance, so never a whole unit, which bounds
  the error on both sides and excludes the overflow (`RoundOffBeyondExact`).
* `VolumeOptionsProofs`: `SizesAreTruthful` and `RoundingBounded` follow step by
  step from those. `IdLeadsToPool` rests on `RoundTrip`: for an accepted
  identifier the three lengths are read back at the offsets where they were
  written and the cursor never wraps. Its inductive invariant (`Identified`)
  adds to `SamePool` that the id is what ComposeCSIID made and was accepted,
  which bounds it by the limit and the two separators that Len leaves out.
  `StaticHandlesStaged`: the decoder stops at the first field of such a handle.
  `Placed`: when every topology has every label, the last index that has a label
  is the same for all labels.
* `ControllerServerProofs`: `TypeCorrect` carries `HandlerShape`, which ties
  request, answer and key file to the program counter; without it TypeOK is not
  inductive. `Mutex` and `NoLockLeak` come from one inductive invariant (table
  = locks of holders, holders distinct): each alone is not inductive, since
  Release removes an entry whoever holds it. `KeysPrivate` and `NoKeyLeak` add
  that a handler has a key exactly between storing and deleting it and that
  keys are distinct: a file without a handler is then the one of a handler that
  has just tried to remove it. `CheckThenActSafe` uses MutualExclusion: only a creation
  of the same name could make the pool appear. `Refinement`: the initial states and every step map to
  `VolumeService` (the mapping is the identity on pools, req, reply).
* The same module for `Provisioning`: `ClaimsKept` and `NoShrinking`. The
  sidecars' steps are steps of `ControllerServer`, so its invariants are
  inherited. What is added is in two parts. `CallsInv` holds always: which
  calls can be under way at each stage of a claim, one awaited call of each
  kind, and the awaited expansion is the largest so far. `OrderInv` holds
  until a forgotten call takes a lock late: a creation with the lock acts for a
  claim that is still wanted, an expansion with the lock asks for more than was
  told and than the pool has, an OK that is awaited still holds, and nobody with
  the lock is about to do the same again (`Settled`). The last one is the heart:
  when an answer arrives, the lock has kept every other call of its kind out
  since the answer was decided. The steps of a handler are first reduced to six
  effects (`WorkEffects`), which the callers cannot tell further apart.
* `OperationLockProofs`: a counter is the cardinality of the callers inside;
  `ExclusiveStart` follows, since a count of 0 means the empty set.
* `NodeServerProofs`: `LockInv` (types, shape of a handler, lock table = volumes
  of holders, holders distinct) gives `TypeCorrect` and `Locks`. `HostInv` says
  what is on each path (`PathsInv`: FastCFS is mounted at most once, on top, and
  only on a directory that is there),
  what the handler with the lock may conclude from the check it has made
  (`ViewsInv`, one clause per label) and that without the proxy no restart comes late
  (`NoDebts`). Guarded paths are those no late mount of the proxy can
  reach: all of them without the proxy, the target paths with it. `Unburied`
  and `GuardedRequests` hold in both modes; `AnswersCorrect` and `ChecksCorrect`
  assume `~Proxy`, and need to: with the proxy a mount whose call timed out can
  appear on a staging path after the lock was released. `GoneWhenDecided` needs
  no view and so covers the staging paths with the proxy too: the step that
  decides looks at the path itself, a mounted path is there to be looked at, and
  `PathsInv` excludes a bare bind on a staging path, which that look would miss.
* `KubeletProofs`: the kubelet's steps are steps of `NodeServer`
  (`KubeletImplements`), so `LockInv` and `HostInv` are inherited. `KubeletInv`
  adds which calls are awaited (`CallsInv`), what the kubelet believes of a path
  under a call (`AsksInv`, about the awaited calls and those that hold the lock
  of a volume not in `late`: such a lock was taken while the call was awaited), what an OK on its way to it says
  (`AnswersInv`: it stays true although the lock is free again, since nobody has
  taken it since) and that no plain directory is ever bound into a pod
  (`NothingBare`, again but for `late`). That gives `BeliefsCorrect`. `FaultInv` adds two things. As
  long as the budget is untouched the node is `Healthy`: no lock was taken late, no
  mount is dead, every
  handler works for a call the kubelet waits for and has found and left its path
  as it should be at its label (`OnCourse`), and a path in doubt has such a
  call. A step that errs from there would be one that `CanSucceed`, so it would
  be charged. `DeadEndsCorrect` and `CallsSucceed` follow. Whatever the budget,
  a volume is published, or may be, only where it is staged (`StagedFirst`);
  since a stage or unstage call that took its lock in time means that its volume is
  in doubt, this gives `NoRestartUnderPods`.
* `FusedProxyProofs`: `OneCommandAtATime` (the goroutine that runs the command
  owns the mutex), `NoKeyLeak`, and `Refinement` to the safety part of
  `ProxyService`, where the restarts a dead plugin still owes are counted by the
  goroutines it left behind.
* `PluginProofs`: `PluginInv` ties the registered servers and capabilities to the
  flags of the deployment, and the last answer to both. `SurvivesCalls` needs it
  for the missing services and for the deletions of an ephemeral controller,
  which are refused before the id is decoded.

The type invariants of `NodeServer` and `FusedProxy`, and `NothingBuried` with
the proxy, are left to the proofs and not part of a run.

Only model-checked, because the prover does not reach it: liveness (`LocksFreed`,
`ClaimsServed`, `Answered`, `PodsGetVolumes`, `CleansUp`, `Recovers`, the fairness
of `ImplementsService` and `ImplementsProxyService`). Every invariant and every
action property of a passing run is proved.

## 5. Plan

All invariants and action properties of the passing runs are proved. Left: the
kubelet over a node service with the proxy, where what it believes of a staging
path can become false and the properties of `Kubelet` would have to name the
mounts that are still owed; and how many dead ends a given number of faults can
bring about.

Not modelled: version, flag parsing and logging (no state), generated protocol
code, the parts of `csi-common` that only tests use (`Stop`, `ForceStop`, test
mode, `Run...Server`). ValidateVolumeCapabilities and the calls that answer
Unimplemented have no state and are only calls that a `Plugin` survives.
