-------------------------- MODULE NodeServerProofs --------------------------
(***************************************************************************)
(* Proofs about the node service, for any number of handlers, volumes and  *)
(* pods and any depth of the stacks of mounts.                             *)
(***************************************************************************)
EXTENDS NodeServer, FiniteSetTheorems, SequenceTheorems, TLAPS

-----------------------------------------------------------------------------
(* Stacks of mounts                                                        *)

Stacks == Seq(Mount)

\* FastCFS is at most the top of the stack.
TopOnly(stack) == \A i \in DOMAIN stack : stack[i].fs # "bare" => i = Len(stack)

\* No bind of a plain directory is in the stack.
NoBare(stack) == \A i \in DOMAIN stack : stack[i].fs # "bare"

LEMMA TopValues ==
    ASSUME NEW s \in Stacks
    PROVE  /\ Top(s) \in {"none", "live", "dead", "bare"}
           /\ Top(s) = "none" <=> s = <<>>
           /\ s # <<>> => Len(s) \in DOMAIN s /\ Top(s) = s[Len(s)].fs
           /\ NoBare(s) => Top(s) # "bare"
<1>1. s # <<>> => Len(s) \in 1..Len(s) BY EmptySeq, LenProperties DEF Stacks
<1>2. s # <<>> => s[Len(s)] \in Mount BY <1>1, ElementOfSeq DEF Stacks
<1>3. DOMAIN s = 1..Len(s) BY LenProperties DEF Stacks
<1>4. QED BY <1>1, <1>2, <1>3 DEF Top, Mount, FileSystems, NoBare

LEMMA PopStack ==
    ASSUME NEW s \in Stacks, s # <<>>
    PROVE  /\ Pop(s) \in Stacks
           /\ TopOnly(s) => TopOnly(Pop(s)) /\ Top(Pop(s)) \in {"none", "bare"}
           /\ NoBare(s) => NoBare(Pop(s))
           /\ TopOnly(s) /\ NoBare(s) => Pop(s) = <<>>
<1> DEFINE n == Len(s) - 1
<1>1. Len(s) \in Nat /\ Len(s) > 0 /\ DOMAIN s = 1..Len(s) BY EmptySeq, LenProperties DEF Stacks
<1>2. \A i \in 1..n : s[i] \in Mount BY <1>1, ElementOfSeq DEF Stacks
<1>3. /\ Pop(s) \in Seq(Mount) /\ Len(Pop(s)) = n
      /\ \A i \in 1..n : Pop(s)[i] = s[i]
  BY <1>1, <1>2, SubSeqProperties DEF Pop
<1>4. DOMAIN Pop(s) = 1..n BY <1>3, LenProperties
<1>5. TopOnly(s) => \A i \in 1..n : Pop(s)[i].fs = "bare"
  BY <1>1, <1>3 DEF TopOnly
<1>6. TopOnly(s) => TopOnly(Pop(s)) /\ Top(Pop(s)) \in {"none", "bare"}
  <2>1. Pop(s) # <<>> => Len(Pop(s)) \in 1..n BY <1>1, <1>3, EmptySeq
  <2>2. QED BY <1>3, <1>4, <1>5, <2>1 DEF TopOnly, Top
<1>7. NoBare(s) => NoBare(Pop(s)) BY <1>1, <1>3, <1>4 DEF NoBare
<1>8. TopOnly(s) /\ NoBare(s) => Pop(s) = <<>>
  <2>1. TopOnly(s) /\ NoBare(s) => n = 0
    <3>1. SUFFICES ASSUME TopOnly(s), NoBare(s), n # 0 PROVE FALSE BY <1>1
    <3>2. 1 \in DOMAIN s /\ 1 # Len(s) BY <1>1, <3>1
    <3>3. QED BY <3>1, <3>2 DEF TopOnly, NoBare
  <2>2. QED BY <1>3, <2>1, EmptySeq
<1>9. QED BY <1>3, <1>6, <1>7, <1>8 DEF Stacks

LEMMA AppendStack ==
    ASSUME NEW s \in Stacks, NEW fs \in FileSystems
    PROVE  /\ Append(s, NewMount(fs)) \in Stacks
           /\ Append(s, NewMount(fs)) # <<>>
           /\ Top(Append(s, NewMount(fs))) = fs
           /\ TopOnly(s) /\ Top(s) \in {"none", "bare"} => TopOnly(Append(s, NewMount(fs)))
           /\ NoBare(s) /\ fs # "bare" => NoBare(Append(s, NewMount(fs)))
<1> DEFINE m == NewMount(fs)
           t == Append(s, m)
<1>1. m \in Mount /\ m.fs = fs BY DEF NewMount, Mount
<1>2. /\ t \in Seq(Mount) /\ t # <<>> /\ Len(t) = Len(s) + 1 /\ t[Len(s) + 1] = m
      /\ \A i \in 1..Len(s) : t[i] = s[i]
  BY <1>1, AppendProperties DEF Stacks
<1>3. Len(s) \in Nat /\ DOMAIN s = 1..Len(s) /\ DOMAIN t = 1..(Len(s) + 1)
  BY <1>2, LenProperties DEF Stacks
<1>4. Top(t) = fs BY <1>1, <1>2 DEF Top
<1>5. ASSUME TopOnly(s), Top(s) \in {"none", "bare"} PROVE TopOnly(t)
  <2>1. \A i \in 1..Len(s) : s[i].fs = "bare"
    BY <1>3, <1>5, TopValues DEF TopOnly
  <2>2. QED BY <1>2, <1>3, <2>1 DEF TopOnly
<1>6. NoBare(s) /\ fs # "bare" => NoBare(t)
  <2>1. \A i \in 1..(Len(s) + 1) : i = Len(s) + 1 \/ i \in 1..Len(s) BY <1>3
  <2>2. QED BY <1>1, <1>2, <1>3, <2>1 DEF NoBare
<1>7. QED BY <1>2, <1>4, <1>5, <1>6 DEF Stacks

LEMMA OrphanedStack ==
    ASSUME NEW s \in Stacks
    PROVE  /\ Orphaned(s) \in Stacks
           /\ Orphaned(s) = <<>> <=> s = <<>>
           /\ Top(Orphaned(s)) = IF Top(s) = "live" THEN "dead" ELSE Top(s)
           /\ TopOnly(s) => TopOnly(Orphaned(s))
           /\ NoBare(s) => NoBare(Orphaned(s))
<1> DEFINE t == Orphaned(s)
<1>1. Len(s) \in Nat /\ DOMAIN s = 1..Len(s) /\ \A i \in 1..Len(s) : s[i] \in Mount
  BY LenProperties, ElementOfSeq DEF Stacks
<1>2. /\ DOMAIN t = 1..Len(s)
      /\ \A i \in 1..Len(s) : /\ t[i] \in Mount
                              /\ t[i].fs = IF s[i].fs = "live" THEN "dead" ELSE s[i].fs
  BY <1>1 DEF Orphaned, Mount, FileSystems
<1>3. t \in Seq(Mount) /\ Len(t) = Len(s)
  <2>1. t \in [1..Len(s) -> Mount] BY <1>1, <1>2 DEF Orphaned
  <2>2. QED BY <1>1, <2>1
<1>4. t = <<>> <=> s = <<>> BY <1>3, EmptySeq DEF Stacks
<1>5. Top(t) = IF Top(s) = "live" THEN "dead" ELSE Top(s)
  BY <1>1, <1>2, <1>3, <1>4, TopValues DEF Top
<1>6. TopOnly(s) => TopOnly(t) BY <1>1, <1>2, <1>3 DEF TopOnly, Mount, FileSystems
<1>7. NoBare(s) => NoBare(t) BY <1>1, <1>2 DEF NoBare
<1>8. QED BY <1>3, <1>4, <1>5, <1>6, <1>7 DEF Stacks

LEMMA RemountedStack ==
    ASSUME NEW s \in Stacks, s # <<>>, NEW ro \in BOOLEAN
    PROVE  /\ Remounted(s, ro) \in Stacks
           /\ Remounted(s, ro) # <<>>
           /\ Top(Remounted(s, ro)) = Top(s)
           /\ TopOnly(s) => TopOnly(Remounted(s, ro))
           /\ NoBare(s) => NoBare(Remounted(s, ro))
<1> DEFINE e == [s[Len(s)] EXCEPT !.ro = ro]
           t == [s EXCEPT ![Len(s)] = e]
<1>1. Len(s) \in Nat /\ Len(s) \in 1..Len(s) /\ DOMAIN s = 1..Len(s)
  BY EmptySeq, LenProperties DEF Stacks
<1>2. s[Len(s)] \in Mount BY <1>1, ElementOfSeq DEF Stacks
<1>3. e \in Mount /\ e.fs = s[Len(s)].fs BY <1>2 DEF Mount
<1>4. /\ t \in Seq(Mount) /\ Len(t) = Len(s)
      /\ \A j \in 1..Len(s) : t[j] = IF j = Len(s) THEN e ELSE s[j]
  BY <1>1, <1>3, ExceptSeq DEF Stacks
<1>5. Remounted(s, ro) = t BY DEF Remounted
<1>6. DOMAIN t = 1..Len(s) /\ \A j \in 1..Len(s) : t[j].fs = s[j].fs
  BY <1>3, <1>4, LenProperties
<1>7. t # <<>> BY <1>1, <1>4, EmptySeq
<1> HIDE DEF t
<1>8. QED BY <1>1, <1>4, <1>5, <1>6, <1>7 DEF Stacks, Top, TopOnly, NoBare

\* Setting the flags of a path without a mount changes nothing.
LEMMA RemountedType ==
    ASSUME NEW s \in Stacks, NEW ro \in BOOLEAN
    PROVE  Remounted(s, ro) \in Stacks
<1>1. CASE s = <<>>
  <2>1. Remounted(s, ro) = <<>> BY <1>1 DEF Remounted
  <2>2. QED BY <1>1, <2>1
<1>2. QED BY <1>1, RemountedStack

-----------------------------------------------------------------------------
(* Requests and paths                                                      *)

LEMMA RequestFacts ==
    ASSUME NEW r \in Requests
    PROVE  /\ r.op \in Ops /\ r.path \in Paths /\ VolumeId(r) \in Volumes
           /\ r # NoRequest
           /\ r.op \in {"stage", "unstage"} => r.path = Staging(VolumeId(r))
           /\ r.op \in {"publish", "unpublish"} => r.path \in TargetPaths
           /\ Readonly(r) \in BOOLEAN
<1>1. r.op \in Ops /\ r.path \in Paths BY DEF Requests, Ops, Paths
<1>2. \A p \in Paths : p[1] \in Volumes BY DEF Paths, StagingPaths, TargetPaths, Staging, Target
<1>3. \A p \in StagingPaths : p = Staging(p[1]) BY DEF StagingPaths, Staging
<1>4. r.op \in {"stage", "unstage"} => r.path \in StagingPaths BY DEF Requests
<1>5. r.op \in {"publish", "unpublish"} => r.path \in TargetPaths BY DEF Requests
<1>6. r # NoRequest BY <1>1 DEF NoRequest, Ops
<1>7. QED BY <1>1, <1>2, <1>3, <1>4, <1>5, <1>6 DEF VolumeId, Readonly

LEMMA PathFacts ==
    /\ \A v \in Volumes : Staging(v) \in StagingPaths /\ Staging(v)[1] = v
    /\ \A p \in StagingPaths : p = Staging(p[1]) /\ p[1] \in Volumes
    /\ StagingPaths \cap TargetPaths = {}
    /\ Paths = StagingPaths \cup TargetPaths
  BY NodeAssumption DEF StagingPaths, TargetPaths, Staging, Target, Paths

-----------------------------------------------------------------------------
(* Types and the shape of a handler                                        *)

\* Where a handler can be, given what it serves; its answer is decided
\* exactly when the deferred Release and the return are left.
Shape(h) ==
    /\ pc[h] = "idle" => req[h] = NoRequest
    /\ pc[h] # "idle" => req[h] \in Requests
    /\ pc[h] = "validate" => req[h].op \in {"stage", "stats"}
    /\ pc[h] = "inspect" => req[h].op \in {"stage", "publish", "unstage"}
    /\ pc[h] \in {"readdir", "unmount", "makedir"} => req[h].op \in {"stage", "publish"}
    /\ pc[h] \in {"fuse", "exec"} => req[h].op = "stage"
    /\ pc[h] \in {"bind", "remount", "rmtarget"} => req[h].op = "publish"
    /\ pc[h] \in {"umount", "remove"} => req[h].op = "unpublish"
    /\ pc[h] \in {"cleanup", "rmdir"} => req[h].op = "unstage"
    /\ pc[h] = "statfs" => req[h].op = "stats"
    /\ reply[h] = NoReply <=> pc[h] \notin {"release", "return"}

HandlerShape == \A h \in Handlers : Shape(h)

Control == <<req, reply, pc>>

ControlTypes ==
    /\ req \in [Handlers -> Requests \cup {NoRequest}]
    /\ reply \in [Handlers -> Codes \cup {NoReply}]
    /\ pc \in [Handlers -> Labels]

\* A step of a handler touches its own request, answer and label.
Others(h) ==
    \A g \in Handlers : g # h =>
        req'[g] = req[g] /\ reply'[g] = reply[g] /\ pc'[g] = pc[g]

\* Going on, and the two ways to decide.
LEMMA ContinueControl ==
    ASSUME ControlTypes, NEW h \in Handlers, NEW l \in Labels, Continue(h, l), UNCHANGED req
    PROVE  /\ ControlTypes' /\ Others(h)
           /\ req'[h] = req[h] /\ reply'[h] = reply[h] /\ pc'[h] = l
  BY DEF ControlTypes, Others, Continue, Goto

LEMMA DecideControl ==
    ASSUME ControlTypes, NEW h \in Handlers, NEW c \in Codes,
           Decide(h, c) \/ Refuse(h, c), UNCHANGED req
    PROVE  /\ ControlTypes' /\ Others(h)
           /\ req'[h] = req[h] /\ reply'[h] = c /\ c # NoReply
           /\ Decide(h, c) => pc'[h] = "release"
           /\ Refuse(h, c) => pc'[h] = "return"
           /\ pc'[h] \in {"release", "return"}
<1>1. c # NoReply BY DEF Codes, NoReply
<1>2. CASE Decide(h, c)
  BY <1>1, <1>2 DEF ControlTypes, Others, Decide, Refuse, Goto, Answer, Labels
<1>3. CASE Refuse(h, c)
  BY <1>1, <1>3 DEF ControlTypes, Others, Decide, Refuse, Goto, Answer, Labels
<1>4. QED BY <1>2, <1>3

LEMMA ShownValues ==
    ASSUME mounts \in [Paths -> Stacks], NEW h \in Handlers, req[h] \in Requests
    PROVE  /\ Path(h) \in Paths /\ mounts[Path(h)] \in Stacks
           /\ Shown(h) \in {"missing", "none", "live", "dead", "bare"}
           /\ Shown(h) # "missing" => Path(h) \in dirs /\ Shown(h) = Top(mounts[Path(h)])
<1>1. Path(h) \in Paths BY RequestFacts DEF Path
<1>2. mounts[Path(h)] \in Stacks BY <1>1
<1>3. Top(mounts[Path(h)]) \in {"none", "live", "dead", "bare"} BY <1>2, TopValues
<1>4. QED BY <1>1, <1>2, <1>3 DEF Shown

\* The two checks whose outcome depends on everything a path can show.
LEMMA ValidateOutcome ==
    ASSUME mounts \in [Paths -> Stacks], NEW h \in Handlers, pc[h] # "idle" => req[h] \in Requests,
           Validate(h)
    PROVE  (\E c \in Codes \ {"OK"} : Refuse(h, c)) \/ Continue(h, "lock")
<1>1. {"NotFound", "Internal", "InvalidArgument"} \subseteq Codes \ {"OK"} BY DEF Codes
<1>2. QED BY <1>1 DEF Validate

LEMMA InspectStagingOutcome ==
    ASSUME mounts \in [Paths -> Stacks], NEW h \in Handlers, pc[h] # "idle" => req[h] \in Requests,
           InspectStaging(h)
    PROVE  \/ \E c \in Codes \ {"OK"} : Decide(h, c)
           \/ Shown(h) \in {"none", "bare"} /\ Decide(h, "OK")
           \/ Continue(h, "cleanup")
<1>1. {"NotFound", "Internal"} \subseteq Codes \ {"OK"} BY DEF Codes
<1>2. QED BY <1>1 DEF InspectStaging

\* The control part of every step.
LEMMA StepControl ==
    ASSUME ControlTypes, mounts \in [Paths -> Stacks], HandlerShape,
           NEW h \in Handlers, Receive(h) \/ Step(h)
    PROVE  ControlTypes' /\ Others(h) /\ Shape(h)'
<1>0. Shape(h) BY DEF HandlerShape
<1>s. pc[h] # "idle" => req[h] \in Requests BY <1>0 DEF Shape
<1>c. /\ {"OK", "InvalidArgument", "NotFound", "Aborted", "Internal"} = Codes
      /\ \A c \in Codes : c # NoReply
  BY DEF Codes, NoReply
<1>d. ASSUME NEW c \in Codes, Decide(h, c) \/ Refuse(h, c), UNCHANGED req, pc[h] # "idle"
      PROVE  ControlTypes' /\ Others(h) /\ Shape(h)'
  <2>1. /\ ControlTypes' /\ Others(h) /\ req'[h] = req[h] /\ reply'[h] = c /\ c # NoReply
        /\ pc'[h] \in {"release", "return"}
    BY <1>d, DecideControl
  <2>2. QED BY <1>0, <1>d, <2>1 DEF Shape
<1>1. CASE Receive(h)
  <2>1. PICK r \in Requests : Accept(h, r) BY <1>1 DEF Receive
  <2>2. r.op \in Ops BY RequestFacts
  <2>3. /\ req'[h] = r /\ reply'[h] = reply[h]
        /\ pc'[h] = IF r.op \in {"stage", "stats"} THEN "validate" ELSE "lock"
    BY <2>1 DEF Accept, Goto, ControlTypes
  <2>4. ControlTypes' /\ Others(h)
    BY <2>1 DEF Accept, Goto, ControlTypes, Others, Labels
  <2>5. QED BY <1>0, <2>1, <2>2, <2>3, <2>4 DEF Shape, Accept
<1>2. CASE Return(h)
  BY <1>0, <1>2 DEF Return, Goto, ControlTypes, Others, Shape, Labels
<1>3. CASE ReleaseLock(h)
  BY <1>0, <1>3 DEF ReleaseLock, Goto, ControlTypes, Others, Shape, Labels
<1>4. ASSUME NEW l \in Labels, Continue(h, l), UNCHANGED req, pc[h] \notin {"idle", "release", "return"},
             l \notin {"idle", "release", "return", "validate"},
             l = "inspect" => req[h].op \in {"stage", "publish", "unstage"},
             l \in {"readdir", "unmount", "makedir"} => req[h].op \in {"stage", "publish"},
             l \in {"fuse", "exec"} => req[h].op = "stage",
             l \in {"bind", "remount", "rmtarget"} => req[h].op = "publish",
             l \in {"umount", "remove"} => req[h].op = "unpublish",
             l \in {"cleanup", "rmdir"} => req[h].op = "unstage",
             l = "statfs" => req[h].op = "stats"
      PROVE  ControlTypes' /\ Others(h) /\ Shape(h)'
  <2>1. /\ ControlTypes' /\ Others(h) /\ req'[h] = req[h] /\ reply'[h] = reply[h] /\ pc'[h] = l
    BY <1>4, ContinueControl
  <2>2. QED BY <1>0, <1>4, <2>1 DEF Shape
<1>5. CASE RejectArguments(h) \/ AbortBusy(h)
  BY <1>5, <1>c, <1>d DEF RejectArguments, AbortBusy
<1>6. CASE Validate(h)
  <2>1. \/ \E c \in Codes : Refuse(h, c)
        \/ Continue(h, "lock")
    BY <1>6, <1>s, ValidateOutcome
  <2>2. QED BY <1>4, <1>6, <1>d, <2>1 DEF Validate, Labels
<1>7. CASE AcquireLock(h)
  <2>1. req[h].op \in Ops BY <1>0, <1>7, RequestFacts DEF Shape, AcquireLock
  <2>2. PICK l \in {"umount", "statfs", "inspect"} :
          /\ Continue(h, l)
          /\ l = "umount" <=> req[h].op = "unpublish"
          /\ l = "statfs" <=> req[h].op = "stats"
    BY <1>7 DEF AcquireLock
  <2>3. QED BY <1>4, <1>7, <2>1, <2>2 DEF AcquireLock, Labels, Ops
<1>8. CASE InspectMountPoint(h)
  BY <1>4, <1>8, <1>c, <1>d DEF InspectMountPoint, Labels
<1>9. CASE ReadMountPoint(h)
  BY <1>0, <1>4, <1>9, <1>c, <1>d DEF ReadMountPoint, Labels, Shape
<1>10. CASE UnmountCorrupted(h)
  BY <1>10, <1>c, <1>d DEF UnmountCorrupted
<1>11. CASE MakeDir(h)
  BY <1>0, <1>4, <1>11, <1>c, <1>d DEF MakeDir, Labels, Shape
<1>12. CASE FcfsMount(h)
  BY <1>0, <1>4, <1>12, <1>c, <1>d DEF FcfsMount, Labels, Shape
<1>13. CASE ExecFcfsFused(h)
  BY <1>13, <1>c, <1>d DEF ExecFcfsFused
<1>14. CASE BindMount(h)
  BY <1>0, <1>4, <1>14 DEF BindMount, Labels, Shape
<1>15. CASE RemountBind(h)
  BY <1>0, <1>4, <1>15, <1>c, <1>d DEF RemountBind, Labels, Shape
<1>16. CASE RemoveTarget(h)
  BY <1>16, <1>c, <1>d DEF RemoveTarget
<1>17. CASE UnmountVolume(h)
  BY <1>0, <1>4, <1>17, <1>c, <1>d DEF UnmountVolume, Labels, Shape
<1>18. CASE RemoveUnpublished(h)
  BY <1>18, <1>c, <1>d DEF RemoveUnpublished
<1>19. CASE InspectStaging(h)
  <2>1. \/ \E c \in Codes : Decide(h, c)
        \/ Continue(h, "cleanup")
    BY <1>19, <1>c, <1>s, InspectStagingOutcome
  <2>2. QED BY <1>4, <1>19, <1>d, <2>1 DEF InspectStaging, Labels
<1>20. CASE CleanupMountPoint(h)
  BY <1>0, <1>4, <1>20, <1>c, <1>d DEF CleanupMountPoint, Labels, Shape
<1>21. CASE RemoveCleaned(h)
  BY <1>21, <1>c, <1>d DEF RemoveCleaned
<1>22. CASE StatFS(h)
  BY <1>22, <1>c, <1>d DEF StatFS
<1>23. QED
  BY <1>1, <1>2, <1>3, <1>5, <1>6, <1>7, <1>8, <1>9, <1>10, <1>11, <1>12, <1>13, <1>14,
     <1>15, <1>16, <1>17, <1>18, <1>19, <1>20, <1>21, <1>22 DEF Step, Work

-----------------------------------------------------------------------------
(* What the steps do to the host                                           *)

\* A restart of the daemon of v orphans the binds of the volume; on its
\* staging path it may also take the daemon's own mount away and put a new
\* one there.
RestartResult(v, base, mounted) ==
    /\ \A p \in Paths : p[1] # v => mounts'[p] = mounts[p]
    /\ \A p \in Paths : p[1] = v /\ p # Staging(v) => mounts'[p] = Orphaned(mounts[p])
    /\ \/ base = Orphaned(mounts[Staging(v)])
       \/ Top(mounts[Staging(v)]) = "live" /\ base = Pop(Orphaned(mounts[Staging(v)]))
    /\ mounts'[Staging(v)] = IF mounted THEN Append(base, NewMount("live")) ELSE base
    /\ mounted => Staging(v) \in dirs

LEMMA RestartEffect ==
    ASSUME mounts \in [Paths -> Stacks], NEW v \in Volumes, NEW mounted \in BOOLEAN,
           FcfsFusedRestart(v, mounted)
    PROVE  /\ mounts' \in [Paths -> Stacks]
           /\ \E base \in Stacks : RestartResult(v, base, mounted)
<1> DEFINE s == Staging(v)
<1>1. s \in Paths /\ s[1] = v BY PathFacts
<1>2. \A p \in Paths : Orphaned(mounts[p]) \in Stacks BY OrphanedStack
<1>3. DaemonGone(v) \in [Paths -> Stacks] BY <1>2 DEF DaemonGone
<1>4. /\ \A p \in Paths : p[1] # v => DaemonGone(v)[p] = mounts[p]
      /\ \A p \in Paths : p[1] = v => DaemonGone(v)[p] = Orphaned(mounts[p])
  BY DEF DaemonGone
<1>5. PICK m \in DaemonStopped(v) :
        mounts' = IF mounted THEN [m EXCEPT ![s] = Append(@, NewMount("live"))] ELSE m
  BY DEF FcfsFusedRestart
<1>6. \/ m = DaemonGone(v)
      \/ /\ Top(mounts[s]) = "live"
         /\ m = [DaemonGone(v) EXCEPT ![s] = Pop(@)]
  BY <1>5 DEF DaemonStopped, IsMountPoint
<1>7. Top(mounts[s]) = "live" => Pop(Orphaned(mounts[s])) \in Stacks
  <2>1. SUFFICES ASSUME Top(mounts[s]) = "live" PROVE Pop(Orphaned(mounts[s])) \in Stacks
    OBVIOUS
  <2>2. mounts[s] \in Stacks /\ mounts[s] # <<>> BY <1>1, <2>1 DEF Top
  <2>3. Orphaned(mounts[s]) \in Stacks /\ Orphaned(mounts[s]) # <<>> BY <2>2, OrphanedStack
  <2>4. QED BY <2>3, PopStack
<1>8. /\ m \in [Paths -> Stacks]
      /\ \A p \in Paths : p # s => m[p] = DaemonGone(v)[p]
      /\ \/ m[s] = Orphaned(mounts[s])
         \/ Top(mounts[s]) = "live" /\ m[s] = Pop(Orphaned(mounts[s]))
  BY <1>1, <1>3, <1>4, <1>6, <1>7
<1>9. Append(m[s], NewMount("live")) \in Stacks
  BY <1>1, <1>8, AppendStack DEF FileSystems
<1>10. /\ mounts' \in [Paths -> Stacks]
       /\ \A p \in Paths : p # s => mounts'[p] = m[p]
       /\ mounts'[s] = IF mounted THEN Append(m[s], NewMount("live")) ELSE m[s]
  BY <1>1, <1>5, <1>8, <1>9
<1>11. mounted => s \in dirs BY DEF FcfsFusedRestart
<1>12. RestartResult(v, m[s], mounted)
  BY <1>1, <1>4, <1>8, <1>10, <1>11 DEF RestartResult
<1>13. QED BY <1>1, <1>8, <1>10, <1>12

\* The mounts and directories a step of handler h can touch are those of
\* its path, by the label it is at.
MountEffect(h) ==
    \/ mounts' = mounts
    \/ /\ pc[h] \in {"unmount", "umount", "cleanup"}
       /\ mounts[Path(h)] # <<>> /\ Unmounted(h)
    \/ /\ pc[h] = "exec"
       /\ \E mounted \in BOOLEAN : FcfsFusedRestart(VolumeId(req[h]), mounted)
    \/ /\ pc[h] = "bind" /\ Path(h) \in dirs
       /\ \E fs \in {"live", "bare"} :
             mounts' = [mounts EXCEPT ![Path(h)] = Append(@, NewMount(fs))]
    \/ /\ pc[h] = "remount"
       /\ mounts' = [mounts EXCEPT ![Path(h)] = Remounted(@, Readonly(req[h]))]

DirEffect(h) ==
    \/ dirs' = dirs
    \/ pc[h] \in {"makedir", "fuse"} /\ dirs' = dirs \cup {Path(h)} /\ mounts' = mounts
    \/ HoldsLock(h) /\ Removable(h) /\ dirs' = dirs \ {Path(h)} /\ mounts' = mounts

LEMMA HostEffect ==
    ASSUME mounts \in [Paths -> Stacks], HandlerShape,
           NEW h \in Handlers, Receive(h) \/ Step(h)
    PROVE  MountEffect(h) /\ DirEffect(h) /\ owed' = owed
<1>0. Shape(h) BY DEF HandlerShape
<1>1. CASE Receive(h)
  BY <1>1 DEF Receive, Accept, host, MountEffect, DirEffect
<1>2. CASE \/ Validate(h) \/ AbortBusy(h) \/ AcquireLock(h) \/ InspectMountPoint(h)
           \/ ReadMountPoint(h) \/ InspectStaging(h) \/ StatFS(h) \/ ReleaseLock(h)
           \/ RejectArguments(h) \/ Return(h)
  BY <1>2 DEF Validate, AbortBusy, AcquireLock, InspectMountPoint, ReadMountPoint,
     InspectStaging, StatFS, ReleaseLock, RejectArguments, Return, host,
     MountEffect, DirEffect
<1>3. CASE MakeDir(h) \/ FcfsMount(h)
  BY <1>3 DEF MakeDir, FcfsMount, MountEffect, DirEffect
<1>4. CASE UnmountCorrupted(h) \/ UnmountVolume(h)
  BY <1>4 DEF UnmountCorrupted, UnmountVolume, MountEffect, DirEffect
<1>5. CASE ExecFcfsFused(h)
  BY <1>5 DEF ExecFcfsFused, MountEffect, DirEffect
<1>6. CASE BindMount(h)
  BY <1>6 DEF BindMount, MountEffect, DirEffect
<1>7. CASE RemountBind(h)
  BY <1>7 DEF RemountBind, MountEffect, DirEffect
<1>8. CASE RemoveTarget(h) \/ RemoveUnpublished(h) \/ RemoveCleaned(h)
  BY <1>8 DEF RemoveTarget, RemoveUnpublished, RemoveCleaned, MountEffect, DirEffect, HoldsLock
<1>9. CASE CleanupMountPoint(h)
  <2>1. req[h] \in Requests BY <1>0, <1>9 DEF CleanupMountPoint, Shape
  <2>2. Shown(h) \in {"live", "dead"} => mounts[Path(h)] # <<>>
    BY <2>1, ShownValues, TopValues
  <2>3. owed' = owed BY <1>9 DEF CleanupMountPoint
  <2>4. MountEffect(h) BY <1>9, <2>2 DEF CleanupMountPoint, MountEffect
  <2>5. DirEffect(h) BY <1>9 DEF CleanupMountPoint, DirEffect, HoldsLock
  <2>6. QED BY <2>3, <2>4, <2>5
<1>10. QED
  BY <1>1, <1>2, <1>3, <1>4, <1>5, <1>6, <1>7, <1>8, <1>9 DEF Step, Work

LEMMA HostTypes ==
    ASSUME mounts \in [Paths -> Stacks], dirs \subseteq Paths, HandlerShape,
           NEW h \in Handlers, Receive(h) \/ Step(h)
    PROVE  mounts' \in [Paths -> Stacks] /\ dirs' \subseteq Paths
<1>1. MountEffect(h) /\ DirEffect(h) BY HostEffect
<1>2. CASE mounts' = mounts /\ dirs' = dirs BY <1>2
<1>3. CASE ~(mounts' = mounts /\ dirs' = dirs)
  <2>1. req[h] \in Requests
    BY <1>1, <1>3 DEF MountEffect, DirEffect, HandlerShape, Shape, HoldsLock
  <2>2. Path(h) \in Paths /\ mounts[Path(h)] \in Stacks BY <2>1, ShownValues
  <2>3. VolumeId(req[h]) \in Volumes /\ Readonly(req[h]) \in BOOLEAN BY <2>1, RequestFacts
  <2>4. dirs' \subseteq Paths BY <1>1, <2>2 DEF DirEffect
  <2>5. mounts[Path(h)] # <<>> => Pop(mounts[Path(h)]) \in Stacks BY <2>2, PopStack
  <2>6. \A fs \in {"live", "bare"} : Append(mounts[Path(h)], NewMount(fs)) \in Stacks
    BY <2>2, AppendStack DEF FileSystems
  <2>7. Remounted(mounts[Path(h)], Readonly(req[h])) \in Stacks BY <2>2, <2>3, RemountedType
  <2>8. ASSUME NEW mounted \in BOOLEAN, FcfsFusedRestart(VolumeId(req[h]), mounted)
        PROVE  mounts' \in [Paths -> Stacks]
    BY <2>3, <2>8, RestartEffect
  <2>9. mounts' \in [Paths -> Stacks]
    BY <1>1, <2>2, <2>5, <2>6, <2>7, <2>8 DEF MountEffect, Unmounted
  <2>10. QED BY <2>4, <2>9
<1>4. QED BY <1>2, <1>3

-----------------------------------------------------------------------------
(* What the steps do to the lock table                                     *)

LockEffect(h) ==
    \/ /\ ~HoldsLock(h) /\ HoldsLock(h)'
       /\ req[h] \in Requests /\ req'[h] = req[h]
       /\ VolumeId(req[h]) \notin volumeLocks
       /\ volumeLocks' = volumeLocks \cup {VolumeId(req[h])}
    \/ /\ HoldsLock(h) /\ ~HoldsLock(h)'
       /\ volumeLocks' = volumeLocks \ {VolumeId(req[h])}
    \/ /\ HoldsLock(h)' <=> HoldsLock(h)
       /\ HoldsLock(h) => req'[h] = req[h]
       /\ volumeLocks' = volumeLocks

LEMMA LockStep ==
    ASSUME ControlTypes, mounts \in [Paths -> Stacks], HandlerShape,
           NEW h \in Handlers, Receive(h) \/ Step(h)
    PROVE  LockEffect(h)
<1>0. Shape(h) /\ (pc[h] # "idle" => req[h] \in Requests) BY DEF HandlerShape, Shape
<1>c. {"OK", "InvalidArgument", "NotFound", "Aborted", "Internal"} = Codes BY DEF Codes
<1>1. CASE Receive(h)
  BY <1>1 DEF Receive, Accept, Goto, ControlTypes, LockEffect, HoldsLock
<1>2. CASE Return(h)
  BY <1>2 DEF Return, Goto, ControlTypes, LockEffect, HoldsLock
<1>3. CASE ReleaseLock(h)
  BY <1>3 DEF ReleaseLock, Release, Goto, ControlTypes, LockEffect, HoldsLock
<1>4. CASE AcquireLock(h)
  <2>1. PICK l \in {"umount", "statfs", "inspect"} : Continue(h, l)
    BY <1>4 DEF AcquireLock
  <2>2. pc'[h] = l BY <2>1 DEF Continue, Goto, ControlTypes
  <2>3. QED BY <1>0, <1>4, <2>2 DEF AcquireLock, TryAcquire, Acquired, LockEffect, HoldsLock
<1>5. ASSUME pc[h] \in {"validate", "lock"}, UNCHANGED <<req, volumeLocks>>,
             (\E c \in Codes : Refuse(h, c)) \/ Continue(h, "lock")
      PROVE  LockEffect(h)
  <2>1. pc'[h] \in {"return", "lock"} BY <1>5 DEF Refuse, Continue, Goto, ControlTypes
  <2>2. QED BY <1>5, <2>1 DEF LockEffect, HoldsLock
<1>6. CASE Validate(h) \/ AbortBusy(h) \/ RejectArguments(h)
  BY <1>0, <1>5, <1>6, <1>c, ValidateOutcome DEF Validate, AbortBusy, RejectArguments
<1>7. ASSUME HoldsLock(h), UNCHANGED <<req, volumeLocks>>,
             \/ \E c \in Codes : Decide(h, c)
             \/ \E l \in Labels \ {"idle", "validate", "lock", "return"} : Continue(h, l)
      PROVE  LockEffect(h)
  <2>1. pc'[h] \notin {"idle", "validate", "lock", "return"}
    BY <1>7 DEF Decide, Continue, Goto, ControlTypes
  <2>2. QED BY <1>7, <2>1 DEF LockEffect, HoldsLock
<1>l. {"readdir", "unmount", "makedir", "fuse", "exec", "bind", "remount", "rmtarget", "remove",
       "cleanup", "rmdir"} \subseteq Labels \ {"idle", "validate", "lock", "return"}
  BY DEF Labels
<1>8. CASE InspectMountPoint(h) \/ ReadMountPoint(h) \/ UnmountCorrupted(h)
  BY <1>7, <1>8, <1>c, <1>l DEF InspectMountPoint, ReadMountPoint, UnmountCorrupted, HoldsLock
<1>9. CASE MakeDir(h) \/ FcfsMount(h) \/ ExecFcfsFused(h)
  BY <1>7, <1>9, <1>c, <1>l DEF MakeDir, FcfsMount, ExecFcfsFused, HoldsLock
<1>10. CASE BindMount(h) \/ RemountBind(h) \/ RemoveTarget(h)
  BY <1>7, <1>10, <1>c, <1>l DEF BindMount, RemountBind, RemoveTarget, HoldsLock
<1>11. CASE UnmountVolume(h) \/ RemoveUnpublished(h) \/ StatFS(h)
  BY <1>7, <1>11, <1>c, <1>l DEF UnmountVolume, RemoveUnpublished, StatFS, HoldsLock
<1>12. CASE CleanupMountPoint(h) \/ RemoveCleaned(h)
  BY <1>7, <1>12, <1>c, <1>l DEF CleanupMountPoint, RemoveCleaned, HoldsLock
<1>13. CASE InspectStaging(h)
  <2>1. (\E c \in Codes : Decide(h, c)) \/ Continue(h, "cleanup")
    BY <1>0, <1>13, <1>c, InspectStagingOutcome
  <2>2. QED BY <1>7, <1>13, <1>l, <2>1 DEF InspectStaging, HoldsLock
<1>14. QED
  BY <1>1, <1>2, <1>3, <1>4, <1>6, <1>8, <1>9, <1>10, <1>11, <1>12, <1>13 DEF Step, Work

-----------------------------------------------------------------------------
(* Types and locks                                                         *)

LockInv == TypeOK /\ HandlerShape /\ OneOperationPerVolume

LEMMA TypeParts ==
    TypeOK <=> /\ mounts \in [Paths -> Stacks] /\ dirs \subseteq Paths
               /\ owed \in [Volumes -> 0..MaxOwed]
               /\ ControlTypes /\ volumeLocks \subseteq Volumes
  BY DEF TypeOK, Stacks, ControlTypes

LEMMA TypePartsNext ==
    TypeOK' <=> /\ mounts' \in [Paths -> Stacks] /\ dirs' \subseteq Paths
                /\ owed' \in [Volumes -> 0..MaxOwed]
                /\ ControlTypes' /\ volumeLocks' \subseteq Volumes
  BY DEF TypeOK, Stacks, ControlTypes

LEMMA LockInit == Init => LockInv
<1> SUFFICES ASSUME Init PROVE LockInv OBVIOUS
<1>1. <<>> \in Stacks BY DEF Stacks
<1>2. TypeOK
  BY <1>1, TypeParts, NodeAssumption DEF Init, ControlTypes, Labels, NewVolumeLocks
<1>3. HandlerShape BY DEF Init, HandlerShape, Shape
<1>4. OneOperationPerVolume BY DEF Init, OneOperationPerVolume, HoldsLock, NewVolumeLocks
<1>5. QED BY <1>2, <1>3, <1>4 DEF LockInv

\* A handler's step on the lock table keeps it exact.
LEMMA LockTable ==
    ASSUME LockInv, NEW h \in Handlers, Receive(h) \/ Step(h)
    PROVE  LockInv'
<1>1. /\ mounts \in [Paths -> Stacks] /\ dirs \subseteq Paths /\ ControlTypes
      /\ volumeLocks \subseteq Volumes /\ owed \in [Volumes -> 0..MaxOwed]
      /\ HandlerShape /\ OneOperationPerVolume
  BY TypeParts DEF LockInv
<1>2. ControlTypes' /\ Others(h) /\ Shape(h)' BY <1>1, StepControl
<1>3. LockEffect(h) BY <1>1, LockStep
<1>4. mounts' \in [Paths -> Stacks] /\ dirs' \subseteq Paths BY <1>1, HostTypes
<1>5. owed' = owed BY <1>1, HostEffect
<1>6. HandlerShape' BY <1>1, <1>2 DEF HandlerShape, Shape, Others
<1>7. volumeLocks' \subseteq Volumes BY <1>1, <1>3, RequestFacts DEF LockEffect
<1>8. TypeOK' BY <1>1, <1>2, <1>4, <1>5, <1>7, TypePartsNext
<1>9. \A g \in Handlers : g # h => (HoldsLock(g)' <=> HoldsLock(g)) /\ req'[g] = req[g]
  BY <1>2 DEF Others, HoldsLock
<1>10. OneOperationPerVolume'
  <2> DEFINE Id(g) == VolumeId(req[g])
  <2>1. volumeLocks = {Id(g) : g \in {f \in Handlers : HoldsLock(f)}}
    BY <1>1 DEF OneOperationPerVolume
  <2>2. \A f, g \in Handlers : f # g /\ HoldsLock(f) /\ HoldsLock(g) => Id(f) # Id(g)
    BY <1>1 DEF OneOperationPerVolume
  <2>3. \A g \in Handlers : g # h => Id(g)' = Id(g) BY <1>9
  <2>4. \A g \in Handlers : HoldsLock(g) => Id(g) \in volumeLocks BY <2>1
  <2>5. HoldsLock(h)' /\ HoldsLock(h) => Id(h)' = Id(h) BY <1>3 DEF LockEffect
  <2>6. ~HoldsLock(h) /\ HoldsLock(h)' => Id(h)' = Id(h) /\ Id(h) \notin volumeLocks
    BY <1>3 DEF LockEffect
  <2> HIDE DEF Id
  <2>7. \A f, g \in Handlers : f # g /\ HoldsLock(f)' /\ HoldsLock(g)' => Id(f)' # Id(g)'
    BY <1>9, <2>2, <2>3, <2>4, <2>5, <2>6
  <2>8. volumeLocks' = {Id(g)' : g \in {f \in Handlers : HoldsLock(f)'}}
    <3>1. \A v \in volumeLocks' : \E g \in Handlers : HoldsLock(g)' /\ v = Id(g)'
      <4>1. SUFFICES ASSUME NEW v \in volumeLocks'
                     PROVE  \E g \in Handlers : HoldsLock(g)' /\ v = Id(g)'
        OBVIOUS
      <4>2. CASE v \in volumeLocks
        <5>1. PICK g \in Handlers : HoldsLock(g) /\ v = Id(g) BY <2>1, <4>2
        <5>2. CASE g # h BY <1>9, <2>3, <5>1, <5>2
        <5>3. CASE g = h
          <6>1. HoldsLock(h)' BY <1>3, <4>1, <5>1, <5>3 DEF LockEffect, Id
          <6>2. QED BY <2>5, <5>1, <5>3, <6>1
        <5>4. QED BY <5>2, <5>3
      <4>3. CASE v \notin volumeLocks
        <5>1. v = Id(h) /\ HoldsLock(h)' /\ ~HoldsLock(h)
          BY <1>3, <4>1, <4>3 DEF LockEffect, Id
        <5>2. QED BY <2>6, <5>1
      <4>4. QED BY <4>2, <4>3
    <3>2. \A g \in Handlers : HoldsLock(g)' => Id(g)' \in volumeLocks'
      <4>1. SUFFICES ASSUME NEW g \in Handlers, HoldsLock(g)' PROVE Id(g)' \in volumeLocks'
        OBVIOUS
      <4>2. CASE g = h BY <1>3, <2>4, <2>5, <2>6, <4>1, <4>2 DEF LockEffect, Id
      <4>3. CASE g # h
        <5>1. HoldsLock(g) /\ Id(g)' = Id(g) /\ Id(g) \in volumeLocks
          BY <1>9, <2>3, <2>4, <4>1, <4>3
        <5>2. HoldsLock(h) => Id(g) # Id(h) BY <2>2, <4>3, <5>1
        <5>3. QED BY <1>3, <5>1, <5>2 DEF LockEffect, Id
      <4>4. QED BY <4>2, <4>3
    <3>3. QED BY <3>1, <3>2
  <2>9. QED BY <2>7, <2>8 DEF OneOperationPerVolume, Id
<1>11. QED BY <1>6, <1>8, <1>10 DEF LockInv

\* What the rest of the world does: it keeps the handlers as they are, or it
\* ends them, and it orphans mounts.
LEMMA EnvironmentTypes ==
    ASSUME mounts \in [Paths -> Stacks], dirs \subseteq Paths, Environment
    PROVE  mounts' \in [Paths -> Stacks] /\ dirs' \subseteq Paths
<1>1. \A p \in Paths : Orphaned(mounts[p]) \in Stacks BY OrphanedStack
<1>2. CASE Crash BY <1>1, <1>2 DEF Crash
<1>3. CASE ProxyCrash BY <1>1, <1>3 DEF ProxyCrash
<1>4. CASE \E v \in Volumes : ProxyOwedMount(v)
  <2>1. PICK v \in Volumes : ProxyOwedMount(v) BY <1>4
  <2>2. CASE UNCHANGED mounts BY <2>1, <2>2 DEF ProxyOwedMount
  <2>3. CASE \E mounted \in BOOLEAN : FcfsFusedRestart(v, mounted)
    <3>1. mounts' \in [Paths -> Stacks] BY <2>3, RestartEffect
    <3>2. QED BY <2>1, <3>1 DEF ProxyOwedMount
  <2>4. QED BY <2>1, <2>2, <2>3 DEF ProxyOwedMount
<1>5. CASE \E v \in Volumes : DaemonDies(v) BY <1>1, <1>5 DEF DaemonDies, DaemonGone
<1>6. CASE \E v \in Volumes : KubeletMakesDir(v) BY <1>6, PathFacts DEF KubeletMakesDir
<1>7. CASE \E p \in Paths : KubeletRemovesDir(p) BY <1>7 DEF KubeletRemovesDir
<1>8. QED BY <1>2, <1>3, <1>4, <1>5, <1>6, <1>7 DEF Environment

LEMMA OwedTypes ==
    ASSUME owed \in [Volumes -> 0..MaxOwed], Environment
    PROVE  owed' \in [Volumes -> 0..MaxOwed] /\ (~Proxy => \A v \in Volumes : owed'[v] <= owed[v])
<1>m. MaxOwed \in Nat BY NodeAssumption
<1>1. CASE Crash
  <2>1. \A v \in Volumes : Cardinality(AtProxy(v)) \in Nat
    <3>1. \A v \in Volumes : AtProxy(v) \subseteq Handlers BY DEF AtProxy
    <3>2. \A v \in Volumes : IsFiniteSet(AtProxy(v)) BY <3>1, NodeAssumption, FS_Subset
    <3>3. QED BY <3>2, FS_CardinalityType
  <2>2. ~Proxy => \A v \in Volumes : Cardinality(AtProxy(v)) = 0
    <3>1. ~Proxy => \A v \in Volumes : AtProxy(v) = {} BY DEF AtProxy
    <3>2. QED BY <3>1, FS_EmptySet
  <2>3. owed' \in [Volumes -> 0..MaxOwed] BY <1>1, <1>m, <2>1 DEF Crash
  <2>4. \A v \in Volumes : owed'[v] = owed[v] + Cardinality(AtProxy(v)) BY <1>1 DEF Crash
  <2>5. QED BY <1>m, <2>2, <2>3, <2>4
<1>2. CASE ProxyCrash BY <1>2, <1>m DEF ProxyCrash
<1>3. CASE \E v \in Volumes : ProxyOwedMount(v) BY <1>3, <1>m DEF ProxyOwedMount
<1>4. CASE UNCHANGED owed BY <1>4, <1>m
<1>5. QED
  BY <1>1, <1>2, <1>3, <1>4 DEF Environment, DaemonDies, KubeletMakesDir, KubeletRemovesDir

\* The handlers after a step of the rest of the world.
EnvControl(h) ==
    \/ req'[h] = NoRequest /\ reply'[h] = NoReply /\ pc'[h] = "idle"
    \/ req'[h] = req[h] /\ reply'[h] = reply[h] /\ pc'[h] = pc[h]
    \/ req'[h] = req[h] /\ reply'[h] = "Internal" /\ pc'[h] = "release" /\ pc[h] = "exec"

LEMMA EnvironmentControl ==
    ASSUME ControlTypes, Environment
    PROVE  ControlTypes' /\ \A h \in Handlers : EnvControl(h)
<1>1. CASE Crash BY <1>1 DEF Crash, ControlTypes, EnvControl, Labels
<1>2. CASE ProxyCrash
  <2>1. PICK W \in SUBSET Handlers :
          /\ \A h \in W : pc[h] = "exec"
          /\ reply' = [h \in Handlers |-> IF h \in W THEN "Internal" ELSE reply[h]]
          /\ pc' = [h \in Handlers |-> IF h \in W THEN "release" ELSE pc[h]]
    BY <1>2 DEF ProxyCrash, AtProxy
  <2>2. req' = req BY <1>2 DEF ProxyCrash
  <2>3. QED BY <2>1, <2>2 DEF ControlTypes, EnvControl, Labels, Codes
<1>3. CASE UNCHANGED <<req, reply, pc>> BY <1>3 DEF ControlTypes, EnvControl
<1>4. QED
  BY <1>1, <1>2, <1>3 DEF Environment, ProxyOwedMount, DaemonDies, KubeletMakesDir, KubeletRemovesDir

LEMMA LockEnvironment ==
    ASSUME LockInv, Environment
    PROVE  LockInv'
<1>1. /\ mounts \in [Paths -> Stacks] /\ dirs \subseteq Paths /\ ControlTypes
      /\ volumeLocks \subseteq Volumes /\ owed \in [Volumes -> 0..MaxOwed]
      /\ HandlerShape /\ OneOperationPerVolume
  BY TypeParts DEF LockInv
<1>2. ControlTypes' /\ \A h \in Handlers : EnvControl(h) BY <1>1, EnvironmentControl
<1>3. mounts' \in [Paths -> Stacks] /\ dirs' \subseteq Paths BY <1>1, EnvironmentTypes
<1>4. owed' \in [Volumes -> 0..MaxOwed] BY <1>1, OwedTypes
<1>5. HandlerShape'
  <2>1. ASSUME NEW h \in Handlers PROVE Shape(h)'
    <3>1. EnvControl(h) /\ Shape(h) BY <1>1, <1>2 DEF HandlerShape
    <3>2. "Internal" # NoReply BY DEF NoReply
    <3>3. QED BY <3>1, <3>2 DEF EnvControl, Shape
  <2>2. QED BY <2>1 DEF HandlerShape
<1>6. CASE Crash
  <2>1. volumeLocks' = {} /\ \A h \in Handlers : ~HoldsLock(h)'
    BY <1>6 DEF Crash, NewVolumeLocks, HoldsLock
  <2>2. OneOperationPerVolume' BY <2>1 DEF OneOperationPerVolume
  <2>3. QED BY <1>2, <1>3, <1>4, <1>5, <2>1, <2>2, TypePartsNext DEF LockInv
<1>7. CASE ~Crash
  <2>1. volumeLocks' = volumeLocks /\ req' = req
    BY <1>7 DEF Environment, ProxyCrash, ProxyOwedMount, DaemonDies, KubeletMakesDir, KubeletRemovesDir
  <2>2. \A h \in Handlers : HoldsLock(h)' <=> HoldsLock(h)
    <3>1. ASSUME NEW h \in Handlers PROVE HoldsLock(h)' <=> HoldsLock(h)
      <4>1. Shape(h) BY <1>1 DEF HandlerShape
      <4>2. pc'[h] = "idle" => pc[h] = "idle"
        BY <1>7 DEF Environment, ProxyCrash, ProxyOwedMount, DaemonDies, KubeletMakesDir,
           KubeletRemovesDir
      <4>3. EnvControl(h) BY <1>2
      <4>4. QED BY <4>2, <4>3 DEF EnvControl, HoldsLock
    <3>2. QED BY <3>1
  <2>3. OneOperationPerVolume' BY <1>1, <2>1, <2>2 DEF OneOperationPerVolume
  <2>4. QED BY <1>1, <1>2, <1>3, <1>4, <1>5, <2>1, <2>3, TypePartsNext DEF LockInv
<1>8. QED BY <1>6, <1>7

LEMMA LockNext == LockInv /\ [Next]_vars => LockInv'
<1>1. ASSUME LockInv, UNCHANGED vars PROVE LockInv'
  BY <1>1 DEF LockInv, TypeOK, HandlerShape, Shape, OneOperationPerVolume, HoldsLock, vars
<1>2. QED BY <1>1, LockTable, LockEnvironment DEF Next

\* The state of the node service always has its type, however the handlers,
\* the daemons, the proxy and the kubelet interleave.
THEOREM TypeCorrect == Spec => []TypeOK
<1>1. LockInv => TypeOK BY DEF LockInv
<1>2. QED BY <1>1, LockInit, LockNext, PTL DEF Spec

\* nodeServer.volumeLocks holds exactly the volumes of the handlers between
\* TryAcquire and the deferred Release, and no two of them serve the same
\* volume: for any number of requests, and across restarts of the plugin
\* and of the proxy.
THEOREM Locks == Spec => []OneOperationPerVolume
<1>1. LockInv => OneOperationPerVolume BY DEF LockInv
<1>2. QED BY <1>1, LockInit, LockNext, PTL DEF Spec

-----------------------------------------------------------------------------
(***************************************************************************)
(* The mount table.  What a handler found when it looked at its path still *)
(* holds when it acts, because the lock keeps the other handlers off every *)
(* path of the volume and all that the rest of the world does to the path  *)
(* is to orphan its mounts.  With the proxy that is so for the target      *)
(* paths only: a mount that the proxy still owes changes the staging path  *)
(* under a handler that holds the lock.                                    *)
(***************************************************************************)

Guarded(p) == Proxy => p \in TargetPaths

\* A mounted path exists, fcfs_fused mounts no plain directory, and FastCFS
\* is at most the top of a guarded path.
PathInv(p) ==
    /\ mounts[p] # <<>> => p \in dirs
    /\ p \in StagingPaths => NoBare(mounts[p])
    /\ Guarded(p) => TopOnly(mounts[p])

\* What handler h relies on, by the label it is at.
View(h) ==
    /\ pc[h] \in {"readdir", "unmount"} => Top(mounts[Path(h)]) \in {"live", "dead"}
    /\ pc[h] \in {"makedir", "fuse", "exec", "bind"} =>
          Top(mounts[Path(h)]) \in {"none", "bare"}
    /\ pc[h] = "remount" => mounts[Path(h)] # <<>>
    /\ pc[h] = "release" /\ reply[h] = "OK" =>
          /\ req[h].op \in {"stage", "publish"} => mounts[Path(h)] # <<>>
          /\ req[h].op \in {"unstage", "unpublish"} => mounts[Path(h)] = <<>>
          /\ req[h].op = "unpublish" => Path(h) \notin dirs

PathsInv == \A p \in Paths : PathInv(p)
ViewsInv == \A h \in Handlers : HoldsLock(h) /\ Guarded(Path(h)) => View(h)
NoDebts == ~Proxy => \A v \in Volumes : owed[v] = 0

HostInv == PathsInv /\ ViewsInv /\ NoDebts

LEMMA HostInit == Init => HostInv
<1> SUFFICES ASSUME Init PROVE HostInv OBVIOUS
<1>1. \A p \in Paths : mounts[p] = <<>> BY DEF Init
<1>2. TopOnly(<<>>) /\ NoBare(<<>>) BY DEF TopOnly, NoBare
<1>3. PathsInv BY <1>1, <1>2 DEF PathsInv, PathInv
<1>4. ViewsInv BY DEF Init, ViewsInv, HoldsLock
<1>5. NoDebts BY DEF Init, NoDebts
<1>6. QED BY <1>3, <1>4, <1>5 DEF HostInv

\* The lock covers every path a handler touches.
LEMMA Locality ==
    ASSUME LockInv, NEW h \in Handlers, Receive(h) \/ Step(h)
    PROVE  /\ ~HoldsLock(h) => mounts' = mounts /\ dirs' = dirs
           /\ \A p \in Paths : p[1] # VolumeId(req[h]) =>
                 mounts'[p] = mounts[p] /\ (p \in dirs' <=> p \in dirs)
<1>1. mounts \in [Paths -> Stacks] /\ HandlerShape BY TypeParts DEF LockInv
<1>2. MountEffect(h) /\ DirEffect(h) BY <1>1, HostEffect
<1>3. ~HoldsLock(h) => mounts' = mounts /\ dirs' = dirs
  BY <1>2 DEF HoldsLock, MountEffect, DirEffect
<1>4. ASSUME HoldsLock(h), NEW p \in Paths, p[1] # VolumeId(req[h])
      PROVE  mounts'[p] = mounts[p] /\ (p \in dirs' <=> p \in dirs)
  <2>1. req[h] \in Requests BY <1>1, <1>4 DEF HandlerShape, Shape, HoldsLock
  <2>2. p # Path(h) BY <1>4 DEF VolumeId, Path
  <2>3. VolumeId(req[h]) \in Volumes BY <2>1, RequestFacts
  <2>4. ASSUME NEW mounted \in BOOLEAN, FcfsFusedRestart(VolumeId(req[h]), mounted)
        PROVE  mounts'[p] = mounts[p]
    BY <1>1, <1>4, <2>3, <2>4, RestartEffect DEF RestartResult
  <2>5. mounts'[p] = mounts[p] BY <1>1, <1>2, <2>2, <2>4 DEF MountEffect, Unmounted
  <2>6. QED BY <1>2, <2>2, <2>5 DEF DirEffect
<1>5. QED BY <1>3, <1>4

\* The stack a restart leaves on the staging path.
LEMMA RestartStack ==
    ASSUME mounts \in [Paths -> Stacks], NEW v \in Volumes, NEW mounted \in BOOLEAN,
           FcfsFusedRestart(v, mounted), NoBare(mounts[Staging(v)]), 
           mounts[Staging(v)] # <<>> => Staging(v) \in dirs
    PROVE  /\ NoBare(mounts'[Staging(v)])
           /\ mounts'[Staging(v)] # <<>> => Staging(v) \in dirs
           /\ mounted => mounts'[Staging(v)] # <<>>
           /\ mounts[Staging(v)] = <<>> => TopOnly(mounts'[Staging(v)])
<1> DEFINE s == Staging(v)
<1>1. s \in Paths /\ mounts[s] \in Stacks BY PathFacts
<1>2. PICK base \in Stacks : RestartResult(v, base, mounted) BY RestartEffect
<1>3. /\ Orphaned(mounts[s]) \in Stacks /\ NoBare(Orphaned(mounts[s]))
      /\ Orphaned(mounts[s]) = <<>> <=> mounts[s] = <<>>
  BY <1>1, OrphanedStack
<1>4. Top(mounts[s]) = "live" => mounts[s] # <<>> BY DEF Top
<1>5. NoBare(base) /\ (base # <<>> => mounts[s] # <<>>)
  BY <1>2, <1>3, <1>4, PopStack DEF RestartResult
<1>6. /\ Append(base, NewMount("live")) # <<>> /\ NoBare(Append(base, NewMount("live")))
      /\ TopOnly(base) /\ Top(base) \in {"none", "bare"} => TopOnly(Append(base, NewMount("live")))
  BY <1>5, AppendStack DEF FileSystems
<1>7. base = <<>> => TopOnly(base) /\ Top(base) = "none" BY DEF TopOnly, Top
<1>8. QED BY <1>2, <1>5, <1>6, <1>7 DEF RestartResult

LEMMA PathsStep ==
    ASSUME LockInv, HostInv, NEW h \in Handlers, Receive(h) \/ Step(h)
    PROVE  PathsInv'
<1>1. mounts \in [Paths -> Stacks] /\ HandlerShape BY TypeParts DEF LockInv
<1>2. MountEffect(h) /\ DirEffect(h) BY <1>1, HostEffect
<1>3. \A p \in Paths : PathInv(p) BY DEF HostInv, PathsInv
<1>4. CASE mounts' = mounts
  <2>1. \A p \in Paths : mounts[p] # <<>> /\ p \in dirs => p \in dirs'
    BY <1>2 DEF DirEffect, Removable
  <2>2. QED BY <1>3, <1>4, <2>1 DEF PathsInv, PathInv, Guarded
<1>5. CASE mounts' # mounts
  <2>1. dirs' = dirs BY <1>2, <1>5 DEF DirEffect
  <2>2. req[h] \in Requests /\ HoldsLock(h)
    BY <1>1, <1>2, <1>5 DEF MountEffect, HandlerShape, Shape, HoldsLock
  <2>3. PICK q \in Paths : q = Path(h) /\ mounts[q] \in Stacks BY <1>1, <2>2, ShownValues
  <2>4. Guarded(q) => View(h) BY <2>2, <2>3 DEF HostInv, ViewsInv
  <2>5. Shape(h) BY <1>1 DEF HandlerShape
  <2>6. PathInv(q) BY <1>3, <2>3
  <2>7. ASSUME NEW new \in Stacks, mounts' = [mounts EXCEPT ![q] = new],
               new # <<>> => q \in dirs,
               q \in StagingPaths => NoBare(new),
               Guarded(q) => TopOnly(new)
        PROVE  PathsInv'
    BY <1>1, <1>3, <2>1, <2>3, <2>7 DEF PathsInv, PathInv, Guarded
  <2>8. CASE mounts[q] # <<>> /\ Unmounted(h)
    <3>1. /\ Pop(mounts[q]) \in Stacks /\ (NoBare(mounts[q]) => NoBare(Pop(mounts[q])))
          /\ TopOnly(mounts[q]) => TopOnly(Pop(mounts[q]))
      BY <2>3, <2>8, PopStack
    <3>2. QED BY <2>3, <2>6, <2>7, <2>8, <3>1 DEF Unmounted, PathInv
  <2>9. CASE /\ pc[h] = "exec"
             /\ \E mounted \in BOOLEAN : FcfsFusedRestart(VolumeId(req[h]), mounted)
    <3>1. PICK mounted \in BOOLEAN : FcfsFusedRestart(VolumeId(req[h]), mounted) BY <2>9
    <3> DEFINE v == VolumeId(req[h])
    <3>2. v \in Volumes /\ q = Staging(v) BY <2>2, <2>3, <2>5, <2>9, RequestFacts DEF Shape, Path
    <3>3. q \in StagingPaths BY <3>2, PathFacts
    <3>4. NoBare(mounts[q]) /\ (mounts[q] # <<>> => q \in dirs) BY <2>6, <3>3 DEF PathInv
    <3>5. Guarded(q) => mounts[q] = <<>>
      BY <2>3, <2>4, <2>9, <3>4, TopValues DEF View
    <3>6. /\ NoBare(mounts'[q]) /\ (mounts'[q] # <<>> => q \in dirs)
          /\ mounts[q] = <<>> => TopOnly(mounts'[q])
      BY <1>1, <3>1, <3>2, <3>4, RestartStack
    <3>7. PathInv(q)' BY <2>1, <3>5, <3>6 DEF PathInv, Guarded
    <3>8. \E base \in Stacks : RestartResult(v, base, mounted)
      BY <1>1, <3>1, <3>2, RestartEffect
    <3>9. \A p \in Paths : p # q => mounts'[p] \in {mounts[p], Orphaned(mounts[p])}
      BY <3>2, <3>8 DEF RestartResult
    <3>10. ASSUME NEW p \in Paths, p # q PROVE PathInv(p)'
      <4>1. mounts[p] \in Stacks /\ PathInv(p) BY <1>1, <1>3
      <4>2. /\ mounts'[p] = <<>> <=> mounts[p] = <<>>
            /\ NoBare(mounts[p]) => NoBare(mounts'[p])
            /\ TopOnly(mounts[p]) => TopOnly(mounts'[p])
        BY <3>9, <3>10, <4>1, OrphanedStack
      <4>3. QED BY <2>1, <4>1, <4>2 DEF PathInv, Guarded
    <3>11. QED BY <3>7, <3>10 DEF PathsInv
  <2>10. CASE /\ pc[h] = "bind" /\ q \in dirs
              /\ \E fs \in {"live", "bare"} :
                    mounts' = [mounts EXCEPT ![q] = Append(@, NewMount(fs))]
    <3>1. PICK fs \in {"live", "bare"} : mounts' = [mounts EXCEPT ![q] = Append(@, NewMount(fs))]
      BY <2>10
    <3>2. q \in TargetPaths /\ q \notin StagingPaths
      BY <2>2, <2>3, <2>5, <2>10, RequestFacts, PathFacts DEF Shape, Path
    <3>3. TopOnly(mounts[q]) /\ Top(mounts[q]) \in {"none", "bare"}
      BY <2>3, <2>4, <2>6, <2>10, <3>2 DEF PathInv, Guarded, View
    <3>4. Append(mounts[q], NewMount(fs)) \in Stacks /\ TopOnly(Append(mounts[q], NewMount(fs)))
      BY <2>3, <3>3, AppendStack DEF FileSystems
    <3>5. QED BY <2>7, <2>10, <3>1, <3>2, <3>4
  <2>11. CASE /\ pc[h] = "remount"
              /\ mounts' = [mounts EXCEPT ![q] = Remounted(@, Readonly(req[h]))]
    <3>1. q \in TargetPaths /\ q \notin StagingPaths /\ Readonly(req[h]) \in BOOLEAN
      BY <2>2, <2>3, <2>5, <2>11, RequestFacts, PathFacts DEF Shape, Path
    <3>2. TopOnly(mounts[q]) /\ mounts[q] # <<>> /\ q \in dirs
      BY <2>3, <2>4, <2>6, <2>11, <3>1 DEF PathInv, Guarded, View
    <3>3. /\ Remounted(mounts[q], Readonly(req[h])) \in Stacks
          /\ TopOnly(Remounted(mounts[q], Readonly(req[h])))
      BY <2>3, <3>1, <3>2, RemountedStack
    <3>4. QED BY <2>7, <2>11, <3>1, <3>2, <3>3
  <2>12. QED BY <1>2, <1>5, <2>3, <2>8, <2>9, <2>10, <2>11 DEF MountEffect
<1>6. QED BY <1>4, <1>5

\* A handler that has decided against OK relies on nothing, nor does one at a
\* label that looks at its path afresh.
LEMMA FreshView ==
    ASSUME NEW h \in Handlers,
           \/ pc'[h] \in {"inspect", "rmtarget", "umount", "remove", "cleanup", "rmdir", "statfs"}
           \/ pc'[h] = "release" /\ reply'[h] # "OK"
    PROVE  View(h)'
  BY DEF View

\* A handler's own step leaves it what it relies on next.
LEMMA OwnView ==
    ASSUME LockInv, HostInv, NEW h \in Handlers, Receive(h) \/ Step(h),
           HoldsLock(h)', Guarded(Path(h))'
    PROVE  View(h)'
<1>1. mounts \in [Paths -> Stacks] /\ HandlerShape /\ ControlTypes BY TypeParts DEF LockInv
<1>2. Shape(h) /\ Others(h) BY <1>1, StepControl DEF HandlerShape
<1>c. {"OK", "InvalidArgument", "NotFound", "Aborted", "Internal"} = Codes BY DEF Codes
<1>3. CASE Receive(h) \/ Return(h) \/ ReleaseLock(h)
  BY <1>1, <1>3 DEF Receive, Accept, Return, ReleaseLock, Goto, ControlTypes, HoldsLock
<1>4. CASE Validate(h) \/ AbortBusy(h) \/ RejectArguments(h)
  <2>1. (\E c \in Codes : Refuse(h, c)) \/ Continue(h, "lock")
    BY <1>1, <1>2, <1>4, <1>c, ValidateOutcome DEF Shape, Validate, AbortBusy, RejectArguments
  <2>2. pc'[h] \in {"return", "lock"} BY <1>1, <2>1 DEF Refuse, Continue, Goto, ControlTypes
  <2>3. QED BY <2>2 DEF HoldsLock
<1>5. CASE AcquireLock(h)
  <2>1. PICK l \in {"umount", "statfs", "inspect"} : Continue(h, l) BY <1>5 DEF AcquireLock
  <2>2. pc'[h] = l BY <1>1, <2>1 DEF Continue, Goto, ControlTypes
  <2>3. QED BY <2>2, FreshView
<1>6. CASE /\ HoldsLock(h) /\ pc[h] # "release"
           /\ Step(h)
  <2>1. req[h] \in Requests BY <1>2, <1>6 DEF Shape, HoldsLock
  <2>2. req' = req
    BY <1>6 DEF Step, Work, HoldsLock, Validate, AbortBusy, AcquireLock, InspectMountPoint,
       ReadMountPoint, UnmountCorrupted, MakeDir, FcfsMount, ExecFcfsFused, BindMount,
       RemountBind, RemoveTarget, UnmountVolume, RemoveUnpublished, InspectStaging,
       CleanupMountPoint, RemoveCleaned, StatFS, ReleaseLock, RejectArguments, Return
  <2>3. PICK q \in Paths : q = Path(h) /\ q = Path(h)' /\ mounts[q] \in Stacks
    BY <1>1, <2>1, <2>2, ShownValues DEF Path
  <2>4. Guarded(q) BY <2>3 DEF Guarded
  <2>5. View(h) BY <1>6, <2>3, <2>4 DEF HostInv, ViewsInv
  <2>6. PathInv(q) BY <2>3 DEF HostInv, PathsInv
  <2>7. /\ Shown(h) \in {"missing", "none", "live", "dead", "bare"}
        /\ Shown(h) # "missing" => q \in dirs /\ Shown(h) = Top(mounts[q])
        /\ Shown(h) = "missing" <=> q \notin dirs
    <3>1. Top(mounts[q]) # "missing" BY <2>3, TopValues
    <3>2. QED BY <1>1, <2>1, <2>3, <3>1, ShownValues DEF Shown
  <2>8. Top(mounts[q]) \in {"none", "live", "dead", "bare"} /\ (Top(mounts[q]) = "none" <=> mounts[q] = <<>>)
    BY <2>3, TopValues
  <2>c. ASSUME NEW l \in Labels, Continue(h, l) PROVE pc'[h] = l /\ reply'[h] = reply[h]
    BY <1>1, <2>2, <2>c, ContinueControl
  <2>d. ASSUME NEW c \in Codes, Decide(h, c) PROVE pc'[h] = "release" /\ reply'[h] = c
    BY <1>1, <2>2, <2>d, DecideControl
  <2>e. Decide(h, "Internal") => View(h)'
    <3>1. Decide(h, "Internal") => pc'[h] = "release" /\ reply'[h] = "Internal"
      BY <1>c, <2>d
    <3>2. QED BY <3>1, FreshView
  <2>9. CASE InspectMountPoint(h)
    <3>1. CASE Shown(h) \in {"live", "dead"} /\ Continue(h, "readdir")
      <4>1. pc'[h] = "readdir" BY <2>c, <3>1 DEF Labels
      <4>2. mounts' = mounts BY <2>9 DEF InspectMountPoint, host
      <4>3. QED BY <2>3, <2>7, <3>1, <4>1, <4>2 DEF View
    <3>2. CASE Shown(h) \in {"missing", "none", "bare"} /\ Continue(h, "makedir")
      <4>1. pc'[h] = "makedir" BY <2>c, <3>2 DEF Labels
      <4>2. mounts' = mounts BY <2>9 DEF InspectMountPoint, host
      <4>3. Top(mounts[q]) \in {"none", "bare"} BY <2>6, <2>7, <2>8, <3>2 DEF PathInv
      <4>4. QED BY <2>3, <4>1, <4>2, <4>3 DEF View
    <3>3. QED BY <2>9, <2>e, <3>1, <3>2 DEF InspectMountPoint
  <2>10. CASE ReadMountPoint(h)
    <3>1. mounts' = mounts /\ pc[h] = "readdir" BY <2>10 DEF ReadMountPoint, host
    <3>2. Top(mounts[q]) \in {"live", "dead"} /\ q \in dirs
      BY <2>3, <2>5, <2>6, <2>8, <3>1 DEF View, PathInv
    <3>3. CASE Continue(h, "unmount")
      <4>1. pc'[h] = "unmount" BY <2>c, <3>3 DEF Labels
      <4>2. QED BY <2>3, <3>1, <3>2, <4>1 DEF View
    <3>4. CASE Decide(h, "OK")
      <4>1. pc'[h] = "release" BY <1>c, <2>d, <3>4
      <4>2. req[h].op \in {"stage", "publish"} BY <1>2, <3>1 DEF Shape
      <4>3. mounts[q] # <<>> BY <2>8, <3>2
      <4>4. QED BY <2>2, <2>3, <3>1, <4>1, <4>2, <4>3 DEF View
    <3>5. QED BY <2>10, <3>3, <3>4 DEF ReadMountPoint
  <2>11. CASE UnmountCorrupted(h) \/ RemoveTarget(h)
    BY <2>11, <2>e DEF UnmountCorrupted, RemoveTarget
  <2>12. CASE MakeDir(h) \/ FcfsMount(h)
    <3>1. CASE \E l \in {"fuse", "bind", "exec"} : Continue(h, l)
      <4>1. pc'[h] \in {"fuse", "bind", "exec"} BY <2>c, <3>1 DEF Labels
      <4>2. mounts' = mounts /\ Top(mounts[q]) \in {"none", "bare"}
        BY <2>3, <2>5, <2>12 DEF MakeDir, FcfsMount, View
      <4>3. QED BY <2>3, <4>1, <4>2 DEF View
    <3>2. QED BY <2>12, <2>e, <3>1 DEF MakeDir, FcfsMount
  <2>13. CASE ExecFcfsFused(h)
    <3>1. CASE FcfsFusedRestart(VolumeId(req[h]), TRUE) /\ Decide(h, "OK")
      <4>1. pc'[h] = "release" BY <1>c, <2>d, <3>1
      <4>2. req[h].op = "stage" BY <1>2, <2>13 DEF Shape, ExecFcfsFused
      <4>3. VolumeId(req[h]) \in Volumes /\ q = Staging(VolumeId(req[h])) /\ q \in StagingPaths
        <5>1. VolumeId(req[h]) \in Volumes /\ q = Staging(VolumeId(req[h]))
          BY <2>1, <2>3, <4>2, RequestFacts DEF Path
        <5>2. QED BY <5>1, PathFacts
      <4>4. NoBare(mounts[q]) /\ (mounts[q] # <<>> => q \in dirs) BY <2>6, <4>3 DEF PathInv
      <4>5. mounts'[q] # <<>> BY <1>1, <3>1, <4>3, <4>4, RestartStack
      <4>6. QED BY <2>2, <2>3, <4>1, <4>2, <4>5 DEF View
    <3>2. QED BY <2>13, <2>e, <3>1 DEF ExecFcfsFused
  <2>14. CASE BindMount(h)
    <3>1. CASE /\ Continue(h, "remount")
               /\ \E fs \in {"live", "bare"} :
                     mounts' = [mounts EXCEPT ![q] = Append(@, NewMount(fs))]
      <4>1. pc'[h] = "remount" BY <2>c, <3>1 DEF Labels
      <4>2. \A fs \in {"live", "bare"} : Append(mounts[q], NewMount(fs)) # <<>>
        BY <2>3, AppendStack DEF FileSystems
      <4>3. mounts'[q] # <<>> BY <1>1, <2>3, <3>1, <4>2
      <4>4. QED BY <2>3, <4>1, <4>3 DEF View
    <3>2. CASE Continue(h, "rmtarget")
      <4>1. pc'[h] = "rmtarget" BY <2>c, <3>2 DEF Labels
      <4>2. QED BY <4>1, FreshView
    <3>3. QED BY <2>3, <2>14, <3>1, <3>2 DEF BindMount
  <2>15. CASE RemountBind(h)
    <3>1. CASE /\ mounts' = [mounts EXCEPT ![q] = Remounted(@, Readonly(req[h]))]
               /\ Decide(h, "OK")
      <4>1. pc'[h] = "release" BY <1>c, <2>d, <3>1
      <4>2. req[h].op = "publish" /\ mounts[q] # <<>>
        BY <1>2, <2>3, <2>5, <2>15 DEF Shape, RemountBind, View
      <4>3. Readonly(req[h]) \in BOOLEAN BY <2>1, RequestFacts
      <4>4. Remounted(mounts[q], Readonly(req[h])) # <<>> BY <2>3, <4>2, <4>3, RemountedStack
      <4>5. mounts'[q] # <<>> BY <1>1, <2>3, <3>1, <4>4
      <4>6. QED BY <2>2, <2>3, <4>1, <4>2, <4>5 DEF View
    <3>2. CASE Continue(h, "rmtarget")
      <4>1. pc'[h] = "rmtarget" BY <2>c, <3>2 DEF Labels
      <4>2. QED BY <4>1, FreshView
    <3>3. QED BY <2>3, <2>15, <3>1, <3>2 DEF RemountBind
  <2>16. CASE UnmountVolume(h)
    <3>1. CASE Continue(h, "remove")
      <4>1. pc'[h] = "remove" BY <2>c, <3>1 DEF Labels
      <4>2. QED BY <4>1, FreshView
    <3>2. QED BY <2>16, <2>e, <3>1 DEF UnmountVolume
  <2>17. ASSUME mounts' = mounts, mounts[q] = <<>>, Decide(h, "OK"),
                req[h].op \in {"unstage", "unpublish"},
                req[h].op = "unpublish" => q \notin dirs'
         PROVE  View(h)'
    <3>1. pc'[h] = "release" BY <1>c, <2>17, <2>d
    <3>2. QED BY <2>2, <2>3, <2>17, <3>1 DEF View
  <2>18. CASE RemoveUnpublished(h)
    <3>1. req[h].op = "unpublish" /\ mounts' = mounts
      BY <1>2, <2>18 DEF Shape, RemoveUnpublished
    <3>2. CASE Removable(h) /\ dirs' = dirs \ {Path(h)} /\ Decide(h, "OK")
      BY <2>3, <2>17, <3>1, <3>2 DEF Removable
    <3>3. CASE Shown(h) = "missing" /\ UNCHANGED dirs /\ Decide(h, "OK")
      <4>1. q \notin dirs' BY <2>7, <3>3
      <4>2. mounts[q] = <<>> BY <2>6, <2>7, <3>3 DEF PathInv
      <4>3. QED BY <2>17, <3>1, <3>3, <4>1, <4>2
    <3>4. QED BY <2>18, <2>e, <3>2, <3>3 DEF RemoveUnpublished
  <2>19. CASE InspectStaging(h)
    <3>1. /\ mounts' = mounts /\ req[h].op = "unstage"
          /\ \/ \E c \in Codes \ {"OK"} : Decide(h, c)
             \/ Shown(h) \in {"none", "bare"} /\ Decide(h, "OK")
             \/ Continue(h, "cleanup")
      BY <1>1, <2>1, <2>19, InspectStagingOutcome DEF InspectStaging, host
    <3>2. CASE \E c \in Codes \ {"OK"} : Decide(h, c)
      <4>1. pc'[h] = "release" /\ reply'[h] # "OK" BY <2>d, <3>2
      <4>2. QED BY <4>1, FreshView
    <3>3. CASE Shown(h) \in {"none", "bare"} /\ Decide(h, "OK")
      <4>1. q \in StagingPaths
        <5>1. VolumeId(req[h]) \in Volumes /\ q = Staging(VolumeId(req[h]))
          BY <2>1, <2>3, <3>1, RequestFacts DEF Path
        <5>2. QED BY <5>1, PathFacts
      <4>2. Top(mounts[q]) # "bare" BY <2>3, <2>6, <4>1, TopValues DEF PathInv
      <4>3. mounts[q] = <<>> BY <2>7, <2>8, <3>3, <4>2
      <4>4. QED BY <2>17, <3>1, <3>3, <4>3
    <3>4. CASE Continue(h, "cleanup")
      <4>1. pc'[h] = "cleanup" BY <2>c, <3>4 DEF Labels
      <4>2. QED BY <4>1, FreshView
    <3>5. QED BY <3>1, <3>2, <3>3, <3>4
  <2>20. CASE CleanupMountPoint(h)
    <3>1. req[h].op = "unstage" BY <1>2, <2>20 DEF Shape, CleanupMountPoint
    <3>2. CASE Shown(h) = "missing" /\ Decide(h, "OK") /\ UNCHANGED <<mounts, dirs>>
      <4>1. mounts[q] = <<>> BY <2>6, <2>7, <3>2 DEF PathInv
      <4>2. QED BY <2>17, <3>1, <3>2, <4>1
    <3>3. CASE Removable(h) /\ Decide(h, "OK") /\ UNCHANGED mounts
      BY <2>3, <2>17, <3>1, <3>3 DEF Removable
    <3>4. CASE Continue(h, "rmdir")
      <4>1. pc'[h] = "rmdir" BY <2>c, <3>4 DEF Labels
      <4>2. QED BY <4>1, FreshView
    <3>5. QED BY <2>20, <2>e, <3>2, <3>3, <3>4 DEF CleanupMountPoint
  <2>21. CASE RemoveCleaned(h)
    <3>1. req[h].op = "unstage" /\ mounts' = mounts BY <1>2, <2>21 DEF Shape, RemoveCleaned
    <3>2. CASE Removable(h) /\ Decide(h, "OK")
      BY <2>3, <2>17, <3>1, <3>2 DEF Removable
    <3>3. QED BY <2>21, <2>e, <3>2 DEF RemoveCleaned
  <2>22. CASE StatFS(h)
    <3>1. req[h].op = "stats" BY <1>2, <2>22 DEF Shape, StatFS
    <3>2. CASE Decide(h, "OK")
      <4>1. pc'[h] = "release" BY <1>c, <2>d, <3>2
      <4>2. QED BY <2>2, <3>1, <4>1 DEF View
    <3>3. QED BY <2>22, <2>e, <3>2 DEF StatFS
  <2>23. QED
    BY <1>3, <1>4, <1>5, <1>6, <2>9, <2>10, <2>11, <2>12, <2>13, <2>14, <2>15, <2>16, <2>18,
       <2>19, <2>20, <2>21, <2>22 DEF Step, Work
<1>7. QED
  BY <1>3, <1>4, <1>5, <1>6 DEF Step, Work, HoldsLock, InspectMountPoint, ReadMountPoint,
     UnmountCorrupted, MakeDir, FcfsMount, ExecFcfsFused, BindMount, RemountBind, RemoveTarget,
     UnmountVolume, RemoveUnpublished, InspectStaging, CleanupMountPoint, RemoveCleaned, StatFS

LEMMA HandlerHost ==
    ASSUME LockInv, HostInv, NEW h \in Handlers, Receive(h) \/ Step(h)
    PROVE  HostInv'
<1>1. mounts \in [Paths -> Stacks] /\ HandlerShape /\ ControlTypes BY TypeParts DEF LockInv
<1>2. Others(h) BY <1>1, StepControl
<1>3. owed' = owed BY <1>1, HostEffect
<1>4. NoDebts' BY <1>3 DEF HostInv, NoDebts
<1>5. ASSUME NEW g \in Handlers, HoldsLock(g)', Guarded(Path(g))' PROVE View(g)'
  <2>1. CASE g = h BY <1>5, <2>1, OwnView
  <2>2. CASE g # h
    <3>1. req'[g] = req[g] /\ reply'[g] = reply[g] /\ pc'[g] = pc[g] BY <1>2, <2>2 DEF Others
    <3>2. HoldsLock(g) /\ Guarded(Path(g)) BY <1>5, <3>1 DEF HoldsLock, Guarded, Path
    <3>3. View(g) BY <3>2 DEF HostInv, ViewsInv
    <3>4. req[g] \in Requests BY <1>1, <3>2 DEF HandlerShape, Shape, HoldsLock
    <3>5. PICK q \in Paths : q = Path(g) /\ q = Path(g)' BY <1>1, <3>1, <3>4, ShownValues DEF Path
    <3>6. HoldsLock(h) => q[1] # VolumeId(req[h])
      BY <2>2, <3>2, <3>5 DEF LockInv, OneOperationPerVolume, VolumeId, Path
    <3>7. mounts'[q] = mounts[q] /\ (q \in dirs' <=> q \in dirs) BY <3>6, Locality
    <3>8. QED BY <3>1, <3>3, <3>5, <3>7 DEF View
  <2>3. QED BY <2>1, <2>2
<1>6. ViewsInv' BY <1>5 DEF ViewsInv
<1>7. QED BY <1>4, <1>6, PathsStep DEF HostInv

\* What the rest of the world does to a path: its mounts may be orphaned, an
\* unguarded one may get a new mount, a directory without mounts may go and
\* a staging directory may come.
EnvPath(p) ==
    /\ Guarded(p) => mounts'[p] \in {mounts[p], Orphaned(mounts[p])}
    /\ mounts'[p] # <<>> => p \in dirs'
    /\ p \in StagingPaths => NoBare(mounts'[p])
    /\ p \notin StagingPaths /\ p \notin dirs => p \notin dirs'

LEMMA EnvironmentPaths ==
    ASSUME LockInv, HostInv, Environment, NEW p \in Paths
    PROVE  EnvPath(p)
<1>1. mounts \in [Paths -> Stacks] /\ mounts[p] \in Stacks BY TypeParts DEF LockInv
<1>2. PathInv(p) BY DEF HostInv, PathsInv
<1>3. /\ Orphaned(mounts[p]) = <<>> <=> mounts[p] = <<>>
      /\ NoBare(mounts[p]) => NoBare(Orphaned(mounts[p]))
  BY <1>1, OrphanedStack
<1>4. ASSUME mounts'[p] \in {mounts[p], Orphaned(mounts[p])},
             mounts[p] # <<>> /\ p \in dirs => p \in dirs',
             p \notin StagingPaths /\ p \notin dirs => p \notin dirs'
      PROVE  EnvPath(p)
  BY <1>2, <1>3, <1>4 DEF EnvPath, PathInv
<1>5. CASE Crash BY <1>4, <1>5 DEF Crash
<1>6. CASE ProxyCrash BY <1>4, <1>6 DEF ProxyCrash
<1>7. ASSUME NEW v \in Volumes, DaemonDies(v) PROVE EnvPath(p)
  BY <1>4, <1>7 DEF DaemonDies, DaemonGone
<1>8. ASSUME NEW v \in Volumes, KubeletMakesDir(v) PROVE EnvPath(p)
  BY <1>4, <1>8, PathFacts DEF KubeletMakesDir
<1>9. ASSUME NEW q \in Paths, KubeletRemovesDir(q) PROVE EnvPath(p)
  BY <1>4, <1>9 DEF KubeletRemovesDir
<1>10. ASSUME NEW v \in Volumes, ProxyOwedMount(v) PROVE EnvPath(p)
  <2>1. dirs' = dirs /\ owed[v] > 0 BY <1>10 DEF ProxyOwedMount
  <2>2. Proxy BY <2>1 DEF HostInv, NoDebts
  <2>3. CASE UNCHANGED mounts BY <1>4, <2>1, <2>3
  <2>4. ASSUME NEW mounted \in BOOLEAN, FcfsFusedRestart(v, mounted) PROVE EnvPath(p)
    <3>1. PICK base \in Stacks : RestartResult(v, base, mounted) BY <1>1, <2>4, RestartEffect
    <3>2. CASE p # Staging(v)
      <4>1. mounts'[p] \in {mounts[p], Orphaned(mounts[p])} BY <3>1, <3>2 DEF RestartResult
      <4>2. QED BY <1>4, <2>1, <4>1
    <3>3. CASE p = Staging(v)
      <4>1. p \in StagingPaths /\ p \notin TargetPaths BY <3>3, PathFacts
      <4>2. NoBare(mounts[p]) /\ (mounts[p] # <<>> => p \in dirs) BY <1>2, <4>1 DEF PathInv
      <4>3. NoBare(mounts'[p]) /\ (mounts'[p] # <<>> => p \in dirs)
        BY <1>1, <2>4, <3>3, <4>2, RestartStack
      <4>4. QED BY <2>1, <2>2, <4>1, <4>3 DEF EnvPath, Guarded
    <3>4. QED BY <3>2, <3>3
  <2>5. QED BY <1>10, <2>3, <2>4 DEF ProxyOwedMount
<1>11. QED BY <1>5, <1>6, <1>7, <1>8, <1>9, <1>10 DEF Environment

\* The stack of a guarded path afterwards.
EnvStack(p) ==
    /\ mounts'[p] = <<>> <=> mounts[p] = <<>>
    /\ \/ Top(mounts'[p]) = Top(mounts[p])
       \/ Top(mounts[p]) = "live" /\ Top(mounts'[p]) = "dead"
    /\ TopOnly(mounts[p]) => TopOnly(mounts'[p])

LEMMA EnvironmentHost ==
    ASSUME LockInv, HostInv, Environment
    PROVE  HostInv'
<1>1. /\ mounts \in [Paths -> Stacks] /\ HandlerShape /\ ControlTypes
      /\ owed \in [Volumes -> 0..MaxOwed]
  BY TypeParts DEF LockInv
<1>2. \A p \in Paths : EnvPath(p) BY EnvironmentPaths
<1>3. \A h \in Handlers : EnvControl(h) BY <1>1, EnvironmentControl
<1>4. ASSUME NEW p \in Paths, Guarded(p) PROVE EnvStack(p)
  <2>1. mounts[p] \in Stacks BY <1>1
  <2>2. mounts'[p] \in {mounts[p], Orphaned(mounts[p])} BY <1>2, <1>4 DEF EnvPath
  <2>3. QED BY <2>1, <2>2, OrphanedStack DEF EnvStack
<1>5. PathsInv' BY <1>2, <1>4 DEF HostInv, PathsInv, PathInv, EnvPath, EnvStack, Guarded
<1>6. NoDebts'
  <2>1. owed' \in [Volumes -> 0..MaxOwed] /\ (~Proxy => \A v \in Volumes : owed'[v] <= owed[v])
    BY <1>1, OwedTypes
  <2>2. MaxOwed \in Nat BY NodeAssumption
  <2>3. QED BY <1>1, <2>1, <2>2 DEF HostInv, NoDebts
<1>7. ASSUME NEW h \in Handlers, HoldsLock(h)', Guarded(Path(h))' PROVE View(h)'
  <2>1. EnvControl(h) BY <1>3
  <2>2. CASE pc'[h] = "idle" BY <1>7, <2>2 DEF HoldsLock
  <2>3. CASE reply'[h] = "Internal" /\ pc'[h] = "release" BY <2>3, FreshView
  <2>4. CASE req'[h] = req[h] /\ reply'[h] = reply[h] /\ pc'[h] = pc[h]
    <3>1. HoldsLock(h) BY <1>7, <2>4 DEF HoldsLock
    <3>2. req[h] \in Requests BY <1>1, <3>1 DEF HandlerShape, Shape, HoldsLock
    <3>3. PICK q \in Paths : q = Path(h) /\ q = Path(h)' BY <1>1, <2>4, <3>2, ShownValues DEF Path
    <3>4. Guarded(q) BY <1>7, <3>3 DEF Guarded
    <3>5. View(h) BY <3>1, <3>3, <3>4 DEF HostInv, ViewsInv
    <3>6. req[h].op = "unpublish" => q \notin StagingPaths
      <4>1. req[h].op = "unpublish" => q \in TargetPaths BY <3>2, <3>3, RequestFacts DEF Path
      <4>2. QED BY <4>1, PathFacts
    <3>7. req[h].op = "unpublish" /\ q \notin dirs => q \notin dirs' BY <1>2, <3>6 DEF EnvPath
    <3>8. EnvStack(q) BY <1>4, <3>3, <3>4
    <3>9. QED BY <2>4, <3>3, <3>5, <3>7, <3>8 DEF View, EnvStack
  <2>5. QED BY <2>1, <2>2, <2>3, <2>4 DEF EnvControl
<1>8. ViewsInv' BY <1>7 DEF ViewsInv
<1>9. QED BY <1>5, <1>6, <1>8 DEF HostInv

LEMMA HostNext == LockInv /\ HostInv /\ [Next]_vars => HostInv'
<1>1. ASSUME HostInv, UNCHANGED vars PROVE HostInv'
  <2>1. PathsInv' BY <1>1 DEF HostInv, PathsInv, PathInv, Guarded, vars
  <2>2. ViewsInv' BY <1>1 DEF HostInv, ViewsInv, HoldsLock, View, Guarded, Path, vars
  <2>3. NoDebts' BY <1>1 DEF HostInv, NoDebts, vars
  <2>4. QED BY <2>1, <2>2, <2>3 DEF HostInv
<1>2. QED BY <1>1, HandlerHost, EnvironmentHost DEF Next

LEMMA HostInvariant == Spec => [](LockInv /\ HostInv)
  BY LockInit, LockNext, HostInit, HostNext, PTL DEF Spec

\* No request of the node service ever mounts over FastCFS: a mount of the
\* volume is only the top one of its path, so that one unmount finds it.
\* Any number of handlers, daemons that die at any moment and crashes of
\* the plugin and of the proxy are covered; with the proxy, this is about
\* the target paths.
THEOREM Unburied == Spec => []NothingBuried
<1>1. HostInv => NothingBuried
  BY PathFacts DEF HostInv, PathsInv, PathInv, Guarded, TopOnly, NothingBuried
<1>2. QED BY <1>1, HostInvariant, PTL

\* AnswersHold on the paths no late mount of the proxy can reach: all of them
\* when the plugin mounts by itself, the target paths otherwise.
GuardedAnswersHold ==
    \A h \in Handlers :
        pc[h] = "release" /\ reply[h] = "OK" /\ Guarded(Path(h)) =>
            /\ req[h].op \in {"stage", "publish"} => mounts[Path(h)] # <<>>
            /\ req[h].op \in {"unstage", "unpublish"} => mounts[Path(h)] = <<>>
            /\ req[h].op = "unpublish" => Path(h) \notin dirs

\* ChecksHold on the same paths.
GuardedChecksHold ==
    \A h \in Handlers : Guarded(Path(h)) =>
        /\ pc[h] = "unmount" => Shown(h) \in {"live", "dead"}
        /\ pc[h] \in {"fuse", "exec", "bind"} => Shown(h) \notin {"live", "dead"}

\* An OK answer of NodePublishVolume or NodeUnpublishVolume, and without
\* the proxy of NodeStageVolume or NodeUnstageVolume, still describes the
\* host when the lock is released; and what ensureMountPoint saw of the path
\* (FastCFS is mounted, or is not) still holds when the handler unmounts,
\* restarts fcfs_fused or binds.
THEOREM GuardedRequests == Spec => [](GuardedAnswersHold /\ GuardedChecksHold)
<1>1. HostInv => GuardedAnswersHold
  BY DEF HostInv, ViewsInv, View, HoldsLock, GuardedAnswersHold
<1>2. LockInv /\ HostInv => GuardedChecksHold
  <2> SUFFICES ASSUME LockInv, HostInv, NEW h \in Handlers, Guarded(Path(h)),
                      pc[h] \in {"unmount", "fuse", "exec", "bind"}
               PROVE  /\ pc[h] = "unmount" => Shown(h) \in {"live", "dead"}
                      /\ pc[h] \in {"fuse", "exec", "bind"} => Shown(h) \notin {"live", "dead"}
    BY DEF GuardedChecksHold
  <2>1. View(h) BY DEF HostInv, ViewsInv, HoldsLock
  <2>2. req[h] \in Requests BY DEF LockInv, HandlerShape, Shape
  <2>3. Path(h) \in Paths BY <2>2, RequestFacts DEF Path
  <2>4. mounts[Path(h)] # <<>> => Path(h) \in dirs BY <2>3 DEF HostInv, PathsInv, PathInv
  <2>5. Top(mounts[Path(h)]) \in {"live", "dead"} => Shown(h) = Top(mounts[Path(h)])
    BY <2>4 DEF Shown, Top
  <2>6. Top(mounts[Path(h)]) \in {"none", "bare"} => Shown(h) \notin {"live", "dead"}
    BY DEF Shown
  <2>7. QED BY <2>1, <2>5, <2>6 DEF View
<1>3. QED BY <1>1, <1>2, HostInvariant, PTL

\* Without the proxy every path is guarded: an OK answer to any request
\* describes the host when the handler is about to release the lock.
THEOREM AnswersCorrect ==
    ASSUME ~Proxy
    PROVE  Spec => []AnswersHold
<1>1. GuardedAnswersHold => AnswersHold BY DEF GuardedAnswersHold, AnswersHold, Guarded
<1>2. QED BY <1>1, GuardedRequests, PTL

\* Without the proxy no request acts on a stale look of ensureMountPoint: the
\* lock keeps the other handlers off the path, and a daemon that dies
\* leaves its mount where it was.
THEOREM ChecksCorrect ==
    ASSUME ~Proxy
    PROVE  Spec => []ChecksHold
<1>1. GuardedChecksHold => ChecksHold BY DEF GuardedChecksHold, ChecksHold, Guarded
<1>2. QED BY <1>1, GuardedRequests, PTL

-----------------------------------------------------------------------------
(* The moment of the decision                                              *)

\* The handler of an unstaging or of an unpublication decides for OK.
DecidesGone(h) ==
    req[h].op \in {"unstage", "unpublish"} /\ reply[h] = NoReply /\ reply'[h] = "OK"

\* A step that goes on, or decides for an error, is no decision for OK.
LEMMA NoDecision ==
    ASSUME ControlTypes, NEW h \in Handlers, DecidesGone(h), UNCHANGED req
    PROVE  /\ \A l \in Labels : ~Continue(h, l)
           /\ \A c \in Codes \ {"OK"} : ~Decide(h, c) /\ ~Refuse(h, c)
<1>1. NoReply # "OK" BY DEF NoReply
<1>2. ASSUME NEW l \in Labels, Continue(h, l) PROVE FALSE
  BY <1>1, <1>2, ContinueControl DEF DecidesGone
<1>3. ASSUME NEW c \in Codes \ {"OK"}, Decide(h, c) \/ Refuse(h, c) PROVE FALSE
  BY <1>3, DecideControl DEF DecidesGone
<1>4. QED BY <1>2, <1>3

\* Only the handlers that look at the path decide, and they decide on a path
\* without a mount: whatever the proxy did before, the last look was at the
\* mount table of this very step.
LEMMA OwnDecision ==
    ASSUME LockInv, HostInv, NEW h \in Handlers, Receive(h) \/ Step(h), DecidesGone(h)
    PROVE  mounts'[Path(h)] = <<>>
<1>1. mounts \in [Paths -> Stacks] /\ HandlerShape /\ ControlTypes BY TypeParts DEF LockInv
<1>2. Shape(h) BY <1>1 DEF HandlerShape
<1>3. pc[h] # "idle"
  <2>1. NoRequest.op = "none" BY DEF NoRequest
  <2>2. QED BY <1>2, <2>1 DEF Shape, DecidesGone
<1>4. pc[h] \notin {"release", "return"} BY <1>2 DEF Shape, DecidesGone
<1>5. req[h] \in Requests BY <1>2, <1>3 DEF Shape
<1>6. PICK q \in Paths : q = Path(h) /\ mounts[q] \in Stacks BY <1>1, <1>5, ShownValues
<1>7. PathInv(q) BY DEF HostInv, PathsInv
<1>8. Shown(h) = "missing" => mounts[q] = <<>>
  <2>1. Top(mounts[q]) # "missing" BY <1>6, TopValues
  <2>2. QED BY <1>6, <1>7, <2>1 DEF Shown, PathInv
<1>9. Removable(h) => mounts[q] = <<>> BY <1>6 DEF Removable
<1>c. /\ {"OK", "InvalidArgument", "NotFound", "Aborted", "Internal"} = Codes
      /\ {"InvalidArgument", "NotFound", "Aborted", "Internal"} = Codes \ {"OK"}
  BY DEF Codes
<1>n. req' = req => /\ \A l \in Labels : ~Continue(h, l)
                    /\ \A c \in Codes \ {"OK"} : ~Decide(h, c) /\ ~Refuse(h, c)
  BY <1>1, NoDecision
<1>10. CASE Validate(h) \/ AbortBusy(h) \/ RejectArguments(h)
  <2>1. (\E c \in Codes \ {"OK"} : Refuse(h, c)) \/ Continue(h, "lock")
    BY <1>1, <1>2, <1>10, <1>c, ValidateOutcome DEF Shape, AbortBusy, RejectArguments
  <2>2. QED BY <1>10, <1>n, <2>1 DEF Validate, AbortBusy, RejectArguments, Labels
<1>11. CASE AcquireLock(h)
  <2>1. PICK l \in {"umount", "statfs", "inspect"} : Continue(h, l) BY <1>11 DEF AcquireLock
  <2>2. QED BY <1>11, <1>n, <2>1 DEF AcquireLock, Labels
<1>12. CASE pc[h] \in {"readdir", "unmount", "makedir", "fuse", "exec", "bind", "remount",
                       "rmtarget", "statfs"}
  BY <1>2, <1>12 DEF Shape, DecidesGone
<1>13. CASE UnmountVolume(h) BY <1>13, <1>c, <1>n DEF UnmountVolume, Labels
<1>14. CASE RemoveUnpublished(h)
  BY <1>6, <1>8, <1>9, <1>14, <1>c, <1>n DEF RemoveUnpublished
<1>15. CASE InspectStaging(h)
  <2>1. /\ mounts' = mounts /\ req' = req /\ req[h].op = "unstage"
        /\ \/ \E c \in Codes \ {"OK"} : Decide(h, c)
           \/ Shown(h) \in {"none", "bare"} /\ Decide(h, "OK")
           \/ Continue(h, "cleanup")
    BY <1>1, <1>5, <1>15, InspectStagingOutcome DEF InspectStaging, host
  <2>2. Shown(h) \in {"none", "bare"} BY <1>n, <2>1 DEF Labels
  <2>3. q \in StagingPaths
    <3>1. VolumeId(req[h]) \in Volumes /\ q = Staging(VolumeId(req[h]))
      BY <1>5, <1>6, <2>1, RequestFacts DEF Path
    <3>2. QED BY <3>1, PathFacts
  <2>4. Top(mounts[q]) # "bare" BY <1>6, <1>7, <2>3, TopValues DEF PathInv
  <2>5. Shown(h) = Top(mounts[q]) BY <1>6, <2>2 DEF Shown
  <2>6. mounts[q] = <<>> BY <1>6, <2>2, <2>4, <2>5, TopValues
  <2>7. QED BY <1>6, <2>1, <2>6
<1>16. CASE CleanupMountPoint(h)
  <2>1. req' = req BY <1>16 DEF CleanupMountPoint
  <2>2. ~Continue(h, "rmdir") /\ ~Decide(h, "Internal") BY <1>c, <1>n, <2>1 DEF Labels
  <2>3. QED BY <1>6, <1>8, <1>9, <1>16, <2>2 DEF CleanupMountPoint
<1>17. CASE RemoveCleaned(h) BY <1>6, <1>9, <1>17, <1>c, <1>n DEF RemoveCleaned
<1>18. InspectMountPoint(h) => req[h].op \in {"stage", "publish"} BY DEF InspectMountPoint
<1>19. QED
  BY <1>3, <1>4, <1>10, <1>11, <1>12, <1>13, <1>14, <1>15, <1>16, <1>17, <1>18
  DEF Step, Work, Receive, Accept, ReadMountPoint, UnmountCorrupted, MakeDir, FcfsMount,
      ExecFcfsFused, BindMount, RemountBind, RemoveTarget, StatFS, ReleaseLock, Return, DecidesGone

LEMMA DecisionStep ==
    ASSUME LockInv, HostInv, Next, NEW h \in Handlers, DecidesGone(h)
    PROVE  mounts'[Path(h)] = <<>>
<1>1. mounts \in [Paths -> Stacks] /\ HandlerShape /\ ControlTypes BY TypeParts DEF LockInv
<1>2. NoReply # "OK" BY DEF NoReply
<1>3. ~Environment
  <2>1. Environment => EnvControl(h) BY <1>1, EnvironmentControl
  <2>2. QED BY <1>2, <2>1 DEF EnvControl, DecidesGone
<1>4. PICK g \in Handlers : Receive(g) \/ Step(g) BY <1>3 DEF Next
<1>5. g = h
  <2>1. Others(g) BY <1>1, <1>4, StepControl
  <2>2. QED BY <1>2, <2>1 DEF Others, DecidesGone
<1>6. QED BY <1>4, <1>5, OwnDecision

\* When NodeUnstageVolume or NodeUnpublishVolume decides to answer OK, its
\* path has no mount, with the proxy too: a mount of the proxy that comes
\* late can undo this later, but no answer is OK in spite of one.
THEOREM GoneWhenDecided == Spec => UnmountedWhenDecided
<1> DEFINE Decisions == \A h \in Handlers : DecidesGone(h) => mounts'[Path(h)] = <<>>
<1>1. LockInv /\ HostInv /\ [Next]_vars => [Decisions]_vars BY DecisionStep
<1>2. Spec => [][Decisions]_vars BY <1>1, HostInvariant, PTL DEF Spec
<1>3. QED BY <1>2 DEF UnmountedWhenDecided, DecidesGone
=============================================================================
