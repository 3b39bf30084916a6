------------------------------- MODULE Mounts -------------------------------
(***************************************************************************)
(* What the node plugin sees of the host's mount table through stat,       *)
(* mount(8), umount(8) and rmdir.  The mounts of a path form a stack, and  *)
(* only its top is visible.  A mount is                                    *)
(*   "live"  the FastCFS file system of the volume, its daemon running;    *)
(*   "dead"  the same after the daemon is gone (ENOTCONN);                 *)
(*   "bare"  a bind of a plain directory, which has the device of its      *)
(*           parent, so that IsLikelyNotMountPoint does not see it.        *)
(***************************************************************************)
EXTENDS Sequences, Naturals

FileSystems == {"live", "dead", "bare"}

Mount == [fs : FileSystems, ro : BOOLEAN]

NewMount(fs) == [fs |-> fs, ro |-> FALSE]

\* What a path shows: the file system on top of its stack, or "none".
Top(stack) == IF stack = <<>> THEN "none" ELSE stack[Len(stack)].fs

\* umount(8) takes the top mount away.
Pop(stack) == SubSeq(stack, 1, Len(stack) - 1)

\* The second command of a bind mount, which sets the flags of the top one.
Remounted(stack, ro) == [stack EXCEPT ![Len(stack)].ro = ro]

\* The daemon goes away under every mount it serves.
Orphaned(stack) ==
    [i \in DOMAIN stack |->
        IF stack[i].fs = "live" THEN [stack[i] EXCEPT !.fs = "dead"] ELSE stack[i]]

\* IsLikelyNotMountPoint of an existing path: a mount with a device of its
\* own; stat fails on a dead one.
IsMountPoint(stack) == Top(stack) = "live"
IsCorrupted(stack) == Top(stack) = "dead"
=============================================================================
