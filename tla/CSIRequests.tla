---------------------------- MODULE CSIRequests ----------------------------
(***************************************************************************)
(* The controller requests of the CSI interface as the driver reads them,  *)
(* and the answers it gives.  A volume id is what ComposeCSIID makes of a  *)
(* cluster (the config base path of the storage class) and a request name; *)
(* the codec is abstracted to the injective pair (VolumeOptions has the    *)
(* codec).  Ids of pre-provisioned volumes (StaticHandles) do not decode.  *)
(*                                                                         *)
(* Sizes stay in the range of exact float64 integers, and an expansion     *)
(* names a size: VolumeOptions covers what happens outside.                *)
(***************************************************************************)
EXTENDS Sizes

CONSTANTS
    Handlers,       \* gRPC server goroutines, one request at a time each
    Clusters,       \* config base paths of the storage classes
    Names,          \* CreateVolume request names
    StaticHandles,  \* volume ids that ComposeCSIID did not make
    CreateBytes,    \* required_bytes of CreateVolume
    ExpandBytes,    \* required_bytes of ControllerExpandVolume
    Absent          \* no pool of that name in the cluster

ASSUME RequestsAssumption ==
    /\ CreateBytes \subseteq 0..FloatExact
    /\ ExpandBytes \subseteq 1..FloatExact
    /\ Absent \notin Int
    /\ StaticHandles \cap (Clusters \X Names) = {}

\* The ids of dynamically provisioned volumes, one per pool.
ComposedIDs == Clusters \X Names
VolumeIDs == ComposedIDs \cup StaticHandles

\* NewVolOptionsFromVolID succeeds.
Decodes(id) == id \in ComposedIDs

CreateRequests == [op : {"create"}, vol : ComposedIDs, bytes : CreateBytes]
DeleteRequests == [op : {"delete"}, vol : VolumeIDs, bytes : {0}]
ExpandRequests == [op : {"expand"}, vol : VolumeIDs, bytes : ExpandBytes]
Requests == CreateRequests \cup DeleteRequests \cup ExpandRequests

NoRequest == [op |-> "none", vol |-> Absent, bytes |-> 0]

\* Answers.  capacity is CapacityBytes of the response, 0 where it has none.
OK(capacity) == [code |-> "OK", capacity |-> capacity]
Error(code) == [code |-> code, capacity |-> 0]
NoReply == [code |-> "none", capacity |-> 0]
ErrorCodes == {"Aborted", "Internal", "InvalidArgument"}
Replies == [code : ErrorCodes \cup {"OK", "none"}, capacity : Int]

-----------------------------------------------------------------------------

\* Quota, in GiB, that CreateVolume asks for: newVolumeOptions rounds the
\* bytes, cfs.CreateVolume rounds the result.
CreateQuota(r) == RoundUpGiB(RoundOffBytes(r.bytes))

\* Mutant: the size is rounded to GiB once too often.
ExpandQuotaTwice(r) == RoundUpGiB(RoundUpGiB(r.bytes))

\* Quota that ResizeVolume asks for: the raw bytes are rounded.
ExpandQuota(r) == RoundUpGiB(r.bytes)

\* The successful answer to each request.
Success(r) ==
    IF r.op = "delete" THEN OK(0) ELSE OK(RoundOffBytes(r.bytes))
=============================================================================
