--------------------------- MODULE VolumeOptions ---------------------------
(***************************************************************************)
(* What the driver makes of the strings and numbers of a request:          *)
(* pkg/fcfs-driver/volumeoptions.go and its callers.  CreateVolume encodes *)
(* cluster, user and pool in the volume id, rounds the size and picks a    *)
(* topology; from then on the id is all that later requests have:          *)
(* DeleteVolume, ControllerExpandVolume and NodeStageVolume decode it, and *)
(* only NodeStageVolume takes an id that does not decode for the name of a *)
(* pool made by hand.  This is one volume, handled by one request after    *)
(* the other.                                                              *)
(*                                                                         *)
(* CreateVolume rounds the size twice: the bytes by RoundOffBytes when the *)
(* options are built, the result by RoundUpGiB for the command.            *)
(* ControllerExpandVolume rounds the raw bytes once for each purpose.      *)
(* limit_bytes is never read, so a request that only sets limit_bytes      *)
(* arrives here as 0 bytes.                                                *)
(***************************************************************************)
EXTENDS Sizes, VolumeID, Topology

CONSTANTS
    CreateRequests,  \* identifier, size, labels and topologies asked for
    StaticHandles,   \* ids written by hand into a PersistentVolume
    ExpandBytes,     \* required_bytes of ControllerExpandVolume
    NoIdentifier,    \* the id was not composed
    ContextPath      \* the config base path of the volume context

\* A list of topologies, and a nil map differs from what one of them says of
\* the labels.
IsList(labels, list) ==
    /\ list \in Seq({list[i] : i \in DOMAIN list})
    /\ \A i \in DOMAIN list :
          labels \subseteq DOMAIN list[i] => NoTopology # [l \in labels |-> list[i][l]]

ASSUME VolumeOptionsAssumption ==
    /\ \A r \in CreateRequests :
          /\ r.cid \in Identifiers /\ r.bytes \in 0..(IntLimit - 1)
          /\ IsList(r.asked.labels, r.asked.preferred)
          /\ IsList(r.asked.labels, r.asked.requisite)
    /\ ExpandBytes \subseteq 0..(IntLimit - 1)
    /\ NoIdentifier \notin Identifiers

VARIABLES
    cid,       \* what the id was composed of
    id,        \* the volume id, a text
    op,        \* the last request
    answer,    \* its outcome: "OK", "error" or "panic"
    options,   \* the VolumeOptions it worked with
    bytes,     \* its required_bytes, 0 if it has none
    quota,     \* the quota it gave to fcfs_pool, in GiB
    reported,  \* capacity_bytes of the answer
    asked,     \* the labels and topologies it asked for
    topology   \* the topology of the answer

volume == <<cid, id>>
size == <<bytes, quota, reported>>
place == <<asked, topology>>
vars == <<cid, id, op, answer, options, bytes, quota, reported, asked, topology>>

NoText == [len |-> 0, num |-> <<>>]
NoOptions == [outcome |-> "none"]
NothingAsked == [labels |-> {}, preferred |-> <<>>, requisite |-> <<>>]

Init ==
    /\ cid = NoIdentifier /\ id = NoText
    /\ op = "none" /\ answer = "none" /\ options = NoOptions
    /\ bytes = 0 /\ quota = 0 /\ reported = 0
    /\ asked = NothingAsked /\ topology = NoTopology

-----------------------------------------------------------------------------

\* newVolumeOptions: the fields of the identifier as they stand in the id.
newVolumeOptions(c) ==
    [outcome |-> "ok", config |-> ClusterSpan(c), pool |-> NameSpan(c), pre |-> FALSE]

\* NewVolOptionsFromVolID: whatever the decoder finds.
NewVolOptionsFromVolID(text) ==
    LET d == DecomposeCSIID(text) IN
    IF d.outcome # "ok" THEN [outcome |-> d.outcome]
    ELSE [outcome |-> "ok", config |-> d.cluster, pool |-> d.name, pre |-> FALSE]

\* Mutant: the options of a static volume are not marked as such.
NewVolOptionsFromStaticUnmarked(text, context) ==
    IF context.static # "true" \/ ~context.basePath THEN [outcome |-> "error"]
    ELSE [outcome |-> "ok", config |-> ContextPath, pool |-> Span(0, text.len), pre |-> FALSE]

\* NewVolOptionsFromStatic: the whole handle is the pool, if the volume
\* context says so and names a config base path.
NewVolOptionsFromStatic(text, context) ==
    IF context.static # "true" \/ ~context.basePath THEN [outcome |-> "error"]
    ELSE [outcome |-> "ok", config |-> ContextPath, pool |-> Span(0, text.len), pre |-> TRUE]

\* The volume contexts that NewVolOptionsFromStatic tells apart.
Contexts == [static : {"true", "false", "garbage", "absent"}, basePath : BOOLEAN]

\* GetCredentialsForVolume: the pair of secrets a mount needs.
GetCredentialsForVolume(pre) == IF pre THEN "user" ELSE "admin"

-----------------------------------------------------------------------------

\* Mutant: the answer is the unrounded request.
CreateVolumeEcho(r) ==
    /\ cid = NoIdentifier /\ id = NoText
    /\ op' = "create" /\ answer' = "OK"
    /\ cid' = r.cid /\ id' = ComposeCSIID(r.cid)
    /\ options' = newVolumeOptions(r.cid)
    /\ bytes' = r.bytes
    /\ quota' = RoundUpGiB(RoundOffBytes(r.bytes))
    /\ reported' = r.bytes
    /\ UNCHANGED place

\* CreateVolume of a pool that does not exist yet.
CreateVolume(r) ==
    /\ cid = NoIdentifier /\ id = NoText
    /\ op' = "create"
    /\ \/ /\ r.cid.cluster = 0 \/ TooLong(r.cid)
          /\ answer' = "error"
          /\ UNCHANGED <<volume, options, size, place>>
       \/ /\ r.cid.cluster # 0 /\ ~TooLong(r.cid)
          /\ answer' = "OK"
          /\ cid' = r.cid
          /\ id' = ComposeCSIID(r.cid)
          /\ options' = newVolumeOptions(r.cid)
          /\ bytes' = r.bytes
          /\ quota' = RoundUpGiB(RoundOffBytes(r.bytes))
          /\ reported' = RoundOffBytes(r.bytes)
          /\ asked' = r.asked
          /\ topology' = GetTopologyFromParams(r.asked.labels, r.asked)

\* External: an administrator writes a PersistentVolume for an existing pool.
WriteHandle(handle) ==
    /\ cid = NoIdentifier /\ id = NoText
    /\ id' = handle
    /\ op' = "write" /\ answer' = "OK"
    /\ UNCHANGED <<cid, options, size, place>>

\* The request has no size, or gets none; it has no topologies.
NoSize == bytes' = 0 /\ quota' = 0 /\ reported' = 0
NoPlace == asked' = NothingAsked /\ topology' = NoTopology

\* The outcome of a request that works with the options vo.
Outcome(vo) == IF vo.outcome = "ok" THEN "OK"
               ELSE IF vo.outcome = "panic" THEN "panic" ELSE "error"

\* ControllerExpandVolume and ResizeVolume.
ResizeVolume(b) ==
    LET vo == NewVolOptionsFromVolID(id) IN
    /\ id # NoText
    /\ op' = "expand" /\ answer' = Outcome(vo) /\ options' = vo
    /\ \/ /\ vo.outcome = "ok"
          /\ bytes' = b
          /\ quota' = RoundUpGiB(b)
          /\ reported' = RoundOffBytes(b)
       \/ /\ vo.outcome # "ok"
          /\ NoSize
    /\ NoPlace
    /\ UNCHANGED volume

\* DeleteVolume, up to the command that names the pool.
DeleteVolume ==
    LET vo == NewVolOptionsFromVolID(id) IN
    /\ id # NoText
    /\ op' = "delete" /\ answer' = Outcome(vo) /\ options' = vo
    /\ NoSize /\ NoPlace
    /\ UNCHANGED volume

\* NodeStageVolume, up to the fcfs_fused command: only an id that does not
\* decode is tried as a static volume.  secrets names the pair present.
NodeStageVolume(context, secrets) ==
    LET decoded == NewVolOptionsFromVolID(id)
        vo == IF decoded.outcome = "invalid"
              THEN NewVolOptionsFromStatic(id, context)
              ELSE decoded
    IN
    /\ id # NoText
    /\ op' = "stage"
    /\ options' = vo
    /\ answer' = IF vo.outcome = "ok" /\ secrets # GetCredentialsForVolume(vo.pre)
                 THEN "error" ELSE Outcome(vo)
    /\ NoSize /\ NoPlace
    /\ UNCHANGED volume

Next ==
    \/ \E r \in CreateRequests : CreateVolume(r)
    \/ \E handle \in StaticHandles : WriteHandle(handle)
    \/ \E b \in ExpandBytes : ResizeVolume(b)
    \/ DeleteVolume
    \/ \E context \in Contexts, secrets \in {"admin", "user"} :
          NodeStageVolume(context, secrets)

Spec == Init /\ [][Next]_vars

-----------------------------------------------------------------------------

\* The last size asked for is one that float64 represents exactly; a
\* creation may also name none.
ExactRequest ==
    /\ op \in {"create", "expand"} /\ answer = "OK"
    /\ bytes <= FloatExact
    /\ op = "expand" => bytes > 0

\* The two roundings agree: the capacity reported by CreateVolume and by
\* ControllerExpandVolume is the quota that fcfs_pool was given.
AnswerIsQuota == ExactRequest => reported = GiBToBytes(quota)

\* The quota is the least whole number of GiB that holds the request, and
\* never 0: nothing is lost and no GiB too many is handed out by rounding
\* twice.
QuotaIsLeast ==
    ExactRequest =>
        /\ quota >= 1
        /\ GiBToBytes(quota) >= bytes
        /\ bytes > 0 => GiBToBytes(quota - 1) < bytes

\* Beyond the exact floats, up to the last whole GiB of int64, the quota is
\* short of the request by at most half the distance of two floats, and
\* never a GiB too large.
RoundingErrorBounded ==
    FloatExact < bytes /\ bytes <= IntLimit - GiB =>
        /\ 2 * (bytes - GiBToBytes(quota)) <= Ulp(bytes)
        /\ GiBToBytes(quota) < bytes + GiB

\* Every later request for a volume that CreateVolume made works on the pool
\* and the cluster it was made in: the id decodes, without a panic and
\* without being taken for a static volume, whatever lengths and characters
\* its three fields have.
SamePool == cid # NoIdentifier => options = newVolumeOptions(cid)

\* A handle that does not begin with four hexadecimal digits is staged as
\* the pool of that name, with the user's key, or not at all.
StaticIsStatic ==
    cid = NoIdentifier /\ op = "stage" /\ id.len >= 4 /\ id.num[0] = NotHex =>
        /\ answer # "panic"
        /\ answer = "OK" =>
              /\ options.pool = Span(0, id.len) /\ options.config = ContextPath
              /\ GetCredentialsForVolume(options.pre) = "user"

\* When every topology asked for carries all the labels, the volume is
\* placed in one of them, a preferred one if there is one, and not in a mix:
\* labels are looked up one by one, in the same topology each time.
PlacedInOne ==
    LET lists == <<asked.preferred, asked.requisite>>
        Complete(list) == \A i \in DOMAIN list : asked.labels \subseteq DOMAIN list[i]
        Candidates == IF asked.preferred # <<>> THEN asked.preferred ELSE asked.requisite
    IN  Complete(lists[1]) /\ Complete(lists[2]) /\ asked.labels # {} /\ Candidates # <<>> =>
            \E i \in DOMAIN Candidates :
                topology = [l \in asked.labels |-> Candidates[i][l]]

\* What the static provisioning guide says of volumeHandle (the name of the
\* FastCFS pool to use): a handle with a complete volume context is staged
\* as the pool of that name.
HandleIsPool ==
    [][\A context \in Contexts :
          /\ cid = NoIdentifier /\ context.static = "true" /\ context.basePath
          /\ NodeStageVolume(context, "user")
          => answer' = "OK" /\ options'.pool = Span(0, id.len)]_vars
=============================================================================
