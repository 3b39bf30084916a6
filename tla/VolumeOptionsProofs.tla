------------------------ MODULE VolumeOptionsProofs ------------------------
(***************************************************************************)
(* For every allocation unit, every width of the cursor and all lengths of *)
(* the fields: CreateVolume and ControllerExpandVolume report the quota    *)
(* they ask for, and an id leads every later request to the pool it was    *)
(* composed for.                                                           *)
(***************************************************************************)
EXTENDS VolumeOptions, SizesProofs

\* A size that CreateVolume or ResizeVolume has rounded.
Rounded ==
    /\ bytes' \in 0..(IntLimit - 1)
    /\ reported' = RoundOffBytes(bytes')
    /\ \/ op' = "create" /\ quota' = RoundUpGiB(RoundOffBytes(bytes'))
       \/ op' = "expand" /\ quota' = RoundUpGiB(bytes')

\* Rounding leaves a quota that is least and reported truthfully.
LEMMA RoundedEstablishes ==
    ASSUME Rounded
    PROVE  AnswerIsQuota' /\ QuotaIsLeast'
<1> DEFINE b == bytes'
<1>0. b \in Nat /\ GiB \in Nat \ {0} /\ FloatExact \in Nat
  BY SizesAssumption DEF Rounded
<1>1. CASE b \in 1..FloatExact
  <2> DEFINE n == RoundUpGiB(b)
  <2>1. quota' = n /\ reported' = n * GiB
    BY <1>1, RoundOffIsRoundUp, RoundTwice DEF Rounded
  <2>2. n \in Nat /\ n >= 1 /\ n * GiB >= b /\ (n - 1) * GiB < b
    BY <1>1, RoundUpLeast, SizesAssumption
  <2> HIDE DEF n
  <2>3. QED BY <1>0, <2>1, <2>2 DEF AnswerIsQuota, QuotaIsLeast, GiBToBytes
<1>2. CASE b = 0 /\ op' = "create"
  <2>1. quota' = 1 /\ reported' = GiB
    BY <1>2, RoundOffOfZero, RoundUpOfUnit DEF Rounded
  <2>2. QED BY <1>0, <1>2, <2>1 DEF AnswerIsQuota, QuotaIsLeast, GiBToBytes
<1>3. CASE b > FloatExact \/ (b = 0 /\ op' = "expand")
  <2>1. ~ExactRequest' BY <1>0, <1>3 DEF ExactRequest
  <2>2. QED BY <2>1 DEF AnswerIsQuota, QuotaIsLeast
<1>4. QED BY <1>0, <1>1, <1>2, <1>3 DEF Rounded

\* A step that is no successful creation or expansion claims nothing.
LEMMA UnsizedEstablishes ==
    ASSUME op' \notin {"create", "expand"} \/ answer' # "OK"
    PROVE  AnswerIsQuota' /\ QuotaIsLeast'
  BY DEF ExactRequest, AnswerIsQuota, QuotaIsLeast

\* Whatever sizes are asked for, a request that names one within the exact
\* float64 range (a creation may name none) is answered with the quota that
\* fcfs_pool was given, and that quota is the least one that holds it.
THEOREM SizesAreTruthful == Spec => [](AnswerIsQuota /\ QuotaIsLeast)
<1> DEFINE Inv == AnswerIsQuota /\ QuotaIsLeast
<1>1. Init => Inv BY DEF Init, ExactRequest, AnswerIsQuota, QuotaIsLeast
<1>2. Inv /\ [Next]_vars => Inv'
  <2> SUFFICES ASSUME Inv, [Next]_vars PROVE Inv' OBVIOUS
  <2>1. ASSUME NEW r \in CreateRequests, CreateVolume(r) PROVE Inv'
    <3>1. CASE answer' = "error" BY <3>1, UnsizedEstablishes
    <3>2. CASE answer' = "OK"
      <4>1. Rounded BY <2>1, <3>2, VolumeOptionsAssumption DEF CreateVolume, Rounded
      <4>2. QED BY <4>1, RoundedEstablishes
    <3>3. QED BY <2>1, <3>1, <3>2 DEF CreateVolume
  <2>2. ASSUME NEW handle \in StaticHandles, WriteHandle(handle) PROVE Inv'
    BY <2>2, UnsizedEstablishes DEF WriteHandle
  <2>3. ASSUME NEW b \in ExpandBytes, ResizeVolume(b) PROVE Inv'
    <3>1. CASE NewVolOptionsFromVolID(id).outcome = "ok"
      <4>1. Rounded BY <2>3, <3>1, VolumeOptionsAssumption DEF ResizeVolume, Rounded
      <4>2. QED BY <4>1, RoundedEstablishes
    <3>2. CASE NewVolOptionsFromVolID(id).outcome # "ok"
      <4>1. answer' # "OK" BY <2>3, <3>2 DEF ResizeVolume, Outcome
      <4>2. QED BY <4>1, UnsizedEstablishes
    <3>3. QED BY <3>1, <3>2
  <2>4. ASSUME DeleteVolume PROVE Inv'
    BY <2>4, UnsizedEstablishes DEF DeleteVolume
  <2>5. ASSUME NEW context \in Contexts, NEW secrets \in {"admin", "user"},
               NodeStageVolume(context, secrets)
        PROVE  Inv'
    BY <2>5, UnsizedEstablishes DEF NodeStageVolume
  <2>6. CASE UNCHANGED vars
    BY <2>6 DEF vars, ExactRequest, AnswerIsQuota, QuotaIsLeast
  <2>7. QED BY <2>1, <2>2, <2>3, <2>4, <2>5, <2>6 DEF Next
<1>3. QED BY <1>1, <1>2, PTL DEF Spec

-----------------------------------------------------------------------------

\* An identifier that ComposeCSIID accepts.
Accepted(c) == c \in Identifiers /\ ~TooLong(c)

\* One call of next, at an offset where a length stands.
LEMMA NextFieldReads ==
    ASSUME NEW text, NEW i \in Nat, NEW n \in Nat,
           text.num[i] = n, text.len \in Nat,
           i + 5 + n <= text.len, text.len + 1 < Word
    PROVE  NextField(text, i) =
               [outcome |-> "ok", span |-> Span(i + 5, i + 5 + n), cursor |-> i + 6 + n]
<1>1. Word \in Nat /\ n # NotHex BY VolumeIDAssumption
<1>2. /\ (i + 4) % Word = i + 4
      /\ (i + 5) % Word = i + 5
      /\ (i + 5 + n) % Word = i + 5 + n
      /\ (i + 5 + n + 1) % Word = i + 6 + n
  BY <1>1
<1>3. InBounds(text, i, i + 4) /\ InBounds(text, i + 5, i + 5 + n)
  BY DEF InBounds
<1>4. QED BY <1>1, <1>2, <1>3 DEF NextField

\* The encoded string: its length and the three numbers in it.
LEMMA Composed ==
    ASSUME NEW c, Accepted(c)
    PROVE  LET text == ComposeCSIID(c) IN
           /\ text.len \in Nat
           /\ text.len = 17 + c.cluster + c.user + c.name
           /\ text.len <= MaxVolIDLen + 2
           /\ text.num[0] = c.cluster
           /\ text.num[6 + c.cluster] = c.user
           /\ text.num[12 + c.cluster + c.user] = c.name
<1>1. c.cluster \in Nat /\ c.user \in Nat /\ c.name \in Nat
  BY DEF Accepted, Identifiers
<1>2. /\ UserAt(c) = 6 + c.cluster
      /\ NameAt(c) = 12 + c.cluster + c.user
  BY <1>1 DEF UserAt, NameAt
<1>3. 15 + c.cluster + c.user + c.name <= MaxVolIDLen
  BY <1>1, VolumeIDAssumption DEF Accepted, TooLong, IDLen
<1> DEFINE len == 17 + c.cluster + c.user + c.name
<1>4. ComposeCSIID(c).len = len BY <1>1, <1>2 DEF ComposeCSIID
<1>5. ComposeCSIID(c).num =
         [i \in 0..len |-> CASE i = 0 -> c.cluster
                             [] i = 6 + c.cluster -> c.user
                             [] i = 12 + c.cluster + c.user -> c.name
                             [] OTHER -> c.chars]
  BY <1>1, <1>2 DEF ComposeCSIID
<1>6. /\ 0 \in 0..len /\ 6 + c.cluster \in 0..len
      /\ 12 + c.cluster + c.user \in 0..len
      /\ 6 + c.cluster # 0 /\ 12 + c.cluster + c.user # 0
      /\ 12 + c.cluster + c.user # 6 + c.cluster
  BY <1>1
<1>7. /\ ComposeCSIID(c).num[0] = c.cluster
      /\ ComposeCSIID(c).num[6 + c.cluster] = c.user
      /\ ComposeCSIID(c).num[12 + c.cluster + c.user] = c.name
  BY <1>5, <1>6
<1>8. QED BY <1>1, <1>3, <1>4, <1>7, VolumeIDAssumption

\* DecomposeCSIID finds the fields where ComposeCSIID put them.
LEMMA RoundTrip ==
    ASSUME NEW c, Accepted(c)
    PROVE  NewVolOptionsFromVolID(ComposeCSIID(c)) = newVolumeOptions(c)
<1> DEFINE text == ComposeCSIID(c)
           i == 6 + c.cluster
           j == 12 + c.cluster + c.user
<1>1. c.cluster \in Nat /\ c.user \in Nat /\ c.name \in Nat
  BY DEF Accepted, Identifiers
<1>2. /\ text.len \in Nat
      /\ text.len = 17 + c.cluster + c.user + c.name
      /\ text.len + 1 < Word
      /\ text.num[0] = c.cluster /\ text.num[i] = c.user /\ text.num[j] = c.name
  BY <1>1, Composed, VolumeIDAssumption
<1> HIDE DEF text
<1>3. NextField(text, 0) =
         [outcome |-> "ok", span |-> Span(5, 5 + c.cluster), cursor |-> i]
  <2>1. NextField(text, 0) = [outcome |-> "ok", span |-> Span(0 + 5, 0 + 5 + c.cluster),
                              cursor |-> 0 + 6 + c.cluster]
    BY <1>1, <1>2, NextFieldReads
  <2>2. QED BY <1>1, <2>1
<1>4. NextField(text, i) =
         [outcome |-> "ok", span |-> Span(i + 5, i + 5 + c.user), cursor |-> j]
  <2>1. NextField(text, i) = [outcome |-> "ok", span |-> Span(i + 5, i + 5 + c.user),
                              cursor |-> i + 6 + c.user]
    BY <1>1, <1>2, NextFieldReads
  <2>2. QED BY <1>1, <2>1
<1>5. NextField(text, j) =
         [outcome |-> "ok", span |-> Span(j + 5, j + 5 + c.name), cursor |-> j + 6 + c.name]
  BY <1>1, <1>2, NextFieldReads
<1>6. DecomposeCSIID(text) =
         [outcome |-> "ok", cluster |-> Span(5, 5 + c.cluster),
          user |-> Span(i + 5, i + 5 + c.user), name |-> Span(j + 5, j + 5 + c.name)]
  BY <1>3, <1>4, <1>5 DEF DecomposeCSIID
<1>7. NameSpan(c) = Span(j + 5, j + 5 + c.name) /\ ClusterSpan(c) = Span(5, 5 + c.cluster)
  BY <1>1 DEF NameSpan, NameAt, UserAt, ClusterSpan
<1>8. QED BY <1>6, <1>7 DEF text, NewVolOptionsFromVolID, newVolumeOptions

\* The inductive invariant: an id with an identifier is what ComposeCSIID
\* made of it, and the last request worked with its options.
Identified ==
    cid # NoIdentifier =>
        /\ Accepted(cid)
        /\ id = ComposeCSIID(cid)
        /\ options = newVolumeOptions(cid)

\* Every request for a volume that CreateVolume made works with the cluster
\* and the pool it was made in, whatever the lengths of the three fields and
\* the characters in them are, and also when the id is longer than
\* maxVolIDLen: the cursor of the decoder does not wrap.
THEOREM IdLeadsToPool == Spec => []SamePool
<1>1. Init => Identified BY DEF Init, Identified
<1>2. Identified /\ [Next]_vars => Identified'
  <2> SUFFICES ASSUME Identified, [Next]_vars PROVE Identified' OBVIOUS
  <2>0. cid # NoIdentifier =>
           /\ NewVolOptionsFromVolID(id) = newVolumeOptions(cid)
           /\ newVolumeOptions(cid).outcome = "ok"
    BY RoundTrip DEF Identified, newVolumeOptions
  <2>1. ASSUME NEW r \in CreateRequests, CreateVolume(r) PROVE Identified'
    BY <2>1, VolumeOptionsAssumption DEF CreateVolume, Identified, Accepted, volume
  <2>2. ASSUME NEW handle \in StaticHandles, WriteHandle(handle) PROVE Identified'
    BY <2>2 DEF WriteHandle, Identified
  <2>3. ASSUME NEW b \in ExpandBytes, ResizeVolume(b) PROVE Identified'
    BY <2>0, <2>3 DEF ResizeVolume, Identified, volume
  <2>4. ASSUME DeleteVolume PROVE Identified'
    BY <2>0, <2>4 DEF DeleteVolume, Identified, volume
  <2>5. ASSUME NEW context \in Contexts, NEW secrets \in {"admin", "user"},
               NodeStageVolume(context, secrets)
        PROVE  Identified'
    BY <2>0, <2>5 DEF NodeStageVolume, Identified, volume
  <2>6. CASE UNCHANGED vars BY <2>6 DEF vars, Identified
  <2>7. QED BY <2>1, <2>2, <2>3, <2>4, <2>5, <2>6 DEF Next
<1>3. Identified => SamePool BY DEF Identified, SamePool
<1>4. QED BY <1>1, <1>2, <1>3, PTL DEF Spec


-----------------------------------------------------------------------------

\* A handle that does not begin with four hexadecimal digits is refused by
\* the decoder at its first field, without a slice out of bounds.
LEMMA NotDecoded ==
    ASSUME NEW text, text.len >= 4, text.num[0] = NotHex
    PROVE  NewVolOptionsFromVolID(text).outcome = "invalid"
<1>1. (0 + 4) % Word = 4 BY VolumeIDAssumption
<1>2. NextField(text, 0) = [outcome |-> "invalid"] BY <1>1 DEF NextField, InBounds
<1>3. QED BY <1>2 DEF NewVolOptionsFromVolID, DecomposeCSIID

\* NodeStageVolume stages a handle that cannot be decoded as the pool of that
\* name with the key of the user, or answers an error, whatever the volume
\* context and the secrets are.
THEOREM StaticHandlesStaged == Spec => []StaticIsStatic
<1>1. Init => StaticIsStatic BY DEF Init, StaticIsStatic
<1>2. StaticIsStatic /\ [Next]_vars => StaticIsStatic'
  <2> SUFFICES ASSUME StaticIsStatic, [Next]_vars PROVE StaticIsStatic' OBVIOUS
  <2>1. ASSUME NEW r \in CreateRequests, CreateVolume(r) PROVE op' # "stage"
    BY <2>1 DEF CreateVolume
  <2>2. ASSUME NEW handle \in StaticHandles, WriteHandle(handle) PROVE op' # "stage"
    BY <2>2 DEF WriteHandle
  <2>3. ASSUME NEW b \in ExpandBytes, ResizeVolume(b) PROVE op' # "stage"
    BY <2>3 DEF ResizeVolume
  <2>4. ASSUME DeleteVolume PROVE op' # "stage" BY <2>4 DEF DeleteVolume
  <2>5. ASSUME NEW context \in Contexts, NEW secrets \in {"admin", "user"},
               NodeStageVolume(context, secrets)
        PROVE  StaticIsStatic'
    <3> SUFFICES ASSUME id.len >= 4, id.num[0] = NotHex
                 PROVE  /\ answer' # "panic"
                        /\ answer' = "OK" =>
                              /\ options'.pool = Span(0, id.len)
                              /\ options'.config = ContextPath
                              /\ GetCredentialsForVolume(options'.pre) = "user"
      BY <2>5 DEF StaticIsStatic, NodeStageVolume, volume
    <3>1. options' = NewVolOptionsFromStatic(id, context)
      BY <2>5, NotDecoded DEF NodeStageVolume
    <3>2. answer' = IF options'.outcome = "ok" /\ secrets # GetCredentialsForVolume(options'.pre)
                    THEN "error" ELSE Outcome(options')
      BY <2>5 DEF NodeStageVolume
    <3>3. QED BY <3>1, <3>2 DEF NewVolOptionsFromStatic, Outcome, GetCredentialsForVolume
  <2>6. CASE UNCHANGED vars BY <2>6 DEF vars, StaticIsStatic
  <2>7. QED BY <2>1, <2>2, <2>3, <2>4, <2>5, <2>6 DEF Next, StaticIsStatic
<1>3. QED BY <1>1, <1>2, PTL DEF Spec

-----------------------------------------------------------------------------

\* When all topologies of a list have all labels, getTopology answers with
\* the last of them.
LEMMA LastTopology ==
    ASSUME NEW labels, NEW list, IsList(labels, list), labels # {}, list # <<>>,
           \A i \in DOMAIN list : labels \subseteq DOMAIN list[i]
    PROVE  /\ Len(list) \in DOMAIN list
           /\ getTopology(labels, list) = [l \in labels |-> list[Len(list)][l]]
           /\ getTopology(labels, list) # NoTopology
<1> DEFINE Having(l) == {i \in DOMAIN list : l \in DOMAIN list[i]}
           Last(l) == CHOOSE i \in Having(l) : \A j \in Having(l) : j <= i
<1>1. DOMAIN list = 1..Len(list) /\ Len(list) \in Nat /\ Len(list) # 0
  <2>1. list \in Seq({list[i] : i \in DOMAIN list}) BY DEF IsList
  <2>2. QED BY <2>1
<1>2. Len(list) \in DOMAIN list BY <1>1
<1>3. ASSUME NEW l \in labels PROVE Having(l) = DOMAIN list /\ Last(l) = Len(list)
  <2>1. Having(l) = DOMAIN list OBVIOUS
  <2>2. \A j \in 1..Len(list) : j <= Len(list) OBVIOUS
  <2>3. ASSUME NEW i \in 1..Len(list), \A j \in 1..Len(list) : j <= i PROVE i = Len(list)
    <3>1. PICK n \in Nat : n = Len(list) /\ n # 0 BY <1>1
    <3>2. i \in 1..n /\ n <= i BY <2>3, <3>1
    <3>3. QED BY <3>1, <3>2
  <2>4. QED BY <2>1, <2>2, <2>3, <1>1, <1>2
<1>4. {l \in labels : Having(l) # {}} = labels BY <1>2, <1>3
<1>5. getTopology(labels, list) = [l \in labels |-> list[Last(l)][l]]
  BY <1>4 DEF getTopology
<1>6. getTopology(labels, list) = [l \in labels |-> list[Len(list)][l]]
  BY <1>3, <1>5
<1>7. QED BY <1>2, <1>6 DEF IsList

LEMMA EmptyTopology ==
    ASSUME NEW labels
    PROVE  getTopology(labels, <<>>) = NoTopology
  BY DEF getTopology

\* The topology of CreateVolume's answer is that of one of the topologies
\* asked for, a preferred one if there is one, whenever each of them has all
\* the labels of the parameter domainLabels.
THEOREM Placed == Spec => []PlacedInOne
<1>1. Init => PlacedInOne BY DEF Init, NothingAsked, PlacedInOne
<1>2. PlacedInOne /\ [Next]_vars => PlacedInOne'
  <2> SUFFICES ASSUME PlacedInOne, [Next]_vars PROVE PlacedInOne' OBVIOUS
  <2>1. ASSUME UNCHANGED place PROVE PlacedInOne' BY <2>1 DEF place, PlacedInOne
  <2>2. ASSUME NoPlace PROVE PlacedInOne' BY <2>2 DEF NoPlace, NothingAsked, PlacedInOne
  <2>3. ASSUME NEW r \in CreateRequests, asked' = r.asked,
               topology' = GetTopologyFromParams(r.asked.labels, r.asked)
        PROVE  PlacedInOne'
    <3> DEFINE p == r.asked.preferred
               q == r.asked.requisite
               L == r.asked.labels
               Complete(list) == \A i \in DOMAIN list : L \subseteq DOMAIN list[i]
    <3>0. IsList(L, p) /\ IsList(L, q) BY VolumeOptionsAssumption
    <3>1. ASSUME Complete(p), L # {}, p # <<>>
          PROVE  \E i \in DOMAIN p : topology' = [l \in L |-> p[i][l]]
      BY <2>3, <3>0, <3>1, LastTopology DEF GetTopologyFromParams
    <3>2. ASSUME Complete(q), L # {}, p = <<>>, q # <<>>
          PROVE  \E i \in DOMAIN q : topology' = [l \in L |-> q[i][l]]
      BY <2>3, <3>0, <3>2, LastTopology, EmptyTopology DEF GetTopologyFromParams
    <3>3. QED BY <2>3, <3>1, <3>2 DEF PlacedInOne
  <2>4. ASSUME NEW r \in CreateRequests, CreateVolume(r) PROVE PlacedInOne'
    BY <2>1, <2>3, <2>4 DEF CreateVolume
  <2>5. ASSUME NEW handle \in StaticHandles, WriteHandle(handle) PROVE PlacedInOne'
    BY <2>1, <2>5 DEF WriteHandle
  <2>6. ASSUME NEW b \in ExpandBytes, ResizeVolume(b) PROVE PlacedInOne'
    BY <2>2, <2>6 DEF ResizeVolume
  <2>7. ASSUME DeleteVolume PROVE PlacedInOne' BY <2>2, <2>7 DEF DeleteVolume
  <2>8. ASSUME NEW context \in Contexts, NEW secrets \in {"admin", "user"},
               NodeStageVolume(context, secrets)
        PROVE  PlacedInOne'
    BY <2>2, <2>8 DEF NodeStageVolume
  <2>9. CASE UNCHANGED vars BY <2>1, <2>9 DEF vars, place
  <2>10. QED BY <2>4, <2>5, <2>6, <2>7, <2>8, <2>9 DEF Next
<1>3. QED BY <1>1, <1>2, PTL DEF Spec


-----------------------------------------------------------------------------

\* The quota of a size beyond the exact floats is never a unit too large and
\* short of the request by half the distance of two floats at most, for every
\* int64 up to the last whole unit: the multiplication in RoundOffBytes does
\* not overflow before.
THEOREM RoundingBounded == Spec => []RoundingErrorBounded
<1>1. Init => RoundingErrorBounded
  BY SizesAssumption DEF Init, RoundingErrorBounded
<1>2. RoundingErrorBounded /\ [Next]_vars => RoundingErrorBounded'
  <2> SUFFICES ASSUME RoundingErrorBounded, [Next]_vars PROVE RoundingErrorBounded' OBVIOUS
  <2>0. GiB \in Nat \ {0} /\ FloatExact \in Nat /\ IntLimit \in Nat BY SizesAssumption
  <2>1. ASSUME UNCHANGED size PROVE RoundingErrorBounded'
    BY <2>1 DEF size, RoundingErrorBounded
  <2>2. ASSUME NoSize PROVE RoundingErrorBounded'
    BY <2>0, <2>2 DEF NoSize, RoundingErrorBounded
  <2>3. ASSUME NEW b \in Nat, bytes' = b, quota' = RoundUpGiB(RoundOffBytes(b))
        PROVE  RoundingErrorBounded'
    <3> SUFFICES ASSUME FloatExact < b, b <= IntLimit - GiB
                 PROVE  /\ 2 * (b - GiBToBytes(quota')) <= Ulp(b)
                        /\ GiBToBytes(quota') < b + GiB
      BY <2>3 DEF RoundingErrorBounded
    <3>1. PICK n \in Nat \ {0} : /\ RoundOffBytes(b) = n * GiB
                                 /\ 2 * (b - n * GiB) <= Ulp(b)
                                 /\ n * GiB < b + GiB
      BY RoundOffBeyondExact
    <3>2. quota' = n BY <2>3, <3>1, RoundUpOfMultiple
    <3>3. QED BY <3>1, <3>2 DEF GiBToBytes
  <2>4. ASSUME NEW b \in Nat, bytes' = b, quota' = RoundUpGiB(b)
        PROVE  RoundingErrorBounded'
    <3> SUFFICES ASSUME FloatExact < b, b <= IntLimit - GiB
                 PROVE  /\ 2 * (b - GiBToBytes(quota')) <= Ulp(b)
                        /\ GiBToBytes(quota') < b + GiB
      BY <2>4 DEF RoundingErrorBounded
    <3>1. PICK u \in Nat : u = Ulp(b) BY <2>0, UlpAssumption
    <3>2. PICK n \in Nat : n = quota' /\ n * GiB >= b /\ n * GiB < b + GiB
      BY <2>0, <2>4, RoundUpLeast, RoundUpWithinUnit
    <3>3. n * GiB \in Nat BY <2>0
    <3>4. 2 * (b - n * GiB) <= u BY <3>2, <3>3
    <3>5. QED BY <3>1, <3>2, <3>4 DEF GiBToBytes
  <2>5. ASSUME NEW r \in CreateRequests, CreateVolume(r) PROVE RoundingErrorBounded'
    <3>1. r.bytes \in Nat BY VolumeOptionsAssumption
    <3>2. QED BY <2>1, <2>3, <2>5, <3>1 DEF CreateVolume
  <2>6. ASSUME NEW handle \in StaticHandles, WriteHandle(handle) PROVE RoundingErrorBounded'
    BY <2>1, <2>6 DEF WriteHandle
  <2>7. ASSUME NEW b \in ExpandBytes, ResizeVolume(b) PROVE RoundingErrorBounded'
    <3>1. b \in Nat BY <2>0, VolumeOptionsAssumption
    <3>2. QED BY <2>2, <2>4, <2>7, <3>1 DEF ResizeVolume
  <2>8. ASSUME DeleteVolume PROVE RoundingErrorBounded' BY <2>2, <2>8 DEF DeleteVolume
  <2>9. ASSUME NEW context \in Contexts, NEW secrets \in {"admin", "user"},
               NodeStageVolume(context, secrets)
        PROVE  RoundingErrorBounded'
    BY <2>2, <2>9 DEF NodeStageVolume
  <2>10. CASE UNCHANGED vars BY <2>1, <2>10 DEF vars, size
  <2>11. QED BY <2>5, <2>6, <2>7, <2>8, <2>9, <2>10 DEF Next
<1>3. QED BY <1>1, <1>2, PTL DEF Spec
=============================================================================
