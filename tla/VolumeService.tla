--------------------------- MODULE VolumeService ---------------------------
(***************************************************************************)
(* What the controller promises its caller: every request takes effect on  *)
(* the pools at most once, atomically, at some moment between its arrival  *)
(* and its answer, and an answer of OK means that it did.  An error        *)
(* promises nothing: the effect may or may not have happened (fcfs_pool    *)
(* may change the cluster and still exit with an error).  When the process *)
(* dies, the calls in flight are gone and the pools are as they are.       *)
(***************************************************************************)
EXTENDS CSIRequests

VARIABLES
    pools,  \* quota of each pool in the FastCFS cluster, or Absent
    req,    \* the request each handler serves, or NoRequest
    reply   \* the answer decided for it, or NoReply

vars == <<pools, req, reply>>

Init ==
    /\ pools = [v \in ComposedIDs |-> Absent]
    /\ req = [h \in Handlers |-> NoRequest]
    /\ reply = [h \in Handlers |-> NoReply]

-----------------------------------------------------------------------------

Receive(h) ==
    /\ req[h] = NoRequest
    /\ \E r \in Requests : req' = [req EXCEPT ![h] = r]
    /\ UNCHANGED <<pools, reply>>

Undecided(h) == req[h] # NoRequest /\ reply[h] = NoReply

\* The caller sees the success, or only that something failed.
AnswerEffect(h) ==
    \/ reply' = [reply EXCEPT ![h] = Success(req[h])]
    \/ reply' = [reply EXCEPT ![h] = Error("Internal")]

Create(h) ==
    LET r == req[h] IN
    /\ Undecided(h) /\ r.op = "create"
    /\ \/ /\ pools[r.vol] # Absent
          /\ reply' = [reply EXCEPT ![h] = Success(r)]
          /\ UNCHANGED pools
       \/ /\ pools[r.vol] = Absent
          /\ pools' = [pools EXCEPT ![r.vol] = CreateQuota(r)]
          /\ AnswerEffect(h)
    /\ UNCHANGED req

Delete(h) ==
    LET r == req[h] IN
    /\ Undecided(h) /\ r.op = "delete" /\ Decodes(r.vol)
    /\ \/ /\ pools[r.vol] = Absent
          /\ reply' = [reply EXCEPT ![h] = Success(r)]
          /\ UNCHANGED pools
       \/ /\ pools[r.vol] # Absent
          /\ pools' = [pools EXCEPT ![r.vol] = Absent]
          /\ AnswerEffect(h)
    /\ UNCHANGED req

Expand(h) ==
    LET r == req[h] IN
    /\ Undecided(h) /\ r.op = "expand" /\ Decodes(r.vol)
    /\ pools[r.vol] # Absent
    /\ pools' = [pools EXCEPT ![r.vol] = ExpandQuota(r)]
    /\ AnswerEffect(h)
    /\ UNCHANGED req

\* An error without an effect.
Refuse(h) ==
    /\ Undecided(h)
    /\ \E c \in ErrorCodes : reply' = [reply EXCEPT ![h] = Error(c)]
    /\ UNCHANGED <<pools, req>>

Return(h) ==
    /\ reply[h] # NoReply
    /\ req' = [req EXCEPT ![h] = NoRequest]
    /\ reply' = [reply EXCEPT ![h] = NoReply]
    /\ UNCHANGED pools

Crash ==
    /\ req' = [h \in Handlers |-> NoRequest]
    /\ reply' = [h \in Handlers |-> NoReply]
    /\ UNCHANGED pools

Serve(h) == Create(h) \/ Delete(h) \/ Expand(h) \/ Refuse(h) \/ Return(h)

Next == (\E h \in Handlers : Receive(h) \/ Serve(h)) \/ Crash

\* Safety part: what the controller's steps must map to.
Safe == Init /\ [][Next]_vars

\* Every call is decided and answered, unless the process dies.
Spec == Safe /\ \A h \in Handlers : WF_vars(Serve(h))
=============================================================================
