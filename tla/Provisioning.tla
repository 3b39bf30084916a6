---------------------------- MODULE Provisioning ----------------------------
(***************************************************************************)
(* The controller service under its callers.  A claim gets a volume from   *)
(* the external provisioner, which calls CreateVolume until it is answered *)
(* OK, and later DeleteVolume in the same way; meanwhile the external      *)
(* resizer calls ControllerExpandVolume whenever the claim wants more than *)
(* the last answer said.  Each of the two has one call at a time for a     *)
(* volume.                                                                 *)
(*                                                                         *)
(* The sidecars are external and modelled by the calls the controller is   *)
(* written for.  A call that timed out is forgotten by its caller; its     *)
(* handler goes on, because the commands ignore the context.  If it had    *)
(* not tried the lock yet, it may do so after any number of later calls:   *)
(* it is late.                                                             *)
(*                                                                         *)
(* Deaths, timeouts and failures of commands are faults, MaxFaults of them *)
(* at most.                                                                *)
(***************************************************************************)
EXTENDS ControllerServer

CONSTANT MaxFaults  \* faults of a behaviour (a bound)

ASSUME ProvisioningAssumption ==
    /\ MaxFaults \in Nat
    /\ CreateBytes \subseteq ExpandBytes

VARIABLES
    claim,    \* "none", "wanted", "bound", "released", then "gone" for ever
    want,     \* bytes the claim asks for
    told,     \* capacity the last answer reported
    awaited,  \* the handlers whose answer a sidecar waits for
    late,     \* whether a forgotten call has taken a lock
    faults    \* the faults left

sidecars == <<claim, want, told, awaited, late, faults>>
allVars == <<vars, sidecars>>

ProvisioningInit ==
    /\ Init
    /\ claim = [v \in ComposedIDs |-> "none"]
    /\ want = [v \in ComposedIDs |-> 0]
    /\ told = [v \in ComposedIDs |-> 0]
    /\ awaited = {}
    /\ late = FALSE
    /\ faults = MaxFaults

-----------------------------------------------------------------------------

AddClaim(v) ==
    /\ claim[v] = "none"
    /\ claim' = [claim EXCEPT ![v] = "wanted"]
    /\ \E b \in CreateBytes : want' = [want EXCEPT ![v] = b]
    /\ UNCHANGED <<vars, told, awaited, late, faults>>

\* A claim can only grow, and only once it is bound.
GrowClaim(v) ==
    /\ claim[v] = "bound"
    /\ \E b \in ExpandBytes : b > want[v] /\ want' = [want EXCEPT ![v] = b]
    /\ UNCHANGED <<vars, claim, told, awaited, late, faults>>

ReleaseClaim(v) ==
    /\ claim[v] = "bound"
    /\ claim' = [claim EXCEPT ![v] = "released"]
    /\ UNCHANGED <<vars, want, told, awaited, late, faults>>

\* A sidecar calls, if it does not wait for an answer about the volume.
Ask(op, v, bytes) ==
    /\ \A h \in awaited :
          req[h].vol = v => (req[h].op = "expand") # (op = "expand")
    /\ \E h \in Handlers :
          /\ Receive(h) /\ req'[h] = [op |-> op, vol |-> v, bytes |-> bytes]
          /\ awaited' = awaited \cup {h}
    /\ UNCHANGED <<claim, want, told, late, faults>>

Provision(v) == claim[v] = "wanted" /\ Ask("create", v, want[v])
Resize(v) == claim[v] = "bound" /\ told[v] < want[v] /\ Ask("expand", v, want[v])
Delete(v) == claim[v] = "released" /\ Ask("delete", v, 0)

\* A sidecar is answered.
ReceiveAnswer(h) ==
    LET v == req[h].vol
        ok == reply[h].code = "OK"
    IN  /\ h \in awaited
        /\ Return(h)
        /\ awaited' = awaited \ {h}
        /\ claim' = CASE ok /\ req[h].op = "create" -> [claim EXCEPT ![v] = "bound"]
                      [] ok /\ req[h].op = "delete" -> [claim EXCEPT ![v] = "gone"]
                      [] OTHER -> claim
        /\ told' = IF ok /\ req[h].op # "delete"
                   THEN [told EXCEPT ![v] = reply[h].capacity] ELSE told
        /\ UNCHANGED <<want, late, faults>>

\* The answer to a forgotten call.
LateAnswer(h) ==
    /\ h \notin awaited
    /\ Return(h)
    /\ UNCHANGED sidecars

-----------------------------------------------------------------------------

Fault == faults > 0 /\ faults' = faults - 1

\* A handler of a well-formed request, up to its return.
Work(h) ==
    /\ pc[h] # "return"
    /\ Step(h)
    /\ pc[h] = "lock" => reply'[h].code # "InvalidArgument"

\* The step is an error, and need not have been one.
Errs(h) == reply'[h].code \in {"Internal", "InvalidArgument"}
Spontaneous(h) == reply[h] = NoReply /\ Errs(h) /\ ENABLED (Work(h) /\ ~Errs(h))

\* os.Remove fails.
LeavesKey(h) == pc[h] = "delkey" /\ UNCHANGED keyFiles

HandlerStep(h) ==
    /\ Work(h)
    /\ IF Spontaneous(h) \/ LeavesKey(h) THEN Fault ELSE UNCHANGED faults
    /\ late' = (late \/ (h \notin awaited /\ pc[h] = "lock" /\ volumeLocks' # volumeLocks))
    /\ UNCHANGED <<claim, want, told, awaited>>

GiveUp(h) ==
    /\ h \in awaited /\ pc[h] # "return"
    /\ Fault
    /\ awaited' = awaited \ {h}
    /\ UNCHANGED <<vars, claim, want, told, late>>

PluginCrash ==
    /\ Crash
    /\ Fault
    /\ awaited' = {}
    /\ UNCHANGED <<claim, want, told, late>>

Call(v) == Provision(v) \/ Resize(v) \/ Delete(v)

ProvisioningNext ==
    \/ \E v \in ComposedIDs :
          AddClaim(v) \/ GrowClaim(v) \/ ReleaseClaim(v) \/ Call(v)
    \/ \E h \in Handlers :
          HandlerStep(h) \/ ReceiveAnswer(h) \/ LateAnswer(h) \/ GiveUp(h)
    \/ PluginCrash

\* The handlers run, the answers arrive and the sidecars go on calling.
ProvisioningSpec ==
    /\ ProvisioningInit
    /\ [][ProvisioningNext]_allVars
    /\ \A h \in Handlers : WF_allVars(HandlerStep(h) \/ ReceiveAnswer(h) \/ LateAnswer(h))
    /\ \A v \in ComposedIDs : WF_allVars(Call(v))

-----------------------------------------------------------------------------

\* Unless a forgotten call took its lock late, a bound claim has a pool with
\* at least the capacity it was told, whatever expansion is under way or was
\* abandoned, and nothing is left of a claim that is gone.  CreateVolume
\* answers a pool that it finds with the size of the request: that is the
\* truth because a claim that is not bound keeps its size.
PromisesKept ==
    ~late => \A v \in ComposedIDs :
        /\ claim[v] = "bound" => pools[v] # Absent /\ GiBToBytes(pools[v]) >= told[v]
        /\ claim[v] = "gone" => pools[v] = Absent

\* "fcfs_pool quota" sets whatever it is told, so an expansion may shrink a
\* pool: only one that was forgotten and took its lock late does.
ShrinksOnlyLate ==
    [][\A v \in ComposedIDs :
          pools[v] # Absent /\ pools'[v] # Absent /\ pools'[v] < pools[v] =>
              late /\ \E h \in Handlers \ awaited : pc[h] = "quota" /\ req[h].vol = v]_allVars

\* Retries get through: a claim gets its volume and what it grows by, and a
\* released volume is deleted, although an abandoned call still has the lock
\* and turns the retries away for a while.
ClaimsServed ==
    \A v \in ComposedIDs :
        /\ claim[v] = "wanted" ~> claim[v] = "bound"
        /\ claim[v] = "bound" /\ told[v] < want[v] ~> claim[v] # "bound" \/ told[v] >= want[v]
        /\ claim[v] = "released" ~> claim[v] = "gone"
=============================================================================
