---------------------------- MODULE ProxyService ----------------------------
(***************************************************************************)
(* What the node plugin may count on when it mounts through the            *)
(* fcfsfused proxy: a call stops the daemon of its volume and brings one   *)
(* up at most once, OK means that it did while the call was open, an error *)
(* promises nothing, and every call is answered.  When the plugin dies,    *)
(* the proxy still owes the restarts of the calls it had received: the     *)
(* plugin's successor sees them happen at any time.                        *)
(***************************************************************************)
EXTENDS Naturals

CONSTANT Volumes  \* NodeStageVolume has at most one call for each

VARIABLES
    daemon,  \* whether the fcfs_fused daemon of each volume runs
    stage,   \* how far the call for each volume is
    owed     \* restarts still to come for calls nobody waits for

vars == <<daemon, stage, owed>>

Init ==
    /\ daemon = [v \in Volumes |-> FALSE]
    /\ stage = [v \in Volumes |-> "none"]
    /\ owed = [v \in Volumes |-> 0]

\* NodeStageVolume, which holds the lock of the volume, asks for a mount.
Ask(v) ==
    /\ stage[v] = "none"
    /\ stage' = [stage EXCEPT ![v] = "asked"]
    /\ UNCHANGED <<daemon, owed>>

\* The daemon that runs is stopped for a call that is open or owed.
Stop(v) ==
    /\ owed[v] > 0 \/ stage[v] = "asked"
    /\ daemon' = [daemon EXCEPT ![v] = FALSE]
    /\ UNCHANGED <<stage, owed>>

\* The one time that a call may bring a daemon up.
Restart(v) ==
    /\ stage[v] = "asked"
    /\ daemon' = [daemon EXCEPT ![v] = TRUE]
    /\ \E result \in {"mounted", "failed"} : stage' = [stage EXCEPT ![v] = result]
    /\ UNCHANGED owed

\* A call that changes nothing.
Refuse(v) ==
    /\ stage[v] = "asked"
    /\ stage' = [stage EXCEPT ![v] = "failed"]
    /\ UNCHANGED <<daemon, owed>>

Answer(v) ==
    /\ \/ stage[v] = "mounted" /\ stage' = [stage EXCEPT ![v] = "OK"]
       \/ stage[v] \in {"asked", "failed"} /\ stage' = [stage EXCEPT ![v] = "error"]
    /\ UNCHANGED <<daemon, owed>>

Return(v) ==
    /\ stage[v] \in {"OK", "error"}
    /\ stage' = [stage EXCEPT ![v] = "none"]
    /\ UNCHANGED <<daemon, owed>>

\* A restart for a call that nobody waits for happens, or never will.
Repay(v) ==
    /\ owed[v] > 0
    /\ owed' = [owed EXCEPT ![v] = @ - 1]
    /\ daemon' = daemon \/ daemon' = [daemon EXCEPT ![v] = TRUE]
    /\ UNCHANGED stage

\* The plugin dies: what its calls had not yet done is owed, or was never
\* received.  The daemons live on.
PluginDies ==
    /\ DOMAIN owed' = Volumes
    /\ \A v \in Volumes :
          \/ owed'[v] = owed[v]
          \/ /\ owed'[v] = owed[v] + 1
             /\ stage[v] = "asked"
    /\ stage' = [v \in Volumes |-> "none"]
    /\ UNCHANGED daemon

\* The proxy dies with its daemons; calls it had received fail.
ProxyDies ==
    /\ daemon' = [v \in Volumes |-> FALSE]
    /\ owed' = [v \in Volumes |-> 0]
    /\ DOMAIN stage' = Volumes
    /\ \A v \in Volumes :
          \/ stage'[v] = stage[v]
          \/ stage'[v] = "error" /\ stage[v] \in {"asked", "mounted", "failed"}

Serve(v) == Restart(v) \/ Refuse(v) \/ Answer(v) \/ Return(v)

Next ==
    \/ \E v \in Volumes : Ask(v) \/ Serve(v) \/ Stop(v) \/ Repay(v)
    \/ PluginDies
    \/ ProxyDies

\* Safety part: what the steps of the plugin and the proxy must map to.
Safe == Init /\ [][Next]_vars

Spec == Safe /\ \A v \in Volumes : WF_vars(Serve(v))
=============================================================================
