------------------------------- MODULE Plugin -------------------------------
(***************************************************************************)
(* The life of a plugin process: main in cmd/fcfsplugin, Run in            *)
(* pkg/fcfs-driver/fcfsdriver.go, the driver object and the gRPC server of *)
(* pkg/csi-common, and the identity calls.  Kubernetes starts the process, *)
(* starts it again when it ends and kills it when the liveness probe finds *)
(* nobody at the socket.                                                   *)
(*                                                                         *)
(* klog.Fatal ends the process from whichever goroutine calls it.  After   *)
(* Start the main goroutine only waits, and outside of tests nothing ends  *)
(* that wait: when Serve returns, the process is still there.              *)
(***************************************************************************)
EXTENDS Topology, FiniteSets

CONSTANTS
    Configs,      \* command lines, see ConfigOK
    Labels,       \* labels of the node object
    LabelValue,   \* their values
    Domain,       \* the part of a label after its slash
    MaxFaults     \* failures of the environment (a bound)

\* A command line: what is left out of it (name, nodeID), whether the binary
\* was linked with a version and the topology prefix fits, the role flags
\* and the labels to report.  The scheme of the endpoint is compared without
\* its case by ParseEndpoint and with it by everybody after that.
ConfigOK(c) ==
    /\ \A f \in {"name", "nodeID", "version", "prefixFits", "IsControllerServer",
                 "IsNodeServer", "Ephemeral"} : c[f] \in BOOLEAN
    /\ c.DomainLabels \in Seq(Labels)
    /\ c.scheme \in {"unix", "tcp", "UNIX", "invalid"}

ASSUME PluginAssumption ==
    /\ \A c \in Configs : ConfigOK(c)
    /\ DOMAIN LabelValue = Labels /\ DOMAIN Domain = Labels
    /\ MaxFaults \in Nat

VARIABLES
    conf,        \* the command line, fixed by the deployment
    phase,       \* what the process does, "down" when there is none
    driver,      \* CSIDriver: capabilities, access modes and topology
    cs, ns,      \* whether there is a controller and a node server
    socketFile,  \* whether the file of the unix socket is there
    nodeLabels,  \* external: the labels of the node object
    answer,      \* what the last call of this process was told
    faults       \* failures of the environment that are left

process == <<phase, driver, cs, ns, answer>>
vars == <<conf, phase, driver, cs, ns, socketFile, nodeLabels, answer, faults>>

NoDriver == [Cap |-> {}, VC |-> {}, NSCap |-> {}, Topology |-> NoTopology]
NoAnswer == [call |-> "none", code |-> "OK", caps |-> {}, topology |-> NoTopology]

Init ==
    /\ conf \in Configs
    /\ phase = "down"
    /\ driver = NoDriver
    /\ cs = FALSE /\ ns = FALSE
    /\ socketFile = FALSE
    /\ \E known \in SUBSET Labels : nodeLabels = [l \in known |-> LabelValue[l]]
    /\ answer = NoAnswer
    /\ faults = MaxFaults

\* The process is gone; the file of its socket stays.
Exit ==
    /\ phase' = "down"
    /\ driver' = NoDriver
    /\ cs' = FALSE /\ ns' = FALSE
    /\ answer' = NoAnswer

\* Something outside fails, at most MaxFaults times.
Fault == faults > 0 /\ faults' = faults - 1

-----------------------------------------------------------------------------
(***************************************************************************)
(* Starting.                                                               *)
(***************************************************************************)

\* main: the flags are parsed and Run starts.
main ==
    /\ phase = "down"
    /\ phase' = "driver"
    /\ UNCHANGED <<conf, driver, cs, ns, socketFile, nodeLabels, answer, faults>>

Both(c) == ~c.IsControllerServer /\ ~c.IsNodeServer

ControllerCapabilities == {"CREATE_DELETE_VOLUME", "CLONE_VOLUME", "EXPAND_VOLUME"}
NodeCapabilities == {"STAGE_UNSTAGE_VOLUME", "VOLUME_CONDITION"}
AccessModes == {"SINGLE_NODE_WRITER", "MULTI_NODE_MULTI_WRITER"}

\* Mutant: a process with neither role flag gets no controller capabilities.
AddControllerCapabilitiesFlagged(c) ==
    [NoDriver EXCEPT !.Cap = IF c.IsControllerServer THEN ControllerCapabilities ELSE {},
                     !.VC = IF c.IsControllerServer THEN AccessModes ELSE {}]

\* The driver after the first block of Run.
AddControllerCapabilities(c) ==
    IF c.IsControllerServer \/ ~c.IsNodeServer
    THEN [NoDriver EXCEPT !.Cap = IF c.Ephemeral THEN {} ELSE ControllerCapabilities,
                          !.VC = AccessModes]
    ELSE NoDriver

\* NewCSIDriver: nil without a name or a node id; without a version it only
\* logs.
NewCSIDriver ==
    /\ phase = "driver"
    /\ \/ /\ conf.name /\ conf.nodeID
          /\ driver' = AddControllerCapabilities(conf)
          /\ phase' = "metadata"
          /\ UNCHANGED <<cs, ns, answer>>
       \/ ~(conf.name /\ conf.nodeID) /\ Exit
    /\ UNCHANGED <<conf, socketFile, nodeLabels, faults>>

\* NewMetadata reads the labels of the node object and the topology is made
\* of them.  The request to the API server may fail, or hang: it has no
\* timeout.
NewMetadata ==
    /\ phase = "metadata"
    /\ LET topologies == GetTopologyFromDomainLabels(nodeLabels, conf.DomainLabels,
                                                     conf.prefixFits, Domain)
       IN  \/ /\ \E t \in topologies : driver' = [driver EXCEPT !.Topology = t]
              /\ phase' = "servers"
              /\ UNCHANGED <<cs, ns, answer, faults>>
           \/ topologies = {} /\ Exit /\ UNCHANGED faults
           \/ Fault /\ Exit
           \/ Fault /\ phase' = "hung" /\ UNCHANGED <<driver, cs, ns, answer>>
    /\ UNCHANGED <<conf, socketFile, nodeLabels>>

\* Mutant: a process with neither role flag gets no node server.
NewServersFlagged ==
    /\ phase = "servers"
    /\ cs' = (conf.IsControllerServer \/ Both(conf))
    /\ ns' = conf.IsNodeServer
    /\ driver' = IF ns' THEN [driver EXCEPT !.NSCap = NodeCapabilities] ELSE driver
    /\ phase' = "serve"
    /\ UNCHANGED <<conf, socketFile, nodeLabels, answer, faults>>

\* The servers of the role, and Start.  The topology is kept by
\* NewDefaultNodeServer, so only a process with a node server has it.
NewServers ==
    /\ phase = "servers"
    /\ cs' = (conf.IsControllerServer \/ Both(conf))
    /\ ns' = (conf.IsNodeServer \/ Both(conf))
    /\ driver' = IF ns' THEN [driver EXCEPT !.NSCap = NodeCapabilities]
                        ELSE [driver EXCEPT !.Topology = NoTopology]
    /\ phase' = "serve"
    /\ UNCHANGED <<conf, socketFile, nodeLabels, answer, faults>>

\* ParseEndpoint: whether it accepts the endpoint.
ParseEndpoint(scheme) == scheme # "invalid"

\* Mutant: the socket file of an earlier process stays.
RemoveSocketNever ==
    /\ phase = "serve"
    /\ IF ParseEndpoint(conf.scheme)
       THEN phase' = "listen" /\ UNCHANGED <<driver, cs, ns, answer>>
       ELSE Exit
    /\ UNCHANGED <<conf, socketFile, nodeLabels, faults>>

\* serve: the socket file of an earlier process is removed.
RemoveSocket ==
    /\ phase = "serve"
    /\ \/ /\ ParseEndpoint(conf.scheme)
          /\ socketFile' = (socketFile /\ conf.scheme # "unix")
          /\ phase' = "listen"
          /\ UNCHANGED <<driver, cs, ns, answer, faults>>
       \/ ~ParseEndpoint(conf.scheme) /\ Exit /\ UNCHANGED <<socketFile, faults>>
       \/ conf.scheme = "unix" /\ socketFile /\ Fault /\ Exit /\ UNCHANGED socketFile
    /\ UNCHANGED <<conf, nodeLabels>>

\* net.Listen knows only the networks in lower case, and binds no unix
\* socket where there is a file.  Then the services are registered.
Listen ==
    /\ phase = "listen"
    /\ LET possible == conf.scheme = "tcp" \/ (conf.scheme = "unix" /\ ~socketFile)
       IN  \/ /\ possible
              /\ socketFile' = (socketFile \/ conf.scheme = "unix")
              /\ phase' = "serving"
              /\ UNCHANGED <<driver, cs, ns, answer, faults>>
           \/ ~possible /\ Exit /\ UNCHANGED <<socketFile, faults>>
           \/ possible /\ Fault /\ Exit /\ UNCHANGED socketFile
    /\ UNCHANGED <<conf, nodeLabels>>

-----------------------------------------------------------------------------
(***************************************************************************)
(* Serving.  Run passes its servers on as interfaces.  A nil pointer in an *)
(* interface is not nil, so both services are registered in every process, *)
(* and a method that looks into its receiver panics where there is none.   *)
(***************************************************************************)

\* The calls that name a volume, and those of them that decode its id.
VolumeCalls ==
    {"DeleteVolume", "ControllerExpandVolume", "ValidateVolumeCapabilities",
     "NodeStageVolume", "NodeUnstageVolume", "NodePublishVolume",
     "NodeUnpublishVolume", "NodeGetVolumeStats"}
DecodingCalls == {"DeleteVolume", "ControllerExpandVolume", "NodeStageVolume"}

\* The controller calls left to DefaultControllerServer, which has none of
\* them: a controllerServer reaches it through its own embedded pointer.
DefaultCalls ==
    {"ControllerPublishVolume", "ControllerUnpublishVolume", "ListVolumes",
     "GetCapacity", "CreateSnapshot", "DeleteSnapshot", "ListSnapshots"}

Calls ==
    {"GetPluginInfo", "Probe", "GetPluginCapabilities",
     "ControllerGetCapabilities", "CreateVolume", "ControllerGetVolume",
     "NodeGetCapabilities", "NodeGetInfo", "NodeExpandVolume"}
    \cup VolumeCalls \cup DefaultCalls

\* A request that names a volume may be "refused" before the handler looks
\* into its receiver (no id, no path, a staging path that is not there), or
\* have a "broken" id: one shorter than four bytes, or with a length that
\* points beyond its end.  Every other id is decoded or answered.
Requests(call) ==
    IF call \in VolumeCalls THEN {"whole", "refused", "broken"} ELSE {"whole"}

\* The server a method looks into.  ValidateVolumeCapabilities and the
\* unimplemented ControllerGetVolume and NodeExpandVolume look into none.
Receiver(call) ==
    CASE call \in {"ControllerGetCapabilities", "CreateVolume", "DeleteVolume",
                   "ControllerExpandVolume"} \cup DefaultCalls -> "cs"
      [] call \in {"NodeGetCapabilities", "NodeGetInfo", "NodeStageVolume",
                   "NodeUnstageVolume", "NodePublishVolume", "NodeUnpublishVolume",
                   "NodeGetVolumeStats"} -> "ns"
      [] OTHER -> "none"

\* The nil pointer is looked into.
NoReceiver(call, request) ==
    /\ request # "refused"
    /\ (Receiver(call) = "cs" /\ ~cs) \/ (Receiver(call) = "ns" /\ ~ns)

GetPluginInfo == IF conf.version THEN "OK" ELSE "Unavailable"

GetPluginCapabilities == {"CONTROLLER_SERVICE", "VOLUME_ACCESSIBILITY_CONSTRAINTS"}

\* CreateVolume and DeleteVolume go on only with the capability.  "Handled"
\* is whatever the rest of a handler answers (ControllerServer, NodeServer).
validateControllerServiceRequest(capability) ==
    IF capability \in driver.Cap THEN "Handled" ELSE "InvalidArgument"

Code(call, request) ==
    IF request = "refused" THEN "InvalidArgument" ELSE
    CASE call = "GetPluginInfo" -> GetPluginInfo
      [] call \in {"CreateVolume", "DeleteVolume"} ->
            validateControllerServiceRequest("CREATE_DELETE_VOLUME")
      [] call \in VolumeCalls \ {"DeleteVolume"} -> "Handled"
      [] call \in {"ControllerGetVolume", "NodeExpandVolume"} \cup DefaultCalls ->
            "Unimplemented"
      [] OTHER -> "OK"

\* The id is decoded and next slices beyond it.  The handler may also return
\* before it decodes: the lock is taken, there are no credentials, the
\* staging path is mounted.
MayBreak(call, request) ==
    request = "broken" /\ call \in DecodingCalls /\ Code(call, request) = "Handled"

Capabilities(call) ==
    CASE call = "GetPluginCapabilities" -> GetPluginCapabilities
      [] call = "ControllerGetCapabilities" -> driver.Cap
      [] call = "NodeGetCapabilities" -> driver.NSCap
      [] OTHER -> {}

Handler(call, request) ==
    [call |-> call, code |-> Code(call, request), caps |-> Capabilities(call),
     topology |-> IF call = "NodeGetInfo" THEN driver.Topology ELSE NoTopology]

\* logGRPC passes the answer on; nothing recovers from a panic.
logGRPC(call, request) ==
    /\ phase = "serving"
    /\ \/ (NoReceiver(call, request) \/ MayBreak(call, request)) /\ Exit
       \/ /\ ~NoReceiver(call, request)
          /\ answer' = Handler(call, request)
          /\ UNCHANGED <<phase, driver, cs, ns>>
    /\ UNCHANGED <<conf, socketFile, nodeLabels, faults>>

\* Serve returns with an error and closes its listener, which removes the
\* socket file; the main goroutine waits on.
ServeFails ==
    /\ phase = "serving"
    /\ Fault
    /\ phase' = "waiting"
    /\ socketFile' = (socketFile /\ conf.scheme # "unix")
    /\ UNCHANGED <<conf, driver, cs, ns, nodeLabels, answer>>

-----------------------------------------------------------------------------
(***************************************************************************)
(* The environment.                                                        *)
(***************************************************************************)

\* The process is killed, by the kernel or by a probe that came too early.
Crash ==
    /\ phase # "down"
    /\ Fault
    /\ Exit
    /\ UNCHANGED <<conf, socketFile, nodeLabels>>

\* The liveness probe gets no answer and the container is restarted.
ProbeFails ==
    /\ phase \in {"hung", "waiting"}
    /\ Exit
    /\ UNCHANGED <<conf, socketFile, nodeLabels, faults>>

\* A label is put on the node object.
LabelNode ==
    /\ \E l \in Labels \ DOMAIN nodeLabels :
          nodeLabels' = [k \in DOMAIN nodeLabels \cup {l} |-> LabelValue[k]]
    /\ UNCHANGED <<conf, process, socketFile, faults>>

Run == NewCSIDriver \/ NewMetadata \/ NewServers \/ RemoveSocket \/ Listen

Next ==
    \/ main \/ Run
    \/ \E call \in Calls : \E request \in Requests(call) : logGRPC(call, request)
    \/ ServeFails \/ Crash \/ ProbeFails \/ LabelNode

\* The process runs, Kubernetes restarts what ended and the probe goes on.
Fairness == WF_vars(main) /\ WF_vars(Run) /\ WF_vars(ProbeFails)

Spec == Init /\ [][Next]_vars /\ Fairness

-----------------------------------------------------------------------------

Serving == phase = "serving"

\* A process that serves has the servers its flags ask for, one at least,
\* and what it tells of capabilities fits them: the blocks of Run that add
\* capabilities and the ones that make servers test the flags differently.
\* An ephemeral controller tells of none, and creates and deletes no volumes.
ServesRole ==
    Serving =>
        /\ (conf.IsControllerServer => cs) /\ (conf.IsNodeServer => ns) /\ (cs \/ ns)
        /\ answer.call = "ControllerGetCapabilities" =>
              (answer.caps = {}) = conf.Ephemeral
        /\ answer.call = "CreateVolume" =>
              (answer.code # "Handled") = conf.Ephemeral
        /\ answer.call = "DeleteVolume" =>
              (answer.code = "Handled" => ~conf.Ephemeral)
        /\ answer.call = "NodeGetCapabilities" =>
              "STAGE_UNSTAGE_VOLUME" \in answer.caps

LabelsToRead == {conf.DomainLabels[i] : i \in DOMAIN conf.DomainLabels}

\* NodeGetInfo reports every configured label, with the value the node
\* object has, however often the process ended because a label was not there
\* yet.  Labels that differ only before the slash share an entry, which has
\* the value of one of them.
TopologyComplete ==
    (answer.call = "NodeGetInfo" /\ LabelsToRead # {}) =>
        /\ DOMAIN answer.topology = {Domain[l] : l \in LabelsToRead}
        /\ \A l \in LabelsToRead :
              \E k \in LabelsToRead \cap DOMAIN nodeLabels :
                 Domain[k] = Domain[l] /\ answer.topology[Domain[l]] = nodeLabels[k]

\* A call ends the process only where the flags left its service out, or
\* where it decodes a broken id, which an ephemeral controller never does for
\* a deletion: every process survives the identity calls, Probe among them,
\* and a process with the service every request whose id can be decoded.
DiesOnlyForCause ==
    [][\A call \in Calls : \A request \in Requests(call) :
          (phase' = "down" /\ logGRPC(call, request)) =>
              \/ Receiver(call) = "cs" /\ conf.IsNodeServer /\ ~conf.IsControllerServer
              \/ Receiver(call) = "ns" /\ conf.IsControllerServer /\ ~conf.IsNodeServer
              \/ /\ request = "broken"
                 /\ \/ call \in {"ControllerExpandVolume", "NodeStageVolume"}
                    \/ call = "DeleteVolume" /\ ~conf.Ephemeral]_vars

\* The command line is one a process can serve with.
Startable ==
    /\ conf.name /\ conf.nodeID /\ conf.scheme \in {"unix", "tcp"}
    /\ LabelsToRead # {} => conf.prefixFits
    /\ \A i, j \in DOMAIN conf.DomainLabels :
          conf.DomainLabels[i] = conf.DomainLabels[j] => i = j

\* Such a plugin serves again and again once its labels are on the node,
\* although a socket file is left by every process that died, the request
\* for the node object may hang and a failed Serve leaves the process
\* waiting: the probe and the restart are needed, and enough.
Recovers ==
    (Startable /\ <>[](LabelsToRead \subseteq DOMAIN nodeLabels)) => []<>Serving
=============================================================================
