---------------------------- MODULE PluginProofs ----------------------------
(***************************************************************************)
(* Proofs about the life of a plugin process, for every set of command     *)
(* lines and labels and any number of failures.                            *)
(***************************************************************************)
EXTENDS Plugin, SequenceTheorems, TLAPS

-----------------------------------------------------------------------------
(* The inductive invariant                                                 *)

\* A topology that has every configured label, with a value of the node.
Complete(t) ==
    LabelsToRead # {} =>
        /\ DOMAIN t = {Domain[l] : l \in LabelsToRead}
        /\ \A l \in LabelsToRead :
              \E k \in LabelsToRead \cap DOMAIN nodeLabels :
                 Domain[k] = Domain[l] /\ t[Domain[l]] = nodeLabels[k]

\* Start has been called.
Started == phase \in {"serve", "listen", "serving", "waiting"}

DeploymentInv ==
    /\ conf \in Configs
    /\ DOMAIN nodeLabels \subseteq Labels
    /\ nodeLabels = [l \in DOMAIN nodeLabels |-> LabelValue[l]]

\* What Run has put together when it reaches a phase.
DriverInv ==
    /\ DOMAIN driver = {"Cap", "VC", "NSCap", "Topology"}
    /\ driver = [f \in DOMAIN driver |-> driver[f]]
    /\ phase \in {"metadata", "servers"} \/ Started =>
          driver.Cap = AddControllerCapabilities(conf).Cap
    /\ phase = "servers" => Complete(driver.Topology)
    /\ Started =>
          /\ cs = (conf.IsControllerServer \/ Both(conf))
          /\ ns = (conf.IsNodeServer \/ Both(conf))
          /\ ns => driver.NSCap = NodeCapabilities /\ Complete(driver.Topology)

\* An answer is one of the process that serves now, and of the server that
\* the call looks into.
AnswerInv ==
    /\ answer.call = "none" \/ Started
    /\ answer.call = "ControllerGetCapabilities" => cs /\ answer.caps = driver.Cap
    /\ answer.call = "CreateVolume" =>
          cs /\ (answer.code = "Handled" <=> "CREATE_DELETE_VOLUME" \in driver.Cap)
    /\ answer.call = "DeleteVolume" /\ answer.code = "Handled" =>
          cs /\ "CREATE_DELETE_VOLUME" \in driver.Cap
    /\ answer.call = "NodeGetCapabilities" => ns /\ answer.caps = driver.NSCap
    /\ answer.call = "NodeGetInfo" => ns /\ answer.topology = driver.Topology

PluginInv == DeploymentInv /\ DriverInv /\ AnswerInv

LEMMA PluginInit == Init => PluginInv
<1> SUFFICES ASSUME Init PROVE PluginInv OBVIOUS
<1>1. DeploymentInv BY DEF Init, DeploymentInv
<1>2. DriverInv BY DEF Init, DriverInv, NoDriver, Started
<1>3. AnswerInv BY DEF Init, AnswerInv, NoAnswer
<1>4. QED BY <1>1, <1>2, <1>3 DEF PluginInv

\* A process that is gone promises nothing.
LEMMA ExitEstablishes ==
    ASSUME Exit
    PROVE  DriverInv' /\ AnswerInv'
<1>1. DriverInv' BY DEF Exit, DriverInv, NoDriver, Started
<1>2. AnswerInv' BY DEF Exit, AnswerInv, NoAnswer
<1>3. QED BY <1>1, <1>2

\* What GetTopologyFromDomainLabels returns is complete.
LEMMA ReportedComplete ==
    ASSUME DeploymentInv,
           NEW t \in GetTopologyFromDomainLabels(nodeLabels, conf.DomainLabels,
                                                 conf.prefixFits, Domain)
    PROVE  Complete(t)
<1>1. CASE LabelsToRead = {} BY <1>1 DEF Complete
<1>2. CASE LabelsToRead # {}
  <2> DEFINE domains == {Domain[l] : l \in LabelsToRead}
             Values(d) == {nodeLabels[l] : l \in {k \in LabelsToRead : Domain[k] = d}}
  <2>1. conf.DomainLabels # <<>> BY <1>2 DEF LabelsToRead
  <2>2. /\ LabelsToRead \subseteq DOMAIN nodeLabels
        /\ t \in [domains -> UNION {Values(d) : d \in domains}]
        /\ \A d \in domains : t[d] \in Values(d)
    BY <2>1 DEF GetTopologyFromDomainLabels, LabelsToRead
  <2>3. ASSUME NEW l \in LabelsToRead
        PROVE  \E k \in LabelsToRead \cap DOMAIN nodeLabels :
                  Domain[k] = Domain[l] /\ t[Domain[l]] = nodeLabels[k]
    <3>1. t[Domain[l]] \in Values(Domain[l]) BY <2>2
    <3>2. QED BY <2>2, <3>1
  <2>4. QED BY <2>2, <2>3 DEF Complete
<1>3. QED BY <1>1, <1>2

\* A label that is added changes no value that was reported.
LEMMA LabelKeeps ==
    ASSUME DeploymentInv, LabelNode
    PROVE  DeploymentInv' /\ \A t : Complete(t) => Complete(t)'
<1>1. conf' = conf BY DEF LabelNode
<1>2. PICK l \in Labels \ DOMAIN nodeLabels :
        nodeLabels' = [k \in DOMAIN nodeLabels \cup {l} |-> LabelValue[k]]
  BY DEF LabelNode
<1>3. DeploymentInv' BY <1>1, <1>2 DEF DeploymentInv
<1>4. \A k \in DOMAIN nodeLabels : k \in DOMAIN nodeLabels' /\ nodeLabels'[k] = nodeLabels[k]
  BY <1>2 DEF DeploymentInv
<1>5. LabelsToRead' = LabelsToRead BY <1>1 DEF LabelsToRead
<1>6. ASSUME NEW t, Complete(t) PROVE Complete(t)'
  BY <1>4, <1>5, <1>6 DEF Complete
<1>7. QED BY <1>3, <1>6

\* The deployment does not change, so completeness does not either.
LEMMA CompleteFrame ==
    ASSUME UNCHANGED <<conf, nodeLabels>>
    PROVE  \A t : Complete(t) => Complete(t)'
  BY DEF Complete, LabelsToRead

LEMMA PluginNext == PluginInv /\ [Next]_vars => PluginInv'
<1> SUFFICES ASSUME PluginInv, [Next]_vars PROVE PluginInv' OBVIOUS
<1>0. DeploymentInv /\ DriverInv /\ AnswerInv BY DEF PluginInv
<1>1. CASE LabelNode
  <2>1. DeploymentInv' /\ \A t : Complete(t) => Complete(t)' BY <1>0, <1>1, LabelKeeps
  <2>2. UNCHANGED <<conf, phase, driver, cs, ns, answer>> BY <1>1 DEF LabelNode, process
  <2>3. DriverInv' BY <1>0, <2>1, <2>2 DEF DriverInv, Started
  <2>4. AnswerInv' BY <1>0, <2>2 DEF AnswerInv, Started
  <2>5. QED BY <2>1, <2>3, <2>4 DEF PluginInv
<1>2. CASE ~LabelNode
  <2>1. UNCHANGED <<conf, nodeLabels>>
    BY <1>2 DEF Next, vars, main, Run, NewCSIDriver, NewMetadata, NewServers, RemoveSocket, Listen,
       logGRPC, ServeFails, Crash, ProbeFails
  <2>2. DeploymentInv' BY <1>0, <2>1 DEF DeploymentInv
  <2>3. \A t : Complete(t) => Complete(t)' BY <2>1, CompleteFrame
  <2>4. CASE Exit BY <2>2, <2>4, ExitEstablishes DEF PluginInv
  <2>5. CASE UNCHANGED <<driver, cs, ns, answer>> /\ phase' \in {"driver", "hung"} /\ ~Started
    <3>1. DriverInv' BY <1>0, <2>5 DEF DriverInv, Started
    <3>2. AnswerInv' BY <1>0, <2>5 DEF AnswerInv, Started
    <3>3. QED BY <2>2, <3>1, <3>2 DEF PluginInv
  <2>6. CASE UNCHANGED <<driver, cs, ns, answer>> /\ Started /\ Started'
    <3>1. DriverInv' BY <1>0, <2>1, <2>3, <2>6 DEF DriverInv, Started
    <3>2. AnswerInv' BY <1>0, <2>6 DEF AnswerInv
    <3>3. QED BY <2>2, <3>1, <3>2 DEF PluginInv
  <2>7. CASE UNCHANGED vars
    <3>1. UNCHANGED <<driver, cs, ns, answer, phase>> BY <2>7 DEF vars
    <3>2. DriverInv' BY <1>0, <2>1, <2>3, <3>1 DEF DriverInv, Started
    <3>3. AnswerInv' BY <1>0, <3>1 DEF AnswerInv, Started
    <3>4. QED BY <2>2, <3>2, <3>3 DEF PluginInv
  <2>8. CASE NewCSIDriver /\ ~Exit
    <3>1. /\ phase = "driver" /\ phase' = "metadata" /\ UNCHANGED <<cs, ns, answer>>
          /\ driver' = AddControllerCapabilities(conf)
      BY <2>8 DEF NewCSIDriver
    <3>2. DriverInv' BY <2>1, <3>1 DEF DriverInv, Started, AddControllerCapabilities, NoDriver
    <3>3. AnswerInv' BY <1>0, <3>1 DEF AnswerInv, Started
    <3>4. QED BY <2>2, <3>2, <3>3 DEF PluginInv
  <2>9. CASE NewMetadata /\ phase' = "servers"
    <3>1. PICK t \in GetTopologyFromDomainLabels(nodeLabels, conf.DomainLabels,
                                                 conf.prefixFits, Domain) :
            driver' = [driver EXCEPT !.Topology = t]
      BY <2>9 DEF NewMetadata, Exit
    <3>2. phase = "metadata" /\ UNCHANGED <<cs, ns, answer>> BY <2>9 DEF NewMetadata, Exit
    <3>3. Complete(t)' BY <1>0, <2>3, <3>1, ReportedComplete
    <3>4. driver'.Topology = t /\ driver'.Cap = driver.Cap BY <1>0, <3>1 DEF DriverInv
    <3>5. DriverInv' BY <1>0, <2>1, <2>9, <3>1, <3>2, <3>3, <3>4 DEF DriverInv, Started
    <3>6. AnswerInv' BY <1>0, <3>2 DEF AnswerInv, Started
    <3>7. QED BY <2>2, <3>5, <3>6 DEF PluginInv
  <2>10. CASE NewServers
    <3>1. /\ phase = "servers" /\ phase' = "serve" /\ answer' = answer
          /\ cs' = (conf.IsControllerServer \/ Both(conf))
          /\ ns' = (conf.IsNodeServer \/ Both(conf))
          /\ driver' = IF ns' THEN [driver EXCEPT !.NSCap = NodeCapabilities]
                              ELSE [driver EXCEPT !.Topology = NoTopology]
      BY <2>10 DEF NewServers
    <3>2. DriverInv' BY <1>0, <2>1, <2>3, <3>1 DEF DriverInv, Started, Both
    <3>3. AnswerInv' BY <1>0, <3>1 DEF AnswerInv, Started
    <3>4. QED BY <2>2, <3>2, <3>3 DEF PluginInv
  <2>11. ASSUME NEW call \in Calls, NEW request \in Requests(call),
                logGRPC(call, request), ~Exit
         PROVE  PluginInv'
    <3>1. /\ phase = "serving" /\ ~NoReceiver(call, request)
          /\ answer' = Handler(call, request)
          /\ UNCHANGED <<phase, driver, cs, ns>>
      BY <2>11 DEF logGRPC
    <3>2. DriverInv' BY <1>0, <2>1, <2>3, <3>1 DEF DriverInv, Started
    <3>3. AnswerInv'
      <4>1. /\ answer'.call = call /\ answer'.code = Code(call, request)
            /\ answer'.caps = Capabilities(call)
            /\ call = "NodeGetInfo" => answer'.topology = driver.Topology
        BY <3>1 DEF Handler
      <4>2. /\ call \in {"ControllerGetCapabilities", "CreateVolume"} => cs
            /\ call \in {"NodeGetCapabilities", "NodeGetInfo"} => ns
            /\ call = "DeleteVolume" => request = "refused" \/ cs
        BY <3>1 DEF NoReceiver, Receiver, Requests, VolumeCalls
      <4>3. /\ call = "CreateVolume" =>
                  (Code(call, request) = "Handled" <=> "CREATE_DELETE_VOLUME" \in driver.Cap)
            /\ call = "DeleteVolume" /\ Code(call, request) = "Handled" =>
                  request # "refused" /\ "CREATE_DELETE_VOLUME" \in driver.Cap
        BY DEF Code, validateControllerServiceRequest, Requests, VolumeCalls, DefaultCalls
      <4>4. /\ call = "ControllerGetCapabilities" => Capabilities(call) = driver.Cap
            /\ call = "NodeGetCapabilities" => Capabilities(call) = driver.NSCap
        BY DEF Capabilities
      <4>5. QED BY <3>1, <4>1, <4>2, <4>3, <4>4 DEF AnswerInv, Started
    <3>4. QED BY <2>2, <3>2, <3>3 DEF PluginInv
  <2>12. CASE main BY <2>5, <2>12 DEF main, Started
  <2>13. CASE NewMetadata
    BY <2>4, <2>5, <2>9, <2>13 DEF NewMetadata, Started
  <2>14. CASE RemoveSocket \/ Listen
    BY <2>4, <2>6, <2>14 DEF RemoveSocket, Listen, Started
  <2>15. CASE ServeFails \/ Crash \/ ProbeFails
    BY <2>4, <2>6, <2>15 DEF ServeFails, Crash, ProbeFails, Started
  <2>16. QED
    BY <1>2, <2>4, <2>7, <2>8, <2>10, <2>11, <2>12, <2>13, <2>14, <2>15 DEF Next, Run
<1>3. QED BY <1>1, <1>2

-----------------------------------------------------------------------------

\* Every serving process has the servers its flags ask for and tells of the
\* capabilities that go with them, for every command line.
THEOREM RolesServed == Spec => []ServesRole
<1>1. PluginInv => ServesRole
  <2> SUFFICES ASSUME PluginInv, Serving PROVE ServesRole BY DEF ServesRole
  <2>1. DeploymentInv /\ DriverInv /\ AnswerInv /\ Started BY DEF PluginInv, Serving, Started
  <2>2. /\ conf.IsControllerServer \in BOOLEAN /\ conf.IsNodeServer \in BOOLEAN
        /\ conf.Ephemeral \in BOOLEAN
    BY <2>1, PluginAssumption DEF DeploymentInv, ConfigOK
  <2>3. /\ cs = (conf.IsControllerServer \/ Both(conf))
        /\ ns = (conf.IsNodeServer \/ Both(conf))
    BY <2>1 DEF DriverInv
  <2>4. cs => driver.Cap = IF conf.Ephemeral THEN {} ELSE ControllerCapabilities
    BY <2>1, <2>2, <2>3 DEF DriverInv, AddControllerCapabilities, NoDriver, Both
  <2>5. ns => driver.NSCap = NodeCapabilities BY <2>1 DEF DriverInv
  <2>6. (conf.IsControllerServer => cs) /\ (conf.IsNodeServer => ns) /\ (cs \/ ns)
    BY <2>2, <2>3 DEF Both
  <2>7. answer.call = "ControllerGetCapabilities" => (answer.caps = {}) = conf.Ephemeral
    BY <2>1, <2>2, <2>4 DEF AnswerInv, ControllerCapabilities
  <2>8. /\ answer.call = "CreateVolume" => (answer.code # "Handled") = conf.Ephemeral
        /\ answer.call = "DeleteVolume" => (answer.code = "Handled" => ~conf.Ephemeral)
    BY <2>1, <2>2, <2>4 DEF AnswerInv, ControllerCapabilities
  <2>9. answer.call = "NodeGetCapabilities" => "STAGE_UNSTAGE_VOLUME" \in answer.caps
    BY <2>1, <2>5 DEF AnswerInv, NodeCapabilities
  <2>10. QED BY <2>6, <2>7, <2>8, <2>9 DEF ServesRole
<1>2. QED BY <1>1, PluginInit, PluginNext, PTL DEF Spec

\* NodeGetInfo reports every configured label with a value the node has,
\* after any number of restarts and while labels are added to the node.
THEOREM TopologyReported == Spec => []TopologyComplete
<1>1. PluginInv => TopologyComplete
  BY DEF PluginInv, DriverInv, AnswerInv, TopologyComplete, Complete
<1>2. QED BY <1>1, PluginInit, PluginNext, PTL DEF Spec

\* Whatever is called, in whatever order: only a call to a service that the
\* flags left out, or one that decodes a broken id, ends the process.
THEOREM SurvivesCalls == Spec => DiesOnlyForCause
<1> DEFINE Cause(call, request) ==
              \/ Receiver(call) = "cs" /\ conf.IsNodeServer /\ ~conf.IsControllerServer
              \/ Receiver(call) = "ns" /\ conf.IsControllerServer /\ ~conf.IsNodeServer
              \/ /\ request = "broken"
                 /\ \/ call \in {"ControllerExpandVolume", "NodeStageVolume"}
                    \/ call = "DeleteVolume" /\ ~conf.Ephemeral
           Dies ==
              \A call \in Calls : \A request \in Requests(call) :
                 (phase' = "down" /\ logGRPC(call, request)) => Cause(call, request)
<1>1. PluginInv => Dies
  <2> SUFFICES ASSUME PluginInv, NEW call \in Calls, NEW request \in Requests(call),
                      logGRPC(call, request), phase' = "down"
               PROVE  Cause(call, request)
    OBVIOUS
  <2>1. phase = "serving" /\ (NoReceiver(call, request) \/ MayBreak(call, request))
    BY DEF logGRPC
  <2>2. /\ conf.IsControllerServer \in BOOLEAN /\ conf.IsNodeServer \in BOOLEAN
        /\ conf.Ephemeral \in BOOLEAN
        /\ cs = (conf.IsControllerServer \/ Both(conf))
        /\ ns = (conf.IsNodeServer \/ Both(conf))
        /\ driver.Cap = AddControllerCapabilities(conf).Cap
    BY <2>1, PluginAssumption DEF PluginInv, DeploymentInv, DriverInv, Started, ConfigOK
  <2>3. CASE NoReceiver(call, request) BY <2>2, <2>3 DEF NoReceiver, Both
  <2>4. CASE MayBreak(call, request)
    <3>1. request = "broken" /\ call \in DecodingCalls BY <2>4 DEF MayBreak
    <3>2. call = "DeleteVolume" => "CREATE_DELETE_VOLUME" \in driver.Cap
      BY <2>4, <3>1 DEF MayBreak, Code, validateControllerServiceRequest, VolumeCalls, DefaultCalls
    <3>3. call = "DeleteVolume" => ~conf.Ephemeral
      BY <2>2, <3>2 DEF AddControllerCapabilities, NoDriver
    <3>4. QED BY <3>1, <3>3 DEF DecodingCalls
  <2>5. QED BY <2>1, <2>3, <2>4
<1> HIDE DEF Dies
<1>2. Spec => [][Dies]_vars BY <1>1, PluginInit, PluginNext, PTL DEF Spec
<1>3. QED BY <1>2 DEF Dies, DiesOnlyForCause
=============================================================================
