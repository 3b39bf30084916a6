-------------------------- MODULE FusedProxyProofs --------------------------
(***************************************************************************)
(* Proofs about mounting through the proxy, for any number of volumes,     *)
(* goroutines, key files and connections.                                  *)
(***************************************************************************)
EXTENDS FusedProxy, FiniteSetTheorems, TLAPS

-----------------------------------------------------------------------------
(* Types                                                                   *)

LEMMA InitTypes == Init => TypeOK
  BY FusedProxyAssumption DEF Init, TypeOK

LEMMA ClientTypes ==
    ASSUME TypeOK, NEW v \in Volumes, MountFcfsFusedWithProxy(v) \/ ClientStep(v)
    PROVE  TypeOK'
<1>1. CASE MountFcfsFusedWithProxy(v)
  BY <1>1 DEF MountFcfsFusedWithProxy, TypeOK, servers
<1>2. CASE DialContext(v)
  BY <1>2, FusedProxyAssumption DEF DialContext, Fail, TypeOK, servers
<1>3. CASE CallProxy(v)
  <2>1. CASE proxy = "serving"
    <3>1. PICK s \in Servers : /\ job' = [job EXCEPT ![s] = v]
                              /\ awaited' = [awaited EXCEPT ![s] = TRUE]
                              /\ spc' = [spc EXCEPT ![s] = "lock"]
      BY <1>3, <2>1 DEF CallProxy
    <3>2. cpc' = [cpc EXCEPT ![v] = "wait"] /\ UNCHANGED outcome
      BY <1>3, <2>1 DEF CallProxy
    <3>3. QED BY <1>3, <3>1, <3>2 DEF CallProxy, TypeOK
  <2>2. CASE proxy # "serving"
    BY <1>3, <2>2 DEF CallProxy, Fail, TypeOK
  <2>3. QED BY <2>1, <2>2
<1>4. CASE ReturnToStage(v)
  BY <1>4 DEF ReturnToStage, TypeOK, servers
<1>5. QED BY <1>1, <1>2, <1>3, <1>4 DEF ClientStep

LEMMA ServerTypes ==
    ASSUME TypeOK, NEW s \in Servers, ServerStep(s)
    PROVE  TypeOK'
<1> USE DEF TypeOK, plugin, GotoServer, Decide
<1>1. CASE LockMutex(s) BY <1>1 DEF LockMutex
<1>2. CASE GetCredentials(s) BY <1>2 DEF GetCredentials
<1>3. CASE MakeBasePath(s) BY <1>3 DEF MakeBasePath
<1>4. CASE StartCommand(s) BY <1>4 DEF StartCommand
<1>5. CASE EndCommand(s) BY <1>5 DEF EndCommand
<1>6. CASE DeleteKey(s) BY <1>6 DEF DeleteKey
<1>7. CASE UnlockMutex(s) BY <1>7 DEF UnlockMutex
<1>8. CASE Reply(s) BY <1>8 DEF Reply
<1>9. QED
  BY <1>1, <1>2, <1>3, <1>4, <1>5, <1>6, <1>7, <1>8 DEF ServerStep

LEMMA ProcessTypes ==
    ASSUME TypeOK, StartProxy \/ Listen \/ ProxyCrash \/ PluginCrash
    PROVE  TypeOK'
<1>1. CASE StartProxy \/ Listen
  BY <1>1 DEF TypeOK, StartProxy, Listen, plugin, servers
<1>2. CASE ProxyCrash
  BY <1>2 DEF TypeOK, ProxyCrash
<1>3. CASE PluginCrash
  BY <1>3, FusedProxyAssumption DEF TypeOK, PluginCrash
<1>4. QED BY <1>1, <1>2, <1>3

\* The variables of the client and of the proxy keep their types.
THEOREM TypeCorrect == Spec => []TypeOK
<1>1. TypeOK /\ UNCHANGED vars => TypeOK' BY DEF TypeOK, vars
<1>2. TypeOK /\ [Next]_vars => TypeOK'
  BY <1>1, ClientTypes, ServerTypes, ProcessTypes DEF Next
<1>3. QED BY <1>2, InitTypes, PTL DEF Spec

-----------------------------------------------------------------------------
(* The mutex                                                               *)

\* Whoever is between Lock and Unlock is the holder on record: with a single
\* holder on record this is OneCommand.
HolderOnRecord == \A s \in Servers : HoldsMutex(s) => mutex = s

LEMMA HolderIsOne == HolderOnRecord => OneCommand
  BY DEF HolderOnRecord, OneCommand

\* A step of the client lets no goroutine into the critical section.
LEMMA ClientMutex ==
    ASSUME TypeOK, HolderOnRecord, NEW v \in Volumes,
           MountFcfsFusedWithProxy(v) \/ ClientStep(v)
    PROVE  HolderOnRecord'
<1>1. mutex' = mutex
  BY DEF MountFcfsFusedWithProxy, ClientStep, DialContext, CallProxy, ReturnToStage, servers
<1>2. \A s \in Servers : HoldsMutex(s)' => HoldsMutex(s)
  BY DEF MountFcfsFusedWithProxy, ClientStep, DialContext, CallProxy, ReturnToStage,
         servers, HoldsMutex, TypeOK
<1>3. QED BY <1>1, <1>2 DEF HolderOnRecord

LEMMA ServerMutex ==
    ASSUME TypeOK, HolderOnRecord, NEW s \in Servers, ServerStep(s)
    PROVE  HolderOnRecord'
<1>0. \A t \in Servers : t # s => (HoldsMutex(t)' <=> HoldsMutex(t))
  BY DEF ServerStep, LockMutex, GetCredentials, MakeBasePath, StartCommand, EndCommand,
         DeleteKey, UnlockMutex, Reply, GotoServer, HoldsMutex, TypeOK
<1>1. CASE LockMutex(s)
  <2>1. \A t \in Servers : ~HoldsMutex(t)
    BY <1>1, FusedProxyAssumption DEF LockMutex, HolderOnRecord
  <2>2. QED BY <1>0, <1>1, <2>1 DEF LockMutex, HolderOnRecord
<1>2. CASE UnlockMutex(s)
  <2>1. HoldsMutex(s) /\ ~HoldsMutex(s)'
    BY <1>2 DEF UnlockMutex, GotoServer, HoldsMutex, TypeOK
  <2>2. \A t \in Servers : ~HoldsMutex(t)'
    BY <1>0, <2>1 DEF HolderOnRecord
  <2>3. QED BY <2>2 DEF HolderOnRecord
<1>3. CASE GetCredentials(s) \/ MakeBasePath(s) \/ StartCommand(s) \/ EndCommand(s)
             \/ DeleteKey(s)
  <2>1. HoldsMutex(s) /\ mutex' = mutex
    BY <1>3 DEF GetCredentials, MakeBasePath, StartCommand, EndCommand, DeleteKey, HoldsMutex
  <2>2. QED BY <1>0, <2>1 DEF HolderOnRecord
<1>4. CASE Reply(s)
  <2>1. ~HoldsMutex(s)' /\ mutex' = mutex
    BY <1>4 DEF Reply, GotoServer, HoldsMutex, TypeOK
  <2>2. QED BY <1>0, <2>1 DEF HolderOnRecord
<1>5. QED BY <1>1, <1>2, <1>3, <1>4 DEF ServerStep

LEMMA ProcessMutex ==
    TypeOK /\ HolderOnRecord /\ (StartProxy \/ Listen \/ ProxyCrash \/ PluginCrash)
        => HolderOnRecord'
  BY DEF TypeOK, HolderOnRecord, HoldsMutex, StartProxy, Listen, ProxyCrash, PluginCrash,
         servers

\* One fcfs_fused command runs at a time in the proxy, whichever of the two
\* processes died in between.
THEOREM OneCommandAtATime == Spec => []OneCommand
<1>1. Init => HolderOnRecord BY DEF Init, HolderOnRecord, HoldsMutex
<1>2. HolderOnRecord /\ UNCHANGED vars => HolderOnRecord'
  BY DEF HolderOnRecord, HoldsMutex, vars
<1>3. TypeOK /\ HolderOnRecord /\ [Next]_vars => HolderOnRecord'
  BY <1>2, ClientMutex, ServerMutex, ProcessMutex DEF Next
<1>4. QED BY <1>1, <1>3, HolderIsOne, TypeCorrect, PTL DEF Spec

-----------------------------------------------------------------------------
(* Key files                                                               *)

\* A goroutine has a key file exactly between storing and deleting it, the
\* file is there, and no two goroutines have the same one.
KeysOwned ==
    /\ \A s \in Servers :
          /\ cr[s] # NoKey <=> spc[s] \in {"mkdir", "exec", "running", "delkey"}
          /\ cr[s] # NoKey => cr[s] \in keyFiles
    /\ \A s, t \in Servers : cr[s] # NoKey /\ cr[s] = cr[t] => s = t

\* The client does not touch keys, and starts goroutines without one.
LEMMA ClientKeys ==
    ASSUME TypeOK, KeysOwned, NEW v \in Volumes,
           MountFcfsFusedWithProxy(v) \/ ClientStep(v)
    PROVE  KeysOwned' /\ UNCHANGED <<keyFiles, cr>>
<1>1. UNCHANGED <<keyFiles, cr>>
  BY DEF MountFcfsFusedWithProxy, ClientStep, DialContext, CallProxy, ReturnToStage, servers
<1>2. \A s \in Servers : spc'[s] # spc[s] => spc[s] = "idle" /\ spc'[s] = "lock"
  BY DEF MountFcfsFusedWithProxy, ClientStep, DialContext, CallProxy, ReturnToStage,
         servers, TypeOK
<1>3. QED BY <1>1, <1>2 DEF KeysOwned

LEMMA ServerKeys ==
    ASSUME TypeOK, KeysOwned, NEW s \in Servers, ServerStep(s)
    PROVE  KeysOwned' /\ \A k \in OrphanKeys' \ OrphanKeys : TriesRemoval(s, k)
<1>0. \A t \in Servers : t # s => spc'[t] = spc[t]
  BY DEF ServerStep, LockMutex, GetCredentials, MakeBasePath, StartCommand, EndCommand,
         DeleteKey, UnlockMutex, Reply, GotoServer, TypeOK
<1>1. CASE keyFiles \subseteq keyFiles' /\ cr' = cr
  <2>1. ~DeleteKey(s)
    BY <1>1, FusedProxyAssumption DEF DeleteKey, KeysOwned, TypeOK
  <2>0. GetCredentials(s) => Decide(s, "failed") /\ GotoServer(s, "unlock")
    BY <1>1, FusedProxyAssumption DEF GetCredentials, KeysOwned, TypeOK
  <2>2. spc'[s] \in {"mkdir", "exec", "running", "delkey"}
          <=> spc[s] \in {"mkdir", "exec", "running", "delkey"}
    BY <2>0, <2>1 DEF ServerStep, LockMutex, GetCredentials, MakeBasePath, StartCommand,
         EndCommand, UnlockMutex, Reply, GotoServer, TypeOK
  <2>3. KeysOwned' BY <1>0, <1>1, <2>2 DEF KeysOwned
  <2>4. keyFiles' # keyFiles => spc[s] = "credentials" /\ result'[s] = "failed"
    BY <2>0, <2>1 DEF ServerStep, LockMutex, GetCredentials, MakeBasePath, StartCommand,
         EndCommand, UnlockMutex, Reply, Decide, TypeOK
  <2>5. \A k \in OrphanKeys' \ OrphanKeys : k \notin keyFiles BY <1>1 DEF OrphanKeys
  <2>6. \A k \in OrphanKeys' \ OrphanKeys : k \in keyFiles' BY DEF OrphanKeys
  <2>7. QED BY <2>3, <2>4, <2>5, <2>6 DEF TriesRemoval
<1>2. CASE /\ GetCredentials(s)
           /\ \E k \in KeyFiles \ keyFiles :
                /\ keyFiles' = keyFiles \cup {k}
                /\ cr' = [cr EXCEPT ![s] = k]
                /\ GotoServer(s, "mkdir")
  <2>1. PICK k \in KeyFiles \ keyFiles :
          /\ keyFiles' = keyFiles \cup {k}
          /\ cr' = [cr EXCEPT ![s] = k]
          /\ GotoServer(s, "mkdir")
    BY <1>2
  <2>2. spc'[s] = "mkdir" /\ cr'[s] = k /\ k # NoKey
    BY <2>1, FusedProxyAssumption DEF GotoServer, TypeOK
  <2>3. \A t \in Servers : t # s => cr'[t] = cr[t] /\ cr[t] # k
    BY <2>1, FusedProxyAssumption DEF KeysOwned, TypeOK
  <2>4. KeysOwned' BY <1>0, <2>1, <2>2, <2>3 DEF KeysOwned
  <2>5. cr[s] \notin keyFiles
    BY <1>2, FusedProxyAssumption DEF KeysOwned, GetCredentials, TypeOK
  <2>6. QED BY <2>1, <2>2, <2>3, <2>4, <2>5 DEF OrphanKeys
<1>3. CASE DeleteKey(s)
  <2>1. cr[s] # NoKey /\ spc'[s] = "unlock" /\ cr'[s] = NoKey
    BY <1>3 DEF DeleteKey, GotoServer, KeysOwned, TypeOK
  <2>2. \A t \in Servers : t # s => cr'[t] = cr[t] /\ cr[t] # cr[s]
    BY <1>3, <2>1 DEF DeleteKey, KeysOwned, TypeOK
  <2>3. KeysOwned' BY <1>0, <1>3, <2>1, <2>2 DEF DeleteKey, KeysOwned
  <2>4. \A k \in OrphanKeys' \ OrphanKeys : k = cr[s]
    BY <1>3, <2>2 DEF DeleteKey, OrphanKeys
  <2>5. QED BY <1>3, <2>3, <2>4 DEF DeleteKey, TriesRemoval
<1>4. QED
  BY <1>1, <1>2, <1>3 DEF ServerStep, LockMutex, GetCredentials, MakeBasePath,
     StartCommand, EndCommand, UnlockMutex, Reply

LEMMA ProcessKeys ==
    ASSUME TypeOK, KeysOwned, StartProxy \/ Listen \/ ProxyCrash \/ PluginCrash
    PROVE  KeysOwned' /\ (ProxyCrash \/ OrphanKeys' = OrphanKeys)
<1>1. CASE ProxyCrash BY <1>1 DEF ProxyCrash, KeysOwned
<1>2. CASE StartProxy \/ Listen \/ PluginCrash
  <2>1. UNCHANGED <<spc, cr, keyFiles>>
    BY <1>2 DEF StartProxy, Listen, PluginCrash, servers
  <2>2. QED BY <2>1 DEF KeysOwned, OrphanKeys
<1>3. QED BY <1>1, <1>2

LEMMA NextKeys ==
    ASSUME TypeOK, KeysOwned, [Next]_vars
    PROVE  /\ KeysOwned'
           /\ [ProxyCrash \/ \A k \in OrphanKeys' \ OrphanKeys :
                                \E s \in Servers : TriesRemoval(s, k)]_vars
<1>1. CASE UNCHANGED vars BY <1>1 DEF KeysOwned, vars
<1>2. CASE \E v \in Volumes : MountFcfsFusedWithProxy(v) \/ ClientStep(v)
  BY <1>2, ClientKeys DEF OrphanKeys
<1>3. QED BY <1>1, <1>2, ServerKeys, ProcessKeys DEF Next

LEMMA KeysInductive == Spec => []KeysOwned
<1>1. Init => KeysOwned BY DEF Init, KeysOwned
<1>2. QED BY <1>1, NextKeys, TypeCorrect, PTL DEF Spec

\* Every return path of MountFcfsFused tries to remove the key it has
\* stored: only the death of the proxy or a failing os.Remove leaves one.
THEOREM NoKeyLeak == Spec => ProxyKeysRemoved
  BY NextKeys, KeysInductive, TypeCorrect, PTL DEF Spec, ProxyKeysRemoved

-----------------------------------------------------------------------------
(* Refinement                                                              *)

\* What a goroutine does agrees with where it is, and a caller it works for
\* is waiting for it.
JobShape(s) ==
    /\ spc[s] = "idle" <=> job[s] = NoVolume
    /\ spc[s] = "idle" => ~awaited[s]
    /\ result[s] # "none" <=> spc[s] \in {"delkey", "unlock", "reply"}
    /\ awaited[s] => cpc[job[s]] = "wait"

\* Every call has at most one goroutine, and returns with an outcome.
CallsServed ==
    /\ \A s \in Servers : JobShape(s)
    /\ \A s, t \in Servers : awaited[s] /\ awaited[t] /\ job[s] = job[t] => s = t
    /\ \A v \in Volumes : cpc[v] = "return" => outcome[v] \in {"OK", "error"}

LEMMA ClientCalls ==
    ASSUME TypeOK, CallsServed, NEW v \in Volumes,
           MountFcfsFusedWithProxy(v) \/ ClientStep(v)
    PROVE  CallsServed'
<1>1. CASE /\ cpc[v] # "wait" /\ cpc'[v] # "wait"
           /\ \A w \in Volumes : w # v => cpc'[w] = cpc[w] /\ outcome'[w] = outcome[w]
           /\ cpc'[v] = "return" => outcome'[v] \in {"OK", "error"}
           /\ UNCHANGED <<job, awaited, spc, result>>
  <2>1. \A s \in Servers : JobShape(s)'
    BY <1>1, FusedProxyAssumption DEF CallsServed, JobShape, TypeOK
  <2>2. QED BY <1>1, <2>1 DEF CallsServed
<1>2. CASE CallProxy(v) /\ proxy = "serving"
  <2>1. PICK s \in Servers : /\ spc[s] = "idle"
                            /\ job' = [job EXCEPT ![s] = v]
                            /\ awaited' = [awaited EXCEPT ![s] = TRUE]
                            /\ spc' = [spc EXCEPT ![s] = "lock"]
    BY <1>2 DEF CallProxy
  <2>2. /\ cpc[v] = "call" /\ cpc' = [cpc EXCEPT ![v] = "wait"]
        /\ UNCHANGED <<outcome, result>>
    BY <1>2 DEF CallProxy
  <2>3. \A t \in Servers : awaited[t] => job[t] # v
    BY <2>2 DEF CallsServed, JobShape
  <2>4. JobShape(s)'
    BY <2>1, <2>2, FusedProxyAssumption DEF CallsServed, JobShape, TypeOK
  <2>5. \A t \in Servers : t # s => JobShape(t)'
    BY <2>1, <2>2, FusedProxyAssumption DEF CallsServed, JobShape, TypeOK
  <2>6. \A t, u \in Servers : awaited'[t] /\ awaited'[u] /\ job'[t] = job'[u] => t = u
    BY <2>1, <2>3 DEF CallsServed, TypeOK
  <2>7. \A w \in Volumes : cpc'[w] = "return" => outcome'[w] \in {"OK", "error"}
    BY <2>2 DEF CallsServed, TypeOK
  <2>8. QED BY <2>4, <2>5, <2>6, <2>7 DEF CallsServed
<1>3. QED
  BY <1>1, <1>2 DEF MountFcfsFusedWithProxy, ClientStep, DialContext, CallProxy,
     ReturnToStage, Fail, servers, TypeOK

LEMMA ServerCalls ==
    ASSUME TypeOK, CallsServed, NEW s \in Servers, ServerStep(s)
    PROVE  CallsServed'
<1>1. CASE Reply(s)
  <2>1. /\ job' = [job EXCEPT ![s] = NoVolume] /\ awaited' = [awaited EXCEPT ![s] = FALSE]
        /\ result' = [result EXCEPT ![s] = "none"] /\ spc' = [spc EXCEPT ![s] = "idle"]
    BY <1>1 DEF Reply, GotoServer
  <2>2. \A w \in Volumes : (awaited[s] => w # job[s]) => cpc'[w] = cpc[w] /\ outcome'[w] = outcome[w]
    BY <1>1 DEF Reply, TypeOK
  <2>3. awaited[s] => outcome'[job[s]] \in {"OK", "error"}
    BY <1>1, FusedProxyAssumption DEF Reply, TypeOK, CallsServed, JobShape
  <2>4. JobShape(s)' BY <2>1 DEF JobShape, TypeOK
  <2>5. ASSUME NEW t \in Servers, t # s PROVE JobShape(t)'
    <3>1. /\ job'[t] = job[t] /\ awaited'[t] = awaited[t] /\ spc'[t] = spc[t]
          /\ result'[t] = result[t]
      BY <2>1, <2>5 DEF TypeOK
    <3>2. awaited[t] => cpc'[job[t]] = cpc[job[t]]
      BY <2>2, <2>5 DEF CallsServed, JobShape, TypeOK
    <3>3. QED BY <3>1, <3>2 DEF CallsServed, JobShape
  <2>6. \A t, u \in Servers : awaited'[t] /\ awaited'[u] /\ job'[t] = job'[u] => t = u
    BY <2>1 DEF CallsServed, TypeOK
  <2>7. \A w \in Volumes : cpc'[w] = "return" => outcome'[w] \in {"OK", "error"}
    BY <2>2, <2>3 DEF CallsServed
  <2>8. QED BY <2>4, <2>5, <2>6, <2>7 DEF CallsServed
<1>2. CASE ~Reply(s)
  <2>1. UNCHANGED <<cpc, outcome, job, awaited>>
    BY <1>2 DEF ServerStep, LockMutex, GetCredentials, MakeBasePath, StartCommand,
       EndCommand, DeleteKey, UnlockMutex, plugin
  <2>2. /\ spc[s] # "idle" /\ spc'[s] # "idle"
        /\ result'[s] # "none" <=> spc'[s] \in {"delkey", "unlock", "reply"}
    BY <1>2 DEF ServerStep, LockMutex, GetCredentials, MakeBasePath, StartCommand,
       EndCommand, DeleteKey, UnlockMutex, GotoServer, Decide, CallsServed, JobShape, TypeOK
  <2>3. \A t \in Servers : t # s => spc'[t] = spc[t] /\ result'[t] = result[t]
    BY <1>2 DEF ServerStep, LockMutex, GetCredentials, MakeBasePath, StartCommand,
       EndCommand, DeleteKey, UnlockMutex, GotoServer, Decide, TypeOK
  <2>4. QED BY <2>1, <2>2, <2>3 DEF CallsServed, JobShape
<1>3. QED BY <1>1, <1>2

LEMMA ProcessCalls ==
    ASSUME TypeOK, CallsServed, StartProxy \/ Listen \/ ProxyCrash \/ PluginCrash
    PROVE  CallsServed'
<1>1. CASE StartProxy \/ Listen
  BY <1>1 DEF CallsServed, JobShape, StartProxy, Listen, plugin, servers
<1>2. CASE ProxyCrash
  BY <1>2 DEF CallsServed, JobShape, ProxyCrash, TypeOK
<1>3. CASE PluginCrash
  BY <1>3 DEF CallsServed, JobShape, PluginCrash, TypeOK
<1>4. QED BY <1>1, <1>2, <1>3

LEMMA CallsInductive == Spec => []CallsServed
<1>1. Init => CallsServed
  BY FusedProxyAssumption DEF Init, CallsServed, JobShape
<1>2. CallsServed /\ UNCHANGED vars => CallsServed'
  BY DEF CallsServed, JobShape, vars
<1>3. TypeOK /\ CallsServed /\ [Next]_vars => CallsServed'
  BY <1>2, ClientCalls, ServerCalls, ProcessCalls DEF Next
<1>4. QED BY <1>1, <1>3, TypeCorrect, PTL DEF Spec

\* What Stage says of a call, case by case; the goroutine that Stage chooses
\* is the only one that works for the call.
StageFacts ==
    \A v \in Volumes :
        /\ cpc[v] = "idle" => Stage(v) = "none"
        /\ cpc[v] = "return" => Stage(v) = outcome[v]
        /\ cpc[v] \in {"dial", "call"} => Stage(v) = "asked"
        /\ \A s \in Servers : awaited[s] /\ job[s] = v =>
              Stage(v) = IF result[s] = "none" THEN "asked" ELSE result[s]
        /\ (cpc[v] = "wait" /\ \A s \in Servers : ~(awaited[s] /\ job[s] = v)) =>
              Stage(v) = "asked"

LEMMA StageIs == TypeOK /\ CallsServed => StageFacts
<1> SUFFICES ASSUME TypeOK, CallsServed, NEW v \in Volumes
             PROVE  /\ cpc[v] = "idle" => Stage(v) = "none"
                    /\ cpc[v] = "return" => Stage(v) = outcome[v]
                    /\ cpc[v] \in {"dial", "call"} => Stage(v) = "asked"
                    /\ \A s \in Servers : awaited[s] /\ job[s] = v =>
                          Stage(v) = IF result[s] = "none" THEN "asked" ELSE result[s]
                    /\ (cpc[v] = "wait" /\ \A s \in Servers : ~(awaited[s] /\ job[s] = v)) =>
                          Stage(v) = "asked"
  BY DEF StageFacts
<1>1. ASSUME NEW s \in Servers, awaited[s], job[s] = v
      PROVE  Stage(v) = IF result[s] = "none" THEN "asked" ELSE result[s]
  <2>1. Serving(v) = {s} BY <1>1 DEF Serving, CallsServed
  <2>2. (CHOOSE t \in Serving(v) : TRUE) = s BY <2>1
  <2>3. cpc[v] = "wait" BY <1>1 DEF CallsServed, JobShape
  <2>4. QED BY <2>1, <2>2, <2>3 DEF Stage
<1>2. (\A s \in Servers : ~(awaited[s] /\ job[s] = v)) => Serving(v) = {}
  BY DEF Serving
<1>3. cpc[v] # "wait" => \A s \in Servers : ~(awaited[s] /\ job[s] = v)
  BY DEF CallsServed, JobShape
<1>4. QED BY <1>1, <1>2, <1>3 DEF Stage

LEMMA StageIsNext == TypeOK' /\ CallsServed' => StageFacts'
  BY StageIs, PTL

\* A call moves on only with its own client or goroutine.
LEMMA StageKept ==
    ASSUME TypeOK, StageFacts, StageFacts', NEW w \in Volumes,
           cpc'[w] = cpc[w], outcome'[w] = outcome[w],
           \A t \in Servers : awaited'[t] /\ job'[t] = w <=> awaited[t] /\ job[t] = w,
           \A t \in Servers : awaited[t] /\ job[t] = w => result'[t] = result[t]
    PROVE  Stage(w)' = Stage(w)
<1>1. CASE \E t \in Servers : awaited[t] /\ job[t] = w
  <2>1. PICK t \in Servers : awaited[t] /\ job[t] = w BY <1>1
  <2>2. QED BY <2>1 DEF StageFacts
<1>2. CASE ~\E t \in Servers : awaited[t] /\ job[t] = w
  BY <1>2 DEF StageFacts, TypeOK
<1>3. QED BY <1>1, <1>2

\* The goroutines that Owed counts.
Abandoned(v) == {s \in Servers : job[s] = v /\ ~awaited[s] /\ result[s] = "none"}

OwedFacts ==
    \A v \in Volumes :
        /\ Owed(v) = Cardinality(Abandoned(v))
        /\ IsFiniteSet(Abandoned(v))
        /\ Owed(v) \in Nat
        /\ Abandoned(v) # {} => Owed(v) > 0

LEMMA OwedCounts == OwedFacts
<1> SUFFICES ASSUME NEW v \in Volumes
             PROVE  /\ Owed(v) = Cardinality(Abandoned(v))
                    /\ IsFiniteSet(Abandoned(v))
                    /\ Owed(v) \in Nat
                    /\ Abandoned(v) # {} => Owed(v) > 0
  BY DEF OwedFacts
<1>1. Owed(v) = Cardinality(Abandoned(v)) BY DEF Owed, Abandoned
<1>2. Abandoned(v) \in SUBSET Servers BY DEF Abandoned
<1>3. IsFiniteSet(Abandoned(v)) BY <1>2, FS_Subset, FusedProxyAssumption
<1>4. Cardinality(Abandoned(v)) \in Nat BY <1>3, FS_CardinalityType
<1>5. Abandoned(v) # {} => Cardinality(Abandoned(v)) # 0 BY <1>3, FS_EmptySet
<1>6. QED BY <1>1, <1>3, <1>4, <1>5

LEMMA OwedCountsNext == OwedFacts'
  BY OwedCounts, PTL

\* A step that the abstract service sees at one volume, or nowhere.
LEMMA OneVolume ==
    ASSUME NEW v \in Volumes,
           \A w \in Volumes : w # v => Stage(w)' = Stage(w) /\ Owed(w)' = Owed(w)
    PROVE  /\ [w \in Volumes |-> Stage(w)'] =
                  [[w \in Volumes |-> Stage(w)] EXCEPT ![v] = Stage(v)']
           /\ [w \in Volumes |-> Owed(w)'] =
                  [[w \in Volumes |-> Owed(w)] EXCEPT ![v] = Owed(v)']
  OBVIOUS

LEMMA NoVolumeSees ==
    ASSUME \A w \in Volumes : Stage(w)' = Stage(w) /\ Owed(w)' = Owed(w), UNCHANGED daemon
    PROVE  UNCHANGED Service!vars
  BY DEF Service!vars

-----------------------------------------------------------------------------

\* The client's own steps: asking, being refused and returning are seen.
LEMMA ClientMaps ==
    ASSUME TypeOK, CallsServed, TypeOK', CallsServed', NEW v \in Volumes,
           MountFcfsFusedWithProxy(v) \/ ClientStep(v)
    PROVE  Service!Next \/ UNCHANGED Service!vars
<1>0. StageFacts /\ StageFacts' BY StageIs, StageIsNext
<1>1. CASE CallProxy(v) /\ proxy = "serving"
  <2>1. PICK s \in Servers : /\ spc[s] = "idle"
                            /\ job' = [job EXCEPT ![s] = v]
                            /\ awaited' = [awaited EXCEPT ![s] = TRUE]
    BY <1>1 DEF CallProxy
  <2>2. /\ cpc[v] = "call" /\ cpc' = [cpc EXCEPT ![v] = "wait"]
        /\ UNCHANGED <<outcome, result, daemon>>
    BY <1>1 DEF CallProxy
  <2>3. result[s] = "none" /\ job[s] = NoVolume /\ ~awaited[s]
    BY <2>1 DEF CallsServed, JobShape
  <2>4. Stage(v) = "asked" /\ Stage(v)' = "asked"
    BY <1>0, <2>1, <2>2, <2>3 DEF StageFacts, TypeOK
  <2>5. ASSUME NEW w \in Volumes, w # v PROVE Stage(w)' = Stage(w)
    <3>1. \A t \in Servers : awaited'[t] /\ job'[t] = w <=> awaited[t] /\ job[t] = w
      BY <2>1, <2>3, <2>5, FusedProxyAssumption DEF TypeOK
    <3>2. cpc'[w] = cpc[w] /\ outcome'[w] = outcome[w] BY <2>2, <2>5 DEF TypeOK
    <3>3. QED BY <1>0, <2>2, <3>1, <3>2, StageKept
  <2>7. \A w \in Volumes : Abandoned(w)' = Abandoned(w)
    BY <2>1, <2>2, <2>3, FusedProxyAssumption DEF Abandoned, TypeOK
  <2>8. \A w \in Volumes : Owed(w)' = Owed(w)
    BY <2>7, OwedCounts, OwedCountsNext DEF OwedFacts
  <2>9. QED BY <2>2, <2>4, <2>5, <2>8, NoVolumeSees
<1>2. CASE ~(CallProxy(v) /\ proxy = "serving")
  <2>1. /\ UNCHANGED <<daemon, job, awaited, result>>
        /\ \A w \in Volumes : w # v => cpc'[w] = cpc[w] /\ outcome'[w] = outcome[w]
    BY <1>2 DEF MountFcfsFusedWithProxy, ClientStep, DialContext, CallProxy,
       ReturnToStage, Fail, servers, TypeOK
  <2>2. \A w \in Volumes : w # v => Stage(w)' = Stage(w)
    BY <2>1 DEF Stage, Serving
  <2>3. \A w \in Volumes : Owed(w)' = Owed(w)
    BY <2>1 DEF Owed
  <2>4. CASE MountFcfsFusedWithProxy(v)
    <3>1. Stage(v) = "none" /\ Stage(v)' = "asked"
      BY <1>0, <2>4 DEF MountFcfsFusedWithProxy, StageFacts, TypeOK
    <3>2. Service!Ask(v) BY <2>1, <2>2, <2>3, <3>1, OneVolume DEF Service!Ask
    <3>3. QED BY <3>2 DEF Service!Next
  <2>5. CASE Fail(v) /\ cpc[v] \in {"dial", "call"}
    <3>1. Stage(v) = "asked" /\ Stage(v)' = "error"
      BY <1>0, <2>5 DEF Fail, StageFacts, TypeOK
    <3>2. Service!Answer(v) BY <2>1, <2>2, <2>3, <3>1, OneVolume DEF Service!Answer
    <3>3. QED BY <3>2 DEF Service!Next, Service!Serve
  <2>6. CASE DialContext(v) /\ ~Fail(v)
    <3>1. Stage(v) = "asked" /\ Stage(v)' = "asked"
      BY <1>0, <2>6 DEF DialContext, StageFacts, TypeOK
    <3>2. QED BY <2>1, <2>2, <2>3, <3>1, NoVolumeSees
  <2>7. CASE ReturnToStage(v)
    <3>1. Stage(v) \in {"OK", "error"} /\ Stage(v)' = "none"
      BY <1>0, <2>7 DEF ReturnToStage, StageFacts, CallsServed, TypeOK
    <3>2. Service!Return(v) BY <2>1, <2>2, <2>3, <3>1, OneVolume DEF Service!Return
    <3>3. QED BY <3>2 DEF Service!Next, Service!Serve
  <2>8. QED BY <1>2, <2>4, <2>5, <2>6, <2>7 DEF ClientStep, CallProxy, DialContext
<1>3. QED BY <1>1, <1>2

\* A goroutine that knows its outcome: its caller's call is decided, or one
\* restart less is owed.
LEMMA DecisionSeen ==
    ASSUME TypeOK, CallsServed, TypeOK', CallsServed', NEW s \in Servers,
           NEW r \in {"mounted", "failed"}, Decide(s, r), result[s] = "none",
           spc[s] # "idle", UNCHANGED <<cpc, outcome, job, awaited>>
    PROVE  /\ job[s] \in Volumes
           /\ \A w \in Volumes : w # job[s] => Stage(w)' = Stage(w) /\ Owed(w)' = Owed(w)
           /\ awaited[s] => /\ Stage(job[s]) = "asked" /\ Stage(job[s])' = r
                            /\ Owed(job[s])' = Owed(job[s])
           /\ ~awaited[s] => /\ Stage(job[s])' = Stage(job[s])
                             /\ Owed(job[s]) > 0 /\ Owed(job[s])' = Owed(job[s]) - 1
<1>0. StageFacts /\ StageFacts' BY StageIs, StageIsNext
<1>1. job[s] \in Volumes BY DEF CallsServed, JobShape, TypeOK
<1>2. result'[s] = r /\ \A t \in Servers : t # s => result'[t] = result[t]
  BY DEF Decide, TypeOK
<1>3. ASSUME NEW w \in Volumes, w # job[s]
      PROVE  Stage(w)' = Stage(w) /\ Owed(w)' = Owed(w)
  <2>1. Stage(w)' = Stage(w) BY <1>0, <1>2, <1>3, StageKept
  <2>2. Abandoned(w)' = Abandoned(w) BY <1>2, <1>3 DEF Abandoned
  <2>3. QED BY <2>1, <2>2, OwedCounts, OwedCountsNext DEF OwedFacts
<1>4. CASE awaited[s]
  <2>1. Stage(job[s]) = "asked" /\ Stage(job[s])' = r
    BY <1>0, <1>1, <1>2, <1>4 DEF StageFacts
  <2>2. Abandoned(job[s])' = Abandoned(job[s]) BY <1>2, <1>4 DEF Abandoned
  <2>3. QED BY <1>1, <1>3, <1>4, <2>1, <2>2, OwedCounts, OwedCountsNext DEF OwedFacts
<1>5. CASE ~awaited[s]
  <2>1. Stage(job[s])' = Stage(job[s]) BY <1>0, <1>1, <1>2, <1>5, StageKept
  <2>2. s \in Abandoned(job[s]) /\ Abandoned(job[s])' = Abandoned(job[s]) \ {s}
    BY <1>2, <1>5 DEF Abandoned
  <2>3. Cardinality(Abandoned(job[s])') = Cardinality(Abandoned(job[s])) - 1
    BY <1>1, <2>2, OwedCounts, FS_RemoveElement DEF OwedFacts
  <2>4. QED BY <1>1, <1>3, <1>5, <2>1, <2>2, <2>3, OwedCounts, OwedCountsNext DEF OwedFacts
<1>6. QED BY <1>1, <1>3, <1>4, <1>5

\* ... which is a restart, a refusal or a debt repaid.
LEMMA DecisionMaps ==
    ASSUME TypeOK, CallsServed, TypeOK', CallsServed', NEW s \in Servers,
           NEW r \in {"mounted", "failed"}, Decide(s, r), result[s] = "none",
           spc[s] # "idle", UNCHANGED <<cpc, outcome, job, awaited>>,
           \/ daemon' = [daemon EXCEPT ![job[s]] = TRUE]
           \/ r = "failed" /\ UNCHANGED daemon
    PROVE  Service!Next
<1>1. PICK v \in Volumes : v = job[s] /\ v = job'[s] BY DecisionSeen
<1>2. \A w \in Volumes : w # v => Stage(w)' = Stage(w) /\ Owed(w)' = Owed(w)
  BY <1>1, DecisionSeen
<1>3. CASE awaited[s]
  <2>1. Stage(v) = "asked" /\ Stage(v)' = r /\ Owed(v)' = Owed(v)
    BY <1>1, <1>3, DecisionSeen
  <2>2. [w \in Volumes |-> Stage(w)'] = [[w \in Volumes |-> Stage(w)] EXCEPT ![v] = r]
    BY <1>1, <1>2, <2>1, OneVolume
  <2>3. [w \in Volumes |-> Owed(w)'] = [w \in Volumes |-> Owed(w)]
    BY <1>2, <2>1
  <2>4. CASE daemon' = [daemon EXCEPT ![v] = TRUE]
    BY <1>1, <2>1, <2>2, <2>3, <2>4 DEF Service!Restart, Service!Serve, Service!Next
  <2>5. CASE r = "failed" /\ UNCHANGED daemon
    BY <1>1, <2>1, <2>2, <2>3, <2>5 DEF Service!Refuse, Service!Serve, Service!Next
  <2>6. QED BY <1>1, <2>4, <2>5
<1>4. CASE ~awaited[s]
  <2>1. Stage(v)' = Stage(v) /\ Owed(v) > 0 /\ Owed(v)' = Owed(v) - 1
    BY <1>1, <1>4, DecisionSeen
  <2>2. daemon' = daemon \/ daemon' = [daemon EXCEPT ![v] = TRUE] BY <1>1
  <2>3. [w \in Volumes |-> Owed(w)'] =
          [[w \in Volumes |-> Owed(w)] EXCEPT ![v] = Owed(v) - 1]
    BY <1>1, <1>2, <2>1, OneVolume
  <2>4. [w \in Volumes |-> Stage(w)'] = [w \in Volumes |-> Stage(w)]
    BY <1>2, <2>1
  <2>5. Service!Repay(v) BY <1>1, <2>1, <2>2, <2>3, <2>4 DEF Service!Repay
  <2>6. QED BY <1>1, <2>5 DEF Service!Next
<1>5. QED BY <1>3, <1>4

LEMMA ReplyMaps ==
    ASSUME TypeOK, CallsServed, TypeOK', CallsServed', NEW s \in Servers, Reply(s)
    PROVE  Service!Next \/ UNCHANGED Service!vars
<1>0. StageFacts /\ StageFacts' BY StageIs, StageIsNext
<1>1. PICK v \in Volumes : v = job[s]
  BY DEF Reply, CallsServed, JobShape, TypeOK
<1>2. /\ result[s] # "none" /\ UNCHANGED daemon
      /\ job' = [job EXCEPT ![s] = NoVolume]
      /\ awaited' = [awaited EXCEPT ![s] = FALSE]
      /\ \A t \in Servers : t # s => result'[t] = result[t]
  BY DEF Reply, CallsServed, JobShape, TypeOK
<1>3. \A w \in Volumes : Owed(w)' = Owed(w)
  <2>1. \A w \in Volumes : Abandoned(w)' = Abandoned(w)
    BY <1>2, FusedProxyAssumption DEF Abandoned, TypeOK
  <2>2. QED BY <2>1, OwedCounts, OwedCountsNext DEF OwedFacts
<1>4. ASSUME NEW w \in Volumes, awaited[s] => w # v PROVE Stage(w)' = Stage(w)
  <2>1. cpc'[w] = cpc[w] /\ outcome'[w] = outcome[w]
    BY <1>1, <1>4 DEF Reply, TypeOK
  <2>2. \A t \in Servers : awaited'[t] /\ job'[t] = w <=> awaited[t] /\ job[t] = w
    BY <1>1, <1>2, <1>4 DEF TypeOK
  <2>3. \A t \in Servers : awaited[t] /\ job[t] = w => result'[t] = result[t]
    BY <1>1, <1>2, <1>4
  <2>4. QED BY <1>0, <2>1, <2>2, <2>3, StageKept
<1>5. CASE awaited[s]
  <2>1. Stage(v) = result[s] /\ result[s] \in {"mounted", "failed"}
    BY <1>0, <1>1, <1>2, <1>5 DEF StageFacts, TypeOK
  <2>2. Stage(v)' = IF result[s] = "mounted" THEN "OK" ELSE "error"
    BY <1>0, <1>1, <1>5 DEF Reply, StageFacts, TypeOK
  <2>3. Service!Answer(v)
    BY <1>2, <1>3, <1>4, <2>1, <2>2, OneVolume DEF Service!Answer
  <2>4. QED BY <2>3 DEF Service!Next, Service!Serve
<1>6. CASE ~awaited[s] BY <1>2, <1>3, <1>4, <1>6, NoVolumeSees
<1>7. QED BY <1>5, <1>6

\* The command stops a daemon for a call that is open or abandoned.
LEMMA StartMaps ==
    ASSUME TypeOK, CallsServed, NEW s \in Servers, StartCommand(s)
    PROVE  Service!Next \/ UNCHANGED Service!vars
<1>1. PICK v \in Volumes : v = job[s]
  BY DEF StartCommand, CallsServed, JobShape, TypeOK
<1>2. \A w \in Volumes : Stage(w)' = Stage(w) /\ Owed(w)' = Owed(w)
  BY DEF StartCommand, plugin, Stage, Serving, Owed
<1>3. Owed(v) > 0 \/ Stage(v) = "asked"
  <2>1. result[s] = "none" BY DEF StartCommand, CallsServed, JobShape
  <2>2. CASE awaited[s] BY <1>1, <2>1, <2>2, StageIs DEF StageFacts
  <2>3. CASE ~awaited[s]
    <3>1. s \in Abandoned(v) BY <1>1, <2>1, <2>3 DEF Abandoned
    <3>2. QED BY <3>1, OwedCounts DEF OwedFacts
  <2>4. QED BY <2>2, <2>3
<1>4. CASE daemon' = [daemon EXCEPT ![v] = FALSE]
  BY <1>2, <1>3, <1>4 DEF Service!Stop, Service!Next
<1>5. CASE UNCHANGED daemon BY <1>2, <1>5, NoVolumeSees
<1>6. QED BY <1>1, <1>4, <1>5 DEF StartCommand

LEMMA ServerMaps ==
    ASSUME TypeOK, CallsServed, TypeOK', CallsServed', NEW s \in Servers, ServerStep(s)
    PROVE  Service!Next \/ UNCHANGED Service!vars
<1>1. CASE UNCHANGED <<daemon, cpc, outcome, job, awaited, result>>
  BY <1>1, NoVolumeSees DEF Stage, Serving, Owed
<1>2. CASE /\ GetCredentials(s) \/ MakeBasePath(s) \/ EndCommand(s)
           /\ ~(UNCHANGED <<daemon, cpc, outcome, job, awaited, result>>)
  <2>1. /\ result[s] = "none" /\ spc[s] # "idle"
        /\ UNCHANGED <<cpc, outcome, job, awaited>>
    BY <1>2 DEF GetCredentials, MakeBasePath, EndCommand, CallsServed, JobShape, plugin
  <2>2. \E r \in {"mounted", "failed"} :
          /\ Decide(s, r)
          /\ \/ daemon' = [daemon EXCEPT ![job[s]] = TRUE]
             \/ r = "failed" /\ UNCHANGED daemon
    BY <1>2 DEF GetCredentials, MakeBasePath, EndCommand, plugin
  <2>3. QED BY <2>1, <2>2, DecisionMaps
<1>3. QED
  BY <1>1, <1>2, ReplyMaps, StartMaps
     DEF ServerStep, LockMutex, DeleteKey, UnlockMutex, plugin

\* The proxy dies: nothing is owed any more, and who waited gets an error.
LEMMA ProxyCrashMaps ==
    ASSUME TypeOK, CallsServed, TypeOK', CallsServed', ProxyCrash
    PROVE  Service!Next
<1>0. StageFacts /\ StageFacts' BY StageIs, StageIsNext
<1>1. ASSUME NEW v \in Volumes PROVE Owed(v)' = 0
  <2>1. Abandoned(v)' = {}
    BY FusedProxyAssumption DEF ProxyCrash, Abandoned
  <2>2. QED BY <2>1, OwedCountsNext, FS_EmptySet DEF OwedFacts
<1>2. ASSUME NEW v \in Volumes
      PROVE  \/ Stage(v)' = Stage(v)
             \/ Stage(v)' = "error" /\ Stage(v) \in {"asked", "mounted", "failed"}
  <2>1. CASE cpc[v] = "wait"
    <3>1. Stage(v)' = "error" BY <1>0, <2>1 DEF ProxyCrash, StageFacts
    <3>2. CASE \E s \in Servers : awaited[s] /\ job[s] = v
      BY <1>0, <3>1, <3>2 DEF StageFacts, TypeOK
    <3>3. CASE ~\E s \in Servers : awaited[s] /\ job[s] = v
      BY <1>0, <2>1, <3>1, <3>3 DEF StageFacts
    <3>4. QED BY <3>2, <3>3
  <2>2. CASE cpc[v] # "wait"
    <3>1. cpc'[v] = cpc[v] /\ outcome'[v] = outcome[v] BY <2>2 DEF ProxyCrash
    <3>2. QED BY <1>0, <2>2, <3>1 DEF StageFacts, TypeOK
  <2>3. QED BY <2>1, <2>2
<1>3. Service!ProxyDies BY <1>1, <1>2 DEF ProxyCrash, Service!ProxyDies
<1>4. QED BY <1>3 DEF Service!Next

\* The plugin dies: the proxy owes what the open calls had not done.
LEMMA PluginCrashMaps ==
    ASSUME TypeOK, CallsServed, TypeOK', CallsServed', PluginCrash
    PROVE  Service!Next
<1>0. StageFacts /\ StageFacts' BY StageIs, StageIsNext
<1>1. \A v \in Volumes : Stage(v)' = "none" BY <1>0 DEF PluginCrash, StageFacts
<1>2. ASSUME NEW v \in Volumes
      PROVE  \/ Owed(v)' = Owed(v)
             \/ Owed(v)' = Owed(v) + 1 /\ Stage(v) = "asked"
  <2>1. CASE \E s \in Servers : awaited[s] /\ job[s] = v /\ result[s] = "none"
    <3>1. PICK s \in Servers : awaited[s] /\ job[s] = v /\ result[s] = "none" BY <2>1
    <3>2. Stage(v) = "asked" BY <1>0, <3>1 DEF StageFacts
    <3>3. s \notin Abandoned(v) /\ Abandoned(v)' = Abandoned(v) \cup {s}
      BY <3>1 DEF PluginCrash, Abandoned, CallsServed, TypeOK
    <3>4. Cardinality(Abandoned(v)') = Cardinality(Abandoned(v)) + 1
      BY <3>3, OwedCounts, FS_AddElement DEF OwedFacts
    <3>5. QED BY <3>2, <3>4, OwedCounts, OwedCountsNext DEF OwedFacts
  <2>2. CASE ~\E s \in Servers : awaited[s] /\ job[s] = v /\ result[s] = "none"
    <3>1. Abandoned(v)' = Abandoned(v) BY <2>2 DEF PluginCrash, Abandoned
    <3>2. QED BY <3>1, OwedCounts, OwedCountsNext DEF OwedFacts
  <2>3. QED BY <2>1, <2>2
<1>3. Service!PluginDies BY <1>1, <1>2 DEF PluginCrash, Service!PluginDies
<1>4. QED BY <1>3 DEF Service!Next

LEMMA InitMaps == Init => Service!Init
<1> SUFFICES ASSUME Init PROVE Service!Init OBVIOUS
<1>1. \A v \in Volumes : Stage(v) = "none" BY DEF Init, Stage
<1>2. \A v \in Volumes : Abandoned(v) = {} BY FusedProxyAssumption DEF Init, Abandoned
<1>3. \A v \in Volumes : Owed(v) = 0 BY <1>2, OwedCounts, FS_EmptySet DEF OwedFacts
<1>4. QED BY <1>1, <1>3 DEF Init, Service!Init

\* The client and the proxy implement the abstract service: OK is answered
\* only for a restart that was done while the call was open, a call brings a
\* daemon up at most once, and a dead plugin leaves at most its own restarts
\* behind, for any number of calls and of goroutines.
THEOREM Refinement == Spec => Service!Safe
<1>1. /\ TypeOK /\ CallsServed /\ TypeOK' /\ CallsServed' /\ [Next]_vars
      => [Service!Next]_(Service!vars)
  <2>1. ASSUME TypeOK, CallsServed, TypeOK', CallsServed', Next
        PROVE  Service!Next \/ UNCHANGED Service!vars
    <3>1. CASE StartProxy \/ Listen
      <4>1. UNCHANGED <<daemon, cpc, outcome, job, awaited, result>>
        BY <3>1 DEF StartProxy, Listen, plugin, servers
      <4>2. QED BY <4>1, NoVolumeSees DEF Stage, Serving, Owed
    <3>2. QED
      BY <2>1, <3>1, ClientMaps, ServerMaps, ProxyCrashMaps, PluginCrashMaps DEF Next
  <2>2. UNCHANGED vars => UNCHANGED Service!vars
    BY NoVolumeSees DEF vars, Stage, Serving, Owed
  <2>3. QED BY <2>1, <2>2
<1>2. QED BY <1>1, InitMaps, TypeCorrect, CallsInductive, PTL DEF Spec, Service!Safe
=============================================================================
