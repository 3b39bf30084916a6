----------------------------- MODULE FusedProxy -----------------------------
(***************************************************************************)
(* Mounting through the fcfsfused proxy: the client side in pkg/fcfs       *)
(* (MountFcfsFusedWithProxy), the proxy's start in                         *)
(* pkg/fcfsfused-proxy/main.go and its one service, MountFcfsFused in      *)
(* pkg/fcfsfused-proxy/server.                                             *)
(*                                                                         *)
(* The plugin and the proxy are two processes and die independently.  The  *)
(* plugin dials with a timeout, but its call has no deadline; the proxy    *)
(* ignores the context of the call, so it finishes what it was asked for   *)
(* although the plugin is gone.  All mounts of the proxy go through one    *)
(* mutex.  Every call dials a connection of its own that is never closed.  *)
(***************************************************************************)
EXTENDS Naturals, FiniteSets

CONSTANTS
    Volumes,    \* NodeStageVolume, which locks the volume, has at most one
                \* call for each
    Servers,    \* goroutines of the proxy (a bound)
    KeyFiles,   \* names TempFile can pick (a bound)
    MaxConns,   \* file descriptors the plugin may have open
    NoVolume, NoKey, Nobody

ASSUME FusedProxyAssumption ==
    /\ NoVolume \notin Volumes /\ NoKey \notin KeyFiles
    /\ Nobody \notin Servers /\ IsFiniteSet(Servers)
    /\ MaxConns \in Nat

VARIABLES
    daemon,    \* external: whether the fcfs_fused daemon of a volume runs
    proxy,     \* "down", "starting" or "serving"
    cpc,       \* where the call of the plugin for each volume is
    outcome,   \* what it returns, "none" until it knows
    conns,     \* connections the plugin has dialled and not closed
    job,       \* the volume each goroutine of the proxy mounts
    awaited,   \* whether the plugin process that asked is still there
    spc,       \* where the goroutine is
    result,    \* what it will answer
    mutex,     \* the goroutine that holds the mutex, or Nobody
    keyFiles,  \* key files of the proxy
    cr         \* the key file of each goroutine

plugin == <<cpc, outcome, conns>>
servers == <<job, awaited, spc, result, mutex, keyFiles, cr>>
vars == <<daemon, proxy, cpc, outcome, conns, job, awaited, spc, result, mutex, keyFiles, cr>>

Init ==
    /\ daemon = [v \in Volumes |-> FALSE]
    /\ proxy = "down"
    /\ cpc = [v \in Volumes |-> "idle"]
    /\ outcome = [v \in Volumes |-> "none"]
    /\ conns = 0
    /\ job = [s \in Servers |-> NoVolume]
    /\ awaited = [s \in Servers |-> FALSE]
    /\ spc = [s \in Servers |-> "idle"]
    /\ result = [s \in Servers |-> "none"]
    /\ mutex = Nobody
    /\ keyFiles = {}
    /\ cr = [s \in Servers |-> NoKey]

-----------------------------------------------------------------------------
(***************************************************************************)
(* The client.                                                             *)
(***************************************************************************)

Fail(v) ==
    /\ cpc' = [cpc EXCEPT ![v] = "return"]
    /\ outcome' = [outcome EXCEPT ![v] = "error"]

\* NodeStageVolume asks for the mount.
MountFcfsFusedWithProxy(v) ==
    /\ cpc[v] = "idle"
    /\ cpc' = [cpc EXCEPT ![v] = "dial"]
    /\ UNCHANGED <<daemon, proxy, outcome, conns, servers>>

\* The mount point is made, which may fail, and the proxy is dialled:
\* DialContext blocks until it is connected or its timeout is over.
DialContext(v) ==
    /\ cpc[v] = "dial"
    /\ \/ /\ proxy = "serving" /\ conns < MaxConns
          /\ conns' = conns + 1
          /\ cpc' = [cpc EXCEPT ![v] = "call"]
          /\ UNCHANGED outcome
       \/ Fail(v) /\ UNCHANGED conns
    /\ UNCHANGED <<daemon, proxy, servers>>

\* The call reaches the proxy, which starts a goroutine for it; a connection
\* that broke since it was dialled fails the call.
CallProxy(v) ==
    /\ cpc[v] = "call"
    /\ \/ /\ proxy = "serving"
          /\ \E s \in Servers :
                /\ spc[s] = "idle"
                /\ job' = [job EXCEPT ![s] = v]
                /\ awaited' = [awaited EXCEPT ![s] = TRUE]
                /\ spc' = [spc EXCEPT ![s] = "lock"]
          /\ cpc' = [cpc EXCEPT ![v] = "wait"]
          /\ UNCHANGED outcome
       \/ /\ proxy # "serving"
          /\ Fail(v)
          /\ UNCHANGED <<job, awaited, spc>>
    /\ UNCHANGED <<daemon, proxy, conns, result, mutex, keyFiles, cr>>

\* The handler returns to NodeStageVolume.
ReturnToStage(v) ==
    /\ cpc[v] = "return"
    /\ cpc' = [cpc EXCEPT ![v] = "idle"]
    /\ outcome' = [outcome EXCEPT ![v] = "none"]
    /\ UNCHANGED <<daemon, proxy, conns, servers>>

-----------------------------------------------------------------------------
(***************************************************************************)
(* The proxy: MountFcfsFused.  Unlock is deferred first and runs last.     *)
(***************************************************************************)

GotoServer(s, label) == spc' = [spc EXCEPT ![s] = label]
Decide(s, r) == result' = [result EXCEPT ![s] = r]

\* Mutant: the mutex is not waited for.
LockMutexUnchecked(s) ==
    /\ spc[s] = "lock"
    /\ mutex' = s
    /\ GotoServer(s, "credentials")
    /\ UNCHANGED <<daemon, proxy, plugin, job, awaited, result, keyFiles, cr>>

LockMutex(s) ==
    /\ spc[s] = "lock"
    /\ mutex = Nobody
    /\ mutex' = s
    /\ GotoServer(s, "credentials")
    /\ UNCHANGED <<daemon, proxy, plugin, job, awaited, result, keyFiles, cr>>

\* GetCredentialsForVolume stores the key, or fails; a file that it could
\* not write stays if it cannot be removed either.
GetCredentials(s) ==
    /\ spc[s] = "credentials"
    /\ \/ \E k \in KeyFiles \ keyFiles :
             /\ keyFiles' = keyFiles \cup {k}
             /\ cr' = [cr EXCEPT ![s] = k]
             /\ GotoServer(s, "mkdir") /\ UNCHANGED result
       \/ /\ Decide(s, "failed") /\ GotoServer(s, "unlock")
          /\ \/ UNCHANGED keyFiles
             \/ \E k \in KeyFiles \ keyFiles : keyFiles' = keyFiles \cup {k}
          /\ UNCHANGED cr
    /\ UNCHANGED <<daemon, proxy, plugin, job, awaited, mutex>>

\* Mutant: a directory that cannot be made returns past the deferred calls.
MakeBasePathReturning(s) ==
    /\ spc[s] = "mkdir"
    /\ \/ GotoServer(s, "exec") /\ UNCHANGED result
       \/ Decide(s, "failed") /\ GotoServer(s, "unlock")
    /\ UNCHANGED <<daemon, proxy, plugin, job, awaited, mutex, keyFiles, cr>>

\* The base directory of the daemon.
MakeBasePath(s) ==
    /\ spc[s] = "mkdir"
    /\ \/ GotoServer(s, "exec") /\ UNCHANGED result
       \/ Decide(s, "failed") /\ GotoServer(s, "delkey")
    /\ UNCHANGED <<daemon, proxy, plugin, job, awaited, mutex, keyFiles, cr>>

\* The command starts: "restart" stops the daemon that runs first.
StartCommand(s) ==
    /\ spc[s] = "exec"
    /\ \/ daemon' = [daemon EXCEPT ![job[s]] = FALSE] \/ UNCHANGED daemon
    /\ GotoServer(s, "running")
    /\ UNCHANGED <<proxy, plugin, job, awaited, result, mutex, keyFiles, cr>>

\* Mutant: the error of the command is only logged.
EndCommandIgnoringError(s) ==
    /\ spc[s] = "running"
    /\ \E up \in BOOLEAN : daemon' = [daemon EXCEPT ![job[s]] = up]
    /\ Decide(s, "mounted")
    /\ GotoServer(s, "delkey")
    /\ UNCHANGED <<proxy, plugin, job, awaited, mutex, keyFiles, cr>>

\* The command ends: a new daemon is up, or it failed, before or after that.
EndCommand(s) ==
    /\ spc[s] = "running"
    /\ \/ /\ cr[s] \in keyFiles
          /\ daemon' = [daemon EXCEPT ![job[s]] = TRUE]
          /\ Decide(s, "mounted") \/ Decide(s, "failed")
       \/ Decide(s, "failed") /\ UNCHANGED daemon
    /\ GotoServer(s, "delkey")
    /\ UNCHANGED <<proxy, plugin, job, awaited, mutex, keyFiles, cr>>

\* The deferred DeleteCredentials; the error of os.Remove is ignored.
DeleteKey(s) ==
    /\ spc[s] = "delkey"
    /\ keyFiles' = keyFiles \ {cr[s]} \/ UNCHANGED keyFiles
    /\ cr' = [cr EXCEPT ![s] = NoKey]
    /\ GotoServer(s, "unlock")
    /\ UNCHANGED <<daemon, proxy, plugin, job, awaited, result, mutex>>

\* The deferred Unlock.
UnlockMutex(s) ==
    /\ spc[s] = "unlock"
    /\ mutex' = Nobody
    /\ GotoServer(s, "reply")
    /\ UNCHANGED <<daemon, proxy, plugin, job, awaited, result, keyFiles, cr>>

\* The answer goes to the caller, if its process is still there.
Reply(s) ==
    /\ spc[s] = "reply"
    /\ \/ /\ awaited[s]
          /\ cpc' = [cpc EXCEPT ![job[s]] = "return"]
          /\ outcome' = [outcome EXCEPT ![job[s]] =
                            IF result[s] = "mounted" THEN "OK" ELSE "error"]
       \/ ~awaited[s] /\ UNCHANGED <<cpc, outcome>>
    /\ job' = [job EXCEPT ![s] = NoVolume]
    /\ awaited' = [awaited EXCEPT ![s] = FALSE]
    /\ result' = [result EXCEPT ![s] = "none"]
    /\ GotoServer(s, "idle")
    /\ UNCHANGED <<daemon, proxy, conns, mutex, keyFiles, cr>>

-----------------------------------------------------------------------------
(***************************************************************************)
(* The two processes.                                                      *)
(***************************************************************************)

\* main: the socket file of an earlier process is removed, then the proxy
\* listens on it; any failure ends the process.
StartProxy ==
    /\ proxy = "down"
    /\ proxy' = "starting"
    /\ UNCHANGED <<daemon, plugin, servers>>

Listen ==
    /\ proxy = "starting"
    /\ proxy' \in {"serving", "down"}
    /\ UNCHANGED <<daemon, plugin, servers>>

\* The proxy dies, and with it the daemons it has started and its
\* goroutines.  The callers that wait see the connection break.
ProxyCrash ==
    /\ proxy # "down"
    /\ proxy' = "down"
    /\ daemon' = [v \in Volumes |-> FALSE]
    /\ cpc' = [v \in Volumes |-> IF cpc[v] = "wait" THEN "return" ELSE cpc[v]]
    /\ outcome' = [v \in Volumes |-> IF cpc[v] = "wait" THEN "error" ELSE outcome[v]]
    /\ job' = [s \in Servers |-> NoVolume]
    /\ awaited' = [s \in Servers |-> FALSE]
    /\ spc' = [s \in Servers |-> "idle"]
    /\ result' = [s \in Servers |-> "none"]
    /\ mutex' = Nobody
    /\ cr' = [s \in Servers |-> NoKey]
    /\ UNCHANGED <<conns, keyFiles>>

\* The plugin dies; the kernel closes its connections.
PluginCrash ==
    /\ cpc' = [v \in Volumes |-> "idle"]
    /\ outcome' = [v \in Volumes |-> "none"]
    /\ conns' = 0
    /\ awaited' = [s \in Servers |-> FALSE]
    /\ UNCHANGED <<daemon, proxy, job, spc, result, mutex, keyFiles, cr>>

ClientStep(v) ==
    DialContext(v) \/ CallProxy(v) \/ ReturnToStage(v)

ServerStep(s) ==
    \/ LockMutex(s) \/ GetCredentials(s) \/ MakeBasePath(s)
    \/ StartCommand(s) \/ EndCommand(s)
    \/ DeleteKey(s) \/ UnlockMutex(s) \/ Reply(s)

Next ==
    \/ \E v \in Volumes : MountFcfsFusedWithProxy(v) \/ ClientStep(v)
    \/ \E s \in Servers : ServerStep(s)
    \/ StartProxy \/ Listen \/ ProxyCrash \/ PluginCrash

\* Goroutines that can run do run, and the commands end.  sync.Mutex hands
\* itself to a waiter that has waited for long, so a goroutine that finds it
\* free again and again gets it.  Nothing makes a proxy that is down start.
Fairness ==
    /\ \A v \in Volumes : WF_vars(ClientStep(v))
    /\ \A s \in Servers : WF_vars(ServerStep(s)) /\ SF_vars(LockMutex(s))

Spec == Init /\ [][Next]_vars /\ Fairness

-----------------------------------------------------------------------------

TypeOK ==
    /\ daemon \in [Volumes -> BOOLEAN]
    /\ proxy \in {"down", "starting", "serving"}
    /\ cpc \in [Volumes -> {"idle", "dial", "call", "wait", "return"}]
    /\ outcome \in [Volumes -> {"none", "OK", "error"}]
    /\ conns \in 0..MaxConns
    /\ job \in [Servers -> Volumes \cup {NoVolume}]
    /\ awaited \in [Servers -> BOOLEAN]
    /\ spc \in [Servers -> {"idle", "lock", "credentials", "mkdir", "exec",
                            "running", "delkey", "unlock", "reply"}]
    /\ result \in [Servers -> {"none", "mounted", "failed"}]
    /\ mutex \in Servers \cup {Nobody}
    /\ keyFiles \subseteq KeyFiles
    /\ cr \in [Servers -> KeyFiles \cup {NoKey}]

\* The goroutine is between Lock and its deferred Unlock.
HoldsMutex(s) == spc[s] \notin {"idle", "lock", "reply"}

\* One fcfs_fused command runs at a time, although the node plugin has no
\* lock across volumes and a retry after its restart comes beside the call
\* of its predecessor: no two restarts of one daemon ever overlap.
OneCommand ==
    \A s, t \in Servers : HoldsMutex(s) /\ HoldsMutex(t) => s = t /\ mutex = s

\* Key files no goroutine will remove.
OrphanKeys == keyFiles \ {cr[s] : s \in Servers}

\* The goroutine tries to remove the file in this step: its own one in
\* DeleteCredentials, or one that storeKey could not write.
TriesRemoval(s, k) ==
    \/ spc[s] = "delkey" /\ k = cr[s]
    \/ spc[s] = "credentials" /\ k \notin keyFiles /\ result'[s] = "failed"

\* Every return path of MountFcfsFused tries to remove the key it has
\* stored, also when the plugin that asked is gone: a file stays only when
\* the proxy dies or os.Remove fails.
ProxyKeysRemoved ==
    [][ProxyCrash \/ \A k \in OrphanKeys' \ OrphanKeys :
                        \E s \in Servers : TriesRemoval(s, k)]_vars

\* The goroutine that works for the call of the plugin.
Serving(v) == {s \in Servers : job[s] = v /\ awaited[s]}

\* How far a call is, as the caller of the abstract service sees it.
Stage(v) ==
    IF cpc[v] = "idle" THEN "none"
    ELSE IF cpc[v] = "return" THEN outcome[v]
    ELSE IF \E s \in Serving(v) : result[s] # "none"
         THEN result[CHOOSE s \in Serving(v) : TRUE]
    ELSE "asked"

\* Jobs whose caller is gone and whose outcome is still open.
Owed(v) ==
    Cardinality({s \in Servers : job[s] = v /\ ~awaited[s] /\ result[s] = "none"})

Service == INSTANCE ProxyService
    WITH daemon <- daemon,
         stage <- [v \in Volumes |-> Stage(v)],
         owed <- [v \in Volumes |-> Owed(v)]

\* The client and the proxy together implement the abstract service, its
\* liveness included: OK is never answered for a restart that was not done,
\* a dead plugin leaves at most its own restarts behind, and every call is
\* answered although it has no deadline, if the proxy never starts as well.
ImplementsProxyService == Service!Spec
=============================================================================
