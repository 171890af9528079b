------------------------------ MODULE NodeHost ------------------------------
(***************************************************************************)
(* A host on which `nex node up` and `nex node preflight` are run, perhaps *)
(* by two users at a time (nex/node.go, internal/node/{init,node,prereq,   *)
(* config}.go): the requirements that preflight looks for and installs,    *)
(* the pid file, the start of a node with each part that can fail, its     *)
(* shutdown, and the VMs it makes (FirecrackerProcMan).                    *)
(*                                                                         *)
(* A world says which command each process runs, which files there are,    *)
(* and what may go wrong.  A file that was cut short counts as present:    *)
(* os.Stat is all the code asks.  A process may only be killed while it    *)
(* has no signal handlers.                                                 *)
(***************************************************************************)
EXTENDS FirecrackerProcMan, SequencesExt

CONSTANTS CniDirs, BinDirs      \* node configuration: sequences of directories

ASSUME DirsAssumption == CniDirs # <<>> /\ BinDirs # <<>>

VARIABLES
    pc,         \* pc[p]: where the command of p is
    files,      \* the requirements on the host, as <<directory, name>>
    config,     \* the configuration file: "none", "invalid" or "valid"
    todo,       \* todo[p]: files that are still to be installed
    pid,        \* nex.pid
    up,         \* up[p]: parts of the node that were started
    failed,     \* nodes whose init has an error
    sig,        \* nodes that have received a signal
    ctxDone,    \* nodes whose context was cancelled
    raced       \* history: a check of the pid file while another process was
                \*   between its check and the write

hostVars == <<files, config, pid>>
nodeVars == <<pc, todo, up, failed, sig, ctxDone>>
vars == <<world, fcVars, hostVars, nodeVars, raced>>

(***************************************************************************)
(* Requirements.                                                           *)
(***************************************************************************)
Requirements == <<"cni", "bin", "conf", "kernel", "rootfs">>

Dirs(r) ==
    CASE r = "cni"  -> CniDirs
      [] r = "bin"  -> BinDirs
      [] r = "conf" -> <<"/etc/cni/conf.d">>
      [] OTHER      -> <<"">>

Names(r) ==
    CASE r = "cni"    -> <<"host-local", "ptp", "tc-redirect-tap">>
      [] r = "bin"    -> <<"firecracker">>
      [] r = "conf"   -> <<"fcnet.conflist">>
      [] r = "kernel" -> <<"vmlinux">>
      [] r = "rootfs" -> <<"rootfs.ext4">>

InDir(r, d) == Cardinality({f \in ToSet(Names(r)) : <<d, f>> \in files})

\* Changed: one of the files is enough.
Satisfied_Any(r) == \E k \in 1..Len(Dirs(r)) : InDir(r, Dirs(r)[k]) > 0

\* depsFound counts files over the directories, in order, until it equals the
\* number of files: one that is in two directories counts twice.
Satisfied(r) ==
    LET n == Len(Names(r))
        depsFound[k \in 0..Len(Dirs(r))] ==
            IF k = 0 THEN 0
            ELSE IF depsFound[k - 1] = n THEN n
            ELSE depsFound[k - 1] + InDir(r, Dirs(r)[k])
    IN  depsFound[Len(Dirs(r))] = n

\* What the initFuncs of a requirement write; downloadFirecracker has its own
\* idea of where.
Targets(r) ==
    [i \in 1..Len(Names(r)) |->
        <<IF r = "bin" THEN "/usr/local/bin" ELSE Dirs(r)[1], Names(r)[i]>>]

ConfList == <<"/etc/cni/conf.d", "fcnet.conflist">>

Paths == {<<Dirs(r)[k], f>> : r \in {"cni"}, k \in 1..Len(CniDirs), f \in ToSet(Names("cni"))}
         \cup {<<BinDirs[k], "firecracker">> : k \in 1..Len(BinDirs)}
         \cup UNION {ToSet(Targets(r)) : r \in ToSet(Requirements)}

Unsatisfied == SelectSeq(Requirements, LAMBDA r : ~Satisfied(r))

NoPid == [file |-> "none", owner |-> None]

TypeOK ==
    /\ FcTypeOK
    /\ world \in Worlds
    /\ pc \in [Procs -> {"off", "loading", "checking", "installing", "pidCheck",
                         "pidCreate", "pidWrite", "telemetry", "natspub", "nc",
                         "hostservices", "natsint", "manager", "api", "running",
                         "draining", "stopping", "closing", "cancelling", "over"}]
    /\ files \subseteq Paths /\ DOMAIN todo = Procs
    /\ config \in {"none", "invalid", "valid"}
    /\ \A p \in Procs : ToSet(todo[p]) \subseteq Paths
    /\ pid \in [file : {"none", "empty", "written"}, owner : Procs \cup {None}]
    /\ up \in [Procs -> SUBSET {"telemetry", "natspub", "nc", "hostservices",
                                "natsint", "manager", "api"}]
    /\ failed \subseteq Procs
    /\ sig \subseteq Procs
    /\ ctxDone \subseteq Procs
    /\ raced \in BOOLEAN

Init ==
    /\ FcInit
    /\ world \in Worlds
    /\ pc = [p \in Procs |-> "off"]
    /\ files = world.files
    /\ config = world.config
    /\ todo = [p \in Procs |-> <<>>]
    /\ pid = [file |-> world.pid, owner |-> None]
    /\ up = [p \in Procs |-> {}]
    /\ failed = {}
    /\ sig = {}
    /\ ctxDone = {}
    /\ raced = FALSE

Goes(p, to) == pc' = [pc EXCEPT ![p] = to]

\* main returns: the process is gone, and whatever it did stays.
Exits(p) == Goes(p, "over") /\ alive' = alive \ {p}

fcRest == <<poolVars, stopVars, prep>>

(***************************************************************************)
(* The two commands up to the pid file.                                    *)
(***************************************************************************)
Begin(p) ==
    /\ pc[p] = "off" /\ world.cmd[p] # "none"
    /\ alive' = alive \cup {p}
    /\ Goes(p, "loading")
    /\ UNCHANGED <<world, fcRest, hostVars, todo, up, failed, sig, ctxDone, raced>>

\* CmdPreflight with --init makes the file if there is none.
ConfigInit(p) ==
    IF p \notin world.init \/ config # "none" THEN {config}
    ELSE {"valid"} \cup (IF May("configWrite") THEN {"none", "invalid"} ELSE {})

\* Then, as for a node, it is loaded.
LoadConfig(p) ==
    /\ p \in alive /\ pc[p] = "loading"
    /\ config' \in ConfigInit(p)
    /\ IF config' = "valid" THEN Goes(p, "checking") /\ UNCHANGED alive ELSE Exits(p)
    /\ UNCHANGED <<world, fcRest, files, pid, todo, up, failed, sig, ctxDone, raced>>

\* CheckPrerequisites: the search, and for each requirement that is missing
\* whether it is to be installed.  A node does not ask.
CheckPrerequisites(p) ==
    /\ p \in alive /\ pc[p] = "checking"
    /\ IF Unsatisfied # <<>> /\ p \notin world.force /\ world.cmd[p] = "up"
       THEN Exits(p) /\ UNCHANGED todo
       ELSE /\ \E accepted \in SUBSET ToSet(Unsatisfied) :
                 /\ p \in world.force => accepted = ToSet(Unsatisfied)
                 /\ todo' = [todo EXCEPT ![p] =
                        FlattenSeq([i \in 1..Len(Unsatisfied) |->
                            IF Unsatisfied[i] \in accepted THEN Targets(Unsatisfied[i])
                            ELSE <<>>])]
            /\ Goes(p, "installing")
            /\ UNCHANGED alive
    /\ UNCHANGED <<world, fcRest, hostVars, up, failed, sig, ctxDone, raced>>

Installing(p) == p \in alive /\ pc[p] = "installing" /\ todo[p] # <<>>

\* The next file was downloaded or, without the code noticing, cut short.
Download(p) ==
    /\ Installing(p) /\ Head(todo[p]) # ConfList
    /\ files' = files \cup {Head(todo[p])}
    /\ todo' = [todo EXCEPT ![p] = Tail(@)]
    /\ UNCHANGED <<world, alive, fcRest, config, pid, pc, up, failed, sig, ctxDone, raced>>

\* A key was pressed: the file is removed, and the installation goes on.
CancelDownload(p) ==
    /\ Installing(p) /\ Head(todo[p]) # ConfList
    /\ May("cancel")
    /\ files' = files \ {Head(todo[p])}
    /\ todo' = [todo EXCEPT ![p] = Tail(@)]
    /\ UNCHANGED <<world, alive, fcRest, config, pid, pc, up, failed, sig, ctxDone, raced>>

\* The CNI configuration: an error of the write itself is not reported.
WriteCniConf(p) ==
    /\ Installing(p) /\ Head(todo[p]) = ConfList
    /\ files' = files \cup {ConfList}
    /\ todo' = [todo EXCEPT ![p] = Tail(@)]
    /\ UNCHANGED <<world, alive, fcRest, config, pid, pc, up, failed, sig, ctxDone, raced>>

\* Any other error, before or after the file was made, ends the command.
InstallFails(p) ==
    /\ Installing(p) /\ May("download")
    /\ files' \in {files, files \cup {Head(todo[p])}}
    /\ Exits(p)
    /\ UNCHANGED <<world, fcRest, config, pid, todo, up, failed, sig, ctxDone, raced>>

\* CheckPrerequisites returns nil.
Installed(p) ==
    /\ p \in alive /\ pc[p] = "installing" /\ todo[p] = <<>>
    /\ IF world.cmd[p] = "preflight" THEN Exits(p) ELSE Goes(p, "pidCheck") /\ UNCHANGED alive
    /\ UNCHANGED <<world, fcRest, hostVars, todo, up, failed, sig, ctxDone, raced>>

(***************************************************************************)
(* createPid.                                                              *)
(***************************************************************************)
Creating(q) == q \in alive /\ pc[q] \in {"pidCreate", "pidWrite"}

\* Changed: whether the owner runs is not asked.
MayCreate_AnyOwner == pid.file # "empty"

\* A file that is not a number is an error, and so is the number of a process
\* that runs.
MayCreate == pid.file = "none" \/ (pid.file = "written" /\ pid.owner \notin alive)

PidCheck(p) ==
    /\ p \in alive /\ pc[p] = "pidCheck"
    /\ IF MayCreate THEN Goes(p, "pidCreate") /\ UNCHANGED alive ELSE Exits(p)
    /\ raced' = (raced \/ (MayCreate /\ \E q \in Procs \ {p} : Creating(q)))
    /\ UNCHANGED <<world, fcRest, hostVars, todo, up, failed, sig, ctxDone>>

\* os.Create truncates what is there.
PidCreate(p) ==
    /\ p \in alive /\ pc[p] = "pidCreate"
    /\ pid' = [file |-> "empty", owner |-> None]
    /\ Goes(p, "pidWrite")
    /\ UNCHANGED <<world, alive, fcRest, files, config, todo, up, failed, sig, ctxDone, raced>>

PidWrite(p) ==
    /\ p \in alive /\ pc[p] = "pidWrite"
    /\ \/ pid' = [file |-> "written", owner |-> p] /\ Goes(p, "telemetry") /\ UNCHANGED alive
       \/ May("pidWrite") /\ pid' = NoPid /\ Exits(p)
    /\ UNCHANGED <<world, fcRest, files, config, todo, up, failed, sig, ctxDone, raced>>

(***************************************************************************)
(* init.  Errors are collected and the next part is started all the same.  *)
(***************************************************************************)
Part(p, part, next) ==
    /\ p \in alive /\ pc[p] = part
    /\ Goes(p, next)
    /\ \/ up' = [up EXCEPT ![p] = @ \cup {part}] /\ UNCHANGED failed
       \/ May(part) /\ failed' = failed \cup {p} /\ UNCHANGED up
    /\ UNCHANGED <<world, alive, fcRest, hostVars, todo, sig, ctxDone, raced>>

NewTelemetry(p) == Part(p, "telemetry", "natspub")

StartPublicNATS(p) == Part(p, "natspub", "nc")

ConnectNATS(p) == Part(p, "nc", "hostservices")

\* By default host services share the connection, and a nil one is used.
StartHostServicesConnection(p) ==
    IF "nc" \in up[p] \/ May("ownHostServices")
    THEN Part(p, "hostservices", "natsint")
    ELSE /\ p \in alive /\ pc[p] = "hostservices"
         /\ Exits(p)
         /\ UNCHANGED <<world, fcRest, hostVars, todo, up, failed, sig, ctxDone, raced>>

StartInternalNATS(p) == Part(p, "natsint", "manager")

\* Validate of the node configuration looks for two of the requirements again.
ConfigValid == {<<"", "vmlinux">>, <<"", "rootfs.ext4">>} \subseteq files

\* NewWorkloadManager: the host services it makes use the telemetry.
NewManager(p) ==
    /\ p \in alive /\ pc[p] = "manager"
    /\ IF ~ConfigValid
       THEN failed' = failed \cup {p} /\ Goes(p, "api") /\ UNCHANGED <<alive, up>>
       ELSE IF "telemetry" \notin up[p]
       THEN Exits(p) /\ UNCHANGED <<up, failed>>
       ELSE /\ Goes(p, "api") /\ UNCHANGED alive
            /\ \/ up' = [up EXCEPT ![p] = @ \cup {"manager"}] /\ UNCHANGED failed
               \/ /\ May("manager") \/ "natsint" \notin up[p]
                  /\ failed' = failed \cup {p} /\ UNCHANGED up
    /\ UNCHANGED <<world, fcRest, hostVars, todo, sig, ctxDone, raced>>

\* If all went well the manager and the control API are started; in any case
\* the signal handlers are installed.  An error leads to shutdown.
StartApi(p) ==
    /\ p \in alive /\ pc[p] = "api"
    /\ IF p \in failed
       THEN Goes(p, "draining") /\ UNCHANGED <<up, failed, loop>>
       ELSE /\ up' = [up EXCEPT ![p] = @ \cup {"api"}]
            /\ LoopGoes(p, "top", None)
            /\ \/ Goes(p, "running") /\ UNCHANGED failed
               \/ May("api") /\ Goes(p, "draining") /\ failed' = failed \cup {p}
    /\ UNCHANGED <<world, alive, warm, allVMs, requests, vm, rootfs, stopVars, prep,
                   hostVars, todo, sig, ctxDone, raced>>

(***************************************************************************)
(* The node runs, and shuts down.                                          *)
(***************************************************************************)
HandlersInstalled(p) == pc[p] \in {"running", "draining", "stopping", "closing"}

\* SIGINT, SIGTERM or SIGQUIT.
Signal(p) ==
    /\ p \in alive /\ May("signal")
    /\ IF HandlersInstalled(p)
       THEN p \notin sig /\ sig' = sig \cup {p} /\ UNCHANGED <<pc, alive>>
       ELSE Exits(p) /\ UNCHANGED sig
    /\ UNCHANGED <<world, fcRest, hostVars, todo, up, failed, ctxDone, raced>>

\* agentHandshakeTimedOut when no agent has ever shaken hands.
FirstHandshakeTimesOut(p) ==
    /\ p \in alive /\ pc[p] = "running" /\ May("noHandshake")
    /\ allVMs[p] # {}
    /\ ctxDone' = ctxDone \cup {p}
    /\ UNCHANGED <<world, fcVars, hostVars, pc, todo, up, failed, sig, raced>>

\* RunNodeUp waits for the context alone: the process ends then, however far
\* its shutdown is.
MainReturns(p) ==
    /\ p \in alive /\ p \in ctxDone
    /\ Exits(p)
    /\ UNCHANGED <<world, fcRest, hostVars, todo, up, failed, sig, ctxDone, raced>>

\* Changed: the loop does not receive from sigs.
StartLoopEnds_ContextOnly(p) ==
    /\ p \in alive /\ pc[p] = "running"
    /\ p \in ctxDone
    /\ Goes(p, "draining")
    /\ UNCHANGED <<world, fcVars, hostVars, todo, up, failed, sig, ctxDone, raced>>

\* Start's loop.
StartLoopEnds(p) ==
    /\ p \in alive /\ pc[p] = "running"
    /\ p \in sig \cup ctxDone
    /\ Goes(p, "draining")
    /\ UNCHANGED <<world, fcVars, hostVars, todo, up, failed, sig, ctxDone, raced>>

\* shutdown: a node without an API listener fails at the first step.
DrainApi(p) ==
    /\ p \in alive /\ pc[p] = "draining"
    /\ IF "api" \in up[p]
       THEN /\ Goes(p, "stopping") /\ UNCHANGED alive
            /\ phase' = [phase EXCEPT ![p] = "workloads"]
       ELSE Exits(p) /\ UNCHANGED phase
    /\ UNCHANGED <<world, poolVars, closing, stopper, toVisit, visited, prep,
                   hostVars, todo, up, failed, sig, ctxDone, raced>>

\* manager.Stop has returned: connections, servers and telemetry are closed.
CloseAll(p) ==
    /\ p \in alive /\ pc[p] = "stopping" /\ phase[p] = "done"
    /\ Goes(p, "closing")
    /\ up' = [up EXCEPT ![p] = {}]
    /\ UNCHANGED <<world, fcVars, hostVars, todo, failed, sig, ctxDone, raced>>

\* The pid file is removed, whoever wrote it.
RemovePid(p) ==
    /\ p \in alive /\ pc[p] = "closing"
    /\ pid' = NoPid
    /\ Goes(p, "cancelling")
    /\ UNCHANGED <<world, fcVars, files, config, todo, up, failed, sig, ctxDone, raced>>

Cancel(p) ==
    /\ p \in alive /\ pc[p] = "cancelling"
    /\ p \notin ctxDone
    /\ ctxDone' = ctxDone \cup {p}
    /\ UNCHANGED <<world, fcVars, hostVars, pc, todo, up, failed, sig, raced>>

(***************************************************************************)
(* Specification.                                                          *)
(***************************************************************************)
CommandSteps(p) ==
    \/ LoadConfig(p) \/ CheckPrerequisites(p) \/ Download(p) \/ CancelDownload(p)
    \/ WriteCniConf(p) \/ InstallFails(p) \/ Installed(p)
    \/ PidCheck(p) \/ PidCreate(p) \/ PidWrite(p)
    \/ NewTelemetry(p) \/ StartPublicNATS(p) \/ ConnectNATS(p)
    \/ StartHostServicesConnection(p) \/ StartInternalNATS(p) \/ NewManager(p) \/ StartApi(p)
    \/ StartLoopEnds(p) \/ DrainApi(p) \/ CloseAll(p) \/ RemovePid(p) \/ Cancel(p)
    \/ MainReturns(p)

ProcManSteps(p) ==
    /\ LoopSteps(p, p \in ctxDone) \/ StopSteps(p) \/ PrepareWorkload(p)
    /\ UNCHANGED <<world, hostVars, nodeVars, raced>>

\* What others do: users, agents, and the manager's choice of workloads.
Others(p) ==
    \/ Begin(p) \/ Signal(p) \/ FirstHandshakeTimesOut(p)
    \/ /\ PrepareBegins(p) \/ EventStops(p) \/ StopsWorkload(p)
       /\ UNCHANGED <<world, hostVars, nodeVars, raced>>

Next == \E p \in Procs : CommandSteps(p) \/ ProcManSteps(p) \/ Others(p)

Spec == Init /\ [][Next]_vars

\* Goroutines are scheduled: the command's, the loop's, those in StopProcess,
\* and the one in PrepareWorkload.
FairSpec ==
    /\ Spec
    /\ \A p \in Procs :
          /\ WF_vars(CommandSteps(p))
          /\ WF_vars(LoopSteps(p, p \in ctxDone) /\ UNCHANGED <<world, hostVars, nodeVars, raced>>)
          /\ WF_vars(StopSteps(p) /\ UNCHANGED <<world, hostVars, nodeVars, raced>>)
          /\ WF_vars(PrepareWorkload(p) /\ UNCHANGED <<world, hostVars, nodeVars, raced>>)

(***************************************************************************)
(* Properties.                                                             *)
(***************************************************************************)
Owns(p) ==
    /\ p \in alive
    /\ pc[p] \in {"telemetry", "natspub", "nc", "hostservices", "natsint", "manager",
                  "api", "running", "draining", "stopping", "closing"}

\* createPid: at most one node is past the write of nex.pid and before its
\* removal, as long as no process checked the file while another was between
\* its own check and its write (os.Stat and os.Create are not one step).
OneNode == ~raced => \A p, q \in Procs : Owns(p) /\ Owns(q) => p = q

Required == {<<r, f>> : r \in ToSet(Requirements), f \in UNION {ToSet(Names(r)) : r \in ToSet(Requirements)}}

Missing == {rf \in Required : /\ rf[2] \in ToSet(Names(rf[1]))
                              /\ \A i \in 1..Len(Dirs(rf[1])) : <<Dirs(rf[1])[i], rf[2]>> \notin files}

InTwoDirs == \E i, j \in 1..Len(CniDirs), f \in ToSet(Names("cni")) :
                i # j /\ {<<CniDirs[i], f>>, <<CniDirs[j], f>>} \subseteq files

\* CheckPrerequisites: a node that goes on has all its requirements, whatever
\* a preflight of somebody else does meanwhile - unless a download was
\* cancelled, or a CNI plugin is in two directories and counted twice.
UpHasRequirements ==
    ~May("cancel") /\ ~InTwoDirs =>
        \A p \in Procs : Owns(p) => Missing = {}

RunningOf(p) == {v \in Vms : vm[v] = [st |-> "running", by |-> p]}

\* Stop: when it has returned every VM that was filed when it began is down,
\* at most one other runs on (the one the loop had in hand), and the copies of
\* the root file system are gone with their VMs.
StopLeavesNoVM ==
    \A p \in Procs : phase[p] = "done" /\ ~May("stopFails") =>
        /\ toVisit[p] \cap RunningOf(p) = {}
        /\ Cardinality(RunningOf(p)) <= 1
        /\ ~May("createFails") => \A v \in rootfs : vm[v] # [st |-> "ended", by |-> p]

Exhausted(p) == loop[p].pc = "top" /\ warm[p] = <<>> /\ ~\E v \in Vms : NextVm(v)

\* A node that was told to stop, or whose init failed, ends; a deployment that
\* waits for a VM is served or refused, unless no more VM can be made (or the
\* node is gone).
EverythingEnds ==
    \A p \in Procs :
        /\ p \in sig \cup failed ~> p \notin alive
        /\ prep[p] = "blocked" ~> prep[p] # "blocked" \/ p \notin alive \/ Exhausted(p)
=============================================================================
