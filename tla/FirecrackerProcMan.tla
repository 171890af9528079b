------------------------- MODULE FirecrackerProcMan -------------------------
(***************************************************************************)
(* The process manager of a node that runs its agents in firecracker VMs   *)
(* (firecracker_procman.go, running_vm.go): the loop that keeps a pool of  *)
(* warm VMs, PrepareWorkload, StopProcess and Stop, which run in different *)
(* goroutines and share maps without a lock.  Every node process of a host *)
(* has one; NodeHost composes it with the life of those processes.         *)
(*                                                                         *)
(* Telemetry counters are left out, nothing reads them; so are the sockets *)
(* and logs of a VM.  A concurrent write to a Go map is taken to be        *)
(* atomic, and Stop's range over allVMs to miss or to meet a VM that is    *)
(* added meanwhile.                                                        *)
(***************************************************************************)
EXTENDS Integers, Sequences, FiniteSets

CONSTANTS
    Procs,              \* node processes
    Vms,                \* ids of VMs, an interval from 1 (a bound)
    None,               \* nil
    MachinePoolSize,    \* node configuration
    Worlds              \* what is done and what may go wrong (see NodeHost)

\* The goroutines that stop VMs: the node's own during shutdown, and the one
\* that handles a STOP request or an event.
Stoppers == {"node", "event"}

VARIABLES
    world,      \* the world this is (never changes)
    alive,      \* processes that run
    loop,       \* loop[p]: Start, and the VM it has in hand
    warm,       \* warm[p]: the channel warmVMs
    closing,    \* processes whose manager is closing, and warmVMs closed
    allVMs,     \* allVMs[p]: keys of allVMs and stopMutex
    requests,   \* requests[p]: keys of deployRequests
    vm,         \* vm[v]: its state, and the process that made it
    rootfs,     \* VMs whose copy of the root file system is on disk
    prep,       \* prep[p]: PrepareWorkload
    stopper,    \* stopper[p][t]: StopProcess in goroutine t
    phase,      \* phase[p]: WorkloadManager.Stop and the Stop it calls
    toVisit,    \* toVisit[p]: VMs that the range of Stop will meet
    visited     \* visited[p]: VMs that it has met

poolVars == <<loop, warm, allVMs, requests, vm, rootfs>>
stopVars == <<closing, stopper, phase, toVisit, visited>>
fcVars == <<alive, poolVars, stopVars, prep>>

Idle == [pc |-> "idle", vm |-> None]

FcTypeOK ==
    /\ alive \subseteq Procs
    /\ loop \in [Procs -> [pc : {"off", "top", "creating", "metadata", "pushing", "ended"},
                           vm : Vms \cup {None}]]
    /\ warm \in [Procs -> Seq(Vms)]
    /\ closing \subseteq Procs
    /\ allVMs \in [Procs -> SUBSET Vms]
    /\ requests \in [Procs -> SUBSET Vms]
    /\ vm \in [Vms -> [st : {"none", "running", "ended"}, by : Procs \cup {None}]]
    /\ rootfs \subseteq Vms
    /\ prep \in [Procs -> {"idle", "blocked", "failed"}]
    /\ stopper \in [Procs -> [Stoppers -> [pc : {"idle", "found", "waiting"},
                                           vm : Vms \cup {None}]]]
    /\ phase \in [Procs -> {"none", "workloads", "vms", "done"}]
    /\ toVisit \in [Procs -> SUBSET Vms]
    /\ visited \in [Procs -> SUBSET Vms]

FcInit ==
    /\ alive = {}
    /\ loop = [p \in Procs |-> [pc |-> "off", vm |-> None]]
    /\ warm = [p \in Procs |-> <<>>]
    /\ closing = {}
    /\ allVMs = [p \in Procs |-> {}]
    /\ requests = [p \in Procs |-> {}]
    /\ vm = [v \in Vms |-> [st |-> "none", by |-> None]]
    /\ rootfs = {}
    /\ prep = [p \in Procs |-> "idle"]
    /\ stopper = [p \in Procs |-> [t \in Stoppers |-> Idle]]
    /\ phase = [p \in Procs |-> "none"]
    /\ toVisit = [p \in Procs |-> {}]
    /\ visited = [p \in Procs |-> {}]

May(fault) == fault \in world.faults

(***************************************************************************)
(* Start.                                                                  *)
(***************************************************************************)
LoopGoes(p, pc, v) == loop' = [loop EXCEPT ![p] = [pc |-> pc, vm |-> v]]

VmIs(v, st, p) == vm' = [vm EXCEPT ![v] = [st |-> st, by |-> p]]

Taken == {v \in Vms : vm[v].st # "none"} \cup {loop[p].vm : p \in Procs}

NextVm(v) == v <= world.vms /\ v \notin Taken /\ \A u \in Vms : u < v => u \in Taken

\* The top of the loop: the manager is closing, or the context is done.
LoopEnds(p, ctxDone) ==
    /\ p \in alive
    /\ loop[p].pc = "top"
    /\ p \in closing \/ ctxDone
    /\ LoopGoes(p, "ended", None)
    /\ UNCHANGED <<alive, warm, allVMs, requests, vm, rootfs, stopVars, prep>>

\* The pool has room: a new VM id, and a copy of the root file system.
LoopCopies(p) ==
    /\ p \in alive
    /\ loop[p].pc = "top"
    /\ p \notin closing
    /\ Len(warm[p]) # MachinePoolSize
    /\ \E v \in Vms : NextVm(v) /\ LoopGoes(p, "creating", v) /\ rootfs' = rootfs \cup {v}
    /\ UNCHANGED <<alive, warm, allVMs, requests, vm, stopVars, prep>>

\* Changed: the loop does not `continue` after an error, and goes on with nil.
CreateAndStartVM_GoesOn(p) ==
    LET v == loop[p].vm
    IN  /\ p \in alive
        /\ loop[p].pc = "creating"
        /\ \/ LoopGoes(p, "metadata", v) /\ VmIs(v, "running", p)
           \/ May("createFails") /\ LoopGoes(p, "metadata", None) /\ VmIs(v, "ended", p)
        /\ UNCHANGED <<alive, warm, allVMs, requests, rootfs, stopVars, prep>>

\* createAndStartVM returns; after an error the copy stays behind.
CreateAndStartVM(p) ==
    LET v == loop[p].vm
    IN  /\ p \in alive
        /\ loop[p].pc = "creating"
        /\ \/ LoopGoes(p, "metadata", v) /\ VmIs(v, "running", p)
           \/ May("createFails") /\ LoopGoes(p, "top", None) /\ VmIs(v, "ended", p)
        /\ UNCHANGED <<alive, warm, allVMs, requests, rootfs, stopVars, prep>>

\* setMetadata cancels the VM if it fails; else the VM is filed.
SetMetadata(p) ==
    LET v == loop[p].vm
    IN  /\ p \in alive
        /\ loop[p].pc = "metadata"
        /\ \/ /\ LoopGoes(p, "pushing", v)
              /\ allVMs' = [allVMs EXCEPT ![p] = @ \cup {v}]
              /\ UNCHANGED vm
           \/ /\ May("createFails")
              /\ LoopGoes(p, "top", None)
              /\ VmIs(v, "ended", p)
              /\ UNCHANGED allVMs
        /\ UNCHANGED <<alive, warm, requests, rootfs, stopVars, prep>>

\* A send on the closed channel panics, which Start recovers from and ends.
LoopPushes(p) ==
    /\ p \in alive
    /\ loop[p].pc = "pushing"
    /\ IF p \in closing
       THEN LoopGoes(p, "ended", None) /\ UNCHANGED warm
       ELSE /\ Len(warm[p]) < MachinePoolSize
            /\ warm' = [warm EXCEPT ![p] = Append(@, loop[p].vm)]
            /\ LoopGoes(p, "top", None)
    /\ UNCHANGED <<alive, allVMs, requests, vm, rootfs, stopVars, prep>>

(***************************************************************************)
(* PrepareWorkload, called under the manager's poolMutex: one at a time.   *)
(***************************************************************************)

\* A deployment has chosen a pending agent, whose VM is filed, and waits for
\* a warm VM.
PrepareBegins(p) ==
    /\ p \in alive
    /\ allVMs[p] # {} /\ prep[p] = "idle" /\ phase[p] = "none"
    /\ May("deploy")
    /\ prep' = [prep EXCEPT ![p] = "blocked"]
    /\ UNCHANGED <<alive, poolVars, stopVars>>

\* It takes the first one, or learns that the channel is closed.
PrepareWorkload(p) ==
    /\ p \in alive
    /\ prep[p] = "blocked"
    /\ \/ /\ warm[p] # <<>>
          /\ requests' = [requests EXCEPT ![p] = @ \cup {Head(warm[p])}]
          /\ warm' = [warm EXCEPT ![p] = Tail(@)]
          /\ prep' = [prep EXCEPT ![p] = "idle"]
       \/ /\ warm[p] = <<>> /\ p \in closing
          /\ prep' = [prep EXCEPT ![p] = "failed"]
          /\ UNCHANGED <<requests, warm>>
    /\ UNCHANGED <<alive, loop, allVMs, vm, rootfs, stopVars>>

(***************************************************************************)
(* StopProcess, in three steps between which other goroutines run.         *)
(***************************************************************************)

\* The VM is looked up in allVMs (if it is not there StopProcess returns an
\* error, and the caller goes on), and its deploy request is deleted.
Enter(p, t, v) ==
    /\ stopper[p][t].pc = "idle"
    /\ v \in allVMs[p]
    /\ stopper' = [stopper EXCEPT ![p][t] = [pc |-> "found", vm |-> v]]
    /\ requests' = [requests EXCEPT ![p] = @ \ {v}]
    /\ UNCHANGED <<alive, loop, warm, allVMs, vm, rootfs, prep, closing, phase>>

\* Its mutex: nil if another goroutine has finished with this VM meanwhile,
\* and locking nil ends the process.
FetchMutex(p, t) ==
    /\ p \in alive
    /\ stopper[p][t].pc = "found"
    /\ IF stopper[p][t].vm \in allVMs[p]
       THEN stopper' = [stopper EXCEPT ![p][t].pc = "waiting"] /\ UNCHANGED alive
       ELSE alive' = alive \ {p} /\ UNCHANGED stopper
    /\ UNCHANGED <<poolVars, prep, closing, phase, toVisit, visited>>

\* shutdown of a VM; only the first does anything.
Shutdown(v, p) ==
    /\ VmIs(v, "ended", p) \/ (May("stopFails") /\ UNCHANGED vm)
    /\ rootfs' = rootfs \ {v}

\* Under the mutex: shutdown, and the VM is removed from the maps, even one
\* that firecracker failed to stop.
StopProcess(p, t) ==
    LET v == stopper[p][t].vm
    IN  /\ p \in alive
        /\ stopper[p][t].pc = "waiting"
        /\ Shutdown(v, p)
        /\ allVMs' = [allVMs EXCEPT ![p] = @ \ {v}]
        /\ stopper' = [stopper EXCEPT ![p][t] = Idle]
        /\ UNCHANGED <<alive, loop, warm, requests, prep, closing, phase, toVisit, visited>>

\* A STOP request, or the event of a workload that stopped: StopWorkload holds
\* the workload's own mutex in the manager.
EventStops(p) ==
    /\ p \in alive
    /\ May("stop")
    /\ \E v \in requests[p] : /\ stopper[p]["node"].vm # v \/ phase[p] = "vms"
                             /\ Enter(p, "event", v)
    /\ UNCHANGED <<toVisit, visited>>

(***************************************************************************)
(* WorkloadManager.Stop and the Stop of the process manager.               *)
(***************************************************************************)

\* Workloads whose agents have answered are stopped first.
StopsWorkload(p) ==
    /\ p \in alive
    /\ phase[p] = "workloads"
    /\ \E v \in requests[p] : stopper[p]["event"].vm # v /\ Enter(p, "node", v)
    /\ UNCHANGED <<toVisit, visited>>

\* Changed: Stop ranges over deployRequests, the VMs with a workload.
ProcManStop_DeployRequests(p) ==
    /\ p \in alive
    /\ phase[p] = "workloads"
    /\ stopper[p]["node"] = Idle
    /\ phase' = [phase EXCEPT ![p] = "vms"]
    /\ closing' = closing \cup {p}
    /\ toVisit' = [toVisit EXCEPT ![p] = requests[p]]
    /\ UNCHANGED <<alive, poolVars, prep, stopper, visited>>

\* Then warmVMs is closed, and Stop ranges over allVMs.
ProcManStop(p) ==
    /\ p \in alive
    /\ phase[p] = "workloads"
    /\ stopper[p]["node"] = Idle
    /\ phase' = [phase EXCEPT ![p] = "vms"]
    /\ closing' = closing \cup {p}
    /\ toVisit' = [toVisit EXCEPT ![p] = allVMs[p]]
    /\ UNCHANGED <<alive, poolVars, prep, stopper, visited>>

StopVisits(p) ==
    /\ p \in alive
    /\ phase[p] = "vms"
    /\ \E v \in allVMs[p] \ visited[p] :
          /\ Enter(p, "node", v)
          /\ visited' = [visited EXCEPT ![p] = @ \cup {v}]
    /\ UNCHANGED toVisit

StopReturns(p) ==
    /\ p \in alive
    /\ phase[p] = "vms"
    /\ stopper[p]["node"] = Idle
    /\ toVisit[p] \cap allVMs[p] \subseteq visited[p]
    /\ phase' = [phase EXCEPT ![p] = "done"]
    /\ UNCHANGED <<alive, poolVars, prep, closing, stopper, toVisit, visited>>

LoopSteps(p, ctxDone) ==
    \/ LoopEnds(p, ctxDone) \/ LoopCopies(p) \/ CreateAndStartVM(p)
    \/ SetMetadata(p) \/ LoopPushes(p)

StopSteps(p) ==
    \/ \E t \in Stoppers : FetchMutex(p, t) \/ StopProcess(p, t)
    \/ ProcManStop(p) \/ StopVisits(p) \/ StopReturns(p)
=============================================================================
