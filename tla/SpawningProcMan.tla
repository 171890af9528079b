-------------------------- MODULE SpawningProcMan --------------------------
(***************************************************************************)
(* The no-sandbox agent process manager of a Nex node                      *)
(* (internal/node/processmanager/spawn_procman.go).  A spawn loop keeps a  *)
(* channel of warm nex-agent processes filled; the workload manager takes  *)
(* one out of it for every deployment and stops processes by id.           *)
(*                                                                         *)
(* This module holds the state of the process manager, the steps of the    *)
(* spawn loop and the operations the workload manager calls.  The module   *)
(* WorkloadManager composes them with their caller.                        *)
(***************************************************************************)
EXTENDS Naturals, Sequences, FiniteSets

CONSTANTS
    Procs,      \* agent process ids (xid.New()), each used once
    Reqs,       \* deploy requests (pointers), each used once
    None,       \* nil
    PoolSize    \* config.MachinePoolSize

ASSUME PoolAssumption ==
    /\ PoolSize \in Nat \ {0}      \* models/config.go: "must be >= 1"
    /\ None \notin Procs \cup Reqs

VARIABLES
    liveProcs,       \* keys of liveProcs (and of stopMutexes)
    warmProcs,       \* the buffered channel, oldest process first
    procRequest,     \* spawnedProcess.deployRequest of every process
    deployRequests,  \* the deployRequests map, None for an absent key
    spawner,         \* the goroutine inside Start: where it is, its process
    pmClosing,       \* closing > 0
    cancelled,       \* the node's context is done
    os               \* what the operating system knows of every process

pmVars == <<liveProcs, warmProcs, procRequest, deployRequests, spawner,
            pmClosing, cancelled, os>>

ProcStates == {"unborn", "running", "signalled", "exited"}

Requests == [Procs -> Reqs \cup {None}]

PMTypeOK ==
    /\ liveProcs \subseteq Procs
    /\ warmProcs \in Seq(Procs)
    /\ procRequest \in Requests
    /\ deployRequests \in Requests
    /\ spawner \in [pc : {"loop", "spawned", "registered", "done"},
                    proc : Procs \cup {None}]
    /\ pmClosing \in BOOLEAN
    /\ cancelled \in BOOLEAN
    /\ os \in [Procs -> ProcStates]

\* NewSpawningProcessManager: empty maps, an empty channel.
PMInit ==
    /\ liveProcs = {}
    /\ warmProcs = <<>>
    /\ procRequest = [p \in Procs |-> None]
    /\ deployRequests = [p \in Procs |-> None]
    /\ spawner = [pc |-> "loop", proc |-> None]
    /\ pmClosing = FALSE
    /\ cancelled = FALSE
    /\ os = [p \in Procs |-> "unborn"]

(***************************************************************************)
(* The spawn loop.                                                         *)
(***************************************************************************)

\* The loop condition and the select on ctx.Done().
SpawnerReturns ==
    /\ spawner.pc = "loop"
    /\ pmClosing \/ cancelled
    /\ spawner' = [pc |-> "done", proc |-> None]
    /\ UNCHANGED <<liveProcs, warmProcs, procRequest, deployRequests,
                   pmClosing, cancelled, os>>

\* spawn(): a nex-agent is started under a new id.  (A failing cmd.Start()
\* leaves no trace: the loop sleeps and tries again.)
CmdStart(p) ==
    /\ os[p] = "unborn"
    /\ os' = [os EXCEPT ![p] = "running"]

\* Variant: the spawn loop does not look at the pool size.
Spawn_AnyPoolSize(p) ==
    /\ spawner.pc = "loop"
    /\ ~pmClosing /\ ~cancelled
    /\ CmdStart(p)
    /\ spawner' = [pc |-> "spawned", proc |-> p]
    /\ UNCHANGED <<liveProcs, warmProcs, procRequest, deployRequests,
                   pmClosing, cancelled>>

\* A full pool makes the loop sleep and look again; otherwise an agent
\* process is started.
Spawn(p) ==
    /\ spawner.pc = "loop"
    /\ ~pmClosing /\ ~cancelled
    /\ Len(warmProcs) # PoolSize
    /\ CmdStart(p)
    /\ spawner' = [pc |-> "spawned", proc |-> p]
    /\ UNCHANGED <<liveProcs, warmProcs, procRequest, deployRequests,
                   pmClosing, cancelled>>

\* The new process enters liveProcs and stopMutexes.  The caller of this
\* operator starts the OnProcessStarted goroutine.
Register ==
    /\ spawner.pc = "spawned"
    /\ liveProcs' = liveProcs \cup {spawner.proc}
    /\ spawner' = [spawner EXCEPT !.pc = "registered"]
    /\ UNCHANGED <<warmProcs, procRequest, deployRequests, pmClosing,
                   cancelled, os>>

\* The send on the buffered channel, which blocks while the channel is full.
WarmSend ==
    /\ spawner.pc = "registered"
    /\ Len(warmProcs) < PoolSize
    /\ warmProcs' = Append(warmProcs, spawner.proc)
    /\ spawner' = [pc |-> "loop", proc |-> None]
    /\ UNCHANGED <<liveProcs, procRequest, deployRequests, pmClosing,
                   cancelled, os>>

(***************************************************************************)
(* Operations called by the workload manager.                              *)
(***************************************************************************)

Lookup(id) == deployRequests[id]

\* The ids ListProcesses returns: live processes that were prepared.
ListProcesses == {p \in liveProcs : procRequest[p] # None}

\* Variant: the process is looked at and left in the channel.
PrepareWorkload_Peeks(id, req) ==
    /\ warmProcs # <<>>
    /\ LET p == Head(warmProcs)
       IN  /\ procRequest' = [procRequest EXCEPT ![p] = req]
           /\ deployRequests' = [deployRequests EXCEPT ![p] = req]
    /\ UNCHANGED <<warmProcs, liveProcs, spawner, pmClosing, cancelled, os>>

\* PrepareWorkload receives the oldest warm process, whatever the id it is
\* called with, and attaches the request to it.
PrepareWorkload(id, req) ==
    /\ warmProcs # <<>>
    /\ LET p == Head(warmProcs)
       IN  /\ procRequest' = [procRequest EXCEPT ![p] = req]
           /\ deployRequests' = [deployRequests EXCEPT ![p] = req]
    /\ warmProcs' = Tail(warmProcs)
    /\ UNCHANGED <<liveProcs, spawner, pmClosing, cancelled, os>>

\* Its time.After case: nothing to receive for 500ms.
PrepareTimesOut ==
    /\ warmProcs = <<>>
    /\ UNCHANGED pmVars

\* StopProcess, first part: an id that is not in liveProcs is an error; the
\* request of any other is dropped before the process's stop mutex is taken.
StopProcessNoSuch(id) ==
    /\ id \notin liveProcs
    /\ UNCHANGED pmVars

StopProcessFinds(id) ==
    /\ id \in liveProcs
    /\ deployRequests' = [deployRequests EXCEPT ![id] = None]
    /\ UNCHANGED <<liveProcs, warmProcs, procRequest, spawner, pmClosing,
                   cancelled, os>>

\* StopProcess, second part, with the mutex: neither signal of kill() reaches
\* a process that has exited and was waited for, and its error is returned.
StopProcessKillFails(id) ==
    /\ os[id] = "exited"
    /\ UNCHANGED pmVars

\* Variant: the process is forgotten without an interrupt.
StopProcessOk_NoSignal(id) ==
    /\ os[id] # "exited"
    /\ liveProcs' = liveProcs \ {id}
    /\ UNCHANGED <<warmProcs, procRequest, deployRequests, spawner, pmClosing,
                   cancelled, os>>

\* Variant: the process is interrupted and stays in liveProcs.
StopProcessOk_KeepsLive(id) ==
    /\ os[id] # "exited"
    /\ os' = [os EXCEPT ![id] = "signalled"]
    /\ UNCHANGED <<liveProcs, warmProcs, procRequest, deployRequests, spawner,
                   pmClosing, cancelled>>

\* A running process is interrupted and forgotten, perhaps for a second time.
StopProcessOk(id) ==
    /\ os[id] # "exited"
    /\ os' = [os EXCEPT ![id] = "signalled"]
    /\ liveProcs' = liveProcs \ {id}
    /\ UNCHANGED <<warmProcs, procRequest, deployRequests, spawner, pmClosing,
                   cancelled>>

\* The process manager's Stop sets its flag before it stops what is live.
PMStopBegins ==
    /\ pmClosing' = TRUE
    /\ UNCHANGED <<liveProcs, warmProcs, procRequest, deployRequests,
                   spawner, cancelled, os>>

\* A process leaves on its own or after its interrupt, and is waited for.
ProcessExits(p) ==
    /\ os[p] \in {"running", "signalled"}
    /\ os' = [os EXCEPT ![p] = "exited"]
    /\ UNCHANGED <<liveProcs, warmProcs, procRequest, deployRequests,
                   spawner, pmClosing, cancelled>>

=============================================================================
