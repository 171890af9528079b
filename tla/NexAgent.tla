------------------------------ MODULE NexAgent ------------------------------
(***************************************************************************)
(* One nex-agent process (agent/agent.go) with its execution providers     *)
(* (agent/providers/lib/elf.go, v8.go, wasm.go).                           *)
(*                                                                         *)
(* Goroutines: main, which waits for a signal and shuts down; the handler  *)
(* of deploy messages and the one of undeploy messages, each serial; per   *)
(* deployment a monitor that reads the provider's Fail, Run and Exit       *)
(* channels, and for a native workload one goroutine that sends on Run and *)
(* one that waits for the process and sends on Exit; and the dispatchers   *)
(* of the two buffered channels.  The three provider channels have no      *)
(* buffer: a send and its receipt are one step, and a sender without a     *)
(* receiver waits.                                                         *)
(*                                                                         *)
(* The agent runs outside a sandbox, as SpawningProcMan starts it: LogInfo *)
(* and its kin do not use agentLogs, and a native binary is not validated. *)
(***************************************************************************)
EXTENDS Naturals, Sequences, FiniteSets

CONSTANTS
    Deploys,      \* deploy messages
    Functions,    \* those for v8 or wasm; the others are native
    None,         \* nil
    QueueCap,     \* capacity of agentLogs and eventLogs (64 in the code)
    MaxUndeploys, \* bound: how many undeploy requests the node sends
    Env           \* which of the events below the environment may produce

EnvEvents == {
    "noHandshake",  \* the handshake fails
    "reject",       \* a deployment is refused
    "badStart",     \* a provider fails to start the workload
    "exit",         \* a workload ends by itself
    "output",       \* a workload writes to its standard output
    "race"}         \* the signal may meet a deployment under way

Native == Deploys \ Functions

ASSUME AgentAssumption ==
    /\ Functions \subseteq Deploys
    /\ None \notin Deploys
    /\ QueueCap \in Nat \ {0}
    /\ MaxUndeploys \in Nat
    /\ Env \subseteq EnvEvents

VARIABLES
    main,       \* the main goroutine, with the provider its Undeploy is for
    sig,        \* the signal: not sent, in the channel sigs, or received
    queue,      \* deploy messages in the subscription, oldest first
    sent,       \* deploy messages the node has sent
    dep,        \* the deploy handler, with its message
    und,        \* the undeploy handler, with the provider it works for
    requests,   \* undeploy requests sent so far
    provider,   \* a.provider
    cmd,        \* native providers whose cmd is set
    once,       \* the sync.Once of every native provider
    os,         \* the workload process of every native deployment
    runner,     \* the goroutine that sends on Run
    waiter,     \* the goroutine inside cmd.Wait
    monitor,    \* the goroutine that newExecutionProviderParams starts
    acks,       \* the answer to every deploy message
    agentLogs,  \* how many entries the log channel holds
    eventLogs,  \* the event channel: pairs of a deployment and an event type
    emitted,    \* the events put on that channel, of every deployment
    published,  \* the events the node's server has received
    dispatch    \* the two dispatchers

mainVars == <<main, sig>>
wireVars == <<queue, sent, requests>>
handlerVars == <<dep, und>>
provVars == <<provider, cmd, once>>
procVars == <<os, runner, waiter>>
chanVars == <<agentLogs, eventLogs, emitted, published, dispatch>>

vars == <<mainVars, wireVars, handlerVars, provVars, procVars, monitor, acks,
          chanVars>>

Events == Deploys \X {"started", "stopped"}

Idle == [pc |-> "idle", d |-> None]

HandlerStates(pcs) == [pc : pcs, d : Deploys \cup {None}]

\* Every variable has its type and the channels respect their capacities.
TypeOK ==
    /\ main \in HandlerStates({"init", "loop", "undeploy", "fail", "drain",
                               "halted", "panicked"})
    /\ sig \in {"no", "sent", "received"}
    /\ queue \in Seq(Deploys)
    /\ sent \subseteq Deploys
    /\ dep \in HandlerStates({"idle", "validate", "start", "fail", "run", "ack"})
    /\ und \in HandlerStates({"idle", "undeploy", "fail"})
    /\ requests \in 0..MaxUndeploys
    /\ provider \in Deploys \cup {None}
    /\ cmd \subseteq Native
    /\ once \in [Deploys -> {"new", "busy", "done"}]
    /\ os \in [Deploys -> {"none", "running", "interrupted", "exited"}]
    /\ runner \in [Deploys -> {"none", "sending", "done"}]
    /\ waiter \in [Deploys -> {"none", "waiting", "sending", "done"}]
    /\ monitor \in [Deploys -> {"none", "select", "log started", "event started",
                                "log stopped", "event stopped", "done"}]
    /\ acks \in [Deploys -> {"none", "accepted", "rejected"}]
    /\ agentLogs \in 0..QueueCap
    /\ eventLogs \in Seq(Events) /\ Len(eventLogs) <= QueueCap
    /\ emitted \in [Deploys -> Seq({"started", "stopped"})]
    /\ published \subseteq Events
    /\ dispatch \in [{"events", "logs"} -> {"off", "receiving", "over"}]

Init ==
    /\ main = [pc |-> "init", d |-> None]
    /\ sig = "no"
    /\ queue = <<>>
    /\ sent = {}
    /\ dep = Idle
    /\ und = Idle
    /\ requests = 0
    /\ provider = None
    /\ cmd = {}
    /\ once = [d \in Deploys |-> "new"]
    /\ os = [d \in Deploys |-> "none"]
    /\ runner = [d \in Deploys |-> "none"]
    /\ waiter = [d \in Deploys |-> "none"]
    /\ monitor = [d \in Deploys |-> "none"]
    /\ acks = [d \in Deploys |-> "none"]
    /\ agentLogs = 0
    /\ eventLogs = <<>>
    /\ emitted = [d \in Deploys |-> <<>>]
    /\ published = {}
    /\ dispatch = [c \in {"events", "logs"} |-> "off"]

\* The process exists; a panic in any goroutine and HaltVM end it.
Up == main.pc \notin {"halted", "panicked"}

\* closing > 0
ShuttingDown == main.pc \in {"undeploy", "fail", "drain"}

(***************************************************************************)
(* Start: init's handshake, subscriptions and dispatchers, or its failure. *)
(***************************************************************************)
AgentStarts ==
    /\ main.pc = "init"
    /\ main' = [main EXCEPT !.pc = "loop"]
    /\ dispatch' = [c \in {"events", "logs"} |-> "receiving"]
    /\ UNCHANGED <<sig, wireVars, handlerVars, provVars, procVars, monitor, acks,
                   agentLogs, eventLogs, emitted, published>>

AgentFailsToStart ==
    /\ "noHandshake" \in Env
    /\ main.pc = "init"
    /\ main' = [main EXCEPT !.pc = "drain"]
    /\ UNCHANGED <<sig, wireVars, handlerVars, provVars, procVars, monitor, acks,
                   chanVars>>

(***************************************************************************)
(* The node: deploy messages, undeploy requests and the interrupt.         *)
(***************************************************************************)
Settled == dep = Idle /\ queue = <<>>

SendDeploy(d) ==
    /\ main.pc \in {"loop", "undeploy", "fail"}
    /\ d \notin sent
    /\ "race" \in Env \/ (sig = "no" /\ und = Idle)
    /\ sent' = sent \cup {d}
    /\ queue' = Append(queue, d)
    /\ UNCHANGED <<mainVars, requests, handlerVars, provVars, procVars, monitor,
                   acks, chanVars>>

Interrupt ==
    /\ main.pc \in {"init", "loop"}
    /\ sig = "no"
    /\ "race" \in Env \/ Settled
    /\ sig' = "sent"
    /\ UNCHANGED <<main, wireVars, handlerVars, provVars, procVars, monitor, acks,
                   chanVars>>

(***************************************************************************)
(* handleDeploy.                                                           *)
(***************************************************************************)

\* An unreadable or invalid request, or an artifact that cannot be cached.
DeployRefused ==
    /\ "reject" \in Env
    /\ Up
    /\ dep = Idle
    /\ queue # <<>>
    /\ queue' = Tail(queue)
    /\ acks' = [acks EXCEPT ![Head(queue)] = "rejected"]
    /\ UNCHANGED <<mainVars, sent, requests, handlerVars, provVars, procVars,
                   monitor, chanVars>>

\* NewExecutionProvider fails after the monitor has been started.
DeployHasNoProvider ==
    /\ "reject" \in Env
    /\ Up
    /\ dep = Idle
    /\ queue # <<>>
    /\ queue' = Tail(queue)
    /\ monitor' = [monitor EXCEPT ![Head(queue)] = "select"]
    /\ acks' = [acks EXCEPT ![Head(queue)] = "rejected"]
    /\ UNCHANGED <<mainVars, sent, requests, handlerVars, provVars, procVars,
                   chanVars>>

\* Variant: no goroutine listens to the provider's channels.
DeployInits_NoMonitor ==
    /\ Up
    /\ dep = Idle
    /\ queue # <<>>
    /\ queue' = Tail(queue)
    /\ provider' = Head(queue)
    /\ dep' = [pc |-> IF Head(queue) \in Functions THEN "validate" ELSE "start",
               d |-> Head(queue)]
    /\ UNCHANGED <<mainVars, sent, requests, und, cmd, once, procVars, monitor,
                   acks, chanVars>>

DeployInits ==
    /\ Up
    /\ dep = Idle
    /\ queue # <<>>
    /\ queue' = Tail(queue)
    /\ monitor' = [monitor EXCEPT ![Head(queue)] = "select"]
    /\ provider' = Head(queue)
    /\ dep' = [pc |-> IF Head(queue) \in Functions THEN "validate" ELSE "start",
               d |-> Head(queue)]
    /\ UNCHANGED <<mainVars, sent, requests, und, cmd, once, procVars, acks,
                   chanVars>>

DeployValidates ==
    /\ Up
    /\ dep.pc = "validate"
    /\ dep' = [dep EXCEPT !.pc = "start"]
    /\ UNCHANGED <<mainVars, wireVars, und, provVars, procVars, monitor, acks,
                   chanVars>>

\* Variant: the handler goes on after a failed validation.
DeployInvalid_GoesOn ==
    /\ "reject" \in Env
    /\ Up
    /\ dep.pc = "validate"
    /\ dep' = [dep EXCEPT !.pc = "start"]
    /\ acks' = [acks EXCEPT ![dep.d] = "rejected"]
    /\ UNCHANGED <<mainVars, wireVars, und, provVars, procVars, monitor, chanVars>>

DeployInvalid ==
    /\ "reject" \in Env
    /\ Up
    /\ dep.pc = "validate"
    /\ dep' = Idle
    /\ acks' = [acks EXCEPT ![dep.d] = "rejected"]
    /\ UNCHANGED <<mainVars, wireVars, und, provVars, procVars, monitor, chanVars>>

\* Variant: the command is started and not kept.
NativeStarts_DropsCmd ==
    /\ Up
    /\ dep.pc = "start"
    /\ dep.d \in Native
    /\ os' = [os EXCEPT ![dep.d] = "running"]
    /\ runner' = [runner EXCEPT ![dep.d] = "sending"]
    /\ waiter' = [waiter EXCEPT ![dep.d] = "waiting"]
    /\ dep' = [dep EXCEPT !.pc = "ack"]
    /\ UNCHANGED <<mainVars, wireVars, und, provVars, monitor, acks, chanVars>>

\* ELF.Deploy: cmd.Start, and the goroutines behind it.
NativeStarts ==
    /\ Up
    /\ dep.pc = "start"
    /\ dep.d \in Native
    /\ os' = [os EXCEPT ![dep.d] = "running"]
    /\ cmd' = cmd \cup {dep.d}
    /\ runner' = [runner EXCEPT ![dep.d] = "sending"]
    /\ waiter' = [waiter EXCEPT ![dep.d] = "waiting"]
    /\ dep' = [dep EXCEPT !.pc = "ack"]
    /\ UNCHANGED <<mainVars, wireVars, und, provider, once, monitor, acks, chanVars>>

NativeFailsToStart ==
    /\ "badStart" \in Env
    /\ Up
    /\ dep.pc = "start"
    /\ dep.d \in Native
    /\ dep' = [dep EXCEPT !.pc = "fail"]
    /\ UNCHANGED <<mainVars, wireVars, und, provVars, procVars, monitor, acks,
                   chanVars>>

\* V8.Deploy and Wasm.Deploy subscribe and send on Run.
FunctionStarts ==
    /\ main.pc \in {"loop", "undeploy", "fail"}
    /\ dep.pc = "start"
    /\ dep.d \in Functions
    /\ dep' = [dep EXCEPT !.pc = "run"]
    /\ UNCHANGED <<mainVars, wireVars, und, provVars, procVars, monitor, acks,
                   chanVars>>

\* The subscription fails, as it must on a draining connection: no answer.
FunctionFailsToStart ==
    /\ Up
    /\ "badStart" \in Env \/ main.pc = "drain"
    /\ dep.pc = "start"
    /\ dep.d \in Functions
    /\ dep' = Idle
    /\ UNCHANGED <<mainVars, wireVars, und, provVars, procVars, monitor, acks,
                   chanVars>>

DeployAcks ==
    /\ Up
    /\ dep.pc = "ack"
    /\ acks' = [acks EXCEPT ![dep.d] = "accepted"]
    /\ dep' = Idle
    /\ UNCHANGED <<mainVars, wireVars, und, provVars, procVars, monitor, chanVars>>

(***************************************************************************)
(* Undeploy of a provider, called by handleUndeploy and by shutdown.  V8   *)
(* and Wasm do nothing; ELF interrupts its process inside a sync.Once, and *)
(* a second caller waits for the first.                                    *)
(***************************************************************************)

\* Variant: a mutex that is never unlocked in place of the sync.Once.
UndeployReturns_Locked(d) ==
    /\ d \in Functions
    /\ UNCHANGED <<once, os>>

UndeployReturns(d) ==
    /\ d \in Functions \/ once[d] = "done"
    /\ UNCHANGED <<once, os>>

UndeploySignals(d) ==
    /\ d \in cmd
    /\ once[d] = "new"
    /\ os[d] \in {"running", "interrupted"}
    /\ os' = [os EXCEPT ![d] = "interrupted"]
    /\ once' = [once EXCEPT ![d] = "done"]

\* The process has been waited for: the signal fails and the caller sends on
\* Fail from inside the sync.Once.
UndeployFails(d) ==
    /\ d \in cmd
    /\ once[d] = "new"
    /\ os[d] = "exited"
    /\ once' = [once EXCEPT ![d] = "busy"]
    /\ UNCHANGED os

\* e.cmd is nil.
UndeployPanics(d) ==
    /\ d \in Native \ cmd
    /\ once[d] = "new"
    /\ UNCHANGED <<once, os>>

(***************************************************************************)
(* handleUndeploy.                                                         *)
(***************************************************************************)
HandleUndeploy ==
    /\ main.pc \in {"loop", "undeploy", "fail"}
    /\ und = Idle
    /\ requests < MaxUndeploys
    /\ "race" \in Env \/ Settled
    /\ requests' = requests + 1
    /\ und' = IF provider = None THEN Idle ELSE [pc |-> "undeploy", d |-> provider]
    /\ UNCHANGED <<mainVars, queue, sent, dep, provVars, procVars, monitor, acks,
                   chanVars>>

UndeployDone ==
    /\ Up
    /\ und.pc = "undeploy"
    /\ UndeployReturns(und.d) \/ UndeploySignals(und.d)
    /\ und' = Idle
    /\ UNCHANGED <<mainVars, wireVars, dep, provider, cmd, runner, waiter, monitor,
                   acks, chanVars>>

UndeployWaits ==
    /\ Up
    /\ und.pc = "undeploy"
    /\ UndeployFails(und.d)
    /\ und' = [und EXCEPT !.pc = "fail"]
    /\ UNCHANGED <<mainVars, wireVars, dep, provider, cmd, runner, waiter, monitor,
                   acks, chanVars>>

UndeployCrashes ==
    /\ Up
    /\ und.pc = "undeploy"
    /\ UndeployPanics(und.d)
    /\ main' = [main EXCEPT !.pc = "panicked"]
    /\ UNCHANGED <<sig, wireVars, handlerVars, provider, cmd, runner, waiter,
                   monitor, acks, chanVars>>

(***************************************************************************)
(* shutdown, on the main goroutine.                                        *)
(***************************************************************************)

\* Variant: shutdown leaves the provider alone.
ShutdownBegins_NoUndeploy ==
    /\ main.pc = "loop"
    /\ sig = "sent"
    /\ sig' = "received"
    /\ main' = [pc |-> "drain", d |-> None]
    /\ UNCHANGED <<wireVars, handlerVars, provVars, procVars, monitor, acks, chanVars>>

ShutdownBegins ==
    /\ main.pc = "loop"
    /\ sig = "sent"
    /\ sig' = "received"
    /\ main' = [pc |-> IF provider = None THEN "drain" ELSE "undeploy",
                d |-> provider]
    /\ UNCHANGED <<wireVars, handlerVars, provVars, procVars, monitor, acks, chanVars>>

ShutdownUndeploys ==
    /\ main.pc = "undeploy"
    /\ UndeployReturns(main.d) \/ UndeploySignals(main.d)
    /\ main' = [main EXCEPT !.pc = "drain"]
    /\ UNCHANGED <<sig, wireVars, handlerVars, provider, cmd, runner, waiter,
                   monitor, acks, chanVars>>

ShutdownWaits ==
    /\ main.pc = "undeploy"
    /\ UndeployFails(main.d)
    /\ main' = [main EXCEPT !.pc = "fail"]
    /\ UNCHANGED <<sig, wireVars, handlerVars, provider, cmd, runner, waiter,
                   monitor, acks, chanVars>>

ShutdownCrashes ==
    /\ main.pc = "undeploy"
    /\ UndeployPanics(main.d)
    /\ main' = [main EXCEPT !.pc = "panicked"]
    /\ UNCHANGED <<sig, wireVars, handlerVars, provider, cmd, runner, waiter,
                   monitor, acks, chanVars>>

\* A handler that waits for another goroutine; drain gives up on it after its
\* timeout of 30 seconds.
Stuck ==
    \/ dep.pc \in {"fail", "run"}
    \/ und.pc = "fail"
    \/ und.pc = "undeploy" /\ once[und.d] = "busy"

\* nc.Drain lets the handlers finish what was received; then HaltVM.
ShutdownHalts ==
    /\ main.pc = "drain"
    /\ Stuck \/ (Settled /\ und = Idle)
    /\ main' = [main EXCEPT !.pc = "halted"]
    /\ UNCHANGED <<sig, wireVars, handlerVars, provVars, procVars, monitor, acks,
                   chanVars>>

(***************************************************************************)
(* The monitor of a deployment: it receives from Fail, Run and Exit, and   *)
(* puts a log entry and an event on the agent's channels.                  *)
(***************************************************************************)
MonitorReceivesFail(d) ==
    /\ Up
    /\ monitor[d] = "select"
    /\ \/ /\ dep = [pc |-> "fail", d |-> d]
          /\ dep' = Idle
          /\ UNCHANGED <<main, und, once>>
       \/ /\ und = [pc |-> "fail", d |-> d]
          /\ und' = Idle
          /\ once' = [once EXCEPT ![d] = "done"]
          /\ UNCHANGED <<main, dep>>
       \/ /\ main = [pc |-> "fail", d |-> d]
          /\ main' = [main EXCEPT !.pc = "drain"]
          /\ once' = [once EXCEPT ![d] = "done"]
          /\ UNCHANGED <<dep, und>>
    /\ monitor' = [monitor EXCEPT ![d] = "log stopped"]
    /\ UNCHANGED <<sig, wireVars, provider, cmd, procVars, acks, chanVars>>

MonitorReceivesRun(d) ==
    /\ Up
    /\ monitor[d] = "select"
    /\ \/ /\ runner[d] = "sending"
          /\ runner' = [runner EXCEPT ![d] = "done"]
          /\ UNCHANGED dep
       \/ /\ dep = [pc |-> "run", d |-> d]
          /\ dep' = [dep EXCEPT !.pc = "ack"]
          /\ UNCHANGED runner
    /\ monitor' = [monitor EXCEPT ![d] = "log started"]
    /\ UNCHANGED <<mainVars, wireVars, und, provVars, os, waiter, acks, chanVars>>

MonitorReceivesExit(d) ==
    /\ Up
    /\ monitor[d] = "select"
    /\ waiter[d] = "sending"
    /\ waiter' = [waiter EXCEPT ![d] = "done"]
    /\ monitor' = [monitor EXCEPT ![d] = "log stopped"]
    /\ UNCHANGED <<mainVars, wireVars, handlerVars, provVars, os, runner, acks,
                   chanVars>>

\* Variant: the log channel is taken to be unbounded.
MonitorLogs_Unbounded(d) ==
    /\ Up
    /\ monitor[d] \in {"log started", "log stopped"}
    /\ agentLogs' = agentLogs + 1
    /\ monitor' = [monitor EXCEPT ![d] =
           IF monitor[d] = "log started" THEN "event started" ELSE "event stopped"]
    /\ UNCHANGED <<mainVars, wireVars, handlerVars, provVars, procVars, acks,
                   eventLogs, emitted, published, dispatch>>

MonitorLogs(d) ==
    /\ Up
    /\ monitor[d] \in {"log started", "log stopped"}
    /\ agentLogs < QueueCap
    /\ agentLogs' = agentLogs + 1
    /\ monitor' = [monitor EXCEPT ![d] =
           IF monitor[d] = "log started" THEN "event started" ELSE "event stopped"]
    /\ UNCHANGED <<mainVars, wireVars, handlerVars, provVars, procVars, acks,
                   eventLogs, emitted, published, dispatch>>

\* The event channel takes event e of deployment d.
Emit(d, e) ==
    /\ Len(eventLogs) < QueueCap
    /\ eventLogs' = Append(eventLogs, <<d, e>>)
    /\ emitted' = [emitted EXCEPT ![d] = Append(@, e)]

MonitorSaysStarted(d) ==
    /\ Up
    /\ monitor[d] = "event started"
    /\ Emit(d, "started")
    /\ monitor' = [monitor EXCEPT ![d] = "select"]
    /\ UNCHANGED <<mainVars, wireVars, handlerVars, provVars, procVars, acks,
                   agentLogs, published, dispatch>>

\* Variant: the monitor does not return after the workload's end.
MonitorSaysStopped_GoesOn(d) ==
    /\ Up
    /\ monitor[d] = "event stopped"
    /\ Emit(d, "stopped")
    /\ monitor' = [monitor EXCEPT ![d] = "select"]
    /\ UNCHANGED <<mainVars, wireVars, handlerVars, provVars, procVars, acks,
                   agentLogs, published, dispatch>>

MonitorSaysStopped(d) ==
    /\ Up
    /\ monitor[d] = "event stopped"
    /\ Emit(d, "stopped")
    /\ monitor' = [monitor EXCEPT ![d] = "done"]
    /\ UNCHANGED <<mainVars, wireVars, handlerVars, provVars, procVars, acks,
                   agentLogs, published, dispatch>>

(***************************************************************************)
(* The workload process and the goroutine in cmd.Wait.  The process is a   *)
(* child of the agent and outlives it.                                     *)
(***************************************************************************)
WorkloadExits(d) ==
    /\ \/ os[d] = "interrupted"
       \/ os[d] = "running" /\ "exit" \in Env
    /\ os' = [os EXCEPT ![d] = "exited"]
    /\ UNCHANGED <<mainVars, wireVars, handlerVars, provVars, runner, waiter,
                   monitor, acks, chanVars>>

\* logEmitter.Write: the bytes of the workload become one log entry.
WorkloadWrites(d) ==
    /\ "output" \in Env
    /\ Up
    /\ os[d] \in {"running", "interrupted"}
    /\ agentLogs < QueueCap
    /\ agentLogs' = agentLogs + 1
    /\ UNCHANGED <<mainVars, wireVars, handlerVars, provVars, procVars, monitor,
                   acks, eventLogs, emitted, published, dispatch>>

WaitReturns(d) ==
    /\ Up
    /\ os[d] = "exited"
    /\ waiter[d] = "waiting"
    /\ waiter' = [waiter EXCEPT ![d] = "sending"]
    /\ UNCHANGED <<mainVars, wireVars, handlerVars, provVars, os, runner, monitor,
                   acks, chanVars>>

(***************************************************************************)
(* dispatchEvents and dispatchLogs: each looks at closing only after the   *)
(* entry it was waiting for, and a closing connection may refuse it.       *)
(***************************************************************************)
Dispatched(c) ==
    /\ Up
    /\ dispatch[c] = "receiving"
    /\ dispatch' = [dispatch EXCEPT ![c] = IF ShuttingDown THEN "over" ELSE @]

\* Variant: the dispatcher returns after its first event.
DispatchEvents_Once ==
    /\ Up
    /\ dispatch["events"] = "receiving"
    /\ eventLogs # <<>>
    /\ dispatch' = [dispatch EXCEPT !["events"] = "over"]
    /\ eventLogs' = Tail(eventLogs)
    /\ published' = published \cup {Head(eventLogs)}
    /\ UNCHANGED <<mainVars, wireVars, handlerVars, provVars, procVars, monitor,
                   acks, agentLogs, emitted>>

DispatchEvents ==
    /\ Dispatched("events")
    /\ eventLogs # <<>>
    /\ eventLogs' = Tail(eventLogs)
    /\ \/ published' = published \cup {Head(eventLogs)}
       \/ main.pc = "drain" /\ UNCHANGED published
    /\ UNCHANGED <<mainVars, wireVars, handlerVars, provVars, procVars, monitor,
                   acks, agentLogs, emitted>>

DispatchLogs ==
    /\ Dispatched("logs")
    /\ agentLogs > 0
    /\ agentLogs' = agentLogs - 1
    /\ UNCHANGED <<mainVars, wireVars, handlerVars, provVars, procVars, monitor,
                   acks, eventLogs, emitted, published>>

(***************************************************************************)
(* The specification.                                                      *)
(***************************************************************************)
Node == Interrupt \/ \E d \in Deploys : SendDeploy(d)

Main ==
    \/ AgentStarts
    \/ AgentFailsToStart
    \/ ShutdownBegins
    \/ ShutdownUndeploys
    \/ ShutdownWaits
    \/ ShutdownCrashes
    \/ ShutdownHalts

DeployHandler ==
    \/ DeployRefused
    \/ DeployHasNoProvider
    \/ DeployInits
    \/ DeployValidates
    \/ DeployInvalid
    \/ NativeStarts
    \/ NativeFailsToStart
    \/ FunctionStarts
    \/ FunctionFailsToStart
    \/ DeployAcks

UndeployHandler == UndeployDone \/ UndeployWaits \/ UndeployCrashes

Monitor(d) ==
    \/ MonitorReceivesFail(d)
    \/ MonitorReceivesRun(d)
    \/ MonitorReceivesExit(d)
    \/ MonitorLogs(d)
    \/ MonitorSaysStarted(d)
    \/ MonitorSaysStopped(d)

Workload(d) == WorkloadExits(d) \/ WorkloadWrites(d)

Next ==
    \/ Node
    \/ HandleUndeploy
    \/ Main
    \/ DeployHandler
    \/ UndeployHandler
    \/ DispatchEvents
    \/ DispatchLogs
    \/ \E d \in Deploys : Monitor(d) \/ Workload(d) \/ WaitReturns(d)

Spec == Init /\ [][Next]_vars

(***************************************************************************)
(* Safety.                                                                 *)
(***************************************************************************)

\* What WorkloadEvents sees of a deployment's process.
Life(s) == IF s = "none" THEN "none" ELSE IF s = "exited" THEN "over" ELSE "alive"

Contract == INSTANCE WorkloadEvents WITH
    life <- [d \in Deploys |-> Life(os[d])],
    said <- emitted

\* The agent implements WorkloadEvents: whichever of Fail, Run and Exit the
\* monitor of newExecutionProviderParams reads first, a deployment has at most
\* one workload_started, then at most one workload_stopped, and the latter never
\* while its process is alive.
KeepsContract == Contract!Spec

\* A deployment that workAck refused never gets a process and never causes an
\* event, although its monitor may run and a.provider may point to it.
RefusedIsSilent ==
    \A d \in Deploys : acks[d] = "rejected" => os[d] = "none" /\ emitted[d] = <<>>

\* Undeploy never meets a provider without a command, from a node that does not
\* interrupt or undeploy during a deployment and when binaries start.
NeverPanics == main.pc # "panicked"

\* When the agent halts after a signal, Undeploy has interrupted the process of
\* its current provider.
HaltInterruptsWorkload ==
    main.pc = "halted" /\ provider # None => os[provider] # "running"

(***************************************************************************)
(* Liveness.  Every goroutine that can run does; nothing is assumed of the *)
(* node or of the workloads.                                               *)
(***************************************************************************)
Fairness ==
    /\ WF_vars(Main)
    /\ WF_vars(DeployHandler)
    /\ WF_vars(UndeployHandler)
    /\ WF_vars(DispatchEvents)
    /\ WF_vars(DispatchLogs)
    /\ \A d \in Deploys : WF_vars(Monitor(d)) /\ WF_vars(WaitReturns(d))

FairSpec == Spec /\ Fairness

\* The end of every workload process reaches the node as a workload_stopped
\* event, unless the agent is told to stop.
ExitReported ==
    \A d \in Deploys :
        os[d] = "exited" ~> <<d, "stopped">> \in published \/ sig # "no"

\* Every deploy message is answered with workAck when the workload can be
\* started, unless the agent is told to stop.
DeployAnswered ==
    \A d \in Deploys : d \in sent ~> acks[d] # "none" \/ sig # "no"

\* A native process ended without the interrupt of Undeploy.
EndedUnbidden ==
    \E d \in Native : os[d] = "exited" /\ once[d] \in {"new", "busy"}

\* A signal makes the agent halt, also when an undeploy request wants the same
\* sync.Once, unless a workload has ended before.
ShutdownEnds == sig = "sent" ~> main.pc = "halted" \/ EndedUnbidden

\* handleUndeploy answers, also when the agent's shutdown wants the same
\* sync.Once, unless a workload has ended before.
UndeployEnds == und # Idle ~> und = Idle \/ main.pc = "halted" \/ EndedUnbidden

\* A signal makes the agent halt, whatever its workload did: what StopProcess
\* relies on when it interrupts the agent of a workload that has ended
\* (process_mgr.go: "Terminate a running agent process with the given ID").
InterruptHalts == sig = "sent" ~> main.pc = "halted"

=============================================================================
