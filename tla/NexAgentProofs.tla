--------------------------- MODULE NexAgentProofs ---------------------------
(***************************************************************************)
(* Proofs about NexAgent for every set of deployments, every channel       *)
(* capacity and every environment: it is type correct, it implements       *)
(* WorkloadEvents, and a refused deployment leaves no trace.  If the node  *)
(* is orderly, a halt interrupts the workload, and if binaries start       *)
(* besides, the agent never panics.                                        *)
(***************************************************************************)
EXTENDS NexAgent, SequenceTheorems, TLAPS

\* Most leaves are first-order; the rest is arithmetic or records.
USE ZenonT(3), SMT

-----------------------------------------------------------------------------
(***************************************************************************)
(* Types.  The type invariant is cut into one conjunct per group of        *)
(* variables, so that an action is held only against the groups it         *)
(* changes.                                                                *)
(***************************************************************************)

\* The main goroutine: it calls Undeploy only for a provider.
MainTypes ==
    /\ main \in HandlerStates({"init", "loop", "undeploy", "fail", "drain",
                               "halted", "panicked"})
    /\ sig \in {"no", "sent", "received"}
    /\ main.pc \in {"undeploy", "fail"} => main.d # None

\* What the node has sent.
WireTypes ==
    /\ queue \in Seq(Deploys)
    /\ sent \subseteq Deploys
    /\ requests \in 0..MaxUndeploys

\* The two handlers: one that works has a message or a provider.
HandlerTypes ==
    /\ dep \in HandlerStates({"idle", "validate", "start", "fail", "run", "ack"})
    /\ und \in HandlerStates({"idle", "undeploy", "fail"})
    /\ dep.pc = "idle" <=> dep.d = None
    /\ und.pc = "idle" <=> und.d = None

\* a.provider and the native providers.
ProviderTypes ==
    /\ provider \in Deploys \cup {None}
    /\ cmd \subseteq Native
    /\ once \in [Deploys -> {"new", "busy", "done"}]

\* The workload processes and their two goroutines.
ProcessTypes ==
    /\ os \in [Deploys -> {"none", "running", "interrupted", "exited"}]
    /\ runner \in [Deploys -> {"none", "sending", "done"}]
    /\ waiter \in [Deploys -> {"none", "waiting", "sending", "done"}]

\* The monitors.
MonitorTypes ==
    monitor \in [Deploys -> {"none", "select", "log started", "event started",
                             "log stopped", "event stopped", "done"}]

\* The answers to deploy messages.
AckTypes == acks \in [Deploys -> {"none", "accepted", "rejected"}]

\* The buffered channels, never above their capacity, and their dispatchers.
ChannelTypes ==
    /\ agentLogs \in 0..QueueCap
    /\ eventLogs \in Seq(Events) /\ Len(eventLogs) <= QueueCap
    /\ emitted \in [Deploys -> Seq({"started", "stopped"})]
    /\ published \subseteq Events
    /\ dispatch \in [{"events", "logs"} -> {"off", "receiving", "over"}]

\* All groups together.
TypeInv ==
    /\ MainTypes
    /\ WireTypes
    /\ HandlerTypes
    /\ ProviderTypes
    /\ ProcessTypes
    /\ MonitorTypes
    /\ AckTypes
    /\ ChannelTypes

\* The initial state has its types.
LEMMA TypeInit == Init => TypeInv
<1> SUFFICES ASSUME Init PROVE TypeInv
  OBVIOUS
<1> USE AgentAssumption DEF Init, Idle, HandlerStates
<1>1. MainTypes /\ HandlerTypes
  BY DEF MainTypes, HandlerTypes
<1>2. WireTypes /\ ProviderTypes /\ ProcessTypes /\ MonitorTypes /\ AckTypes
  BY DEF WireTypes, ProviderTypes, ProcessTypes, MonitorTypes, AckTypes, Native
<1>3. ChannelTypes
  BY DEF ChannelTypes, Events
<1> QED
  BY <1>1, <1>2, <1>3 DEF TypeInv

\* A group none of whose variables changes stays well typed.
LEMMA TypeFrame ==
    ASSUME TypeInv
    PROVE  /\ UNCHANGED mainVars => MainTypes'
           /\ UNCHANGED wireVars => WireTypes'
           /\ UNCHANGED handlerVars => HandlerTypes'
           /\ UNCHANGED provVars => ProviderTypes'
           /\ UNCHANGED procVars => ProcessTypes'
           /\ UNCHANGED monitor => MonitorTypes'
           /\ UNCHANGED acks => AckTypes'
           /\ UNCHANGED chanVars => ChannelTypes'
<1> USE DEF TypeInv
<1>1. UNCHANGED mainVars => MainTypes'
  BY DEF mainVars, MainTypes
<1>2. UNCHANGED wireVars => WireTypes'
  BY DEF wireVars, WireTypes
<1>3. UNCHANGED handlerVars => HandlerTypes'
  BY DEF handlerVars, HandlerTypes
<1>4. UNCHANGED provVars => ProviderTypes'
  BY DEF provVars, ProviderTypes
<1>5. UNCHANGED procVars => ProcessTypes'
  BY DEF procVars, ProcessTypes
<1>6. UNCHANGED monitor => MonitorTypes'
  BY DEF MonitorTypes
<1>7. UNCHANGED acks => AckTypes'
  BY DEF AckTypes
<1>8. UNCHANGED chanVars => ChannelTypes'
  BY DEF chanVars, ChannelTypes
<1> QED
  BY <1>1, <1>2, <1>3, <1>4, <1>5, <1>6, <1>7, <1>8

\* The steps of the main goroutine.
LEMMA TypeMain == TypeInv /\ Main => TypeInv'
<1> SUFFICES ASSUME TypeInv, Main PROVE TypeInv'
  OBVIOUS
<1> USE AgentAssumption DEF HandlerStates, Idle, Native, Events
<1>1. CASE AgentStarts
  <2>1. MainTypes'
    BY <1>1 DEF AgentStarts, TypeInv, MainTypes, ProviderTypes
  <2>2. ChannelTypes'
    BY <1>1 DEF AgentStarts, TypeInv, ChannelTypes
  <2> QED
    BY <1>1, <2>1, <2>2, TypeFrame DEF AgentStarts, TypeInv,
       mainVars, wireVars, handlerVars, provVars, procVars, chanVars
<1>2. CASE AgentFailsToStart
  <2>1. MainTypes'
    BY <1>2 DEF AgentFailsToStart, TypeInv, MainTypes, ProviderTypes
  <2> QED
    BY <1>2, <2>1, TypeFrame DEF AgentFailsToStart, TypeInv,
       mainVars, wireVars, handlerVars, provVars, procVars, chanVars
<1>3. CASE ShutdownBegins
  <2>1. MainTypes'
    BY <1>3 DEF ShutdownBegins, TypeInv, MainTypes, ProviderTypes
  <2> QED
    BY <1>3, <2>1, TypeFrame DEF ShutdownBegins, TypeInv,
       mainVars, wireVars, handlerVars, provVars, procVars, chanVars
<1>4. CASE ShutdownUndeploys
  <2>1. MainTypes'
    BY <1>4
    DEF ShutdownUndeploys, UndeployReturns, UndeploySignals, TypeInv, MainTypes,
        ProviderTypes
  <2>2. ProviderTypes'
    BY <1>4
    DEF ShutdownUndeploys, UndeployReturns, UndeploySignals, TypeInv,
        ProviderTypes, HandlerTypes, WireTypes, MainTypes
  <2>3. ProcessTypes'
    BY <1>4
    DEF ShutdownUndeploys, UndeployReturns, UndeploySignals, TypeInv,
        ProcessTypes, HandlerTypes, MainTypes
  <2> QED
    BY <1>4, <2>1, <2>2, <2>3, TypeFrame
    DEF ShutdownUndeploys, UndeployReturns, UndeploySignals, TypeInv,
       mainVars, wireVars, handlerVars, provVars, procVars, chanVars
<1>5. CASE ShutdownWaits
  <2>1. MainTypes'
    BY <1>5 DEF ShutdownWaits, UndeployFails, TypeInv, MainTypes, ProviderTypes
  <2>2. ProviderTypes'
    BY <1>5
    DEF ShutdownWaits, UndeployFails, TypeInv, ProviderTypes, HandlerTypes,
        WireTypes, MainTypes
  <2>3. ProcessTypes'
    BY <1>5
    DEF ShutdownWaits, UndeployFails, TypeInv, ProcessTypes, HandlerTypes,
        MainTypes
  <2> QED
    BY <1>5, <2>1, <2>2, <2>3, TypeFrame DEF ShutdownWaits, UndeployFails, TypeInv,
       mainVars, wireVars, handlerVars, provVars, procVars, chanVars
<1>6. CASE ShutdownCrashes
  <2>1. MainTypes'
    BY <1>6 DEF ShutdownCrashes, UndeployPanics, TypeInv, MainTypes, ProviderTypes
  <2>2. ProviderTypes'
    BY <1>6
    DEF ShutdownCrashes, UndeployPanics, TypeInv, ProviderTypes, HandlerTypes,
        WireTypes, MainTypes
  <2>3. ProcessTypes'
    BY <1>6
    DEF ShutdownCrashes, UndeployPanics, TypeInv, ProcessTypes, HandlerTypes,
        MainTypes
  <2> QED
    BY <1>6, <2>1, <2>2, <2>3, TypeFrame
    DEF ShutdownCrashes, UndeployPanics, TypeInv,
       mainVars, wireVars, handlerVars, provVars, procVars, chanVars
<1>7. CASE ShutdownHalts
  <2>1. MainTypes'
    BY <1>7 DEF ShutdownHalts, TypeInv, MainTypes, ProviderTypes
  <2> QED
    BY <1>7, <2>1, TypeFrame DEF ShutdownHalts, TypeInv,
       mainVars, wireVars, handlerVars, provVars, procVars, chanVars
<1> QED
  BY <1>1, <1>2, <1>3, <1>4, <1>5, <1>6, <1>7 DEF Main

\* The steps of handleDeploy.
LEMMA TypeDeployHandler == TypeInv /\ DeployHandler => TypeInv'
<1> SUFFICES ASSUME TypeInv, DeployHandler PROVE TypeInv'
  OBVIOUS
<1> USE AgentAssumption DEF HandlerStates, Idle, Native, Events
<1>1. CASE DeployRefused
  <2>1. WireTypes'
    BY <1>1 DEF DeployRefused, TypeInv, WireTypes
  <2>2. AckTypes'
    BY <1>1 DEF DeployRefused, TypeInv, AckTypes, HandlerTypes, WireTypes
  <2> QED
    BY <1>1, <2>1, <2>2, TypeFrame DEF DeployRefused, TypeInv,
       mainVars, wireVars, handlerVars, provVars, procVars, chanVars
<1>2. CASE DeployHasNoProvider
  <2>1. WireTypes'
    BY <1>2 DEF DeployHasNoProvider, TypeInv, WireTypes
  <2>2. MonitorTypes'
    BY <1>2 DEF DeployHasNoProvider, TypeInv, MonitorTypes, HandlerTypes, WireTypes
  <2>3. AckTypes'
    BY <1>2 DEF DeployHasNoProvider, TypeInv, AckTypes, HandlerTypes, WireTypes
  <2> QED
    BY <1>2, <2>1, <2>2, <2>3, TypeFrame DEF DeployHasNoProvider, TypeInv,
       mainVars, wireVars, handlerVars, provVars, procVars, chanVars
<1>3. CASE DeployInits
  <2>1. WireTypes'
    BY <1>3 DEF DeployInits, TypeInv, WireTypes
  <2>2. MonitorTypes'
    BY <1>3 DEF DeployInits, TypeInv, MonitorTypes, HandlerTypes, WireTypes
  <2>3. ProviderTypes'
    BY <1>3
    DEF DeployInits, TypeInv, ProviderTypes, HandlerTypes, WireTypes, MainTypes
  <2>4. HandlerTypes'
    BY <1>3 DEF DeployInits, TypeInv, HandlerTypes, WireTypes, ProviderTypes
  <2> QED
    BY <1>3, <2>1, <2>2, <2>3, <2>4, TypeFrame DEF DeployInits, TypeInv,
       mainVars, wireVars, handlerVars, provVars, procVars, chanVars
<1>4. CASE DeployValidates
  <2>1. HandlerTypes'
    BY <1>4 DEF DeployValidates, TypeInv, HandlerTypes, WireTypes, ProviderTypes
  <2> QED
    BY <1>4, <2>1, TypeFrame DEF DeployValidates, TypeInv,
       mainVars, wireVars, handlerVars, provVars, procVars, chanVars
<1>5. CASE DeployInvalid
  <2>1. HandlerTypes'
    BY <1>5 DEF DeployInvalid, TypeInv, HandlerTypes, WireTypes, ProviderTypes
  <2>2. AckTypes'
    BY <1>5 DEF DeployInvalid, TypeInv, AckTypes, HandlerTypes, WireTypes
  <2> QED
    BY <1>5, <2>1, <2>2, TypeFrame DEF DeployInvalid, TypeInv,
       mainVars, wireVars, handlerVars, provVars, procVars, chanVars
<1>6. CASE NativeStarts
  <2>1. ProcessTypes'
    BY <1>6 DEF NativeStarts, TypeInv, ProcessTypes, HandlerTypes, MainTypes
  <2>2. ProviderTypes'
    BY <1>6
    DEF NativeStarts, TypeInv, ProviderTypes, HandlerTypes, WireTypes, MainTypes
  <2>3. HandlerTypes'
    BY <1>6 DEF NativeStarts, TypeInv, HandlerTypes, WireTypes, ProviderTypes
  <2> QED
    BY <1>6, <2>1, <2>2, <2>3, TypeFrame DEF NativeStarts, TypeInv,
       mainVars, wireVars, handlerVars, provVars, procVars, chanVars
<1>7. CASE NativeFailsToStart
  <2>1. HandlerTypes'
    BY <1>7 DEF NativeFailsToStart, TypeInv, HandlerTypes, WireTypes, ProviderTypes
  <2> QED
    BY <1>7, <2>1, TypeFrame DEF NativeFailsToStart, TypeInv,
       mainVars, wireVars, handlerVars, provVars, procVars, chanVars
<1>8. CASE FunctionStarts
  <2>1. HandlerTypes'
    BY <1>8 DEF FunctionStarts, TypeInv, HandlerTypes, WireTypes, ProviderTypes
  <2> QED
    BY <1>8, <2>1, TypeFrame DEF FunctionStarts, TypeInv,
       mainVars, wireVars, handlerVars, provVars, procVars, chanVars
<1>9. CASE FunctionFailsToStart
  <2>1. HandlerTypes'
    BY <1>9
    DEF FunctionFailsToStart, TypeInv, HandlerTypes, WireTypes, ProviderTypes
  <2> QED
    BY <1>9, <2>1, TypeFrame DEF FunctionFailsToStart, TypeInv,
       mainVars, wireVars, handlerVars, provVars, procVars, chanVars
<1>10. CASE DeployAcks
  <2>1. AckTypes'
    BY <1>10 DEF DeployAcks, TypeInv, AckTypes, HandlerTypes, WireTypes
  <2>2. HandlerTypes'
    BY <1>10 DEF DeployAcks, TypeInv, HandlerTypes, WireTypes, ProviderTypes
  <2> QED
    BY <1>10, <2>1, <2>2, TypeFrame DEF DeployAcks, TypeInv,
       mainVars, wireVars, handlerVars, provVars, procVars, chanVars
<1> QED
  BY <1>1, <1>2, <1>3, <1>4, <1>5, <1>6, <1>7, <1>8, <1>9, <1>10 DEF DeployHandler

\* The steps of handleUndeploy.
LEMMA TypeUndeployHandler == TypeInv /\ UndeployHandler => TypeInv'
<1> SUFFICES ASSUME TypeInv, UndeployHandler PROVE TypeInv'
  OBVIOUS
<1> USE AgentAssumption DEF HandlerStates, Idle, Native, Events
<1>1. CASE UndeployDone
  <2>1. HandlerTypes'
    BY <1>1
    DEF UndeployDone, UndeployReturns, UndeploySignals, TypeInv, HandlerTypes,
        WireTypes, ProviderTypes
  <2>2. ProviderTypes'
    BY <1>1
    DEF UndeployDone, UndeployReturns, UndeploySignals, TypeInv, ProviderTypes,
        HandlerTypes, WireTypes, MainTypes
  <2>3. ProcessTypes'
    BY <1>1
    DEF UndeployDone, UndeployReturns, UndeploySignals, TypeInv, ProcessTypes,
        HandlerTypes, MainTypes
  <2> QED
    BY <1>1, <2>1, <2>2, <2>3, TypeFrame
    DEF UndeployDone, UndeployReturns, UndeploySignals, TypeInv,
       mainVars, wireVars, handlerVars, provVars, procVars, chanVars
<1>2. CASE UndeployWaits
  <2>1. HandlerTypes'
    BY <1>2
    DEF UndeployWaits, UndeployFails, TypeInv, HandlerTypes, WireTypes,
        ProviderTypes
  <2>2. ProviderTypes'
    BY <1>2
    DEF UndeployWaits, UndeployFails, TypeInv, ProviderTypes, HandlerTypes,
        WireTypes, MainTypes
  <2>3. ProcessTypes'
    BY <1>2
    DEF UndeployWaits, UndeployFails, TypeInv, ProcessTypes, HandlerTypes,
        MainTypes
  <2> QED
    BY <1>2, <2>1, <2>2, <2>3, TypeFrame DEF UndeployWaits, UndeployFails, TypeInv,
       mainVars, wireVars, handlerVars, provVars, procVars, chanVars
<1>3. CASE UndeployCrashes
  <2>1. MainTypes'
    BY <1>3 DEF UndeployCrashes, UndeployPanics, TypeInv, MainTypes, ProviderTypes
  <2>2. ProviderTypes'
    BY <1>3
    DEF UndeployCrashes, UndeployPanics, TypeInv, ProviderTypes, HandlerTypes,
        WireTypes, MainTypes
  <2>3. ProcessTypes'
    BY <1>3
    DEF UndeployCrashes, UndeployPanics, TypeInv, ProcessTypes, HandlerTypes,
        MainTypes
  <2> QED
    BY <1>3, <2>1, <2>2, <2>3, TypeFrame
    DEF UndeployCrashes, UndeployPanics, TypeInv,
       mainVars, wireVars, handlerVars, provVars, procVars, chanVars
<1> QED
  BY <1>1, <1>2, <1>3 DEF UndeployHandler

\* A send on the event channel respects its capacity.
LEMMA EmitTypes ==
    ASSUME ChannelTypes, NEW d \in Deploys, NEW e \in {"started", "stopped"},
           Emit(d, e), UNCHANGED <<agentLogs, published, dispatch>>
    PROVE  ChannelTypes'
<1>1. <<d, e>> \in Events
  BY DEF Events
<1>2. eventLogs' \in Seq(Events) /\ Len(eventLogs') <= QueueCap
  BY <1>1, AgentAssumption DEF Emit, ChannelTypes
<1>3. emitted' \in [Deploys -> Seq({"started", "stopped"})]
  BY DEF Emit, ChannelTypes
<1> QED
  BY <1>2, <1>3 DEF ChannelTypes

\* The steps of a monitor.
LEMMA TypeMonitor == \A d \in Deploys : TypeInv /\ Monitor(d) => TypeInv'
<1> SUFFICES ASSUME NEW d \in Deploys, TypeInv, Monitor(d) PROVE TypeInv'
  OBVIOUS
<1> USE AgentAssumption DEF HandlerStates, Idle, Native, Events
<1>1. CASE MonitorReceivesFail(d)
  <2>1. MainTypes'
    BY <1>1 DEF MonitorReceivesFail, TypeInv, MainTypes, ProviderTypes
  <2>2. HandlerTypes'
    <3>1. dep' \in {dep, Idle} /\ und' \in {und, Idle}
      BY <1>1 DEF MonitorReceivesFail
    <3> QED
      BY <3>1 DEF TypeInv, HandlerTypes
  <2>3. ProviderTypes'
    BY <1>1
    DEF MonitorReceivesFail, TypeInv, ProviderTypes, HandlerTypes, WireTypes,
        MainTypes
  <2>4. MonitorTypes'
    BY <1>1 DEF MonitorReceivesFail, TypeInv, MonitorTypes, HandlerTypes, WireTypes
  <2> QED
    BY <1>1, <2>1, <2>2, <2>3, <2>4, TypeFrame DEF MonitorReceivesFail, TypeInv,
       mainVars, wireVars, handlerVars, provVars, procVars, chanVars
<1>2. CASE MonitorReceivesRun(d)
  <2>1. HandlerTypes'
    <3>1. CASE UNCHANGED handlerVars
      BY <3>1, TypeFrame
    <3>2. CASE dep = [pc |-> "run", d |-> d] /\ dep' = [dep EXCEPT !.pc = "ack"]
      <4>1. dep' = [pc |-> "ack", d |-> d] /\ und' = und
        BY <3>2, <1>2 DEF MonitorReceivesRun
      <4> QED
        BY <4>1 DEF TypeInv, HandlerTypes
    <3> QED
      BY <1>2, <3>1, <3>2 DEF MonitorReceivesRun, handlerVars
  <2>2. ProcessTypes'
    BY <1>2 DEF MonitorReceivesRun, TypeInv, ProcessTypes, HandlerTypes, MainTypes
  <2>3. MonitorTypes'
    BY <1>2 DEF MonitorReceivesRun, TypeInv, MonitorTypes, HandlerTypes, WireTypes
  <2> QED
    BY <1>2, <2>1, <2>2, <2>3, TypeFrame DEF MonitorReceivesRun, TypeInv,
       mainVars, wireVars, handlerVars, provVars, procVars, chanVars
<1>3. CASE MonitorReceivesExit(d)
  <2>1. ProcessTypes'
    BY <1>3 DEF MonitorReceivesExit, TypeInv, ProcessTypes, HandlerTypes, MainTypes
  <2>2. MonitorTypes'
    BY <1>3 DEF MonitorReceivesExit, TypeInv, MonitorTypes, HandlerTypes, WireTypes
  <2> QED
    BY <1>3, <2>1, <2>2, TypeFrame DEF MonitorReceivesExit, TypeInv,
       mainVars, wireVars, handlerVars, provVars, procVars, chanVars
<1>4. CASE MonitorLogs(d)
  <2>1. ChannelTypes'
    <3>1. /\ agentLogs < QueueCap
          /\ agentLogs' = agentLogs + 1
          /\ UNCHANGED <<eventLogs, emitted, published, dispatch>>
      BY <1>4 DEF MonitorLogs
    <3> QED
      BY <3>1 DEF TypeInv, ChannelTypes
  <2>2. MonitorTypes'
    BY <1>4 DEF MonitorLogs, TypeInv, MonitorTypes, HandlerTypes, WireTypes
  <2> QED
    BY <1>4, <2>1, <2>2, TypeFrame DEF MonitorLogs, TypeInv,
       mainVars, wireVars, handlerVars, provVars, procVars, chanVars
<1>5. CASE MonitorSaysStarted(d)
  <2>1. ChannelTypes'
    <3>1. Emit(d, "started") /\ UNCHANGED <<agentLogs, published, dispatch>>
      BY <1>5 DEF MonitorSaysStarted
    <3> QED
      BY <3>1, EmitTypes DEF TypeInv
  <2>2. MonitorTypes'
    BY <1>5
    DEF MonitorSaysStarted, Emit, TypeInv, MonitorTypes, HandlerTypes, WireTypes
  <2> QED
    BY <1>5, <2>1, <2>2, TypeFrame DEF MonitorSaysStarted, Emit, TypeInv,
       mainVars, wireVars, handlerVars, provVars, procVars, chanVars
<1>6. CASE MonitorSaysStopped(d)
  <2>1. ChannelTypes'
    <3>1. Emit(d, "stopped") /\ UNCHANGED <<agentLogs, published, dispatch>>
      BY <1>6 DEF MonitorSaysStopped
    <3> QED
      BY <3>1, EmitTypes DEF TypeInv
  <2>2. MonitorTypes'
    BY <1>6
    DEF MonitorSaysStopped, Emit, TypeInv, MonitorTypes, HandlerTypes, WireTypes
  <2> QED
    BY <1>6, <2>1, <2>2, TypeFrame DEF MonitorSaysStopped, Emit, TypeInv,
       mainVars, wireVars, handlerVars, provVars, procVars, chanVars
<1> QED
  BY <1>1, <1>2, <1>3, <1>4, <1>5, <1>6 DEF Monitor

\* The steps of a workload process.
LEMMA TypeWorkload == \A d \in Deploys : TypeInv /\ Workload(d) => TypeInv'
<1> SUFFICES ASSUME NEW d \in Deploys, TypeInv, Workload(d) PROVE TypeInv'
  OBVIOUS
<1> USE AgentAssumption DEF HandlerStates, Idle, Native, Events
<1>1. CASE WorkloadExits(d)
  <2>1. ProcessTypes'
    BY <1>1 DEF WorkloadExits, TypeInv, ProcessTypes, HandlerTypes, MainTypes
  <2> QED
    BY <1>1, <2>1, TypeFrame DEF WorkloadExits, TypeInv,
       mainVars, wireVars, handlerVars, provVars, procVars, chanVars
<1>2. CASE WorkloadWrites(d)
  <2>1. ChannelTypes'
    BY <1>2 DEF WorkloadWrites, TypeInv, ChannelTypes
  <2> QED
    BY <1>2, <2>1, TypeFrame DEF WorkloadWrites, TypeInv,
       mainVars, wireVars, handlerVars, provVars, procVars, chanVars
<1> QED
  BY <1>1, <1>2 DEF Workload

\* Every step keeps the types.
LEMMA TypeNext == TypeInv /\ [Next]_vars => TypeInv'
<1> SUFFICES ASSUME TypeInv, [Next]_vars PROVE TypeInv'
  OBVIOUS
<1> USE AgentAssumption DEF HandlerStates, Idle, Native, Events
<1>1. CASE Interrupt
  <2>1. MainTypes'
    BY <1>1 DEF Interrupt, TypeInv, MainTypes, ProviderTypes
  <2> QED
    BY <1>1, <2>1, TypeFrame DEF Interrupt, TypeInv,
       mainVars, wireVars, handlerVars, provVars, procVars, chanVars
<1>2. CASE HandleUndeploy
  <2>1. WireTypes'
    BY <1>2 DEF HandleUndeploy, TypeInv, WireTypes
  <2>2. HandlerTypes'
    BY <1>2 DEF HandleUndeploy, TypeInv, HandlerTypes, WireTypes, ProviderTypes
  <2> QED
    BY <1>2, <2>1, <2>2, TypeFrame DEF HandleUndeploy, TypeInv,
       mainVars, wireVars, handlerVars, provVars, procVars, chanVars
<1>3. CASE DispatchEvents
  <2>1. ChannelTypes'
    BY <1>3 DEF DispatchEvents, Dispatched, TypeInv, ChannelTypes
  <2> QED
    BY <1>3, <2>1, TypeFrame DEF DispatchEvents, Dispatched, TypeInv,
       mainVars, wireVars, handlerVars, provVars, procVars, chanVars
<1>4. CASE DispatchLogs
  <2>1. ChannelTypes'
    BY <1>4 DEF DispatchLogs, Dispatched, TypeInv, ChannelTypes
  <2> QED
    BY <1>4, <2>1, TypeFrame DEF DispatchLogs, Dispatched, TypeInv,
       mainVars, wireVars, handlerVars, provVars, procVars, chanVars
<1>5. ASSUME NEW d \in Deploys, SendDeploy(d) PROVE TypeInv'
  <2>1. WireTypes'
    BY <1>5 DEF SendDeploy, TypeInv, WireTypes
  <2> QED
    BY <1>5, <2>1, TypeFrame DEF SendDeploy, TypeInv,
       mainVars, wireVars, handlerVars, provVars, procVars, chanVars
<1>6. ASSUME NEW d \in Deploys, WaitReturns(d) PROVE TypeInv'
  <2>1. ProcessTypes'
    BY <1>6 DEF WaitReturns, TypeInv, ProcessTypes, HandlerTypes, MainTypes
  <2> QED
    BY <1>6, <2>1, TypeFrame DEF WaitReturns, TypeInv,
       mainVars, wireVars, handlerVars, provVars, procVars, chanVars
<1>7. CASE UNCHANGED vars
  BY <1>7, TypeFrame DEF vars, TypeInv
<1> QED
  BY <1>1, <1>2, <1>3, <1>4, <1>5, <1>6, <1>7,
     TypeMain, TypeDeployHandler, TypeUndeployHandler, TypeMonitor, TypeWorkload
     DEF Next, Node

\* Every variable of the agent keeps its type and the log and event channels
\* their capacity, whatever blocks on them.
THEOREM AgentTypeCorrect == Spec => []TypeOK
<1>1. TypeInv => TypeOK
  BY DEF TypeInv, TypeOK, MainTypes, WireTypes, HandlerTypes, ProviderTypes,
         ProcessTypes, MonitorTypes, AckTypes, ChannelTypes
<1> QED
  BY <1>1, TypeInit, TypeNext, PTL DEF Spec

-----------------------------------------------------------------------------
(***************************************************************************)
(* The inductive invariant.                                                *)
(***************************************************************************)

\* A deployment without a process, without goroutines and without events.
Blank(d) ==
    /\ os[d] = "none"
    /\ runner[d] = "none"
    /\ waiter[d] = "none"
    /\ emitted[d] = <<>>

\* A deployment handleDeploy has not begun with.
Unseen(d) == monitor[d] = "none" /\ acks[d] = "none"

\* How the state of a deployment's monitor bounds what it has said, and who may
\* still make it say something.
Story(d) ==
    /\ monitor[d] = "none" => Blank(d) /\ dep.d # d
    /\ dep.d = d => acks[d] = "none"
    /\ dep.d = d /\ dep.pc # "ack" => Blank(d) /\ monitor[d] = "select"
    /\ runner[d] = "sending" =>
           /\ monitor[d] \notin {"log started", "event started"}
           /\ emitted[d] \in {<<>>, <<"stopped">>}
    /\ monitor[d] \in {"log started", "event started"} => emitted[d] = <<>>
    /\ monitor[d] \in {"select", "log stopped", "event stopped"} =>
           emitted[d] \in {<<>>, <<"started">>}
    /\ monitor[d] \in {"log stopped", "event stopped"} =>
           os[d] \in {"none", "exited"}
    /\ waiter[d] = "sending" => os[d] = "exited"
    /\ acks[d] = "rejected" => Blank(d) /\ monitor[d] \in {"none", "select"}

\* Every message is in the subscription once and handled once.
QueuedOnce ==
    /\ \A i \in DOMAIN queue : queue[i] \in sent /\ Unseen(queue[i])
    /\ \A i, j \in DOMAIN queue : queue[i] = queue[j] => i = j
    /\ \A d \in Deploys \ sent : Unseen(d)

\* Undeploy sends on Fail only for a process that has ended.
FailsAfterExit ==
    /\ und.pc = "fail" => os[und.d] = "exited"
    /\ main.pc = "fail" => os[main.d] = "exited"

\* The inductive invariant.
AgentInv ==
    /\ TypeInv
    /\ QueuedOnce
    /\ FailsAfterExit
    /\ \A d \in Deploys : Story(d)

-----------------------------------------------------------------------------
(***************************************************************************)
(* What a step that does not concern a deployment, or the queue, keeps.    *)
(***************************************************************************)

\* A deployment's story reads only that deployment and the deploy handler.
LEMMA StoryFrame ==
    ASSUME NEW d \in Deploys, Story(d),
           UNCHANGED <<monitor[d], acks[d], os[d], runner[d], waiter[d],
                       emitted[d]>>,
           dep' = dep \/ dep'.d # d
    PROVE  Story(d)'
BY DEF Story, Blank

\* The queue is in order while no deployment becomes seen.
LEMMA QueueFrame ==
    ASSUME QueuedOnce, UNCHANGED <<queue, sent>>,
           \A d \in Deploys : Unseen(d) => Unseen(d)',
           TypeInv
    PROVE  QueuedOnce'
BY DEF QueuedOnce, TypeInv, WireTypes

\* A step of the rest of the agent keeps the invariant.
LEMMA Untouched ==
    ASSUME AgentInv, TypeInv', FailsAfterExit',
           UNCHANGED <<dep, acks, monitor, os, runner, waiter, emitted,
                       queue, sent>>
    PROVE  AgentInv'
<1>1. QueuedOnce'
  BY QueueFrame DEF AgentInv, Unseen
<1>2. \A d \in Deploys : Story(d)'
  BY StoryFrame DEF AgentInv
<1> QED
  BY <1>1, <1>2 DEF AgentInv

\* The interrupt, main, the dispatchers, and the undeploy handler where it does
\* not signal a process.
LEMMA InvQuiet ==
    ASSUME AgentInv, TypeInv',
           \/ Interrupt
           \/ AgentStarts
           \/ AgentFailsToStart
           \/ ShutdownBegins
           \/ ShutdownHalts
           \/ ShutdownCrashes
           \/ UndeployCrashes
           \/ DispatchEvents
           \/ DispatchLogs
           \/ HandleUndeploy
           \/ ShutdownWaits
           \/ UndeployWaits
    PROVE  AgentInv'
<1>1. CASE Interrupt
  <2>1. UNCHANGED <<dep, acks, monitor, os, runner, waiter, emitted, queue, sent>>
    BY <1>1
    DEF Interrupt, mainVars, wireVars, handlerVars, provVars, procVars, chanVars
  <2>2. FailsAfterExit'
    BY <1>1, <2>1
    DEF Interrupt, AgentInv, FailsAfterExit, Idle, mainVars, wireVars,
        handlerVars, provVars, procVars, chanVars
  <2> QED
    BY <2>1, <2>2, Untouched
<1>2. CASE AgentStarts
  <2>1. UNCHANGED <<dep, acks, monitor, os, runner, waiter, emitted, queue, sent>>
    BY <1>2
    DEF AgentStarts, mainVars, wireVars, handlerVars, provVars, procVars,
        chanVars
  <2>2. FailsAfterExit'
    BY <1>2, <2>1
    DEF AgentStarts, AgentInv, FailsAfterExit, Idle, mainVars, wireVars,
        handlerVars, provVars, procVars, chanVars
  <2> QED
    BY <2>1, <2>2, Untouched
<1>3. CASE AgentFailsToStart
  <2>1. UNCHANGED <<dep, acks, monitor, os, runner, waiter, emitted, queue, sent>>
    BY <1>3
    DEF AgentFailsToStart, mainVars, wireVars, handlerVars, provVars, procVars,
        chanVars
  <2>2. FailsAfterExit'
    BY <1>3, <2>1
    DEF AgentFailsToStart, AgentInv, FailsAfterExit, Idle, mainVars, wireVars,
        handlerVars, provVars, procVars, chanVars
  <2> QED
    BY <2>1, <2>2, Untouched
<1>4. CASE ShutdownBegins
  <2>1. UNCHANGED <<dep, acks, monitor, os, runner, waiter, emitted, queue, sent>>
    BY <1>4
    DEF ShutdownBegins, mainVars, wireVars, handlerVars, provVars, procVars,
        chanVars
  <2>2. FailsAfterExit'
    BY <1>4, <2>1
    DEF ShutdownBegins, AgentInv, FailsAfterExit, Idle, mainVars, wireVars,
        handlerVars, provVars, procVars, chanVars
  <2> QED
    BY <2>1, <2>2, Untouched
<1>5. CASE ShutdownHalts
  <2>1. UNCHANGED <<dep, acks, monitor, os, runner, waiter, emitted, queue, sent>>
    BY <1>5
    DEF ShutdownHalts, mainVars, wireVars, handlerVars, provVars, procVars,
        chanVars
  <2>2. FailsAfterExit'
    BY <1>5, <2>1
    DEF ShutdownHalts, AgentInv, FailsAfterExit, Idle, mainVars, wireVars,
        handlerVars, provVars, procVars, chanVars
  <2> QED
    BY <2>1, <2>2, Untouched
<1>6. CASE ShutdownCrashes
  <2>1. UNCHANGED <<dep, acks, monitor, os, runner, waiter, emitted, queue, sent>>
    BY <1>6
    DEF ShutdownCrashes, UndeployPanics, mainVars, wireVars, handlerVars,
        provVars, procVars, chanVars
  <2>2. FailsAfterExit'
    BY <1>6, <2>1
    DEF ShutdownCrashes, UndeployPanics, AgentInv, FailsAfterExit, Idle,
        mainVars, wireVars, handlerVars, provVars, procVars, chanVars
  <2> QED
    BY <2>1, <2>2, Untouched
<1>7. CASE UndeployCrashes
  <2>1. UNCHANGED <<dep, acks, monitor, os, runner, waiter, emitted, queue, sent>>
    BY <1>7
    DEF UndeployCrashes, UndeployPanics, mainVars, wireVars, handlerVars,
        provVars, procVars, chanVars
  <2>2. FailsAfterExit'
    BY <1>7, <2>1
    DEF UndeployCrashes, UndeployPanics, AgentInv, FailsAfterExit, Idle,
        mainVars, wireVars, handlerVars, provVars, procVars, chanVars
  <2> QED
    BY <2>1, <2>2, Untouched
<1>8. CASE DispatchEvents
  <2>1. UNCHANGED <<dep, acks, monitor, os, runner, waiter, emitted, queue, sent>>
    BY <1>8
    DEF DispatchEvents, Dispatched, mainVars, wireVars, handlerVars, provVars,
        procVars, chanVars
  <2>2. FailsAfterExit'
    BY <1>8, <2>1
    DEF DispatchEvents, Dispatched, AgentInv, FailsAfterExit, Idle, mainVars,
        wireVars, handlerVars, provVars, procVars, chanVars
  <2> QED
    BY <2>1, <2>2, Untouched
<1>9. CASE DispatchLogs
  <2>1. UNCHANGED <<dep, acks, monitor, os, runner, waiter, emitted, queue, sent>>
    BY <1>9
    DEF DispatchLogs, Dispatched, mainVars, wireVars, handlerVars, provVars,
        procVars, chanVars
  <2>2. FailsAfterExit'
    BY <1>9, <2>1
    DEF DispatchLogs, Dispatched, AgentInv, FailsAfterExit, Idle, mainVars,
        wireVars, handlerVars, provVars, procVars, chanVars
  <2> QED
    BY <2>1, <2>2, Untouched
<1>10. CASE HandleUndeploy
  <2>1. UNCHANGED <<dep, acks, monitor, os, runner, waiter, emitted, queue, sent>>
    BY <1>10
    DEF HandleUndeploy, mainVars, wireVars, handlerVars, provVars, procVars,
        chanVars
  <2>2. FailsAfterExit'
    BY <1>10, <2>1
    DEF HandleUndeploy, AgentInv, FailsAfterExit, Idle, mainVars, wireVars,
        handlerVars, provVars, procVars, chanVars
  <2> QED
    BY <2>1, <2>2, Untouched
<1>11. CASE ShutdownWaits
  <2>1. UNCHANGED <<dep, acks, monitor, os, runner, waiter, emitted, queue, sent>>
    BY <1>11
    DEF ShutdownWaits, UndeployFails, mainVars, wireVars, handlerVars, provVars,
        procVars, chanVars
  <2>2. FailsAfterExit'
    BY <1>11, <2>1
    DEF ShutdownWaits, UndeployFails, AgentInv, FailsAfterExit, Idle, mainVars,
        wireVars, handlerVars, provVars, procVars, chanVars
  <2> QED
    BY <2>1, <2>2, Untouched
<1>12. CASE UndeployWaits
  <2>1. UNCHANGED <<dep, acks, monitor, os, runner, waiter, emitted, queue, sent>>
    BY <1>12
    DEF UndeployWaits, UndeployFails, mainVars, wireVars, handlerVars, provVars,
        procVars, chanVars
  <2>2. FailsAfterExit'
    BY <1>12, <2>1
    DEF UndeployWaits, UndeployFails, AgentInv, FailsAfterExit, Idle, mainVars,
        wireVars, handlerVars, provVars, procVars, chanVars
  <2> QED
    BY <2>1, <2>2, Untouched
<1> QED
  BY <1>1, <1>2, <1>3, <1>4, <1>5, <1>6, <1>7, <1>8, <1>9, <1>10, <1>11, <1>12

\* Appending to a sequence of one element.
LEMMA AppendToOne ==
    ASSUME NEW S, NEW s \in Seq(S), NEW e \in S, Len(s) = 1
    PROVE  Append(s, e) = <<s[1], e>>
<1>1. /\ Append(s, e) \in Seq(S)
      /\ Append(s, e) # <<>>
      /\ Len(Append(s, e)) = Len(s) + 1
      /\ \A i \in 1 .. Len(s) : Append(s, e)[i] = s[i]
      /\ Append(s, e)[Len(s) + 1] = e
  BY AppendProperties, Zenon
<1> DEFINE t == Append(s, e)
<1> HIDE DEF t
<1>2. t \in Seq(S) /\ Len(t) = 2 /\ t[1] = s[1] /\ t[2] = e
  BY <1>1 DEF t
<1>3. t = <<s[1], e>>
  BY <1>2
<1> QED
  BY <1>3 DEF t

\* The events of a deployment, as sequences.
LEMMA Sayings ==
    /\ Append(<<>>, "started") = <<"started">>
    /\ Append(<<>>, "stopped") = <<"stopped">>
    /\ Append(<<"started">>, "stopped") = <<"started", "stopped">>
    /\ <<"started">> # <<>> /\ <<"stopped">> # <<>> /\ <<"started">> # <<"stopped">>
<1>1. <<"started">> # <<>> /\ <<"stopped">> # <<>>
  OBVIOUS
<1>2. <<"started">> # <<"stopped">>
  <2>1. <<"started">>[1] = "started" /\ <<"stopped">>[1] = "stopped"
    OBVIOUS
  <2> QED
    BY <2>1
<1>3. /\ Append(<<>>, "started") = <<"started">>
      /\ Append(<<>>, "stopped") = <<"stopped">>
  OBVIOUS
<1>4. Append(<<"started">>, "stopped") = <<"started", "stopped">>
  <2> DEFINE S == {"started", "stopped"}
             s == <<"started">>
  <2>1. "stopped" \in S /\ s \in Seq(S) /\ Len(s) = 1 /\ s[1] = "started"
    OBVIOUS
  <2> HIDE DEF S, s
  <2>2. Append(s, "stopped") = <<s[1], "stopped">>
    BY <2>1, AppendToOne
  <2> QED BY <2>1, <2>2 DEF s
<1> QED
  BY <1>1, <1>2, <1>3, <1>4

\* The oldest message is unseen and is not in the queue a second time.
LEMMA OldestUnseen ==
    ASSUME AgentInv, queue # <<>>, queue' = Tail(queue), sent' = sent,
           \A d \in Deploys \ {Head(queue)} : Unseen(d) => Unseen(d)'
    PROVE  /\ Head(queue) \in Deploys /\ Unseen(Head(queue))
           /\ QueuedOnce'
<1>1. queue \in Seq(Deploys) /\ sent \subseteq Deploys /\ QueuedOnce
  BY DEF AgentInv, TypeInv, WireTypes
<1>2. 1 \in DOMAIN queue /\ Head(queue) = queue[1] /\ queue[1] \in Deploys
  BY <1>1
<1>3. Head(queue) \in sent /\ Unseen(Head(queue))
  BY <1>1, <1>2 DEF QueuedOnce
<1>4. /\ Len(Tail(queue)) = Len(queue) - 1
      /\ DOMAIN Tail(queue) = 1 .. Len(queue) - 1
      /\ \A i \in DOMAIN Tail(queue) :
             /\ i \in Nat /\ i + 1 # 1
             /\ i + 1 \in DOMAIN queue /\ Tail(queue)[i] = queue[i + 1]
  BY <1>1, <1>2
<1>5. \A i \in DOMAIN queue' : queue'[i] \in sent' /\ Unseen(queue[i])'
  <2> SUFFICES ASSUME NEW i \in DOMAIN Tail(queue)
               PROVE  Tail(queue)[i] \in sent /\ Unseen(queue[i])'
    OBVIOUS
  <2>1. PICK e \in Deploys : e = queue[i + 1]
    BY <1>1, <1>4
  <2>2. e # Head(queue)
    BY <1>1, <1>2, <1>4, <2>1 DEF QueuedOnce
  <2>3. e \in sent /\ Unseen(e)
    BY <1>1, <1>4, <2>1 DEF QueuedOnce
  <2>4. Unseen(e)'
    BY <2>2, <2>3
  <2> QED
    BY <1>4, <2>1, <2>3, <2>4 DEF Unseen
<1>6. \A i, j \in DOMAIN queue' : queue'[i] = queue'[j] => i = j
  <2> SUFFICES ASSUME NEW i \in DOMAIN Tail(queue), NEW j \in DOMAIN Tail(queue),
                      Tail(queue)[i] = Tail(queue)[j]
               PROVE  i = j
    OBVIOUS
  <2>1. i + 1 = j + 1
    BY <1>1, <1>4 DEF QueuedOnce
  <2> QED
    BY <1>4, <2>1
<1>7. \A d \in Deploys \ sent' : Unseen(d)'
  BY <1>1, <1>3 DEF QueuedOnce
<1> QED
  BY <1>2, <1>3, <1>5, <1>6, <1>7 DEF QueuedOnce

-----------------------------------------------------------------------------
(***************************************************************************)
(* The deploy handler and the node, one step per action.                   *)
(***************************************************************************)

\* The steps of handleDeploy keep the invariant.
LEMMA InvDeploy ==
    ASSUME AgentInv, TypeInv', DeployHandler
    PROVE  AgentInv'
<1> USE AgentAssumption
<1>0. /\ TypeInv /\ QueuedOnce /\ FailsAfterExit
      /\ \A d \in Deploys : Story(d)
      /\ \A d \in Deploys : d # None
  BY DEF AgentInv
<1>1. CASE DeployRefused
  <2>0. PICK h \in Deploys : h = Head(queue)
    BY <1>1, <1>0 DEF DeployRefused, TypeInv, WireTypes
  <2>1. /\ queue # <<>> /\ queue' = Tail(queue) /\ sent' = sent /\ dep = Idle
        /\ UNCHANGED <<main, und, os, runner, waiter, emitted>>
        /\ monitor' = monitor
        /\ acks' = [acks EXCEPT ![h] = "rejected"]
        /\ dep' = dep
    BY <1>1, <2>0
    DEF DeployRefused, mainVars, wireVars, handlerVars, provVars, procVars,
        chanVars
  <2>2. DOMAIN monitor = Deploys /\ DOMAIN acks = Deploys
    BY <1>0 DEF TypeInv, MonitorTypes, AckTypes
  <2>3. \A d \in Deploys \ {h} : monitor'[d] = monitor[d] /\ acks'[d] = acks[d]
    BY <2>1, <2>2
  <2>4. h \in Deploys /\ Unseen(h) /\ QueuedOnce'
    BY <2>0, <2>1, <2>3, OldestUnseen DEF Unseen
  <2>5. FailsAfterExit'
    BY <1>0, <2>1 DEF FailsAfterExit
  <2>6. Story(h)'
    <3>1. Blank(h) /\ Blank(h)'
      BY <1>0, <2>1, <2>4 DEF Story, Blank, Unseen
    <3>2. monitor'[h] = "none" /\ acks'[h] = "rejected"
      BY <2>1, <2>2, <2>4 DEF Unseen
    <3>3. dep'.d # h
      BY <1>0, <2>1, <2>4 DEF Idle
    <3> QED
      BY <3>1, <3>2, <3>3, Sayings DEF Story, Blank
  <2>7. \A d \in Deploys \ {h} : Story(d)'
    BY <1>0, <2>0, <2>1, <2>3, StoryFrame
  <2> QED
    BY <1>0, <2>4, <2>5, <2>6, <2>7 DEF AgentInv
<1>2. CASE DeployHasNoProvider
  <2>0. PICK h \in Deploys : h = Head(queue)
    BY <1>2, <1>0 DEF DeployHasNoProvider, TypeInv, WireTypes
  <2>1. /\ queue # <<>> /\ queue' = Tail(queue) /\ sent' = sent /\ dep = Idle
        /\ UNCHANGED <<main, und, os, runner, waiter, emitted>>
        /\ monitor' = [monitor EXCEPT ![h] = "select"]
        /\ acks' = [acks EXCEPT ![h] = "rejected"]
        /\ dep' = dep
    BY <1>2, <2>0
    DEF DeployHasNoProvider, mainVars, wireVars, handlerVars, provVars,
        procVars, chanVars
  <2>2. DOMAIN monitor = Deploys /\ DOMAIN acks = Deploys
    BY <1>0 DEF TypeInv, MonitorTypes, AckTypes
  <2>3. \A d \in Deploys \ {h} : monitor'[d] = monitor[d] /\ acks'[d] = acks[d]
    BY <2>1, <2>2
  <2>4. h \in Deploys /\ Unseen(h) /\ QueuedOnce'
    BY <2>0, <2>1, <2>3, OldestUnseen DEF Unseen
  <2>5. FailsAfterExit'
    BY <1>0, <2>1 DEF FailsAfterExit
  <2>6. Story(h)'
    <3>1. Blank(h) /\ Blank(h)'
      BY <1>0, <2>1, <2>4 DEF Story, Blank, Unseen
    <3>2. monitor'[h] = "select" /\ acks'[h] = "rejected"
      BY <2>1, <2>2, <2>4 DEF Unseen
    <3>3. dep'.d # h
      BY <1>0, <2>1, <2>4 DEF Idle
    <3> QED
      BY <3>1, <3>2, <3>3, Sayings DEF Story, Blank
  <2>7. \A d \in Deploys \ {h} : Story(d)'
    BY <1>0, <2>0, <2>1, <2>3, StoryFrame
  <2> QED
    BY <1>0, <2>4, <2>5, <2>6, <2>7 DEF AgentInv
<1>3. CASE DeployInits
  <2>0. PICK h \in Deploys : h = Head(queue)
    BY <1>3, <1>0 DEF DeployInits, TypeInv, WireTypes
  <2>1. /\ queue # <<>> /\ queue' = Tail(queue) /\ sent' = sent /\ dep = Idle
        /\ UNCHANGED <<main, und, os, runner, waiter, emitted>>
        /\ monitor' = [monitor EXCEPT ![h] = "select"]
        /\ acks' = acks
        /\ dep'.d = h /\ dep'.pc # "ack"
    BY <1>3, <2>0
    DEF DeployInits, mainVars, wireVars, handlerVars, provVars, procVars,
        chanVars
  <2>2. DOMAIN monitor = Deploys /\ DOMAIN acks = Deploys
    BY <1>0 DEF TypeInv, MonitorTypes, AckTypes
  <2>3. \A d \in Deploys \ {h} : monitor'[d] = monitor[d] /\ acks'[d] = acks[d]
    BY <2>1, <2>2
  <2>4. h \in Deploys /\ Unseen(h) /\ QueuedOnce'
    BY <2>0, <2>1, <2>3, OldestUnseen DEF Unseen
  <2>5. FailsAfterExit'
    BY <1>0, <2>1 DEF FailsAfterExit
  <2>6. Story(h)'
    <3>1. Blank(h) /\ Blank(h)'
      BY <1>0, <2>1, <2>4 DEF Story, Blank, Unseen
    <3>2. monitor'[h] = "select" /\ acks'[h] = "none"
      BY <2>1, <2>2, <2>4 DEF Unseen
    <3>3. dep'.d = h /\ dep'.pc # "ack"
      BY <1>0, <2>1, <2>4 DEF Idle
    <3> QED
      BY <3>1, <3>2, <3>3, Sayings DEF Story, Blank
  <2>7. \A d \in Deploys \ {h} : Story(d)'
    BY <1>0, <2>0, <2>1, <2>3, StoryFrame
  <2> QED
    BY <1>0, <2>4, <2>5, <2>6, <2>7 DEF AgentInv
<1>4. CASE DeployValidates
  <2>0. PICK h \in Deploys : h = dep.d
    BY <1>4, <1>0 DEF DeployValidates, TypeInv, HandlerTypes, HandlerStates
  <2>1. /\ dep.pc = "validate" /\ UNCHANGED <<main, und, monitor, emitted, queue,
                                              sent, acks, os, runner, waiter>>
        /\ dep' = [dep EXCEPT !.pc = "start"]
    BY <1>4, <2>0
    DEF DeployValidates, mainVars, wireVars, handlerVars, provVars, procVars,
        chanVars
  <2>2. dep \in [pc : {"idle", "validate", "start", "fail", "run", "ack"},
                 d : Deploys \cup {None}]
    BY <1>0, <2>0, <2>1 DEF TypeInv, HandlerTypes, HandlerStates
  <2>3. /\ dep'.d = h /\ dep'.pc = "start"
    BY <1>0, <2>0, <2>1, <2>2 DEF Idle, TypeInv, AckTypes, ProcessTypes
  <2>4. Story(h) /\ monitor[h] # "none"
    BY <1>0, <2>0, <2>1, <2>2 DEF Story
  <2>5. QueuedOnce'
    BY <1>0, <2>1, <2>3, <2>4, QueueFrame DEF Unseen
  <2>6. FailsAfterExit'
    BY <1>0, <2>1 DEF FailsAfterExit
  <2>7. Story(h)'
    BY <1>0, <2>0, <2>1, <2>2, <2>3, <2>4, Sayings DEF Story, Blank
  <2>8. \A d \in Deploys \ {h} : Story(d)'
    BY <1>0, <2>0, <2>1, <2>3, StoryFrame
  <2> QED
    BY <1>0, <2>2, <2>5, <2>6, <2>7, <2>8 DEF AgentInv
<1>5. CASE DeployInvalid
  <2>0. PICK h \in Deploys : h = dep.d
    BY <1>5, <1>0 DEF DeployInvalid, TypeInv, HandlerTypes, HandlerStates
  <2>1. /\ dep.pc = "validate" /\ UNCHANGED <<main, und, monitor, emitted, queue,
                                              sent, os, runner, waiter>>
        /\ dep' = Idle
        /\ acks' = [acks EXCEPT ![h] = "rejected"]
    BY <1>5, <2>0
    DEF DeployInvalid, mainVars, wireVars, handlerVars, provVars, procVars,
        chanVars
  <2>2. dep \in [pc : {"idle", "validate", "start", "fail", "run", "ack"},
                 d : Deploys \cup {None}]
    BY <1>0, <2>0, <2>1 DEF TypeInv, HandlerTypes, HandlerStates
  <2>3. /\ dep'.d = None
        /\ acks'[h] = "rejected" /\ \A d \in Deploys \ {h} : acks'[d] = acks[d]
    BY <1>0, <2>0, <2>1, <2>2 DEF Idle, TypeInv, AckTypes, ProcessTypes
  <2>4. Story(h) /\ monitor[h] # "none"
    BY <1>0, <2>0, <2>1, <2>2 DEF Story
  <2>5. QueuedOnce'
    BY <1>0, <2>1, <2>3, <2>4, QueueFrame DEF Unseen
  <2>6. FailsAfterExit'
    BY <1>0, <2>1 DEF FailsAfterExit
  <2>7. Story(h)'
    BY <1>0, <2>0, <2>1, <2>2, <2>3, <2>4, Sayings DEF Story, Blank
  <2>8. \A d \in Deploys \ {h} : Story(d)'
    BY <1>0, <2>0, <2>1, <2>3, StoryFrame
  <2> QED
    BY <1>0, <2>2, <2>5, <2>6, <2>7, <2>8 DEF AgentInv
<1>6. CASE NativeStarts
  <2>0. PICK h \in Deploys : h = dep.d
    BY <1>6, <1>0 DEF NativeStarts, TypeInv, HandlerTypes, HandlerStates
  <2>1. /\ dep.pc = "start" /\ UNCHANGED <<main, und, monitor, emitted, queue,
                                           sent, acks>>
        /\ dep' = [dep EXCEPT !.pc = "ack"]
        /\ os' = [os EXCEPT ![h] = "running"]
        /\ runner' = [runner EXCEPT ![h] = "sending"]
        /\ waiter' = [waiter EXCEPT ![h] = "waiting"]
    BY <1>6, <2>0
    DEF NativeStarts, mainVars, wireVars, handlerVars, provVars, procVars,
        chanVars
  <2>2. dep \in [pc : {"idle", "validate", "start", "fail", "run", "ack"},
                 d : Deploys \cup {None}]
    BY <1>0, <2>0, <2>1 DEF TypeInv, HandlerTypes, HandlerStates
  <2>3. /\ dep'.d = h /\ dep'.pc = "ack"
        /\ os'[h] = "running" /\ runner'[h] = "sending" /\ waiter'[h] = "waiting"
        /\ \A d \in Deploys \ {h} : UNCHANGED <<os[d], runner[d], waiter[d]>>
    BY <1>0, <2>0, <2>1, <2>2 DEF Idle, TypeInv, AckTypes, ProcessTypes
  <2>4. Story(h) /\ monitor[h] # "none"
    BY <1>0, <2>0, <2>1, <2>2 DEF Story
  <2>5. QueuedOnce'
    BY <1>0, <2>1, <2>3, <2>4, QueueFrame DEF Unseen
  <2>6. FailsAfterExit'
    <3>1. os[h] = "none"
      BY <2>0, <2>1, <2>4 DEF Story, Blank
    <3>2. und.pc = "fail" => und.d \in Deploys
      BY <1>0 DEF TypeInv, HandlerTypes, HandlerStates
    <3>3. main.pc = "fail" => main.d \in Deploys
      BY <1>0 DEF TypeInv, MainTypes, HandlerStates
    <3>4. und' = und /\ main' = main
      BY <2>1
    <3> QED
      BY <1>0, <2>3, <3>1, <3>2, <3>3, <3>4 DEF FailsAfterExit
  <2>7. Story(h)'
    BY <1>0, <2>0, <2>1, <2>2, <2>3, <2>4, Sayings DEF Story, Blank
  <2>8. \A d \in Deploys \ {h} : Story(d)'
    BY <1>0, <2>0, <2>1, <2>3, StoryFrame
  <2> QED
    BY <1>0, <2>2, <2>5, <2>6, <2>7, <2>8 DEF AgentInv
<1>7. CASE NativeFailsToStart
  <2>0. PICK h \in Deploys : h = dep.d
    BY <1>7, <1>0 DEF NativeFailsToStart, TypeInv, HandlerTypes, HandlerStates
  <2>1. /\ dep.pc = "start" /\ UNCHANGED <<main, und, monitor, emitted, queue,
                                           sent, acks, os, runner, waiter>>
        /\ dep' = [dep EXCEPT !.pc = "fail"]
    BY <1>7, <2>0
    DEF NativeFailsToStart, mainVars, wireVars, handlerVars, provVars, procVars,
        chanVars
  <2>2. dep \in [pc : {"idle", "validate", "start", "fail", "run", "ack"},
                 d : Deploys \cup {None}]
    BY <1>0, <2>0, <2>1 DEF TypeInv, HandlerTypes, HandlerStates
  <2>3. /\ dep'.d = h /\ dep'.pc = "fail"
    BY <1>0, <2>0, <2>1, <2>2 DEF Idle, TypeInv, AckTypes, ProcessTypes
  <2>4. Story(h) /\ monitor[h] # "none"
    BY <1>0, <2>0, <2>1, <2>2 DEF Story
  <2>5. QueuedOnce'
    BY <1>0, <2>1, <2>3, <2>4, QueueFrame DEF Unseen
  <2>6. FailsAfterExit'
    BY <1>0, <2>1 DEF FailsAfterExit
  <2>7. Story(h)'
    BY <1>0, <2>0, <2>1, <2>2, <2>3, <2>4, Sayings DEF Story, Blank
  <2>8. \A d \in Deploys \ {h} : Story(d)'
    BY <1>0, <2>0, <2>1, <2>3, StoryFrame
  <2> QED
    BY <1>0, <2>2, <2>5, <2>6, <2>7, <2>8 DEF AgentInv
<1>8. CASE FunctionStarts
  <2>0. PICK h \in Deploys : h = dep.d
    BY <1>8, <1>0 DEF FunctionStarts, TypeInv, HandlerTypes, HandlerStates
  <2>1. /\ dep.pc = "start" /\ UNCHANGED <<main, und, monitor, emitted, queue,
                                           sent, acks, os, runner, waiter>>
        /\ dep' = [dep EXCEPT !.pc = "run"]
    BY <1>8, <2>0
    DEF FunctionStarts, mainVars, wireVars, handlerVars, provVars, procVars,
        chanVars
  <2>2. dep \in [pc : {"idle", "validate", "start", "fail", "run", "ack"},
                 d : Deploys \cup {None}]
    BY <1>0, <2>0, <2>1 DEF TypeInv, HandlerTypes, HandlerStates
  <2>3. /\ dep'.d = h /\ dep'.pc = "run"
    BY <1>0, <2>0, <2>1, <2>2 DEF Idle, TypeInv, AckTypes, ProcessTypes
  <2>4. Story(h) /\ monitor[h] # "none"
    BY <1>0, <2>0, <2>1, <2>2 DEF Story
  <2>5. QueuedOnce'
    BY <1>0, <2>1, <2>3, <2>4, QueueFrame DEF Unseen
  <2>6. FailsAfterExit'
    BY <1>0, <2>1 DEF FailsAfterExit
  <2>7. Story(h)'
    BY <1>0, <2>0, <2>1, <2>2, <2>3, <2>4, Sayings DEF Story, Blank
  <2>8. \A d \in Deploys \ {h} : Story(d)'
    BY <1>0, <2>0, <2>1, <2>3, StoryFrame
  <2> QED
    BY <1>0, <2>2, <2>5, <2>6, <2>7, <2>8 DEF AgentInv
<1>9. CASE FunctionFailsToStart
  <2>0. PICK h \in Deploys : h = dep.d
    BY <1>9, <1>0 DEF FunctionFailsToStart, TypeInv, HandlerTypes, HandlerStates
  <2>1. /\ dep.pc = "start" /\ UNCHANGED <<main, und, monitor, emitted, queue,
                                           sent, acks, os, runner, waiter>>
        /\ dep' = Idle
    BY <1>9, <2>0
    DEF FunctionFailsToStart, mainVars, wireVars, handlerVars, provVars,
        procVars, chanVars
  <2>2. dep \in [pc : {"idle", "validate", "start", "fail", "run", "ack"},
                 d : Deploys \cup {None}]
    BY <1>0, <2>0, <2>1 DEF TypeInv, HandlerTypes, HandlerStates
  <2>3. /\ dep'.d = None
    BY <1>0, <2>0, <2>1, <2>2 DEF Idle, TypeInv, AckTypes, ProcessTypes
  <2>4. Story(h) /\ monitor[h] # "none"
    BY <1>0, <2>0, <2>1, <2>2 DEF Story
  <2>5. QueuedOnce'
    BY <1>0, <2>1, <2>3, <2>4, QueueFrame DEF Unseen
  <2>6. FailsAfterExit'
    BY <1>0, <2>1 DEF FailsAfterExit
  <2>7. Story(h)'
    BY <1>0, <2>0, <2>1, <2>2, <2>3, <2>4, Sayings DEF Story, Blank
  <2>8. \A d \in Deploys \ {h} : Story(d)'
    BY <1>0, <2>0, <2>1, <2>3, StoryFrame
  <2> QED
    BY <1>0, <2>2, <2>5, <2>6, <2>7, <2>8 DEF AgentInv
<1>10. CASE DeployAcks
  <2>0. PICK h \in Deploys : h = dep.d
    BY <1>10, <1>0 DEF DeployAcks, TypeInv, HandlerTypes, HandlerStates
  <2>1. /\ dep.pc = "ack" /\ UNCHANGED <<main, und, monitor, emitted, queue, sent,
                                         os, runner, waiter>>
        /\ dep' = Idle
        /\ acks' = [acks EXCEPT ![h] = "accepted"]
    BY <1>10, <2>0
    DEF DeployAcks, mainVars, wireVars, handlerVars, provVars, procVars,
        chanVars
  <2>2. dep \in [pc : {"idle", "validate", "start", "fail", "run", "ack"},
                 d : Deploys \cup {None}]
    BY <1>0, <2>0, <2>1 DEF TypeInv, HandlerTypes, HandlerStates
  <2>3. /\ dep'.d = None
        /\ acks'[h] = "accepted" /\ \A d \in Deploys \ {h} : acks'[d] = acks[d]
    BY <1>0, <2>0, <2>1, <2>2 DEF Idle, TypeInv, AckTypes, ProcessTypes
  <2>4. Story(h) /\ monitor[h] # "none"
    BY <1>0, <2>0, <2>1, <2>2 DEF Story
  <2>5. QueuedOnce'
    BY <1>0, <2>1, <2>3, <2>4, QueueFrame DEF Unseen
  <2>6. FailsAfterExit'
    BY <1>0, <2>1 DEF FailsAfterExit
  <2>7. Story(h)'
    BY <1>0, <2>0, <2>1, <2>2, <2>3, <2>4, Sayings DEF Story, Blank
  <2>8. \A d \in Deploys \ {h} : Story(d)'
    BY <1>0, <2>0, <2>1, <2>3, StoryFrame
  <2> QED
    BY <1>0, <2>2, <2>5, <2>6, <2>7, <2>8 DEF AgentInv
<1> QED
  BY <1>1, <1>2, <1>3, <1>4, <1>5, <1>6, <1>7, <1>8, <1>9, <1>10 DEF DeployHandler

\* A new message is queued behind the others and has not been seen.
LEMMA InvSend ==
    ASSUME AgentInv, TypeInv', NEW m \in Deploys, SendDeploy(m)
    PROVE  AgentInv'
<1>1. /\ m \notin sent /\ sent' = sent \cup {m} /\ queue' = Append(queue, m)
      /\ UNCHANGED <<main, und, dep, acks, monitor, os, runner, waiter, emitted>>
  BY DEF SendDeploy, mainVars, wireVars, handlerVars, provVars, procVars, chanVars
<1>2. /\ queue \in Seq(Deploys) /\ QueuedOnce /\ FailsAfterExit
      /\ \A d \in Deploys : Story(d)
  BY DEF AgentInv, TypeInv, WireTypes
<1>3. FailsAfterExit' /\ \A d \in Deploys : Unseen(d) => Unseen(d)'
  BY <1>1, <1>2 DEF FailsAfterExit, Unseen
<1>4. \A d \in Deploys : Story(d)'
  BY <1>1, <1>2, StoryFrame
<1>5. Unseen(m)
  BY <1>1, <1>2 DEF QueuedOnce
<1>6. /\ DOMAIN queue' = 1 .. Len(queue) + 1
      /\ DOMAIN queue = 1 .. Len(queue)
      /\ Len(queue) \in Nat
      /\ queue'[Len(queue) + 1] = m
      /\ \A i \in DOMAIN queue : queue'[i] = queue[i] /\ queue[i] \in Deploys
  BY <1>1, <1>2
<1>7. \A i \in DOMAIN queue' : i \in DOMAIN queue \/ i = Len(queue) + 1
  BY <1>6
<1>8. \A i \in DOMAIN queue' : queue'[i] \in sent' /\ Unseen(queue[i])'
  <2> SUFFICES ASSUME NEW i \in DOMAIN queue'
               PROVE  queue'[i] \in sent' /\ Unseen(queue[i])'
    OBVIOUS
  <2>1. PICK e \in Deploys : e = queue'[i]
    BY <1>6, <1>7
  <2>2. e \in sent' /\ Unseen(e)
    BY <1>1, <1>2, <1>5, <1>6, <1>7, <2>1 DEF QueuedOnce
  <2>3. Unseen(e)'
    BY <1>3, <2>2
  <2> QED
    BY <2>1, <2>2, <2>3 DEF Unseen
<1>9. \A i, j \in DOMAIN queue' : queue'[i] = queue'[j] => i = j
  <2>1. \A i \in DOMAIN queue : queue'[i] # m
    BY <1>1, <1>2, <1>6 DEF QueuedOnce
  <2> QED
    BY <1>2, <1>6, <1>7, <2>1 DEF QueuedOnce
<1>10. \A d \in Deploys \ sent' : Unseen(d)'
  BY <1>1, <1>2, <1>3 DEF QueuedOnce
<1> QED
  BY <1>3, <1>4, <1>8, <1>9, <1>10 DEF AgentInv, QueuedOnce

\* Undeploy without a send on Fail: at most it interrupts a live process.
LEMMA InvUndeploy ==
    ASSUME AgentInv, TypeInv', UndeployDone \/ ShutdownUndeploys
    PROVE  AgentInv'
<1> USE AgentAssumption
<1>1. PICK u \in Deploys :
        /\ UndeployReturns(u) \/ UndeploySignals(u)
        /\ UNCHANGED <<dep, acks, monitor, runner, waiter, emitted, queue, sent>>
        /\ und' \in {und, Idle}
        /\ main' = main \/ main'.pc = "drain"
  <2>1. CASE UndeployDone
    <3>1. und.d \in Deploys
      BY <2>1 DEF UndeployDone, AgentInv, TypeInv, HandlerTypes, HandlerStates
    <3> QED
      BY <2>1, <3>1 DEF UndeployDone, mainVars, wireVars, handlerVars, chanVars
  <2>2. CASE ShutdownUndeploys
    <3>1. main.d \in Deploys /\ main'.pc = "drain"
      BY <2>2 DEF ShutdownUndeploys, AgentInv, TypeInv, MainTypes, HandlerStates
    <3> QED
      BY <2>2, <3>1 DEF ShutdownUndeploys, mainVars, wireVars, handlerVars, chanVars
  <2> QED
    BY <2>1, <2>2
<1>2. /\ QueuedOnce /\ FailsAfterExit /\ TypeInv
      /\ \A d \in Deploys : Story(d)
      /\ os \in [Deploys -> {"none", "running", "interrupted", "exited"}]
      /\ und.pc = "fail" => und.d \in Deploys
      /\ main.pc = "fail" => main.d \in Deploys
  BY DEF AgentInv, TypeInv, ProcessTypes, HandlerTypes, MainTypes, HandlerStates
<1>3. \/ os' = os
      \/ /\ os[u] \in {"running", "interrupted"} /\ os'[u] = "interrupted"
         /\ \A d \in Deploys \ {u} : os'[d] = os[d]
  BY <1>1, <1>2 DEF UndeployReturns, UndeploySignals
<1>4. QueuedOnce'
  BY <1>1, <1>2, QueueFrame DEF Unseen
<1>5. FailsAfterExit'
  <2>1. \A d \in Deploys : os[d] = "exited" => os'[d] = "exited"
    BY <1>3
  <2>2. und'.pc = "fail" => und' = und /\ und.pc = "fail"
    BY <1>1 DEF Idle
  <2>3. main'.pc = "fail" => main' = main /\ main.pc = "fail"
    BY <1>1
  <2> QED
    BY <1>2, <2>1, <2>2, <2>3 DEF FailsAfterExit
<1>6. ASSUME NEW d \in Deploys PROVE Story(d)'
  <2>1. CASE os'[d] = os[d]
    BY <1>1, <1>2, <2>1, StoryFrame
  <2>2. CASE os'[d] # os[d]
    <3>1. os[d] \in {"running", "interrupted"} /\ os'[d] = "interrupted"
      BY <1>3, <2>2
    <3>2. /\ ~Blank(d) /\ waiter[d] # "sending"
          /\ monitor[d] \notin {"log stopped", "event stopped"}
      BY <1>2, <3>1 DEF Blank, Story
    <3> QED
      BY <1>1, <1>2, <3>2 DEF Story
  <2> QED
    BY <2>1, <2>2
<1> QED
  BY <1>4, <1>5, <1>6 DEF AgentInv

-----------------------------------------------------------------------------
(***************************************************************************)
(* The monitor, the workload process and the goroutine in cmd.Wait.        *)
(***************************************************************************)

\* A step of a deployment's own goroutines keeps the invariant when it keeps
\* that deployment's story and what Undeploy knows.
LEMMA OwnStep ==
    ASSUME AgentInv, TypeInv', NEW d \in Deploys, Story(d)', FailsAfterExit',
           UNCHANGED <<queue, sent, acks>>,
           Unseen(d) => Unseen(d)',
           dep' = dep \/ (dep.d = d /\ dep'.d \in {d, None}),
           \A e \in Deploys \ {d} :
               UNCHANGED <<monitor[e], os[e], runner[e], waiter[e], emitted[e]>>
    PROVE  AgentInv'
<1>1. /\ QueuedOnce /\ TypeInv
      /\ \A e \in Deploys : Story(e) /\ e # None
  BY AgentAssumption DEF AgentInv
<1>2. QueuedOnce'
  BY <1>1, QueueFrame DEF Unseen
<1>3. \A e \in Deploys \ {d} : Story(e)'
  BY <1>1, StoryFrame
<1> QED
  BY <1>2, <1>3 DEF AgentInv

\* The steps of the monitor keep the invariant: what it reads from Fail, Run and
\* Exit fits what it has said before.
LEMMA InvMonitor ==
    ASSUME AgentInv, TypeInv', NEW d \in Deploys, Monitor(d)
    PROVE  AgentInv'
<1> USE AgentAssumption
<1>0. /\ TypeInv /\ FailsAfterExit /\ Story(d) /\ d # None
      /\ monitor \in [Deploys -> {"none", "select", "log started", "event started",
                                  "log stopped", "event stopped", "done"}]
      /\ runner \in [Deploys -> {"none", "sending", "done"}]
      /\ waiter \in [Deploys -> {"none", "waiting", "sending", "done"}]
      /\ DOMAIN emitted = Deploys
  BY DEF AgentInv, TypeInv, MonitorTypes, ProcessTypes, ChannelTypes
<1>1. CASE MonitorReceivesFail(d)
  <2>1. /\ monitor[d] = "select" /\ monitor' = [monitor EXCEPT ![d] = "log stopped"]
        /\ UNCHANGED <<queue, sent, acks, os, runner, waiter, emitted>>
    BY <1>1 DEF MonitorReceivesFail, wireVars, procVars, chanVars
  <2>2. /\ monitor'[d] = "log stopped"
        /\ \A e \in Deploys \ {d} : monitor'[e] = monitor[e]
    BY <1>0, <2>1
  <2>3. /\ os[d] \in {"none", "exited"} /\ acks[d] # "rejected"
        /\ dep' = dep \/ (dep.d = d /\ dep'.d = None)
        /\ dep'.d = d => acks[d] = "none" /\ dep'.pc = "ack"
        /\ und' \in {und, Idle}
        /\ main' = main \/ main'.pc = "drain"
    <3>1. CASE /\ dep = [pc |-> "fail", d |-> d] /\ dep' = Idle
               /\ UNCHANGED <<main, und>>
      <4>1. Blank(d) /\ acks[d] = "none"
        BY <1>0, <3>1 DEF Story
      <4> QED
        BY <1>0, <3>1, <4>1 DEF Blank, Idle
    <3>2. ASSUME os[d] = "exited", dep' = dep
          PROVE  /\ acks[d] # "rejected"
                 /\ dep'.d = d => acks[d] = "none" /\ dep'.pc = "ack"
      BY <1>0, <3>2 DEF Story, Blank
    <3>3. CASE /\ und = [pc |-> "fail", d |-> d] /\ und' = Idle
               /\ UNCHANGED <<main, dep>>
      <4>1. os[d] = "exited"
        BY <1>0, <3>3 DEF FailsAfterExit
      <4> QED
        BY <3>2, <3>3, <4>1
    <3>4. CASE /\ main = [pc |-> "fail", d |-> d]
               /\ main' = [main EXCEPT !.pc = "drain"]
               /\ UNCHANGED <<dep, und>>
      <4>1. os[d] = "exited" /\ main'.pc = "drain"
        BY <1>0, <3>4 DEF FailsAfterExit
      <4> QED
        BY <3>2, <3>4, <4>1
    <3> QED
      BY <1>1, <3>1, <3>3, <3>4 DEF MonitorReceivesFail
  <2>4. FailsAfterExit'
    <3>1. und'.pc = "fail" => und' = und
      BY <2>3 DEF Idle
    <3>2. main'.pc = "fail" => main' = main
      BY <2>3
    <3> QED
      BY <1>0, <2>1, <3>1, <3>2 DEF FailsAfterExit
  <2>5. Story(d)'
    BY <1>0, <2>1, <2>2, <2>3 DEF Story, Blank
  <2> QED
    BY <1>0, <2>1, <2>2, <2>3, <2>4, <2>5, OwnStep DEF Unseen
<1>2. CASE MonitorReceivesRun(d)
  <2>1. /\ monitor[d] = "select" /\ monitor' = [monitor EXCEPT ![d] = "log started"]
        /\ UNCHANGED <<main, und, queue, sent, acks, os, waiter, emitted>>
    BY <1>2 DEF MonitorReceivesRun, mainVars, wireVars, procVars, chanVars
  <2>2. /\ monitor'[d] = "log started"
        /\ \A e \in Deploys \ {d} : monitor'[e] = monitor[e]
    BY <1>0, <2>1
  <2>3. /\ emitted[d] = <<>> /\ runner'[d] # "sending" /\ acks[d] # "rejected"
        /\ \A e \in Deploys \ {d} : runner'[e] = runner[e]
        /\ dep' = dep \/ (dep.d = d /\ dep'.d = d)
        /\ dep'.d = d => dep'.pc = "ack"
    <3>1. CASE /\ runner[d] = "sending" /\ dep' = dep
               /\ runner' = [runner EXCEPT ![d] = "done"]
      BY <1>0, <2>1, <3>1, Sayings DEF Story, Blank
    <3>2. CASE /\ dep = [pc |-> "run", d |-> d] /\ runner' = runner
               /\ dep' = [dep EXCEPT !.pc = "ack"]
      BY <1>0, <3>2 DEF Story, Blank
    <3> QED
      BY <1>2, <3>1, <3>2 DEF MonitorReceivesRun
  <2>4. FailsAfterExit'
    BY <1>0, <2>1 DEF FailsAfterExit
  <2>5. dep'.d = d => acks[d] = "none"
    BY <1>0, <2>3 DEF Story
  <2>6. Story(d)'
    BY <1>0, <2>1, <2>2, <2>3, <2>5 DEF Story, Blank
  <2> QED
    BY <1>0, <2>1, <2>2, <2>3, <2>4, <2>6, OwnStep DEF Unseen
<1>3. CASE MonitorReceivesExit(d)
  <2>1. /\ monitor[d] = "select" /\ monitor' = [monitor EXCEPT ![d] = "log stopped"]
        /\ waiter[d] = "sending" /\ waiter' = [waiter EXCEPT ![d] = "done"]
        /\ UNCHANGED <<main, dep, und, queue, sent, acks, os, runner, emitted>>
    BY <1>3
    DEF MonitorReceivesExit, mainVars, wireVars, handlerVars, procVars, chanVars
  <2>2. /\ monitor'[d] = "log stopped" /\ waiter'[d] = "done"
        /\ \A e \in Deploys \ {d} : UNCHANGED <<monitor[e], waiter[e]>>
    BY <1>0, <2>1
  <2>3. /\ os[d] = "exited" /\ acks[d] # "rejected"
        /\ dep.d = d => dep.pc = "ack"
    BY <1>0, <2>1 DEF Story, Blank
  <2>4. FailsAfterExit'
    BY <1>0, <2>1 DEF FailsAfterExit
  <2>5. Story(d)'
    BY <1>0, <2>1, <2>2, <2>3 DEF Story, Blank
  <2> QED
    BY <1>0, <2>1, <2>2, <2>4, <2>5, OwnStep DEF Unseen
<1>4. CASE MonitorLogs(d)
  <2>1. /\ monitor[d] \in {"log started", "log stopped"}
        /\ monitor' = [monitor EXCEPT ![d] =
               IF monitor[d] = "log started" THEN "event started"
               ELSE "event stopped"]
        /\ UNCHANGED <<main, dep, und, queue, sent, acks, os, runner,
                       waiter, emitted>>
    BY <1>4 DEF MonitorLogs, mainVars, wireVars, handlerVars, procVars, chanVars
  <2>2. /\ monitor'[d] = IF monitor[d] = "log started" THEN "event started"
                          ELSE "event stopped"
        /\ \A e \in Deploys \ {d} : monitor'[e] = monitor[e]
    BY <1>0, <2>1
  <2>3. FailsAfterExit'
    BY <1>0, <2>1 DEF FailsAfterExit
  <2>4. Story(d)'
    BY <1>0, <2>1, <2>2 DEF Story, Blank
  <2> QED
    BY <1>0, <2>1, <2>2, <2>3, <2>4, OwnStep DEF Unseen
<1>5. CASE MonitorSaysStarted(d)
  <2>1. /\ monitor[d] = "event started"
        /\ monitor' = [monitor EXCEPT ![d] = "select"]
        /\ emitted' = [emitted EXCEPT ![d] = Append(@, "started")]
        /\ UNCHANGED <<main, dep, und, queue, sent, acks, os, runner, waiter>>
    BY <1>5 DEF MonitorSaysStarted, Emit, mainVars, wireVars, handlerVars, procVars
  <2>2. /\ monitor'[d] = "select" /\ emitted'[d] = Append(emitted[d], "started")
        /\ \A e \in Deploys \ {d} : UNCHANGED <<monitor[e], emitted[e]>>
    BY <1>0, <2>1
  <2>3. /\ emitted'[d] = <<"started">>
        /\ acks[d] # "rejected"
        /\ dep.d = d => dep.pc = "ack"
    BY <1>0, <2>1, <2>2, Sayings DEF Story
  <2>4. FailsAfterExit'
    BY <1>0, <2>1 DEF FailsAfterExit
  <2>5. Story(d)'
    BY <1>0, <2>1, <2>2, <2>3, Sayings DEF Story, Blank
  <2> QED
    BY <1>0, <2>1, <2>2, <2>4, <2>5, OwnStep DEF Unseen
<1>6. CASE MonitorSaysStopped(d)
  <2>1. /\ monitor[d] = "event stopped" /\ monitor' = [monitor EXCEPT ![d] = "done"]
        /\ emitted' = [emitted EXCEPT ![d] = Append(@, "stopped")]
        /\ UNCHANGED <<main, dep, und, queue, sent, acks, os, runner, waiter>>
    BY <1>6 DEF MonitorSaysStopped, Emit, mainVars, wireVars, handlerVars, procVars
  <2>2. /\ monitor'[d] = "done" /\ emitted'[d] = Append(emitted[d], "stopped")
        /\ \A e \in Deploys \ {d} : UNCHANGED <<monitor[e], emitted[e]>>
    BY <1>0, <2>1
  <2>3. /\ \/ emitted[d] = <<>> /\ emitted'[d] = <<"stopped">>
           \/ emitted[d] = <<"started">>
        /\ acks[d] # "rejected"
        /\ dep.d = d => dep.pc = "ack"
    BY <1>0, <2>1, <2>2, Sayings DEF Story
  <2>4. FailsAfterExit'
    BY <1>0, <2>1 DEF FailsAfterExit
  <2>5. Story(d)'
    BY <1>0, <2>1, <2>2, <2>3, Sayings DEF Story, Blank
  <2> QED
    BY <1>0, <2>1, <2>2, <2>4, <2>5, OwnStep DEF Unseen
<1> QED
  BY <1>1, <1>2, <1>3, <1>4, <1>5, <1>6 DEF Monitor

\* So do the end of the process, its output and the return of cmd.Wait.
LEMMA InvWorkload ==
    ASSUME AgentInv, TypeInv', NEW d \in Deploys, Workload(d) \/ WaitReturns(d)
    PROVE  AgentInv'
<1>0. /\ FailsAfterExit /\ Story(d)
      /\ os \in [Deploys -> {"none", "running", "interrupted", "exited"}]
      /\ waiter \in [Deploys -> {"none", "waiting", "sending", "done"}]
      /\ und.pc = "fail" => und.d \in Deploys
      /\ main.pc = "fail" => main.d \in Deploys
  BY DEF AgentInv, TypeInv, ProcessTypes, HandlerTypes, MainTypes, HandlerStates
<1>1. CASE WorkloadExits(d)
  <2>1. /\ os[d] # "none" /\ os' = [os EXCEPT ![d] = "exited"]
        /\ UNCHANGED <<main, dep, und, queue, sent, acks, monitor, runner,
                       waiter, emitted>>
    BY <1>1 DEF WorkloadExits, mainVars, wireVars, handlerVars, procVars, chanVars
  <2>2. /\ os'[d] = "exited"
        /\ \A e \in Deploys \ {d} : os'[e] = os[e]
    BY <1>0, <2>1
  <2>3. FailsAfterExit'
    BY <1>0, <2>1, <2>2 DEF FailsAfterExit
  <2>4. Story(d)'
    BY <1>0, <2>1, <2>2 DEF Story, Blank
  <2> QED
    BY <2>1, <2>2, <2>3, <2>4, OwnStep DEF Unseen
<1>2. CASE WaitReturns(d)
  <2>1. /\ os[d] = "exited" /\ waiter' = [waiter EXCEPT ![d] = "sending"]
        /\ UNCHANGED <<main, dep, und, queue, sent, acks, monitor, runner,
                       os, emitted>>
    BY <1>2 DEF WaitReturns, mainVars, wireVars, handlerVars, procVars, chanVars
  <2>2. /\ waiter'[d] = "sending"
        /\ \A e \in Deploys \ {d} : waiter'[e] = waiter[e]
    BY <1>0, <2>1
  <2>3. FailsAfterExit'
    BY <1>0, <2>1 DEF FailsAfterExit
  <2>4. Story(d)'
    BY <1>0, <2>1, <2>2 DEF Story, Blank
  <2> QED
    BY <2>1, <2>2, <2>3, <2>4, OwnStep DEF Unseen
<1>3. CASE WorkloadWrites(d)
  <2>1. UNCHANGED <<main, und, dep, acks, monitor, os, runner, waiter, emitted,
                    queue, sent>>
    BY <1>3 DEF WorkloadWrites, mainVars, wireVars, handlerVars, procVars, chanVars
  <2>2. FailsAfterExit'
    BY <1>0, <2>1 DEF FailsAfterExit
  <2> QED
    BY <2>1, <2>2, Untouched
<1> QED
  BY <1>1, <1>2, <1>3 DEF Workload

-----------------------------------------------------------------------------
(***************************************************************************)
(* The theorems.                                                           *)
(***************************************************************************)

\* The agent starts with no deployment seen.
LEMMA InvInit == Init => AgentInv
<1> SUFFICES ASSUME Init PROVE AgentInv
  OBVIOUS
<1>1. QueuedOnce /\ FailsAfterExit
  BY DEF Init, QueuedOnce, FailsAfterExit, Unseen, Idle
<1>2. \A d \in Deploys : Story(d)
  BY AgentAssumption DEF Init, Story, Blank, Idle
<1> QED
  BY <1>1, <1>2, TypeInit DEF AgentInv

\* Every step keeps the invariant.
LEMMA InvNext == AgentInv /\ [Next]_vars => AgentInv'
<1> SUFFICES ASSUME AgentInv, [Next]_vars PROVE AgentInv'
  OBVIOUS
<1>1. TypeInv'
  BY TypeNext DEF AgentInv
<1>2. CASE UNCHANGED vars
  <2>1. UNCHANGED <<main, und, dep, acks, monitor, os, runner, waiter, emitted,
                    queue, sent>>
    BY <1>2 DEF vars, mainVars, wireVars, handlerVars, procVars, chanVars
  <2>2. FailsAfterExit'
    BY <2>1 DEF AgentInv, FailsAfterExit
  <2> QED
    BY <1>1, <2>1, <2>2, Untouched
<1>3. CASE \/ Node
           \/ HandleUndeploy
           \/ Main
           \/ UndeployHandler
           \/ DispatchEvents
           \/ DispatchLogs
  BY <1>1, <1>3, InvQuiet, InvSend, InvUndeploy DEF Node, Main, UndeployHandler
<1>4. CASE DeployHandler
  BY <1>1, <1>4, InvDeploy
<1>5. CASE \E d \in Deploys : Monitor(d) \/ Workload(d) \/ WaitReturns(d)
  BY <1>1, <1>5, InvMonitor, InvWorkload
<1> QED
  BY <1>2, <1>3, <1>4, <1>5 DEF Next

\* What the monitors of newExecutionProviderParams have said and may still say
\* agrees, at all times, with the deploy handler and the workload processes.
THEOREM AgentInvariant == Spec => []AgentInv
  BY InvInit, InvNext, PTL DEF Spec

\* A deployment that workAck refused never has a process or an event, whatever
\* a.provider, its monitor and the interrupt do.
THEOREM RefusedStaysSilent == Spec => []RefusedIsSilent
<1>1. AgentInv => RefusedIsSilent
  BY DEF AgentInv, Story, Blank, RefusedIsSilent
<1> QED
  BY <1>1, AgentInvariant, PTL

\* Every step of the agent is a step of WorkloadEvents or leaves what the node
\* relies on as it is.
LEMMA ContractStep ==
    AgentInv /\ [Next]_vars => [Contract!Next]_(Contract!vars)
<1> SUFFICES ASSUME AgentInv, [Next]_vars
             PROVE  [Contract!Next]_(Contract!vars)
  OBVIOUS
<1>0. /\ os \in [Deploys -> {"none", "running", "interrupted", "exited"}]
      /\ DOMAIN emitted = Deploys
      /\ \A d \in Deploys : Story(d)
  BY DEF AgentInv, TypeInv, ProcessTypes, ChannelTypes
<1>1. CASE UNCHANGED <<os, emitted>>
  BY <1>1 DEF Contract!vars
<1>2. CASE \/ Interrupt \/ HandleUndeploy \/ AgentStarts \/ AgentFailsToStart
           \/ ShutdownBegins \/ ShutdownWaits \/ ShutdownCrashes \/ ShutdownHalts
           \/ UndeployWaits \/ UndeployCrashes \/ DispatchEvents \/ DispatchLogs
           \/ \E d \in Deploys : SendDeploy(d)
  <2>1. UNCHANGED <<os, emitted>>
    BY <1>2 DEF Interrupt, HandleUndeploy, AgentStarts, AgentFailsToStart,
       ShutdownBegins, ShutdownWaits, ShutdownCrashes, ShutdownHalts, UndeployWaits,
       UndeployCrashes, DispatchEvents, DispatchLogs, SendDeploy, UndeployFails,
       UndeployPanics, procVars, chanVars
  <2> QED
    BY <1>1, <2>1
<1>3. CASE \/ DeployRefused \/ DeployHasNoProvider \/ DeployInits \/ DeployValidates
           \/ DeployInvalid \/ NativeFailsToStart \/ FunctionStarts
           \/ FunctionFailsToStart \/ DeployAcks
  <2>1. UNCHANGED <<os, emitted>>
    BY <1>3 DEF DeployRefused, DeployHasNoProvider, DeployInits, DeployValidates,
       DeployInvalid, NativeFailsToStart, FunctionStarts, FunctionFailsToStart,
       DeployAcks, procVars, chanVars
  <2> QED
    BY <1>1, <2>1
<1>4. CASE NativeStarts
  <2>1. PICK d \in Deploys : d = dep.d
    BY <1>4 DEF NativeStarts, Native
  <2>2. Blank(d)
    BY <1>0, <1>4, <2>1 DEF NativeStarts, Story
  <2>3. os' = [os EXCEPT ![d] = "running"] /\ emitted' = emitted
    BY <1>4, <2>1 DEF NativeStarts, chanVars
  <2>4. Contract!Begin(d)
    BY <1>0, <2>2, <2>3 DEF Contract!Begin, Blank, Life
  <2> QED
    BY <2>4 DEF Contract!Next
<1>5. CASE UndeployDone \/ ShutdownUndeploys
  <2>1. PICK d : (UndeployReturns(d) \/ UndeploySignals(d)) /\ emitted' = emitted
    BY <1>5 DEF UndeployDone, ShutdownUndeploys, chanVars
  <2>2. \A e \in Deploys : Life(os'[e]) = Life(os[e])
    BY <1>0, <2>1 DEF UndeployReturns, UndeploySignals, Life
  <2> QED
    BY <2>1, <2>2 DEF Contract!vars
<1>6. ASSUME NEW d \in Deploys,
             \/ MonitorReceivesFail(d) \/ MonitorReceivesRun(d)
             \/ MonitorReceivesExit(d) \/ MonitorLogs(d)
             \/ WorkloadWrites(d) \/ WaitReturns(d)
      PROVE  [Contract!Next]_(Contract!vars)
  <2>1. UNCHANGED <<os, emitted>>
    BY <1>6 DEF MonitorReceivesFail, MonitorReceivesRun, MonitorReceivesExit,
       MonitorLogs, WorkloadWrites, WaitReturns, procVars, chanVars
  <2> QED
    BY <1>1, <2>1
<1>7. ASSUME NEW d \in Deploys, MonitorSaysStarted(d)
      PROVE  [Contract!Next]_(Contract!vars)
  <2>1. emitted[d] = <<>>
    BY <1>0, <1>7 DEF MonitorSaysStarted, Story
  <2>2. emitted' = [emitted EXCEPT ![d] = <<"started">>] /\ os' = os
    BY <1>0, <1>7, <2>1, Sayings DEF MonitorSaysStarted, Emit, procVars
  <2>3. Contract!SayStarted(d)
    BY <2>1, <2>2 DEF Contract!SayStarted
  <2> QED
    BY <2>3 DEF Contract!Next
<1>8. ASSUME NEW d \in Deploys, MonitorSaysStopped(d)
      PROVE  [Contract!Next]_(Contract!vars)
  <2>1. emitted[d] \in {<<>>, <<"started">>} /\ os[d] \in {"none", "exited"}
    BY <1>0, <1>8 DEF MonitorSaysStopped, Story
  <2>2. Append(emitted[d], "stopped") =
            IF emitted[d] = <<>> THEN <<"stopped">> ELSE <<"started", "stopped">>
    BY <2>1, Sayings
  <2>3. /\ emitted' = [emitted EXCEPT ![d] = Append(emitted[d], "stopped")]
        /\ os' = os
    BY <1>8 DEF MonitorSaysStopped, Emit, procVars
  <2>4. Contract!SayStopped(d)
    BY <1>0, <2>1, <2>2, <2>3 DEF Contract!SayStopped, Life
  <2> QED
    BY <2>4 DEF Contract!Next
<1>9. ASSUME NEW d \in Deploys, WorkloadExits(d)
      PROVE  [Contract!Next]_(Contract!vars)
  <2>1. /\ os[d] \in {"running", "interrupted"}
        /\ os' = [os EXCEPT ![d] = "exited"] /\ emitted' = emitted
    BY <1>9 DEF WorkloadExits, chanVars
  <2>2. Contract!End(d)
    BY <1>0, <2>1 DEF Contract!End, Life
  <2> QED
    BY <2>2 DEF Contract!Next
<1>10. CASE UNCHANGED vars
  BY <1>1, <1>10 DEF vars, procVars, chanVars
<1> QED
  BY <1>2, <1>3, <1>4, <1>5, <1>6, <1>7, <1>8, <1>9, <1>10
  DEF Next, Node, Main, DeployHandler, UndeployHandler, Monitor, Workload

\* NexAgent implements WorkloadEvents for every set of deployments, channel
\* capacity and environment: one workload_started at most, then one
\* workload_stopped at most, and the latter never while the process is alive.
THEOREM AgentImplementsEvents == Spec => KeepsContract
<1>1. Init => Contract!Init
  BY DEF Init, Contract!Init, Life
<1> QED
  BY <1>1, ContractStep, AgentInvariant, PTL DEF Spec, KeepsContract, Contract!Spec

-----------------------------------------------------------------------------
(***************************************************************************)
(* An orderly node: it neither interrupts nor undeploys while it deploys.  *)
(***************************************************************************)

\* The node never lets the signal or an undeploy request meet a deployment.
OrderlyNode == "race" \notin Env

\* The binary of every native deployment starts.
BinariesStart == "badStart" \notin Env

\* ELF's sync.Once has been entered only for a process that was interrupted or
\* has ended, and a function has no process.
Signalled ==
    \A d \in Deploys :
        /\ once[d] # "new" => os[d] \in {"interrupted", "exited"}
        /\ d \in Functions => os[d] = "none"

\* While the agent shuts down or undeploys, no deployment is under way, and what
\* is undeployed is the current provider.
InOrder ==
    /\ sig # "no" \/ und # Idle \/ main.pc \notin {"loop", "panicked"} => Settled
    /\ main.pc = "init" => provider = None
    /\ main.pc \in {"undeploy", "fail"} => main.d = provider /\ sig # "no"
    /\ und # Idle => und.d = provider
    /\ main.pc \in {"drain", "halted"} =>
           provider = None \/ os[provider] # "running"

\* The current provider has a command, or ELF.Deploy is about to set it.
Armed ==
    \/ provider \in {None} \cup Functions \cup cmd
    \/ dep = [pc |-> "start", d |-> provider]

\* The steps that touch a process or a sync.Once.
LEMMA ProcessSteps ==
    ASSUME [Next]_vars
    PROVE  \/ UNCHANGED <<once, os>>
           \/ NativeStarts
           \/ UndeployDone \/ UndeployWaits \/ ShutdownUndeploys \/ ShutdownWaits
           \/ \E d \in Deploys : MonitorReceivesFail(d) \/ WorkloadExits(d)
<1> USE DEF vars, mainVars, wireVars, handlerVars, provVars, procVars, chanVars
<1>1. CASE UNCHANGED vars
  BY <1>1
<1>2. CASE Node \/ HandleUndeploy \/ DispatchEvents \/ DispatchLogs
  BY <1>2 DEF Node, Interrupt, SendDeploy, HandleUndeploy, DispatchEvents,
              DispatchLogs, Dispatched
<1>3. CASE Main
  BY <1>3 DEF Main, AgentStarts, AgentFailsToStart, ShutdownBegins,
              ShutdownCrashes, ShutdownHalts, UndeployPanics
<1>4. CASE DeployHandler
  BY <1>4 DEF DeployHandler, DeployRefused, DeployHasNoProvider, DeployInits,
              DeployValidates, DeployInvalid, NativeFailsToStart,
              FunctionStarts, FunctionFailsToStart, DeployAcks
<1>5. CASE UndeployHandler
  BY <1>5 DEF UndeployHandler, UndeployCrashes, UndeployPanics
<1>6. ASSUME NEW d \in Deploys, Monitor(d) \/ Workload(d) \/ WaitReturns(d)
      PROVE  UNCHANGED <<once, os>> \/ MonitorReceivesFail(d) \/ WorkloadExits(d)
  BY <1>6 DEF Monitor, MonitorReceivesRun, MonitorReceivesExit, MonitorLogs,
              MonitorSaysStarted, MonitorSaysStopped, Workload, WorkloadWrites,
              WaitReturns
<1> QED
  BY <1>1, <1>2, <1>3, <1>4, <1>5, <1>6 DEF Next

\* Undeploy enters the sync.Once of a process that is not running afterwards.
LEMMA UndeployKeepsSignalled ==
    ASSUME AgentInv, Signalled, NEW u \in Deploys,
           UndeployReturns(u) \/ UndeploySignals(u) \/ UndeployFails(u)
    PROVE  Signalled'
<1>1. /\ once \in [Deploys -> {"new", "busy", "done"}]
      /\ os \in [Deploys -> {"none", "running", "interrupted", "exited"}]
  BY DEF AgentInv, TypeInv, ProviderTypes, ProcessTypes
<1>2. /\ \A d \in Deploys \ {u} : UNCHANGED <<once[d], os[d]>>
      /\ \/ UNCHANGED <<once[u], os[u]>>
         \/ os[u] # "none" /\ os'[u] \in {"interrupted", "exited"}
  BY <1>1 DEF UndeployReturns, UndeploySignals, UndeployFails
<1> QED
  BY <1>2 DEF Signalled

\* Every step keeps the rule about the sync.Once.
LEMMA SignalledNext == AgentInv /\ Signalled /\ [Next]_vars => Signalled'
<1> SUFFICES ASSUME AgentInv, Signalled, [Next]_vars PROVE Signalled'
  OBVIOUS
<1> USE AgentAssumption
<1>0. /\ once \in [Deploys -> {"new", "busy", "done"}]
      /\ os \in [Deploys -> {"none", "running", "interrupted", "exited"}]
      /\ dep \in HandlerStates({"idle", "validate", "start", "fail", "run", "ack"})
      /\ FailsAfterExit /\ \A d \in Deploys : Story(d)
  BY DEF AgentInv, TypeInv, ProviderTypes, ProcessTypes, HandlerTypes
<1>1. CASE UNCHANGED <<once, os>>
  BY <1>1 DEF Signalled
<1>2. CASE NativeStarts
  <2>1. /\ dep.d \in Deploys \ Functions /\ dep.pc = "start" /\ once' = once
        /\ os' = [os EXCEPT ![dep.d] = "running"]
    BY <1>2 DEF NativeStarts, Native
  <2>2. once[dep.d] = "new"
    BY <1>0, <2>1 DEF Story, Blank, Signalled
  <2> QED
    BY <1>0, <2>1, <2>2 DEF Signalled
<1>3. CASE UndeployDone \/ UndeployWaits
  <2>1. und.d \in Deploys
    BY <1>3 DEF UndeployDone, UndeployWaits, AgentInv, TypeInv, HandlerTypes,
                HandlerStates
  <2> QED
    BY <1>3, <2>1, UndeployKeepsSignalled DEF UndeployDone, UndeployWaits
<1>4. CASE ShutdownUndeploys \/ ShutdownWaits
  <2>1. main.d \in Deploys
    BY <1>4 DEF ShutdownUndeploys, ShutdownWaits, AgentInv, TypeInv, MainTypes,
                HandlerStates
  <2> QED
    BY <1>4, <2>1, UndeployKeepsSignalled DEF ShutdownUndeploys, ShutdownWaits
<1>5. ASSUME NEW d \in Deploys, MonitorReceivesFail(d) PROVE Signalled'
  <2>1. /\ os' = os
        /\ once' = once \/ (once' = [once EXCEPT ![d] = "done"] /\ os[d] = "exited")
    <3>1. und = [pc |-> "fail", d |-> d] => os[d] = "exited"
      BY <1>0 DEF FailsAfterExit
    <3>2. main = [pc |-> "fail", d |-> d] => os[d] = "exited"
      BY <1>0 DEF FailsAfterExit
    <3> QED
      BY <1>5, <3>1, <3>2 DEF MonitorReceivesFail, procVars
  <2> QED
    BY <1>0, <2>1 DEF Signalled
<1>6. ASSUME NEW d \in Deploys, WorkloadExits(d) PROVE Signalled'
  <2>1. once' = once /\ os[d] # "none" /\ os' = [os EXCEPT ![d] = "exited"]
    BY <1>6 DEF WorkloadExits, provVars
  <2> QED
    BY <1>0, <2>1 DEF Signalled
<1> QED
  BY <1>1, <1>2, <1>3, <1>4, <1>5, <1>6, ProcessSteps

\* Every step keeps the provider armed when binaries start.
LEMMA ArmedNext ==
    ASSUME BinariesStart, AgentInv, Armed, [Next]_vars
    PROVE  Armed'
<1> USE AgentAssumption
<1> USE DEF vars, mainVars, wireVars, handlerVars, provVars, procVars, chanVars
<1>1. CASE UNCHANGED vars
  BY <1>1 DEF Armed
<1>2. CASE Node \/ HandleUndeploy \/ DispatchEvents \/ DispatchLogs
  BY <1>2 DEF Armed, Node, Interrupt, SendDeploy, HandleUndeploy, DispatchEvents,
              DispatchLogs, Dispatched
<1>3. CASE Main
  BY <1>3 DEF Armed, Main, AgentStarts, AgentFailsToStart, ShutdownBegins,
              ShutdownUndeploys, ShutdownWaits, ShutdownCrashes, ShutdownHalts,
              UndeployPanics
<1>4. CASE UndeployHandler
  BY <1>4 DEF Armed, UndeployHandler, UndeployDone, UndeployWaits,
              UndeployCrashes, UndeployPanics
<1>5. CASE DeployHandler
  <2>1. CASE DeployInits
    <3>1. PICK h \in Deploys : h = Head(queue)
      BY <2>1 DEF DeployInits, AgentInv, TypeInv, WireTypes
    <3>2. /\ provider' = h
          /\ dep' = [pc |-> IF h \in Functions THEN "validate" ELSE "start", d |-> h]
      BY <2>1, <3>1 DEF DeployInits
    <3> QED
      BY <3>2 DEF Armed
  <2>2. CASE DeployRefused \/ DeployHasNoProvider
    BY <2>2 DEF Armed, DeployRefused, DeployHasNoProvider
  <2>3. CASE DeployValidates \/ DeployInvalid \/ DeployAcks
    BY <2>3 DEF Armed, DeployValidates, DeployInvalid, DeployAcks
  <2>4. CASE NativeStarts
    <3>1. provider' = provider /\ cmd' = cmd \cup {dep.d}
      BY <2>4 DEF NativeStarts
    <3> QED
      BY <3>1 DEF Armed
  <2>5. CASE FunctionStarts \/ FunctionFailsToStart
    <3>1. dep.d \in Functions /\ UNCHANGED <<provider, cmd>>
      BY <2>5 DEF FunctionStarts, FunctionFailsToStart
    <3> QED
      BY <3>1 DEF Armed
  <2> QED
    BY <1>5, <2>1, <2>2, <2>3, <2>4, <2>5
    DEF DeployHandler, NativeFailsToStart, BinariesStart
<1>6. ASSUME NEW d \in Deploys, Monitor(d) \/ Workload(d) \/ WaitReturns(d)
      PROVE  Armed'
  <2>1. UNCHANGED <<provider, cmd>> /\ (dep.pc = "start" => dep' = dep)
    <3>0. /\ dep = [pc |-> "fail", d |-> d] => dep.pc # "start"
          /\ dep = [pc |-> "run", d |-> d] => dep.pc # "start"
      OBVIOUS
    <3>1. MonitorReceivesFail(d) => dep.pc # "start" \/ dep' = dep
      BY <3>0 DEF MonitorReceivesFail
    <3>2. MonitorReceivesRun(d) => dep.pc # "start" \/ dep' = dep
      BY <3>0 DEF MonitorReceivesRun
    <3>3. MonitorReceivesFail(d) \/ MonitorReceivesRun(d) => UNCHANGED <<provider, cmd>>
      BY DEF MonitorReceivesFail, MonitorReceivesRun
    <3> QED
      BY <1>6, <3>1, <3>2, <3>3
      DEF Monitor, MonitorReceivesExit, MonitorLogs, MonitorSaysStarted,
          MonitorSaysStopped, Workload, WorkloadExits, WorkloadWrites, WaitReturns
  <2> QED
    BY <2>1 DEF Armed
<1> QED
  BY <1>1, <1>2, <1>3, <1>4, <1>5, <1>6 DEF Next
\* InOrder reads only these variables.
LEMMA InOrderFrame ==
    ASSUME InOrder, UNCHANGED <<main, sig, und, dep, queue, provider, os>>
    PROVE  InOrder'
BY DEF InOrder, Settled

\* A step of a deployment under way happens only before the signal and while
\* nothing is undeployed.
LEMMA UnderWay ==
    ASSUME InOrder, ~Settled, Up, UNCHANGED <<main, sig, und>>
    PROVE  InOrder'
<1>1. sig = "no" /\ und = Idle /\ main.pc = "loop"
  BY DEF InOrder, Up
<1> QED
  BY <1>1 DEF InOrder

\* An orderly node keeps the shutdown and the undeploy requests apart from
\* deployments.
LEMMA InOrderNext ==
    ASSUME OrderlyNode, AgentInv, Signalled, InOrder, [Next]_vars
    PROVE  InOrder'
<1> USE AgentAssumption
<1> USE DEF vars, mainVars, wireVars, handlerVars, provVars, procVars, chanVars
<1>0. /\ provider \in Deploys \cup {None}
      /\ os \in [Deploys -> {"none", "running", "interrupted", "exited"}]
      /\ main \in HandlerStates({"init", "loop", "undeploy", "fail", "drain",
                                 "halted", "panicked"})
      /\ main.pc \in {"undeploy", "fail"} => main.d \in Deploys
      /\ und \in HandlerStates({"idle", "undeploy", "fail"})
      /\ und.pc # "idle" => und.d \in Deploys /\ und # Idle
      /\ FailsAfterExit
  BY DEF AgentInv, TypeInv, ProviderTypes, ProcessTypes, MainTypes, HandlerTypes,
         HandlerStates, Idle
<1>1. CASE UNCHANGED vars \/ DispatchEvents \/ DispatchLogs
  BY <1>1, InOrderFrame DEF DispatchEvents, DispatchLogs, Dispatched
<1>2. CASE Interrupt
  BY <1>2 DEF Interrupt, InOrder, Settled, OrderlyNode
<1>3. ASSUME NEW d \in Deploys, SendDeploy(d) PROVE InOrder'
  <2>1. /\ sig = "no" /\ und = Idle /\ main.pc \in {"loop", "undeploy", "fail"}
        /\ UNCHANGED <<main, sig, und>>
    BY <1>3 DEF SendDeploy, OrderlyNode
  <2> QED
    BY <2>1 DEF InOrder
<1>4. CASE HandleUndeploy
  <2>1. /\ Settled /\ UNCHANGED <<main, sig, dep, queue, provider, os>>
        /\ und' = IF provider = None THEN Idle ELSE [pc |-> "undeploy", d |-> provider]
    BY <1>4 DEF HandleUndeploy, OrderlyNode
  <2>2. und' # Idle => und'.d = provider
    BY <2>1 DEF Idle
  <2> QED
    BY <2>1, <2>2 DEF InOrder, Settled
<1>5. CASE Main
  <2>0. UNCHANGED <<und, dep, queue, provider>>
    BY <1>5 DEF Main, AgentStarts, AgentFailsToStart, ShutdownBegins,
                ShutdownUndeploys, ShutdownWaits, ShutdownCrashes, ShutdownHalts
  <2>1. CASE AgentStarts
    <3>1. main.pc = "init" /\ main'.pc = "loop" /\ UNCHANGED <<sig, os>>
      BY <1>0, <2>1 DEF AgentStarts, HandlerStates
    <3> QED
      BY <2>0, <3>1 DEF InOrder, Settled
  <2>2. CASE AgentFailsToStart
    <3>1. main.pc = "init" /\ main'.pc = "drain" /\ UNCHANGED <<sig, os>>
      BY <1>0, <2>2 DEF AgentFailsToStart, HandlerStates
    <3> QED
      BY <2>0, <3>1 DEF InOrder, Settled
  <2>3. CASE ShutdownBegins
    <3>1. /\ sig = "sent" /\ sig' = "received" /\ main.pc = "loop" /\ os' = os
          /\ main'.pc = IF provider = None THEN "drain" ELSE "undeploy"
          /\ main'.d = provider
      BY <2>3 DEF ShutdownBegins
    <3> QED
      BY <2>0, <3>1 DEF InOrder, Settled
  <2>4. CASE ShutdownUndeploys
    <3>1. /\ main.pc = "undeploy" /\ main'.pc = "drain" /\ sig' = sig
          /\ UndeployReturns(main.d) \/ UndeploySignals(main.d)
      BY <1>0, <2>4 DEF ShutdownUndeploys, HandlerStates
    <3>2. main.d = provider /\ provider \in Deploys
      BY <1>0, <3>1 DEF InOrder
    <3>3. os'[provider] # "running"
      BY <1>0, <3>1, <3>2 DEF UndeployReturns, UndeploySignals, Signalled
    <3> QED
      BY <2>0, <3>1, <3>3 DEF InOrder, Settled
  <2>5. CASE ShutdownWaits
    <3>1. /\ main.pc = "undeploy" /\ main'.pc = "fail" /\ main'.d = main.d
          /\ UNCHANGED <<sig, os>>
      BY <1>0, <2>5 DEF ShutdownWaits, UndeployFails, HandlerStates
    <3> QED
      BY <2>0, <3>1 DEF InOrder, Settled
  <2>6. CASE ShutdownCrashes
    <3>1. main.pc = "undeploy" /\ main'.pc = "panicked" /\ UNCHANGED <<sig, os>>
      BY <1>0, <2>6 DEF ShutdownCrashes, UndeployPanics, HandlerStates
    <3> QED
      BY <2>0, <3>1 DEF InOrder, Settled
  <2>7. CASE ShutdownHalts
    <3>1. main.pc = "drain" /\ main'.pc = "halted" /\ UNCHANGED <<sig, os>>
      BY <1>0, <2>7 DEF ShutdownHalts, HandlerStates
    <3> QED
      BY <2>0, <3>1 DEF InOrder, Settled
  <2> QED
    BY <1>5, <2>1, <2>2, <2>3, <2>4, <2>5, <2>6, <2>7 DEF Main
<1>6. CASE DeployHandler
  <2>1. ~Settled /\ UNCHANGED <<main, sig, und>>
    BY <1>6 DEF Settled, Idle, DeployHandler, DeployRefused, DeployHasNoProvider,
                DeployInits, DeployValidates, DeployInvalid, NativeStarts,
                NativeFailsToStart, FunctionStarts, FunctionFailsToStart, DeployAcks
  <2>2. Up
    BY <1>6 DEF Up, DeployHandler, DeployRefused, DeployHasNoProvider,
                DeployInits, DeployValidates, DeployInvalid, NativeStarts,
                NativeFailsToStart, FunctionStarts, FunctionFailsToStart, DeployAcks
  <2> QED
    BY <2>1, <2>2, UnderWay
<1>7. CASE UndeployDone \/ UndeployWaits
  <2>1. /\ und.d \in Deploys /\ und # Idle
        /\ UNCHANGED <<main, sig, dep, queue, provider>>
        /\ UndeployReturns(und.d) \/ UndeploySignals(und.d) \/ UndeployFails(und.d)
    BY <1>0, <1>7 DEF UndeployDone, UndeployWaits
  <2>2. und' = Idle \/ und'.d = und.d
    BY <1>0, <1>7 DEF UndeployDone, UndeployWaits, HandlerStates
  <2>3. \A d \in Deploys : os'[d] = "running" => os[d] = "running"
    BY <1>0, <2>1 DEF UndeployReturns, UndeploySignals, UndeployFails
  <2> QED
    BY <1>0, <2>1, <2>2, <2>3 DEF InOrder, Settled
<1>8. CASE UndeployCrashes
  <2>1. /\ main'.pc = "panicked" /\ UNCHANGED <<sig, und, dep, queue, provider, os>>
        /\ und # Idle
    BY <1>0, <1>8 DEF UndeployCrashes, UndeployPanics, HandlerStates
  <2> QED
    BY <2>1 DEF InOrder, Settled
<1>9. ASSUME NEW d \in Deploys, MonitorReceivesFail(d) PROVE InOrder'
  <2>0. UNCHANGED <<sig, queue, provider, os>> /\ Up
    BY <1>9 DEF MonitorReceivesFail
  <2>1. CASE dep = [pc |-> "fail", d |-> d] /\ UNCHANGED <<main, und>>
    <3>1. ~Settled
      BY <2>1 DEF Settled, Idle
    <3> QED
      BY <2>0, <2>1, <3>1, UnderWay
  <2>2. CASE und = [pc |-> "fail", d |-> d] /\ und' = Idle /\ UNCHANGED <<main, dep>>
    <3>1. und # Idle
      BY <2>2 DEF Idle
    <3> QED
      BY <2>0, <2>2, <3>1 DEF InOrder, Settled
  <2>3. CASE /\ main = [pc |-> "fail", d |-> d]
             /\ main' = [main EXCEPT !.pc = "drain"]
             /\ UNCHANGED <<dep, und>>
    <3>1. main.pc = "fail" /\ main'.pc = "drain" /\ main.d = provider
      BY <2>3 DEF InOrder
    <3>2. os[provider] = "exited"
      BY <1>0, <3>1 DEF FailsAfterExit
    <3> QED
      BY <2>0, <2>3, <3>1, <3>2 DEF InOrder, Settled
  <2> QED
    BY <1>9, <2>1, <2>2, <2>3 DEF MonitorReceivesFail
<1>10. ASSUME NEW d \in Deploys, MonitorReceivesRun(d) PROVE InOrder'
  <2>1. UNCHANGED <<main, sig, und, queue, provider, os>> /\ Up
    BY <1>10 DEF MonitorReceivesRun
  <2>2. dep' = dep \/ ~Settled
    <3>1. dep = [pc |-> "run", d |-> d] => dep # Idle
      BY DEF Idle
    <3> QED
      BY <1>10, <3>1 DEF MonitorReceivesRun, Settled
  <2> QED
    BY <2>1, <2>2, InOrderFrame, UnderWay
<1>11. ASSUME NEW d \in Deploys, WorkloadExits(d) PROVE InOrder'
  <2>1. /\ UNCHANGED <<main, sig, und, dep, queue, provider>>
        /\ \A e \in Deploys : os'[e] = "running" => os[e] = "running"
    BY <1>0, <1>11 DEF WorkloadExits
  <2> QED
    BY <1>0, <2>1 DEF InOrder, Settled
<1>12. ASSUME NEW d \in Deploys,
              \/ MonitorReceivesExit(d) \/ MonitorLogs(d) \/ MonitorSaysStarted(d)
              \/ MonitorSaysStopped(d) \/ WorkloadWrites(d) \/ WaitReturns(d)
       PROVE  InOrder'
  BY <1>12, InOrderFrame
  DEF MonitorReceivesExit, MonitorLogs, MonitorSaysStarted, MonitorSaysStopped,
      WorkloadWrites, WaitReturns
<1> QED
  BY <1>1, <1>2, <1>3, <1>4, <1>5, <1>6, <1>7, <1>8, <1>9, <1>10, <1>11, <1>12
  DEF Next, Node, UndeployHandler, Monitor, Workload

\* The rules the two theorems below rest on, together.
OrderInv ==
    /\ AgentInv
    /\ Signalled
    /\ OrderlyNode => InOrder
    /\ BinariesStart => Armed
    /\ OrderlyNode /\ BinariesStart => NeverPanics

\* No Undeploy finds a provider without a command.
LEMMA NoPanicNext ==
    ASSUME OrderlyNode, BinariesStart, AgentInv, InOrder, Armed, NeverPanics,
           [Next]_vars
    PROVE  NeverPanics'
<1> USE AgentAssumption
<1>0. /\ main \in HandlerStates({"init", "loop", "undeploy", "fail", "drain",
                                 "halted", "panicked"})
      /\ main.pc \in {"undeploy", "fail"} => main.d \in Deploys
      /\ und.pc # "idle" => und.d \in Deploys /\ und # Idle
  BY DEF AgentInv, TypeInv, MainTypes, HandlerTypes, HandlerStates, Idle
<1>1. ASSUME UndeployCrashes \/ ShutdownCrashes PROVE FALSE
  <2>1. Settled /\ UndeployPanics(provider) /\ provider \in Deploys
    BY <1>0, <1>1 DEF UndeployCrashes, ShutdownCrashes, InOrder
  <2>2. dep = Idle /\ provider \notin Functions \cup cmd
    BY <2>1 DEF Settled, UndeployPanics, Native
  <2> QED
    BY <2>1, <2>2 DEF Armed, Idle
<1>2. CASE main' = main
  BY <1>2 DEF NeverPanics
<1>3. main' = main \/ main'.pc # "panicked"
  <2> USE DEF vars, mainVars
  <2>1. CASE Main
    BY <1>0, <1>1, <2>1 DEF Main, AgentStarts, AgentFailsToStart, ShutdownBegins,
       ShutdownUndeploys, ShutdownWaits, ShutdownHalts, HandlerStates
  <2>2. ASSUME NEW d \in Deploys, Monitor(d) \/ Workload(d) \/ WaitReturns(d)
        PROVE  main' = main \/ main'.pc # "panicked"
    BY <1>0, <2>2 DEF Monitor, MonitorReceivesFail, MonitorReceivesRun,
       MonitorReceivesExit, MonitorLogs, MonitorSaysStarted, MonitorSaysStopped,
       Workload, WorkloadExits, WorkloadWrites, WaitReturns, HandlerStates
  <2>3. CASE DeployHandler
    BY <2>3 DEF DeployHandler, DeployRefused, DeployHasNoProvider, DeployInits,
       DeployValidates, DeployInvalid, NativeStarts, NativeFailsToStart,
       FunctionStarts, FunctionFailsToStart, DeployAcks
  <2> QED
    BY <1>1, <2>1, <2>2, <2>3
    DEF Next, Node, Interrupt, SendDeploy, HandleUndeploy, UndeployHandler,
        UndeployDone, UndeployWaits, DispatchEvents, DispatchLogs
<1> QED
  BY <1>2, <1>3 DEF NeverPanics

\* The rules hold of every reachable state.
LEMMA OrderInvariant == Spec => []OrderInv
<1>1. Init => OrderInv
  <2> SUFFICES ASSUME Init PROVE OrderInv
    OBVIOUS
  <2>1. Signalled /\ InOrder /\ Armed /\ NeverPanics
    BY DEF Init, Signalled, InOrder, Armed, NeverPanics, Settled, Idle
  <2> QED
    BY <2>1, InvInit DEF OrderInv
<1>2. OrderInv /\ [Next]_vars => OrderInv'
  BY InvNext, SignalledNext, InOrderNext, ArmedNext, NoPanicNext DEF OrderInv
<1> QED
  BY <1>1, <1>2, PTL DEF Spec

\* The agent never panics: neither handleUndeploy nor shutdown calls Undeploy on
\* an ELF provider whose cmd is nil, from a node that does not interrupt or
\* undeploy during a deployment, and when binaries start.
THEOREM AgentNeverPanics ==
    ASSUME OrderlyNode, BinariesStart
    PROVE  Spec => []NeverPanics
<1>1. OrderInv => NeverPanics
  BY DEF OrderInv
<1> QED
  BY <1>1, OrderInvariant, PTL

\* An agent that halts has interrupted the process of its current provider, or
\* that process has ended, from a node that does not interrupt during a
\* deployment: shutdown's Undeploy is not lost to the undeploy handler that
\* wanted the same sync.Once, nor to a workload that ended meanwhile.
THEOREM AgentHaltInterrupts ==
    ASSUME OrderlyNode
    PROVE  Spec => []HaltInterruptsWorkload
<1>1. OrderInv => HaltInterruptsWorkload
  BY DEF OrderInv, InOrder, HaltInterruptsWorkload
<1> QED
  BY <1>1, OrderInvariant, PTL

=============================================================================
