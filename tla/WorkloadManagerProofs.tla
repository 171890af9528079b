----------------------- MODULE WorkloadManagerProofs -----------------------
(***************************************************************************)
(* The types and the safety properties of WorkloadManager, proved for every*)
(* pool size, every set of processes and requests and every environment,   *)
(* and the properties that only hold in normal use, for every set of       *)
(* processes and requests.                                                 *)
(***************************************************************************)
EXTENDS WorkloadManager, TLAPS

\* Most leaves are first-order; the rest is arithmetic or records.
USE ZenonT(3), SMT

-----------------------------------------------------------------------------
(***************************************************************************)
(* Types.  A handler or a call that is under way has a process and a       *)
(* request; only with that is TypeOK inductive.                            *)
(***************************************************************************)

Bound ==
    /\ spawner.pc \in {"spawned", "registered"} => spawner.proc \in Procs
    /\ dep.pc # "idle" => dep.agent \in Procs /\ dep.req \in Reqs
    /\ \A t \in Threads : call[t].pc # "idle" => call[t].id \in Procs

TypeInv == TypeOK /\ Bound

USE DEF vars, pmVars, wmVars, mapVars, clientVars, nodeVars, agentVars

LEMMA TypeInit == Init => TypeInv
<1> SUFFICES ASSUME Init PROVE TypeInv
  OBVIOUS
<1>1. PMTypeOK
  <2>1. warmProcs \in Seq(Procs)
    BY DEF Init, PMInit
  <2>2. procRequest \in Requests /\ deployRequests \in Requests
    BY DEF Init, PMInit, Requests
  <2>3. os \in [Procs -> ProcStates]
    BY DEF Init, PMInit, ProcStates
  <2> QED BY <2>1, <2>2, <2>3 DEF Init, PMInit, PMTypeOK
<1>2. dep \in DepStates /\ dep.pc = "idle"
  BY DEF Init, IdleDep, DepStates
<1>3. IdleCall \in CallStates /\ IdleCall.pc = "idle"
  BY DEF IdleCall, CallStates
<1>4. call \in [Threads -> CallStates] /\ \A t \in Threads : call[t].pc = "idle"
  BY <1>3 DEF Init
<1>5. mstop \in StopStates
  BY DEF Init, StopStates
<1>6. spawner.pc = "loop"
  BY DEF Init, PMInit
<1>7. TypeOK
  BY <1>1, <1>2, <1>4, <1>5 DEF Init, TypeOK
<1> QED
  BY <1>2, <1>4, <1>6, <1>7 DEF TypeInv, Bound

\* A goroutine's call record is replaced by another one.
LEMMA CallChange ==
    ASSUME TypeInv, NEW t \in Threads, NEW c \in CallStates,
           c.pc # "idle" => c.id \in Procs,
           call' = [call EXCEPT ![t] = c]
    PROVE  /\ call' \in [Threads -> CallStates]
           /\ \A u \in Threads : call'[u].pc # "idle" => call'[u].id \in Procs
BY DEF TypeInv, TypeOK, Bound

\* The call records made by the callers of StopWorkload.
LEMMA CallRecords ==
    /\ IdleCall \in CallStates
    /\ IdleCall.pc = "idle"
    /\ \A id \in Procs, u \in BOOLEAN :
         /\ StopCall(id, u) \in CallStates
         /\ StopCall(id, u).id = id
    /\ \A id \in Procs :
         /\ ProcStopCall(id) \in CallStates
         /\ ProcStopCall(id).id = id
BY DEF IdleCall, StopCall, ProcStopCall, CallStates

\* The DEPLOY handler goes on with the same request and agent.
LEMMA DepChange ==
    ASSUME TypeInv, dep.pc # "idle",
           NEW pc \in {"send", "await", "accepted", "rejected", "subscribe",
                       "stopping"}
    PROVE  /\ [dep EXCEPT !.pc = pc] \in DepStates
           /\ [dep EXCEPT !.pc = pc].pc = pc
           /\ [dep EXCEPT !.pc = pc].agent = dep.agent
           /\ [dep EXCEPT !.pc = pc].req = dep.req
BY DEF TypeInv, TypeOK, DepStates

LEMMA TypeSpawn ==
    ASSUME TypeInv, SpawnLoop
    PROVE  TypeInv'
<1> USE DEF TypeInv, TypeOK, PMTypeOK, Bound, Requests, ProcStates
<1>1. CASE Up /\ SpawnerReturns /\ UNCHANGED wmVars
  BY <1>1 DEF SpawnerReturns
<1>2. ASSUME NEW p \in Procs, Up /\ Spawn(p) /\ UNCHANGED wmVars
      PROVE  TypeInv'
  BY <1>2 DEF Spawn, CmdStart
<1>3. CASE RegisterProcess
  BY <1>3 DEF RegisterProcess, Register
<1>4. CASE Up /\ WarmSend /\ UNCHANGED wmVars
  BY <1>4 DEF WarmSend
<1> QED BY <1>1, <1>2, <1>3, <1>4 DEF SpawnLoop

LEMMA TypeClients ==
    ASSUME TypeInv, Clients
    PROVE  TypeInv'
<1> USE DEF TypeInv, TypeOK, PMTypeOK, Bound, Requests, ProcStates
<1> PICK p \in Procs :
        \/ OnProcessStarted(p)
        \/ HandleHandshake(p)
        \/ AwaitSucceeds(p)
        \/ AwaitExpires(p)
        \/ AgentHandshakeTimedOut(p)
        \/ AgentEvent(p)
  BY DEF Clients
<1>1. CASE OnProcessStarted(p)
  BY <1>1 DEF OnProcessStarted
<1>2. CASE HandleHandshake(p)
  BY <1>2 DEF HandleHandshake
<1>3. CASE AwaitSucceeds(p)
  BY <1>3 DEF AwaitSucceeds
<1>4. CASE AwaitExpires(p)
  BY <1>4 DEF AwaitExpires
<1>5. CASE AgentHandshakeTimedOut(p)
  BY <1>5 DEF AgentHandshakeTimedOut
<1>6. CASE AgentEvent(p)
  <2>1. p \in Threads
    BY DEF Threads
  <2>2. /\ call' \in [Threads -> CallStates]
        /\ \A u \in Threads : call'[u].pc # "idle" => call'[u].id \in Procs
    <3>1. call' = call \/ call' = [call EXCEPT ![p] = StopCall(p, FALSE)]
      BY <1>6 DEF AgentEvent
    <3>2. CASE call' = call
      BY <3>2
    <3>3. CASE call' = [call EXCEPT ![p] = StopCall(p, FALSE)]
      <4>1. StopCall(p, FALSE) \in CallStates /\ StopCall(p, FALSE).id = p
        BY CallRecords
      <4>2. TypeInv
        OBVIOUS
      <4> HIDE DEF TypeInv, TypeOK, PMTypeOK, Bound, Requests, ProcStates
      <4> QED BY <2>1, <3>3, <4>1, <4>2, CallChange
    <3> QED BY <3>1, <3>2, <3>3
  <2>3. events' \in [Procs -> Nat]
    BY <1>6 DEF AgentEvent
  <2> QED BY <1>6, <2>2, <2>3 DEF AgentEvent
<1> QED BY <1>1, <1>2, <1>3, <1>4, <1>5, <1>6

LEMMA TypeAgents ==
    ASSUME TypeInv, Agents
    PROVE  TypeInv'
<1> USE DEF TypeInv, TypeOK, PMTypeOK, Bound, Requests, ProcStates
<1> PICK p \in Procs :
        \/ HandshakeRetry(p)
        \/ HandshakeFails(p)
        \/ AgentReady(p)
        \/ AgentExits(p)
        \/ \E r \in Reqs : WorkloadExits(p, r) \/ AgentHandlesDeploy(p, r)
  BY DEF Agents
<1>1. CASE HandshakeRetry(p)
  BY <1>1 DEF HandshakeRetry
<1>2. CASE HandshakeFails(p)
  BY <1>2 DEF HandshakeFails, ProcessExits
<1>3. CASE AgentReady(p)
  BY <1>3 DEF AgentReady
<1>4. CASE AgentExits(p)
  BY <1>4 DEF AgentExits, ProcessExits
<1>5. ASSUME NEW r \in Reqs, WorkloadExits(p, r)
      PROVE  TypeInv'
  <2>1. running' \in [Procs -> SUBSET Reqs]
    BY <1>5 DEF WorkloadExits
  <2>2. events' \in [Procs -> Nat]
    BY <1>5 DEF WorkloadExits
  <2> QED BY <1>5, <2>1, <2>2 DEF WorkloadExits
<1>6. ASSUME NEW r \in Reqs, AgentHandlesDeploy(p, r)
      PROVE  TypeInv'
  <2>1. /\ dep' \in DepStates
        /\ dep'.pc # "idle" => dep'.agent \in Procs /\ dep'.req \in Reqs
    <3>1. \E pc \in {"accepted", "rejected"} : dep' = dep \/ dep' = Answer(r, pc)
      BY <1>6 DEF AgentHandlesDeploy
    <3>2. dep \in DepStates /\ (dep.pc # "idle" => dep.agent \in Procs /\ dep.req \in Reqs)
      OBVIOUS
    <3> HIDE DEF TypeInv, TypeOK, PMTypeOK, Bound
    <3>3. PICK pc \in {"accepted", "rejected"} : dep' = dep \/ dep' = Answer(r, pc)
      BY <3>1
    <3>4. CASE dep' = dep
      BY <3>2, <3>4
    <3>5. CASE dep' # dep
      <4>1. dep.pc = "await" /\ dep' = [dep EXCEPT !.pc = pc]
        BY <3>3, <3>5 DEF Answer
      <4>2. pc \in {"send", "await", "accepted", "rejected", "subscribe", "stopping"}
        OBVIOUS
      <4> QED BY <3>2, <4>1, <4>2, DepChange
    <3> QED BY <3>4, <3>5
  <2>2. inbox' \in [Procs -> SUBSET Reqs]
    <3>1. inbox' = [inbox EXCEPT ![p] = @ \ {r}]
      BY <1>6 DEF AgentHandlesDeploy
    <3> QED BY <3>1
  <2>3. running' \in [Procs -> SUBSET Reqs]
    <3>1. running' = running \/ running' = [running EXCEPT ![p] = @ \cup {r}]
      BY <1>6 DEF AgentHandlesDeploy
    <3>2. running \in [Procs -> SUBSET Reqs]
      OBVIOUS
    <3> HIDE DEF TypeInv, TypeOK, PMTypeOK, Bound
    <3> QED BY <3>1, <3>2
  <2>4. events' \in [Procs -> Nat]
    <3>1. \/ events' = events
          \/ events' = [events EXCEPT ![p] = IF p \in subscribed /\ r \notin TriggerReqs
                                             THEN @ + 1 ELSE @]
      BY <1>6 DEF AgentHandlesDeploy
    <3>2. events \in [Procs -> Nat]
      OBVIOUS
    <3> HIDE DEF TypeInv, TypeOK, PMTypeOK, Bound
    <3> QED BY <3>1, <3>2
  <2> QED BY <1>6, <2>1, <2>2, <2>3, <2>4 DEF AgentHandlesDeploy
<1> QED BY <1>1, <1>2, <1>3, <1>4, <1>5, <1>6

LEMMA TypeDeploy ==
    ASSUME TypeInv, DeployBegins \/ DeployProceeds
    PROVE  TypeInv'
<1> USE DEF TypeInv, TypeOK, PMTypeOK, Bound, Requests, ProcStates
<1>d. IdleDep \in DepStates /\ IdleDep.pc = "idle"
  BY DEF IdleDep, DepStates
<1>t. "deploy" \in Threads
  BY DEF Threads
<1>1. ASSUME NEW r \in Reqs, SelectFails(r)
      PROVE  TypeInv'
  BY <1>1 DEF SelectFails
<1>2. ASSUME NEW r \in Reqs, NEW a \in Procs, SelectRandomAgent(r, a)
      PROVE  TypeInv'
  BY <1>2 DEF SelectRandomAgent, DepStates
<1>3. CASE DeployPrepares
  <2>1. CASE PrepareWorkload(dep.agent, dep.req) /\ dep' = [dep EXCEPT !.pc = "send"]
    <3>1. Head(warmProcs) \in Procs /\ Tail(warmProcs) \in Seq(Procs)
      BY <2>1 DEF PrepareWorkload
    <3>2. dep.req \in Reqs
      BY <1>3 DEF DeployPrepares
    <3>3. procRequest' \in Requests /\ deployRequests' \in Requests
      BY <2>1, <3>1, <3>2 DEF PrepareWorkload
    <3>4. dep' \in DepStates /\ dep'.agent \in Procs /\ dep'.req \in Reqs
      BY <1>3, <2>1 DEF DeployPrepares, DepStates
    <3> QED BY <1>3, <2>1, <3>1, <3>3, <3>4 DEF DeployPrepares, PrepareWorkload
  <2>2. CASE PrepareTimesOut /\ dep' = IdleDep
    BY <1>d, <1>3, <2>2 DEF DeployPrepares, PrepareTimesOut
  <2> QED BY <1>3, <2>1, <2>2 DEF DeployPrepares
<1>4. CASE DeploySends
  <2>1. /\ dep' \in DepStates
        /\ dep'.pc # "idle" => dep'.agent \in Procs /\ dep'.req \in Reqs
    <3>1. dep' = IdleDep \/ dep' = [dep EXCEPT !.pc = "await"]
      BY <1>4 DEF DeploySends
    <3>2. dep.pc = "send" /\ dep \in DepStates /\ dep.agent \in Procs /\ dep.req \in Reqs
      BY <1>4 DEF DeploySends
    <3> HIDE DEF TypeInv, TypeOK, PMTypeOK, Bound, Requests, ProcStates
    <3>3. CASE dep' = IdleDep
      BY <1>d, <3>3
    <3>4. CASE dep' = [dep EXCEPT !.pc = "await"]
      BY <3>2, <3>4 DEF DepStates
    <3> QED BY <3>1, <3>3, <3>4
  <2>2. inbox' \in [Procs -> SUBSET Reqs]
    <3>1. dep.req \in Reqs
      BY <1>4 DEF DeploySends
    <3>2. inbox' = inbox \/ inbox' = [inbox EXCEPT ![dep.agent] = @ \cup {dep.req}]
      BY <1>4 DEF DeploySends
    <3>3. inbox \in [Procs -> SUBSET Reqs]
      OBVIOUS
    <3> HIDE DEF TypeInv, TypeOK, PMTypeOK, Bound
    <3> QED BY <3>1, <3>2, <3>3
  <2> QED BY <1>4, <2>1, <2>2 DEF DeploySends
<1>5. CASE DeployTimesOut
  BY <1>d, <1>5 DEF DeployTimesOut
<1>6. CASE DeployAccepted
  <2>1. /\ dep' \in DepStates
        /\ dep'.pc # "idle" => dep'.agent \in Procs /\ dep'.req \in Reqs
    BY <1>d, <1>6 DEF DeployAccepted, DepStates
  <2> QED BY <1>6, <2>1 DEF DeployAccepted
<1>7. CASE DeploySubscribes
  <2>1. /\ dep' \in DepStates
        /\ dep'.pc # "idle" => dep'.agent \in Procs /\ dep'.req \in Reqs
    BY <1>d, <1>7 DEF DeploySubscribes, DepStates
  <2>2. /\ call' \in [Threads -> CallStates]
        /\ \A u \in Threads : call'[u].pc # "idle" => call'[u].id \in Procs
    <3>1. dep.agent \in Procs
      BY <1>7 DEF DeploySubscribes
    <3>2. \/ call' = call
          \/ call' = [call EXCEPT !["deploy"] = StopCall(dep.agent, TRUE)]
      BY <1>7 DEF DeploySubscribes
    <3>3. CASE call' = call
      BY <3>3
    <3>4. CASE call' # call
      <4> HIDE DEF TypeInv, TypeOK, PMTypeOK, Bound
      <4> QED BY <1>t, <3>1, <3>2, <3>4, CallChange, CallRecords
    <3> QED BY <3>3, <3>4
  <2> QED BY <1>7, <2>1, <2>2 DEF DeploySubscribes
<1>8. CASE DeployRejected
  <2>1. /\ dep' \in DepStates
        /\ dep'.pc # "idle" => dep'.agent \in Procs /\ dep'.req \in Reqs
    BY <1>8 DEF DeployRejected, DepStates
  <2>2. /\ call' \in [Threads -> CallStates]
        /\ \A u \in Threads : call'[u].pc # "idle" => call'[u].id \in Procs
    BY <1>8, <1>t, CallChange, CallRecords DEF DeployRejected
  <2> QED BY <1>8, <2>1, <2>2 DEF DeployRejected
<1> QED BY <1>1, <1>2, <1>3, <1>4, <1>5, <1>6, <1>7, <1>8
        DEF DeployBegins, DeployProceeds

LEMMA TypeStop ==
    ASSUME TypeInv, NEW t \in Threads, StopWorkload(t)
    PROVE  TypeInv'
<1>d. IdleDep \in DepStates /\ IdleDep.pc = "idle"
  BY DEF IdleDep, DepStates
<1>c. call[t] \in CallStates /\ (call[t].pc # "idle" => call[t].id \in Procs)
  BY DEF TypeInv, TypeOK, Bound
<1>h. stopHolder \in [Procs -> Threads \cup {None}]
  BY DEF TypeInv, TypeOK
<1>p. ASSUME NEW pc \in {"lock", "kill", "signal"}, NEW f \in BOOLEAN,
             call[t].pc # "idle"
      PROVE  /\ [call[t] EXCEPT !.pc = pc] \in CallStates
             /\ [call[t] EXCEPT !.pc = pc].id = call[t].id
             /\ [call[t] EXCEPT !.pc = pc, !.found = f] \in CallStates
             /\ [call[t] EXCEPT !.pc = pc, !.found = f].id = call[t].id
  BY <1>c, <1>p DEF CallStates
<1> USE DEF TypeInv, TypeOK, PMTypeOK, Bound, Requests, ProcStates
<1>r. ASSUME call[t].pc # "idle", StopReturns(t)
      PROVE  /\ call' \in [Threads -> CallStates]
             /\ \A u \in Threads : call'[u].pc # "idle" => call'[u].id \in Procs
             /\ dep' \in DepStates
             /\ dep'.pc # "idle" => dep'.agent \in Procs /\ dep'.req \in Reqs
             /\ subscribed' \subseteq Procs
             /\ stopHolder' \in [Procs -> Threads \cup {None}]
  <2>1. call' = [call EXCEPT ![t] = IdleCall]
    BY <1>r DEF StopReturns
  <2>2. /\ call' \in [Threads -> CallStates]
        /\ \A u \in Threads : call'[u].pc # "idle" => call'[u].id \in Procs
    BY <2>1, CallChange, CallRecords
  <2> QED BY <1>d, <1>r, <2>2 DEF StopReturns
<1>1. CASE StopEnters(t)
  <2>1. /\ call' \in [Threads -> CallStates]
        /\ \A u \in Threads : call'[u].pc # "idle" => call'[u].id \in Procs
    <3>1. \/ call' = call
          \/ call' = [call EXCEPT ![t] = [call[t] EXCEPT
                        !.pc = "lock", !.found = Lookup(call[t].id) # None]]
      BY <1>1 DEF StopEnters, Panic
    <3>2. CASE call' = call
      BY <3>2
    <3>3. CASE call' # call
      <4> HIDE DEF TypeInv, TypeOK, PMTypeOK, Bound
      <4>1. call[t].pc # "idle" /\ call[t].id \in Procs
        BY <1>c, <1>1 DEF StopEnters
      <4> QED BY <1>p, <3>1, <3>3, <4>1, CallChange
    <3> QED BY <3>2, <3>3
  <2> QED BY <1>1, <2>1 DEF StopEnters, Panic
<1>2. CASE StopLocks(t)
  <2>1. /\ call' \in [Threads -> CallStates]
        /\ \A u \in Threads : call'[u].pc # "idle" => call'[u].id \in Procs
    <3>1. \/ call' = call
          \/ call' = [call EXCEPT ![t] = [call[t] EXCEPT !.pc = "kill"]]
      BY <1>2 DEF StopLocks, Panic
    <3>2. CASE call' = call
      BY <3>2
    <3>3. CASE call' # call
      <4> HIDE DEF TypeInv, TypeOK, PMTypeOK, Bound
      <4>1. call[t].pc # "idle" /\ call[t].id \in Procs
        BY <1>c, <1>2 DEF StopLocks
      <4> QED BY <1>p, <3>1, <3>3, <4>1, CallChange
    <3> QED BY <3>2, <3>3
  <2>2. stopHolder' \in [Procs -> Threads \cup {None}] /\ panicked' \in BOOLEAN
    <3>1. stopHolder' = stopHolder \/ stopHolder' = [stopHolder EXCEPT ![call[t].id] = t]
      BY <1>2 DEF StopLocks, Panic
    <3>2. panicked' = TRUE \/ panicked' = panicked
      BY <1>2 DEF StopLocks, Panic
    <3>3. panicked \in BOOLEAN
      OBVIOUS
    <3> HIDE DEF TypeInv, TypeOK, PMTypeOK, Bound
    <3> QED BY <1>h, <3>1, <3>2, <3>3
  <2>3. UNCHANGED <<pmVars, mapVars, clientVars, dep, mstop, usedReqs, agentVars>>
    BY <1>2 DEF StopLocks, Panic
  <2> QED BY <2>1, <2>2, <2>3
<1>3. CASE StopKills(t)
  <2>1. CASE StopProcessNoSuch(call[t].id) /\ StopReturns(t)
             /\ UNCHANGED <<activeAgents, stopMutex, published>>
    BY <1>3, <1>r, <2>1 DEF StopKills, StopReturns, StopProcessNoSuch
  <2>2. CASE StopProcessFinds(call[t].id)
             /\ call' = [call EXCEPT ![t].pc = "signal"]
             /\ UNCHANGED <<mapVars, clientVars, stopHolder, dep, mstop,
                            usedReqs, panicked, agentVars>>
    <3>1. call' = [call EXCEPT ![t] = [call[t] EXCEPT !.pc = "signal"]]
      BY <2>2
    <3>2. /\ call' \in [Threads -> CallStates]
          /\ \A u \in Threads : call'[u].pc # "idle" => call'[u].id \in Procs
      BY <1>3, <1>p, <3>1, CallChange DEF StopKills
    <3> QED BY <2>2, <3>2 DEF StopProcessFinds
  <2> QED BY <1>3, <2>1, <2>2 DEF StopKills
<1>4. CASE StopSignals(t)
  <2>1. call[t].pc # "idle" /\ StopReturns(t)
    BY <1>4 DEF StopSignals
  <2>2. call[t].id \in Procs
    BY <2>1
  <2>3. /\ activeAgents' \subseteq Procs
        /\ stopMutex' \subseteq Procs
        /\ published' \subseteq Procs
        /\ PMTypeOK'
    BY <1>4, <2>2 DEF StopSignals, StopProcessKillFails, StopProcessOk,
                      StopForgets, PublishWorkloadStopped
  <2>4. UNCHANGED spawner
    BY <1>4 DEF StopSignals, StopProcessKillFails, StopProcessOk
  <2> QED BY <1>r, <2>1, <2>3, <2>4 DEF StopReturns
<1> QED BY <1>1, <1>2, <1>3, <1>4 DEF StopWorkload

LEMMA TypeManager ==
    ASSUME TypeInv, ManagerStop \/ \E id \in Procs : HandleStop(id)
    PROVE  TypeInv'
<1> USE DEF TypeInv, TypeOK, PMTypeOK, Bound, Requests, ProcStates
<1>t. "shutdown" \in Threads /\ "api" \in Threads
  BY DEF Threads
<1>1. ASSUME NEW id \in Procs, HandleStop(id)
      PROVE  TypeInv'
  <2>1. /\ call' \in [Threads -> CallStates]
        /\ \A u \in Threads : call'[u].pc # "idle" => call'[u].id \in Procs
    <3> HIDE DEF TypeInv, TypeOK, PMTypeOK, Bound
    <3>1. call' = [call EXCEPT !["api"] = StopCall(id, TRUE)]
      BY <1>1 DEF HandleStop
    <3> QED BY <1>t, <3>1, CallChange, CallRecords
  <2> QED BY <1>1, <2>1 DEF HandleStop
<1>2. CASE ManagerStops
  BY <1>2 DEF ManagerStops, StopStates
<1>3. ASSUME NEW id \in Procs, ManagerStopsNext(id)
      PROVE  TypeInv'
  <2>1. /\ call' \in [Threads -> CallStates]
        /\ \A u \in Threads : call'[u].pc # "idle" => call'[u].id \in Procs
    <3> HIDE DEF TypeInv, TypeOK, PMTypeOK, Bound
    <3> QED BY <1>3, <1>t, CallChange, CallRecords DEF ManagerStopsNext
  <2>2. mstop' \in StopStates
    BY <1>3 DEF ManagerStopsNext, StopStates
  <2> QED BY <1>3, <2>1, <2>2 DEF ManagerStopsNext
<1>4. CASE ManagerStopsProcesses
  BY <1>4 DEF ManagerStopsProcesses, PMStopBegins, StopStates
<1>5. ASSUME NEW id \in Procs, ManagerStopsProcess(id)
      PROVE  TypeInv'
  <2>1. /\ call' \in [Threads -> CallStates]
        /\ \A u \in Threads : call'[u].pc # "idle" => call'[u].id \in Procs
    <3> HIDE DEF TypeInv, TypeOK, PMTypeOK, Bound
    <3> QED BY <1>5, <1>t, CallChange, CallRecords DEF ManagerStopsProcess
  <2>2. mstop' \in StopStates
    BY <1>5 DEF ManagerStopsProcess, StopStates
  <2> QED BY <1>5, <2>1, <2>2 DEF ManagerStopsProcess, StopProcessFinds
<1>6. CASE ManagerSignalsProcess
  <2>1. /\ call' \in [Threads -> CallStates]
        /\ \A u \in Threads : call'[u].pc # "idle" => call'[u].id \in Procs
    BY <1>6, <1>t, CallChange, CallRecords DEF ManagerSignalsProcess
  <2> QED BY <1>6, <2>1 DEF ManagerSignalsProcess, StopProcessKillFails,
                            StopProcessOk
<1>7. CASE ManagerStopped
  BY <1>7 DEF ManagerStopped, StopStates
<1> QED BY <1>1, <1>2, <1>3, <1>4, <1>5, <1>6, <1>7 DEF ManagerStop

LEMMA TypeNext == TypeInv /\ [Next]_vars => TypeInv'
<1> SUFFICES ASSUME TypeInv, [Next]_vars PROVE TypeInv'
  OBVIOUS
<1>1. CASE UNCHANGED vars
  BY <1>1 DEF TypeInv, TypeOK, PMTypeOK, Bound
<1> QED BY <1>1, TypeSpawn, TypeClients, TypeAgents, TypeDeploy, TypeStop,
           TypeManager DEF Next

\* Every variable keeps its type, in every environment.
THEOREM TypeCorrect == Spec => []TypeOK
<1>1. TypeInv => TypeOK
  BY DEF TypeInv
<1> QED BY <1>1, TypeInit, TypeNext, PTL DEF Spec


-----------------------------------------------------------------------------
(***************************************************************************)
(* The inductive invariant: where a process may be known while it is young *)
(* and which requests may still be attached to one.                        *)
(***************************************************************************)

\* The spawn loop has started p and not registered it yet.
Spawned(p) == spawner.pc = "spawned" /\ spawner.proc = p

\* No goroutine but the spawn loop can have heard of p.
Unknown(p) ==
    /\ p \notin liveProcs
    /\ p \notin starting
    /\ p \notin pendingAgents
    /\ p \notin activeAgents
    /\ p # dep.agent
    /\ \A t \in Threads : call[t].pc = "signal" => call[t].id # p

\* p holds no request and is not in the channel.
Fresh(p) ==
    /\ procRequest[p] = None
    /\ \A i \in 1..Len(warmProcs) : warmProcs[i] # p

YoungIsUnknown ==
    \A p \in Procs : os[p] = "unborn" \/ Spawned(p) => Unknown(p) /\ Fresh(p)

RegisteredIsFresh ==
    spawner.pc \in {"spawned", "registered"} =>
        os[spawner.proc] # "unborn" /\ Fresh(spawner.proc)

WarmIsUnprepared ==
    /\ \A i \in 1..Len(warmProcs) : procRequest[warmProcs[i]] = None
    /\ \A i, j \in 1..Len(warmProcs) : warmProcs[i] = warmProcs[j] => i = j

SignalledIsGone ==
    \A p \in Procs : os[p] = "signalled" => p \notin liveProcs /\ ~Spawned(p)

ClientsInOrder ==
    /\ starting \cap (pendingAgents \cup activeAgents) = {}
    /\ dep.agent \notin starting

RequestsOnce ==
    /\ \A p \in Procs : procRequest[p] \in usedReqs \cup {None}
    /\ dep.pc = "prepare" =>
         dep.req \in usedReqs /\ \A p \in Procs : procRequest[p] # dep.req
    /\ \A p, q \in Procs :
         procRequest[p] # None /\ procRequest[p] = procRequest[q] => p = q

Safe ==
    /\ NoOrphans
    /\ PoolBounded
    /\ PendingOrActive
    /\ YoungIsUnknown
    /\ RegisteredIsFresh
    /\ WarmIsUnprepared
    /\ SignalledIsGone
    /\ ClientsInOrder
    /\ RequestsOnce

\* What the proofs of Safe use of the types.
LEMMA SafeTypes ==
    ASSUME TypeInv
    PROVE  /\ warmProcs \in Seq(Procs)
           /\ procRequest \in [Procs -> Reqs \cup {None}]
           /\ os \in [Procs -> {"unborn", "running", "signalled", "exited"}]
           /\ liveProcs \subseteq Procs
           /\ starting \subseteq Procs
           /\ pendingAgents \subseteq Procs
           /\ activeAgents \subseteq Procs
           /\ dep.agent \in Procs \cup {None}
           /\ dep.pc # "idle" => dep.agent \in Procs /\ dep.req \in Reqs
           /\ spawner.pc \in {"spawned", "registered"} => spawner.proc \in Procs
           /\ \A t \in Threads : call[t].pc = "signal" => call[t].id \in Procs
<1>1. dep.agent \in Procs \cup {None}
  BY DEF TypeInv, TypeOK, DepStates
<1> QED BY <1>1 DEF TypeInv, TypeOK, PMTypeOK, Bound, Requests, ProcStates

LEMMA SafeInit == Init => Safe
BY PoolAssumption
   DEF Init, PMInit, IdleDep, IdleCall, Safe, NoOrphans, PoolBounded,
       PendingOrActive, YoungIsUnknown, Spawned, Unknown, Fresh,
       RegisteredIsFresh, WarmIsUnprepared, SignalledIsGone, ClientsInOrder,
       RequestsOnce

\* Steps that learn of no new process: clients are only dropped, a process
\* can only exit, the DEPLOY handler keeps or gives up its agent, and nobody
\* new is about to signal a process.
LEMMA SafeFrame ==
    ASSUME TypeInv, Safe,
           UNCHANGED <<liveProcs, warmProcs, procRequest, spawner, starting,
                       usedReqs>>,
           \A p \in Procs : \/ os'[p] = os[p]
                            \/ os[p] # "unborn" /\ os'[p] = "exited",
           pendingAgents' \subseteq pendingAgents,
           activeAgents' \subseteq activeAgents,
           \/ dep' = dep
           \/ dep'.agent \in {dep.agent, None} /\ dep'.pc # "prepare",
           \A t \in Threads :
               call'[t].pc = "signal" =>
                   call[t].pc = "signal" /\ call'[t].id = call[t].id
    PROVE  Safe'
<1>t. None \notin Procs
  BY PoolAssumption
<1>1. NoOrphans'
  BY DEF Safe, NoOrphans
<1>2. PoolBounded' /\ PendingOrActive'
  BY DEF Safe, PoolBounded, PendingOrActive
<1>3. YoungIsUnknown'
  BY <1>t, SafeTypes DEF Safe, YoungIsUnknown, Spawned, Unknown, Fresh
<1>4. RegisteredIsFresh'
  BY SafeTypes DEF Safe, RegisteredIsFresh, Fresh
<1>5. WarmIsUnprepared' /\ SignalledIsGone'
  BY DEF Safe, WarmIsUnprepared, SignalledIsGone, Spawned
<1>6. ClientsInOrder'
  BY <1>t, SafeTypes DEF Safe, ClientsInOrder
<1>7. RequestsOnce'
  BY DEF Safe, RequestsOnce
<1> QED BY <1>1, <1>2, <1>3, <1>4, <1>5, <1>6, <1>7 DEF Safe

\* The second part of StopProcess, whoever calls it.
LEMMA SafeSignal ==
    ASSUME TypeInv, Safe, NEW t \in Threads, call[t].pc = "signal",
           StopProcessOk(call[t].id),
           UNCHANGED <<pendingAgents, starting, usedReqs>>,
           activeAgents' \subseteq activeAgents,
           \/ dep' = dep
           \/ dep'.agent \in {dep.agent, None} /\ dep'.pc # "prepare",
           \A u \in Threads :
               call'[u].pc = "signal" =>
                   call[u].pc = "signal" /\ call'[u].id = call[u].id
    PROVE  Safe'
<1>t. None \notin Procs
  BY PoolAssumption
<1> DEFINE id == call[t].id
<1>i. /\ id \in Procs /\ os[id] # "unborn" /\ ~Spawned(id)
      /\ os' = [os EXCEPT ![id] = "signalled"]
      /\ liveProcs' = liveProcs \ {id}
      /\ UNCHANGED <<warmProcs, procRequest, spawner>>
  BY SafeTypes DEF StopProcessOk, Safe, YoungIsUnknown, Unknown
<1> HIDE DEF id
<1>1. NoOrphans'
  BY <1>i, SafeTypes DEF Safe, NoOrphans
<1>2. PoolBounded' /\ PendingOrActive'
  BY <1>i DEF Safe, PoolBounded, PendingOrActive
<1>3. YoungIsUnknown'
  BY <1>t, <1>i, SafeTypes DEF Safe, YoungIsUnknown, Spawned, Unknown, Fresh
<1>4. RegisteredIsFresh'
  BY <1>i, SafeTypes DEF Safe, RegisteredIsFresh, Fresh
<1>5. WarmIsUnprepared' /\ SignalledIsGone'
  BY <1>i, SafeTypes DEF Safe, WarmIsUnprepared, SignalledIsGone, Spawned
<1>6. ClientsInOrder'
  BY <1>t, SafeTypes DEF Safe, ClientsInOrder
<1>7. RequestsOnce'
  BY <1>i DEF Safe, RequestsOnce
<1> QED BY <1>1, <1>2, <1>3, <1>4, <1>5, <1>6, <1>7 DEF Safe

LEMMA SafeSpawn ==
    ASSUME TypeInv, Safe, SpawnLoop
    PROVE  Safe'
<1>1. CASE Up /\ SpawnerReturns /\ UNCHANGED wmVars
  BY <1>1, SafeTypes DEF SpawnerReturns, Safe, NoOrphans, PoolBounded,
     PendingOrActive, YoungIsUnknown, Spawned, Unknown, Fresh,
     RegisteredIsFresh, WarmIsUnprepared, SignalledIsGone, ClientsInOrder,
     RequestsOnce
<1>2. ASSUME NEW p \in Procs, Up /\ Spawn(p) /\ UNCHANGED wmVars
      PROVE  Safe'
  <2>1. Unknown(p) /\ Fresh(p)
    BY <1>2 DEF Spawn, CmdStart, Safe, YoungIsUnknown
  <2>2. NoOrphans' /\ PendingOrActive'
    BY <1>2, SafeTypes DEF Spawn, CmdStart, Safe, NoOrphans, PendingOrActive
  <2>3. PoolBounded'
    <3>1. Len(warmProcs) \in Nat
      BY SafeTypes
    <3> QED BY <1>2, <3>1, PoolAssumption DEF Spawn, CmdStart, Safe, PoolBounded
  <2>4. YoungIsUnknown'
    BY <1>2, <2>1, SafeTypes DEF Spawn, CmdStart, Safe, YoungIsUnknown, Spawned, Unknown, Fresh
  <2>5. RegisteredIsFresh'
    BY <1>2, <2>1, SafeTypes DEF Spawn, CmdStart, Safe, RegisteredIsFresh, Fresh
  <2>6. WarmIsUnprepared' /\ SignalledIsGone'
    BY <1>2, <2>1, SafeTypes DEF Spawn, CmdStart, Safe, WarmIsUnprepared, SignalledIsGone,
                                 Spawned, Unknown
  <2>7. ClientsInOrder' /\ RequestsOnce'
    BY <1>2 DEF Spawn, CmdStart, Safe, ClientsInOrder, RequestsOnce
  <2> QED BY <2>2, <2>3, <2>4, <2>5, <2>6, <2>7 DEF Safe
<1>3. CASE RegisterProcess
  <2>1. /\ spawner.pc = "spawned" /\ spawner.proc \in Procs
        /\ spawner'.pc = "registered" /\ spawner'.proc = spawner.proc
    BY <1>3, SafeTypes DEF RegisterProcess, Register, TypeInv, TypeOK, PMTypeOK
  <2>2. Unknown(spawner.proc)
    BY <2>1 DEF Safe, YoungIsUnknown, Spawned
  <2>3. /\ liveProcs' = liveProcs \cup {spawner.proc}
        /\ starting' = starting \cup {spawner.proc}
        /\ UNCHANGED <<warmProcs, procRequest, os, pendingAgents, activeAgents,
                       dep, call, usedReqs>>
    BY <1>3 DEF RegisterProcess, Register
  <2>4. NoOrphans' /\ PoolBounded' /\ PendingOrActive'
    BY <2>1, <2>3 DEF Safe, NoOrphans, PoolBounded, PendingOrActive
  <2>5. YoungIsUnknown'
    BY <2>1, <2>3 DEF Safe, YoungIsUnknown, RegisteredIsFresh, Spawned, Unknown, Fresh
  <2>6. RegisteredIsFresh' /\ WarmIsUnprepared'
    BY <2>1, <2>3 DEF Safe, RegisteredIsFresh, WarmIsUnprepared, Fresh
  <2>7. SignalledIsGone'
    BY <2>1, <2>3 DEF Safe, SignalledIsGone, Spawned
  <2>8. ClientsInOrder'
    BY <2>2, <2>3 DEF Safe, ClientsInOrder, Unknown
  <2>9. RequestsOnce'
    BY <2>3 DEF Safe, RequestsOnce
  <2> QED BY <2>4, <2>5, <2>6, <2>7, <2>8, <2>9 DEF Safe
<1>4. CASE Up /\ WarmSend /\ UNCHANGED wmVars
  <2>1. /\ spawner.pc = "registered" /\ spawner'.pc = "loop"
        /\ spawner.proc \in Procs
        /\ warmProcs' = Append(warmProcs, spawner.proc)
        /\ Len(warmProcs) < PoolSize
        /\ UNCHANGED <<liveProcs, procRequest, os, pendingAgents, activeAgents,
                       starting, dep, call, usedReqs>>
    BY <1>4, SafeTypes DEF WarmSend
  <2>2. /\ Len(warmProcs) \in Nat
        /\ Len(warmProcs') = Len(warmProcs) + 1
        /\ \A i \in 1..Len(warmProcs') :
             warmProcs'[i] = IF i = Len(warmProcs) + 1 THEN spawner.proc
                             ELSE warmProcs[i]
    BY <2>1, SafeTypes
  <2>3. Fresh(spawner.proc) /\ os[spawner.proc] # "unborn"
    BY <2>1 DEF Safe, RegisteredIsFresh
  <2>4. NoOrphans' /\ PoolBounded' /\ PendingOrActive'
    BY <2>1, <2>2, PoolAssumption DEF Safe, NoOrphans, PoolBounded, PendingOrActive
  <2>5. YoungIsUnknown'
    BY <2>1, <2>2, <2>3 DEF Safe, YoungIsUnknown, Spawned, Unknown, Fresh
  <2>6. RegisteredIsFresh' /\ SignalledIsGone' /\ ClientsInOrder' /\ RequestsOnce'
    BY <2>1 DEF Safe, RegisteredIsFresh, SignalledIsGone, Spawned, ClientsInOrder,
                RequestsOnce
  <2>7. WarmIsUnprepared'
    BY <2>1, <2>2, <2>3 DEF Safe, WarmIsUnprepared, Fresh
  <2> QED BY <2>4, <2>5, <2>6, <2>7 DEF Safe
<1> QED BY <1>1, <1>2, <1>3, <1>4 DEF SpawnLoop

LEMMA SafeClients ==
    ASSUME TypeInv, Safe, Clients
    PROVE  Safe'
<1> PICK p \in Procs :
        \/ OnProcessStarted(p)
        \/ HandleHandshake(p)
        \/ AwaitSucceeds(p)
        \/ AwaitExpires(p)
        \/ AgentHandshakeTimedOut(p)
        \/ AgentEvent(p)
  BY DEF Clients
<1>1. CASE OnProcessStarted(p)
  <2>1. NoOrphans' /\ PoolBounded'
    BY <1>1 DEF OnProcessStarted, Safe, NoOrphans, PoolBounded
  <2>2. PendingOrActive' /\ ClientsInOrder'
    BY <1>1 DEF OnProcessStarted, Safe, PendingOrActive, ClientsInOrder
  <2>3. YoungIsUnknown'
    BY <1>1 DEF OnProcessStarted, Safe, YoungIsUnknown, Spawned, Unknown, Fresh
  <2>4. RegisteredIsFresh' /\ WarmIsUnprepared' /\ SignalledIsGone' /\ RequestsOnce'
    BY <1>1 DEF OnProcessStarted, Safe, RegisteredIsFresh, Fresh, WarmIsUnprepared,
                SignalledIsGone, Spawned, RequestsOnce
  <2> QED BY <2>1, <2>2, <2>3, <2>4 DEF Safe
<1>2. CASE HandleHandshake(p)
  BY <1>2, SafeFrame DEF HandleHandshake
<1>3. CASE AwaitSucceeds(p)
  BY <1>3, SafeFrame DEF AwaitSucceeds
<1>4. CASE AwaitExpires(p)
  BY <1>4, SafeFrame DEF AwaitExpires
<1>5. CASE AgentHandshakeTimedOut(p)
  BY <1>5, SafeFrame DEF AgentHandshakeTimedOut
<1>6. CASE AgentEvent(p)
  <2>1. \A t \in Threads :
            call'[t].pc = "signal" =>
                call[t].pc = "signal" /\ call'[t].id = call[t].id
    BY <1>6 DEF AgentEvent, StopCall, TypeInv, TypeOK
  <2> QED BY <1>6, <2>1, SafeFrame DEF AgentEvent
<1> QED BY <1>1, <1>2, <1>3, <1>4, <1>5, <1>6

LEMMA SafeAgents ==
    ASSUME TypeInv, Safe, Agents
    PROVE  Safe'
<1> PICK p \in Procs :
        \/ HandshakeRetry(p)
        \/ HandshakeFails(p)
        \/ AgentReady(p)
        \/ AgentExits(p)
        \/ \E r \in Reqs : WorkloadExits(p, r) \/ AgentHandlesDeploy(p, r)
  BY DEF Agents
<1>1. CASE HandshakeRetry(p)
  BY <1>1, SafeFrame DEF HandshakeRetry
<1>2. CASE HandshakeFails(p)
  BY <1>2, SafeFrame, SafeTypes DEF HandshakeFails, ProcessExits
<1>3. CASE AgentReady(p)
  BY <1>3, SafeFrame DEF AgentReady
<1>4. CASE AgentExits(p)
  BY <1>4, SafeFrame, SafeTypes DEF AgentExits, ProcessExits
<1>5. ASSUME NEW r \in Reqs, WorkloadExits(p, r)
      PROVE  Safe'
  BY <1>5, SafeFrame DEF WorkloadExits
<1>6. ASSUME NEW r \in Reqs, AgentHandlesDeploy(p, r)
      PROVE  Safe'
  <2>1. \/ dep' = dep
        \/ dep'.agent = dep.agent /\ dep'.pc # "prepare"
    BY <1>6 DEF AgentHandlesDeploy, Answer, TypeInv, TypeOK, DepStates
  <2> QED BY <1>6, <2>1, SafeFrame DEF AgentHandlesDeploy
<1> QED BY <1>1, <1>2, <1>3, <1>4, <1>5, <1>6

LEMMA SafeDeploy ==
    ASSUME TypeInv, Safe, DeployBegins \/ DeployProceeds
    PROVE  Safe'
<1>t. None \notin Procs
  BY PoolAssumption
<1>d. IdleDep.agent = None /\ IdleDep.pc = "idle"
  BY DEF IdleDep
<1>1. ASSUME NEW r \in Reqs, SelectFails(r)
      PROVE  Safe'
  <2>1. RequestsOnce'
    BY <1>1 DEF SelectFails, PoolFree, Safe, RequestsOnce
  <2>2. NoOrphans' /\ PoolBounded' /\ PendingOrActive' /\ YoungIsUnknown'
    BY <1>1 DEF SelectFails, Safe, NoOrphans, PoolBounded, PendingOrActive,
                YoungIsUnknown, Spawned, Unknown, Fresh
  <2>3. RegisteredIsFresh' /\ WarmIsUnprepared' /\ SignalledIsGone' /\ ClientsInOrder'
    BY <1>1 DEF SelectFails, Safe, RegisteredIsFresh, Fresh, WarmIsUnprepared,
                SignalledIsGone, Spawned, ClientsInOrder
  <2> QED BY <2>1, <2>2, <2>3 DEF Safe
<1>2. ASSUME NEW r \in Reqs, NEW a \in Procs, SelectRandomAgent(r, a)
      PROVE  Safe'
  <2>1. dep'.agent = a /\ dep'.req = r /\ dep'.pc = "prepare"
    BY <1>2 DEF SelectRandomAgent
  <2>2. r # None
    BY PoolAssumption
  <2>3. RequestsOnce'
    BY <1>2, <2>1, <2>2 DEF SelectRandomAgent, Safe, RequestsOnce
  <2>4. YoungIsUnknown'
    BY <1>2, <2>1 DEF SelectRandomAgent, Safe, YoungIsUnknown, Spawned, Unknown, Fresh
  <2>5. ClientsInOrder'
    BY <1>2, <2>1 DEF SelectRandomAgent, Safe, ClientsInOrder
  <2>6. NoOrphans' /\ PoolBounded' /\ PendingOrActive'
    BY <1>2 DEF SelectRandomAgent, Safe, NoOrphans, PoolBounded, PendingOrActive
  <2>7. RegisteredIsFresh' /\ WarmIsUnprepared' /\ SignalledIsGone'
    BY <1>2 DEF SelectRandomAgent, Safe, RegisteredIsFresh, Fresh, WarmIsUnprepared,
                SignalledIsGone, Spawned
  <2> QED BY <2>3, <2>4, <2>5, <2>6, <2>7 DEF Safe
<1>3. CASE DeployPrepares
  <2>1. CASE PrepareWorkload(dep.agent, dep.req) /\ dep' = [dep EXCEPT !.pc = "send"]
    <3> DEFINE p == warmProcs[1]
    <3>1. /\ Len(warmProcs) \in Nat /\ Len(warmProcs) > 0
          /\ p \in Procs /\ p = Head(warmProcs)
          /\ Len(warmProcs') = Len(warmProcs) - 1
          /\ \A i \in 1..Len(warmProcs') : warmProcs'[i] = warmProcs[i + 1]
      BY <2>1, SafeTypes DEF PrepareWorkload
    <3>2. /\ procRequest' = [procRequest EXCEPT ![p] = dep.req]
          /\ UNCHANGED <<liveProcs, spawner, os, pendingAgents, activeAgents,
                         starting, call, usedReqs>>
      BY <1>3, <2>1, <3>1 DEF DeployPrepares, PrepareWorkload
    <3>3. dep'.agent = dep.agent /\ dep'.pc = "send"
      BY <1>3, <2>1, DepChange DEF DeployPrepares
    <3>4. /\ dep.req \in Reqs /\ dep.req # None /\ dep.req \in usedReqs
          /\ \A q \in Procs : procRequest[q] # dep.req
      BY <1>3, SafeTypes, PoolAssumption DEF DeployPrepares, Safe, RequestsOnce
    <3>5. os[p] # "unborn" /\ ~Spawned(p) /\ ~(spawner.pc = "registered" /\ spawner.proc = p)
      BY <3>1 DEF Safe, YoungIsUnknown, RegisteredIsFresh, Fresh
    <3> HIDE DEF p
    <3>6. NoOrphans' /\ PendingOrActive' /\ PoolBounded'
      BY <3>1, <3>2, PoolAssumption DEF Safe, NoOrphans, PendingOrActive, PoolBounded
    <3>7. YoungIsUnknown'
      <4> SUFFICES ASSUME NEW q \in Procs, os[q] = "unborn" \/ Spawned(q)
                   PROVE  Unknown(q)' /\ Fresh(q)'
        BY <3>2 DEF YoungIsUnknown, Spawned
      <4>1. Unknown(q) /\ Fresh(q) /\ q # p
        BY <3>5 DEF Safe, YoungIsUnknown
      <4>2. Unknown(q)'
        BY <3>2, <3>3, <4>1 DEF Unknown
      <4>3. procRequest'[q] = None
        BY <3>2, <4>1, SafeTypes DEF Fresh
      <4>4. \A i \in 1..Len(warmProcs') : warmProcs'[i] # q
        <5>1. \A i \in 1..Len(warmProcs') : i + 1 \in 1..Len(warmProcs)
          BY <3>1
        <5> QED BY <3>1, <4>1, <5>1 DEF Fresh
      <4> QED BY <4>2, <4>3, <4>4 DEF Fresh
    <3>8. RegisteredIsFresh'
      <4>1. spawner.pc \in {"spawned", "registered"} =>
                /\ spawner.proc \in Procs \ {p}
                /\ os[spawner.proc] # "unborn"
                /\ procRequest[spawner.proc] = None
                /\ \A i \in 1..Len(warmProcs) : warmProcs[i] # spawner.proc
        BY <3>5, SafeTypes DEF Safe, RegisteredIsFresh, Fresh, Spawned
      <4>2. \A i \in 1..Len(warmProcs') : i + 1 \in 1..Len(warmProcs)
        BY <3>1
      <4>3. \A q \in Procs \ {p} : procRequest'[q] = procRequest[q]
        BY <3>2, SafeTypes
      <4> QED BY <3>1, <3>2, <4>1, <4>2, <4>3 DEF RegisteredIsFresh, Fresh
    <3>9. WarmIsUnprepared'
      <4>1. \A i \in 1..Len(warmProcs') : i + 1 \in 1..Len(warmProcs) /\ i + 1 # 1
        BY <3>1
      <4>2. \A i \in 1..Len(warmProcs') : warmProcs'[i] # p /\ warmProcs'[i] \in Procs
        <5> SUFFICES ASSUME NEW i \in 1..Len(warmProcs')
                     PROVE  warmProcs'[i] # p /\ warmProcs'[i] \in Procs
          OBVIOUS
        <5>1. warmProcs'[i] = warmProcs[i + 1] /\ i + 1 \in 1..Len(warmProcs)
          BY <3>1, <4>1
        <5>2. 1 \in 1..Len(warmProcs)
          BY <3>1
        <5>3. warmProcs[i + 1] # warmProcs[1]
          BY <4>1, <5>1, <5>2 DEF Safe, WarmIsUnprepared
        <5>4. warmProcs[i + 1] \in Procs
          BY <5>1, SafeTypes
        <5> QED BY <5>1, <5>3, <5>4 DEF p
      <4>3. \A q \in Procs \ {p} : procRequest'[q] = procRequest[q]
        BY <3>2, SafeTypes
      <4>4. WarmIsUnprepared
        BY DEF Safe
      <4>5. \A i \in 1..Len(warmProcs') : procRequest[warmProcs'[i]] = None
        BY <3>1, <4>1, <4>4 DEF WarmIsUnprepared
      <4>6. ASSUME NEW i \in 1..Len(warmProcs'), NEW j \in 1..Len(warmProcs'),
                   warmProcs'[i] = warmProcs'[j]
            PROVE  i = j
        <5>1. warmProcs[i + 1] = warmProcs[j + 1]
          BY <3>1, <4>6
        <5>2. i + 1 = j + 1
          BY <4>1, <4>4, <5>1 DEF WarmIsUnprepared
        <5> QED BY <5>2
      <4> QED BY <4>2, <4>3, <4>5, <4>6 DEF WarmIsUnprepared
    <3>10. SignalledIsGone' /\ ClientsInOrder'
      BY <3>2, <3>3 DEF Safe, SignalledIsGone, Spawned, ClientsInOrder
    <3>11. RequestsOnce'
      BY <3>1, <3>2, <3>3, <3>4, SafeTypes DEF Safe, RequestsOnce
    <3> QED BY <3>6, <3>7, <3>8, <3>9, <3>10, <3>11 DEF Safe
  <2>2. CASE PrepareTimesOut /\ dep' = IdleDep
    BY <1>d, <1>3, <2>2, SafeFrame DEF DeployPrepares, PrepareTimesOut
  <2> QED BY <1>3, <2>1, <2>2 DEF DeployPrepares
<1>4. CASE DeploySends
  <2>1. dep'.agent \in {dep.agent, None} /\ dep'.pc # "prepare"
    <3>1. /\ dep.pc # "idle"
          /\ dep' = IdleDep \/ dep' = [dep EXCEPT !.pc = "await"]
      BY <1>4 DEF DeploySends
    <3> QED BY <1>d, <3>1, DepChange
  <2> QED BY <1>4, <2>1, SafeFrame DEF DeploySends
<1>5. CASE DeployTimesOut
  BY <1>d, <1>5, SafeFrame DEF DeployTimesOut
<1>6. CASE DeployAccepted
  <2>1. dep'.agent \in {dep.agent, None} /\ dep'.pc # "prepare"
    BY <1>d, <1>6, DepChange DEF DeployAccepted
  <2>2. dep.agent \in Procs
    BY <1>6, SafeTypes DEF DeployAccepted
  <2>3. /\ activeAgents' = activeAgents \cup {dep.agent}
        /\ pendingAgents' = pendingAgents \ {dep.agent}
        /\ UNCHANGED <<liveProcs, warmProcs, procRequest, spawner, os, starting,
                       call, usedReqs>>
    BY <1>6 DEF DeployAccepted
  <2>4. NoOrphans' /\ PoolBounded' /\ PendingOrActive'
    BY <2>3 DEF Safe, NoOrphans, PoolBounded, PendingOrActive
  <2>5. YoungIsUnknown'
    BY <1>t, <2>1, <2>3 DEF Safe, YoungIsUnknown, Spawned, Unknown, Fresh
  <2>6. RegisteredIsFresh' /\ WarmIsUnprepared' /\ SignalledIsGone'
    BY <2>3 DEF Safe, RegisteredIsFresh, Fresh, WarmIsUnprepared, SignalledIsGone,
                Spawned
  <2>7. ClientsInOrder'
    <3>1. ClientsInOrder
      BY DEF Safe
    <3>2. \A q \in starting : q # None
      BY SafeTypes, PoolAssumption
    <3>3. dep'.agent \notin starting
      BY <2>1, <3>1, <3>2 DEF ClientsInOrder
    <3> QED BY <2>3, <3>1, <3>3 DEF ClientsInOrder
  <2>8. RequestsOnce'
    BY <2>1, <2>3 DEF Safe, RequestsOnce
  <2> QED BY <2>4, <2>5, <2>6, <2>7, <2>8 DEF Safe
<1>7. CASE DeploySubscribes
  <2>1. dep'.agent \in {dep.agent, None} /\ dep'.pc # "prepare"
    BY <1>d, <1>7, DepChange DEF DeploySubscribes
  <2>2. \A t \in Threads :
            call'[t].pc = "signal" =>
                call[t].pc = "signal" /\ call'[t].id = call[t].id
    BY <1>7 DEF DeploySubscribes, StopCall, TypeInv, TypeOK
  <2> QED BY <1>7, <2>1, <2>2, SafeFrame DEF DeploySubscribes
<1>8. CASE DeployRejected
  <2>1. dep'.agent \in {dep.agent, None} /\ dep'.pc # "prepare"
    BY <1>8, DepChange DEF DeployRejected
  <2>2. \A t \in Threads :
            call'[t].pc = "signal" =>
                call[t].pc = "signal" /\ call'[t].id = call[t].id
    BY <1>8 DEF DeployRejected, StopCall, TypeInv, TypeOK
  <2> QED BY <1>8, <2>1, <2>2, SafeFrame DEF DeployRejected
<1> QED BY <1>1, <1>2, <1>3, <1>4, <1>5, <1>6, <1>7, <1>8
        DEF DeployBegins, DeployProceeds

\* The first part of StopProcess: a goroutine is about to signal a process
\* that it has found in liveProcs.
LEMMA SafeFinds ==
    ASSUME TypeInv, Safe, NEW t \in Threads, NEW id \in liveProcs,
           UNCHANGED <<liveProcs, warmProcs, procRequest, spawner, os, starting,
                       pendingAgents, activeAgents, dep, usedReqs>>,
           \A u \in Threads :
               call'[u].pc = "signal" =>
                   \/ call[u].pc = "signal" /\ call'[u].id = call[u].id
                   \/ call'[u].id = id
    PROVE  Safe'
<1>1. NoOrphans' /\ PoolBounded' /\ PendingOrActive' /\ ClientsInOrder'
  BY DEF Safe, NoOrphans, PoolBounded, PendingOrActive, ClientsInOrder
<1>2. YoungIsUnknown'
  BY DEF Safe, YoungIsUnknown, Spawned, Unknown, Fresh
<1>3. RegisteredIsFresh' /\ WarmIsUnprepared' /\ SignalledIsGone' /\ RequestsOnce'
  BY DEF Safe, RegisteredIsFresh, Fresh, WarmIsUnprepared, SignalledIsGone, Spawned,
         RequestsOnce
<1> QED BY <1>1, <1>2, <1>3 DEF Safe

LEMMA SafeStop ==
    ASSUME TypeInv, Safe, NEW t \in Threads, StopWorkload(t)
    PROVE  Safe'
<1>d. IdleDep.agent = None /\ IdleDep.pc = "idle" /\ IdleCall.pc = "idle"
  BY DEF IdleDep, IdleCall
<1>c. call \in [Threads -> CallStates]
  BY DEF TypeInv, TypeOK
<1>r. ASSUME StopReturns(t)
      PROVE  /\ \/ dep' = dep
                \/ dep'.agent \in {dep.agent, None} /\ dep'.pc # "prepare"
             /\ \A u \in Threads :
                    call'[u].pc = "signal" =>
                        call[u].pc = "signal" /\ call'[u].id = call[u].id
  BY <1>c, <1>d, <1>r DEF StopReturns
<1>1. CASE StopEnters(t)
  <2>1. \A u \in Threads :
            call'[u].pc = "signal" =>
                call[u].pc = "signal" /\ call'[u].id = call[u].id
    BY <1>1, <1>c DEF StopEnters, Panic, CallStates
  <2> QED BY <1>1, <2>1, SafeFrame DEF StopEnters, Panic
<1>2. CASE StopLocks(t)
  <2>1. \A u \in Threads :
            call'[u].pc = "signal" =>
                call[u].pc = "signal" /\ call'[u].id = call[u].id
    BY <1>2, <1>c DEF StopLocks, Panic, CallStates
  <2> QED BY <1>2, <2>1, SafeFrame DEF StopLocks, Panic
<1>3. CASE StopKills(t)
  <2>1. CASE StopProcessNoSuch(call[t].id) /\ StopReturns(t)
             /\ UNCHANGED <<activeAgents, stopMutex, published>>
    BY <1>r, <2>1, SafeFrame DEF StopReturns, StopProcessNoSuch
  <2>2. CASE StopProcessFinds(call[t].id)
             /\ call' = [call EXCEPT ![t].pc = "signal"]
             /\ UNCHANGED <<mapVars, clientVars, stopHolder, dep, mstop,
                            usedReqs, panicked, agentVars>>
    <3>1. call[t].id \in liveProcs
      BY <2>2 DEF StopProcessFinds
    <3>2. \A u \in Threads :
              call'[u].pc = "signal" =>
                  \/ call[u].pc = "signal" /\ call'[u].id = call[u].id
                  \/ call'[u].id = call[t].id
      BY <1>c, <2>2 DEF CallStates
    <3> QED BY <2>2, <3>1, <3>2, SafeFinds DEF StopProcessFinds
  <2> QED BY <1>3, <2>1, <2>2 DEF StopKills
<1>4. CASE StopSignals(t)
  <2>1. CASE StopProcessKillFails(call[t].id)
             /\ UNCHANGED <<activeAgents, stopMutex, published>>
    BY <1>4, <1>r, <2>1, SafeFrame DEF StopSignals, StopReturns, StopProcessKillFails
  <2>2. CASE StopProcessOk(call[t].id) /\ StopForgets(call[t].id)
    BY <1>4, <1>r, <2>2, SafeSignal DEF StopSignals, StopReturns, StopForgets
  <2> QED BY <1>4, <2>1, <2>2 DEF StopSignals
<1> QED BY <1>1, <1>2, <1>3, <1>4 DEF StopWorkload

LEMMA SafeManager ==
    ASSUME TypeInv, Safe, ManagerStop \/ \E id \in Procs : HandleStop(id)
    PROVE  Safe'
<1>c. call \in [Threads -> CallStates] /\ "shutdown" \in Threads
  BY DEF TypeInv, TypeOK, Threads
<1>1. ASSUME NEW id \in Procs, HandleStop(id)
      PROVE  Safe'
  <2>1. \A u \in Threads :
            call'[u].pc = "signal" =>
                call[u].pc = "signal" /\ call'[u].id = call[u].id
    BY <1>1, <1>c DEF HandleStop, StopCall
  <2> QED BY <1>1, <2>1, SafeFrame DEF HandleStop
<1>2. CASE ManagerStops
  BY <1>2, SafeFrame DEF ManagerStops
<1>3. ASSUME NEW id \in Procs, ManagerStopsNext(id)
      PROVE  Safe'
  <2>1. \A u \in Threads :
            call'[u].pc = "signal" =>
                call[u].pc = "signal" /\ call'[u].id = call[u].id
    BY <1>3, <1>c DEF ManagerStopsNext, StopCall
  <2> QED BY <1>3, <2>1, SafeFrame DEF ManagerStopsNext
<1>4. CASE ManagerStopsProcesses
  BY <1>4, SafeFrame DEF ManagerStopsProcesses, PMStopBegins
<1>5. ASSUME NEW id \in Procs, ManagerStopsProcess(id)
      PROVE  Safe'
  <2>1. id \in liveProcs
    BY <1>5 DEF ManagerStopsProcess
  <2>2. \A u \in Threads :
            call'[u].pc = "signal" =>
                \/ call[u].pc = "signal" /\ call'[u].id = call[u].id
                \/ call'[u].id = id
    BY <1>5, <1>c DEF ManagerStopsProcess, ProcStopCall
  <2> QED BY <1>5, <1>c, <2>1, <2>2, SafeFinds DEF ManagerStopsProcess, StopProcessFinds
<1>6. CASE ManagerSignalsProcess
  <2>1. \A u \in Threads :
            call'[u].pc = "signal" =>
                call[u].pc = "signal" /\ call'[u].id = call[u].id
    BY <1>6, <1>c DEF ManagerSignalsProcess, IdleCall
  <2>2. CASE StopProcessKillFails(call["shutdown"].id)
    BY <1>6, <2>1, <2>2, SafeFrame DEF ManagerSignalsProcess, StopProcessKillFails
  <2>3. CASE StopProcessOk(call["shutdown"].id)
    BY <1>6, <1>c, <2>1, <2>3, SafeSignal DEF ManagerSignalsProcess
  <2> QED BY <1>6, <2>2, <2>3 DEF ManagerSignalsProcess
<1>7. CASE ManagerStopped
  BY <1>7, SafeFrame DEF ManagerStopped
<1> QED BY <1>1, <1>2, <1>3, <1>4, <1>5, <1>6, <1>7 DEF ManagerStop

LEMMA SafeNext == TypeInv /\ Safe /\ [Next]_vars => Safe'
<1> SUFFICES ASSUME TypeInv, Safe, [Next]_vars PROVE Safe'
  OBVIOUS
<1>1. CASE UNCHANGED vars
  BY <1>1, SafeFrame
<1> QED BY <1>1, SafeSpawn, SafeClients, SafeAgents, SafeDeploy, SafeStop,
           SafeManager DEF Next

LEMMA Safety == Spec => [](TypeInv /\ Safe)
BY TypeInit, TypeNext, SafeInit, SafeNext, PTL DEF Spec

-----------------------------------------------------------------------------

\* No agent process escapes the process manager (StopProcess interrupts a
\* process in the same critical section in which it forgets it, and the spawn
\* loop registers what it starts), whatever the environment does.
THEOREM NoProcessEscapes == Spec => []NoOrphans
<1>1. Safe => NoOrphans
  BY DEF Safe
<1> QED BY <1>1, Safety, PTL

\* The warm channel respects MachinePoolSize and the spawn loop's send on it
\* never blocks.
THEOREM PoolStaysBounded == Spec => []PoolBounded
<1>1. Safe => PoolBounded
  BY DEF Safe
<1> QED BY <1>1, Safety, PTL

\* OnProcessStarted, agentHandshakeTimedOut, DeployWorkload and StopWorkload
\* between them never leave a client in both maps.
THEOREM ClientsDisjoint == Spec => []PendingOrActive
<1>1. Safe => PendingOrActive
  BY DEF Safe
<1> QED BY <1>1, Safety, PTL

\* No step of an agent touches the process manager's map of processes or the
\* requests attached to them.
LEMMA AgentsKeepMaps ==
    ASSUME Agents
    PROVE  UNCHANGED <<liveProcs, procRequest>>
<1>1. PICK a \in Procs :
          \/ HandshakeRetry(a) \/ HandshakeFails(a)
          \/ AgentReady(a) \/ AgentExits(a)
          \/ \E r \in Reqs : WorkloadExits(a, r) \/ AgentHandlesDeploy(a, r)
  BY DEF Agents
<1>2. CASE HandshakeFails(a) \/ AgentExits(a)
  BY <1>2 DEF HandshakeFails, AgentExits, ProcessExits
<1>3. CASE HandshakeRetry(a) \/ AgentReady(a)
  BY <1>3 DEF HandshakeRetry, AgentReady
<1>4. CASE \E r \in Reqs : WorkloadExits(a, r) \/ AgentHandlesDeploy(a, r)
  BY <1>4 DEF WorkloadExits, AgentHandlesDeploy
<1> QED BY <1>1, <1>2, <1>3, <1>4

\* The spawn loop cannot undo a StopProcess.
THEOREM StopIsFinal == Spec => StoppedStaysStopped
<1>1. TypeInv /\ Safe /\ [Next]_vars =>
          [\A p \in Procs : os[p] = "signalled" => p \notin liveProcs']_vars
  <2> SUFFICES ASSUME TypeInv, Safe, [Next]_vars,
                      NEW p \in Procs, os[p] = "signalled"
               PROVE  p \notin liveProcs'
    OBVIOUS
  <2>1. p \notin liveProcs /\ ~Spawned(p)
    BY DEF Safe, SignalledIsGone
  <2>2. \/ liveProcs' \subseteq liveProcs
        \/ spawner.pc = "spawned" /\ liveProcs' = liveProcs \cup {spawner.proc}
    <3>1. CASE SpawnLoop
      BY <3>1 DEF SpawnLoop, SpawnerReturns, Spawn, RegisterProcess, Register, WarmSend
    <3>2. CASE Clients
      BY <3>2 DEF Clients, OnProcessStarted, HandleHandshake, AwaitSucceeds,
                  AwaitExpires, AgentHandshakeTimedOut, AgentEvent
    <3>3. CASE Agents
      BY <3>3, AgentsKeepMaps
    <3>4. CASE DeployBegins \/ DeployProceeds
      BY <3>4 DEF DeployBegins, DeployProceeds, SelectFails, SelectRandomAgent,
                  DeployPrepares, PrepareWorkload, PrepareTimesOut, DeploySends,
                  DeployTimesOut, DeployAccepted, DeploySubscribes, DeployRejected
    <3>5. ASSUME NEW t \in Threads, StopWorkload(t)
          PROVE  liveProcs' \subseteq liveProcs
      BY <3>5 DEF StopWorkload, StopEnters, StopLocks, StopKills, StopSignals,
                  StopProcessNoSuch, StopProcessFinds, StopProcessKillFails,
                  StopProcessOk
    <3>6. CASE ManagerStop \/ \E id \in Procs : HandleStop(id)
      BY <3>6 DEF ManagerStop, HandleStop, ManagerStops, ManagerStopsNext,
                  ManagerStopsProcess, ManagerStopsProcesses, PMStopBegins,
                  ManagerSignalsProcess, ManagerStopped, StopProcessFinds,
                  StopProcessKillFails, StopProcessOk
    <3>7. CASE UNCHANGED vars
      BY <3>7
    <3> QED BY <3>1, <3>2, <3>3, <3>4, <3>5, <3>6, <3>7 DEF Next
  <2> QED BY <2>1, <2>2 DEF Spawned
<1>2. Spec => [][Next]_vars
  BY DEF Spec
<1> QED BY <1>1, <1>2, Safety, PTL DEF StoppedStaysStopped

\* PrepareWorkload pairs processes and requests one to one for good, although
\* it takes whichever process the channel gives and failed deployments leave
\* theirs behind.
THEOREM PairedForGood == Spec => PreparedOnce
<1> DEFINE Paired ==
        \A p \in Procs, r \in Reqs :
           /\ procRequest[p] # None => procRequest'[p] = procRequest[p]
           /\ procRequest[p] = r => \A q \in Procs \ {p} : procRequest'[q] # r
<1>1. TypeInv /\ Safe /\ [Next]_vars => [Paired]_vars
  <2> SUFFICES ASSUME TypeInv, Safe, [Next]_vars
               PROVE  Paired
    OBVIOUS
  <2>k. ASSUME UNCHANGED procRequest PROVE Paired
    BY <2>k, PoolAssumption DEF Safe, RequestsOnce
  <2>1. CASE DeployPrepares
    <3>1. CASE PrepareTimesOut
      BY <2>k, <3>1 DEF PrepareTimesOut
    <3>2. CASE PrepareWorkload(dep.agent, dep.req)
      <4> DEFINE p == Head(warmProcs)
      <4>1. p \in Procs /\ p = warmProcs[1] /\ 1 \in 1..Len(warmProcs)
        <5>1. warmProcs \in Seq(Procs) /\ warmProcs # <<>>
          BY <3>2, SafeTypes DEF PrepareWorkload
        <5> QED BY <5>1
      <4>2. procRequest' = [procRequest EXCEPT ![p] = dep.req]
        BY <3>2 DEF PrepareWorkload
      <4>3. procRequest[p] = None
        BY <4>1 DEF Safe, WarmIsUnprepared
      <4>4. \A q \in Procs : procRequest[q] # dep.req
        BY <2>1 DEF DeployPrepares, Safe, RequestsOnce
      <4> HIDE DEF p
      <4>5. \A q \in Procs : procRequest'[q] = IF q = p THEN dep.req ELSE procRequest[q]
        BY <4>1, <4>2, SafeTypes
      <4>6. \A q, o \in Procs :
                procRequest[q] # None /\ procRequest[q] = procRequest[o] => q = o
        BY DEF Safe, RequestsOnce
      <4>7. None \notin Reqs
        BY PoolAssumption
      <4> QED BY <4>3, <4>4, <4>5, <4>6, <4>7
    <3> QED BY <2>1, <3>1, <3>2 DEF DeployPrepares
  <2>2. CASE SpawnLoop
    BY <2>k, <2>2 DEF SpawnLoop, SpawnerReturns, Spawn, RegisterProcess, Register, WarmSend
  <2>3. CASE Clients
    BY <2>k, <2>3 DEF Clients, OnProcessStarted, HandleHandshake, AwaitSucceeds,
                AwaitExpires, AgentHandshakeTimedOut, AgentEvent
  <2>4. CASE Agents
    BY <2>k, <2>4, AgentsKeepMaps
  <2>5. CASE DeployBegins \/ (DeployProceeds /\ ~DeployPrepares)
    BY <2>k, <2>5 DEF DeployBegins, DeployProceeds, SelectFails, SelectRandomAgent,
                DeploySends, DeployTimesOut, DeployAccepted, DeploySubscribes,
                DeployRejected
  <2>6. ASSUME NEW t \in Threads, StopWorkload(t)
        PROVE  Paired
    BY <2>k, <2>6 DEF StopWorkload, StopEnters, StopLocks, StopKills, StopSignals,
                StopProcessNoSuch, StopProcessFinds, StopProcessKillFails,
                StopProcessOk
  <2>7. CASE ManagerStop \/ \E id \in Procs : HandleStop(id)
    BY <2>k, <2>7 DEF ManagerStop, HandleStop, ManagerStops, ManagerStopsNext,
                ManagerStopsProcess, ManagerStopsProcesses, PMStopBegins,
                ManagerSignalsProcess, ManagerStopped, StopProcessFinds,
                StopProcessKillFails, StopProcessOk
  <2>8. CASE UNCHANGED vars
    BY <2>k, <2>8
  <2> QED BY <2>1, <2>2, <2>3, <2>4, <2>5, <2>6, <2>7, <2>8 DEF Next, DeployProceeds
<1>2. Spec => [][Next]_vars
  BY DEF Spec
<1> QED BY <1>1, <1>2, Safety, PTL DEF PreparedOnce

-----------------------------------------------------------------------------
(***************************************************************************)
(* Normal use: the default pool of one, deployments that reach agents that *)
(* are up and answer in time.  STOP requests and refused trigger           *)
(* subscriptions may come at any moment.                                   *)
(***************************************************************************)

NormalUse == PoolSize = 1 /\ Env \subseteq {"stop", "badSubject"}

\* p is the process the pool holds ready, or the one about to enter it.
Spare(p) ==
    \/ spawner.pc \in {"spawned", "registered"} /\ spawner.proc = p
    \/ \E i \in 1..Len(warmProcs) : warmProcs[i] = p

\* DeployWorkload has prepared p and not moved its client yet.
UnderWay(p) == dep.agent = p /\ dep.pc \in {"send", "await", "accepted"}

\* Nothing makes the node stop, and no handshake is missed.
NoAlarm ==
    /\ cancelled = FALSE
    /\ mstop.pc = "no"
    /\ \A p \in Procs :
         /\ await[p] # "expired"
         /\ await[p] # "off" => os[p] # "unborn"
         /\ agent[p] \in {"shaken", "ready"} \/ procRequest[p] # None =>
                p \in handshakes

\* The client a deployment can pick is the one of the process PrepareWorkload
\* will receive.
OneSpare ==
    /\ \A p \in starting : Spare(p)
    /\ \A p \in pendingAgents : (Spare(p) \/ UnderWay(p)) /\ p \in subscribed
    /\ dep.pc # "rejected"
    /\ dep.pc \in {"prepare", "send", "await", "accepted"} =>
           dep.agent \in pendingAgents
    /\ dep.pc \in {"prepare", "send", "await"} => agent[dep.agent] = "ready"
    /\ dep.pc \in {"subscribe", "stopping"} =>
           /\ procRequest[dep.agent] # None
           /\ dep.agent \notin pendingAgents \cup starting

\* What is in the two maps, in the agent's inbox and running at the agent is one
\* and the same request, and only prepared processes are ever stopped.
Matched ==
    /\ dep.pc = "await" => dep.req \in inbox[dep.agent]
    /\ \A p \in Procs :
         /\ deployRequests[p] \in {None, procRequest[p]}
         /\ UnderWay(p) => procRequest[p] = dep.req
         /\ \A r \in inbox[p] : dep.pc = "await" /\ dep.agent = p /\ r = dep.req
         /\ \A r \in running[p] : r = procRequest[p]
         /\ events[p] > 0 => procRequest[p] # None
         /\ p \in pendingAgents =>
                /\ events[p] = 0
                /\ running[p] # {} => dep.pc = "accepted" /\ dep.agent = p
                /\ os[p] = "running"
         /\ os[p] \in {"signalled", "exited"} =>
                procRequest[p] # None /\ p \notin liveProcs

\* A StopWorkload that meets a deployment under way ends in the nil client of
\* StopLocks, before it can touch the process.
LateCall(t) ==
    call[t].pc # "idle" =>
        /\ procRequest[call[t].id] # None
        /\ call[t].id \in pendingAgents =>
               /\ call[t].pc \in {"enter", "lock"} /\ call[t].undeploy
               /\ call[t].pc = "enter" => deployRequests[call[t].id] # None
               /\ call[t].pc = "lock" => call[t].found

StopsLate ==
    /\ dep.pc # "stopping" => call["deploy"].pc = "idle"
    /\ \A t \in Threads : LateCall(t)

\* StopWorkload has been called for p and has not returned.
BeingStopped(p) == \E t \in Threads : call[t].pc # "idle" /\ call[t].id = p

\* StopProcess has dropped the request of p and not signalled it yet.
BeingSignalled(p) == \E t \in Threads : call[t].pc = "signal" /\ call[t].id = p

\* A prepared live process runs its workload, or somebody is busy with it.
Accounted ==
    \A p \in liveProcs :
        procRequest[p] # None =>
            /\ p \in subscribed
            /\ \/ running[p] # {}
               \/ events[p] > 0
               \/ dep.agent = p /\ dep.pc \in {"send", "await"}
               \/ BeingStopped(p)
            /\ deployRequests[p] = None => BeingSignalled(p)

Normal ==
    /\ NoAlarm
    /\ OneSpare
    /\ Matched
    /\ StopsLate
    /\ ActiveIsLive
    /\ Accounted

\* The types, one by one: the proofs below cite only the ones they need.
LEMMA ProcRequestType == TypeInv => procRequest \in [Procs -> Reqs \cup {None}]
BY SafeTypes

LEMMA DeployRequestsType == TypeInv => deployRequests \in [Procs -> Reqs \cup {None}]
BY DEF TypeInv, TypeOK, PMTypeOK, Bound, Requests

LEMMA OsType ==
    TypeInv => os \in [Procs -> {"unborn", "running", "signalled", "exited"}]
BY SafeTypes

LEMMA AgentType ==
    TypeInv => agent \in [Procs -> {"boot", "retry", "shaken", "ready", "down"}]
BY DEF TypeInv, TypeOK

LEMMA AwaitType == TypeInv => await \in [Procs -> {"off", "waiting", "expired", "over"}]
BY DEF TypeInv, TypeOK

LEMMA InboxType == TypeInv => inbox \in [Procs -> SUBSET Reqs]
BY DEF TypeInv, TypeOK

LEMMA RunningType == TypeInv => running \in [Procs -> SUBSET Reqs]
BY DEF TypeInv, TypeOK

LEMMA EventsType == TypeInv => events \in [Procs -> Nat]
BY DEF TypeInv, TypeOK

LEMMA CallType == TypeInv => call \in [Threads -> CallStates]
BY DEF TypeInv, TypeOK

LEMMA CallIds == TypeInv => \A t \in Threads : call[t].pc # "idle" => call[t].id \in Procs
BY DEF TypeInv, Bound

LEMMA ThreadNames == "deploy" \in Threads /\ "api" \in Threads /\ Procs \subseteq Threads
BY DEF Threads

LEMMA NoneIsNone == None \notin Procs /\ None \notin Reqs
BY PoolAssumption

LEMMA DepType ==
    TypeInv /\ dep.pc # "idle" => dep.agent \in Procs /\ dep.req \in Reqs
BY SafeTypes

LEMMA ProcSets == TypeInv => liveProcs \subseteq Procs /\ starting \subseteq Procs /\
                             pendingAgents \subseteq Procs
BY SafeTypes

\* Every part of the invariant reads only these variables.
LEMMA NormalFrame ==
    ASSUME TypeInv, Normal
    PROVE  /\ UNCHANGED <<cancelled, mstop, await, os, agent, procRequest,
                          handshakes>> => NoAlarm'
           /\ UNCHANGED <<starting, spawner, warmProcs, dep, pendingAgents,
                          subscribed, agent, procRequest>> => OneSpare'
           /\ UNCHANGED <<deployRequests, dep, procRequest, inbox, running, events,
                          pendingAgents, os, liveProcs>> => Matched'
           /\ UNCHANGED <<dep, call, procRequest, pendingAgents, deployRequests>> =>
                  StopsLate'
           /\ UNCHANGED <<activeAgents, liveProcs>> => ActiveIsLive'
           /\ UNCHANGED <<liveProcs, procRequest, subscribed, running, events, dep,
                          call, deployRequests>> => Accounted'
<1> USE DEF Normal
<1>1. UNCHANGED <<cancelled, mstop, await, os, agent, procRequest,
                  handshakes>> => NoAlarm'
  BY DEF NoAlarm
<1>2. UNCHANGED <<starting, spawner, warmProcs, dep, pendingAgents,
                  subscribed, agent, procRequest>> => OneSpare'
  BY DEF OneSpare, Spare, UnderWay
<1>3. UNCHANGED <<deployRequests, dep, procRequest, inbox, running, events,
                  pendingAgents, os, liveProcs>> => Matched'
  BY DEF Matched, UnderWay
<1>4. UNCHANGED <<dep, call, procRequest, pendingAgents, deployRequests>> => StopsLate'
  BY DEF StopsLate, LateCall
<1>5. UNCHANGED <<activeAgents, liveProcs>> => ActiveIsLive'
  BY DEF ActiveIsLive
<1>6. UNCHANGED <<liveProcs, procRequest, subscribed, running, events, dep,
                  call, deployRequests>> => Accounted'
  <2> SUFFICES ASSUME UNCHANGED <<liveProcs, procRequest, subscribed, running,
                                  events, dep, call, deployRequests>>
               PROVE  Accounted'
    OBVIOUS
  <2>1. \A p : /\ BeingStopped(p) => BeingStopped(p)'
               /\ BeingSignalled(p) => BeingSignalled(p)'
    BY DEF BeingStopped, BeingSignalled
  <2> QED BY <2>1 DEF Accounted
<1> QED BY <1>1, <1>2, <1>3, <1>4, <1>5, <1>6

\* A spare process holds no request.
LEMMA SpareIsBlank ==
    ASSUME TypeInv, Safe, NEW p \in Procs, Spare(p)
    PROVE  procRequest[p] = None
BY SafeTypes DEF Safe, RegisteredIsFresh, WarmIsUnprepared, Fresh, Spare

\* A pool of one has one spare process.
LEMMA SpareIsOne ==
    ASSUME TypeInv, Safe, NormalUse, NEW p \in Procs, Spare(p),
           NEW q \in Procs, Spare(q)
    PROVE  p = q
<1>1. /\ Len(warmProcs) \in Nat /\ Len(warmProcs) <= 1
      /\ spawner.pc \in {"spawned", "registered"} => Len(warmProcs) = 0
  BY SafeTypes DEF NormalUse, Safe, PoolBounded
<1>2. \A i \in 1..Len(warmProcs) : i = 1 /\ Len(warmProcs) # 0
  BY <1>1
<1> QED BY <1>1, <1>2 DEF Spare

\* Who is being stopped is read off the calls alone.
LEMMA SameCalls ==
    ASSUME UNCHANGED call
    PROVE  \A p : /\ BeingStopped(p) => BeingStopped(p)'
                  /\ BeingSignalled(p) => BeingSignalled(p)'
BY DEF BeingStopped, BeingSignalled

LEMMA NormalSpawn ==
    ASSUME TypeInv, Safe, NormalUse, Normal, SpawnLoop
    PROVE  Normal'
<1> USE DEF Normal
<1>1. CASE Up /\ SpawnerReturns /\ UNCHANGED wmVars
  <2>1. OneSpare'
    BY <1>1 DEF SpawnerReturns, OneSpare, Spare, UnderWay
  <2> QED BY <1>1, <2>1, NormalFrame DEF SpawnerReturns
<1>2. ASSUME NEW p \in Procs, Up /\ Spawn(p) /\ UNCHANGED wmVars
      PROVE  Normal'
  <2>1. /\ spawner.pc = "loop" /\ os[p] = "unborn"
        /\ os' = [os EXCEPT ![p] = "running"]
        /\ UNCHANGED <<liveProcs, warmProcs, procRequest, deployRequests, cancelled,
                       wmVars>>
    BY <1>2 DEF Spawn, CmdStart
  <2>2. \A q \in Procs : os'[q] = IF q = p THEN "running" ELSE os[q]
    BY <2>1, OsType
  <2>3. NoAlarm'
    BY <2>1, <2>2 DEF NoAlarm
  <2>4. Matched'
    BY <2>1, <2>2 DEF Matched, UnderWay
  <2>5. OneSpare'
    BY <2>1 DEF OneSpare, Spare, UnderWay
  <2> QED BY <2>1, <2>3, <2>4, <2>5, NormalFrame
<1>3. CASE RegisterProcess
  <2>1. /\ spawner.pc = "spawned" /\ spawner.proc \in Procs
        /\ spawner'.pc = "registered" /\ spawner'.proc = spawner.proc
    BY <1>3, SafeTypes DEF RegisterProcess, Register, TypeInv, TypeOK, PMTypeOK
  <2>2. /\ liveProcs' = liveProcs \cup {spawner.proc}
        /\ starting' = starting \cup {spawner.proc}
        /\ UNCHANGED <<warmProcs, procRequest, deployRequests, cancelled, os, mapVars,
                       subscribed, await, handshakes, nodeVars, agentVars>>
    BY <1>3 DEF RegisterProcess, Register
  <2>3. Unknown(spawner.proc) /\ procRequest[spawner.proc] = None
    BY <2>1 DEF Safe, YoungIsUnknown, Spawned, Fresh
  <2>4. OneSpare'
    BY <2>1, <2>2, <2>3 DEF OneSpare, Spare, UnderWay, Unknown
  <2>5. Matched'
    BY <2>2, <2>3 DEF Matched, UnderWay
  <2>6. ActiveIsLive'
    BY <2>2 DEF ActiveIsLive
  <2>7. Accounted'
    BY <2>2, <2>3 DEF Accounted, BeingStopped, BeingSignalled
  <2> QED BY <2>2, <2>4, <2>5, <2>6, <2>7, NormalFrame
<1>4. CASE Up /\ WarmSend /\ UNCHANGED wmVars
  <2>1. /\ spawner.pc = "registered"
        /\ spawner.proc \in Procs
        /\ warmProcs' = Append(warmProcs, spawner.proc)
        /\ UNCHANGED <<liveProcs, procRequest, deployRequests, cancelled, os, wmVars>>
    BY <1>4, SafeTypes DEF WarmSend
  <2>2. /\ Len(warmProcs) \in Nat
        /\ Len(warmProcs') = Len(warmProcs) + 1
        /\ warmProcs'[Len(warmProcs) + 1] = spawner.proc
        /\ \A i \in 1..Len(warmProcs) : warmProcs'[i] = warmProcs[i]
    BY <2>1, SafeTypes
  <2>3. \A q : Spare(q) => Spare(q)'
    BY <2>1, <2>2 DEF Spare
  <2>4. OneSpare'
    BY <2>1, <2>3 DEF OneSpare, UnderWay
  <2> QED BY <2>1, <2>4, NormalFrame
<1> QED BY <1>1, <1>2, <1>3, <1>4 DEF SpawnLoop

LEMMA NormalClients ==
    ASSUME TypeInv, Safe, NormalUse, Normal, Clients
    PROVE  Normal'
<1> USE DEF Normal
<1> PICK p \in Procs :
        \/ OnProcessStarted(p)
        \/ HandleHandshake(p)
        \/ AwaitSucceeds(p)
        \/ AwaitExpires(p)
        \/ AgentHandshakeTimedOut(p)
        \/ AgentEvent(p)
  BY DEF Clients
<1>1. CASE OnProcessStarted(p)
  <2>1. /\ p \in starting /\ dep.pc = "idle"
        /\ starting' = starting \ {p}
        /\ subscribed' = subscribed \cup {p}
        /\ await' = [await EXCEPT ![p] = "waiting"]
        /\ pendingAgents' = pendingAgents \cup {p}
        /\ UNCHANGED <<pmVars, activeAgents, handshakes, nodeVars, agentVars>>
    BY <1>1 DEF OnProcessStarted, PoolFree
  <2>2. Spare(p) /\ procRequest[p] = None
    BY <2>1, SpareIsBlank DEF OneSpare
  <2>3. os[p] = "running"
    <3>1. os[p] # "unborn"
      BY <2>1 DEF Safe, YoungIsUnknown, Unknown
    <3> QED BY <2>2, <3>1, OsType DEF Matched
  <2>4. NoAlarm'
    BY <2>1, <2>3, AwaitType DEF NoAlarm
  <2>5. OneSpare'
    BY <2>1, <2>2 DEF OneSpare, Spare, UnderWay
  <2>6. Matched'
    <3>1. events[p] = 0 /\ running[p] = {}
      BY <2>2, RunningType, EventsType, NoneIsNone DEF Matched
    <3> QED BY <2>1, <2>3, <3>1 DEF Matched, UnderWay
  <2>7. StopsLate'
    BY <2>1, <2>2 DEF StopsLate, LateCall
  <2>8. Accounted'
    BY <2>1 DEF Accounted, BeingStopped, BeingSignalled
  <2> QED BY <2>1, <2>4, <2>5, <2>6, <2>7, <2>8, NormalFrame
<1>2. CASE HandleHandshake(p)
  <2>1. /\ agent[p] \in {"boot", "retry"} /\ agent' = [agent EXCEPT ![p] = "shaken"]
        /\ handshakes' = handshakes \cup {p}
        /\ UNCHANGED <<pmVars, mapVars, starting, subscribed, await, nodeVars,
                       inbox, running, events>>
    BY <1>2 DEF HandleHandshake
  <2>2. \A q \in Procs : /\ agent'[q] = "ready" <=> agent[q] = "ready"
                         /\ q # p => agent'[q] = agent[q]
    BY <2>1, AgentType
  <2>3. NoAlarm'
    BY <2>1, <2>2 DEF NoAlarm
  <2>4. OneSpare'
    BY <2>1, <2>2, DepType DEF OneSpare, Spare, UnderWay
  <2> QED BY <2>1, <2>3, <2>4, NormalFrame
<1>3. CASE AwaitSucceeds(p)
  <2>1. /\ await[p] = "waiting" /\ await' = [await EXCEPT ![p] = "over"]
        /\ UNCHANGED <<pmVars, mapVars, starting, subscribed, handshakes,
                       nodeVars, agentVars>>
    BY <1>3 DEF AwaitSucceeds
  <2>2. NoAlarm'
    BY <2>1, AwaitType DEF NoAlarm
  <2> QED BY <2>1, <2>2, NormalFrame
<1>4. ~AwaitExpires(p)
  <2>1. AwaitExpires(p) => await[p] = "waiting" /\ os[p] # "running" /\ p \notin handshakes
    BY DEF AwaitExpires, NormalUse
  <2> QED BY <2>1, OsType DEF NoAlarm, Matched
<1>5. ~AgentHandshakeTimedOut(p)
  BY DEF AgentHandshakeTimedOut, NoAlarm
<1>6. CASE AgentEvent(p)
  <2>1. /\ events[p] > 0 /\ call[p].pc = "idle"
        /\ events' = [events EXCEPT ![p] = @ - 1]
        /\ call' = IF deployRequests[p] = None THEN call
                   ELSE [call EXCEPT ![p] = StopCall(p, FALSE)]
        /\ UNCHANGED <<pmVars, mapVars, clientVars, dep, mstop, agent, inbox, running>>
    BY <1>6 DEF AgentEvent, Lookup
  <2>2. procRequest[p] # None /\ p \notin pendingAgents
    BY <2>1, EventsType DEF Matched
  <2>3. /\ \A q \in Procs \ {p} : events'[q] = events[q]
        /\ events'[p] \in Nat
    BY <2>1, EventsType
  <2>4. /\ \A t \in Threads \ {p} : call'[t] = call[t]
        /\ deployRequests[p] # None => call'[p].pc = "enter" /\ call'[p].id = p
        /\ deployRequests[p] = None => call' = call
    BY <2>1, CallType, ThreadNames DEF StopCall
  <2>5. Matched'
    BY <2>1, <2>2, <2>3 DEF Matched, UnderWay
  <2>6. StopsLate'
    <3>1. p # "deploy"
      BY EnvAssumption
    <3>2. dep.pc # "stopping" => call'["deploy"].pc = "idle"
      BY <2>4, <3>1, ThreadNames DEF StopsLate, LateCall
    <3>3. CASE deployRequests[p] = None
      BY <2>1, <3>3 DEF StopsLate, LateCall
    <3>4. CASE deployRequests[p] # None
      <4>1. \A t \in Threads \ {p} : LateCall(t)'
        BY <2>1, <2>4 DEF StopsLate, LateCall
      <4>2. LateCall(p)'
        <5>1. call'[p].id = p /\ UNCHANGED <<procRequest, pendingAgents>>
          BY <2>1, <2>4, <3>4
        <5> QED BY <2>2, <5>1 DEF LateCall
      <4> QED BY <2>1, <3>2, <4>1, <4>2 DEF StopsLate
    <3> QED BY <3>3, <3>4
  <2>7. Accounted'
    <3>1. \A q \in Procs : BeingStopped(q) => BeingStopped(q)'
      BY <2>1, <2>4, ThreadNames DEF BeingStopped
    <3>2. \A q \in Procs : BeingSignalled(q) => BeingSignalled(q)'
      BY <2>1, <2>4, ThreadNames DEF BeingSignalled
    <3>3. p \in liveProcs => BeingStopped(p)'
      <4>1. CASE deployRequests[p] # None
        BY <2>4, <4>1, ThreadNames DEF BeingStopped
      <4>2. CASE deployRequests[p] = None
        BY <2>2, <4>2, <3>2 DEF Accounted, BeingSignalled, BeingStopped
      <4> QED BY <4>1, <4>2
    <3> QED BY <2>1, <2>3, <3>1, <3>2, <3>3, ProcSets DEF Accounted
  <2> QED BY <2>1, <2>5, <2>6, <2>7, NormalFrame
<1> QED BY <1>1, <1>2, <1>3, <1>4, <1>5, <1>6

LEMMA NormalAgents ==
    ASSUME TypeInv, Safe, NormalUse, Normal, Agents
    PROVE  Normal'
<1> USE DEF Normal
<1> PICK p \in Procs :
        \/ HandshakeRetry(p)
        \/ HandshakeFails(p)
        \/ AgentReady(p)
        \/ AgentExits(p)
        \/ \E r \in Reqs : WorkloadExits(p, r) \/ AgentHandlesDeploy(p, r)
  BY DEF Agents
<1>1. ~HandshakeRetry(p) /\ ~HandshakeFails(p)
  BY DEF HandshakeRetry, HandshakeFails, NormalUse
<1>2. CASE AgentReady(p)
  <2>1. /\ agent[p] = "shaken" /\ agent' = [agent EXCEPT ![p] = "ready"]
        /\ UNCHANGED <<pmVars, mapVars, clientVars, nodeVars, inbox, running, events>>
    BY <1>2 DEF AgentReady
  <2>2. \A q \in Procs : agent'[q] = IF q = p THEN "ready" ELSE agent[q]
    BY <2>1, AgentType
  <2>3. NoAlarm'
    BY <2>1, <2>2 DEF NoAlarm
  <2>4. OneSpare'
    BY <2>1, <2>2, DepType DEF OneSpare, Spare, UnderWay
  <2> QED BY <2>1, <2>3, <2>4, NormalFrame
<1>3. CASE AgentExits(p)
  <2>1. /\ os[p] = "signalled" /\ os' = [os EXCEPT ![p] = "exited"]
        /\ agent' = [agent EXCEPT ![p] = "down"]
        /\ inbox' = [inbox EXCEPT ![p] = {}]
        /\ running' = [running EXCEPT ![p] = {}]
        /\ UNCHANGED <<liveProcs, warmProcs, procRequest, deployRequests, spawner,
                       cancelled, mapVars, clientVars, nodeVars, events>>
    BY <1>3 DEF AgentExits, ProcessExits, NormalUse
  <2>2. p \notin pendingAgents /\ p \notin liveProcs /\ procRequest[p] # None
    BY <2>1 DEF Matched
  <2>3. \A q \in Procs \ {p} : UNCHANGED <<os[q], agent[q], inbox[q], running[q]>>
    BY <2>1, OsType, AgentType, InboxType, RunningType
  <2>4. os'[p] = "exited" /\ agent'[p] = "down" /\ inbox'[p] = {} /\ running'[p] = {}
    BY <2>1, OsType, AgentType, InboxType, RunningType
  <2>5. NoAlarm'
    BY <2>1, <2>3, <2>4 DEF NoAlarm
  <2>6. OneSpare'
    BY <2>1, <2>2, <2>3, DepType DEF OneSpare, Spare, UnderWay
  <2>7. Matched'
    BY <2>1, <2>2, <2>3, <2>4, DepType DEF Matched, OneSpare, UnderWay
  <2>8. Accounted'
    BY <2>1, <2>2, <2>3, SameCalls, ProcSets DEF Accounted
  <2> QED BY <2>1, <2>5, <2>6, <2>7, <2>8, NormalFrame
<1>4. ASSUME NEW r \in Reqs, WorkloadExits(p, r)
      PROVE  Normal'
  <2>1. /\ r \in running[p] /\ ~(dep.pc = "accepted" /\ dep.agent = p)
        /\ running' = [running EXCEPT ![p] = @ \ {r}]
        /\ events' = [events EXCEPT ![p] = IF p \in subscribed THEN @ + 1 ELSE @]
        /\ UNCHANGED <<pmVars, mapVars, clientVars, nodeVars, agent, inbox>>
    BY <1>4 DEF WorkloadExits, NormalUse
  <2>2. p \notin pendingAgents /\ procRequest[p] = r /\ procRequest[p] # None
    BY <2>1, NoneIsNone DEF Matched
  <2>3. \A q \in Procs \ {p} : UNCHANGED <<running[q], events[q]>>
    BY <2>1, RunningType, EventsType
  <2>4. /\ running'[p] \subseteq running[p]
        /\ p \in subscribed => events'[p] > 0
    BY <2>1, RunningType, EventsType
  <2>5. Matched'
    BY <2>1, <2>2, <2>3, <2>4 DEF Matched, UnderWay
  <2>6. Accounted'
    BY <2>1, <2>2, <2>3, <2>4, SameCalls, ProcSets DEF Accounted
  <2> QED BY <2>1, <2>5, <2>6, NormalFrame
<1>5. ASSUME NEW r \in Reqs, AgentHandlesDeploy(p, r)
      PROVE  Normal'
  <2>1. r \in inbox[p]
    BY <1>5 DEF AgentHandlesDeploy
  <2>2. dep.pc = "await" /\ dep.agent = p /\ dep.req = r
    BY <2>1 DEF Matched
  <2>3. /\ inbox' = [inbox EXCEPT ![p] = @ \ {r}]
        /\ running' = [running EXCEPT ![p] = @ \cup {r}]
        /\ dep' = [dep EXCEPT !.pc = "accepted"]
        /\ UNCHANGED <<events, pmVars, mapVars, clientVars, stopHolder, call, mstop,
                       usedReqs, panicked, agent>>
    BY <1>5, <2>2 DEF AgentHandlesDeploy, Answer, NormalUse
  <2>4. dep'.pc = "accepted" /\ dep'.agent = p /\ dep'.req = r
    BY <2>2, <2>3, DepChange
  <2>5. \A q \in Procs \ {p} : UNCHANGED <<inbox[q], running[q]>>
    BY <2>3, InboxType, RunningType
  <2>6. /\ p \in pendingAgents /\ running[p] = {}
        /\ procRequest[p] = r
    BY <2>2 DEF OneSpare, Matched, UnderWay
  <2>7. inbox'[p] = inbox[p] \ {r} /\ running'[p] = {r}
    BY <2>3, <2>6, InboxType, RunningType
  <2>8. OneSpare'
    BY <2>2, <2>3, <2>4 DEF OneSpare, Spare, UnderWay
  <2>9. Matched'
    BY <2>2, <2>3, <2>4, <2>5, <2>6, <2>7 DEF Matched, UnderWay
  <2>10. StopsLate'
    BY <2>2, <2>3, <2>4 DEF StopsLate, LateCall
  <2>11. Accounted'
    BY <2>2, <2>3, <2>4, <2>5, <2>7, SameCalls, ProcSets DEF Accounted
  <2> QED BY <2>3, <2>8, <2>9, <2>10, <2>11, NormalFrame
<1> QED BY <1>1, <1>2, <1>3, <1>4, <1>5

LEMMA NormalDeploy ==
    ASSUME TypeInv, Safe, NormalUse, Normal, DeployBegins \/ DeployProceeds
    PROVE  Normal'
<1> USE DEF Normal
<1>d. IdleDep.agent = None /\ IdleDep.pc = "idle"
  BY DEF IdleDep
<1>1. ASSUME NEW r \in Reqs, SelectFails(r)
      PROVE  Normal'
  BY <1>1, NormalFrame DEF SelectFails
<1>2. ASSUME NEW r \in Reqs, NEW a \in Procs, SelectRandomAgent(r, a)
      PROVE  Normal'
  <2>1. /\ dep.pc = "idle" /\ a \in pendingAgents /\ agent[a] = "ready"
        /\ dep'.pc = "prepare" /\ dep'.agent = a
        /\ UNCHANGED <<pmVars, mapVars, clientVars, call, mstop, agentVars>>
    BY <1>2 DEF SelectRandomAgent, PoolFree, NormalUse
  <2>2. OneSpare'
    BY <2>1 DEF OneSpare, Spare, UnderWay
  <2>3. Matched'
    BY <2>1 DEF Matched, UnderWay
  <2>4. StopsLate'
    BY <2>1 DEF StopsLate, LateCall
  <2>5. Accounted'
    BY <2>1 DEF Accounted, BeingStopped, BeingSignalled
  <2> QED BY <2>1, <2>2, <2>3, <2>4, <2>5, NormalFrame
<1>3. CASE DeployPrepares
  <2>1. CASE PrepareWorkload(dep.agent, dep.req) /\ dep' = [dep EXCEPT !.pc = "send"]
    <3> DEFINE p == warmProcs[1]
    <3>1. /\ p \in Procs /\ p = Head(warmProcs) /\ 1 \in 1..Len(warmProcs)
      BY <2>1, SafeTypes DEF PrepareWorkload
    <3>2. Spare(p)
      BY <3>1 DEF Spare
    <3> HIDE DEF p
    <3>3. /\ procRequest' = [procRequest EXCEPT ![p] = dep.req]
          /\ deployRequests' = [deployRequests EXCEPT ![p] = dep.req]
          /\ dep.pc = "prepare" /\ dep.req \in Reqs /\ dep.agent \in Procs
          /\ UNCHANGED <<liveProcs, spawner, cancelled, os, mapVars, clientVars,
                         call, mstop, agentVars>>
      BY <1>3, <2>1, <3>1, SafeTypes DEF DeployPrepares, PrepareWorkload
    <3>4. dep'.agent = dep.agent /\ dep'.pc = "send" /\ dep'.req = dep.req
      BY <2>1, <3>3, DepChange
    <3>5. dep.agent \in pendingAgents /\ agent[dep.agent] = "ready"
      BY <3>3 DEF OneSpare
    <3>6. \A q \in pendingAgents \cup starting : q = p
      BY <3>1, <3>2, <3>3, SpareIsOne, ProcSets DEF OneSpare, UnderWay
    <3>7. p = dep.agent /\ starting = {} /\ p \in subscribed
      BY <3>5, <3>6 DEF Safe, ClientsInOrder, OneSpare
    <3>8. /\ procRequest[p] = None /\ procRequest'[p] = dep.req /\ dep.req # None
          /\ deployRequests'[p] = dep.req
          /\ \A q \in Procs \ {p} : UNCHANGED <<procRequest[q], deployRequests[q]>>
      BY <3>1, <3>2, <3>3, SpareIsBlank, ProcRequestType, DeployRequestsType, NoneIsNone
    <3>9. NoAlarm'
      BY <3>3, <3>5, <3>7, <3>8 DEF NoAlarm
    <3>10. OneSpare'
      BY <3>1, <3>3, <3>4, <3>5, <3>6, <3>7 DEF OneSpare, UnderWay
    <3>11. Matched'
      <4>1. running[p] = {} /\ events[p] = 0
        BY <3>3, <3>5, <3>7 DEF Matched
      <4> QED BY <3>3, <3>4, <3>7, <3>8, <4>1 DEF Matched, UnderWay
    <3>12. StopsLate'
      <4>1. \A t \in Threads : call[t].pc # "idle" => call[t].id \in Procs \ {p}
        BY <3>8, CallIds DEF StopsLate, LateCall
      <4>2. \A t \in Threads : call[t].pc # "idle" =>
                UNCHANGED <<procRequest[call[t].id], deployRequests[call[t].id]>>
        BY <3>3, <3>8, <4>1
      <4> QED BY <3>3, <3>4, <4>2 DEF StopsLate, LateCall
    <3>13. Accounted'
      <4>1. ASSUME NEW q \in liveProcs, procRequest'[q] # None
            PROVE  /\ q \in subscribed
                   /\ \/ running[q] # {} \/ events[q] > 0
                      \/ dep'.agent = q /\ dep'.pc \in {"send", "await"}
                      \/ BeingStopped(q)
                   /\ deployRequests'[q] = None => BeingSignalled(q)
        <5>1. CASE q = p
          BY <3>4, <3>7, <3>8, <5>1
        <5>2. CASE q # p
          BY <3>3, <3>8, <4>1, <5>2, ProcSets DEF Accounted
        <5> QED BY <5>1, <5>2
      <4> QED BY <3>3, <4>1, SameCalls DEF Accounted
    <3> QED BY <3>3, <3>9, <3>10, <3>11, <3>12, <3>13, NormalFrame
  <2>2. CASE PrepareTimesOut /\ dep' = IdleDep
    <3>1. /\ dep.pc = "prepare" /\ dep'.pc = "idle"
          /\ UNCHANGED <<pmVars, mapVars, clientVars, call, mstop, agentVars>>
      BY <1>3, <1>d, <2>2 DEF DeployPrepares, PrepareTimesOut
    <3>2. OneSpare' /\ StopsLate'
      BY <3>1 DEF OneSpare, Spare, UnderWay, StopsLate, LateCall
    <3>3. Matched'
      BY <3>1 DEF Matched, UnderWay
    <3>4. Accounted'
      BY <3>1 DEF Accounted, BeingStopped, BeingSignalled
    <3> QED BY <3>1, <3>2, <3>3, <3>4, NormalFrame
  <2> QED BY <1>3, <2>1, <2>2 DEF DeployPrepares
<1>4. CASE DeploySends
  <2>1. /\ dep.pc = "send" /\ dep.agent \in Procs /\ dep.req \in Reqs
        /\ dep.agent \in pendingAgents /\ agent[dep.agent] = "ready"
        /\ os[dep.agent] = "running"
    BY <1>4, DepType DEF DeploySends, OneSpare, Matched
  <2>2. /\ inbox' = [inbox EXCEPT ![dep.agent] = @ \cup {dep.req}]
        /\ dep' = [dep EXCEPT !.pc = "await"]
        /\ UNCHANGED <<pmVars, mapVars, clientVars, stopHolder, call, mstop,
                       agent, running, events>>
    BY <1>4, <2>1 DEF DeploySends
  <2>3. dep'.pc = "await" /\ dep'.agent = dep.agent /\ dep'.req = dep.req
    BY <2>1, <2>2, DepChange
  <2>4. /\ \A q \in Procs \ {dep.agent} : inbox'[q] = inbox[q]
        /\ inbox'[dep.agent] = inbox[dep.agent] \cup {dep.req}
    BY <2>1, <2>2, InboxType
  <2>5. OneSpare' /\ StopsLate'
    BY <2>1, <2>2, <2>3 DEF OneSpare, Spare, UnderWay, StopsLate, LateCall
  <2>6. Matched'
    BY <2>1, <2>2, <2>3, <2>4 DEF Matched, UnderWay
  <2>7. Accounted'
    BY <2>1, <2>2, <2>3 DEF Accounted, BeingStopped, BeingSignalled
  <2> QED BY <2>2, <2>5, <2>6, <2>7, NormalFrame
<1>5. ~DeployTimesOut
  BY DepType DEF DeployTimesOut, NormalUse, OneSpare, Matched
<1>6. CASE DeployAccepted
  <2>1. /\ dep.pc = "accepted" /\ dep.agent \in Procs /\ dep.req \in Reqs
        /\ dep.agent \in pendingAgents /\ os[dep.agent] = "running"
        /\ procRequest[dep.agent] = dep.req /\ dep.req # None
    BY <1>6, DepType, NoneIsNone DEF DeployAccepted, OneSpare, Matched, UnderWay
  <2>2. /\ activeAgents' = activeAgents \cup {dep.agent}
        /\ pendingAgents' = pendingAgents \ {dep.agent}
        /\ UNCHANGED <<pmVars, clientVars, call, mstop, agentVars>>
    BY <1>6 DEF DeployAccepted
  <2>3. dep'.pc = "idle" \/ (dep'.pc = "subscribe" /\ dep'.agent = dep.agent)
    BY <1>6, <1>d, DepChange DEF DeployAccepted
  <2>4. OneSpare'
    BY <2>1, <2>2, <2>3 DEF OneSpare, Spare, UnderWay, Safe, ClientsInOrder
  <2>5. Matched'
    BY <2>1, <2>2, <2>3 DEF Matched, UnderWay
  <2>6. StopsLate'
    BY <2>1, <2>2, <2>3 DEF StopsLate, LateCall
  <2>7. ActiveIsLive'
    BY <2>1, <2>2 DEF ActiveIsLive, Safe, NoOrphans, YoungIsUnknown, Spawned, Unknown
  <2>8. Accounted'
    BY <2>1, <2>2, <2>3 DEF Accounted, BeingStopped, BeingSignalled
  <2> QED BY <2>2, <2>4, <2>5, <2>6, <2>7, <2>8, NormalFrame
<1>7. CASE DeploySubscribes
  <2>1. /\ dep.pc = "subscribe" /\ dep.agent \in Procs
        /\ procRequest[dep.agent] # None
        /\ dep.agent \notin pendingAgents \cup starting
        /\ call["deploy"].pc = "idle"
        /\ UNCHANGED <<pmVars, mapVars, clientVars, mstop, agentVars>>
    BY <1>7, DepType DEF DeploySubscribes, OneSpare, StopsLate, LateCall
  <2>2. \/ dep'.pc = "idle" /\ call' = call
        \/ /\ dep'.pc = "stopping" /\ dep'.agent = dep.agent
           /\ call' = [call EXCEPT !["deploy"] = StopCall(dep.agent, TRUE)]
    BY <1>7, <1>d, <2>1, DepChange DEF DeploySubscribes
  <2>3. /\ \A t \in Threads \ {"deploy"} : call'[t] = call[t]
        /\ \/ dep'.pc = "idle" /\ call'["deploy"].pc = "idle"
           \/ /\ dep'.pc = "stopping" /\ dep'.agent = dep.agent
              /\ call'["deploy"].id = dep.agent
    BY <2>1, <2>2, CallType, ThreadNames DEF StopCall
  <2>4. OneSpare'
    BY <2>1, <2>3 DEF OneSpare, Spare, UnderWay
  <2>5. Matched'
    BY <2>1, <2>3 DEF Matched, UnderWay
  <2>6. StopsLate'
    BY <2>1, <2>3, ThreadNames DEF StopsLate, LateCall
  <2>7. Accounted'
    <3>1. \A q \in Procs : /\ BeingStopped(q) => BeingStopped(q)'
                           /\ BeingSignalled(q) => BeingSignalled(q)'
      BY <2>1, <2>3 DEF BeingStopped, BeingSignalled
    <3> QED BY <2>1, <2>3, <3>1, ProcSets DEF Accounted
  <2> QED BY <2>1, <2>4, <2>5, <2>6, <2>7, NormalFrame
<1>8. ~DeployRejected
  BY DEF DeployRejected, OneSpare
<1> QED BY <1>1, <1>2, <1>3, <1>4, <1>5, <1>6, <1>7, <1>8
        DEF DeployBegins, DeployProceeds

LEMMA NormalStop ==
    ASSUME TypeInv, Safe, NormalUse, Normal, NEW t \in Threads, StopWorkload(t)
    PROVE  Normal'
<1> USE DEF Normal
<1> DEFINE id == call[t].id
<1>c. call \in [Threads -> CallStates]
  BY CallType
<1>0. /\ call[t].pc # "idle" /\ id \in Procs /\ procRequest[id] # None
      /\ t = "deploy" => dep.pc = "stopping"
  BY CallIds DEF StopWorkload, StopEnters, StopLocks, StopKills, StopSignals,
                     StopsLate, LateCall
<1>p. CASE panicked' = TRUE /\ UNCHANGED <<pmVars, mapVars, clientVars, agentVars,
                                           stopHolder, dep, call, mstop, usedReqs>>
  BY <1>p, NormalFrame
<1>1. CASE StopEnters(t)
  <2>1. CASE /\ call' = [call EXCEPT ![t].pc = "lock",
                                     ![t].found = Lookup(call[t].id) # None]
             /\ UNCHANGED <<dep, mstop>>
    <3>1. /\ call[t].pc = "enter"
          /\ UNCHANGED <<pmVars, mapVars, clientVars, agentVars>>
      BY <1>1 DEF StopEnters
    <3>2. /\ \A u \in Threads \ {t} : call'[u] = call[u]
          /\ call'[t].pc = "lock" /\ call'[t].id = id
          /\ call'[t].undeploy = call[t].undeploy
          /\ call'[t].found = (deployRequests[id] # None)
      BY <1>c, <2>1 DEF CallStates, Lookup
    <3> HIDE DEF id
    <3>3. StopsLate'
      <4>1. \A u \in Threads \ {t} : LateCall(u)'
        BY <3>1, <3>2 DEF StopsLate, LateCall
      <4>2. LateCall(t)'
        BY <1>0, <3>1, <3>2 DEF StopsLate, LateCall, id
      <4>3. dep.pc # "stopping" => call'["deploy"].pc = "idle"
        BY <1>0, <3>2, ThreadNames DEF StopsLate
      <4> QED BY <2>1, <4>1, <4>2, <4>3 DEF StopsLate
    <3>4. \A q : /\ BeingStopped(q) => BeingStopped(q)'
                 /\ BeingSignalled(q) => BeingSignalled(q)'
      BY <3>1, <3>2 DEF BeingStopped, BeingSignalled, id
    <3>5. Accounted'
      BY <2>1, <3>1, <3>4 DEF Accounted
    <3> QED BY <2>1, <3>1, <3>3, <3>5, NormalFrame
  <2> QED BY <1>1, <1>p, <2>1 DEF StopEnters, Panic
<1>2. CASE StopLocks(t)
  <2>1. CASE /\ ~(call[t].found /\ call[t].undeploy /\ id \notin activeAgents)
             /\ call' = [call EXCEPT ![t].pc = "kill"]
             /\ UNCHANGED <<dep, mstop>>
    <3>1. /\ call[t].pc = "lock"
          /\ UNCHANGED <<pmVars, mapVars, clientVars, agentVars>>
      BY <1>2 DEF StopLocks
    <3>2. /\ \A u \in Threads \ {t} : call'[u] = call[u]
          /\ call'[t].pc = "kill" /\ call'[t].id = id
      BY <1>c, <2>1 DEF CallStates
    <3>3. id \notin pendingAgents
      BY <2>1, <3>1 DEF StopsLate, LateCall, Safe, PendingOrActive
    <3> HIDE DEF id
    <3>4. StopsLate'
      BY <1>0, <2>1, <3>1, <3>2, <3>3 DEF StopsLate, LateCall
    <3>5. \A q : /\ BeingStopped(q) => BeingStopped(q)'
                 /\ BeingSignalled(q) => BeingSignalled(q)'
      BY <3>1, <3>2 DEF BeingStopped, BeingSignalled, id
    <3>6. Accounted'
      BY <2>1, <3>1, <3>5 DEF Accounted
    <3> QED BY <2>1, <3>1, <3>4, <3>6, NormalFrame
  <2> QED BY <1>2, <1>p, <2>1 DEF StopLocks, Panic
<1>r. ASSUME StopReturns(t), id \notin pendingAgents, id \notin liveProcs',
             \A q \in Procs : UNCHANGED <<procRequest[q], deployRequests[q]>>,
             UNCHANGED <<spawner, warmProcs>>,
             liveProcs' \subseteq liveProcs
      PROVE  OneSpare' /\ StopsLate' /\ Accounted'
  <2>1. /\ subscribed \ {id} \subseteq subscribed'
        /\ \A u \in Threads \ {t} : call'[u] = call[u]
        /\ call'[t].pc = "idle"
        /\ dep' = dep \/ (t = "deploy" /\ dep'.pc = "idle" /\ dep'.agent = None)
        /\ t = "deploy" => dep'.pc = "idle"
        /\ UNCHANGED <<pendingAgents, starting, agentVars>>
    BY <1>c, <1>r DEF StopReturns, IdleCall, IdleDep
  <2> HIDE DEF id
  <2>2. OneSpare'
    BY <1>0, <1>r, <2>1, ProcSets, DepType DEF OneSpare, Spare, UnderWay
  <2>3. StopsLate'
    BY <1>0, <1>r, <2>1, CallIds, ThreadNames DEF StopsLate, LateCall
  <2>4. \A q \in Procs \ {id} : /\ BeingStopped(q) => BeingStopped(q)'
                                /\ BeingSignalled(q) => BeingSignalled(q)'
    BY <2>1 DEF BeingStopped, BeingSignalled, id
  <2>5. Accounted'
    BY <1>0, <1>r, <2>1, <2>4, ProcSets DEF Accounted
  <2> QED BY <2>2, <2>3, <2>5
<1>m. ASSUME StopReturns(t), UNCHANGED <<procRequest, deployRequests>>,
             liveProcs' \subseteq liveProcs,
             \A q \in Procs : \/ os'[q] = os[q]
                              \/ /\ q = id /\ id \notin pendingAgents
                                 /\ id \notin liveProcs'
                                 /\ os'[q] = "signalled"
      PROVE  Matched'
  <2>1. /\ dep' = dep \/ (dep.pc = "stopping" /\ dep'.pc = "idle")
        /\ UNCHANGED <<pendingAgents, agentVars>>
    BY <1>0, <1>m DEF StopReturns, IdleDep
  <2> HIDE DEF id
  <2> QED BY <1>0, <1>m, <2>1 DEF Matched, UnderWay
<1>3. CASE StopKills(t)
  <2>0. id \notin pendingAgents /\ call[t].pc = "kill"
    BY <1>3 DEF StopKills, StopsLate, LateCall
  <2>1. CASE /\ StopProcessNoSuch(id) /\ StopReturns(t)
             /\ UNCHANGED <<activeAgents, stopMutex, published>>
    <3>1. id \notin liveProcs' /\ UNCHANGED <<pmVars, await, handshakes, mstop, agent>>
      BY <2>1 DEF StopProcessNoSuch, StopReturns
    <3>2. OneSpare' /\ StopsLate' /\ Accounted'
      BY <1>r, <2>0, <2>1, <3>1
    <3>3. Matched'
      BY <1>m, <2>1, <3>1
    <3> QED BY <2>1, <3>1, <3>2, <3>3, NormalFrame
  <2>2. CASE /\ StopProcessFinds(id)
             /\ call' = [call EXCEPT ![t].pc = "signal"]
             /\ UNCHANGED <<mapVars, clientVars, stopHolder, dep, mstop, usedReqs,
                            panicked, agentVars>>
    <3>1. /\ deployRequests' = [deployRequests EXCEPT ![id] = None]
          /\ UNCHANGED <<liveProcs, warmProcs, procRequest, spawner, cancelled, os>>
      BY <2>2 DEF StopProcessFinds
    <3>2. /\ \A u \in Threads \ {t} : call'[u] = call[u]
          /\ call'[t].pc = "signal" /\ call'[t].id = id
      BY <1>c, <2>2 DEF CallStates
    <3> HIDE DEF id
    <3>3. /\ deployRequests'[id] = None
          /\ \A q \in Procs \ {id} : deployRequests'[q] = deployRequests[q]
      BY <1>0, <3>1, DeployRequestsType
    <3>4. Matched'
      BY <2>2, <3>1, <3>3 DEF Matched, UnderWay
    <3>5. StopsLate'
      BY <1>0, <2>0, <2>2, <3>1, <3>2, <3>3, CallIds DEF StopsLate, LateCall
    <3>6. /\ \A q : /\ BeingStopped(q) => BeingStopped(q)'
                    /\ BeingSignalled(q) => BeingSignalled(q)'
          /\ \A q : q = id => BeingSignalled(q)'
      BY <2>0, <3>2 DEF BeingStopped, BeingSignalled, id
    <3>7. Accounted'
      <4> SUFFICES ASSUME NEW q \in liveProcs, procRequest[q] # None
                   PROVE  /\ q \in subscribed
                          /\ \/ running[q] # {} \/ events[q] > 0
                             \/ dep.agent = q /\ dep.pc \in {"send", "await"}
                             \/ BeingStopped(q)'
                          /\ deployRequests'[q] = None => BeingSignalled(q)'
        BY <2>2, <3>1 DEF Accounted
      <4>1. q \in Procs /\ (deployRequests'[q] = None =>
                                q = id \/ deployRequests[q] = None)
        BY <3>3, ProcSets
      <4> QED BY <3>6, <4>1 DEF Accounted
    <3> QED BY <2>2, <3>1, <3>4, <3>5, <3>7, NormalFrame
  <2> QED BY <1>3, <2>1, <2>2 DEF StopKills
<1>4. CASE StopSignals(t)
  <2>0. id \notin pendingAgents /\ StopReturns(t)
    BY <1>4 DEF StopSignals, StopsLate, LateCall
  <2>1. CASE /\ StopProcessKillFails(id)
             /\ UNCHANGED <<activeAgents, stopMutex, published>>
    <3>1. id \notin liveProcs' /\ UNCHANGED <<pmVars, await, handshakes, mstop, agent>>
      BY <1>0, <2>0, <2>1 DEF StopProcessKillFails, StopReturns, Matched
    <3>2. OneSpare' /\ StopsLate' /\ Accounted'
      BY <1>r, <2>0, <2>1, <3>1
    <3>3. Matched'
      BY <1>m, <2>0, <2>1, <3>1
    <3> QED BY <2>1, <3>1, <3>2, <3>3, NormalFrame
  <2>2. CASE StopProcessOk(id) /\ StopForgets(id)
    <3>1. /\ os' = [os EXCEPT ![id] = "signalled"]
          /\ liveProcs' = liveProcs \ {id}
          /\ activeAgents' = activeAgents \ {id}
          /\ UNCHANGED <<warmProcs, procRequest, deployRequests, spawner, cancelled,
                         await, handshakes, mstop, agent>>
      BY <2>0, <2>2 DEF StopProcessOk, StopForgets, StopReturns
    <3>2. OneSpare' /\ StopsLate' /\ Accounted'
      BY <1>r, <2>0, <3>1
    <3>3. \A q \in Procs : os'[q] = IF q = id THEN "signalled" ELSE os[q]
      BY <1>0, <3>1, OsType
    <3>4. Matched'
      BY <1>m, <2>0, <3>1, <3>3
    <3>5. NoAlarm'
      BY <3>1, <3>3 DEF NoAlarm
    <3>6. ActiveIsLive'
      BY <3>1 DEF ActiveIsLive
    <3> QED BY <3>2, <3>4, <3>5, <3>6
  <2> QED BY <1>4, <2>1, <2>2 DEF StopSignals
<1> QED BY <1>1, <1>2, <1>3, <1>4 DEF StopWorkload

LEMMA NormalManager ==
    ASSUME TypeInv, Safe, NormalUse, Normal,
           ManagerStop \/ \E id \in Procs : HandleStop(id)
    PROVE  Normal'
<1> USE DEF Normal
<1>1. ~ManagerStop
  BY DEF ManagerStop, ManagerStops, ManagerStopsNext, ManagerStopsProcess,
         ManagerStopsProcesses, ManagerSignalsProcess, InProcManStop, ManagerStopped,
         NoAlarm, NormalUse
<1>2. ASSUME NEW id \in Procs, HandleStop(id)
      PROVE  Normal'
  <2>1. /\ call["api"].pc = "idle" /\ deployRequests[id] # None
        /\ call' = [call EXCEPT !["api"] = StopCall(id, TRUE)]
        /\ UNCHANGED <<pmVars, mapVars, clientVars, dep, mstop, agentVars>>
    BY <1>2 DEF HandleStop, Lookup
  <2>2. /\ \A u \in Threads \ {"api"} : call'[u] = call[u]
        /\ call'["api"].pc = "enter" /\ call'["api"].id = id
        /\ call'["api"].undeploy = TRUE
    BY <2>1, CallType, ThreadNames DEF StopCall
  <2>3. procRequest[id] # None
    BY <2>1 DEF Matched
  <2>4. StopsLate'
    <3>1. dep.pc # "stopping" => call'["deploy"].pc = "idle"
      BY <2>2, ThreadNames DEF StopsLate, LateCall
    <3>2. \A t \in Threads \ {"api"} : LateCall(t)'
      BY <2>1, <2>2 DEF StopsLate, LateCall
    <3>3. LateCall("api")'
      BY <2>1, <2>2, <2>3 DEF LateCall
    <3> QED BY <2>1, <3>1, <3>2, <3>3 DEF StopsLate
  <2>5. \A q \in Procs : /\ BeingStopped(q) => BeingStopped(q)'
                         /\ BeingSignalled(q) => BeingSignalled(q)'
    BY <2>1, <2>2 DEF BeingStopped, BeingSignalled
  <2>6. Accounted'
    BY <2>1, <2>5, ProcSets DEF Accounted
  <2> QED BY <2>1, <2>4, <2>6, NormalFrame
<1> QED BY <1>1, <1>2

\* Normal use keeps the invariant for ever.
LEMMA Normality ==
    ASSUME NormalUse
    PROVE  Spec => [](TypeInv /\ Safe /\ Normal)
<1>1. Init => Normal
  <2> SUFFICES ASSUME Init PROVE Normal
    OBVIOUS
  <2> USE DEF Init, PMInit, IdleDep, IdleCall
  <2>1. NoAlarm /\ OneSpare
    BY DEF NoAlarm, OneSpare
  <2>2. Matched /\ ActiveIsLive /\ Accounted
    BY DEF Matched, ActiveIsLive, Accounted, UnderWay
  <2>3. StopsLate
    BY DEF StopsLate, LateCall, Threads
  <2> QED BY <2>1, <2>2, <2>3 DEF Normal
<1>2. TypeInv /\ Safe /\ Normal /\ [Next]_vars => Normal'
  <2> SUFFICES ASSUME TypeInv, Safe, Normal, [Next]_vars PROVE Normal'
    OBVIOUS
  <2>1. CASE UNCHANGED vars
    BY <2>1, NormalFrame DEF Normal
  <2> QED BY <2>1, NormalSpawn, NormalClients, NormalAgents, NormalDeploy, NormalStop,
             NormalManager DEF Next
<1> QED BY <1>1, <1>2, TypeInit, TypeNext, SafeInit, SafeNext, PTL DEF Spec

\* In normal use the id under which STOP, events and logs find a request is the
\* id of the agent that runs it, although PrepareWorkload ignores the id it is
\* called with: with one warm process, and under poolMutex, the process it
\* receives is the one whose client was picked.
THEOREM RequestStaysAtItsAgent ==
    ASSUME NormalUse
    PROVE  Spec => []RequestAtItsAgent
<1>1. TypeInv /\ Safe /\ Normal => RequestAtItsAgent
  BY PoolAssumption DEF Normal, Matched, Safe, RequestsOnce, RequestAtItsAgent
<1> QED BY <1>1, Normality, PTL

\* In normal use every active client has a process in liveProcs: StopWorkload
\* drops the two together, and a STOP that comes between PrepareWorkload and the
\* agent's answer cannot get at the process before its client is active.
THEOREM ActiveStaysLive ==
    ASSUME NormalUse
    PROVE  Spec => []ActiveIsLive
<1>1. Normal => ActiveIsLive
  BY DEF Normal
<1> QED BY <1>1, Normality, PTL

\* In normal use RunningWorkloads tells the truth: when no operation is under
\* way, every process it lists runs its workload or has just reported its end.
THEOREM ListedStaysRunning ==
    ASSUME NormalUse
    PROVE  Spec => []ListedIsRunning
<1>1. TypeInv /\ Normal => ListedIsRunning
  BY ProcSets DEF Normal, Accounted, BeingStopped, ListedIsRunning, ListProcesses,
                   Quiet
<1> QED BY <1>1, Normality, PTL

=============================================================================
