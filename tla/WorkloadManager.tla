-------------------------- MODULE WorkloadManager --------------------------
(***************************************************************************)
(* The workload manager of a Nex node (internal/node/workload_mgr.go and   *)
(* workload_mgr_events.go), with one agent client per process              *)
(* (internal/agent-api/client.go), on top of the spawning process manager. *)
(*                                                                         *)
(* Goroutines that share its maps: the spawn loop, one OnProcessStarted    *)
(* and one awaitHandshake per process, the DEPLOY handler (one message at  *)
(* a time), the STOP handler (one at a time), one event handler per agent  *)
(* and the goroutine that shuts the node down.  Only poolMutex and the     *)
(* per-process stopMutex order them.                                       *)
(*                                                                         *)
(* The nex-agent on the other side of the internal NATS connection is kept *)
(* to what the node can see of it; NexAgent models it in detail.           *)
(***************************************************************************)
EXTENDS SpawningProcMan

CONSTANTS
    TriggerReqs,  \* the requests with trigger subjects (v8 and wasm)
    Env           \* which of the events below the environment may produce

EnvEvents == {
    "stop",          \* STOP requests on the control API
    "shutdown",      \* a signal that stops the node
    "earlyDeploy",   \* a DEPLOY before the agent has subscribed to it
    "reject",        \* an agent refuses a deployment
    "noAck",         \* an agent fails to start a workload and says nothing
    "lateAck",       \* an agent answers after the node gave up (1s)
    "earlyExit",     \* a workload ends before the node has read the answer
    "crash",         \* an agent process dies
    "noResponders",  \* an agent asks for its handshake before it is awaited
    "slowHandshake", \* a handshake takes longer than handshakeTimeout
    "badSubject"}    \* NATS refuses a trigger subscription

Threads == {"api", "deploy", "shutdown"} \cup Procs

ASSUME EnvAssumption ==
    /\ TriggerReqs \subseteq Reqs
    /\ Env \subseteq EnvEvents
    /\ {"api", "deploy", "shutdown"} \cap (Procs \cup {None}) = {}

VARIABLES
    pendingAgents,   \* keys of pendingAgents
    activeAgents,    \* keys of activeAgents
    stopMutex,       \* keys of stopMutex
    stopHolder,      \* which goroutine holds the mutex made for a process
    starting,        \* OnProcessStarted goroutines that have not run yet
    subscribed,      \* agent clients whose subscriptions are in place
    await,           \* the awaitHandshake goroutine of every client
    handshakes,      \* keys of handshakes (and handshakeReceived)
    dep,             \* the DEPLOY handler inside DeployWorkload
    call,            \* every goroutine's call of StopWorkload
    mstop,           \* the goroutine inside the manager's Stop
    usedReqs,        \* requests DeployWorkload was already called with
    published,       \* processes whose end publishWorkloadStopped announced
    panicked,        \* a nil dereference has ended the node process
    agent,           \* how far an agent has got with its init()
    inbox,           \* deploy requests an agent has not looked at yet
    running,         \* workloads an agent runs
    events           \* workload_stopped events not yet handled by the node

wmVars == <<pendingAgents, activeAgents, stopMutex, stopHolder, starting,
            subscribed, await, handshakes, dep, call, mstop, usedReqs,
            published, panicked, agent, inbox, running, events>>

vars == <<pmVars, wmVars>>

IdleDep == [pc |-> "idle", req |-> None, agent |-> None]

IdleCall == [pc |-> "idle", id |-> None, undeploy |-> FALSE, found |-> FALSE]

\* A call of StopWorkload(id, undeploy) that is about to begin.
StopCall(id, undeploy) ==
    [pc |-> "enter", id |-> id, undeploy |-> undeploy, found |-> FALSE]

\* A call of StopProcess(id) by procMan.Stop that has found the process.
ProcStopCall(id) ==
    [pc |-> "signal", id |-> id, undeploy |-> FALSE, found |-> FALSE]

DepStates == [pc : {"idle", "prepare", "send", "await", "accepted",
                    "rejected", "subscribe", "stopping"},
              req : Reqs \cup {None},
              agent : Procs \cup {None}]

CallStates == [pc : {"idle", "enter", "lock", "kill", "signal"},
               id : Procs \cup {None},
               undeploy : BOOLEAN,
               found : BOOLEAN]

StopStates == [pc : {"no", "active", "procs", "done"},
               todo : SUBSET Procs,
               visited : SUBSET Procs]

\* Every variable has its type.
TypeOK ==
    /\ PMTypeOK
    /\ pendingAgents \subseteq Procs
    /\ activeAgents \subseteq Procs
    /\ stopMutex \subseteq Procs
    /\ stopHolder \in [Procs -> Threads \cup {None}]
    /\ starting \subseteq Procs
    /\ subscribed \subseteq Procs
    /\ await \in [Procs -> {"off", "waiting", "expired", "over"}]
    /\ handshakes \subseteq Procs
    /\ dep \in DepStates
    /\ call \in [Threads -> CallStates]
    /\ mstop \in StopStates
    /\ usedReqs \subseteq Reqs
    /\ published \subseteq Procs
    /\ panicked \in BOOLEAN
    /\ agent \in [Procs -> {"boot", "retry", "shaken", "ready", "down"}]
    /\ inbox \in [Procs -> SUBSET Reqs]
    /\ running \in [Procs -> SUBSET Reqs]
    /\ events \in [Procs -> Nat]

Init ==
    /\ PMInit
    /\ pendingAgents = {}
    /\ activeAgents = {}
    /\ stopMutex = {}
    /\ stopHolder = [p \in Procs |-> None]
    /\ starting = {}
    /\ subscribed = {}
    /\ await = [p \in Procs |-> "off"]
    /\ handshakes = {}
    /\ dep = IdleDep
    /\ call = [t \in Threads |-> IdleCall]
    /\ mstop = [pc |-> "no", todo |-> {}, visited |-> {}]
    /\ usedReqs = {}
    /\ published = {}
    /\ panicked = FALSE
    /\ agent = [p \in Procs |-> "boot"]
    /\ inbox = [p \in Procs |-> {}]
    /\ running = [p \in Procs |-> {}]
    /\ events = [p \in Procs |-> 0]

\* poolMutex: DeployWorkload holds it from its first to its last step; the
\* other two users hold it within one step.
PoolFree == dep.pc = "idle"

\* The node process has not ended: a step of any of its goroutines needs it.
Up == ~panicked

mapVars == <<pendingAgents, activeAgents, stopMutex, published>>
clientVars == <<starting, subscribed, await, handshakes>>
nodeVars == <<stopHolder, dep, call, mstop, usedReqs, panicked>>
agentVars == <<agent, inbox, running, events>>

(***************************************************************************)
(* Agent processes and their clients.                                      *)
(***************************************************************************)

\* The spawn loop registers a process and starts its OnProcessStarted.
RegisterProcess ==
    /\ Up
    /\ Register
    /\ starting' = starting \cup {spawner.proc}
    /\ UNCHANGED <<mapVars, subscribed, await, handshakes, nodeVars, agentVars>>

\* A client is made and subscribed, and awaitHandshake started, under
\* poolMutex; the client is pending from then on, handshake or not.
OnProcessStarted(p) ==
    /\ Up
    /\ p \in starting
    /\ PoolFree
    /\ starting' = starting \ {p}
    /\ subscribed' = subscribed \cup {p}
    /\ await' = [await EXCEPT ![p] = "waiting"]
    /\ pendingAgents' = pendingAgents \cup {p}
    /\ stopMutex' = stopMutex \cup {p}
    /\ UNCHANGED <<pmVars, activeAgents, published, handshakes, nodeVars,
                   agentVars>>

\* handleHandshake answers the agent and records the handshake.
HandleHandshake(p) ==
    /\ Up
    /\ os[p] = "running"
    /\ agent[p] \in {"boot", "retry"}
    /\ p \in subscribed
    /\ agent' = [agent EXCEPT ![p] = "shaken"]
    /\ handshakes' = handshakes \cup {p}
    /\ UNCHANGED <<pmVars, mapVars, starting, subscribed, await, nodeVars,
                   inbox, running, events>>

\* requestHandshake finds nobody subscribed: once more after 50ms.
HandshakeRetry(p) ==
    /\ "noResponders" \in Env
    /\ os[p] = "running"
    /\ agent[p] = "boot"
    /\ p \notin subscribed
    /\ agent' = [agent EXCEPT ![p] = "retry"]
    /\ UNCHANGED <<pmVars, mapVars, clientVars, nodeVars, inbox, running,
                   events>>

\* An agent whose handshake fails shuts itself down.
HandshakeFails(p) ==
    /\ \/ "noResponders" \in Env /\ agent[p] = "retry" /\ p \notin subscribed
       \/ "slowHandshake" \in Env /\ agent[p] \in {"boot", "retry"}
    /\ os[p] = "running"
    /\ ProcessExits(p)
    /\ agent' = [agent EXCEPT ![p] = "down"]
    /\ UNCHANGED <<mapVars, clientVars, nodeVars, inbox, running, events>>

\* After its handshake the agent subscribes to its deploy subject.
AgentReady(p) ==
    /\ os[p] = "running"
    /\ agent[p] = "shaken"
    /\ agent' = [agent EXCEPT ![p] = "ready"]
    /\ UNCHANGED <<pmVars, mapVars, clientVars, nodeVars, inbox, running,
                   events>>

\* The awaitHandshake loop sees handshakeReceived.
AwaitSucceeds(p) ==
    /\ Up
    /\ await[p] = "waiting"
    /\ p \in handshakes
    /\ await' = [await EXCEPT ![p] = "over"]
    /\ UNCHANGED <<pmVars, mapVars, starting, subscribed, handshakes,
                   nodeVars, agentVars>>

\* The loop finds its deadline passed.  It looks at the clock before it
\* looks at handshakeReceived.
AwaitExpires(p) ==
    /\ Up
    /\ await[p] = "waiting"
    /\ "slowHandshake" \in Env \/ (os[p] # "running" /\ p \notin handshakes)
    /\ await' = [await EXCEPT ![p] = "expired"]
    /\ UNCHANGED <<pmVars, mapVars, starting, subscribed, handshakes,
                   nodeVars, agentVars>>

\* agentHandshakeTimedOut, under poolMutex.  Only the client is forgotten;
\* the process stays in liveProcs and, usually, in warmProcs.
AgentHandshakeTimedOut(p) ==
    /\ Up
    /\ await[p] = "expired"
    /\ PoolFree
    /\ await' = [await EXCEPT ![p] = "over"]
    /\ pendingAgents' = pendingAgents \ {p}
    /\ cancelled' = (cancelled \/ handshakes = {})
    /\ UNCHANGED <<liveProcs, warmProcs, procRequest, deployRequests, spawner,
                   pmClosing, os, activeAgents, stopMutex, published, starting,
                   subscribed, handshakes, nodeVars, agentVars>>

\* A process that was interrupted exits, or an agent dies of itself.
AgentExits(p) ==
    /\ os[p] = "signalled" \/ "crash" \in Env
    /\ ProcessExits(p)
    /\ agent' = [agent EXCEPT ![p] = "down"]
    /\ inbox' = [inbox EXCEPT ![p] = {}]
    /\ running' = [running EXCEPT ![p] = {}]
    /\ UNCHANGED <<mapVars, clientVars, nodeVars, events>>

\* A native workload ends and its agent publishes workload_stopped, which
\* reaches the node while the client is subscribed.
WorkloadExits(p, r) ==
    /\ os[p] \in {"running", "signalled"}
    /\ r \in running[p] \ TriggerReqs
    /\ "earlyExit" \in Env \/ ~(dep.pc = "accepted" /\ dep.agent = p)
    /\ running' = [running EXCEPT ![p] = @ \ {r}]
    /\ events' = [events EXCEPT ![p] = IF p \in subscribed THEN @ + 1 ELSE @]
    /\ UNCHANGED <<pmVars, mapVars, clientVars, nodeVars, agent, inbox>>

(***************************************************************************)
(* DeployWorkload, called by the DEPLOY handler.                           *)
(***************************************************************************)

\* Take poolMutex and pick any pending agent.
SelectRandomAgent(r, a) ==
    /\ Up
    /\ PoolFree
    /\ r \notin usedReqs
    /\ a \in pendingAgents
    /\ "earlyDeploy" \in Env \/ agent[a] = "ready"
    /\ usedReqs' = usedReqs \cup {r}
    /\ dep' = [pc |-> "prepare", req |-> r, agent |-> a]
    /\ UNCHANGED <<pmVars, mapVars, clientVars, stopHolder, call, mstop,
                   panicked, agentVars>>

\* "no available agent client in pool"
SelectFails(r) ==
    /\ Up
    /\ PoolFree
    /\ r \notin usedReqs
    /\ pendingAgents = {}
    /\ usedReqs' = usedReqs \cup {r}
    /\ UNCHANGED <<pmVars, mapVars, clientVars, stopHolder, dep, call, mstop,
                   panicked, agentVars>>

DeployPrepares ==
    /\ Up
    /\ dep.pc = "prepare"
    /\ \/ /\ PrepareWorkload(dep.agent, dep.req)
          /\ dep' = [dep EXCEPT !.pc = "send"]
       \/ /\ PrepareTimesOut
          /\ dep' = IdleDep
    /\ UNCHANGED <<mapVars, clientVars, stopHolder, call, mstop, usedReqs,
                   panicked, agentVars>>

\* agentClient.DeployWorkload: the request reaches an agent that has
\* subscribed, or NATS reports that there is no responder.
DeploySends ==
    /\ Up
    /\ dep.pc = "send"
    /\ IF os[dep.agent] = "running" /\ agent[dep.agent] = "ready"
       THEN /\ inbox' = [inbox EXCEPT ![dep.agent] = @ \cup {dep.req}]
            /\ dep' = [dep EXCEPT !.pc = "await"]
       ELSE /\ dep' = IdleDep
            /\ UNCHANGED inbox
    /\ UNCHANGED <<pmVars, mapVars, clientVars, stopHolder, call, mstop,
                   usedReqs, panicked, agent, running, events>>

\* What the agent's handleDeploy can answer: accepted, with the workload
\* running; refused; or nothing, when the workload cannot be started (a
\* native one then reports its end).
Answer(r, pc) ==
    IF dep.pc = "await" /\ dep.req = r THEN [dep EXCEPT !.pc = pc] ELSE dep

AgentHandlesDeploy(p, r) ==
    /\ os[p] = "running"
    /\ r \in inbox[p]
    /\ inbox' = [inbox EXCEPT ![p] = @ \ {r}]
    /\ \/ /\ running' = [running EXCEPT ![p] = @ \cup {r}]
          /\ dep' = Answer(r, "accepted")
          /\ UNCHANGED events
       \/ /\ "reject" \in Env
          /\ dep' = Answer(r, "rejected")
          /\ UNCHANGED <<running, events>>
       \/ /\ "noAck" \in Env
          /\ events' = [events EXCEPT ![p] = IF p \in subscribed /\ r \notin TriggerReqs
                                             THEN @ + 1 ELSE @]
          /\ UNCHANGED <<running, dep>>
    /\ UNCHANGED <<pmVars, mapVars, clientVars, stopHolder, call, mstop,
                   usedReqs, panicked, agent>>

\* Variant: the request has no timeout, only a dead agent ends it.
DeployTimesOut_NoDeadline ==
    /\ Up
    /\ dep.pc = "await"
    /\ os[dep.agent] = "exited"
    /\ dep' = IdleDep
    /\ UNCHANGED <<pmVars, mapVars, clientVars, stopHolder, call, mstop,
                   usedReqs, panicked, agentVars>>

\* No answer within a second: the handler gives up.  The agent stays
\* pending and the prepared process keeps the request.
DeployTimesOut ==
    /\ Up
    /\ dep.pc = "await"
    /\ \/ "lateAck" \in Env
       \/ dep.req \notin inbox[dep.agent]
       \/ os[dep.agent] # "running"
    /\ dep' = IdleDep
    /\ UNCHANGED <<pmVars, mapVars, clientVars, stopHolder, call, mstop,
                   usedReqs, panicked, agentVars>>

\* Variant: the client is not taken out of pendingAgents.
DeployAccepted_StaysPending ==
    /\ Up
    /\ dep.pc = "accepted"
    /\ activeAgents' = activeAgents \cup {dep.agent}
    /\ dep' = IF dep.req \in TriggerReqs
              THEN [dep EXCEPT !.pc = "subscribe"]
              ELSE IdleDep
    /\ UNCHANGED <<pmVars, pendingAgents, stopMutex, published, clientVars,
                   stopHolder, call, mstop, usedReqs, panicked, agentVars>>

\* An accepted workload's client moves from pending to active.
DeployAccepted ==
    /\ Up
    /\ dep.pc = "accepted"
    /\ activeAgents' = activeAgents \cup {dep.agent}
    /\ pendingAgents' = pendingAgents \ {dep.agent}
    /\ dep' = IF dep.req \in TriggerReqs
              THEN [dep EXCEPT !.pc = "subscribe"]
              ELSE IdleDep
    /\ UNCHANGED <<pmVars, stopMutex, published, clientVars, stopHolder, call, mstop,
                   usedReqs, panicked, agentVars>>

\* Trigger subjects are subscribed to.  generateTriggerHandler returns a nil
\* handler, which Subscribe refuses, if the client is not active any more.
DeploySubscribes ==
    /\ Up
    /\ dep.pc = "subscribe"
    /\ \/ /\ dep.agent \in activeAgents
          /\ dep' = IdleDep
          /\ UNCHANGED call
       \/ /\ dep.agent \notin activeAgents \/ "badSubject" \in Env
          /\ dep' = [dep EXCEPT !.pc = "stopping"]
          /\ call' = [call EXCEPT !["deploy"] = StopCall(dep.agent, TRUE)]
    /\ UNCHANGED <<pmVars, mapVars, clientVars, stopHolder, mstop, usedReqs,
                   panicked, agentVars>>

\* A refused workload is stopped, without an undeploy.
DeployRejected ==
    /\ Up
    /\ dep.pc = "rejected"
    /\ dep' = [dep EXCEPT !.pc = "stopping"]
    /\ call' = [call EXCEPT !["deploy"] = StopCall(dep.agent, FALSE)]
    /\ UNCHANGED <<pmVars, mapVars, clientVars, stopHolder, mstop, usedReqs,
                   panicked, agentVars>>

(***************************************************************************)
(* StopWorkload(id, undeploy), called by goroutine t.                      *)
(***************************************************************************)

\* A nil dereference in any goroutine ends the node process.
Panic ==
    /\ panicked' = TRUE
    /\ UNCHANGED <<stopHolder, dep, call, mstop, usedReqs>>

\* The request is looked up and the mutex read from the stopMutex map, in
\* which an absent key is a nil mutex.
StopEnters(t) ==
    /\ Up
    /\ call[t].pc = "enter"
    /\ IF call[t].id \in stopMutex
       THEN /\ call' = [call EXCEPT
                          ![t].pc = "lock",
                          ![t].found = Lookup(call[t].id) # None]
            /\ UNCHANGED <<stopHolder, dep, mstop, usedReqs, panicked>>
       ELSE Panic
    /\ UNCHANGED <<pmVars, mapVars, clientVars, agentVars>>

\* With the mutex held, a client is asked to undeploy if there is a request;
\* an absent client is a nil receiver.  What the agent makes of the undeploy
\* is WorkloadExits; a failing undeploy is only logged.
StopLocks(t) ==
    /\ Up
    /\ call[t].pc = "lock"
    /\ stopHolder[call[t].id] = None
    /\ IF call[t].found /\ call[t].undeploy /\ call[t].id \notin activeAgents
       THEN Panic
       ELSE /\ stopHolder' = [stopHolder EXCEPT ![call[t].id] = t]
            /\ call' = [call EXCEPT ![t].pc = "kill"]
            /\ UNCHANGED <<dep, mstop, usedReqs, panicked>>
    /\ UNCHANGED <<pmVars, mapVars, clientVars, agentVars>>

\* Called after StopProcess: the event is built from the request Lookup finds.
PublishWorkloadStopped(id) ==
    published' = IF deployRequests'[id] # None THEN published \cup {id} ELSE published

\* Variant: the client stays in activeAgents.
StopForgets_KeepsActive(id) ==
    /\ stopMutex' = stopMutex \ {id}
    /\ PublishWorkloadStopped(id)
    /\ UNCHANGED activeAgents

\* After StopProcess has succeeded: the manager's own maps and the event.
StopForgets(id) ==
    /\ activeAgents' = activeAgents \ {id}
    /\ stopMutex' = stopMutex \ {id}
    /\ PublishWorkloadStopped(id)

\* Variant: the mutex is not unlocked.
StopReturns_KeepsMutex(t) ==
    /\ subscribed' = IF call[t].found /\ call[t].undeploy
                     THEN subscribed \ {call[t].id} ELSE subscribed
    /\ call' = [call EXCEPT ![t] = IdleCall]
    /\ dep' = IF t = "deploy" THEN IdleDep ELSE dep
    /\ UNCHANGED <<pendingAgents, starting, await, handshakes, stopHolder,
                   mstop, usedReqs, panicked, agentVars>>

\* The deferred Drain, if there was an undeploy, and Unlock.
StopReturns(t) ==
    /\ subscribed' = IF call[t].found /\ call[t].undeploy
                     THEN subscribed \ {call[t].id} ELSE subscribed
    /\ stopHolder' = [stopHolder EXCEPT ![call[t].id] = None]
    /\ call' = [call EXCEPT ![t] = IdleCall]
    /\ dep' = IF t = "deploy" THEN IdleDep ELSE dep
    /\ UNCHANGED <<pendingAgents, starting, await, handshakes, mstop,
                   usedReqs, panicked, agentVars>>

\* procMan.StopProcess up to its mutex.
StopKills(t) ==
    /\ Up
    /\ call[t].pc = "kill"
    /\ \/ /\ StopProcessNoSuch(call[t].id)
          /\ StopReturns(t)
          /\ UNCHANGED <<activeAgents, stopMutex, published>>
       \/ /\ StopProcessFinds(call[t].id)
          /\ call' = [call EXCEPT ![t].pc = "signal"]
          /\ UNCHANGED <<mapVars, clientVars, stopHolder, dep, mstop, usedReqs,
                         panicked, agentVars>>

\* The shutdown goroutine's StopProcess is called by procMan.Stop instead.
InProcManStop(t) == t = "shutdown" /\ mstop.pc = "procs"

\* The rest of StopProcess and of StopWorkload.
StopSignals(t) ==
    /\ Up
    /\ call[t].pc = "signal" /\ ~InProcManStop(t)
    /\ \/ /\ StopProcessKillFails(call[t].id)
          /\ UNCHANGED <<activeAgents, stopMutex, published>>
       \/ /\ StopProcessOk(call[t].id)
          /\ StopForgets(call[t].id)
    /\ StopReturns(t)

(***************************************************************************)
(* The callers of StopWorkload other than DeployWorkload.                  *)
(***************************************************************************)

\* handleStop of the control API: the workload must be known.
HandleStop(id) ==
    /\ Up
    /\ "stop" \in Env
    /\ call["api"].pc = "idle"
    /\ Lookup(id) # None
    /\ call' = [call EXCEPT !["api"] = StopCall(id, TRUE)]
    /\ UNCHANGED <<pmVars, mapVars, clientVars, stopHolder, dep, mstop,
                   usedReqs, panicked, agentVars>>

\* Variant: the handler runs without a message.
AgentEvent_Unprompted(p) ==
    /\ Up
    /\ call[p].pc = "idle"
    /\ events' = [events EXCEPT ![p] = @ - 1]
    /\ call' = IF Lookup(p) = None THEN call
               ELSE [call EXCEPT ![p] = StopCall(p, FALSE)]
    /\ UNCHANGED <<pmVars, mapVars, clientVars, stopHolder, dep, mstop,
                   usedReqs, panicked, agent, inbox, running>>

\* agentEvent for workload_stopped: ignored for a process without a request.
\* (Its re-deployment of an essential workload is one more DEPLOY request.)
AgentEvent(p) ==
    /\ Up
    /\ call[p].pc = "idle"
    /\ events[p] > 0
    /\ events' = [events EXCEPT ![p] = @ - 1]
    /\ call' = IF Lookup(p) = None THEN call
               ELSE [call EXCEPT ![p] = StopCall(p, FALSE)]
    /\ UNCHANGED <<pmVars, mapVars, clientVars, stopHolder, dep, mstop,
                   usedReqs, panicked, agent, inbox, running>>

\* The manager's Stop: pending clients stop waiting for handshakes.
ManagerStops ==
    /\ Up
    /\ "shutdown" \in Env \/ cancelled
    /\ mstop.pc = "no"
    /\ mstop' = [pc |-> "active", todo |-> activeAgents, visited |-> {}]
    /\ await' = [p \in Procs |-> IF p \in pendingAgents /\ await[p] = "waiting"
                                 THEN "over" ELSE await[p]]
    /\ UNCHANGED <<pmVars, mapVars, starting, subscribed, handshakes,
                   stopHolder, dep, call, usedReqs, panicked, agentVars>>

\* The range over activeAgents: an entry that is removed before it is reached
\* is not visited, one that is added may be.
ManagerStopsNext(id) ==
    /\ Up
    /\ mstop.pc = "active"
    /\ call["shutdown"].pc = "idle"
    /\ id \in activeAgents \ mstop.visited
    /\ mstop' = [mstop EXCEPT !.visited = @ \cup {id}]
    /\ call' = [call EXCEPT !["shutdown"] = StopCall(id, TRUE)]
    /\ UNCHANGED <<pmVars, mapVars, clientVars, stopHolder, dep, usedReqs,
                   panicked, agentVars>>

\* The range is over; procMan.Stop() begins and ranges over liveProcs.
ManagerStopsProcesses ==
    /\ Up
    /\ mstop.pc = "active"
    /\ call["shutdown"].pc = "idle"
    /\ (mstop.todo \cap activeAgents) \subseteq mstop.visited
    /\ PMStopBegins
    /\ mstop' = [pc |-> "procs", todo |-> liveProcs, visited |-> {}]
    /\ UNCHANGED <<mapVars, clientVars, stopHolder, dep, call, usedReqs,
                   panicked, agentVars>>

\* StopProcess for each of them, in two parts; its failure is logged.
ManagerStopsProcess(id) ==
    /\ Up
    /\ mstop.pc = "procs"
    /\ call["shutdown"].pc = "idle"
    /\ id \in liveProcs \ mstop.visited
    /\ StopProcessFinds(id)
    /\ call' = [call EXCEPT !["shutdown"] = ProcStopCall(id)]
    /\ mstop' = [mstop EXCEPT !.visited = @ \cup {id}]
    /\ UNCHANGED <<mapVars, clientVars, stopHolder, dep, usedReqs, panicked,
                   agentVars>>

ManagerSignalsProcess ==
    /\ Up
    /\ call["shutdown"].pc = "signal" /\ InProcManStop("shutdown")
    /\ \/ StopProcessKillFails(call["shutdown"].id)
       \/ StopProcessOk(call["shutdown"].id)
    /\ call' = [call EXCEPT !["shutdown"] = IdleCall]
    /\ UNCHANGED <<mapVars, clientVars, stopHolder, dep, mstop, usedReqs,
                   panicked, agentVars>>

\* Variant: Stop waits until nothing is live.
ManagerStopped_NoneLive ==
    /\ Up
    /\ mstop.pc = "procs"
    /\ call["shutdown"].pc = "idle"
    /\ liveProcs = {}
    /\ mstop' = [mstop EXCEPT !.pc = "done"]
    /\ UNCHANGED <<pmVars, mapVars, clientVars, stopHolder, dep, call,
                   usedReqs, panicked, agentVars>>

ManagerStopped ==
    /\ Up
    /\ mstop.pc = "procs"
    /\ call["shutdown"].pc = "idle"
    /\ (mstop.todo \cap liveProcs) \subseteq mstop.visited
    /\ mstop' = [mstop EXCEPT !.pc = "done"]
    /\ UNCHANGED <<pmVars, mapVars, clientVars, stopHolder, dep, call,
                   usedReqs, panicked, agentVars>>

-----------------------------------------------------------------------------

SpawnLoop ==
    \/ Up /\ SpawnerReturns /\ UNCHANGED wmVars
    \/ \E p \in Procs : Up /\ Spawn(p) /\ UNCHANGED wmVars
    \/ RegisterProcess
    \/ Up /\ WarmSend /\ UNCHANGED wmVars

Clients ==
    \E p \in Procs :
        \/ OnProcessStarted(p)
        \/ HandleHandshake(p)
        \/ AwaitSucceeds(p)
        \/ AwaitExpires(p)
        \/ AgentHandshakeTimedOut(p)
        \/ AgentEvent(p)

Agents ==
    \E p \in Procs :
        \/ HandshakeRetry(p)
        \/ HandshakeFails(p)
        \/ AgentReady(p)
        \/ AgentExits(p)
        \/ \E r \in Reqs : WorkloadExits(p, r) \/ AgentHandlesDeploy(p, r)

DeployBegins ==
    \E r \in Reqs : SelectFails(r) \/ \E a \in Procs : SelectRandomAgent(r, a)

DeployProceeds ==
    \/ DeployPrepares
    \/ DeploySends
    \/ DeployTimesOut
    \/ DeployAccepted
    \/ DeploySubscribes
    \/ DeployRejected

StopWorkload(t) ==
    \/ StopEnters(t)
    \/ StopLocks(t)
    \/ StopKills(t)
    \/ StopSignals(t)

ManagerStop ==
    \/ ManagerStops
    \/ \E id \in Procs : ManagerStopsNext(id) \/ ManagerStopsProcess(id)
    \/ ManagerStopsProcesses
    \/ ManagerSignalsProcess
    \/ ManagerStopped

Next ==
    \/ SpawnLoop
    \/ Clients
    \/ Agents
    \/ DeployBegins
    \/ DeployProceeds
    \/ \E t \in Threads : StopWorkload(t)
    \/ \E id \in Procs : HandleStop(id)
    \/ ManagerStop

Spec == Init /\ [][Next]_vars

-----------------------------------------------------------------------------
(***************************************************************************)
(* What holds whatever the environment does (proved in                     *)
(* WorkloadManagerProofs).                                                 *)
(***************************************************************************)

\* No agent process escapes: whatever fails while it is stopped, a process
\* that still runs uninterrupted is in liveProcs, where Stop will find it, or
\* in the hands of the spawn loop.
NoOrphans ==
    \A p \in Procs :
        os[p] = "running" =>
            p \in liveProcs \/ (spawner.pc = "spawned" /\ spawner.proc = p)

\* A process that StopProcess has interrupted is never live again: the spawn
\* loop, which registers processes without a lock, cannot undo a stop.
StoppedStaysStopped ==
    [][\A p \in Procs : os[p] = "signalled" => p \notin liveProcs']_vars

\* Processes and requests are paired one to one: a process that was prepared
\* never gets another request, and a request never gets another process, even
\* when its deployment fails half way and the next one reuses the agent.
PreparedOnce ==
    [][\A p \in Procs, r \in Reqs :
         /\ procRequest[p] # None => procRequest'[p] = procRequest[p]
         /\ procRequest[p] = r => \A q \in Procs \ {p} : procRequest'[q] # r]_vars

\* The pool never holds more processes than configured, and the send on the
\* channel that the comment in the spawn loop allows to block never does.
PoolBounded ==
    /\ Len(warmProcs) <= PoolSize
    /\ spawner.pc \in {"spawned", "registered"} => Len(warmProcs) < PoolSize

\* A client is never both available for a deployment and active, although
\* four goroutines move clients between the two maps.
PendingOrActive == pendingAgents \cap activeAgents = {}

(***************************************************************************)
(* What holds while deployments reach agents that are up and answer in     *)
(* time, with the default pool of one.                                     *)
(***************************************************************************)

\* The request the node finds under an id (for STOP, events and logs) is the
\* one the agent with that id runs.
RequestAtItsAgent ==
    \A p, a \in Procs, r \in Reqs :
        deployRequests[p] = r /\ r \in running[a] => p = a

\* An active client has a process behind it that can be stopped.
ActiveIsLive == activeAgents \subseteq liveProcs

Quiet == dep.pc = "idle" /\ \A t \in Threads : call[t].pc = "idle"

\* RunningWorkloads lists "deployed, running workloads": with no operation
\* under way, a listed process runs a workload or has just reported its end.
ListedIsRunning ==
    Quiet => \A p \in ListProcesses : running[p] # {} \/ events[p] > 0

(***************************************************************************)
(* Liveness.  A goroutine of the node that can proceed does, and a mutex   *)
(* is not withheld for ever from a goroutine that waits for it (Go's       *)
(* sync.Mutex hands over to a waiter after 1ms).  Nothing is assumed of    *)
(* agents, of the network or of who sends requests.                        *)
(***************************************************************************)

Fairness ==
    /\ WF_vars(SpawnLoop)
    /\ WF_vars(DeployProceeds)
    /\ \A t \in Threads : SF_vars(StopWorkload(t))
    /\ WF_vars(mstop.pc # "no" /\ ManagerStop)

FairSpec == Spec /\ Fairness

\* Every deployment ends and gives poolMutex back, whatever the agent does.
DeployEnds == dep.pc # "idle" ~> (dep.pc = "idle" \/ panicked)

\* Every StopWorkload returns: two goroutines stopping the same process do
\* not keep each other waiting, also when one of them holds poolMutex.
StopEnds ==
    \A t \in Threads : call[t].pc # "idle" ~> (call[t].pc = "idle" \/ panicked)

\* The manager's Stop returns although other goroutines keep removing and
\* adding entries of the maps it ranges over.
ManagerStopEnds == mstop.pc # "no" ~> (mstop.pc = "done" \/ panicked)

(***************************************************************************)
(* What comments in the code say and the code does not do.                 *)
(***************************************************************************)

\* process_mgr.go: PrepareWorkload associates "a deploy request with the
\* given workload id".
PrepareAssociatesId ==
    [][dep.pc = "prepare" /\ dep'.pc = "send" =>
           deployRequests'[dep.agent] = dep.req]_vars

\* workload_mgr_events.go: publishWorkloadStopped "writes a workload stopped
\* event for the provided workload" when StopWorkload is through with it.
StoppedIsPublished ==
    [][\A p \in Procs : p \in stopMutex \ stopMutex' => p \in published']_vars

=============================================================================
