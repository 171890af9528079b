---------------------------- MODULE ControlPlane ----------------------------
(***************************************************************************)
(* The control plane of a node: the handlers of ApiListener, the commands  *)
(* of the nex CLI and the control API client that talk to them, lame duck  *)
(* mode, and the re-deployment of essential workloads by agentEvent.       *)
(*                                                                         *)
(* Every subject has a subscription of its own, so at most one DEPLOY, one *)
(* STOP and one LAMEDUCK message and one event per agent are handled at a  *)
(* time, all of them concurrently.  The process pool, the agents' clients  *)
(* and the locks of the workload manager are in WorkloadManager; here a    *)
(* fresh agent is there for a deployment or not.                           *)
(*                                                                         *)
(* A job is what the user gives to a command: name, namespace, issuer,     *)
(* type, whether there are trigger subjects, whether it is essential, if   *)
(* its claims are well formed, for which node the environment is sealed,   *)
(* whether the artifact exists.                                            *)
(***************************************************************************)
EXTENDS Integers, Sequences, FiniteSets

CONSTANTS
    Clients,        \* users with a shell
    Ids,            \* agent processes, an interval from 1, used in order
    None,           \* nil
    Jobs,
    WorkloadTypes,  \* node configuration: supported types,
    ValidIssuers,   \*   issuers, all if empty
    MaxClock,       \* a bound on the seconds that pass
    Worlds          \* the commands users give, the faults that may happen, the
                    \*   seconds that may pass

Faults == {"clientTimeout", "agentTimeout", "noHandshake", "killFails",
           "noAgent", "cacheFails", "crash", "exit"}

Job == [name : STRING, ns : STRING, issuer : STRING, type : STRING,
        triggers : BOOLEAN, essential : BOOLEAN, claims : BOOLEAN,
        sealed : {"node", "other"}, found : BOOLEAN]

\* nex devrun, run, stop, node lameduck, node workloads, node ls, node info.
Command == [op : {"devrun", "run", "stop", "lameduck", "list", "nodes", "info"}, job : Job]

World == [ops : [Clients -> Seq(Command)], faults : SUBSET Faults, seconds : 0..MaxClock]

\* A chain is a DEPLOY of a client and the re-deployments it leads to.
Chains == Clients \X Nat

DeployMsg == [from : Clients \cup Ids, n : Nat, job : Job, iat : Nat,
              retries : Nat, chain : Chains, essential : BOOLEAN]

ASSUME ControlPlaneAssumption ==
    /\ Jobs \subseteq Job
    /\ Ids \subseteq Nat \ {0}
    /\ MaxClock \in Nat
    /\ Worlds \subseteq World
    /\ Clients \cap Ids = {} /\ None \notin Clients \cup Ids \cup DeployMsg

VARIABLES
    world,      \* the world this is (never changes)
    clock,      \* seconds, the precision of iat claims
    client,     \* the command each user's shell runs
    answer,     \* the answer to the request of a client or an event handler
    deploys,    \* messages of the DEPLOY subscription
    stops,      \* messages of the STOP subscription
    lames,      \* messages of the LAMEDUCK subscription
    dh,         \* handleDeploy
    sh,         \* handleStop
    lh,         \* handleLameDuck: its message, or None
    lame,       \* Node.lameduck > 0
    req,        \* req[id]: the request filed under id, a pointer
    filed,      \* ids in deployRequests, as Lookup sees them
    live,       \* ids with a request in liveProcs, and with a stopMutex
    proc,       \* what runs in the process
    active,     \* ids in activeAgents
    ev,         \* agentEvent for the agent of id
    panicked,   \* the node's process has crashed
    toldStopped,    \* history: ids a client was told are stopped
    refused,        \* history: chains a client was told have failed
    late            \* history: ids that began to run in lame duck mode

clientVars == <<client, toldStopped, refused>>
queueVars == <<deploys, stops, lames>>
workVars == <<req, filed, live, proc, active, late>>
vars == <<world, clock, clientVars, answer, queueVars, dh, sh, lh, lame,
          workVars, ev, panicked>>

NoMsg == [pc |-> "idle", msg |-> None, id |-> None]

StopMsg == [from : Clients, n : Nat, id : Ids, name : STRING, issuer : STRING,
            ns : STRING, iat : Nat]

LameMsg == [from : Clients, n : Nat]

TypeOK ==
    /\ world \in Worlds
    /\ clock \in 0..MaxClock
    /\ client \in [Clients -> [pc : {"idle", "listing", "info", "stopping", "starting",
                                     "laming", "wlisting"},
                               done : Nat, n : Nat, todo : SUBSET Ids]]
    /\ deploys \in Seq(DeployMsg)
    /\ stops \in Seq(StopMsg)
    /\ lames \in Seq(LameMsg)
    /\ dh \in [pc : {"idle", "caching", "deploying", "sent"},
               msg : DeployMsg \cup {None}, id : Ids \cup {None}]
    /\ sh \in [pc : {"idle", "found", "undeploying"},
               msg : StopMsg \cup {None}, id : Ids \cup {None}]
    /\ lh \in LameMsg \cup {None}
    /\ lame \in BOOLEAN
    /\ req \in [Ids -> DeployMsg \cup {None}]
    /\ filed \subseteq live /\ live \subseteq Ids
    /\ proc \in [Ids -> {"none", "prepared", "running", "refused", "ended", "killed"}]
    /\ active \subseteq Ids
    /\ ev \in [Ids -> [pc : {"none", "pending", "stopping", "locking", "stopped",
                             "waiting", "done", "ignored"}, code : {0, 1}]]
    /\ panicked \in BOOLEAN

Init ==
    /\ world \in Worlds
    /\ clock = 0
    /\ client = [c \in Clients |-> [pc |-> "idle", done |-> 0, n |-> 0, todo |-> {}]]
    /\ answer = [r \in Clients \cup Ids |-> None]
    /\ deploys = <<>>
    /\ stops = <<>>
    /\ lames = <<>>
    /\ dh = NoMsg
    /\ sh = NoMsg
    /\ lh = None
    /\ lame = FALSE
    /\ req = [i \in Ids |-> None]
    /\ filed = {}
    /\ live = {}
    /\ proc = [i \in Ids |-> "none"]
    /\ active = {}
    /\ ev = [i \in Ids |-> [pc |-> "none", code |-> 0]]
    /\ panicked = FALSE
    /\ toldStopped = {}
    /\ refused = {}
    /\ late = {}

Tick ==
    /\ clock < world.seconds
    /\ clock' = clock + 1
    /\ UNCHANGED <<world, clientVars, answer, queueVars, dh, sh, lh, lame,
                   workVars, ev, panicked>>

(***************************************************************************)
(* Requests and answers.                                                   *)
(***************************************************************************)

\* r waits for the answer to its n-th request; an event handler makes one.
Waits(r, n) ==
    IF r \in Clients THEN client[r].pc # "idle" /\ client[r].n = n
                     ELSE ev[r].pc = "waiting"

\* Respond and respondFail: nc.Request takes the first answer.
Answer(r, n, ok, ids) ==
    answer' = [answer EXCEPT ![r] =
        IF Waits(r, n) /\ @ = None THEN [ok |-> ok, ids |-> ids] ELSE @]

\* NewDeployRequest, as the n-th request of c.
NewDeployRequest(c, n, j) ==
    [from |-> c, n |-> n, job |-> j, iat |-> clock, retries |-> 0,
     chain |-> <<c, client[c].done + 1>>, essential |-> j.essential]

\* NewStopRequest for the process i.
NewStopRequest(c, n, i, j) ==
    [from |-> c, n |-> n, id |-> i, name |-> j.name, issuer |-> j.issuer,
     ns |-> j.ns, iat |-> clock]

(***************************************************************************)
(* The commands of a user.                                                 *)
(***************************************************************************)
Cmd(c) == world.ops[c][client[c].done + 1]

\* c makes a request and waits at pc.
Asks(c, pc, todo) ==
    /\ client' = [client EXCEPT ![c].pc = pc, ![c].n = @ + 1, ![c].todo = todo]
    /\ answer' = [answer EXCEPT ![c] = None]

\* The command returns, with or without an error.
Returns(c) ==
    /\ client' = [client EXCEPT ![c].pc = "idle", ![c].done = @ + 1, ![c].todo = {}]
    /\ answer' = [answer EXCEPT ![c] = None]

\* StartWorkload, StopWorkload, NodeInfo, EnterLameDuck and the two listings
\* of the control API client.
AsksDeploy(c) ==
    /\ Asks(c, "starting", {})
    /\ deploys' = Append(deploys, NewDeployRequest(c, client[c].n + 1, Cmd(c).job))
    /\ UNCHANGED <<stops, lames>>

AsksStop(c, i, todo) ==
    /\ Asks(c, "stopping", todo)
    /\ stops' = Append(stops, NewStopRequest(c, client[c].n + 1, i, Cmd(c).job))
    /\ UNCHANGED <<deploys, lames>>

AsksInfo(c) == Asks(c, "info", {}) /\ UNCHANGED queueVars

AsksLameDuck(c) ==
    /\ Asks(c, "laming", {})
    /\ lames' = Append(lames, [from |-> c, n |-> client[c].n + 1])
    /\ UNCHANGED <<deploys, stops>>

PingsNodes(c) == Asks(c, "listing", {}) /\ UNCHANGED queueVars

PingsWorkloads(c) == Asks(c, "wlisting", {}) /\ UNCHANGED queueVars

clientFrame == UNCHANGED <<world, clock, dh, sh, lh, lame, workVars, ev, panicked>>

\* What each command does first; a user may name any workload that ever ran.
RunDevWorkload(c) == Cmd(c).op = "devrun" /\ PingsNodes(c)
RunWorkload(c) == Cmd(c).op = "run" /\ AsksInfo(c)
StopCommand(c) == Cmd(c).op = "stop" /\ \E i \in Ids : req[i] # None /\ AsksStop(c, i, {})
LameDuck(c) == Cmd(c).op = "lameduck" /\ AsksLameDuck(c)
ListWorkloads(c) == Cmd(c).op = "list" /\ PingsWorkloads(c)
ListNodes(c) == Cmd(c).op = "nodes" /\ PingsNodes(c)
NodeInfo(c) == Cmd(c).op = "info" /\ AsksInfo(c)

Begins(c) ==
    /\ client[c].pc = "idle" /\ client[c].done < Len(world.ops[c])
    /\ \/ RunDevWorkload(c) \/ RunWorkload(c) \/ StopCommand(c) \/ LameDuck(c)
       \/ ListWorkloads(c) \/ ListNodes(c) \/ NodeInfo(c)
    /\ UNCHANGED <<toldStopped, refused>>
    /\ clientFrame

\* ListAllNodes and ListWorkloads wait for the whole timeout; devrun takes
\* the first node that has answered.
ListEnds(c) ==
    /\ client[c].pc \in {"listing", "wlisting"}
    /\ IF Cmd(c).op = "devrun" /\ answer[c] # None
       THEN AsksInfo(c)
       ELSE Returns(c) /\ UNCHANGED queueVars
    /\ UNCHANGED <<toldStopped, refused>>
    /\ clientFrame

\* Variant: devrun does not look at the workloads of the target.
GotInfo_NoAutoStop(c) ==
    /\ client[c].pc = "info" /\ answer[c] # None
    /\ AsksDeploy(c)
    /\ UNCHANGED <<toldStopped, refused>>
    /\ clientFrame

\* uploadWorkload: devrun puts the file, if there is one, where the node will
\* find it.
Uploads(c) == Cmd(c).op = "devrun" => Cmd(c).job.found

\* devrun (with auto-stop) stops the workloads of that name one by one, then
\* deploys; run deploys.  Both refuse a v8 job without triggers.
GotInfo(c) ==
    LET j    == Cmd(c).job
        ends == Cmd(c).op = "info" \/ ~Uploads(c) \/ (j.type = "v8" /\ ~j.triggers)
        same == IF Cmd(c).op = "devrun"
                THEN {i \in answer[c].ids : req[i].job.name = j.name} ELSE {}
    IN  /\ client[c].pc = "info" /\ answer[c] # None
        /\ \/ ends /\ Returns(c) /\ UNCHANGED queueVars
           \/ /\ ~ends
              /\ \/ same = {} /\ AsksDeploy(c)
                 \/ \E i \in same : AsksStop(c, i, same \ {i})
        /\ UNCHANGED <<toldStopped, refused>>
        /\ clientFrame

\* The answer to a STOP: the next one, the deployment, or the end.
GotStop(c) ==
    LET i == CHOOSE k \in answer[c].ids : TRUE
        todo == client[c].todo
    IN  /\ client[c].pc = "stopping" /\ answer[c] # None
        /\ toldStopped' = IF answer[c].ok THEN toldStopped \cup {i} ELSE toldStopped
        /\ IF answer[c].ok /\ Cmd(c).op = "devrun"
           THEN \/ todo = {} /\ AsksDeploy(c)
                \/ \E k \in todo : AsksStop(c, k, todo \ {k})
           ELSE Returns(c) /\ UNCHANGED queueVars
        /\ UNCHANGED refused
        /\ clientFrame

GotAnswer(c) ==
    /\ client[c].pc \in {"starting", "laming"} /\ answer[c] # None
    /\ refused' = IF client[c].pc = "starting" /\ ~answer[c].ok
                  THEN refused \cup {<<c, client[c].done + 1>>} ELSE refused
    /\ Returns(c)
    /\ UNCHANGED <<queueVars, toldStopped>>
    /\ clientFrame

\* performRequest gives up; the message stays in the node's subscription.
TimesOut(c) ==
    /\ client[c].pc \in {"info", "stopping", "starting", "laming"}
    /\ "clientTimeout" \in world.faults \/ panicked
    /\ Returns(c)
    /\ UNCHANGED <<queueVars, toldStopped, refused>>
    /\ clientFrame

(***************************************************************************)
(* The node: questions.                                                    *)
(***************************************************************************)

RunningWorkloads == live

\* summarizeMachines, for INFO.
Machines(ns) == {i \in RunningWorkloads : req[i].job.ns = ns}

\* matchesSearch, for WPING: an empty name matches all.
MatchesSearch(i, ns, name) == req[i].job.ns = ns /\ name \in {"", req[i].job.name}

questionFrame == UNCHANGED <<world, clock, clientVars, queueVars, dh, sh, lh,
                             lame, workVars, ev, panicked>>

HandlePing(c) ==
    /\ ~panicked
    /\ client[c].pc = "listing" /\ answer[c] = None
    /\ Answer(c, client[c].n, TRUE, {})
    /\ questionFrame

HandleInfo(c) ==
    /\ ~panicked
    /\ client[c].pc = "info" /\ answer[c] = None
    /\ Answer(c, client[c].n, TRUE, Machines(Cmd(c).job.ns))
    /\ questionFrame

\* Silence unless a workload matches.
HandleWorkloadPing(c) ==
    LET j   == Cmd(c).job
        ids == {i \in RunningWorkloads : MatchesSearch(i, j.ns, j.name)}
    IN  /\ ~panicked
        /\ client[c].pc = "wlisting" /\ answer[c] = None
        /\ ids # {}
        /\ Answer(c, client[c].n, TRUE, ids)
        /\ questionFrame

(***************************************************************************)
(* The node: handleDeploy.                                                 *)
(***************************************************************************)
Functional == {"v8", "wasm"}

\* DecryptRequestEnvironment: the environment was sealed for this node's key.
Decrypts(j) == j.sealed = "node"

\* DeployRequest.Validate: the claims of the token.
Validates(j) == j.claims

\* The checks of handleDeploy on a request.
Refusable(j) ==
    \/ j.type \notin WorkloadTypes
    \/ j.triggers /\ j.type \notin Functional
    \/ ~Decrypts(j)
    \/ ~Validates(j)

ValidIssuer(issuer) == ValidIssuers = {} \/ issuer \in ValidIssuers

\* Answers and is done.
DeployFails(m) ==
    /\ Answer(m.from, m.n, FALSE, {})
    /\ dh' = NoMsg

\* Variant: lame duck mode is not looked at.
HandleDeploy_NoLameDuckCheck ==
    LET m == Head(deploys)
    IN  /\ ~panicked
        /\ dh.pc = "idle" /\ deploys # <<>>
        /\ deploys' = Tail(deploys)
        /\ IF Refusable(m.job) THEN DeployFails(m)
           ELSE dh' = [pc |-> "caching", msg |-> m, id |-> None] /\ UNCHANGED answer
        /\ UNCHANGED <<world, clock, clientVars, stops, lames, sh, lh, lame, workVars,
                       ev, panicked>>

\* The beginning of handleDeploy.  A request of an issuer that is not valid
\* is answered with an error, and the handler goes on.
HandleDeploy ==
    LET m == Head(deploys)
    IN  /\ ~panicked
        /\ dh.pc = "idle" /\ deploys # <<>>
        /\ deploys' = Tail(deploys)
        /\ IF lame \/ Refusable(m.job)
           THEN DeployFails(m)
           ELSE /\ dh' = [pc |-> "caching", msg |-> m, id |-> None]
                /\ IF ValidIssuer(m.job.issuer) THEN UNCHANGED answer
                   ELSE Answer(m.from, m.n, FALSE, {})
        /\ UNCHANGED <<world, clock, clientVars, stops, lames, sh, lh, lame, workVars,
                       ev, panicked>>

\* CacheWorkload: no artifact is an error; a failure of the node's own
\* object store is a panic.
CacheWorkload ==
    /\ ~panicked
    /\ dh.pc = "caching"
    /\ \/ /\ ~dh.msg.job.found
          /\ DeployFails(dh.msg) /\ UNCHANGED panicked
       \/ /\ dh.msg.job.found
          /\ dh' = [dh EXCEPT !.pc = "deploying"] /\ UNCHANGED <<answer, panicked>>
       \/ /\ dh.msg.job.found /\ "cacheFails" \in world.faults
          /\ panicked' = TRUE /\ UNCHANGED <<dh, answer>>
    /\ UNCHANGED <<world, clock, clientVars, queueVars, sh, lh, lame, workVars, ev>>

NextId(i) == req[i] = None /\ \A k \in Ids : k < i => req[k] # None

\* DeployWorkload finds an agent for the request and files it.
DeployWorkload ==
    /\ ~panicked
    /\ dh.pc = "deploying"
    /\ \E i \in Ids :
          /\ NextId(i)
          /\ req' = [req EXCEPT ![i] = dh.msg]
          /\ filed' = filed \cup {i} /\ live' = live \cup {i}
          /\ proc' = [proc EXCEPT ![i] = "prepared"]
          /\ late' = IF lame THEN late \cup {i} ELSE late
          /\ dh' = [dh EXCEPT !.pc = "sent", !.id = i]
    /\ UNCHANGED <<world, clock, clientVars, answer, queueVars, sh, lh, lame, active,
                   ev, panicked>>

\* There is no pending agent, or no warm process in time.
NoAgent ==
    /\ ~panicked
    /\ dh.pc = "deploying"
    /\ "noAgent" \in world.faults \/ \A i \in Ids : ~NextId(i)
    /\ DeployFails(dh.msg)
    /\ UNCHANGED <<world, clock, clientVars, queueVars, sh, lh, lame, workVars, ev, panicked>>

\* agentapi.DeployRequest.Validate on what the node sends.
AgentValidates(m) ==
    /\ m.essential => m.job.type \in {"elf", "oci"}
    /\ m.job.type \in Functional => m.job.triggers

\* The agent of i handles the request (NexAgent).
AgentDeploys(i) ==
    /\ proc[i] = "prepared"
    /\ proc' = [proc EXCEPT ![i] = IF AgentValidates(req[i]) THEN "running" ELSE "refused"]
    /\ UNCHANGED <<world, clock, clientVars, answer, queueVars, dh, sh, lh, lame, req,
                   filed, live, active, late, ev, panicked>>

\* The agent has accepted: the client becomes active and handleDeploy looks
\* if its agent had made a handshake.
DeployAccepted ==
    LET m == dh.msg
    IN  /\ ~panicked
        /\ dh.pc = "sent" /\ proc[dh.id] \in {"running", "ended"}
        /\ active' = active \cup {dh.id}
        /\ \/ Answer(m.from, m.n, TRUE, {dh.id})
           \/ "noHandshake" \in world.faults /\ Answer(m.from, m.n, FALSE, {})
        /\ dh' = NoMsg
        /\ UNCHANGED <<world, clock, clientVars, queueVars, sh, lh, lame, req, filed,
                       live, proc, late, ev, panicked>>

\* Variant: the request stays in deployRequests.
StopProcess_KeepsRequest(i) ==
    /\ i \in live
    /\ live' = live \ {i}
    /\ active' = active \ {i}
    /\ proc' = [proc EXCEPT ![i] = IF @ = "ended" THEN @ ELSE "killed"]
    /\ UNCHANGED <<req, filed, late>>

\* StopProcess(i) and, when it succeeds, the end of StopWorkload: the agent is
\* interrupted and with it its workload.
StopProcess(i) ==
    /\ i \in live
    /\ filed' = filed \ {i}
    /\ live' = live \ {i}
    /\ active' = active \ {i}
    /\ proc' = [proc EXCEPT ![i] = IF @ = "ended" THEN @ ELSE "killed"]
    /\ UNCHANGED <<req, late>>

\* The agent could not be interrupted; the request is gone all the same.
KillFails(i) ==
    /\ i \in live /\ "killFails" \in world.faults
    /\ filed' = filed \ {i}
    /\ UNCHANGED <<req, live, active, proc, late>>

\* Variant: the process of a refused deployment is kept.
DeployRejected_KeepsProcess ==
    /\ ~panicked
    /\ dh.pc = "sent" /\ proc[dh.id] = "refused"
    /\ DeployFails(dh.msg)
    /\ UNCHANGED <<world, clock, clientVars, queueVars, sh, lh, lame, workVars, ev, panicked>>

\* The agent has refused: StopWorkload without undeploy.
DeployRejected ==
    /\ ~panicked
    /\ dh.pc = "sent" /\ proc[dh.id] = "refused"
    /\ StopProcess(dh.id) \/ KillFails(dh.id)
    /\ DeployFails(dh.msg)
    /\ UNCHANGED <<world, clock, clientVars, queueVars, sh, lh, lame, ev, panicked>>

\* Variant: a deployment the agent has not answered is queued again.
DeployTimesOut_Requeues ==
    /\ ~panicked
    /\ dh.pc = "sent" /\ "agentTimeout" \in world.faults
    /\ dh' = NoMsg
    /\ deploys' = Append(deploys, dh.msg)
    /\ UNCHANGED <<world, clock, clientVars, answer, stops, lames, sh, lh, lame, workVars,
                   ev, panicked>>

\* The agent has not answered within a second: it may still accept, and the
\* process stays filed under the request.
DeployTimesOut ==
    /\ ~panicked
    /\ dh.pc = "sent" /\ "agentTimeout" \in world.faults
    /\ DeployFails(dh.msg)
    /\ UNCHANGED <<world, clock, clientVars, queueVars, sh, lh, lame, workVars, ev, panicked>>

(***************************************************************************)
(* The node: handleStop.                                                   *)
(***************************************************************************)

\* StopRequest.Validate against the claims of the deployment (the ids of the
\* claims differ, since only those of a deployment have a hash).
StopValid(m, d) ==
    /\ m.iat # d.iat
    /\ m.name = d.job.name
    /\ m.issuer = d.job.issuer

\* handleStop up to its call of StopWorkload.
HandleStop ==
    LET m == Head(stops)
    IN  /\ ~panicked
        /\ sh.pc = "idle" /\ stops # <<>>
        /\ stops' = Tail(stops)
        /\ IF m.id \in filed /\ StopValid(m, req[m.id]) /\ req[m.id].job.ns = m.ns
           THEN sh' = [pc |-> "found", msg |-> m, id |-> m.id] /\ UNCHANGED answer
           ELSE Answer(m.from, m.n, FALSE, {m.id}) /\ UNCHANGED sh
        /\ UNCHANGED <<world, clock, clientVars, deploys, lames, dh, lh, lame, workVars,
                       ev, panicked>>

\* StopWorkload takes the mutex of the process and undeploys if Lookup has
\* found the request.  The mutex is nil when the process is gone by now, the
\* client is nil when DeployWorkload has not had the agent's answer.
StopUndeploys ==
    /\ ~panicked
    /\ sh.pc = "found"
    /\ IF sh.id \in live /\ (sh.id \in filed => sh.id \in active)
       THEN sh' = [sh EXCEPT !.pc = "undeploying"] /\ UNCHANGED panicked
       ELSE panicked' = TRUE /\ UNCHANGED sh
    /\ UNCHANGED <<world, clock, clientVars, answer, queueVars, dh, lh, lame, workVars, ev>>

\* Variant: the handler answers before the process is stopped.
StopWorkload_AnswersOnly ==
    /\ ~panicked
    /\ sh.pc = "undeploying"
    /\ Answer(sh.msg.from, sh.msg.n, TRUE, {sh.id})
    /\ sh' = NoMsg
    /\ UNCHANGED <<world, clock, clientVars, queueVars, dh, lh, lame, workVars, ev, panicked>>

\* The agent has answered, or has not in time: the process is stopped.  When
\* that fails the handler answers twice, and the failure comes first.
StopWorkload ==
    /\ ~panicked
    /\ sh.pc = "undeploying"
    /\ \/ StopProcess(sh.id) /\ Answer(sh.msg.from, sh.msg.n, TRUE, {sh.id})
       \/ KillFails(sh.id) /\ Answer(sh.msg.from, sh.msg.n, FALSE, {sh.id})
    /\ sh' = NoMsg
    /\ UNCHANGED <<world, clock, clientVars, queueVars, dh, lh, lame, ev, panicked>>

(***************************************************************************)
(* The node: handleLameDuck.                                               *)
(***************************************************************************)

\* EnterLameDuck sets the flag; only the first call does more.
EnterLameDuck ==
    LET m == Head(lames)
    IN  /\ ~panicked
        /\ lh = None /\ lames # <<>>
        /\ lames' = Tail(lames)
        /\ lame' = TRUE
        /\ IF lame THEN Answer(m.from, m.n, TRUE, {}) /\ UNCHANGED lh
                   ELSE lh' = m /\ UNCHANGED answer
        /\ UNCHANGED <<world, clock, clientVars, deploys, stops, dh, sh, workVars, ev,
                       panicked>>

\* The process manager makes every workload it has a request of inessential.
ClearEssential ==
    /\ ~panicked
    /\ lh # None
    /\ req' = [i \in Ids |-> IF i \in filed THEN [req[i] EXCEPT !.essential = FALSE]
                             ELSE req[i]]
    /\ Answer(lh.from, lh.n, TRUE, {})
    /\ lh' = None
    /\ UNCHANGED <<world, clock, clientVars, queueVars, dh, sh, lame, filed, live, proc,
                   active, late, ev, panicked>>

(***************************************************************************)
(* Workloads that end, and agentEvent.                                     *)
(***************************************************************************)
Undeploying(i) == sh.pc = "undeploying" /\ sh.id = i

\* The child process of an ELF workload exits, by itself or because the agent
\* was told to undeploy it, and the agent publishes workload_stopped.
WorkloadExits(i, code) ==
    /\ proc[i] = "running" /\ req[i].job.type = "elf"
    /\ Undeploying(i) \/ (IF code = 0 THEN "exit" ELSE "crash") \in world.faults
    /\ proc' = [proc EXCEPT ![i] = "ended"]
    /\ ev' = [ev EXCEPT ![i] = [pc |-> "pending", code |-> code]]
    /\ UNCHANGED <<world, clock, clientVars, answer, queueVars, dh, sh, lh, lame, req,
                   filed, live, active, late, panicked>>

EventGoes(i, pc) ==
    /\ ev' = [ev EXCEPT ![i].pc = pc]
    /\ UNCHANGED <<world, clock, clientVars, dh, sh, lh, lame, stops, lames>>

\* agentEvent ignores events of processes without a request.
AgentEvent(i) ==
    /\ ~panicked
    /\ ev[i].pc = "pending"
    /\ EventGoes(i, IF i \in filed THEN "stopping" ELSE "ignored")
    /\ UNCHANGED <<answer, deploys, workVars, panicked>>

\* StopWorkload looks for the mutex, which is nil if the process is gone.
EventLocks(i) ==
    /\ ~panicked
    /\ ev[i].pc = "stopping"
    /\ EventGoes(i, "locking")
    /\ panicked' = (i \notin live)
    /\ UNCHANGED <<answer, deploys, workVars>>

\* It waits for the mutex and stops the process, if it is still there.
EventStops(i) ==
    /\ ~panicked
    /\ ev[i].pc = "locking"
    /\ ~Undeploying(i)
    /\ \/ StopProcess(i)
       \/ KillFails(i)
       \/ i \notin live /\ UNCHANGED workVars
    /\ EventGoes(i, "stopped")
    /\ UNCHANGED <<answer, deploys, panicked>>

\* Variant: the test of the exit code is the wrong way round.
Redeploys_ExitZero(i) == req[i].essential /\ ev[i].code = 0

Redeploys(i) == req[i].essential /\ ev[i].code # 0

\* An essential workload that failed is deployed again, with the same claims.
EventDecides(i) ==
    LET m == [req[i] EXCEPT !.from = i, !.n = 1, !.retries = @ + 1]
    IN  /\ ~panicked
        /\ ev[i].pc = "stopped"
        /\ \/ /\ Redeploys(i)
              /\ deploys' = Append(deploys, m)
              /\ req' = [req EXCEPT ![i].retries = @ + 1]
              /\ EventGoes(i, "waiting")
           \/ /\ ~Redeploys(i)
              /\ EventGoes(i, "done")
              /\ UNCHANGED <<deploys, req>>
        /\ UNCHANGED <<answer, filed, live, proc, active, late, panicked>>

\* The answer is not looked at; after 2.5 seconds it is not waited for.
EventAnswered(i) ==
    /\ ~panicked
    /\ ev[i].pc = "waiting"
    /\ answer[i] # None \/ "clientTimeout" \in world.faults
    /\ EventGoes(i, "done")
    /\ UNCHANGED <<answer, deploys, workVars, panicked>>

(***************************************************************************)
(* The system.                                                             *)
(***************************************************************************)
UserStep(c) ==
    Begins(c) \/ ListEnds(c) \/ GotInfo(c) \/ GotStop(c) \/ GotAnswer(c) \/ TimesOut(c)

Question(c) == HandlePing(c) \/ HandleInfo(c) \/ HandleWorkloadPing(c)

DeployStep ==
    \/ HandleDeploy \/ CacheWorkload \/ DeployWorkload \/ NoAgent
    \/ DeployAccepted \/ DeployRejected \/ DeployTimesOut

StopStep == HandleStop \/ StopUndeploys \/ StopWorkload

LameDuckStep == EnterLameDuck \/ ClearEssential

EventStep(i) ==
    AgentEvent(i) \/ EventLocks(i) \/ EventStops(i) \/ EventDecides(i) \/ EventAnswered(i)

Next ==
    \/ Tick
    \/ \E c \in Clients : UserStep(c) \/ Question(c)
    \/ DeployStep \/ StopStep \/ LameDuckStep
    \/ \E i \in Ids : AgentDeploys(i) \/ EventStep(i) \/ \E code \in {0, 1} : WorkloadExits(i, code)

Spec == Init /\ [][Next]_vars

\* Each handler is a goroutine of its own and the Go scheduler is fair to
\* runnable goroutines; so are the agents.  Users, exits and faults may wait
\* for ever.
Fairness ==
    /\ WF_vars(DeployStep)
    /\ WF_vars(StopStep)
    /\ WF_vars(LameDuckStep)
    /\ \A i \in Ids : WF_vars(AgentDeploys(i)) /\ WF_vars(EventStep(i))

FairSpec == Spec /\ Fairness

(***************************************************************************)
(* Properties.                                                             *)
(***************************************************************************)
ChainOf(i) == req[i].chain

Used == {i \in Ids : req[i] # None}

\* Once the node is a lame duck, at most the one deployment that handleDeploy
\* had already let through is still started: messages that wait in the
\* subscription, later ones and the re-deployments of agentEvent are refused.
LameDuckAdmitsNoMore == Cardinality(late) <= 1

\* A DEPLOY request and its re-deployments never run twice at the same time:
\* agentEvent asks for the next instance only when the last one has ended,
\* and a deployment that got no answer from its agent is not tried again.
OneAtATime ==
    \A i, k \in Used :
        i # k /\ ChainOf(i) = ChainOf(k)
            => ~(proc[i] \in {"prepared", "running"} /\ proc[k] \in {"prepared", "running"})

\* A workload that a user was told is stopped (StopResponse with Stopped set
\* and no error before it) does not run and is not listed, and unless it was
\* essential no later instance of it is started.
StopIsFinal ==
    \A i \in toldStopped :
        /\ i \notin live /\ proc[i] # "running"
        /\ ~req[i].job.essential => ~\E k \in Used : k > i /\ ChainOf(k) = ChainOf(i)

\* A DEPLOY request that a user was told has failed leaves no process behind
\* in the listings: not if handleDeploy refuses it, nor if no agent or
\* artifact is there, nor if the agent rejects it.  The code keeps this for
\* valid issuers (the others are told no and deployed), and unless the agent
\* was slow, had made no handshake, or could not be stopped.
RefusedLeavesNothing ==
    world.faults \cap {"agentTimeout", "noHandshake", "killFails"} = {} =>
        \A i \in live : ValidIssuer(req[i].job.issuer) => ChainOf(i) \notin refused

\* An inessential job of a valid issuer.
Plain(j) == ~j.essential /\ ValidIssuer(j.issuer)

\* Only d deploys, and only with devrun.
SoleDeployer(d) ==
    \A c \in Clients : \A n \in DOMAIN world.ops[c] :
        world.ops[c][n].op # "run" /\ (world.ops[c][n].op = "devrun" => c = d)

\* If one user alone deploys, with devrun, and waits for every answer, then
\* there is at most one instance of a plain workload, because the old one is
\* stopped before the new one is requested.  (Not so for other jobs: an
\* essential one may come back after devrun has asked for the list, and one
\* of an issuer that is not valid may start after devrun was told no.)
AutoStopReplaces ==
    "clientTimeout" \notin world.faults /\ (\E d \in Clients : SoleDeployer(d)) =>
        \A i, k \in live :
            /\ Plain(req[i].job) /\ Plain(req[k].job)
            /\ req[i].job.name = req[k].job.name /\ req[i].job.ns = req[k].job.ns
            => i = k

\* An essential workload that ends with a non-zero code is started again,
\* whatever other requests the node handles, unless it was stopped first, the
\* node is a lame duck or has crashed, or there is no agent for it.
EssentialComesBack ==
    \A i \in Ids :
        /\ ev[i].pc = "pending" /\ ev[i].code # 0
        /\ i \in filed /\ req[i].essential
        ~> \/ \E k \in Used : k > i /\ ChainOf(k) = ChainOf(i)
           \/ lame \/ panicked \/ ev[i].pc = "ignored"
           \/ "noAgent" \in world.faults \/ Used = Ids
=============================================================================
