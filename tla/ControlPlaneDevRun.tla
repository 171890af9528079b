------------------------- MODULE ControlPlaneDevRun --------------------------
(***************************************************************************)
(* AutoStopReplaces of ControlPlane, for any number of users, agents, jobs *)
(* and worlds.                                                             *)
(*                                                                         *)
(* The proof follows the one user who deploys from INFO to DEPLOY: the     *)
(* answer to INFO has all that must be stopped, what is not stopped yet is *)
(* in the list of the shell or in the STOP it waits for, and the message of*)
(* the new instance is the only one there is for a plain job.              *)
(***************************************************************************)
EXTENDS ControlPlaneAnswers

\* Most leaves are first-order; the rest is arithmetic or records.
USE ZenonT(3), SMT

\* Two jobs of which devrun would stop one before it deploys the other.
Alike(j, k) == j.name = k.name /\ j.ns = k.ns /\ Plain(j) /\ Plain(k)

\* No two processes are alike, nor a process and a message that waits.
AloneLive == \A i, k \in live : Alike(req[i].job, req[k].job) => i = k
NoneAlike == \A m \in Waiting : \A k \in live : ~Alike(m.job, req[k].job)

\* A message for a plain job is the one for which d waits.
DeploysOwn(d) ==
    \A m \in Deploying : Plain(m.job) =>
        /\ m.from = d /\ m.n = client[d].n
        /\ client[d].pc = "starting" /\ answer[d] = None

\* The answer to INFO has all that devrun may have to stop.
InfoComplete(d) ==
    client[d].pc = "info" /\ answer[d] # None =>
        \A k \in live : Plain(req[k].job) /\ req[k].job.ns = Cmd(d).job.ns
                          => k \in answer[d].ids

\* What devrun has yet to stop is in its list or in its request, unless the
\* request has failed.
StopsRest(d) ==
    client[d].pc = "stopping" /\ Cmd(d).op = "devrun" =>
        \A k \in live : Alike(Cmd(d).job, req[k].job) =>
            \/ k \in client[d].todo
            \/ answer[d] = None
                 /\ \A m \in Stopping : m.from = d /\ m.n = client[d].n => m.id = k
            \/ answer[d] # None /\ answer[d].ok = FALSE

\* Only these commands ask for INFO.
InfoAsked ==
    \A c \in Clients : client[c].pc = "info" => Cmd(c).op \in {"devrun", "run", "info"}

AutoInv(d) ==
    /\ AloneLive
    /\ ~panicked => DeploysOwn(d) /\ NoneAlike /\ InfoComplete(d) /\ StopsRest(d)

AutoStops ==
    /\ InfoAsked
    /\ "clientTimeout" \notin world.faults =>
          \A d \in Clients : SoleDeployer(d) => AutoInv(d)

LEMMA LiveUsed == TypeInv => live \subseteq Used
BY DEF TypeInv, WorkTypes, Requested, Used

\* Only DeployWorkload adds to the listings.
LEMMA LiveStays ==
    ASSUME TypeInv, TypeInv', PostInv, [Next]_vars, ~DeployWorkload
    PROVE  live' \subseteq live /\ \A k \in live : req'[k].job = req[k].job
<1>1. \A k \in live : req'[k].job = req[k].job BY LiveUsed, RequestsStay DEF SameRequests
<1>2. live' \subseteq live
  <2>1. ASSUME NEW c \in Clients, UserStep(c) \/ Question(c) PROVE live' = live
    BY <2>1, UserEffect, QuestionTyped DEF clientFrame, questionFrame, workVars
  <2>2. DeployStep => live' \subseteq live
    BY DEF DeployStep, HandleDeploy, CacheWorkload, NoAgent, DeployAccepted, DeployRejected,
           DeployTimesOut, StopProcess, KillFails, workVars
  <2>3. StopStep => live' \subseteq live
    BY DEF StopStep, HandleStop, StopUndeploys, StopWorkload, StopProcess, KillFails, workVars
  <2>4. ASSUME NEW i \in Ids, EventStep(i) PROVE live' \subseteq live
    BY <2>4 DEF EventStep, AgentEvent, EventLocks, EventStops, EventDecides, EventAnswered,
                StopProcess, KillFails, workVars
  <2>5. Tick \/ UNCHANGED vars => live' = live BY DEF Tick, vars, workVars
  <2> QED BY <2>1, <2>2, <2>3, <2>4, <2>5, LameMoves, WorkloadMoves DEF Next
<1> QED BY <1>1, <1>2

\* The process that has panicked handles nothing more.
LEMMA PanicStays == TypeInv /\ [Next]_vars /\ panicked => panicked' /\ ~DeployWorkload
<1> SUFFICES ASSUME TypeInv, [Next]_vars, panicked PROVE panicked' /\ ~DeployWorkload
  OBVIOUS
<1>1. ASSUME NEW c \in Clients, UserStep(c) PROVE panicked'
  BY <1>1, UserEffect DEF clientFrame
<1>2. ASSUME NEW c \in Clients, Question(c) PROVE panicked'
  BY <1>2, QuestionTyped DEF questionFrame
<1>3. ~DeployStep /\ ~DeployWorkload
  BY DEF DeployStep, HandleDeploy, CacheWorkload, DeployWorkload, NoAgent, DeployAccepted,
         DeployRejected, DeployTimesOut
<1>4. ~StopStep /\ ~LameDuckStep
  BY DEF StopStep, HandleStop, StopUndeploys, StopWorkload, LameDuckStep, EnterLameDuck,
         ClearEssential
<1>5. ASSUME NEW i \in Ids, EventStep(i) PROVE FALSE
  BY <1>5 DEF EventStep, AgentEvent, EventLocks, EventStops, EventDecides, EventAnswered
<1>6. Tick \/ UNCHANGED vars => panicked' BY DEF Tick, vars
<1> QED BY <1>1, <1>2, <1>3, <1>4, <1>5, <1>6, WorkloadMoves DEF Next

LEMMA AloneStays ==
    ASSUME live' \subseteq live, \A k \in live : req'[k].job = req[k].job, AloneLive
    PROVE  AloneLive'
BY DEF AloneLive

\* Steps that neither move the shell of d nor make a message for a plain job.
LEMMA AutoFrame ==
    ASSUME NEW d \in Clients, AutoInv(d), UNCHANGED world, client'[d] = client[d],
           live' \subseteq live, \A k \in live : req'[k].job = req[k].job,
           panicked => panicked', answer'[d] = answer[d],
           \A m \in Deploying' : m \in Deploying \/ ~Plain(m.job),
           \A m \in Waiting' : m \in Waiting \/ ~Plain(m.job),
           \A m \in Stopping' : m \in Stopping \/ m.from # d
    PROVE  AutoInv(d)'
<1>1. AloneLive' BY AloneStays DEF AutoInv
<1>2. ASSUME ~panicked' PROVE DeploysOwn(d)' BY <1>2 DEF AutoInv, DeploysOwn
<1>3. ASSUME ~panicked' PROVE NoneAlike' BY <1>3 DEF AutoInv, NoneAlike, Alike
<1>4. Cmd(d)' = Cmd(d) BY DEF Cmd
<1>5. ASSUME ~panicked' PROVE InfoComplete(d)' BY <1>4, <1>5 DEF AutoInv, InfoComplete
<1>6. ASSUME ~panicked' PROVE StopsRest(d)' BY <1>4, <1>6 DEF AutoInv, StopsRest
<1> QED BY <1>1, <1>2, <1>3, <1>5, <1>6 DEF AutoInv

\* The commands of users, and which of them deploy.
LEMMA CommandAt ==
    ASSUME TypeInv, NEW d \in Clients, SoleDeployer(d), NEW c \in Clients,
           client[c].pc # "idle" \/ client[c].done < Len(world.ops[c])
    PROVE  Cmd(c).op # "run" /\ (Cmd(c).op = "devrun" => c = d)
<1>1. world.ops[c] \in Seq(Command) /\ client[c].done \in Nat
  BY ControlPlaneAssumption DEF TypeInv, UserTypes, World, Shell
<1>2. client[c].done < Len(world.ops[c]) BY DEF TypeInv, UserTypes
<1>3. client[c].done + 1 \in DOMAIN world.ops[c] BY <1>1, <1>2, LenProperties
<1> QED BY <1>3 DEF SoleDeployer, Cmd

\* Who deploys is d, when devrun has nothing left to stop.
LEMMA DeployIsDue ==
    ASSUME TypeInv, InfoAsked, NEW d \in Clients, SoleDeployer(d), NEW c \in Clients,
           UserStep(c), deploys' # deploys
    PROVE  /\ c = d /\ AsksDeploy(d)
           /\ \/ /\ client[d].pc = "info" /\ answer[d] # None
                 /\ {i \in answer[d].ids : req[i].job.name = Cmd(d).job.name} = {}
              \/ /\ client[d].pc = "stopping" /\ answer[d] # None /\ answer[d].ok
                 /\ Cmd(d).op = "devrun" /\ client[d].todo = {}
<1>1. ~Begins(c)
  BY DEF Begins, RunDevWorkload, RunWorkload, StopCommand, LameDuck, ListWorkloads,
         ListNodes, NodeInfo, PingsNodes, AsksInfo, AsksStop, AsksLameDuck, PingsWorkloads, queueVars
<1>2. ~ListEnds(c) /\ ~GotAnswer(c) /\ ~TimesOut(c)
  BY DEF ListEnds, AsksInfo, GotAnswer, TimesOut, queueVars
<1>3. CASE GotInfo(c)
  <2>1. client[c].pc = "info" /\ answer[c] # None BY <1>3 DEF GotInfo
  <2>2. Cmd(c).op \in {"devrun", "run", "info"} BY <2>1 DEF InfoAsked
  <2>3. Cmd(c).op # "info" /\ AsksDeploy(c)
    BY <1>3 DEF GotInfo, AsksStop, queueVars
  <2>4. Cmd(c).op = "devrun" /\ c = d BY <2>1, <2>2, <2>3, CommandAt
  <2>5. {i \in answer[c].ids : req[i].job.name = Cmd(c).job.name} = {}
    BY <1>3, <2>4 DEF GotInfo, AsksStop, queueVars
  <2> QED BY <2>1, <2>3, <2>4, <2>5
<1>4. CASE GotStop(c)
  <2>1. client[c].pc = "stopping" /\ answer[c] # None BY <1>4 DEF GotStop
  <2>2. answer[c].ok /\ Cmd(c).op = "devrun" /\ client[c].todo = {} /\ AsksDeploy(c)
    BY <1>4 DEF GotStop, AsksStop, queueVars
  <2>3. c = d BY <2>1, <2>2, CommandAt
  <2> QED BY <2>1, <2>2, <2>3
<1> QED BY <1>1, <1>2, <1>3, <1>4 DEF UserStep

LEMMA StopIsDue ==
    ASSUME TypeInv, TypeInv', InfoAsked, NEW d \in Clients, SoleDeployer(d), UserStep(d),
           client'[d].pc = "stopping", Cmd(d).op = "devrun"
    PROVE  \E S \in SUBSET Ids : \E i \in S :
              /\ AsksStop(d, i, S \ {i})
              /\ \/ /\ client[d].pc = "info" /\ answer[d] # None
                    /\ S = {k \in answer[d].ids : req[k].job.name = Cmd(d).job.name}
                 \/ /\ client[d].pc = "stopping" /\ answer[d] # None /\ answer[d].ok
                    /\ S = client[d].todo
<1>0. UserTypes /\ AnswerTypes BY DEF TypeInv
<1>1. /\ \A pc, todo : Asks(d, pc, todo) => client'[d].pc = pc
      /\ Returns(d) => client'[d].pc = "idle"
  BY <1>0, ShellEffect
<1>2. ~Begins(d)
  BY <1>1 DEF Begins, RunDevWorkload, RunWorkload, StopCommand, LameDuck, ListWorkloads,
              ListNodes, NodeInfo, PingsNodes, AsksInfo, AsksLameDuck, PingsWorkloads
<1>3. ~ListEnds(d) /\ ~GotAnswer(d) /\ ~TimesOut(d)
  BY <1>1 DEF ListEnds, AsksInfo, GotAnswer, TimesOut
<1>4. CASE GotInfo(d)
  <2>1. client[d].pc = "info" /\ answer[d] # None BY <1>4 DEF GotInfo
  <2> DEFINE S == {k \in answer[d].ids : req[k].job.name = Cmd(d).job.name}
  <2>2. answer[d].ids \subseteq Ids BY <1>0, <2>1, NoneIsNoAnswer DEF AnswerTypes
  <2>3. S \in SUBSET Ids BY <2>2
  <2>4. \E i \in S : AsksStop(d, i, S \ {i})
    BY <1>1, <1>4 DEF GotInfo, AsksDeploy
  <2> QED BY <2>1, <2>3, <2>4
<1>5. CASE GotStop(d)
  <2>1. client[d].pc = "stopping" /\ answer[d] # None BY <1>5 DEF GotStop
  <2> DEFINE S == client[d].todo
  <2>2. S \in SUBSET Ids BY <1>0 DEF UserTypes, Shell
  <2>3. answer[d].ok /\ \E i \in S : AsksStop(d, i, S \ {i})
    BY <1>1, <1>5 DEF GotStop, AsksDeploy
  <2> QED BY <2>1, <2>2, <2>3
<1> QED BY <1>2, <1>3, <1>4, <1>5 DEF UserStep

LEMMA OtherUserAuto ==
    ASSUME TypeInv, TypeInv', PostInv, InfoAsked, NEW d \in Clients, SoleDeployer(d), AutoInv(d),
           NEW c \in Clients, c # d, UserStep(c)
    PROVE  AutoInv(d)'
<1>0. UserTypes /\ AnswerTypes BY DEF TypeInv
<1>1. UNCHANGED <<world, dh, sh, live, req, panicked, deploys>>
  <2>1. UNCHANGED <<world, dh, sh, live, req, panicked>> BY UserEffect DEF clientFrame, workVars
  <2> QED BY <2>1, DeployIsDue
<1>2. client'[d] = client[d] /\ answer'[d] = answer[d]
  <2>1. (\E pc, todo : Asks(c, pc, todo)) \/ Returns(c)
    BY UserEffect DEF AsksDeploy, AsksStop, AsksLameDuck
  <2> QED BY <1>0, <2>1, ShellEffect
<1>3. Deploying' = Deploying /\ Waiting' = Waiting
  BY <1>1 DEF Deploying, Waiting, AtWork
<1>4. \A m \in Stopping' : m \in Stopping \/ m.from # d
  <2>1. CASE UNCHANGED stops BY <1>1, <2>1 DEF Stopping
  <2>2. ASSUME NEW i \in Ids, NEW todo, AsksStop(c, i, todo)
        PROVE  \A m \in Stopping' : m \in Stopping \/ m.from # d
    <3> DEFINE m == NewStopRequest(c, client[c].n + 1, i, Cmd(c).job)
    <3>1. stops' = Append(stops, m) BY <2>2 DEF AsksStop
    <3>2. m.from = c BY DEF NewStopRequest
    <3> HIDE DEF m
    <3>3. Elems(stops') = Elems(stops) \cup {m}
      BY <3>1, AppendElems DEF TypeInv, HandlerTypes
    <3>4. Stopping' = Stopping \cup {m} BY <1>1, <3>3 DEF Stopping
    <3> QED BY <3>2, <3>4
  <2> QED BY <2>1, <2>2, UserEffect DEF AsksDeploy, AsksLameDuck, queueVars
<1> QED BY <1>1, <1>2, <1>3, <1>4, AutoFrame

LEMMA OwnUserAuto ==
    ASSUME TypeInv, TypeInv', PostInv, InfoAsked, NEW d \in Clients, SoleDeployer(d), AutoInv(d),
           "clientTimeout" \notin world.faults, UserStep(d)
    PROVE  AutoInv(d)'
<1>0. UserTypes /\ AnswerTypes BY DEF TypeInv
<1>1. UNCHANGED <<world, dh, sh, live, req, panicked>>
  BY UserEffect DEF clientFrame, workVars
<1>2. AloneLive' BY <1>1, AloneStays DEF AutoInv
<1> SUFFICES ASSUME ~panicked
             PROVE  DeploysOwn(d)' /\ NoneAlike' /\ InfoComplete(d)' /\ StopsRest(d)'
  BY <1>1, <1>2 DEF AutoInv
<1>3. DeploysOwn(d) /\ NoneAlike /\ InfoComplete(d) /\ StopsRest(d) BY DEF AutoInv
<1>4. ~(client[d].pc = "starting" /\ answer[d] = None)
  BY DEF UserStep, Begins, ListEnds, GotInfo, GotStop, GotAnswer, TimesOut
<1>5. \A m \in Deploying : ~Plain(m.job) BY <1>3, <1>4 DEF DeploysOwn
<1>6. answer'[d] = None
  <2>1. (\E pc, todo : Asks(d, pc, todo)) \/ Returns(d)
    BY UserEffect DEF AsksDeploy, AsksStop, AsksLameDuck
  <2> QED BY <1>0, <2>1, ShellEffect
<1>7. InfoComplete(d)' BY <1>6 DEF InfoComplete
<1>8. CASE deploys' # deploys
  <2>1. AsksDeploy(d) BY <1>8, DeployIsDue
  <2> DEFINE m == NewDeployRequest(d, client[d].n + 1, Cmd(d).job)
  <2>2. deploys' = Append(deploys, m) BY <2>1 DEF AsksDeploy
  <2>3. client'[d].pc = "starting" /\ client'[d].n = client[d].n + 1
    BY <1>0, <2>1, ShellEffect DEF AsksDeploy
  <2>4. m.from = d /\ m.n = client[d].n + 1 /\ m.job = Cmd(d).job BY DEF NewDeployRequest
  <2> HIDE DEF m
  <2>5. Elems(deploys') = Elems(deploys) \cup {m}
    BY <2>2, AppendElems DEF TypeInv, HandlerTypes
  <2>6. Deploying' = Deploying \cup {m} BY <1>1, <2>5 DEF Deploying
  <2>7. Waiting' = Waiting \cup {m} BY <1>1, <2>5 DEF Waiting, AtWork
  <2>8. DeploysOwn(d)' BY <1>5, <1>6, <2>3, <2>4, <2>6 DEF DeploysOwn
  <2>9. ASSUME NEW k \in live, Alike(Cmd(d).job, req[k].job) PROVE FALSE
    <3>1. CASE client[d].pc = "info" /\ answer[d] # None
               /\ {i \in answer[d].ids : req[i].job.name = Cmd(d).job.name} = {}
      <4>1. k \in answer[d].ids BY <1>3, <2>9, <3>1 DEF InfoComplete, Alike
      <4> QED BY <2>9, <3>1, <4>1 DEF Alike
    <3>2. CASE client[d].pc = "stopping" /\ answer[d] # None /\ answer[d].ok
               /\ Cmd(d).op = "devrun" /\ client[d].todo = {}
      BY <1>3, <2>9, <3>2 DEF StopsRest
    <3> QED BY <1>8, <3>1, <3>2, DeployIsDue
  <2>10. NoneAlike' BY <1>1, <1>3, <2>4, <2>7, <2>9 DEF NoneAlike
  <2>11. StopsRest(d)' BY <2>3 DEF StopsRest
  <2> QED BY <1>7, <2>8, <2>10, <2>11
<1>9. CASE UNCHANGED deploys
  <2>1. Deploying' = Deploying /\ Waiting' = Waiting
    BY <1>1, <1>9 DEF Deploying, Waiting, AtWork
  <2>2. DeploysOwn(d)' BY <1>5, <2>1 DEF DeploysOwn
  <2>3. NoneAlike' BY <1>1, <1>3, <2>1 DEF NoneAlike
  <2>4. ASSUME client'[d].pc = "stopping", Cmd(d)'.op = "devrun" PROVE StopsRest(d)'
    <3>1. (\E pc, todo : Asks(d, pc, todo)) \/ Returns(d)
      BY UserEffect DEF AsksDeploy, AsksStop, AsksLameDuck
    <3>2. client'[d].done = client[d].done BY <1>0, <2>4, <3>1, ShellEffect
    <3>3. Cmd(d)' = Cmd(d) BY <1>1, <3>2 DEF Cmd
    <3>0. PICK S \in SUBSET Ids : \E i \in S :
             /\ AsksStop(d, i, S \ {i})
             /\ \/ /\ client[d].pc = "info" /\ answer[d] # None
                   /\ S = {k \in answer[d].ids : req[k].job.name = Cmd(d).job.name}
                \/ /\ client[d].pc = "stopping" /\ answer[d] # None /\ answer[d].ok
                   /\ S = client[d].todo
      BY <2>4, <3>3, StopIsDue
    <3>4. PICK i \in S :
             /\ AsksStop(d, i, S \ {i})
             /\ \/ /\ client[d].pc = "info" /\ answer[d] # None
                   /\ S = {k \in answer[d].ids : req[k].job.name = Cmd(d).job.name}
                \/ /\ client[d].pc = "stopping" /\ answer[d] # None /\ answer[d].ok
                   /\ S = client[d].todo
      BY <3>0
    <3>5. ASSUME NEW k \in live, Alike(Cmd(d).job, req[k].job) PROVE k \in S
      <4>1. CASE client[d].pc = "info" /\ answer[d] # None
                 /\ S = {j \in answer[d].ids : req[j].job.name = Cmd(d).job.name}
        <5>1. k \in answer[d].ids BY <1>3, <3>5, <4>1 DEF InfoComplete, Alike
        <5> QED BY <3>5, <4>1, <5>1 DEF Alike
      <4>2. CASE client[d].pc = "stopping" /\ answer[d] # None /\ answer[d].ok
                 /\ S = client[d].todo
        BY <1>3, <2>4, <3>3, <3>5, <4>2 DEF StopsRest
      <4> QED BY <3>4, <4>1, <4>2
    <3> DEFINE m == NewStopRequest(d, client[d].n + 1, i, Cmd(d).job)
    <3>6. stops' = Append(stops, m) /\ Asks(d, "stopping", S \ {i}) BY <3>4 DEF AsksStop
    <3>7. m.id = i BY DEF NewStopRequest
    <3> HIDE DEF m
    <3>8. Elems(stops') = Elems(stops) \cup {m}
      BY <3>6, AppendElems DEF TypeInv, HandlerTypes
    <3>9. Stopping' = Stopping \cup {m} BY <1>1, <3>8 DEF Stopping
    <3>10. client'[d].n = client[d].n + 1 /\ client'[d].todo = S \ {i} BY <1>0, <3>6, ShellEffect
    <3>11. \A x \in Stopping : x.from = d => x.n # client'[d].n
      <4>1. \A x \in Stopping : x.n \in Nat BY MessagesTyped, SenderTyped DEF TypeInv
      <4>2. client[d].n \in Nat BY <1>0 DEF UserTypes, Shell
      <4> QED BY <3>10, <4>1, <4>2 DEF PostInv, SentAt
    <3>12. ASSUME NEW k \in live, Alike(Cmd(d).job, req[k].job)
           PROVE  \/ k \in client'[d].todo
                  \/ \A x \in Stopping' : x.from = d /\ x.n = client'[d].n => x.id = k
      BY <3>5, <3>7, <3>9, <3>10, <3>11, <3>12
    <3> QED BY <1>1, <1>6, <3>3, <3>12 DEF StopsRest
  <2>5. StopsRest(d)' BY <2>4 DEF StopsRest
  <2> QED BY <1>7, <2>2, <2>3, <2>5
<1> QED BY <1>8, <1>9

\* A plain message is not there any more when its user has the answer.
LEMMA PlainAnswered ==
    ASSUME TypeInv, TypeInv', ChainInv, PostInv, KinInv, RefuseInv, NEW d \in Clients,
           DeploysOwn(d), DeployStep, answer'[d] # answer[d],
           NEW m \in Deploying', Plain(m.job)
    PROVE  FALSE
<1>1. m \in Deploying /\ answer' # answer BY DeployMoves
<1>2. PICK ch : ch = <<d, client[d].done + 1>> OBVIOUS
<1>3. m.chain = ch
  <2>1. m.from = d /\ m.n = client[d].n /\ client[d].pc = "starting" BY <1>1 DEF DeploysOwn
  <2>2. DeploySent(client, m) BY <1>1, <2>1 DEF PostInv
  <2> QED BY <1>2, <2>1, <2>2 DEF DeploySent
<1>4. ASSUME NEW x \in Deploying, NEW ok, NEW ids, Answer(x.from, x.n, ok, ids)
      PROVE  x.chain = ch
  <2>1. /\ d = x.from /\ x.n = client[d].n /\ client[d].pc = "starting"
        /\ x.chain = <<d, client[d].done + 1>>
        /\ answer[d] = None /\ answer'[d] = [ok |-> ok, ids |-> ids]
    BY <1>4, DeployAnswered
  <2> QED BY <1>2, <2>1
<1>5. CASE HandleDeploy
  <2>1. Head(deploys) \in Deploying
    BY <1>5, TailElems DEF HandleDeploy, Deploying, TypeInv, HandlerTypes
  <2>2. \E ok, ids : Answer(Head(deploys).from, Head(deploys).n, ok, ids)
    BY <1>1, <1>5 DEF HandleDeploy, DeployFails
  <2>3. Head(deploys).chain = ch BY <1>4, <2>1, <2>2
  <2>4. m \notin Elems(deploys') BY <1>3, <1>5, <2>3, HandleDeployTakes
  <2>5. dh'.pc # "idle" /\ m = dh'.msg BY <2>4 DEF Deploying
  <2>6. \/ dh' = NoMsg
        \/ /\ dh' = [pc |-> "caching", msg |-> Head(deploys), id |-> None]
           /\ ~ValidIssuer(Head(deploys).job.issuer)
    BY <1>1, <1>5 DEF HandleDeploy, DeployFails
  <2>7. m = Head(deploys) /\ ~ValidIssuer(Head(deploys).job.issuer) BY <2>5, <2>6 DEF NoMsg
  <2> QED BY <2>7 DEF Plain
<1>6. CASE ~HandleDeploy
  <2>1. dh.pc # "idle" /\ dh.msg.chain = ch BY <1>1, <1>4, <1>6, DeployAnswers
  <2>2. UNCHANGED deploys /\ ~DeployWorkload
    BY <1>1, <1>6 DEF DeployStep, CacheWorkload, DeployWorkload, NoAgent, DeployAccepted,
                      DeployRejected, DeployTimesOut, queueVars
  <2>3. dh' = NoMsg
    BY <1>1, <1>6, <2>2 DEF DeployStep, CacheWorkload, NoAgent, DeployAccepted, DeployRejected,
                            DeployTimesOut, DeployFails
  <2>4. m \in Elems(deploys) BY <2>2, <2>3 DEF Deploying, NoMsg
  <2>5. CASE AtWork BY <1>3, <2>1, <2>4, <2>5 DEF ChainInv, HandlerApart, Elems
  <2>6. CASE ~AtWork
    <3>1. dh.pc = "sent" BY <2>1, <2>6 DEF AtWork, TypeInv, HandlerTypes, DeployPcs
    <3>2. PICK i \in Used : req[i].chain = ch BY <2>1, <3>1 DEF RefuseInv
    <3>3. m \in Waiting BY <2>4 DEF Waiting
    <3>4. m.job.essential BY <1>3, <3>2, <3>3 DEF KinInv
    <3> QED BY <3>4 DEF Plain
  <2> QED BY <2>5, <2>6
<1> QED BY <1>5, <1>6

LEMMA DeployAuto ==
    ASSUME TypeInv, TypeInv', ChainInv, PostInv, KinInv, RefuseInv, NEW d \in Clients,
           AutoInv(d), DeployStep
    PROVE  AutoInv(d)'
<1>1. /\ Deploying' \subseteq Deploying /\ UNCHANGED <<world, client, stops, sh>> /\ ~panicked
  BY DeployMoves DEF DeployStep, HandleDeploy, CacheWorkload, DeployWorkload, NoAgent,
                     DeployAccepted, DeployRejected, DeployTimesOut
<1>2. Stopping' = Stopping BY <1>1 DEF Stopping
<1>3. AloneLive /\ DeploysOwn(d) /\ NoneAlike /\ InfoComplete(d) /\ StopsRest(d)
  BY <1>1 DEF AutoInv
<1>4. CASE ~DeployWorkload /\ answer'[d] = answer[d]
  <2>1. live' \subseteq live /\ \A k \in live : req'[k].job = req[k].job
    BY <1>4, LiveStays DEF Next
  <2>2. Waiting' \subseteq Waiting BY <1>4, DeployWaiting
  <2> QED BY <1>1, <1>2, <1>4, <2>1, <2>2, AutoFrame
<1>5. CASE ~DeployWorkload /\ answer'[d] # answer[d]
  <2>1. live' \subseteq live /\ \A k \in live : req'[k].job = req[k].job
    BY <1>5, LiveStays DEF Next
  <2>2. Waiting' \subseteq Waiting BY <1>5, DeployWaiting
  <2>3. AloneLive' BY <1>3, <2>1, AloneStays
  <2>4. NoneAlike' BY <1>3, <2>1, <2>2 DEF NoneAlike, Alike
  <2>5. DeploysOwn(d)' BY <1>3, <1>5, PlainAnswered DEF DeploysOwn
  <2>6. client'[d].pc = "starting"
    <3>1. ASSUME NEW x \in Deploying, NEW ok, NEW ids, Answer(x.from, x.n, ok, ids)
          PROVE  client[d].pc = "starting"
      <4>1. /\ d = x.from /\ x.n = client[d].n /\ client[d].pc = "starting"
            /\ x.chain = <<d, client[d].done + 1>>
            /\ answer[d] = None /\ answer'[d] = [ok |-> ok, ids |-> ids]
        BY <1>5, <3>1, DeployAnswered
      <4> QED BY <4>1
    <3>2. answer' # answer BY <1>5
    <3> QED BY <1>1, <3>1, <3>2, DeployAnswers
  <2>7. InfoComplete(d)' /\ StopsRest(d)' BY <2>6 DEF InfoComplete, StopsRest
  <2> QED BY <2>3, <2>4, <2>5, <2>7 DEF AutoInv
<1>6. CASE DeployWorkload
  <2>1. PICK i \in Ids :
           /\ i \notin Used /\ AtWork /\ ~AtWork' /\ dh'.msg = dh.msg /\ req'[i] = dh.msg
           /\ \A k \in Ids \ {i} : req'[k] = req[k]
           /\ live' = live \cup {i} /\ UNCHANGED <<answer, deploys>>
    BY <1>6, DeployFiles
  <2>2. dh.msg \in Waiting /\ dh.msg \in Deploying /\ Waiting' = Elems(deploys)
        /\ Elems(deploys) \subseteq Waiting /\ Elems(deploys) \subseteq Deploying
    BY <2>1 DEF Waiting, Deploying, AtWork
  <2>3. \A k \in live : k \in Ids \ {i} BY <2>1, LiveUsed DEF Used
  <2>4. \A k \in live : ~Alike(dh.msg.job, req[k].job) BY <1>3, <2>2 DEF NoneAlike
  <2>5. \A k \in live : ~Alike(req[k].job, dh.msg.job) BY <2>4 DEF Alike
  <2>6. AloneLive' BY <1>3, <2>1, <2>3, <2>4, <2>5 DEF AloneLive
  <2>7. DeploysOwn(d)' BY <1>1, <1>3, <2>1 DEF DeploysOwn
  <2>8. ASSUME NEW m \in Elems(deploys) PROVE ~Alike(m.job, dh.msg.job)
    <3> SUFFICES ASSUME Plain(m.job), Plain(dh.msg.job) PROVE FALSE
      BY DEF Alike
    <3>1. /\ m.from = d /\ m.n = client[d].n /\ client[d].pc = "starting"
          /\ dh.msg.from = d /\ dh.msg.n = client[d].n
      BY <1>3, <2>2 DEF DeploysOwn
    <3>2. DeploySent(client, m) /\ DeploySent(client, dh.msg) BY <2>2, <3>1 DEF PostInv
    <3>3. m.chain = dh.msg.chain BY <3>1, <3>2 DEF DeploySent
    <3> QED BY <2>1, <3>3 DEF ChainInv, HandlerApart, Elems
  <2>9. NoneAlike' BY <1>3, <2>1, <2>2, <2>3, <2>8 DEF NoneAlike
  <2>10. client[d].pc # "starting" => ~Plain(req'[i].job)
    BY <1>3, <2>1, <2>2 DEF DeploysOwn
  <2>11. Cmd(d)' = Cmd(d) BY <1>1 DEF Cmd
  <2>12. InfoComplete(d)' BY <1>1, <1>3, <2>1, <2>3, <2>10, <2>11 DEF InfoComplete
  <2>13. StopsRest(d)' BY <1>1, <1>2, <1>3, <2>1, <2>3, <2>10, <2>11 DEF StopsRest, Alike
  <2> QED BY <2>6, <2>7, <2>9, <2>12, <2>13 DEF AutoInv
<1> QED BY <1>4, <1>5, <1>6

\* A STOP is answered with an error, or its process is gone.
LEMMA StopAuto ==
    ASSUME TypeInv, TypeInv', PostInv, NEW d \in Clients, AutoInv(d), StopStep
    PROVE  AutoInv(d)'
<1>1. UNCHANGED <<world, client, deploys, dh>> /\ Stopping' \subseteq Stopping /\ ~panicked
  <2>1. UNCHANGED <<world, client, deploys, dh>> /\ Stopping' \subseteq Stopping
    BY StopMoves DEF PostInv
  <2> QED BY <2>1 DEF StopStep, HandleStop, StopUndeploys, StopWorkload
<1>2. ~DeployWorkload
  <2>1. DeployWorkload => AtWork /\ ~AtWork' BY DeployFiles
  <2> QED BY <1>1, <2>1 DEF AtWork
<1>3. live' \subseteq live /\ \A k \in live : req'[k].job = req[k].job
  BY <1>2, LiveStays DEF Next
<1>4. Deploying' = Deploying /\ Waiting' = Waiting BY <1>1 DEF Deploying, Waiting, AtWork
<1>5. CASE answer'[d] = answer[d] BY <1>1, <1>3, <1>4, <1>5, AutoFrame
<1>6. CASE answer'[d] # answer[d]
  <2>1. client[d].pc = "stopping" BY <1>6, StopAnswers
  <2>2. AloneLive /\ DeploysOwn(d) /\ NoneAlike /\ StopsRest(d) BY <1>1 DEF AutoInv
  <2>3. AloneLive' BY <1>3, <2>2, AloneStays
  <2>4. DeploysOwn(d)' BY <1>4, <2>1, <2>2 DEF DeploysOwn
  <2>5. NoneAlike' BY <1>3, <1>4, <2>2 DEF NoneAlike
  <2>6. InfoComplete(d)' BY <1>1, <2>1 DEF InfoComplete
  <2>7. ASSUME NEW m \in Stopping, NEW ok, NEW ids, Answer(m.from, m.n, ok, ids),
               ok = FALSE \/ m.id \notin live'
        PROVE  StopsRest(d)'
    <3>1. /\ d = m.from /\ m.n = client[d].n /\ client[d].pc = "stopping"
          /\ answer[d] = None /\ answer'[d] = [ok |-> ok, ids |-> ids]
      BY <1>6, <2>7, StopAnswered
    <3>2. Cmd(d)' = Cmd(d) BY <1>1 DEF Cmd
    <3>3. answer'[d] # None /\ answer'[d].ok = ok BY <1>6, <3>1
    <3>4. ASSUME NEW k \in live', Cmd(d).op = "devrun", Alike(Cmd(d).job, req'[k].job)
          PROVE  k \in client[d].todo \/ ok = FALSE
      <4>1. k \in live /\ Alike(Cmd(d).job, req[k].job) BY <1>3, <3>4
      <4>2. k \in client[d].todo \/ m.id = k BY <2>1, <2>2, <3>1, <3>4, <4>1 DEF StopsRest
      <4> QED BY <2>7, <4>2
    <3> QED BY <1>1, <3>2, <3>3, <3>4 DEF StopsRest
  <2>8. CASE HandleStop
    <3>1. Head(stops) \in Stopping
      BY <2>8, TailElems DEF HandleStop, Stopping, TypeInv, HandlerTypes
    <3>2. Answer(Head(stops).from, Head(stops).n, FALSE, {Head(stops).id})
      BY <1>6, <2>8 DEF HandleStop
    <3> QED BY <2>3, <2>4, <2>5, <2>6, <2>7, <3>1, <3>2 DEF AutoInv
  <2>9. CASE StopUndeploys BY <1>6, <2>9 DEF StopUndeploys
  <2>10. CASE StopWorkload
    <3>1. sh.pc # "idle" BY <2>10 DEF StopWorkload
    <3>2. sh.msg \in Stopping /\ sh.id = sh.msg.id BY <3>1 DEF Stopping, PostInv
    <3>3. CASE StopProcess(sh.id) /\ Answer(sh.msg.from, sh.msg.n, TRUE, {sh.id})
      <4>1. sh.msg.id \notin live' BY <3>2, <3>3 DEF StopProcess
      <4>2. StopsRest(d)' BY <2>7, <3>2, <3>3, <4>1
      <4> QED BY <2>3, <2>4, <2>5, <2>6, <4>2 DEF AutoInv
    <3>4. CASE KillFails(sh.id) /\ Answer(sh.msg.from, sh.msg.n, FALSE, {sh.id})
      <4>1. StopsRest(d)' BY <2>7, <3>2, <3>4
      <4> QED BY <2>3, <2>4, <2>5, <2>6, <4>1 DEF AutoInv
    <3> QED BY <2>10, <3>3, <3>4 DEF StopWorkload
  <2> QED BY <2>8, <2>9, <2>10 DEF StopStep
<1> QED BY <1>5, <1>6

\* Answers that are not for a deployment or a STOP.
LEMMA OtherAnswerAuto ==
    ASSUME TypeInv, TypeInv', NEW d \in Clients, AutoInv(d),
           UNCHANGED <<world, client, deploys, dh, stops, sh>>, panicked => panicked',
           live' \subseteq live, \A k \in live : req'[k].job = req[k].job,
           answer'[d] # answer[d] => client[d].pc \in {"listing", "wlisting", "laming"}
    PROVE  AutoInv(d)'
<1>1. Deploying' = Deploying /\ Waiting' = Waiting /\ Stopping' = Stopping
  BY DEF Deploying, Waiting, AtWork, Stopping
<1>2. CASE answer'[d] = answer[d] BY <1>1, <1>2, AutoFrame
<1>3. CASE answer'[d] # answer[d]
  <2>1. client'[d].pc \notin {"info", "stopping", "starting"} /\ client' = client BY <1>3
  <2>2. AloneLive' BY AloneStays DEF AutoInv
  <2>3. ASSUME ~panicked PROVE DeploysOwn(d)' BY <1>1, <2>1, <2>3 DEF AutoInv, DeploysOwn
  <2>4. ASSUME ~panicked PROVE NoneAlike' BY <1>1, <2>4 DEF AutoInv, NoneAlike
  <2>5. InfoComplete(d)' /\ StopsRest(d)' BY <2>1 DEF InfoComplete, StopsRest
  <2> QED BY <2>2, <2>3, <2>4, <2>5 DEF AutoInv
<1> QED BY <1>2, <1>3

LEMMA QuestionAuto ==
    ASSUME TypeInv, TypeInv', NEW d \in Clients, AutoInv(d), NEW c \in Clients, Question(c)
    PROVE  AutoInv(d)'
<1>1. UNCHANGED <<world, client, deploys, dh, stops, sh, live, req, panicked>> /\ ~panicked
  BY DEF Question, HandlePing, HandleInfo, HandleWorkloadPing, questionFrame, clientVars,
         queueVars, workVars
<1>2. CASE answer'[d] = answer[d] \/ client[d].pc # "info"
  <2>1. answer'[d] # answer[d] => client[d].pc \in {"listing", "wlisting", "laming"}
    BY <1>2, QuestionAnswered
  <2>2. live' \subseteq live /\ \A k \in live : req'[k].job = req[k].job BY <1>1
  <2>3. panicked => panicked' BY <1>1
  <2>4. UNCHANGED <<world, client, deploys, dh, stops, sh>> BY <1>1
  <2> QED BY <2>1, <2>2, <2>3, <2>4, OtherAnswerAuto
<1>3. CASE answer'[d] # answer[d] /\ client[d].pc = "info"
  <2>1. c = d BY <1>3, QuestionAnswered
  <2>2. HandleInfo(d) BY <1>3, <2>1 DEF Question, HandlePing, HandleWorkloadPing
  <2>3. answer'[d].ids = Machines(Cmd(d).job.ns)
    <3> DEFINE M == Machines(Cmd(d).job.ns)
    <3>0. PICK ok, n : ok = TRUE /\ n = client[d].n OBVIOUS
    <3>1. Answer(d, n, ok, M) BY <2>2, <3>0 DEF HandleInfo
    <3> HIDE DEF M
    <3>2. answer'[d] = [ok |-> ok, ids |-> M]
      <4>1. AnswerTypes /\ d \in Clients \cup Ids BY DEF TypeInv
      <4>2. /\ \A x \in Clients \cup Ids : x # d => answer'[x] = answer[x]
            /\ \/ answer'[d] = answer[d]
               \/ Waits(d, n) /\ answer[d] = None /\ answer'[d] = [ok |-> ok, ids |-> M]
        BY <3>1, <4>1, AnswerEffect
      <4> QED BY <1>3, <4>2
    <3>3. answer'[d].ids = M BY <3>2
    <3> QED BY <3>3 DEF M
  <2>4. Cmd(d)' = Cmd(d) BY <1>1 DEF Cmd
  <2>5. InfoComplete(d)'
    BY <1>1, <2>3, <2>4 DEF InfoComplete, Machines, RunningWorkloads
  <2>6. AloneLive /\ DeploysOwn(d) /\ NoneAlike BY <1>1 DEF AutoInv
  <2>7. AloneLive' BY <1>1, <2>6, AloneStays
  <2>8. Deploying' = Deploying /\ Waiting' = Waiting BY <1>1 DEF Deploying, Waiting, AtWork
  <2>9. DeploysOwn(d)' BY <1>3, <2>6, <2>8 DEF DeploysOwn
  <2>10. NoneAlike' BY <1>1, <2>6, <2>8 DEF NoneAlike
  <2>11. StopsRest(d)' BY <1>1, <1>3 DEF StopsRest
  <2> QED BY <2>5, <2>7, <2>9, <2>10, <2>11 DEF AutoInv
<1> QED BY <1>2, <1>3

LEMMA EventAuto ==
    ASSUME TypeInv, TypeInv', PostInv, KinInv, NEW d \in Clients, AutoInv(d),
           NEW i \in Ids, EventStep(i)
    PROVE  AutoInv(d)'
<1>1. UNCHANGED <<world, client, answer, dh, stops, sh>> /\ req[i] \in DeployMsg BY EventMoves
<1>2. ~panicked BY DEF EventStep, AgentEvent, EventLocks, EventStops, EventDecides, EventAnswered
<1>3. ~DeployWorkload
  <2>1. DeployWorkload => AtWork /\ ~AtWork' BY DeployFiles
  <2> QED BY <1>1, <2>1 DEF AtWork
<1>4. live' \subseteq live /\ \A k \in live : req'[k].job = req[k].job
  BY <1>3, LiveStays DEF Next
<1>5. Stopping' = Stopping BY <1>1 DEF Stopping
<1>6. CASE UNCHANGED deploys
  <2>1. Deploying' = Deploying /\ Waiting' = Waiting BY <1>1, <1>6 DEF Deploying, Waiting, AtWork
  <2> QED BY <1>1, <1>2, <1>4, <1>5, <2>1, AutoFrame
<1>7. CASE deploys' = Append(deploys, Again(i)) /\ Redeploys(i)
  <2>1. Elems(deploys') = Elems(deploys) \cup {Again(i)}
    BY <1>7, AppendElems DEF TypeInv, HandlerTypes
  <2>2. Again(i).job = req[i].job BY <1>1, AgainFields
  <2>3. i \in Used /\ req[i].essential BY <1>1, <1>7, NoneIsNoRequest DEF Used, Redeploys
  <2>4. ~Plain(Again(i).job) BY <2>2, <2>3 DEF KinInv, Plain
  <2>5. /\ \A m \in Deploying' : m \in Deploying \/ m = Again(i)
        /\ \A m \in Waiting' : m \in Waiting \/ m = Again(i)
    BY <1>1, <2>1 DEF Deploying, Waiting, AtWork
  <2> QED BY <1>1, <1>2, <1>4, <1>5, <2>4, <2>5, AutoFrame
<1> QED BY <1>6, <1>7, EventMoves

\* The steps of agents and workloads, of handleLameDuck, and of time.
LEMMA RestAuto ==
    ASSUME TypeInv, TypeInv', PostInv, NEW d \in Clients, AutoInv(d), [Next]_vars,
           \/ LameDuckStep \/ Tick \/ UNCHANGED vars
           \/ \E i \in Ids : AgentDeploys(i) \/ \E code \in {0, 1} : WorkloadExits(i, code)
    PROVE  AutoInv(d)'
<1>1. UNCHANGED <<world, client, deploys, dh, stops, sh>>
  BY LameMoves, WorkloadMoves DEF Tick, vars, clientVars, queueVars
<1>2. answer'[d] # answer[d] => client[d].pc \in {"listing", "wlisting", "laming"}
  BY LameAnswered, WorkloadMoves DEF Tick, vars
<1>3. panicked => panicked' BY PanicStays
<1>4. ~DeployWorkload
  <2>1. DeployWorkload => AtWork /\ ~AtWork' BY DeployFiles
  <2> QED BY <1>1, <2>1 DEF AtWork
<1>5. live' \subseteq live /\ \A k \in live : req'[k].job = req[k].job
  BY <1>4, LiveStays
<1> QED BY <1>1, <1>2, <1>3, <1>5, OtherAnswerAuto

LEMMA AutoInvStep ==
    ASSUME TypeInv, TypeInv', ChainInv, PostInv, KinInv, RefuseInv, InfoAsked, NEW d \in Clients,
           SoleDeployer(d), AutoInv(d), "clientTimeout" \notin world.faults, [Next]_vars
    PROVE  AutoInv(d)'
<1>1. ASSUME NEW c \in Clients, UserStep(c) PROVE AutoInv(d)'
  <2>1. CASE c = d BY <1>1, <2>1, OwnUserAuto
  <2>2. CASE c # d BY <1>1, <2>2, OtherUserAuto
  <2> QED BY <2>1, <2>2
<1>2. ASSUME NEW c \in Clients, Question(c) PROVE AutoInv(d)' BY <1>2, QuestionAuto
<1>3. DeployStep => AutoInv(d)' BY DeployAuto
<1>4. StopStep => AutoInv(d)' BY StopAuto
<1>5. ASSUME NEW i \in Ids, EventStep(i) PROVE AutoInv(d)' BY <1>5, EventAuto
<1> QED BY <1>1, <1>2, <1>3, <1>4, <1>5, RestAuto DEF Next

LEMMA InfoAskedStep == TypeInv /\ TypeInv' /\ PostInv /\ InfoAsked /\ [Next]_vars => InfoAsked'
<1> SUFFICES ASSUME TypeInv, TypeInv', PostInv, InfoAsked, [Next]_vars PROVE InfoAsked'
  OBVIOUS
<1>1. ASSUME UNCHANGED <<world, client>> PROVE InfoAsked'
  BY <1>1 DEF InfoAsked, Cmd
<1>2. ASSUME NEW c \in Clients, UserStep(c) PROVE InfoAsked'
  <2>0. UserTypes /\ AnswerTypes /\ UNCHANGED world BY <1>2, UserEffect DEF TypeInv, clientFrame
  <2>1. (\E pc, todo : Asks(c, pc, todo)) \/ Returns(c)
    BY <1>2, UserEffect DEF AsksDeploy, AsksStop, AsksLameDuck
  <2>2. \A x \in Clients \ {c} : client'[x] = client[x] BY <2>0, <2>1, ShellEffect
  <2>3. \A x \in Clients \ {c} : client'[x].pc = "info" => Cmd(x)'.op \in {"devrun", "run", "info"}
    BY <2>0, <2>2 DEF InfoAsked, Cmd
  <2>4. ASSUME client'[c].pc = "info" PROVE Cmd(c)'.op \in {"devrun", "run", "info"}
    <3>1. client'[c].done = client[c].done BY <2>0, <2>1, <2>4, ShellEffect
    <3>2. Cmd(c)' = Cmd(c) BY <2>0, <3>1 DEF Cmd
    <3>3. ~Returns(c) /\ \A pc, todo : Asks(c, pc, todo) => pc = "info"
      BY <2>0, <2>4, ShellEffect
    <3>4. Cmd(c).op \in {"devrun", "run", "info"}
      BY <1>2, <3>3 DEF UserStep, Begins, RunDevWorkload, RunWorkload, StopCommand, LameDuck,
                        ListWorkloads, ListNodes, NodeInfo, ListEnds, GotInfo, GotStop, GotAnswer,
                        TimesOut, AsksDeploy, AsksStop, AsksLameDuck, PingsNodes, PingsWorkloads
    <3> QED BY <3>2, <3>4
  <2> QED BY <2>3, <2>4 DEF InfoAsked
<1>3. ASSUME NEW c \in Clients, Question(c) PROVE InfoAsked'
  BY <1>1, <1>3, QuestionTyped DEF questionFrame, clientVars
<1>4. DeployStep \/ StopStep \/ LameDuckStep => InfoAsked'
  BY <1>1, DeployMoves, StopMoves, LameMoves DEF PostInv
<1>5. ASSUME NEW i \in Ids, EventStep(i) PROVE InfoAsked' BY <1>1, <1>5, EventMoves
<1>6. Tick \/ UNCHANGED vars => InfoAsked' BY <1>1 DEF Tick, vars, clientVars
<1> QED BY <1>1, <1>2, <1>3, <1>4, <1>5, <1>6, WorkloadMoves DEF Next

LEMMA AutoStopsStep ==
    TypeInv /\ TypeInv' /\ ChainInv /\ PostInv /\ KinInv /\ RefuseInv /\ AutoStops /\ [Next]_vars
       => AutoStops'
<1> SUFFICES ASSUME TypeInv, TypeInv', ChainInv, PostInv, KinInv, RefuseInv, AutoStops,
                    [Next]_vars
             PROVE  AutoStops'
  OBVIOUS
<1>1. InfoAsked' BY InfoAskedStep DEF AutoStops
<1>2. UNCHANGED world BY WorldStays
<1>3. ASSUME NEW d \in Clients, SoleDeployer(d)', "clientTimeout" \notin world.faults
      PROVE  AutoInv(d)'
  <2>1. SoleDeployer(d) BY <1>2, <1>3 DEF SoleDeployer
  <2> QED BY <1>3, <2>1, AutoInvStep DEF AutoStops
<1> QED BY <1>1, <1>2, <1>3 DEF AutoStops

LEMMA InitAuto == Init => AutoStops
<1> SUFFICES ASSUME Init PROVE AutoStops
  OBVIOUS
<1>1. deploys = <<>> /\ stops = <<>> /\ live = {} BY DEF Init
<1>2. dh.pc = "idle" /\ sh.pc = "idle" BY DEF Init, NoMsg
<1>3. Elems(<<>>) = {} BY DEF Elems
<1>4. Deploying = {} /\ Waiting = {} BY <1>1, <1>2, <1>3 DEF Deploying, Waiting, AtWork
<1>5. \A c \in Clients : client[c].pc = "idle" BY DEF Init
<1>6. ASSUME NEW d \in Clients PROVE AutoInv(d)
  BY <1>1, <1>4 DEF AutoInv, AloneLive, DeploysOwn, NoneAlike, InfoComplete, StopsRest
<1> QED BY <1>5, <1>6 DEF AutoStops, InfoAsked

\* One user who deploys with devrun and waits for the answers never has two
\* instances of a plain workload: the list that INFO answers is complete, each
\* STOP of it has ended before the next request, and the message of the new
\* instance is the only one there is, whatever the other users stop, list or
\* put in lame duck mode meanwhile.
THEOREM AutoStopKeepsOne == Spec => []AutoStopReplaces
<1>1. AutoStops => AutoStopReplaces
  BY DEF AutoStops, AutoInv, AloneLive, AutoStopReplaces, Alike
<1> QED BY <1>1, InitChains, InitPosts, InitRefuse, InitAuto, TypeInvHolds, ChainInvStep,
           PostInvStep, KinInvStep, RefuseInvStep, AutoStopsStep, PTL DEF Spec
=============================================================================
