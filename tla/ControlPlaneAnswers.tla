------------------------- MODULE ControlPlaneAnswers -------------------------
(***************************************************************************)
(* StopIsFinal and RefusedLeavesNothing of ControlPlane, for any number of *)
(* users, agents, jobs and worlds: what users are told stays true.         *)
(*                                                                         *)
(* For the first, a chain has a second message or process only if its job is*)
(* essential.  The second follows a chain of deployments from its message to*)
(* its process: when a user has heard no, or is about to, the chain carries*)
(* no job of a valid issuer any more.                                      *)
(***************************************************************************)
EXTENDS ControlPlaneProofs

\* Most leaves are first-order; the rest is arithmetic or records.
USE ZenonT(3), SMT

\* A message for which there is no process yet.
Waiting == Elems(deploys) \cup (IF AtWork THEN {dh.msg} ELSE {})

\* Messages and processes of one chain are for the same job, an essential one.
KinInv ==
    /\ \A m \in Waiting : m.essential => m.job.essential
    /\ \A i \in Used : req[i].essential => req[i].job.essential
    /\ \A i \in Used : \A m \in Waiting :
          m.chain = req[i].chain => m.job = req[i].job /\ m.job.essential
    /\ \A i, k \in Used :
          i # k /\ req[i].chain = req[k].chain
             => req[i].job = req[k].job /\ req[i].job.essential
    /\ \A i \in Used : Begun(client, req[i].chain)

LEMMA UsedTyped ==
    ASSUME TypeInv
    PROVE  \A i \in Used : i \in Ids /\ req[i] \in DeployMsg /\ req[i].chain \in Chains
<1>1. \A i \in Used : i \in Ids /\ req[i] \in DeployMsg BY DEF Used, TypeInv, WorkTypes
<1>2. \A m \in DeployMsg : m.chain \in Chains BY DEF DeployMsg
<1> QED BY <1>1, <1>2

LEMMA NoneIsNoRequest == None \notin DeployMsg
BY ControlPlaneAssumption

\* What happens to requests that stay: at most their flag is cleared.
SameRequests(rq, rr, S) ==
    \A i \in S : /\ rr[i].job = rq[i].job /\ rr[i].chain = rq[i].chain
                 /\ rr[i].essential => rq[i].essential

LEMMA KinFrame ==
    ASSUME TypeInv, KinInv, Used' = Used, SameRequests(req, req', Used),
           \A ch \in Chains : Begun(client, ch) => Begun(client', ch),
           \A m \in Waiting' :
              \/ m \in Waiting
              \/ /\ m.essential => m.job.essential
                 /\ \A i \in Used : m.chain = req[i].chain
                                      => m.job = req[i].job /\ m.job.essential
    PROVE  KinInv'
<1>1. \A m \in Waiting' : m.essential => m.job.essential BY DEF KinInv
<1>2. \A i \in Used' : req'[i].essential => req'[i].job.essential
  BY DEF KinInv, SameRequests
<1>3. \A i \in Used' : \A m \in Waiting' :
        m.chain = req'[i].chain => m.job = req'[i].job /\ m.job.essential
  BY DEF KinInv, SameRequests
<1>4. \A i, k \in Used' : i # k /\ req'[i].chain = req'[k].chain
        => req'[i].job = req'[k].job /\ req'[i].job.essential
  BY DEF KinInv, SameRequests
<1>5. \A i \in Used' : Begun(client', req'[i].chain)
  BY UsedTyped DEF KinInv, SameRequests
<1> QED BY <1>1, <1>2, <1>3, <1>4, <1>5 DEF KinInv

\* The requests are the same after every step but DeployWorkload.
LEMMA RequestsStay ==
    ASSUME TypeInv, TypeInv', [Next]_vars, ~DeployWorkload
    PROVE  Used' = Used /\ SameRequests(req, req', Used)
<1>1. ASSUME UNCHANGED req PROVE Used' = Used /\ SameRequests(req, req', Used)
  BY <1>1 DEF Used, SameRequests
<1>2. CASE ClearEssential
  <2>1. req' = [i \in Ids |-> IF i \in filed THEN [req[i] EXCEPT !.essential = FALSE]
                              ELSE req[i]]
    BY <1>2 DEF ClearEssential
  <2>2. \A r \in DeployMsg : LET s == [r EXCEPT !.essential = FALSE]
                             IN  s \in DeployMsg /\ s.job = r.job /\ s.chain = r.chain /\ ~s.essential
    BY DEF DeployMsg
  <2>3. ASSUME NEW i \in Ids
        PROVE  /\ req'[i] = None <=> req[i] = None
               /\ req[i] # None => /\ req'[i].job = req[i].job /\ req'[i].chain = req[i].chain
                                   /\ req'[i].essential => req[i].essential
    <3>1. CASE i \in filed
      <4>1. req[i] \in DeployMsg BY <3>1 DEF TypeInv, WorkTypes, Requested
      <4> QED BY <2>1, <2>2, <3>1, <4>1, ControlPlaneAssumption
    <3>2. CASE i \notin filed BY <2>1, <3>2
    <3> QED BY <3>1, <3>2
  <2> QED BY <2>3 DEF Used, SameRequests
<1>3. ASSUME NEW i \in Ids, EventStep(i) PROVE Used' = Used /\ SameRequests(req, req', Used)
  <2>1. CASE req' = [req EXCEPT ![i].retries = @ + 1]
    <3>1. req[i] \in DeployMsg BY <1>3, EventMoves
    <3>2. \A r \in DeployMsg : LET s == [r EXCEPT !.retries = @ + 1]
                               IN  /\ s \in DeployMsg /\ s.job = r.job /\ s.chain = r.chain
                                   /\ s.essential = r.essential
      BY DEF DeployMsg
    <3>3. req'[i] = [req[i] EXCEPT !.retries = @ + 1] /\ \A k \in Ids \ {i} : req'[k] = req[k]
      BY <2>1 DEF TypeInv, WorkTypes
    <3>4. req[i] # None /\ req'[i] # None /\ req'[i].job = req[i].job
          /\ req'[i].chain = req[i].chain /\ req'[i].essential = req[i].essential
      BY <3>1, <3>2, <3>3, NoneIsNoRequest
    <3>5. Used' = Used BY <3>3, <3>4 DEF Used
    <3> QED BY <3>3, <3>4, <3>5 DEF Used, SameRequests
  <2> QED BY <1>1, <1>3, <2>1, EventMoves
<1>4. ASSUME NEW c \in Clients, UserStep(c) \/ Question(c) PROVE UNCHANGED req
  BY <1>4, UserEffect, QuestionTyped DEF clientFrame, questionFrame, workVars
<1>5. DeployStep => UNCHANGED req
  BY DEF DeployStep, HandleDeploy, CacheWorkload, NoAgent, DeployAccepted, DeployRejected,
         DeployTimesOut, StopProcess, KillFails, workVars
<1>6. StopStep => UNCHANGED req
  BY DEF StopStep, HandleStop, StopUndeploys, StopWorkload, StopProcess, KillFails, workVars
<1>7. EnterLameDuck \/ Tick \/ UNCHANGED vars => UNCHANGED req
  BY DEF EnterLameDuck, Tick, vars, workVars
<1> QED BY <1>1, <1>2, <1>3, <1>4, <1>5, <1>6, <1>7, WorkloadMoves DEF Next, LameDuckStep

\* A user's new request has a chain of its own.
LEMMA NewChain ==
    ASSUME TypeInv, NEW c \in Clients, client[c].pc # "starting", NEW m,
           m = NewDeployRequest(c, client[c].n + 1, Cmd(c).job)
    PROVE  /\ m.chain = <<c, client[c].done + 1>> /\ ~Begun(client, m.chain)
           /\ m.job = Cmd(c).job /\ m.essential = m.job.essential
           /\ m.from = c /\ m.n = client[c].n + 1
<1>1. /\ m.chain = <<c, client[c].done + 1>>
      /\ m.job = Cmd(c).job /\ m.essential = m.job.essential
      /\ m.from = c /\ m.n = client[c].n + 1
  BY DEF NewDeployRequest
<1>2. client[c].done \in Nat BY DEF TypeInv, UserTypes, Shell
<1>3. ~Begun(client, m.chain) BY <1>1, <1>2 DEF Begun
<1> QED BY <1>1, <1>3

LEMMA UserKin ==
    ASSUME TypeInv, TypeInv', KinInv, NEW c \in Clients, UserStep(c)
    PROVE  KinInv'
<1>1. UNCHANGED <<dh, req>> BY UserEffect DEF clientFrame, workVars
<1>2. Used' = Used /\ SameRequests(req, req', Used) BY <1>1 DEF Used, SameRequests
<1>3. \A ch \in Chains : Begun(client, ch) => Begun(client', ch) BY UserBegun
<1>4. CASE UNCHANGED deploys
  <2>1. Waiting' = Waiting BY <1>1, <1>4 DEF Waiting, AtWork
  <2> QED BY <1>2, <1>3, <2>1, KinFrame
<1>5. CASE AsksDeploy(c) /\ client[c].pc # "starting"
  <2> DEFINE m == NewDeployRequest(c, client[c].n + 1, Cmd(c).job)
  <2>1. deploys' = Append(deploys, m) BY <1>5 DEF AsksDeploy
  <2>2. m.essential = m.job.essential /\ ~Begun(client, m.chain) BY <1>5, NewChain
  <2> HIDE DEF m
  <2>3. Elems(deploys') = Elems(deploys) \cup {m}
    BY <2>1, AppendElems DEF TypeInv, HandlerTypes
  <2>4. Waiting' = Waiting \cup {m} BY <1>1, <2>3 DEF Waiting, AtWork
  <2>5. \A i \in Used : m.chain # req[i].chain BY <2>2 DEF KinInv
  <2> QED BY <1>2, <1>3, <2>2, <2>4, <2>5, KinFrame
<1> QED BY <1>4, <1>5, UserBegun

\* handleDeploy takes messages and makes none.
LEMMA DeployWaiting ==
    ASSUME TypeInv, DeployStep, ~DeployWorkload
    PROVE  Waiting' \subseteq Waiting
<1>1. CASE HandleDeploy
  <2>1. deploys' = Tail(deploys) /\ deploys # <<>> BY <1>1 DEF HandleDeploy
  <2>2. dh' = NoMsg \/ dh' = [pc |-> "caching", msg |-> Head(deploys), id |-> None]
    BY <1>1 DEF HandleDeploy, DeployFails
  <2>3. ~AtWork' \/ dh'.msg = Head(deploys) BY <2>2 DEF NoMsg, AtWork
  <2>4. Elems(deploys') \subseteq Elems(deploys) /\ Head(deploys) \in Elems(deploys)
    BY <2>1, TailElems DEF TypeInv, HandlerTypes
  <2> QED BY <2>3, <2>4 DEF Waiting
<1>2. CASE ~HandleDeploy
  <2>1. UNCHANGED deploys
    BY <1>2 DEF DeployStep, CacheWorkload, DeployWorkload, NoAgent, DeployAccepted,
                DeployRejected, DeployTimesOut, queueVars
  <2>2. AtWork' => AtWork /\ dh'.msg = dh.msg
    <3>1. CASE CacheWorkload
      <4>1. AtWork BY <3>1 DEF CacheWorkload, AtWork
      <4>2. dh' = NoMsg \/ dh' = dh \/ dh' = [dh EXCEPT !.pc = "deploying"]
        BY <3>1 DEF CacheWorkload, DeployFails
      <4>3. [dh EXCEPT !.pc = "deploying"].msg = dh.msg BY DEF TypeInv, HandlerTypes
      <4>4. AtWork' => dh' # NoMsg BY DEF NoMsg, AtWork
      <4>5. ASSUME AtWork' PROVE dh'.msg = dh.msg BY <4>2, <4>3, <4>4, <4>5
      <4> QED BY <4>1, <4>5
    <3>2. CASE ~CacheWorkload
      <4>1. dh' = NoMsg
        BY <1>2, <3>2 DEF DeployStep, NoAgent, DeployAccepted, DeployRejected,
                          DeployTimesOut, DeployFails
      <4> QED BY <4>1 DEF NoMsg, AtWork
    <3> QED BY <3>1, <3>2
  <2> QED BY <2>1, <2>2 DEF Waiting
<1> QED BY <1>1, <1>2

LEMMA DeployKin ==
    ASSUME TypeInv, TypeInv', KinInv, DeployStep, ~DeployWorkload
    PROVE  KinInv'
<1>1. client' = client BY DeployMoves
<1>2. Used' = Used /\ SameRequests(req, req', Used) BY RequestsStay DEF Next
<1>3. Waiting' \subseteq Waiting BY DeployWaiting
<1> QED BY <1>1, <1>2, <1>3, KinFrame

\* DeployWorkload files the message at hand under a new id.
LEMMA DeployFiles ==
    ASSUME TypeInv, DeployWorkload
    PROVE  \E i \in Ids :
              /\ NextId(i) /\ i \notin Used /\ Used' = Used \cup {i}
              /\ AtWork /\ ~AtWork' /\ dh'.pc = "sent" /\ dh'.id = i /\ dh'.msg = dh.msg
              /\ req'[i] = dh.msg /\ proc'[i] = "prepared"
              /\ \A k \in Ids \ {i} : req'[k] = req[k] /\ proc'[k] = proc[k]
              /\ live' = live \cup {i} /\ filed' = filed \cup {i}
              /\ UNCHANGED <<world, client, answer, deploys, ev, refused, toldStopped>>
<1>1. UNCHANGED <<world, client, answer, deploys, ev, refused, toldStopped>> /\ AtWork
  BY DEF DeployWorkload, clientVars, queueVars, AtWork
<1>2. PICK i \in Ids : /\ NextId(i)
                       /\ req' = [req EXCEPT ![i] = dh.msg]
                       /\ proc' = [proc EXCEPT ![i] = "prepared"]
                       /\ dh' = [dh EXCEPT !.pc = "sent", !.id = i]
                       /\ live' = live \cup {i} /\ filed' = filed \cup {i}
  BY DEF DeployWorkload
<1>3. dh'.pc = "sent" /\ dh'.id = i /\ dh'.msg = dh.msg BY <1>2 DEF TypeInv, HandlerTypes
<1>4. req'[i] = dh.msg /\ proc'[i] = "prepared"
      /\ \A k \in Ids \ {i} : req'[k] = req[k] /\ proc'[k] = proc[k]
  BY <1>2 DEF TypeInv, WorkTypes
<1>5. dh.msg # None BY <1>1, ChainTyped, NoneIsNoRequest
<1>6. i \notin Used /\ Used' = Used \cup {i} BY <1>2, <1>4, <1>5 DEF Used, NextId
<1>7. ~AtWork' BY <1>3 DEF AtWork
<1> QED BY <1>1, <1>2, <1>3, <1>4, <1>6, <1>7

LEMMA DeployWorkloadKin ==
    ASSUME TypeInv, TypeInv', ChainInv, KinInv, DeployWorkload
    PROVE  KinInv'
<1>1. PICK i \in Ids :
         /\ i \notin Used /\ Used' = Used \cup {i} /\ AtWork /\ ~AtWork'
         /\ req'[i] = dh.msg /\ \A k \in Ids \ {i} : req'[k] = req[k]
         /\ UNCHANGED <<client, deploys>>
  BY DeployFiles
<1>2. Waiting' = Elems(deploys) /\ Waiting = Elems(deploys) \cup {dh.msg}
  BY <1>1 DEF Waiting
<1>3. \A k \in Used : k \in Ids \ {i} BY <1>1 DEF Used
<1>4. \A m \in Elems(deploys) : m.chain # dh.msg.chain
  BY <1>1 DEF ChainInv, HandlerApart, Elems
<1>5. Begun(client', req'[i].chain) BY <1>1 DEF ChainInv, AllBegun
<1>6. \A m \in Waiting' : m.essential => m.job.essential BY <1>2 DEF KinInv
<1>7. \A k \in Used' : req'[k].essential => req'[k].job.essential
  BY <1>1, <1>2, <1>3 DEF KinInv
<1>8. \A k \in Used' : \A m \in Waiting' :
        m.chain = req'[k].chain => m.job = req'[k].job /\ m.job.essential
  BY <1>1, <1>2, <1>3, <1>4 DEF KinInv
<1>9. \A k \in Used : dh.msg.chain = req[k].chain => dh.msg.job = req[k].job /\ dh.msg.job.essential
  BY <1>2 DEF KinInv
<1>10. ASSUME NEW j \in Used', NEW k \in Used', j # k, req'[j].chain = req'[k].chain
       PROVE  req'[j].job = req'[k].job /\ req'[j].job.essential
  <2>1. CASE j = i
    <3>1. k \in Used /\ req'[k] = req[k] /\ req'[j] = dh.msg BY <1>1, <1>3, <1>10, <2>1
    <3> QED BY <1>9, <1>10, <3>1
  <2>2. CASE k = i
    <3>1. j \in Used /\ req'[j] = req[j] /\ req'[k] = dh.msg BY <1>1, <1>3, <1>10, <2>2
    <3> QED BY <1>9, <1>10, <3>1
  <2>3. CASE j # i /\ k # i
    <3>1. j \in Used /\ k \in Used /\ req'[j] = req[j] /\ req'[k] = req[k]
      BY <1>1, <1>3, <1>10, <2>3
    <3> QED BY <1>10, <3>1 DEF KinInv
  <2> QED BY <2>1, <2>2, <2>3
<1>11. \A k \in Used' : Begun(client', req'[k].chain) BY <1>1, <1>3, <1>5 DEF KinInv
<1> QED BY <1>6, <1>7, <1>8, <1>10, <1>11 DEF KinInv

LEMMA EventKin ==
    ASSUME TypeInv, TypeInv', KinInv, NEW i \in Ids, EventStep(i)
    PROVE  KinInv'
<1>0. ~DeployWorkload
  <2>1. DeployWorkload => AtWork /\ ~AtWork' BY DeployFiles
  <2> QED BY <2>1, EventMoves DEF AtWork
<1>1. UNCHANGED <<client, dh>> BY EventMoves
<1>2. Used' = Used /\ SameRequests(req, req', Used)
  BY RequestsStay, <1>0 DEF Next
<1>3. CASE UNCHANGED deploys
  <2>1. Waiting' = Waiting BY <1>1, <1>3 DEF Waiting, AtWork
  <2> QED BY <1>1, <1>2, <2>1, KinFrame
<1>4. CASE deploys' = Append(deploys, Again(i)) /\ Redeploys(i)
  <2>1. req[i] \in DeployMsg BY EventMoves
  <2>2. Again(i).chain = req[i].chain /\ Again(i).job = req[i].job
        /\ Again(i).essential = req[i].essential
    BY <2>1, AgainFields
  <2>3. i \in Used BY <2>1, NoneIsNoRequest DEF Used
  <2>4. req[i].essential /\ req[i].job.essential BY <1>4, <2>3 DEF Redeploys, KinInv
  <2>5. Elems(deploys') = Elems(deploys) \cup {Again(i)}
    BY <1>4, AppendElems DEF TypeInv, HandlerTypes
  <2>6. Waiting' = Waiting \cup {Again(i)} BY <1>1, <2>5 DEF Waiting, AtWork
  <2>7. \A k \in Used : Again(i).chain = req[k].chain
           => Again(i).job = req[k].job /\ Again(i).job.essential
    BY <2>2, <2>3, <2>4 DEF KinInv
  <2>8. Again(i).essential => Again(i).job.essential BY <2>2, <2>4
  <2> QED BY <1>1, <1>2, <2>6, <2>7, <2>8, KinFrame
<1> QED BY <1>3, <1>4, EventMoves

LEMMA KinInvStep == TypeInv /\ TypeInv' /\ ChainInv /\ PostInv /\ KinInv /\ [Next]_vars => KinInv'
<1> SUFFICES ASSUME TypeInv, TypeInv', ChainInv, PostInv, KinInv, [Next]_vars PROVE KinInv'
  OBVIOUS
<1>1. ASSUME UNCHANGED <<client, deploys, dh>>, ~DeployWorkload PROVE KinInv'
  <2>1. Waiting' = Waiting BY <1>1 DEF Waiting, AtWork
  <2> QED BY <1>1, <2>1, RequestsStay, KinFrame
<1>2. UNCHANGED <<deploys, dh>> => ~DeployWorkload
  <2>1. DeployWorkload => AtWork /\ ~AtWork' BY DeployFiles
  <2> QED BY <2>1 DEF AtWork
<1>3. ASSUME NEW c \in Clients, Question(c) PROVE KinInv'
  BY <1>1, <1>2, <1>3, QuestionTyped DEF questionFrame, clientVars, queueVars
<1>4. StopStep => KinInv' BY <1>1, <1>2, StopMoves DEF PostInv
<1>5. LameDuckStep => KinInv' BY <1>1, <1>2, LameMoves
<1>6. ASSUME NEW i \in Ids, AgentDeploys(i) \/ \E code \in {0, 1} : WorkloadExits(i, code)
      PROVE  KinInv'
  BY <1>1, <1>2, <1>6, WorkloadMoves
<1>7. Tick \/ UNCHANGED vars => KinInv'
  BY <1>1, <1>2 DEF Tick, vars, clientVars, queueVars
<1> QED BY <1>3, <1>4, <1>5, <1>6, <1>7, UserKin, DeployKin, DeployWorkloadKin, EventKin DEF Next

LEMMA InitPosts == Init => PostInv /\ StopInv /\ KinInv
<1> SUFFICES ASSUME Init PROVE PostInv /\ StopInv /\ KinInv
  OBVIOUS
<1>1. deploys = <<>> /\ stops = <<>> /\ lames = <<>> /\ lh = None BY DEF Init
<1>2. dh.pc = "idle" /\ sh.pc = "idle" BY DEF Init, NoMsg
<1>3. Elems(<<>>) = {} BY DEF Elems
<1>4. PostInv BY <1>1, <1>2, <1>3 DEF PostInv, Deploying, Stopping, Laming
<1>5. StopInv BY DEF Init, StopInv
<1>6. Used = {} BY DEF Init, Used
<1>7. Waiting = {} BY <1>1, <1>2, <1>3 DEF Waiting, AtWork
<1>8. KinInv BY <1>6, <1>7 DEF KinInv
<1> QED BY <1>4, <1>5, <1>8

\* A user who was told that a workload is stopped was told the truth and for
\* good: it neither runs nor is listed, and no instance of it comes later
\* unless it was essential - for any number of users, requests and crashes.
THEOREM ToldStoppedIsStopped == Spec => []StopIsFinal
<1>1. TypeInv /\ StopInv /\ KinInv => StopIsFinal
  <2> SUFFICES ASSUME TypeInv, StopInv, KinInv, NEW i \in toldStopped
               PROVE  /\ i \notin live /\ proc[i] # "running"
                      /\ ~req[i].job.essential
                            => ~\E k \in Used : k > i /\ ChainOf(k) = ChainOf(i)
    BY DEF StopIsFinal
  <2>1. i \in Ids /\ i \notin live /\ proc[i] \in {"ended", "killed"} BY DEF StopInv, Stopped
  <2>2. i \in Used BY <2>1, NoneIsNoRequest DEF TypeInv, Requested, WorkTypes, Used
  <2>3. ASSUME NEW k \in Used, k > i, ChainOf(k) = ChainOf(i) PROVE req[i].job.essential
    <3>1. k # i BY <2>1, <2>3, ControlPlaneAssumption DEF Used
    <3> QED BY <2>2, <2>3, <3>1 DEF KinInv, ChainOf
  <2> QED BY <2>1, <2>3
<1> QED BY <1>1, InitChains, InitPosts, TypeInvHolds, ChainInvStep, PostInvStep, StopInvStep,
           KinInvStep, PTL DEF Spec

(***************************************************************************)
(* RefusedLeavesNothing.                                                   *)
(***************************************************************************)

\* The jobs for which the chain has a message that waits, or a process.
Carried(ch) ==
    {m.job : m \in {m \in Waiting : m.chain = ch}}
    \cup {req[i].job : i \in {i \in Ids : Holds(i) /\ req[i].chain = ch}}

\* No process but the one that DeployWorkload starts comes to hold its chain.
LEMMA HoldsStays ==
    ASSUME TypeInv, ChainInv, [Next]_vars, ~DeployWorkload, NEW i \in Ids, Holds(i)'
    PROVE  Holds(i)
<1>1. ASSUME UNCHANGED <<proc, ev>> PROVE Holds(i) BY <1>1 DEF Holds
<1>2. ASSUME NEW k \in Ids, StopProcess(k) \/ KillFails(k), UNCHANGED ev PROVE Holds(i)
  BY <1>2, StopChains
<1>3. CASE UNCHANGED vars \/ Tick BY <1>1, <1>3 DEF vars, Tick, workVars
<1>4. ASSUME NEW c \in Clients, UserStep(c) \/ Question(c) PROVE Holds(i)
  <2>1. UserStep(c) => clientFrame BY UserEffect
  <2>2. Question(c) => questionFrame BY QuestionTyped
  <2> QED BY <1>1, <1>4, <2>1, <2>2 DEF clientFrame, questionFrame, workVars
<1>5. CASE DeployStep
  <2>1. UNCHANGED ev BY <1>5, DeployMoves
  <2>2. CASE DeployRejected
    <3>1. dh.id \in Ids BY <2>2 DEF DeployRejected, TypeInv, HandlerTypes
    <3> QED BY <1>2, <2>1, <2>2, <3>1 DEF DeployRejected
  <2>3. CASE ~DeployRejected
    <3>1. UNCHANGED proc
      BY <1>5, <2>3 DEF DeployStep, HandleDeploy, CacheWorkload, NoAgent, DeployAccepted,
                        DeployTimesOut, workVars
    <3> QED BY <1>1, <2>1, <3>1
  <2> QED BY <2>2, <2>3
<1>6. CASE StopStep
  <2>1. UNCHANGED ev BY <1>6 DEF StopStep, HandleStop, StopUndeploys, StopWorkload
  <2>2. CASE StopWorkload
    <3>1. sh.id \in Ids BY <2>2 DEF StopWorkload, TypeInv, HandlerTypes
    <3> QED BY <1>2, <2>1, <2>2, <3>1 DEF StopWorkload
  <2>3. CASE HandleStop \/ StopUndeploys
    <3>1. UNCHANGED proc BY <2>3 DEF HandleStop, StopUndeploys, workVars
    <3> QED BY <1>1, <2>1, <3>1
  <2> QED BY <1>6, <2>2, <2>3 DEF StopStep
<1>7. CASE LameDuckStep BY <1>1, <1>7, LameMoves
<1>8. ASSUME NEW k \in Ids, AgentDeploys(k) \/ \E code \in {0, 1} : WorkloadExits(k, code)
      PROVE  Holds(i)
  <2>1. Holds(k) BY <1>8 DEF AgentDeploys, WorkloadExits, Holds
  <2>2. \A l \in Ids \ {k} : proc'[l] = proc[l] /\ ev'[l] = ev[l]
    BY <1>8 DEF AgentDeploys, WorkloadExits, TypeInv, WorkTypes, EventTypes
  <2> QED BY <2>1, <2>2 DEF Holds
<1>9. ASSUME NEW k \in Ids, EventStep(k) PROVE Holds(i)
  <2>1. PICK pc \in EventPcs : EventGoes(k, pc) /\
           (pc \in {"pending", "stopping", "locking", "stopped"} =>
               ev[k].pc \in {"pending", "stopping", "locking", "stopped"})
    BY <1>9 DEF EventStep, AgentEvent, EventLocks, EventStops, EventDecides, EventAnswered,
                EventPcs
  <2>2. (\A l \in Ids \ {k} : ev'[l] = ev[l]) /\ ev'[k].pc = pc
    BY <2>1, EventGoesTyped DEF TypeInv
  <2>3. \A l \in Ids : proc'[l] = proc[l] \/ proc'[l] = "killed"
    BY <1>9 DEF EventStep, AgentEvent, EventLocks, EventStops, EventDecides, EventAnswered,
           StopProcess, KillFails, workVars, TypeInv, WorkTypes
  <2> QED BY <2>1, <2>2, <2>3 DEF Holds
<1> QED BY <1>3, <1>4, <1>5, <1>6, <1>7, <1>8, <1>9 DEF Next

\* Only agentEvent and a user's new request make messages.
LEMMA WaitingStays ==
    ASSUME TypeInv, TypeInv', PostInv, [Next]_vars, ~DeployWorkload, NEW m \in Waiting'
    PROVE  \/ m \in Waiting
           \/ ~Begun(client, m.chain)
           \/ \E i \in Ids : Holds(i) /\ m.chain = req[i].chain /\ m.job = req[i].job
<1>1. ASSUME UNCHANGED <<deploys, dh>> PROVE m \in Waiting BY <1>1 DEF Waiting, AtWork
<1>2. CASE UNCHANGED vars \/ Tick BY <1>1, <1>2 DEF vars, Tick, queueVars
<1>3. ASSUME NEW c \in Clients, UserStep(c) PROVE m \in Waiting \/ ~Begun(client, m.chain)
  <2>1. UNCHANGED dh BY <1>3, UserEffect DEF clientFrame
  <2>2. CASE UNCHANGED deploys BY <1>1, <2>1, <2>2
  <2>3. CASE AsksDeploy(c) /\ client[c].pc # "starting"
    <3> DEFINE n == NewDeployRequest(c, client[c].n + 1, Cmd(c).job)
    <3>1. deploys' = Append(deploys, n) BY <2>3 DEF AsksDeploy
    <3>2. ~Begun(client, n.chain) BY <2>3, NewChain
    <3> HIDE DEF n
    <3>3. Elems(deploys') = Elems(deploys) \cup {n}
      BY <3>1, AppendElems DEF TypeInv, HandlerTypes
    <3>4. Waiting' = Waiting \cup {n} BY <2>1, <3>3 DEF Waiting, AtWork
    <3> QED BY <3>2, <3>4
  <2> QED BY <1>3, <2>2, <2>3, UserBegun
<1>4. ASSUME NEW c \in Clients, Question(c) PROVE m \in Waiting
  BY <1>1, <1>4, QuestionTyped DEF questionFrame, queueVars
<1>5. DeployStep => m \in Waiting BY DeployWaiting
<1>6. StopStep => m \in Waiting BY <1>1, StopMoves DEF PostInv
<1>7. LameDuckStep => m \in Waiting BY <1>1, LameMoves
<1>8. ASSUME NEW i \in Ids, EventStep(i)
      PROVE  m \in Waiting \/ (Holds(i) /\ m.chain = req[i].chain /\ m.job = req[i].job)
  <2>1. UNCHANGED dh /\ req[i] \in DeployMsg BY <1>8, EventMoves
  <2>2. CASE UNCHANGED deploys BY <1>1, <2>1, <2>2
  <2>3. CASE deploys' = Append(deploys, Again(i)) /\ ev[i].pc = "stopped"
    <3>1. Again(i).chain = req[i].chain /\ Again(i).job = req[i].job BY <2>1, AgainFields
    <3>2. Holds(i) BY <2>3 DEF Holds
    <3>3. Elems(deploys') = Elems(deploys) \cup {Again(i)}
      BY <2>3, AppendElems DEF TypeInv, HandlerTypes
    <3>4. Waiting' = Waiting \cup {Again(i)} BY <2>1, <3>3 DEF Waiting, AtWork
    <3> QED BY <3>1, <3>2, <3>4
  <2> QED BY <1>8, <2>2, <2>3, EventMoves
<1>9. ASSUME NEW i \in Ids, AgentDeploys(i) \/ \E code \in {0, 1} : WorkloadExits(i, code)
      PROVE  m \in Waiting
  BY <1>1, <1>9, WorkloadMoves
<1> QED BY <1>2, <1>3, <1>4, <1>5, <1>6, <1>7, <1>8, <1>9 DEF Next

\* What a chain that was begun stands for stays the same.
LEMMA CarriedStays ==
    ASSUME TypeInv, TypeInv', ChainInv, PostInv, [Next]_vars, NEW ch, Begun(client, ch)
    PROVE  Carried(ch)' \subseteq Carried(ch)
<1>1. CASE DeployWorkload
  <2>1. PICK i \in Ids :
           /\ AtWork /\ ~AtWork' /\ req'[i] = dh.msg
           /\ \A k \in Ids \ {i} : req'[k] = req[k] /\ proc'[k] = proc[k]
           /\ UNCHANGED <<deploys, ev>>
    BY <1>1, DeployFiles
  <2>2. Waiting' \subseteq Waiting /\ dh.msg \in Waiting BY <2>1 DEF Waiting
  <2>3. \A k \in Ids \ {i} : Holds(k)' => Holds(k) BY <2>1 DEF Holds
  <2>4. ASSUME NEW k \in Ids, Holds(k)', req'[k].chain = ch PROVE req'[k].job \in Carried(ch)
    BY <2>1, <2>2, <2>3, <2>4 DEF Carried
  <2>5. ASSUME NEW m \in Waiting', m.chain = ch PROVE m.job \in Carried(ch)
    BY <2>2, <2>5 DEF Carried
  <2> QED BY <2>4, <2>5 DEF Carried
<1>2. CASE ~DeployWorkload
  <2>1. ASSUME NEW k \in Ids, Holds(k)', req'[k].chain = ch PROVE req'[k].job \in Carried(ch)
    <3>1. Holds(k) BY <1>2, <2>1, HoldsStays
    <3>2. k \in Used BY <3>1, ChainTyped, NoneIsNoRequest DEF Used
    <3>3. req'[k].chain = req[k].chain /\ req'[k].job = req[k].job
      BY <1>2, <3>2, RequestsStay DEF SameRequests
    <3> QED BY <2>1, <3>1, <3>3 DEF Carried
  <2>2. ASSUME NEW m \in Waiting', m.chain = ch PROVE m.job \in Carried(ch)
    <3>1. \/ m \in Waiting
          \/ \E i \in Ids : Holds(i) /\ m.chain = req[i].chain /\ m.job = req[i].job
      BY <1>2, <2>2, WaitingStays
    <3> QED BY <2>2, <3>1 DEF Carried
  <2> QED BY <2>1, <2>2 DEF Carried
<1> QED BY <1>1, <1>2

Faultless == world.faults \cap {"agentTimeout", "noHandshake", "killFails"} = {}

\* A process is listed while it works for its request, or until agentEvent has
\* stopped it.
LiveInv ==
    \A i \in live :
        /\ i \in filed
        /\ \/ proc[i] \in {"prepared", "running", "refused"}
           \/ proc[i] = "ended" /\ ev[i].pc \in {"pending", "stopping", "locking"}

LEMMA WorldStays == TypeInv /\ PostInv /\ [Next]_vars => world' = world
<1> SUFFICES ASSUME TypeInv, PostInv, [Next]_vars PROVE world' = world
  OBVIOUS
<1>1. ASSUME NEW c \in Clients, UserStep(c) \/ Question(c) PROVE world' = world
  BY <1>1, UserEffect, QuestionTyped DEF clientFrame, questionFrame
<1>2. StopStep => world' = world BY StopMoves DEF PostInv
<1> QED BY <1>1, <1>2, DeployMoves, LameMoves, EventMoves, WorkloadMoves DEF Next, Tick, vars

LEMMA LiveInvStep ==
    ASSUME TypeInv, ChainInv, Faultless, LiveInv, [Next]_vars
    PROVE  LiveInv'
<1>1. ASSUME UNCHANGED <<filed, live, proc, ev>> PROVE LiveInv' BY <1>1 DEF LiveInv
<1>2. ASSUME NEW k \in Ids, StopProcess(k) \/ KillFails(k), UNCHANGED ev PROVE LiveInv'
  <2>1. StopProcess(k) BY <1>2 DEF KillFails, Faultless
  <2>2. live' = live \ {k} /\ filed' = filed \ {k} /\ \A i \in Ids \ {k} : proc'[i] = proc[i]
    BY <2>1 DEF StopProcess, TypeInv, WorkTypes
  <2> QED BY <1>2, <2>2 DEF LiveInv, TypeInv, WorkTypes
<1>3. CASE UNCHANGED vars \/ Tick BY <1>1, <1>3 DEF vars, Tick, workVars
<1>4. ASSUME NEW c \in Clients, UserStep(c) \/ Question(c) PROVE LiveInv'
  <2>1. UserStep(c) => clientFrame BY UserEffect
  <2>2. Question(c) => questionFrame BY QuestionTyped
  <2> QED BY <1>1, <1>4, <2>1, <2>2 DEF clientFrame, questionFrame, workVars
<1>5. CASE DeployStep
  <2>1. UNCHANGED ev BY <1>5, DeployMoves
  <2>2. CASE DeployRejected
    <3>1. dh.id \in Ids BY <2>2 DEF DeployRejected, TypeInv, HandlerTypes
    <3> QED BY <1>2, <2>1, <2>2, <3>1 DEF DeployRejected
  <2>3. CASE DeployWorkload
    <3>1. PICK i \in Ids :
             /\ proc'[i] = "prepared" /\ \A k \in Ids \ {i} : proc'[k] = proc[k]
             /\ live' = live \cup {i} /\ filed' = filed \cup {i}
      BY <2>3, DeployFiles
    <3> QED BY <2>1, <3>1 DEF LiveInv, TypeInv, WorkTypes
  <2>4. CASE ~DeployRejected /\ ~DeployWorkload
    <3>1. UNCHANGED <<filed, live, proc>>
      BY <1>5, <2>4 DEF DeployStep, HandleDeploy, CacheWorkload, NoAgent, DeployAccepted,
                        DeployTimesOut, workVars
    <3> QED BY <1>1, <2>1, <3>1
  <2> QED BY <2>2, <2>3, <2>4
<1>6. CASE StopStep
  <2>1. UNCHANGED ev BY <1>6 DEF StopStep, HandleStop, StopUndeploys, StopWorkload
  <2>2. CASE StopWorkload
    <3>1. sh.id \in Ids BY <2>2 DEF StopWorkload, TypeInv, HandlerTypes
    <3> QED BY <1>2, <2>1, <2>2, <3>1 DEF StopWorkload
  <2>3. CASE HandleStop \/ StopUndeploys
    <3>1. UNCHANGED <<filed, live, proc>> BY <2>3 DEF HandleStop, StopUndeploys, workVars
    <3> QED BY <1>1, <2>1, <3>1
  <2> QED BY <1>6, <2>2, <2>3 DEF StopStep
<1>7. CASE LameDuckStep BY <1>1, <1>7, LameMoves
<1>8. ASSUME NEW k \in Ids, AgentDeploys(k) PROVE LiveInv'
  <2>1. UNCHANGED <<filed, live, ev>> BY <1>8 DEF AgentDeploys
  <2>2. proc'[k] \in {"running", "refused"} /\ \A i \in Ids \ {k} : proc'[i] = proc[i]
    BY <1>8 DEF AgentDeploys, TypeInv, WorkTypes
  <2> QED BY <2>1, <2>2 DEF LiveInv, TypeInv, WorkTypes
<1>9. ASSUME NEW k \in Ids, NEW code \in {0, 1}, WorkloadExits(k, code) PROVE LiveInv'
  <2>1. UNCHANGED <<filed, live>> BY <1>9 DEF WorkloadExits
  <2>2. proc'[k] = "ended" /\ ev'[k].pc = "pending"
        /\ \A i \in Ids \ {k} : proc'[i] = proc[i] /\ ev'[i] = ev[i]
    BY <1>9 DEF WorkloadExits, TypeInv, WorkTypes, EventTypes
  <2> QED BY <2>1, <2>2 DEF LiveInv, TypeInv, WorkTypes
<1>10. ASSUME NEW k \in Ids, EventStep(k) PROVE LiveInv'
  <2>1. ev[k].pc # "none" BY <1>10, EventMoves
  <2>2. proc[k] \notin {"prepared", "running", "refused"} BY <2>1 DEF ChainInv, EventsAfter
  <2>3. k \in live => k \in filed /\ proc[k] = "ended"
                      /\ ev[k].pc \in {"pending", "stopping", "locking"}
    BY <2>2 DEF LiveInv
  <2>4. ASSUME NEW pc \in EventPcs, EventGoes(k, pc), UNCHANGED <<filed, live, proc>>,
               k \in live => pc \in {"stopping", "locking"}
        PROVE  LiveInv'
    <3>1. (\A i \in Ids \ {k} : ev'[i] = ev[i]) /\ ev'[k].pc = pc
      BY <2>4, EventGoesTyped DEF TypeInv
    <3> QED BY <2>3, <2>4, <3>1 DEF LiveInv, TypeInv, WorkTypes
  <2>5. CASE AgentEvent(k) BY <2>3, <2>4, <2>5 DEF AgentEvent, EventPcs, workVars
  <2>6. CASE EventLocks(k) BY <2>4, <2>6 DEF EventLocks, EventPcs, workVars
  <2>7. CASE EventStops(k)
    <3>1. EventGoes(k, "stopped") /\ "stopped" \in EventPcs BY <2>7 DEF EventStops, EventPcs
    <3>2. \A i \in Ids \ {k} : ev'[i] = ev[i] BY <3>1, EventGoesTyped DEF TypeInv
    <3>3. CASE StopProcess(k)
      <4>1. live' = live \ {k} /\ filed' = filed \ {k}
            /\ \A i \in Ids \ {k} : proc'[i] = proc[i]
        BY <3>3 DEF StopProcess, TypeInv, WorkTypes
      <4> QED BY <3>2, <4>1 DEF LiveInv, TypeInv, WorkTypes
    <3>4. CASE k \notin live /\ UNCHANGED workVars
      BY <2>4, <3>1, <3>4 DEF workVars
    <3>5. ~KillFails(k) BY DEF KillFails, Faultless
    <3> QED BY <2>7, <3>3, <3>4, <3>5 DEF EventStops
  <2>8. CASE EventDecides(k)
    <3>1. k \notin live BY <2>3, <2>8 DEF EventDecides
    <3> QED BY <2>4, <2>8, <3>1 DEF EventDecides, EventPcs
  <2>9. CASE EventAnswered(k)
    <3>1. k \notin live BY <2>3, <2>9 DEF EventAnswered
    <3> QED BY <2>4, <2>9, <3>1 DEF EventAnswered, EventPcs, workVars
  <2> QED BY <1>10, <2>5, <2>6, <2>7, <2>8, <2>9 DEF EventStep
<1> QED BY <1>3, <1>4, <1>5, <1>6, <1>7, <1>8, <1>9, <1>10 DEF Next

\* The user c has the answer that the deployment failed.
HearsNo(c) == client[c].pc = "starting" /\ answer[c] # None /\ answer[c].ok = FALSE

\* A user was told, or has the answer, that the deployment failed.
HasFailed(ch) ==
    ch \in refused \/ \E c \in Clients : HearsNo(c) /\ ch = <<c, client[c].done + 1>>

NoneValid(S) == \A j \in S : ~ValidIssuer(j.issuer)

RefuseInv ==
    /\ \A ch \in refused : ch \in Chains /\ Begun(client, ch)
    /\ dh.pc = "sent" => dh.id \in Used /\ req[dh.id].chain = dh.msg.chain
    /\ Faultless => LiveInv /\ \A ch : HasFailed(ch) => NoneValid(Carried(ch))

LEMMA FailedBegun ==
    ASSUME TypeInv, RefuseInv, NEW ch, HasFailed(ch)
    PROVE  ch \in Chains /\ Begun(client, ch)
<1>1. ASSUME NEW c \in Clients, client[c].pc = "starting", ch = <<c, client[c].done + 1>>
      PROVE  ch \in Chains /\ Begun(client, ch)
  <2>1. client[c].done \in Nat BY DEF TypeInv, UserTypes, Shell
  <2> QED BY <1>1, <2>1 DEF Chains, Begun
<1> QED BY <1>1 DEF HasFailed, HearsNo, RefuseInv

\* A user hears no from handleDeploy only.
LEMMA StopAnswers ==
    ASSUME TypeInv, PostInv, StopStep, NEW c \in Clients, answer'[c] # answer[c]
    PROVE  client[c].pc = "stopping"
<1>1. ASSUME NEW m \in Stopping, NEW ok, NEW ids, Answer(m.from, m.n, ok, ids)
      PROVE  client[c].pc = "stopping"
  BY <1>1, StopAnswered
<1>2. CASE HandleStop
  <2>1. Head(stops) \in Stopping
    BY <1>2, TailElems DEF HandleStop, Stopping, TypeInv, HandlerTypes
  <2>2. Answer(Head(stops).from, Head(stops).n, FALSE, {Head(stops).id})
    BY <1>2 DEF HandleStop
  <2> QED BY <1>1, <2>1, <2>2
<1>3. CASE StopUndeploys BY <1>3 DEF StopUndeploys
<1>4. CASE StopWorkload
  <2>1. sh.msg \in Stopping BY <1>4 DEF StopWorkload, Stopping
  <2>2. \E ok, ids : Answer(sh.msg.from, sh.msg.n, ok, ids) BY <1>4 DEF StopWorkload
  <2> QED BY <1>1, <2>1, <2>2
<1> QED BY <1>2, <1>3, <1>4 DEF StopStep

LEMMA FailsNow ==
    ASSUME TypeInv, TypeInv', PostInv, [Next]_vars, NEW ch, HasFailed(ch)', ~HasFailed(ch)
    PROVE  /\ DeployStep
           /\ \E c \in Clients : answer'[c] # answer[c] /\ answer'[c].ok = FALSE
                                 /\ ch = <<c, client[c].done + 1>>
<1>1. ASSUME UNCHANGED <<client, refused>>
      PROVE  \E c \in Clients : /\ answer'[c] # answer[c] /\ answer'[c].ok = FALSE
                                /\ client[c].pc = "starting" /\ ch = <<c, client[c].done + 1>>
  BY <1>1 DEF HasFailed, HearsNo
<1>2. ASSUME NEW d \in Clients, UserStep(d) PROVE FALSE
  <2>1. (\E pc, todo : Asks(d, pc, todo)) \/ Returns(d)
    BY <1>2, UserEffect DEF AsksDeploy, AsksStop, AsksLameDuck
  <2>2. /\ \A e \in Clients \ {d} : client'[e] = client[e]
        /\ answer'[d] = None
        /\ \A x \in Clients \cup Ids : x # d => answer'[x] = answer[x]
    BY <2>1, ShellEffect DEF TypeInv
  <2>3. \A c \in Clients : HearsNo(c)' => c # d /\ HearsNo(c) BY <2>2 DEF HearsNo
  <2>4. \A x \in refused' : x \in refused \/ (HearsNo(d) /\ x = <<d, client[d].done + 1>>)
    <3>1. answer[d] # None => answer[d].ok \in BOOLEAN
      BY NoneIsNoAnswer DEF TypeInv, AnswerTypes
    <3>2. CASE GotAnswer(d)
      BY <3>1, <3>2 DEF GotAnswer, HearsNo
    <3>3. CASE ~GotAnswer(d)
      BY <1>2, <3>3 DEF UserStep, Begins, ListEnds, GotInfo, GotStop, TimesOut
    <3> QED BY <3>2, <3>3
  <2>5. CASE ch \in refused' BY <2>4, <2>5 DEF HasFailed
  <2>6. ASSUME NEW c \in Clients, HearsNo(c)', ch = <<c, client'[c].done + 1>> PROVE FALSE
    BY <2>2, <2>3, <2>6 DEF HasFailed
  <2> QED BY <2>5, <2>6 DEF HasFailed
<1>3. ASSUME NEW d \in Clients, Question(d) PROVE FALSE
  <2>1. UNCHANGED <<client, refused>> BY <1>3, QuestionTyped DEF questionFrame, clientVars
  <2> QED BY <1>1, <1>3, <2>1, QuestionAnswered
<1>4. ASSUME StopStep PROVE FALSE
  <2>1. UNCHANGED <<client, refused>> BY <1>4, StopMoves DEF PostInv
  <2> QED BY <1>1, <1>4, <2>1, StopAnswers
<1>5. ASSUME LameDuckStep PROVE FALSE
  <2>1. UNCHANGED <<client, refused>> BY <1>5, LameMoves
  <2> QED BY <1>1, <1>5, <2>1, LameAnswered
<1>6. ASSUME NEW i \in Ids, EventStep(i) \/ AgentDeploys(i)
                            \/ \E code \in {0, 1} : WorkloadExits(i, code)
      PROVE  FALSE
  <2>1. UNCHANGED <<client, refused, answer>> BY <1>6, EventMoves, WorkloadMoves
  <2> QED BY <1>1, <2>1
<1>7. ASSUME UNCHANGED vars \/ Tick PROVE FALSE
  <2>1. UNCHANGED <<client, refused, answer>> BY <1>7 DEF vars, Tick, clientVars
  <2> QED BY <1>1, <2>1
<1>8. CASE DeployStep
  <2>1. UNCHANGED <<client, refused>> BY <1>8, DeployMoves
  <2> QED BY <1>1, <1>8, <2>1
<1> QED BY <1>2, <1>3, <1>4, <1>5, <1>6, <1>7, <1>8 DEF Next

\* The queue without its head, and what handleDeploy makes of the head.
LEMMA HandleDeployTakes ==
    ASSUME TypeInv, ChainInv, HandleDeploy
    PROVE  /\ \A m \in Elems(deploys') : m.chain # Head(deploys).chain
           /\ \A i \in Ids : Holds(i) => req[i].chain # Head(deploys).chain
<1>1. deploys' = Tail(deploys) BY DEF HandleDeploy
<1>2. deploys \in Seq(DeployMsg) /\ deploys # <<>> BY DEF TypeInv, HandlerTypes, HandleDeploy
<1>3. Len(deploys) \in Nat /\ Len(deploys) > 0 BY <1>2, EmptySeq, LenProperties
<1>4. Head(deploys) = deploys[1] /\ 1 \in 1..Len(deploys) BY <1>2, <1>3
<1>5. Len(deploys') = Len(deploys) - 1 BY <1>1, <1>2, <1>3
<1>6. \A a \in 1..Len(deploys') : deploys'[a] = deploys[a + 1]
  BY <1>1, <1>2, <1>3, <1>5
<1>7. \A a \in 1..Len(deploys') : a + 1 \in 1..Len(deploys) /\ a + 1 # 1 BY <1>3, <1>5
<1>8. \A a \in 1..Len(deploys') : deploys'[a].chain # deploys[1].chain
  BY <1>4, <1>6, <1>7 DEF ChainInv, QueueDistinct
<1>9. \A m \in Elems(deploys') : m.chain # Head(deploys).chain BY <1>4, <1>8 DEF Elems
<1> QED BY <1>4, <1>9 DEF ChainInv, ProcessesApart

\* A deployment that the user hears has failed is over, unless its issuer is
\* not valid.
LEMMA FailureClears ==
    ASSUME TypeInv, TypeInv', ChainInv, PostInv, RefuseInv, Faultless, DeployStep,
           NEW c \in Clients, answer'[c] # answer[c], answer'[c].ok = FALSE,
           NEW ch, ch = <<c, client[c].done + 1>>
    PROVE  NoneValid(Carried(ch)')
<1>0. ASSUME NEW x \in Deploying, NEW ok, NEW ids, Answer(x.from, x.n, ok, ids)
      PROVE  x.chain = ch
  <2>1. /\ c = x.from /\ x.n = client[c].n /\ client[c].pc = "starting"
        /\ x.chain = <<c, client[c].done + 1>>
        /\ answer[c] = None /\ answer'[c] = [ok |-> ok, ids |-> ids]
    BY <1>0, DeployAnswered
  <2> QED BY <2>1
<1>1. UNCHANGED ev /\ answer' # answer BY DeployMoves
<1>2. CASE HandleDeploy
  <2> DEFINE m == Head(deploys)
  <2>1. m.chain = ch /\ UNCHANGED <<client, req, proc>>
    <3>1. m \in Deploying /\ Answer(m.from, m.n, FALSE, {})
      <4>1. m \in Deploying
        BY <1>2, TailElems DEF HandleDeploy, Deploying, TypeInv, HandlerTypes
      <4> QED BY <1>1, <1>2, <4>1 DEF HandleDeploy, DeployFails
    <3>2. m.chain = ch BY <1>0, <3>1
    <3> QED BY <1>2, <3>2 DEF HandleDeploy, clientVars, workVars
  <2>2. \/ dh' = NoMsg
        \/ /\ dh' = [pc |-> "caching", msg |-> m, id |-> None]
           /\ ~ValidIssuer(m.job.issuer)
    BY <1>1, <1>2 DEF HandleDeploy, DeployFails
  <2>3. ASSUME AtWork' PROVE dh'.msg = m /\ ~ValidIssuer(m.job.issuer)
    BY <2>2, <2>3 DEF AtWork, NoMsg
  <2>4. /\ \A n \in Elems(deploys') : n.chain # m.chain
        /\ \A i \in Ids : Holds(i) => req[i].chain # m.chain
    BY <1>2, HandleDeployTakes
  <2>5. \A i \in Ids : Holds(i)' => req'[i].chain # m.chain BY <1>1, <2>1, <2>4 DEF Holds
  <2>6. \A n \in Waiting' : n.chain = m.chain => ~ValidIssuer(n.job.issuer)
    BY <2>3, <2>4 DEF Waiting
  <2> HIDE DEF m
  <2> QED BY <2>1, <2>5, <2>6 DEF NoneValid, Carried
<1>3. CASE ~HandleDeploy
  <2>1. dh.pc # "idle" /\ dh.msg \in Deploying
    BY <1>1, <1>3, DeployAnswers
  <2>2. ASSUME NEW ok, NEW ids, Answer(dh.msg.from, dh.msg.n, ok, ids)
        PROVE  dh.msg.chain = ch /\ ok = FALSE
    <3>1. dh.msg.chain = ch /\ answer'[c] = [ok |-> ok, ids |-> ids]
      BY <2>1, <2>2, DeployAnswered
    <3>2. answer'[c].ok = ok BY <3>1
    <3> QED BY <3>1, <3>2
  <2>3. dh.msg.chain = ch BY <1>1, <1>3, <2>2, DeployAnswers
  <2>4. UNCHANGED deploys
    BY <1>3 DEF DeployStep, CacheWorkload, DeployWorkload, NoAgent, DeployAccepted,
                DeployRejected, DeployTimesOut, queueVars
  <2>5. CASE CacheWorkload \/ NoAgent
    <3>1. AtWork /\ dh' = NoMsg /\ UNCHANGED <<req, proc>>
      BY <1>1, <2>5 DEF CacheWorkload, NoAgent, DeployFails, AtWork, workVars
    <3>2. ~AtWork' BY <3>1 DEF NoMsg, AtWork
    <3>3. \A m \in Waiting' : m.chain # dh.msg.chain
      BY <2>4, <3>1, <3>2 DEF Waiting, Elems, ChainInv, HandlerApart
    <3>4. \A i \in Ids : Holds(i)' => req'[i].chain # dh.msg.chain
      BY <1>1, <3>1 DEF Holds, ChainInv, ProcessesApart
    <3> QED BY <2>3, <3>3, <3>4 DEF Carried, NoneValid
  <2>6. CASE DeployRejected
    <3>1. PICK i \in Ids : i = dh.id BY <2>6 DEF DeployRejected, TypeInv, HandlerTypes
    <3>2. proc[i] = "refused" /\ dh.pc = "sent" /\ dh' = NoMsg
          /\ (StopProcess(i) \/ KillFails(i))
      BY <2>6, <3>1 DEF DeployRejected, DeployFails
    <3>3. StopProcess(i) BY <3>2 DEF KillFails, Faultless
    <3>4. Holds(i) /\ ev[i].pc = "none" BY <3>2 DEF Holds, ChainInv, EventsAfter
    <3>5. req[i].chain = dh.msg.chain BY <3>1, <3>2 DEF RefuseInv
    <3>6. req' = req /\ proc'[i] = "killed" /\ \A k \in Ids \ {i} : proc'[k] = proc[k]
      BY <3>2, <3>3 DEF StopProcess, TypeInv, WorkTypes
    <3>7. ~Holds(i)' BY <1>1, <3>4, <3>6 DEF Holds
    <3>8. \A k \in Ids \ {i} : Holds(k)' => Holds(k) BY <1>1, <3>6 DEF Holds
    <3>9. \A k \in Ids : Holds(k)' => req'[k].chain # dh.msg.chain
      BY <3>4, <3>5, <3>6, <3>7, <3>8 DEF ChainInv, ProcessesApart
    <3>10. ~AtWork' BY <3>2 DEF NoMsg, AtWork
    <3>11. \A m \in Waiting' : m.chain # dh.msg.chain
      BY <2>4, <3>4, <3>5, <3>10 DEF Waiting, Elems, ChainInv, ProcessesApart
    <3> QED BY <2>3, <3>9, <3>11 DEF Carried, NoneValid
  <2>7. ~DeployAccepted
    <3> SUFFICES ASSUME DeployAccepted PROVE FALSE
      OBVIOUS
    <3>1. PICK ok, ids : ok = TRUE /\ Answer(dh.msg.from, dh.msg.n, ok, ids)
      BY DEF DeployAccepted, Faultless
    <3> QED BY <2>2, <3>1
  <2>8. ~DeployTimesOut BY DEF DeployTimesOut, Faultless
  <2>9. ~DeployWorkload BY <1>1 DEF DeployWorkload
  <2> QED BY <1>3, <2>5, <2>6, <2>7, <2>8, <2>9 DEF DeployStep
<1> QED BY <1>2, <1>3

\* The process that was sent its request has it for as long as the handler
\* waits.
LEMMA SentKeeps ==
    ASSUME TypeInv, TypeInv', PostInv, RefuseInv, [Next]_vars, dh'.pc = "sent"
    PROVE  dh'.id \in Used' /\ req'[dh'.id].chain = dh'.msg.chain
<1>1. CASE DeployWorkload BY <1>1, DeployFiles
<1>2. CASE ~DeployWorkload
  <2>1. UNCHANGED dh
    <3>1. ASSUME NEW c \in Clients, UserStep(c) \/ Question(c) PROVE UNCHANGED dh
      BY <3>1, UserEffect, QuestionTyped DEF clientFrame, questionFrame
    <3>2. StopStep => UNCHANGED dh BY StopMoves DEF PostInv
    <3>3. ~DeployStep
      <4> SUFFICES ASSUME DeployStep PROVE FALSE
        OBVIOUS
      <4>1. NoMsg.pc = "idle" BY DEF NoMsg
      <4>2. CASE HandleDeploy
        <5>1. dh' = NoMsg \/ dh' = [pc |-> "caching", msg |-> Head(deploys), id |-> None]
          BY <4>2 DEF HandleDeploy, DeployFails
        <5> QED BY <4>1, <5>1
      <4>3. CASE CacheWorkload
        <5>1. dh.pc = "caching"
              /\ (dh' = NoMsg \/ dh' = dh \/ dh' = [dh EXCEPT !.pc = "deploying"])
          BY <4>3 DEF CacheWorkload, DeployFails
        <5>2. [dh EXCEPT !.pc = "deploying"].pc = "deploying" BY DEF TypeInv, HandlerTypes
        <5> QED BY <4>1, <5>1, <5>2
      <4>4. CASE ~HandleDeploy /\ ~CacheWorkload
        <5>1. dh' = NoMsg
          BY <1>2, <4>4 DEF DeployStep, NoAgent, DeployAccepted, DeployRejected,
                            DeployTimesOut, DeployFails
        <5> QED BY <4>1, <5>1
      <4> QED BY <4>2, <4>3, <4>4
    <3> QED BY <3>1, <3>2, <3>3, LameMoves, EventMoves, WorkloadMoves DEF Next, Tick, vars
  <2>2. PICK i \in Used : i = dh.id /\ req[i].chain = dh.msg.chain BY <2>1 DEF RefuseInv
  <2>3. i \in Used' /\ req'[i].chain = req[i].chain BY <1>2, RequestsStay DEF SameRequests
  <2> QED BY <2>1, <2>2, <2>3
<1> QED BY <1>1, <1>2

LEMMA ShellsKeepBegun ==
    ASSUME TypeInv, TypeInv', PostInv, [Next]_vars, NEW ch \in Chains, Begun(client, ch)
    PROVE  Begun(client', ch)
<1>1. ASSUME NEW c \in Clients, UserStep(c) PROVE Begun(client', ch) BY <1>1, UserBegun
<1>2. ASSUME UNCHANGED client PROVE Begun(client', ch) BY <1>2
<1>3. ASSUME NEW c \in Clients, Question(c) PROVE UNCHANGED client
  BY <1>3, QuestionTyped DEF questionFrame, clientVars
<1>4. StopStep => UNCHANGED client BY StopMoves DEF PostInv
<1>5. ASSUME NEW i \in Ids, EventStep(i) \/ AgentDeploys(i)
                            \/ \E code \in {0, 1} : WorkloadExits(i, code)
      PROVE  UNCHANGED client
  BY <1>5, EventMoves, WorkloadMoves
<1>6. DeployStep \/ LameDuckStep => UNCHANGED client BY DeployMoves, LameMoves
<1>7. Tick \/ UNCHANGED vars => UNCHANGED client BY DEF Tick, vars, clientVars
<1>8. (\E c \in Clients : UserStep(c)) \/ UNCHANGED client
  BY <1>3, <1>4, <1>5, <1>6, <1>7 DEF Next
<1> QED BY <1>1, <1>2, <1>8

LEMMA RefuseInvStep ==
    TypeInv /\ TypeInv' /\ ChainInv /\ PostInv /\ RefuseInv /\ [Next]_vars => RefuseInv'
<1> SUFFICES ASSUME TypeInv, TypeInv', ChainInv, PostInv, RefuseInv, [Next]_vars PROVE RefuseInv'
  OBVIOUS
<1>2. Faultless' <=> Faultless BY WorldStays DEF Faultless
<1>3. ASSUME Faultless, NEW ch, HasFailed(ch)' PROVE NoneValid(Carried(ch)')
  <2>1. CASE HasFailed(ch)
    <3>1. Begun(client, ch) BY <2>1, FailedBegun
    <3>2. Carried(ch)' \subseteq Carried(ch) BY <3>1, CarriedStays
    <3>3. NoneValid(Carried(ch)) BY <1>3, <2>1 DEF RefuseInv
    <3> QED BY <3>2, <3>3 DEF NoneValid
  <2>2. CASE ~HasFailed(ch) BY <1>3, <2>2, FailsNow, FailureClears
  <2> QED BY <2>1, <2>2
<1>4. ASSUME NEW ch \in refused' PROVE ch \in Chains /\ Begun(client', ch)
  <2>1. HasFailed(ch)' BY DEF HasFailed
  <2>2. CASE HasFailed(ch) BY <2>2, FailedBegun, ShellsKeepBegun
  <2>3. CASE ~HasFailed(ch)
    <3>1. DeployStep BY <2>1, <2>3, FailsNow
    <3>2. ch \in refused BY <3>1, DeployMoves
    <3> QED BY <2>3, <3>2 DEF HasFailed
  <2> QED BY <2>2, <2>3
<1>5. Faultless => LiveInv' BY LiveInvStep DEF RefuseInv
<1>6. Faultless' => LiveInv' /\ \A ch : HasFailed(ch)' => NoneValid(Carried(ch)')
  BY <1>2, <1>3, <1>5
<1>7. dh'.pc = "sent" => dh'.id \in Used' /\ req'[dh'.id].chain = dh'.msg.chain BY SentKeeps
<1>8. \A ch : NoneValid(Carried(ch))' <=> NoneValid(Carried(ch)') BY DEF NoneValid
<1> QED BY <1>4, <1>6, <1>7, <1>8 DEF RefuseInv

LEMMA InitRefuse == Init => RefuseInv
<1> SUFFICES ASSUME Init PROVE RefuseInv
  OBVIOUS
<1>1. dh.pc = "idle" BY DEF Init, NoMsg
<1>2. LiveInv /\ refused = {} /\ \A c \in Clients : ~HearsNo(c) BY DEF Init, LiveInv, HearsNo
<1> QED BY <1>1, <1>2 DEF RefuseInv, HasFailed

\* A deployment that a user was told has failed leaves nothing in the
\* listings, whatever the others do meanwhile: its message is used up, its
\* process is stopped before the answer, and no event brings it back.
THEOREM FailedDeploymentsLeaveNothing == Spec => []RefusedLeavesNothing
<1>1. RefuseInv /\ TypeInv => RefusedLeavesNothing
  <2> SUFFICES ASSUME RefuseInv, TypeInv, Faultless, NEW i \in live,
                      ValidIssuer(req[i].job.issuer), req[i].chain \in refused
               PROVE  FALSE
    BY DEF RefusedLeavesNothing, Faultless, ChainOf
  <2>1. i \in Ids /\ Holds(i) BY DEF RefuseInv, LiveInv, Holds, TypeInv, WorkTypes
  <2>2. req[i].job \in Carried(req[i].chain) BY <2>1 DEF Carried
  <2> QED BY <2>2 DEF RefuseInv, HasFailed, NoneValid
<1> QED BY <1>1, InitChains, InitPosts, InitRefuse, TypeInvHolds, ChainInvStep, PostInvStep,
           RefuseInvStep, PTL DEF Spec
=============================================================================
