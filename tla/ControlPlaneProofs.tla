------------------------- MODULE ControlPlaneProofs --------------------------
(***************************************************************************)
(* Type correctness, LameDuckAdmitsNoMore and OneAtATime of ControlPlane for*)
(* any number of users, agents, jobs and worlds, and what is true of its   *)
(* messages and answers.                                                   *)
(*                                                                         *)
(* TypeOK needs to know besides that a user at work has a command, that a  *)
(* handler at work has a message, and that there is a request for whatever *)
(* is listed, runs or has an event.                                        *)
(*                                                                         *)
(* handleDeploy looks at the flag of lame duck mode once and starts the    *)
(* workload later, so LameDuckAdmitsNoMore rests on there being one handler:*)
(* the deployment it has let through is the only one that can be late, and *)
(* it has passed the point where it starts once something is late.         *)
(*                                                                         *)
(* For OneAtATime, a chain of deployments is a token that is in one place: a*)
(* waiting message, handleDeploy, or a process that runs or whose end is not*)
(* dealt with yet.                                                         *)
(*                                                                         *)
(* An answer only reaches a shell that waits for an answer of its kind.    *)
(***************************************************************************)
EXTENDS ControlPlane, SequenceTheorems, FiniteSetTheorems, TLAPS

\* Most leaves are first-order; the rest is arithmetic or records.
USE ZenonT(3), SMT

ClientPcs == {"idle", "listing", "info", "stopping", "starting", "laming", "wlisting"}

Shell == [pc : ClientPcs, done : Nat, n : Nat, todo : SUBSET Ids]

Answers == [ok : BOOLEAN, ids : SUBSET Ids]

UserTypes ==
    /\ world \in Worlds
    /\ clock \in 0..MaxClock
    /\ client \in [Clients -> Shell]
    /\ \A c \in Clients : client[c].pc # "idle" => client[c].done < Len(world.ops[c])

AnswerTypes == answer \in [Clients \cup Ids -> Answers \cup {None}]

DeployPcs == {"idle", "caching", "deploying", "sent"}
StopPcs == {"idle", "found", "undeploying"}

HandlerTypes ==
    /\ deploys \in Seq(DeployMsg)
    /\ stops \in Seq(StopMsg)
    /\ lames \in Seq(LameMsg)
    /\ dh \in [pc : DeployPcs, msg : DeployMsg \cup {None}, id : Ids \cup {None}]
    /\ dh.pc # "idle" => dh.msg \in DeployMsg
    /\ dh.pc = "sent" => dh.id \in Ids
    /\ sh \in [pc : StopPcs, msg : StopMsg \cup {None}, id : Ids \cup {None}]
    /\ sh.pc # "idle" => sh.msg \in StopMsg /\ sh.id \in Ids
    /\ lh \in LameMsg \cup {None}
    /\ lame \in BOOLEAN
    /\ panicked \in BOOLEAN

ProcStates == {"none", "prepared", "running", "refused", "ended", "killed"}

EventPcs == {"none", "pending", "stopping", "locking", "stopped", "waiting", "done",
             "ignored"}

WorkTypes ==
    /\ req \in [Ids -> DeployMsg \cup {None}]
    /\ filed \subseteq live
    /\ live \subseteq Ids
    /\ proc \in [Ids -> ProcStates]
    /\ active \subseteq Ids

EventTypes == ev \in [Ids -> [pc : EventPcs, code : {0, 1}]]

\* Whatever is listed, runs or has an event has a request.
Requested ==
    \A i \in Ids : i \in live \/ proc[i] # "none" \/ ev[i].pc # "none" => req[i] # None

TypeInv ==
    UserTypes /\ AnswerTypes /\ HandlerTypes /\ WorkTypes /\ EventTypes /\ Requested

LEMMA TypeInvTypeOK == TypeInv => TypeOK
<1> SUFFICES ASSUME TypeInv PROVE TypeOK
  OBVIOUS
<1> QED BY DEF TypeInv, TypeOK, UserTypes, HandlerTypes, WorkTypes, EventTypes, Shell,
           ClientPcs, DeployPcs, StopPcs, ProcStates, EventPcs

(***************************************************************************)
(* Frames.                                                                 *)
(***************************************************************************)
LEMMA UserFrame ==
    ASSUME UserTypes, UNCHANGED <<world, clock, client>>
    PROVE  UserTypes'
BY DEF UserTypes

LEMMA WorkFrame ==
    ASSUME WorkTypes, UNCHANGED <<req, filed, live, proc, active>>
    PROVE  WorkTypes'
BY DEF WorkTypes

LEMMA RequestedFrame ==
    ASSUME Requested, UNCHANGED <<req, live, proc, ev>>
    PROVE  Requested'
BY DEF Requested

LEMMA HandlerFrame ==
    ASSUME HandlerTypes, UNCHANGED <<deploys, stops, lames, dh, sh, lh, lame, panicked>>
    PROVE  HandlerTypes'
BY DEF HandlerTypes

\* An answer has its type and goes to someone who waits.
LEMMA AnswerTyped ==
    ASSUME AnswerTypes, NEW r, NEW n, NEW ok \in BOOLEAN, NEW ids \in SUBSET Ids,
           Answer(r, n, ok, ids)
    PROVE  AnswerTypes'
<1>1. [ok |-> ok, ids |-> ids] \in Answers BY DEF Answers
<1> QED BY <1>1 DEF Answer, AnswerTypes

(***************************************************************************)
(* Users.                                                                  *)
(***************************************************************************)
LEMMA CommandTyped ==
    ASSUME UserTypes, NEW c \in Clients, client[c].done < Len(world.ops[c])
    PROVE  Cmd(c).job \in Job
<1>1. world.ops[c] \in Seq(Command)
  BY ControlPlaneAssumption DEF UserTypes, World
<1>2. client[c].done \in Nat BY DEF UserTypes, Shell
<1>3. Len(world.ops[c]) \in Nat /\ world.ops[c] \in [1..Len(world.ops[c]) -> Command]
  BY <1>1, LenProperties
<1>4. client[c].done + 1 \in 1..Len(world.ops[c]) BY <1>2, <1>3
<1>5. Cmd(c) \in Command BY <1>3, <1>4 DEF Cmd
<1> QED BY <1>5 DEF Command

\* A user asks, or is done with the command.
LEMMA AsksTyped ==
    ASSUME UserTypes, AnswerTypes, NEW c \in Clients, NEW pc \in ClientPcs,
           NEW todo \in SUBSET Ids, Asks(c, pc, todo), UNCHANGED <<world, clock>>,
           client[c].done < Len(world.ops[c])
    PROVE  UserTypes' /\ AnswerTypes'
<1>1. client' = [client EXCEPT ![c].pc = pc, ![c].n = @ + 1, ![c].todo = todo]
  BY DEF Asks
<1>2. client[c] \in Shell BY DEF UserTypes
<1>3. client' \in [Clients -> Shell] BY <1>1, <1>2 DEF UserTypes, Shell
<1>4. \A d \in Clients : client'[d].done = client[d].done
  BY <1>1, <1>2 DEF UserTypes, Shell
<1>5. \A d \in Clients \ {c} : client'[d] = client[d] BY <1>1 DEF UserTypes
<1>6. UserTypes' BY <1>3, <1>4, <1>5 DEF UserTypes
<1>7. AnswerTypes' BY DEF Asks, AnswerTypes
<1> QED BY <1>6, <1>7

LEMMA ReturnsTyped ==
    ASSUME UserTypes, AnswerTypes, NEW c \in Clients, Returns(c), UNCHANGED <<world, clock>>
    PROVE  UserTypes' /\ AnswerTypes'
<1>1. client' = [client EXCEPT ![c].pc = "idle", ![c].done = @ + 1, ![c].todo = {}]
  BY DEF Returns
<1>2. client[c] \in Shell BY DEF UserTypes
<1>3. client' \in [Clients -> Shell] BY <1>1, <1>2 DEF UserTypes, Shell, ClientPcs
<1>4. client'[c].pc = "idle" BY <1>1, <1>2 DEF UserTypes, Shell
<1>5. \A d \in Clients \ {c} : client'[d] = client[d] BY <1>1 DEF UserTypes
<1>6. UserTypes' BY <1>3, <1>4, <1>5 DEF UserTypes
<1>7. AnswerTypes' BY DEF Returns, AnswerTypes
<1> QED BY <1>6, <1>7

\* What a user may put in the queues.
LEMMA AsksDeployTyped ==
    ASSUME UserTypes, AnswerTypes, HandlerTypes, NEW c \in Clients, AsksDeploy(c),
           client[c].done < Len(world.ops[c]), clientFrame
    PROVE  UserTypes' /\ AnswerTypes' /\ HandlerTypes'
<1>1. UserTypes' /\ AnswerTypes'
  BY AsksTyped DEF AsksDeploy, ClientPcs, clientFrame
<1>2. NewDeployRequest(c, client[c].n + 1, Cmd(c).job) \in DeployMsg
  <2>1. Cmd(c).job \in Job BY CommandTyped
  <2>2. Cmd(c).job.essential \in BOOLEAN BY <2>1 DEF Job
  <2>3. clock \in Nat /\ client[c].n + 1 \in Nat /\ client[c].done + 1 \in Nat
    BY ControlPlaneAssumption DEF UserTypes, Shell
  <2>4. <<c, client[c].done + 1>> \in Chains BY <2>3 DEF Chains
  <2> QED BY <2>1, <2>2, <2>3, <2>4 DEF NewDeployRequest, DeployMsg
<1>3. deploys' \in Seq(DeployMsg)
  BY <1>2, AppendProperties DEF HandlerTypes, AsksDeploy
<1>4. UNCHANGED <<stops, lames, dh, sh, lh, lame, panicked>> BY DEF AsksDeploy, clientFrame
<1> QED BY <1>1, <1>3, <1>4 DEF HandlerTypes

LEMMA AsksStopTyped ==
    ASSUME UserTypes, AnswerTypes, HandlerTypes, NEW c \in Clients, NEW i \in Ids,
           NEW todo \in SUBSET Ids, AsksStop(c, i, todo),
           client[c].done < Len(world.ops[c]), clientFrame
    PROVE  UserTypes' /\ AnswerTypes' /\ HandlerTypes'
<1>1. UserTypes' /\ AnswerTypes'
  BY AsksTyped DEF AsksStop, ClientPcs, clientFrame
<1>2. NewStopRequest(c, client[c].n + 1, i, Cmd(c).job) \in StopMsg
  <2>1. Cmd(c).job \in Job BY CommandTyped
  <2>2. Cmd(c).job.name \in STRING /\ Cmd(c).job.issuer \in STRING /\ Cmd(c).job.ns \in STRING
    BY <2>1 DEF Job
  <2>3. clock \in Nat /\ client[c].n + 1 \in Nat
    BY ControlPlaneAssumption DEF UserTypes, Shell
  <2> QED BY <2>2, <2>3 DEF NewStopRequest, StopMsg
<1>3. stops' \in Seq(StopMsg)
  BY <1>2, AppendProperties DEF HandlerTypes, AsksStop
<1>4. UNCHANGED <<deploys, lames, dh, sh, lh, lame, panicked>> BY DEF AsksStop, clientFrame
<1> QED BY <1>1, <1>3, <1>4 DEF HandlerTypes

LEMMA AsksLameDuckTyped ==
    ASSUME UserTypes, AnswerTypes, HandlerTypes, NEW c \in Clients, AsksLameDuck(c),
           client[c].done < Len(world.ops[c]), clientFrame
    PROVE  UserTypes' /\ AnswerTypes' /\ HandlerTypes'
<1>1. UserTypes' /\ AnswerTypes'
  BY AsksTyped DEF AsksLameDuck, ClientPcs, clientFrame
<1>2. [from |-> c, n |-> client[c].n + 1] \in LameMsg
  BY DEF LameMsg, UserTypes, Shell
<1>3. lames' \in Seq(LameMsg)
  BY <1>2, AppendProperties DEF HandlerTypes, AsksLameDuck
<1>4. UNCHANGED <<deploys, stops, dh, sh, lh, lame, panicked>>
  BY DEF AsksLameDuck, clientFrame
<1> QED BY <1>1, <1>3, <1>4 DEF HandlerTypes

\* Every step of a user.
LEMMA UserTyped ==
    ASSUME TypeInv, NEW c \in Clients, UserStep(c)
    PROVE  UserTypes' /\ AnswerTypes' /\ HandlerTypes'
<1> USE DEF TypeInv
<1>1. clientFrame
  BY DEF UserStep, Begins, ListEnds, GotInfo, GotStop, GotAnswer, TimesOut
<1>2. client[c].done < Len(world.ops[c])
  BY DEF UserStep, Begins, ListEnds, GotInfo, GotStop, GotAnswer, TimesOut, UserTypes
<1>3. UNCHANGED <<world, clock, dh, sh, lh, lame, panicked>> BY <1>1 DEF clientFrame
<1>4. ASSUME answer[c] # None PROVE answer[c].ids \subseteq Ids
  BY <1>4 DEF AnswerTypes, Answers
<1>5. ASSUME NEW pc \in ClientPcs, Asks(c, pc, {}), UNCHANGED queueVars
      PROVE  UserTypes' /\ AnswerTypes' /\ HandlerTypes'
  <2>1. UserTypes' /\ AnswerTypes' BY <1>2, <1>3, <1>5, AsksTyped
  <2> QED BY <1>3, <1>5, <2>1, HandlerFrame DEF queueVars
<1>6. ASSUME Returns(c), UNCHANGED queueVars
      PROVE  UserTypes' /\ AnswerTypes' /\ HandlerTypes'
  <2>1. UserTypes' /\ AnswerTypes' BY <1>3, <1>6, ReturnsTyped
  <2> QED BY <1>3, <1>6, <2>1, HandlerFrame DEF queueVars
<1>7. CASE Begins(c)
  <2>1. CASE PingsNodes(c) BY <1>5, <2>1 DEF PingsNodes, ClientPcs
  <2>2. CASE AsksInfo(c) BY <1>5, <2>2 DEF AsksInfo, ClientPcs
  <2>3. CASE AsksLameDuck(c) BY <1>1, <1>2, <2>3, AsksLameDuckTyped
  <2>4. CASE PingsWorkloads(c) BY <1>5, <2>4 DEF PingsWorkloads, ClientPcs
  <2>5. ASSUME NEW i \in Ids, AsksStop(c, i, {}) PROVE UserTypes' /\ AnswerTypes' /\ HandlerTypes'
    BY <1>1, <1>2, <2>5, AsksStopTyped
  <2> QED BY <1>7, <2>1, <2>2, <2>3, <2>4, <2>5
          DEF Begins, RunDevWorkload, RunWorkload, StopCommand, LameDuck, ListWorkloads,
              ListNodes, NodeInfo
<1>8. CASE ListEnds(c)
  <2>1. CASE AsksInfo(c) BY <1>5, <2>1 DEF AsksInfo, ClientPcs
  <2> QED BY <1>6, <1>8, <2>1 DEF ListEnds
<1>9. CASE GotInfo(c)
  <2> DEFINE same == IF Cmd(c).op = "devrun"
                     THEN {i \in answer[c].ids : req[i].job.name = Cmd(c).job.name} ELSE {}
  <2>1. same \subseteq Ids BY <1>4, <1>9 DEF GotInfo
  <2>2. \/ Returns(c) /\ UNCHANGED queueVars
        \/ AsksDeploy(c)
        \/ \E i \in same : AsksStop(c, i, same \ {i})
    BY <1>9 DEF GotInfo
  <2> HIDE DEF same
  <2>3. ASSUME NEW i \in same, AsksStop(c, i, same \ {i})
        PROVE  UserTypes' /\ AnswerTypes' /\ HandlerTypes'
    <3>1. i \in Ids /\ same \ {i} \in SUBSET Ids BY <2>1
    <3> QED BY <1>1, <1>2, <2>3, <3>1, AsksStopTyped
  <2> QED BY <1>1, <1>2, <1>6, <2>2, <2>3, AsksDeployTyped
<1>10. CASE GotStop(c)
  <2> DEFINE todo == client[c].todo
  <2>1. todo \subseteq Ids BY DEF UserTypes, Shell
  <2>2. \/ Returns(c) /\ UNCHANGED queueVars
        \/ AsksDeploy(c)
        \/ \E k \in todo : AsksStop(c, k, todo \ {k})
    BY <1>10 DEF GotStop
  <2> HIDE DEF todo
  <2>3. ASSUME NEW i \in todo, AsksStop(c, i, todo \ {i})
        PROVE  UserTypes' /\ AnswerTypes' /\ HandlerTypes'
    <3>1. i \in Ids /\ todo \ {i} \in SUBSET Ids BY <2>1
    <3> QED BY <1>1, <1>2, <2>3, <3>1, AsksStopTyped
  <2> QED BY <1>1, <1>2, <1>6, <2>2, <2>3, AsksDeployTyped
<1>11. CASE GotAnswer(c) BY <1>6, <1>11 DEF GotAnswer
<1>12. CASE TimesOut(c) BY <1>6, <1>12 DEF TimesOut
<1> QED BY <1>7, <1>8, <1>9, <1>10, <1>11, <1>12 DEF UserStep

\* INFO, PING and WPING.
LEMMA QuestionTyped ==
    ASSUME TypeInv, NEW c \in Clients, Question(c)
    PROVE  AnswerTypes' /\ questionFrame
<1> USE DEF TypeInv
<1>1. \A ids : (\A i \in ids : i \in live) => ids \in SUBSET Ids BY DEF WorkTypes
<1>2. CASE HandlePing(c)
  <2>1. {} \in SUBSET Ids OBVIOUS
  <2> QED BY <1>2, <2>1, AnswerTyped DEF HandlePing
<1>3. CASE HandleInfo(c)
  <2>1. Machines(Cmd(c).job.ns) \in SUBSET Ids BY <1>1 DEF Machines, RunningWorkloads
  <2> QED BY <1>3, <2>1, AnswerTyped DEF HandleInfo
<1>4. CASE HandleWorkloadPing(c)
  <2> DEFINE ids == {i \in RunningWorkloads : MatchesSearch(i, Cmd(c).job.ns, Cmd(c).job.name)}
  <2>1. ids \in SUBSET Ids BY <1>1 DEF RunningWorkloads
  <2>2. Answer(c, client[c].n, TRUE, ids) /\ questionFrame BY <1>4 DEF HandleWorkloadPing
  <2> HIDE DEF ids
  <2> QED BY <2>1, <2>2, AnswerTyped
<1> QED BY <1>2, <1>3, <1>4 DEF Question

(***************************************************************************)
(* handleDeploy and handleStop.                                            *)
(***************************************************************************)
LEMMA StopProcessTyped ==
    ASSUME WorkTypes, Requested, NEW i \in Ids, StopProcess(i) \/ KillFails(i),
           \A k \in Ids : ev'[k].pc # "none" => ev[k].pc # "none"
    PROVE  WorkTypes' /\ Requested'
<1>1. req' = req /\ i \in live BY DEF StopProcess, KillFails
<1>2. filed' \subseteq live' /\ live' \subseteq live /\ active' \subseteq active
  BY DEF StopProcess, KillFails, WorkTypes
<1>3. proc' \in [Ids -> ProcStates] /\ \A k \in Ids \ {i} : proc'[k] = proc[k]
  BY DEF StopProcess, KillFails, WorkTypes, ProcStates
<1>4. WorkTypes' BY <1>1, <1>2, <1>3 DEF WorkTypes
<1>5. Requested' BY <1>1, <1>2, <1>3 DEF Requested, WorkTypes
<1> QED BY <1>4, <1>5

LEMMA DeployFailsTyped ==
    ASSUME AnswerTypes, HandlerTypes, NEW m, DeployFails(m),
           deploys' \in Seq(DeployMsg), UNCHANGED <<stops, lames, sh, lh, lame, panicked>>
    PROVE  AnswerTypes' /\ HandlerTypes'
<1>0. {} \in SUBSET Ids /\ FALSE \in BOOLEAN OBVIOUS
<1>1. AnswerTypes' BY <1>0, AnswerTyped DEF DeployFails
<1>2. dh' = NoMsg BY DEF DeployFails
<1> QED BY <1>1, <1>2 DEF HandlerTypes, NoMsg, DeployPcs

LEMMA DeployTyped ==
    ASSUME TypeInv, DeployStep
    PROVE  TypeInv'
<1> USE DEF TypeInv
<1>1. CASE HandleDeploy
  <2> DEFINE m == Head(deploys)
  <2>1. m \in DeployMsg /\ Tail(deploys) \in Seq(DeployMsg)
    BY <1>1, HeadTailProperties DEF HandleDeploy, HandlerTypes
  <2>2. UNCHANGED <<world, clock, client, stops, lames, sh, lh, lame, req, filed, live, proc,
                    active, ev, panicked>> /\ deploys' = Tail(deploys)
    BY <1>1 DEF HandleDeploy, clientVars, workVars
  <2>3. AnswerTypes' /\ HandlerTypes'
    <3>1. CASE DeployFails(m) BY <2>1, <2>2, <3>1, DeployFailsTyped
    <3>2. ASSUME dh' = [pc |-> "caching", msg |-> m, id |-> None],
                 answer' = answer \/ Answer(m.from, m.n, FALSE, {})
          PROVE  AnswerTypes' /\ HandlerTypes'
      <4>1. AnswerTypes'
        <5>1. CASE answer' = answer BY <5>1 DEF AnswerTypes
        <5>2. CASE Answer(m.from, m.n, FALSE, {})
          <6>1. {} \in SUBSET Ids /\ FALSE \in BOOLEAN OBVIOUS
          <6> HIDE DEF m
          <6> QED BY <5>2, <6>1, AnswerTyped
        <5> QED BY <3>2, <5>1, <5>2
      <4>2. HandlerTypes' BY <2>1, <2>2, <3>2 DEF HandlerTypes, DeployPcs
      <4> QED BY <4>1, <4>2
    <3> QED BY <1>1, <3>1, <3>2 DEF HandleDeploy
  <2> QED BY <2>2, <2>3, UserFrame, WorkFrame, RequestedFrame DEF EventTypes
<1>2. CASE CacheWorkload
  <2>1. UNCHANGED <<world, clock, client, deploys, stops, lames, sh, lh, lame, req, filed, live,
                    proc, active, ev>> /\ dh.pc = "caching"
    BY <1>2 DEF CacheWorkload, clientVars, queueVars, workVars
  <2>2. AnswerTypes' /\ HandlerTypes'
    <3>1. CASE DeployFails(dh.msg) /\ UNCHANGED panicked
      BY <2>1, <3>1, DeployFailsTyped DEF HandlerTypes
    <3>2. CASE dh' = [dh EXCEPT !.pc = "deploying"] /\ UNCHANGED <<answer, panicked>>
      BY <2>1, <3>2 DEF HandlerTypes, AnswerTypes, DeployPcs
    <3>3. CASE panicked' = TRUE /\ UNCHANGED <<dh, answer>>
      BY <2>1, <3>3 DEF HandlerTypes, AnswerTypes
    <3> QED BY <1>2, <3>1, <3>2, <3>3 DEF CacheWorkload
  <2> QED BY <2>1, <2>2, UserFrame, WorkFrame, RequestedFrame DEF EventTypes
<1>3. CASE DeployWorkload
  <2>1. UNCHANGED <<world, clock, client, answer, deploys, stops, lames, sh, lh, lame, active, ev,
                    panicked>> /\ dh.pc = "deploying"
    BY <1>3 DEF DeployWorkload, clientVars, queueVars
  <2>2. PICK i \in Ids : /\ req' = [req EXCEPT ![i] = dh.msg]
                         /\ filed' = filed \cup {i} /\ live' = live \cup {i}
                         /\ proc' = [proc EXCEPT ![i] = "prepared"]
                         /\ dh' = [dh EXCEPT !.pc = "sent", !.id = i]
    BY <1>3 DEF DeployWorkload
  <2>3. dh.msg \in DeployMsg BY <2>1 DEF HandlerTypes
  <2>4. dh'.pc = "sent" /\ dh'.msg = dh.msg /\ dh'.id = i
        /\ dh' \in [pc : DeployPcs, msg : DeployMsg \cup {None}, id : Ids \cup {None}]
    BY <2>2 DEF HandlerTypes, DeployPcs
  <2>5. HandlerTypes' BY <2>1, <2>3, <2>4 DEF HandlerTypes
  <2>6. WorkTypes' BY <2>1, <2>2, <2>3 DEF WorkTypes, ProcStates
  <2>7. Requested'
    <3>1. req'[i] # None BY <2>2, <2>3, ControlPlaneAssumption DEF WorkTypes
    <3>2. \A k \in Ids \ {i} : req'[k] = req[k] /\ proc'[k] = proc[k] /\ (k \in live' => k \in live)
      BY <2>2 DEF WorkTypes
    <3> QED BY <2>1, <3>1, <3>2 DEF Requested
  <2> QED BY <2>1, <2>5, <2>6, <2>7, UserFrame DEF EventTypes, AnswerTypes
<1>4. ASSUME DeployFails(dh.msg), UNCHANGED <<world, clock, client, deploys, stops, lames, sh, lh,
             lame, req, filed, live, proc, active, ev, panicked>>
      PROVE  TypeInv'
  <2>1. AnswerTypes' /\ HandlerTypes' BY <1>4, DeployFailsTyped DEF HandlerTypes
  <2> QED BY <1>4, <2>1, UserFrame, WorkFrame, RequestedFrame DEF EventTypes
<1>5. CASE NoAgent BY <1>4, <1>5 DEF NoAgent, clientVars, queueVars, workVars
<1>6. CASE DeployTimesOut BY <1>4, <1>6 DEF DeployTimesOut, clientVars, queueVars, workVars
<1>7. CASE DeployAccepted
  <2>1. UNCHANGED <<world, clock, client, deploys, stops, lames, sh, lh, lame, req, filed, live,
                    proc, ev, panicked>> /\ dh.pc = "sent"
    BY <1>7 DEF DeployAccepted, clientVars, queueVars
  <2>2. dh.id \in Ids BY <2>1 DEF HandlerTypes
  <2>3. WorkTypes' BY <1>7, <2>1, <2>2 DEF WorkTypes, DeployAccepted
  <2>4. \/ Answer(dh.msg.from, dh.msg.n, TRUE, {dh.id})
        \/ Answer(dh.msg.from, dh.msg.n, FALSE, {})
    BY <1>7 DEF DeployAccepted
  <2>5. {dh.id} \in SUBSET Ids /\ {} \in SUBSET Ids BY <2>2
  <2>6. AnswerTypes' BY <2>4, <2>5, AnswerTyped
  <2>7. dh' = NoMsg BY <1>7 DEF DeployAccepted
  <2>8. HandlerTypes' BY <2>1, <2>7 DEF HandlerTypes, NoMsg, DeployPcs
  <2> QED BY <2>1, <2>3, <2>6, <2>8, UserFrame, RequestedFrame DEF EventTypes
<1>8. CASE DeployRejected
  <2>1. UNCHANGED <<world, clock, client, deploys, stops, lames, sh, lh, lame, ev, panicked>>
        /\ dh.pc = "sent" /\ DeployFails(dh.msg)
    BY <1>8 DEF DeployRejected, clientVars, queueVars
  <2>2. dh.id \in Ids BY <2>1 DEF HandlerTypes
  <2>3. WorkTypes' /\ Requested'
    BY <1>8, <2>1, <2>2, StopProcessTyped DEF DeployRejected
  <2>4. AnswerTypes' /\ HandlerTypes' BY <2>1, DeployFailsTyped DEF HandlerTypes
  <2> QED BY <2>1, <2>3, <2>4, UserFrame DEF EventTypes
<1> QED BY <1>1, <1>2, <1>3, <1>5, <1>6, <1>7, <1>8 DEF DeployStep

LEMMA StopTyped ==
    ASSUME TypeInv, StopStep
    PROVE  TypeInv'
<1> USE DEF TypeInv
<1>1. UNCHANGED <<world, clock, client, deploys, lames, dh, lh, lame, ev>>
  BY DEF StopStep, HandleStop, StopUndeploys, StopWorkload, clientVars, queueVars
<1>2. CASE HandleStop
  <2> DEFINE m == Head(stops)
  <2>1. m \in StopMsg /\ Tail(stops) \in Seq(StopMsg)
    BY <1>2, HeadTailProperties DEF HandleStop, HandlerTypes
  <2>2. UNCHANGED <<req, filed, live, proc, active, panicked>> /\ stops' = Tail(stops)
    BY <1>2 DEF HandleStop, workVars
  <2>3. m.id \in Ids BY <2>1 DEF StopMsg
  <2>4. \/ sh' = [pc |-> "found", msg |-> m, id |-> m.id] /\ UNCHANGED answer
        \/ Answer(m.from, m.n, FALSE, {m.id}) /\ UNCHANGED sh
    BY <1>2 DEF HandleStop
  <2> HIDE DEF m
  <2>5. AnswerTypes'
    <3>1. {m.id} \in SUBSET Ids /\ FALSE \in BOOLEAN BY <2>3
    <3>2. CASE Answer(m.from, m.n, FALSE, {m.id}) BY <3>1, <3>2, AnswerTyped
    <3>3. CASE UNCHANGED answer BY <3>3 DEF AnswerTypes
    <3> QED BY <2>4, <3>2, <3>3
  <2>6. HandlerTypes'
    <3>1. CASE UNCHANGED sh BY <1>1, <2>1, <2>2, <3>1 DEF HandlerTypes
    <3>2. CASE sh' = [pc |-> "found", msg |-> m, id |-> m.id]
      <4>1. sh' \in [pc : StopPcs, msg : StopMsg \cup {None}, id : Ids \cup {None}]
        BY <2>1, <2>3, <3>2 DEF StopPcs
      <4>2. sh'.msg \in StopMsg /\ sh'.id \in Ids BY <2>1, <2>3, <3>2
      <4> QED BY <1>1, <2>1, <2>2, <4>1, <4>2 DEF HandlerTypes
    <3> QED BY <2>4, <3>1, <3>2
  <2> QED BY <1>1, <2>2, <2>5, <2>6, UserFrame, WorkFrame, RequestedFrame DEF EventTypes
<1>3. CASE StopUndeploys
  <2>1. UNCHANGED <<req, filed, live, proc, active, answer, stops>> /\ sh.pc = "found"
    BY <1>3 DEF StopUndeploys, workVars, queueVars
  <2>2. \/ sh' = [sh EXCEPT !.pc = "undeploying"] /\ UNCHANGED panicked
        \/ panicked' = TRUE /\ UNCHANGED sh
    BY <1>3 DEF StopUndeploys
  <2>3. HandlerTypes' BY <1>1, <2>1, <2>2 DEF HandlerTypes, StopPcs
  <2> QED BY <1>1, <2>1, <2>3, UserFrame, WorkFrame, RequestedFrame DEF EventTypes, AnswerTypes
<1>4. CASE StopWorkload
  <2>1. UNCHANGED <<stops, panicked>> /\ sh.pc = "undeploying" /\ sh' = NoMsg
    BY <1>4 DEF StopWorkload, queueVars
  <2>2. sh.id \in Ids BY <2>1 DEF HandlerTypes
  <2>3. WorkTypes' /\ Requested'
    BY <1>1, <1>4, <2>2, StopProcessTyped DEF StopWorkload
  <2>4. {sh.id} \in SUBSET Ids BY <2>2
  <2>5. AnswerTypes' BY <1>4, <2>4, AnswerTyped DEF StopWorkload
  <2>6. HandlerTypes' BY <1>1, <2>1 DEF HandlerTypes, NoMsg, StopPcs
  <2> QED BY <1>1, <2>3, <2>5, <2>6, UserFrame DEF EventTypes
<1> QED BY <1>2, <1>3, <1>4 DEF StopStep

(***************************************************************************)
(* Lame duck mode, agents and events.                                      *)
(***************************************************************************)
LEMMA LameDuckTyped ==
    ASSUME TypeInv, LameDuckStep
    PROVE  TypeInv'
<1> USE DEF TypeInv
<1>0. {} \in SUBSET Ids /\ TRUE \in BOOLEAN OBVIOUS
<1>1. UNCHANGED <<world, clock, client, deploys, stops, dh, sh, filed, live, proc, active,
                  ev, panicked>>
  BY DEF LameDuckStep, ClearEssential, EnterLameDuck, clientVars, queueVars, workVars
<1>2. CASE EnterLameDuck
  <2> DEFINE m == Head(lames)
  <2>1. m \in LameMsg /\ Tail(lames) \in Seq(LameMsg)
    BY <1>2, HeadTailProperties DEF EnterLameDuck, HandlerTypes
  <2>2. UNCHANGED req /\ lame' = TRUE /\ lames' = Tail(lames)
    BY <1>2 DEF EnterLameDuck, workVars
  <2>3. \/ Answer(m.from, m.n, TRUE, {}) /\ UNCHANGED lh
        \/ lh' = m /\ UNCHANGED answer
    BY <1>2 DEF EnterLameDuck
  <2> HIDE DEF m
  <2>4. AnswerTypes' BY <1>0, <2>3, AnswerTyped DEF AnswerTypes
  <2>5. HandlerTypes' BY <1>1, <2>1, <2>2, <2>3 DEF HandlerTypes
  <2> QED BY <1>1, <2>2, <2>4, <2>5, UserFrame, WorkFrame, RequestedFrame DEF EventTypes
<1>3. CASE ClearEssential
  <2>1. UNCHANGED <<lame, lames>> /\ lh' = None /\ Answer(lh.from, lh.n, TRUE, {})
    BY <1>3 DEF ClearEssential, queueVars
  <2>2. AnswerTypes' BY <1>0, <2>1, AnswerTyped
  <2>3. HandlerTypes' BY <1>1, <2>1 DEF HandlerTypes
  <2>4. req' = [i \in Ids |-> IF i \in filed THEN [req[i] EXCEPT !.essential = FALSE]
                              ELSE req[i]]
    BY <1>3 DEF ClearEssential
  <2>5. ASSUME NEW i \in Ids PROVE req'[i] \in DeployMsg \cup {None} /\ (req[i] # None => req'[i] # None)
    <3>1. CASE i \in filed
      <4>1. req[i] \in DeployMsg BY <3>1 DEF WorkTypes, Requested
      <4>2. [req[i] EXCEPT !.essential = FALSE] \in DeployMsg BY <4>1 DEF DeployMsg
      <4>3. req'[i] \in DeployMsg BY <2>4, <3>1, <4>2
      <4> QED BY <4>3, ControlPlaneAssumption
    <3>2. CASE i \notin filed BY <2>4, <3>2 DEF WorkTypes
    <3> QED BY <3>1, <3>2
  <2>6. WorkTypes' BY <1>1, <2>4, <2>5 DEF WorkTypes
  <2>7. Requested' BY <1>1, <2>5 DEF Requested
  <2> QED BY <1>1, <2>2, <2>3, <2>6, <2>7, UserFrame DEF EventTypes
<1> QED BY <1>2, <1>3 DEF LameDuckStep

LEMMA WorkloadTyped ==
    ASSUME TypeInv, NEW i \in Ids,
           AgentDeploys(i) \/ \E code \in {0, 1} : WorkloadExits(i, code)
    PROVE  TypeInv'
<1> USE DEF TypeInv
<1>1. UNCHANGED <<world, clock, client, answer, deploys, stops, lames, dh, sh, lh, lame, req,
                  filed, live, active, panicked>>
  BY DEF AgentDeploys, WorkloadExits, clientVars, queueVars
<1>2. proc[i] # "none" BY DEF AgentDeploys, WorkloadExits
<1>3. proc' \in [Ids -> ProcStates] /\ \A k \in Ids \ {i} : proc'[k] = proc[k]
  BY DEF AgentDeploys, WorkloadExits, WorkTypes, ProcStates
<1>4. EventTypes' /\ \A k \in Ids \ {i} : ev'[k] = ev[k]
  <2>1. CASE AgentDeploys(i) BY <2>1 DEF AgentDeploys, EventTypes
  <2>2. ASSUME NEW code \in {0, 1}, WorkloadExits(i, code)
        PROVE  EventTypes' /\ \A k \in Ids \ {i} : ev'[k] = ev[k]
    BY <2>2 DEF WorkloadExits, EventTypes, EventPcs
  <2> QED BY <2>1, <2>2
<1>5. Requested' BY <1>1, <1>2, <1>3, <1>4 DEF Requested
<1>6. WorkTypes' BY <1>1, <1>3 DEF WorkTypes
<1> QED BY <1>1, <1>4, <1>5, <1>6, UserFrame, HandlerFrame DEF AnswerTypes

\* The message of a re-deployment.
LEMMA AgainTyped ==
    ASSUME NEW r \in DeployMsg, NEW i \in Ids
    PROVE  LET m == [r EXCEPT !.from = i, !.n = 1, !.retries = @ + 1]
           IN  m \in DeployMsg /\ m.chain = r.chain
<1> DEFINE a == [r EXCEPT !.from = i]
           b == [a EXCEPT !.n = 1]
           m == [b EXCEPT !.retries = @ + 1]
<1>1. a \in DeployMsg /\ a.chain = r.chain BY DEF DeployMsg
<1> HIDE DEF a
<1>2. b \in DeployMsg /\ b.chain = r.chain BY <1>1 DEF DeployMsg
<1> HIDE DEF b
<1>3. m \in DeployMsg /\ m.chain = r.chain BY <1>2 DEF DeployMsg
<1>4. [r EXCEPT !.from = i, !.n = 1, !.retries = @ + 1] = m BY <1>2 DEF DeployMsg, a, b
<1> QED BY <1>3, <1>4

LEMMA EventGoesTyped ==
    ASSUME EventTypes, NEW i \in Ids, NEW pc \in EventPcs, EventGoes(i, pc)
    PROVE  EventTypes' /\ (\A k \in Ids \ {i} : ev'[k] = ev[k]) /\ ev'[i].pc = pc
           /\ ev'[i].code = ev[i].code
<1>1. ev' = [ev EXCEPT ![i].pc = pc] BY DEF EventGoes
<1> QED BY <1>1 DEF EventTypes

LEMMA EventTyped ==
    ASSUME TypeInv, NEW i \in Ids, EventStep(i)
    PROVE  TypeInv'
<1> USE DEF TypeInv
<1>1. PICK pc \in EventPcs : EventGoes(i, pc)
  <2>1. CASE AgentEvent(i) BY <2>1 DEF AgentEvent, EventPcs
  <2>2. CASE ~AgentEvent(i)
    BY <2>2 DEF EventStep, EventLocks, EventStops, EventDecides, EventAnswered, EventPcs
  <2> QED BY <2>1, <2>2
<1>2. ev[i].pc # "none"
  BY DEF EventStep, AgentEvent, EventLocks, EventStops, EventDecides, EventAnswered
<1>3. UNCHANGED <<world, clock, client, answer, stops, lames, dh, sh, lh, lame>>
  BY <1>1 DEF EventGoes, clientVars, EventStep, AgentEvent, EventLocks, EventStops,
              EventDecides, EventAnswered
<1>4. EventTypes' /\ \A k \in Ids \ {i} : ev'[k] = ev[k]
  BY <1>1, EventGoesTyped
<1>5. \A k \in Ids : ev'[k].pc # "none" => ev[k].pc # "none"
  BY <1>2, <1>4
<1>6. req[i] \in DeployMsg BY <1>2 DEF Requested, WorkTypes
<1>7. panicked' \in BOOLEAN
  BY DEF HandlerTypes, EventStep, AgentEvent, EventLocks, EventStops, EventDecides,
         EventAnswered
<1>8. CASE EventDecides(i) /\ Redeploys(i)
  <2> DEFINE m == [req[i] EXCEPT !.from = i, !.n = 1, !.retries = @ + 1]
  <2>1. deploys' = Append(deploys, m) /\ req' = [req EXCEPT ![i].retries = @ + 1]
        /\ UNCHANGED <<filed, live, proc, active>>
    BY <1>8 DEF EventDecides
  <2>2. m \in DeployMsg BY <1>6, AgainTyped
  <2> HIDE DEF m
  <2>3. deploys' \in Seq(DeployMsg)
    BY <2>1, <2>2, AppendProperties DEF HandlerTypes
  <2>4. req'[i] \in DeployMsg /\ \A k \in Ids \ {i} : req'[k] = req[k]
    <3>1. [req[i] EXCEPT !.retries = @ + 1] \in DeployMsg BY <1>6 DEF DeployMsg
    <3>2. req'[i] = [req[i] EXCEPT !.retries = @ + 1] BY <2>1 DEF WorkTypes
    <3>3. \A k \in Ids \ {i} : req'[k] = req[k] BY <2>1 DEF WorkTypes
    <3> QED BY <3>1, <3>2, <3>3
  <2>5. DOMAIN req' = Ids /\ req' = [k \in Ids |-> req'[k]] BY <2>1 DEF WorkTypes
  <2>6. WorkTypes' BY <2>1, <2>4, <2>5 DEF WorkTypes
  <2>7. Requested' BY <1>5, <2>1, <2>4, ControlPlaneAssumption DEF Requested
  <2>8. HandlerTypes' BY <1>3, <1>7, <2>3 DEF HandlerTypes
  <2> QED BY <1>3, <1>4, <2>6, <2>7, <2>8, UserFrame DEF AnswerTypes
<1>9. CASE ~(EventDecides(i) /\ Redeploys(i))
  <2>1. UNCHANGED deploys
    BY <1>9 DEF EventStep, AgentEvent, EventLocks, EventStops, EventDecides, EventAnswered
  <2>2. HandlerTypes' BY <1>3, <1>7, <2>1 DEF HandlerTypes
  <2>3. WorkTypes' /\ Requested'
    <3>1. CASE UNCHANGED workVars
      BY <1>5, <3>1, WorkFrame DEF workVars, Requested
    <3>2. CASE StopProcess(i) \/ KillFails(i)
      BY <1>5, <3>2, StopProcessTyped
    <3>3. CASE UNCHANGED <<req, filed, live, proc, active>>
      BY <1>5, <3>3, WorkFrame DEF Requested
    <3> QED
      BY <1>9, <3>1, <3>2, <3>3
         DEF EventStep, AgentEvent, EventLocks, EventStops, EventDecides, EventAnswered
  <2> QED BY <1>3, <1>4, <2>2, <2>3, UserFrame DEF AnswerTypes
<1> QED BY <1>8, <1>9

(***************************************************************************)
(* The invariant.                                                          *)
(***************************************************************************)
LEMMA TypeInvInit == Init => TypeInv
<1> SUFFICES ASSUME Init PROVE TypeInv
  OBVIOUS
<1>1. UserTypes
  <2>1. client \in [Clients -> Shell] BY DEF Init, Shell, ClientPcs
  <2>2. clock \in 0..MaxClock BY ControlPlaneAssumption DEF Init
  <2>3. \A c \in Clients : client[c].pc = "idle" BY DEF Init
  <2> QED BY <2>1, <2>2, <2>3 DEF Init, UserTypes
<1>2. AnswerTypes BY DEF Init, AnswerTypes
<1>3. HandlerTypes
  <2>1. deploys \in Seq(DeployMsg) /\ stops \in Seq(StopMsg) /\ lames \in Seq(LameMsg)
    BY DEF Init
  <2>2. NoMsg \in [pc : DeployPcs, msg : DeployMsg \cup {None}, id : Ids \cup {None}]
    BY DEF NoMsg, DeployPcs
  <2>3. NoMsg \in [pc : StopPcs, msg : StopMsg \cup {None}, id : Ids \cup {None}]
    BY DEF NoMsg, StopPcs
  <2>4. NoMsg.pc = "idle" BY DEF NoMsg
  <2> QED BY <2>1, <2>2, <2>3, <2>4 DEF Init, HandlerTypes
<1>4. WorkTypes BY DEF Init, WorkTypes, ProcStates
<1>5. EventTypes BY DEF Init, EventTypes, EventPcs
<1>6. Requested BY DEF Init, Requested
<1> QED BY <1>1, <1>2, <1>3, <1>4, <1>5, <1>6 DEF TypeInv

LEMMA TypeInvStep == TypeInv /\ [Next]_vars => TypeInv'
<1> SUFFICES ASSUME TypeInv, [Next]_vars PROVE TypeInv'
  OBVIOUS
<1>1. CASE UNCHANGED vars
  <2>1. UNCHANGED <<world, clock, client, answer, deploys, stops, lames, dh, sh, lh, lame, req,
                    filed, live, proc, active, ev, panicked>>
    BY <1>1 DEF vars, clientVars, queueVars, workVars
  <2> QED BY <2>1, UserFrame, HandlerFrame, WorkFrame, RequestedFrame
          DEF TypeInv, AnswerTypes, EventTypes
<1>2. CASE Tick
  <2>1. UNCHANGED <<world, client, answer, deploys, stops, lames, dh, sh, lh, lame, req,
                    filed, live, proc, active, ev, panicked>>
    BY <1>2 DEF Tick, clientVars, queueVars, workVars
  <2>2. world.seconds \in 0..MaxClock BY ControlPlaneAssumption DEF TypeInv, UserTypes, World
  <2>3. clock' \in 0..MaxClock BY <1>2, <2>2, ControlPlaneAssumption DEF Tick, TypeInv, UserTypes
  <2>4. UserTypes' BY <2>1, <2>3 DEF TypeInv, UserTypes
  <2> QED BY <2>1, <2>4, HandlerFrame, WorkFrame, RequestedFrame
          DEF TypeInv, AnswerTypes, EventTypes
<1>3. ASSUME NEW c \in Clients, UserStep(c) PROVE TypeInv'
  <2>1. UserTypes' /\ AnswerTypes' /\ HandlerTypes' BY <1>3, UserTyped
  <2>2. UNCHANGED <<req, filed, live, proc, active, ev>>
    BY <1>3 DEF UserStep, Begins, ListEnds, GotInfo, GotStop, GotAnswer, TimesOut,
                clientFrame, workVars
  <2> QED BY <2>1, <2>2, WorkFrame, RequestedFrame DEF TypeInv, EventTypes
<1>4. ASSUME NEW c \in Clients, Question(c) PROVE TypeInv'
  <2>1. AnswerTypes' BY <1>4, QuestionTyped
  <2>2. UNCHANGED <<world, clock, client, deploys, stops, lames, dh, sh, lh, lame, req,
                    filed, live, proc, active, ev, panicked>>
    BY <1>4, QuestionTyped DEF questionFrame, clientVars, queueVars, workVars
  <2> QED BY <2>1, <2>2, UserFrame, HandlerFrame, WorkFrame, RequestedFrame
          DEF TypeInv, EventTypes
<1> QED BY <1>1, <1>2, <1>3, <1>4, DeployTyped, StopTyped, LameDuckTyped, WorkloadTyped,
           EventTyped DEF Next

LEMMA TypeInvHolds == Spec => []TypeInv
BY TypeInvInit, TypeInvStep, PTL DEF Spec

\* Every variable has its type in every reachable state: a handler at work
\* has a message and, once it has an agent, a process, and deployRequests
\* never holds a request whose process is not in liveProcs.
THEOREM ControlPlaneTyped == Spec => []TypeOK
BY TypeInvHolds, TypeInvTypeOK, PTL

(***************************************************************************)
(* Lame duck mode.                                                         *)
(***************************************************************************)

DhShape == dh = [pc |-> dh.pc, msg |-> dh.msg, id |-> dh.id]

\* Nothing is late, or one process is and handleDeploy has none to start.
DuckInv ==
    /\ DhShape
    /\ \/ late = {}
       \/ lame /\ dh.pc \notin {"caching", "deploying"} /\ \E x : late = {x}

\* Steps of everyone but handleDeploy.
LEMMA OthersKeep ==
    ASSUME DuckInv, UNCHANGED <<dh, late>>, lame' \in {lame, TRUE}
    PROVE  DuckInv'
BY DEF DuckInv, DhShape

\* handleDeploy answers and is idle.
LEMMA IdleKeeps ==
    ASSUME DuckInv, dh' = NoMsg, UNCHANGED <<late, lame>>
    PROVE  DuckInv'
BY DEF DuckInv, DhShape, NoMsg

LEMMA ClientsKeep ==
    ASSUME NEW c \in Clients, UserStep(c) \/ Question(c)
    PROVE  UNCHANGED <<dh, late, lame>>
<1>1. ASSUME UserStep(c) PROVE clientFrame
  BY <1>1 DEF UserStep, Begins, ListEnds, GotInfo, GotStop, GotAnswer, TimesOut
<1>2. ASSUME Question(c) PROVE questionFrame
  BY <1>2 DEF Question, HandlePing, HandleInfo, HandleWorkloadPing
<1> QED BY <1>1, <1>2 DEF clientFrame, questionFrame, workVars

LEMMA StopsKeep ==
    ASSUME StopStep
    PROVE  UNCHANGED <<dh, late, lame>>
<1>1. CASE HandleStop BY <1>1 DEF HandleStop, workVars
<1>2. CASE StopUndeploys BY <1>2 DEF StopUndeploys, workVars
<1>3. CASE StopWorkload BY <1>3 DEF StopWorkload, StopProcess, KillFails
<1> QED BY <1>1, <1>2, <1>3 DEF StopStep

LEMMA EventsKeep ==
    ASSUME NEW i \in Ids,
           AgentDeploys(i) \/ EventStep(i) \/ \E code \in {0, 1} : WorkloadExits(i, code)
    PROVE  UNCHANGED <<dh, late, lame>>
<1>1. CASE AgentDeploys(i) BY <1>1 DEF AgentDeploys
<1>2. CASE AgentEvent(i) BY <1>2 DEF AgentEvent, EventGoes, workVars
<1>3. CASE EventLocks(i) BY <1>3 DEF EventLocks, EventGoes, workVars
<1>4. CASE EventStops(i)
  BY <1>4 DEF EventStops, EventGoes, StopProcess, KillFails, workVars
<1>5. CASE EventDecides(i) BY <1>5 DEF EventDecides, EventGoes
<1>6. CASE EventAnswered(i) BY <1>6 DEF EventAnswered, EventGoes, workVars
<1>7. CASE \E code \in {0, 1} : WorkloadExits(i, code) BY <1>7 DEF WorkloadExits
<1> QED BY <1>1, <1>2, <1>3, <1>4, <1>5, <1>6, <1>7 DEF EventStep

LEMMA DeployKeeps ==
    ASSUME DuckInv, DeployStep
    PROVE  DuckInv'
<1>1. CASE HandleDeploy
  <2>1. UNCHANGED <<late, lame>> BY <1>1 DEF HandleDeploy, workVars
  <2>2. CASE lame \/ Refusable(Head(deploys).job)
    <3>1. dh' = NoMsg BY <1>1, <2>2 DEF HandleDeploy, DeployFails
    <3> QED BY <3>1, <2>1, IdleKeeps
  <2>3. CASE ~(lame \/ Refusable(Head(deploys).job))
    <3>1. late = {} BY <2>3 DEF DuckInv
    <3>2. dh' = [pc |-> "caching", msg |-> Head(deploys), id |-> None]
      BY <1>1, <2>3 DEF HandleDeploy
    <3> QED BY <3>1, <3>2, <2>1 DEF DuckInv, DhShape
  <2> QED BY <2>2, <2>3
<1>2. CASE CacheWorkload
  <2>1. UNCHANGED <<late, lame>> /\ dh.pc = "caching" BY <1>2 DEF CacheWorkload, workVars
  <2>2. late = {} BY <2>1 DEF DuckInv
  <2>3. \/ dh' = NoMsg \/ dh' = dh \/ dh' = [dh EXCEPT !.pc = "deploying"]
    BY <1>2 DEF CacheWorkload, DeployFails
  <2>4. DhShape'
    BY <2>3 DEF DhShape, NoMsg, DuckInv
  <2> QED BY <2>1, <2>2, <2>4 DEF DuckInv
<1>3. CASE DeployWorkload
  <2>1. late = {} BY <1>3 DEF DeployWorkload, DuckInv
  <2>2. PICK i \in Ids : /\ late' = IF lame THEN late \cup {i} ELSE late
                         /\ dh' = [dh EXCEPT !.pc = "sent", !.id = i]
    BY <1>3 DEF DeployWorkload
  <2>3. dh' = [pc |-> "sent", msg |-> dh.msg, id |-> i]
    BY <2>2 DEF DuckInv, DhShape
  <2>4. DhShape' /\ dh'.pc = "sent" BY <2>3 DEF DhShape
  <2>5. lame' = lame BY <1>3 DEF DeployWorkload
  <2>6. late' = {} \/ (lame /\ late' = {i}) BY <2>1, <2>2
  <2> QED BY <2>4, <2>5, <2>6 DEF DuckInv
<1>4. CASE NoAgent \/ DeployAccepted \/ DeployRejected \/ DeployTimesOut
  <2>1. dh' = NoMsg
    BY <1>4 DEF NoAgent, DeployAccepted, DeployRejected, DeployTimesOut, DeployFails
  <2>2. UNCHANGED <<late, lame>>
    BY <1>4 DEF NoAgent, DeployAccepted, DeployRejected, DeployTimesOut, StopProcess,
       KillFails, workVars
  <2> QED BY <2>1, <2>2, IdleKeeps
<1> QED BY <1>1, <1>2, <1>3, <1>4 DEF DeployStep

LEMMA DuckInvStep == DuckInv /\ [Next]_vars => DuckInv'
<1> SUFFICES ASSUME DuckInv, [Next]_vars PROVE DuckInv'
  OBVIOUS
<1>1. CASE UNCHANGED vars
  BY <1>1, OthersKeep DEF vars, workVars
<1>2. CASE Tick
  BY <1>2, OthersKeep DEF Tick, workVars
<1>3. ASSUME NEW c \in Clients, UserStep(c) \/ Question(c) PROVE DuckInv'
  BY <1>3, ClientsKeep, OthersKeep
<1>4. CASE DeployStep
  BY <1>4, DeployKeeps
<1>5. CASE StopStep
  BY <1>5, StopsKeep, OthersKeep
<1>6. CASE LameDuckStep
  <2>1. lame' \in {lame, TRUE} BY <1>6 DEF LameDuckStep, ClearEssential, EnterLameDuck
  <2>2. UNCHANGED <<dh, late>>
    BY <1>6 DEF LameDuckStep, ClearEssential, EnterLameDuck, workVars
  <2> QED BY <2>1, <2>2, OthersKeep
<1>7. ASSUME NEW i \in Ids,
             AgentDeploys(i) \/ EventStep(i) \/ \E code \in {0, 1} : WorkloadExits(i, code)
      PROVE  DuckInv'
  BY <1>7, EventsKeep, OthersKeep
<1> QED BY <1>1, <1>2, <1>3, <1>4, <1>5, <1>6, <1>7 DEF Next

\* A lame duck starts at most the deployment that was past its check: neither
\* queued requests nor re-deployments of essential workloads get through,
\* however many of them there are.
THEOREM LameDuckHolds == Spec => []LameDuckAdmitsNoMore
<1>1. Init => DuckInv
  BY DEF Init, DuckInv, DhShape, NoMsg
<1>2. DuckInv => LameDuckAdmitsNoMore
  <2> SUFFICES ASSUME DuckInv PROVE Cardinality(late) <= 1
    BY DEF LameDuckAdmitsNoMore
  <2>1. CASE late = {}
    <3>1. Cardinality(late) = 0 BY <2>1, FS_EmptySet
    <3> QED BY <3>1
  <2>2. ASSUME NEW x, late = {x} PROVE Cardinality(late) <= 1
    <3>1. Cardinality({x}) = 1 BY FS_Singleton
    <3> QED BY <2>2, <3>1
  <2> QED BY <2>1, <2>2 DEF DuckInv
<1> QED BY <1>1, <1>2, DuckInvStep, PTL DEF Spec

(***************************************************************************)
(* OneAtATime.                                                             *)
(***************************************************************************)

\* handleDeploy has a message for which there is no process yet.
AtWork == dh.pc \in {"caching", "deploying"}

\* The process i runs, was refused by its agent, or has ended and may still be
\* deployed again.
Holds(i) ==
    \/ proc[i] \in {"prepared", "running", "refused"}
    \/ ev[i].pc \in {"pending", "stopping", "locking", "stopped"}

\* A shell in the states cl has begun this chain.
Begun(cl, ch) ==
    ch[2] <= cl[ch[1]].done + (IF cl[ch[1]].pc = "starting" THEN 1 ELSE 0)

\* A chain is in one place: in a message that waits, in the hands of
\* handleDeploy, or with a process.
QueueDistinct ==
    \A a, b \in 1..Len(deploys) : deploys[a].chain = deploys[b].chain => a = b

HandlerApart ==
    AtWork => \A a \in 1..Len(deploys) : deploys[a].chain # dh.msg.chain

ProcessesApart ==
    \A i \in Ids : Holds(i) =>
        /\ \A a \in 1..Len(deploys) : deploys[a].chain # req[i].chain
        /\ AtWork => dh.msg.chain # req[i].chain
        /\ \A k \in Ids : Holds(k) /\ req[k].chain = req[i].chain => k = i

AllBegun ==
    /\ \A a \in 1..Len(deploys) : Begun(client, deploys[a].chain)
    /\ AtWork => Begun(client, dh.msg.chain)
    /\ \A i \in Ids : Holds(i) => Begun(client, req[i].chain)

\* An event means that the workload has run and has ended.
EventsAfter ==
    \A i \in Ids : proc[i] \in {"prepared", "running", "refused"} => ev[i].pc = "none"

ChainInv == QueueDistinct /\ HandlerApart /\ ProcessesApart /\ AllBegun /\ EventsAfter

LEMMA ChainTyped ==
    ASSUME TypeInv
    PROVE  /\ \A a \in 1..Len(deploys) : deploys[a] \in DeployMsg /\ deploys[a].chain \in Chains
           /\ AtWork => dh.msg \in DeployMsg /\ dh.msg.chain \in Chains
           /\ \A i \in Ids : Holds(i) => req[i] \in DeployMsg /\ req[i].chain \in Chains
<1>1. ASSUME NEW a \in 1..Len(deploys) PROVE deploys[a] \in DeployMsg
  <2>1. deploys \in Seq(DeployMsg) BY DEF TypeInv, HandlerTypes
  <2> QED BY <2>1, ElementOfSeq
<1>2. AtWork => dh.msg \in DeployMsg BY DEF AtWork, TypeInv, HandlerTypes
<1>3. ASSUME NEW i \in Ids, Holds(i) PROVE req[i] \in DeployMsg
  BY <1>3 DEF Holds, TypeInv, Requested, WorkTypes
<1>4. \A m \in DeployMsg : m.chain \in Chains BY DEF DeployMsg
<1> QED BY <1>1, <1>2, <1>3, <1>4

\* A user's command goes on or ends: what was begun stays begun.
LEMMA BegunKept ==
    ASSUME UserTypes, UserTypes', NEW ch \in Chains, Begun(client, ch),
           \A c \in Clients : \/ client'[c].done = client[c].done
                                  /\ (client[c].pc = "starting" => client'[c].pc = "starting")
                              \/ client'[c].done = client[c].done + 1
    PROVE  Begun(client', ch)
<1>1. ch[1] \in Clients /\ ch[2] \in Nat BY DEF Chains
<1>2. client[ch[1]].done \in Nat /\ client'[ch[1]].done \in Nat
  BY <1>1 DEF UserTypes, Shell
<1> QED BY <1>1, <1>2 DEF Begun

\* A step that starts nothing and queues nothing.
LEMMA ChainFrame ==
    ASSUME ChainInv, TypeInv, UNCHANGED deploys,
           AtWork' => AtWork /\ dh'.msg.chain = dh.msg.chain,
           \A i \in Ids : Holds(i)' => Holds(i) /\ req'[i].chain = req[i].chain,
           EventsAfter',
           \A ch \in Chains : Begun(client, ch) => Begun(client', ch)
    PROVE  ChainInv'
<1>1. QueueDistinct' BY DEF ChainInv, QueueDistinct
<1>2. HandlerApart' BY DEF ChainInv, HandlerApart
<1>3. ProcessesApart' BY DEF ChainInv, ProcessesApart
<1>4. AllBegun'
  <2>1. ASSUME NEW a \in 1..Len(deploys') PROVE Begun(client', deploys'[a].chain)
    BY <2>1, ChainTyped DEF ChainInv, AllBegun
  <2>2. ASSUME AtWork' PROVE Begun(client', dh'.msg.chain)
    BY <2>2, ChainTyped DEF ChainInv, AllBegun
  <2>3. ASSUME NEW i \in Ids, Holds(i)' PROVE Begun(client', req'[i].chain)
    BY <2>3, ChainTyped DEF ChainInv, AllBegun
  <2> QED BY <2>1, <2>2, <2>3 DEF AllBegun
<1> QED BY <1>1, <1>2, <1>3, <1>4 DEF ChainInv

\* A message with a chain that is nowhere is queued.
LEMMA ChainQueued ==
    ASSUME ChainInv, TypeInv, NEW m, m \in DeployMsg, deploys' = Append(deploys, m),
           UNCHANGED dh,
           \A i \in Ids : Holds(i)' => Holds(i) /\ req'[i].chain = req[i].chain,
           EventsAfter',
           \A ch \in Chains : Begun(client, ch) => Begun(client', ch),
           Begun(client', m.chain),
           \A a \in 1..Len(deploys) : deploys[a].chain # m.chain,
           AtWork => dh.msg.chain # m.chain,
           \A i \in Ids : Holds(i)' => req[i].chain # m.chain
    PROVE  ChainInv'
<1>1. /\ Len(deploys) \in Nat /\ Len(deploys') = Len(deploys) + 1
      /\ \A a \in 1..Len(deploys) : deploys'[a] = deploys[a]
      /\ deploys'[Len(deploys) + 1] = m
  <2>1. deploys \in Seq(DeployMsg) BY DEF TypeInv, HandlerTypes
  <2> QED BY <2>1, AppendProperties, LenProperties
<1>2. \A a \in 1..Len(deploys') : a \in 1..Len(deploys) \/ a = Len(deploys) + 1
  BY <1>1
<1>3. QueueDistinct' BY <1>1, <1>2 DEF ChainInv, QueueDistinct
<1>4. AtWork' <=> AtWork BY DEF AtWork
<1>5. HandlerApart' BY <1>1, <1>2, <1>4 DEF ChainInv, HandlerApart
<1>6. ProcessesApart'
  <2> SUFFICES ASSUME NEW i \in Ids, Holds(i)'
               PROVE  /\ \A a \in 1..Len(deploys') : deploys'[a].chain # req'[i].chain
                      /\ AtWork' => dh'.msg.chain # req'[i].chain
                      /\ \A k \in Ids : Holds(k)' /\ req'[k].chain = req'[i].chain => k = i
    BY DEF ProcessesApart
  <2>1. Holds(i) /\ req'[i].chain = req[i].chain /\ req[i].chain # m.chain OBVIOUS
  <2>2. \A a \in 1..Len(deploys') : deploys'[a].chain # req'[i].chain
    BY <1>1, <1>2, <2>1 DEF ChainInv, ProcessesApart
  <2>3. AtWork' => dh'.msg.chain # req'[i].chain
    BY <1>4, <2>1 DEF ChainInv, ProcessesApart
  <2>4. \A k \in Ids : Holds(k)' /\ req'[k].chain = req'[i].chain => k = i
    BY <2>1 DEF ChainInv, ProcessesApart
  <2> QED BY <2>2, <2>3, <2>4
<1>7. AllBegun'
  <2>1. ASSUME NEW a \in 1..Len(deploys') PROVE Begun(client', deploys'[a].chain)
    BY <1>1, <1>2, <2>1, ChainTyped DEF ChainInv, AllBegun
  <2>2. ASSUME AtWork' PROVE Begun(client', dh'.msg.chain)
    BY <1>4, <2>2, ChainTyped DEF ChainInv, AllBegun
  <2>3. ASSUME NEW i \in Ids, Holds(i)' PROVE Begun(client', req'[i].chain)
    BY <2>3, ChainTyped DEF ChainInv, AllBegun
  <2> QED BY <2>1, <2>2, <2>3 DEF AllBegun
<1> QED BY <1>3, <1>5, <1>6, <1>7 DEF ChainInv

\* What requests and returns do to the shells.
LEMMA ShellSteps ==
    ASSUME UserTypes, NEW c \in Clients
    PROVE  /\ \A pc, todo : Asks(c, pc, todo) =>
                 /\ client'[c].done = client[c].done /\ client'[c].pc = pc
                 /\ \A d \in Clients \ {c} : client'[d] = client[d]
           /\ Returns(c) =>
                 /\ client'[c].done = client[c].done + 1
                 /\ \A d \in Clients \ {c} : client'[d] = client[d]
<1>1. client[c] \in Shell BY DEF UserTypes
<1>2. ASSUME NEW pc, NEW todo, Asks(c, pc, todo)
      PROVE  /\ client'[c].done = client[c].done /\ client'[c].pc = pc
             /\ \A d \in Clients \ {c} : client'[d] = client[d]
  BY <1>1, <1>2 DEF Asks, UserTypes, Shell
<1>3. ASSUME Returns(c)
      PROVE  /\ client'[c].done = client[c].done + 1
             /\ \A d \in Clients \ {c} : client'[d] = client[d]
  BY <1>1, <1>3 DEF Returns, UserTypes, Shell
<1> QED BY <1>2, <1>3

\* Who deploys has not begun to, and what was begun stays begun.
LEMMA UserBegun ==
    ASSUME TypeInv, TypeInv', NEW c \in Clients, UserStep(c)
    PROVE  /\ \/ AsksDeploy(c) /\ client[c].pc # "starting"
              \/ UNCHANGED deploys
           /\ \A ch \in Chains : Begun(client, ch) => Begun(client', ch)
<1>1. \/ AsksDeploy(c) /\ client[c].pc # "starting"
      \/ /\ UNCHANGED deploys
         /\ \/ Returns(c)
            \/ client[c].pc # "starting" /\ \E pc, todo : Asks(c, pc, todo)
  <2>1. CASE Begins(c)
    BY <2>1 DEF Begins, RunDevWorkload, RunWorkload, StopCommand, LameDuck, ListWorkloads,
                ListNodes, NodeInfo, PingsNodes, AsksInfo, AsksStop, AsksLameDuck,
                PingsWorkloads, queueVars
  <2>2. CASE ListEnds(c) BY <2>2 DEF ListEnds, AsksInfo, queueVars
  <2>3. CASE GotInfo(c) BY <2>3 DEF GotInfo, AsksStop, queueVars
  <2>4. CASE GotStop(c) BY <2>4 DEF GotStop, AsksStop, queueVars
  <2>5. CASE GotAnswer(c) \/ TimesOut(c) BY <2>5 DEF GotAnswer, TimesOut, queueVars
  <2> QED BY <2>1, <2>2, <2>3, <2>4, <2>5 DEF UserStep
<1>2. \A d \in Clients : \/ client'[d].done = client[d].done
                              /\ (client[d].pc = "starting" => client'[d].pc = "starting")
                         \/ client'[d].done = client[d].done + 1
  <2>1. UserTypes BY DEF TypeInv
  <2>2. CASE Returns(c) BY <2>1, <2>2, ShellSteps
  <2>3. ASSUME NEW pc, NEW todo, client[c].pc # "starting", Asks(c, pc, todo)
        PROVE  \A d \in Clients : \/ client'[d].done = client[d].done
                                       /\ (client[d].pc = "starting" => client'[d].pc = "starting")
                                  \/ client'[d].done = client[d].done + 1
    <3>1. client'[c].done = client[c].done /\ \A d \in Clients \ {c} : client'[d] = client[d]
      BY <2>1, <2>3, ShellSteps
    <3> QED BY <2>3, <3>1
  <2> QED BY <1>1, <2>2, <2>3 DEF AsksDeploy
<1>3. \A ch \in Chains : Begun(client, ch) => Begun(client', ch)
  BY <1>2, BegunKept DEF TypeInv
<1> QED BY <1>1, <1>3

LEMMA UserChains ==
    ASSUME TypeInv, TypeInv', ChainInv, NEW c \in Clients, UserStep(c)
    PROVE  ChainInv'
<1>1. clientFrame
  BY DEF UserStep, Begins, ListEnds, GotInfo, GotStop, GotAnswer, TimesOut
<1>2. UNCHANGED <<dh, req, proc, ev>> BY <1>1 DEF clientFrame, workVars
<1>3. (AsksDeploy(c) /\ client[c].pc # "starting") \/ UNCHANGED deploys BY UserBegun
<1>5. \A ch \in Chains : Begun(client, ch) => Begun(client', ch) BY UserBegun
<1>6. AtWork' <=> AtWork BY <1>2 DEF AtWork
<1>7. \A i \in Ids : (Holds(i)' <=> Holds(i)) /\ req'[i] = req[i] BY <1>2 DEF Holds
<1>8. EventsAfter' BY <1>2 DEF ChainInv, EventsAfter
<1>9. CASE UNCHANGED deploys BY <1>2, <1>5, <1>6, <1>7, <1>8, <1>9, ChainFrame
<1>10. CASE AsksDeploy(c) /\ client[c].pc # "starting"
  <2> DEFINE m == NewDeployRequest(c, client[c].n + 1, Cmd(c).job)
  <2>1. deploys' = Append(deploys, m) /\ Asks(c, "starting", {}) BY <1>10 DEF AsksDeploy
  <2>2. m.chain = <<c, client[c].done + 1>> BY DEF NewDeployRequest
  <2>3. m \in DeployMsg
    <3>1. deploys \in Seq(DeployMsg) /\ deploys' \in Seq(DeployMsg)
      BY DEF TypeInv, HandlerTypes
    <3>2. Len(deploys') = Len(deploys) + 1 /\ deploys'[Len(deploys) + 1] = m
          /\ Len(deploys) \in Nat
      <4> HIDE DEF m
      <4> QED BY <2>1, <3>1, LenProperties
    <3>3. Len(deploys) + 1 \in 1..Len(deploys') BY <3>2
    <3>4. deploys'[Len(deploys) + 1] \in DeployMsg BY <3>1, <3>3, ElementOfSeq
    <3> QED BY <3>2, <3>4
  <2>4. client[c].done \in Nat BY DEF TypeInv, UserTypes, Shell
  <2>5. ~Begun(client, m.chain)
    <3> HIDE DEF m
    <3> QED BY <1>10, <2>2, <2>4 DEF Begun
  <2>6. Begun(client', m.chain)
    <3>1. client'[c].done = client[c].done /\ client'[c].pc = "starting"
      BY <2>1, ShellSteps DEF TypeInv
    <3> HIDE DEF m
    <3> QED BY <2>2, <2>4, <3>1 DEF Begun
  <2> HIDE DEF m
  <2>7. /\ \A a \in 1..Len(deploys) : deploys[a].chain # m.chain
        /\ AtWork => dh.msg.chain # m.chain
        /\ \A i \in Ids : Holds(i) => req[i].chain # m.chain
    BY <2>5 DEF ChainInv, AllBegun
  <2> QED BY <1>2, <1>5, <1>7, <1>8, <2>1, <2>3, <2>6, <2>7, ChainQueued
<1> QED BY <1>3, <1>9, <1>10

\* Steps of neither users nor handleDeploy that queue nothing.
LEMMA OtherChains ==
    ASSUME TypeInv, ChainInv, UNCHANGED <<client, deploys, dh>>,
           \A i \in Ids : Holds(i)' => Holds(i) /\ req'[i].chain = req[i].chain,
           EventsAfter'
    PROVE  ChainInv'
<1>1. AtWork' <=> AtWork BY DEF AtWork
<1>2. \A ch \in Chains : Begun(client, ch) => Begun(client', ch) OBVIOUS
<1> QED BY <1>1, <1>2, ChainFrame

\* A process that is stopped holds its chain only if its end has an event.
LEMMA StopChains ==
    ASSUME TypeInv, ChainInv, NEW i \in Ids, StopProcess(i) \/ KillFails(i), UNCHANGED ev
    PROVE  /\ \A k \in Ids : Holds(k)' => Holds(k) /\ req'[k].chain = req[k].chain
           /\ EventsAfter'
<1>1. req' = req BY DEF StopProcess, KillFails
<1>2. \A k \in Ids : proc'[k] = proc[k] \/ proc'[k] = "killed"
  BY DEF StopProcess, KillFails, TypeInv, WorkTypes
<1> QED BY <1>1, <1>2 DEF Holds, EventsAfter, ChainInv

\* The steps of handleDeploy after which it has no message without a process,
\* or the one it had.
LEMMA DeployChainsKept ==
    ASSUME TypeInv, ChainInv, UNCHANGED <<client, deploys, ev>>,
           dh' = NoMsg \/ (AtWork /\ dh'.msg = dh.msg),
           \/ UNCHANGED <<req, proc>>
           \/ \E i \in Ids : StopProcess(i) \/ KillFails(i)
    PROVE  ChainInv'
<1>1. AtWork' => AtWork /\ dh'.msg.chain = dh.msg.chain BY DEF AtWork, NoMsg
<1>2. /\ \A k \in Ids : Holds(k)' => Holds(k) /\ req'[k].chain = req[k].chain
      /\ EventsAfter'
  <2>1. CASE UNCHANGED <<req, proc>> BY <2>1 DEF Holds, EventsAfter, ChainInv
  <2>2. CASE \E i \in Ids : StopProcess(i) \/ KillFails(i) BY <2>2, StopChains
  <2> QED BY <2>1, <2>2
<1>3. \A ch \in Chains : Begun(client, ch) => Begun(client', ch) OBVIOUS
<1> QED BY <1>1, <1>2, <1>3, ChainFrame

LEMMA HandleDeployChains ==
    ASSUME TypeInv, ChainInv, HandleDeploy
    PROVE  ChainInv'
<1> DEFINE m == Head(deploys)
<1>1. UNCHANGED <<client, req, proc, ev>> /\ dh.pc = "idle" /\ deploys' = Tail(deploys)
  BY DEF HandleDeploy, clientVars, workVars
<1>2. dh' = NoMsg \/ dh' = [pc |-> "caching", msg |-> m, id |-> None]
  BY DEF HandleDeploy, DeployFails
<1>3. /\ Len(deploys) \in Nat /\ Len(deploys) > 0 /\ Len(deploys') = Len(deploys) - 1
      /\ m = deploys[1] /\ \A a \in 1..Len(deploys') : deploys'[a] = deploys[a + 1]
  <2>1. deploys \in Seq(DeployMsg) /\ deploys # <<>>
    BY DEF TypeInv, HandlerTypes, HandleDeploy
  <2>2. Len(deploys) \in Nat /\ Len(deploys) > 0 BY <2>1, EmptySeq, LenProperties
  <2>3. m = deploys[1] BY <2>1
  <2>4. Len(deploys') = Len(deploys) - 1 BY <1>1, <2>1, <2>2
  <2>5. \A a \in 1..Len(deploys') : deploys'[a] = deploys[a + 1]
    BY <1>1, <2>1, <2>2, <2>4
  <2> QED BY <2>2, <2>3, <2>4, <2>5
<1> HIDE DEF m
<1>4. \A a \in 1..Len(deploys') : a + 1 \in 1..Len(deploys) /\ a + 1 # 1 BY <1>3
<1>5. 1 \in 1..Len(deploys) BY <1>3
<1>6. AtWork' => dh'.msg = m BY <1>2 DEF AtWork, NoMsg
<1>7. \A i \in Ids : (Holds(i)' <=> Holds(i)) /\ req'[i] = req[i] BY <1>1 DEF Holds
<1>8. QueueDistinct'
  <2> SUFFICES ASSUME NEW a \in 1..Len(deploys'), NEW b \in 1..Len(deploys'),
                      deploys'[a].chain = deploys'[b].chain
               PROVE  a = b
    BY DEF QueueDistinct
  <2>1. a + 1 = b + 1 BY <1>3, <1>4 DEF ChainInv, QueueDistinct
  <2>2. a \in Nat /\ b \in Nat BY <1>3
  <2> QED BY <2>1, <2>2
<1>9. HandlerApart'
  <2> SUFFICES ASSUME AtWork', NEW a \in 1..Len(deploys')
               PROVE  deploys'[a].chain # dh'.msg.chain
    BY DEF HandlerApart
  <2> QED BY <1>3, <1>4, <1>5, <1>6 DEF ChainInv, QueueDistinct
<1>10. ProcessesApart'
  <2> SUFFICES ASSUME NEW i \in Ids, Holds(i)
               PROVE  /\ \A a \in 1..Len(deploys') : deploys'[a].chain # req[i].chain
                      /\ AtWork' => dh'.msg.chain # req[i].chain
                      /\ \A k \in Ids : Holds(k) /\ req[k].chain = req[i].chain => k = i
    BY <1>7 DEF ProcessesApart
  <2>1. \A a \in 1..Len(deploys) : deploys[a].chain # req[i].chain
    BY DEF ChainInv, ProcessesApart
  <2>2. \A k \in Ids : Holds(k) /\ req[k].chain = req[i].chain => k = i
    BY DEF ChainInv, ProcessesApart
  <2> QED BY <1>3, <1>4, <1>5, <1>6, <2>1, <2>2
<1>11. AllBegun'
  <2>1. ASSUME NEW a \in 1..Len(deploys') PROVE Begun(client', deploys'[a].chain)
    BY <1>1, <1>3, <1>4, <2>1 DEF ChainInv, AllBegun
  <2>2. ASSUME AtWork' PROVE Begun(client', dh'.msg.chain)
    BY <1>1, <1>3, <1>5, <1>6, <2>2 DEF ChainInv, AllBegun
  <2>3. ASSUME NEW i \in Ids, Holds(i)' PROVE Begun(client', req'[i].chain)
    BY <1>1, <1>7, <2>3 DEF ChainInv, AllBegun
  <2> QED BY <2>1, <2>2, <2>3 DEF AllBegun
<1>12. EventsAfter' BY <1>1 DEF ChainInv, EventsAfter
<1> QED BY <1>8, <1>9, <1>10, <1>11, <1>12 DEF ChainInv

LEMMA DeployWorkloadChains ==
    ASSUME TypeInv, ChainInv, DeployWorkload
    PROVE  ChainInv'
<1>1. UNCHANGED <<client, deploys, ev>> /\ AtWork
  BY DEF DeployWorkload, clientVars, queueVars, AtWork
<1>2. PICK i \in Ids : /\ NextId(i)
                       /\ req' = [req EXCEPT ![i] = dh.msg]
                       /\ proc' = [proc EXCEPT ![i] = "prepared"]
                       /\ dh' = [dh EXCEPT !.pc = "sent", !.id = i]
  BY DEF DeployWorkload
<1>3. ~AtWork' BY <1>2 DEF AtWork, TypeInv, HandlerTypes
<1>4. proc[i] = "none" /\ ev[i].pc = "none"
  BY <1>2 DEF NextId, TypeInv, Requested
<1>5. req'[i].chain = dh.msg.chain /\ proc'[i] = "prepared"
      /\ \A k \in Ids \ {i} : req'[k] = req[k] /\ proc'[k] = proc[k]
  BY <1>2 DEF TypeInv, WorkTypes
<1>6. \A k \in Ids \ {i} : Holds(k)' <=> Holds(k) BY <1>1, <1>5 DEF Holds
<1>7. QueueDistinct' /\ HandlerApart' BY <1>1, <1>3 DEF ChainInv, QueueDistinct, HandlerApart
<1>8. ProcessesApart'
  <2> SUFFICES ASSUME NEW k \in Ids, Holds(k)'
               PROVE  /\ \A a \in 1..Len(deploys) : deploys[a].chain # req'[k].chain
                      /\ \A j \in Ids : Holds(j)' /\ req'[j].chain = req'[k].chain => j = k
    BY <1>1, <1>3 DEF ProcessesApart
  <2>1. \A a \in 1..Len(deploys) : deploys[a].chain # req'[k].chain
    <3>1. CASE k = i BY <1>1, <1>5, <3>1 DEF ChainInv, HandlerApart
    <3>2. CASE k # i BY <1>5, <1>6, <3>2 DEF ChainInv, ProcessesApart
    <3> QED BY <3>1, <3>2
  <2>2. ASSUME NEW j \in Ids, Holds(j)', req'[j].chain = req'[k].chain, j # k
        PROVE  FALSE
    <3>1. \A l \in Ids \ {i} : Holds(l)' => req'[l].chain # req'[i].chain
      BY <1>1, <1>5, <1>6 DEF ChainInv, ProcessesApart
    <3>2. CASE j # i /\ k # i
      <4>1. Holds(j) /\ Holds(k) /\ req[j].chain = req[k].chain
        BY <1>5, <1>6, <2>2, <3>2
      <4> QED BY <2>2, <4>1 DEF ChainInv, ProcessesApart
    <3> QED BY <2>2, <3>1, <3>2
  <2> QED BY <2>1, <2>2
<1>9. AllBegun'
  <2>1. ASSUME NEW k \in Ids, Holds(k)' PROVE Begun(client', req'[k].chain)
    <3>1. CASE k = i BY <1>1, <1>5, <3>1 DEF ChainInv, AllBegun
    <3>2. CASE k # i BY <1>1, <1>5, <1>6, <2>1, <3>2 DEF ChainInv, AllBegun
    <3> QED BY <3>1, <3>2
  <2> QED BY <1>1, <1>3, <2>1 DEF ChainInv, AllBegun
<1>10. EventsAfter'
  BY <1>1, <1>4, <1>5 DEF ChainInv, EventsAfter
<1> QED BY <1>7, <1>8, <1>9, <1>10 DEF ChainInv

LEMMA DeployChains ==
    ASSUME TypeInv, ChainInv, DeployStep
    PROVE  ChainInv'
<1>1. CASE CacheWorkload
  <2>1. dh' = NoMsg \/ (AtWork /\ dh'.msg = dh.msg)
    BY <1>1 DEF CacheWorkload, DeployFails, AtWork, TypeInv, HandlerTypes
  <2> QED BY <1>1, <2>1, DeployChainsKept DEF CacheWorkload, clientVars, queueVars, workVars
<1>2. CASE NoAgent \/ DeployTimesOut
  BY <1>2, DeployChainsKept
     DEF NoAgent, DeployTimesOut, DeployFails, clientVars, queueVars, workVars
<1>3. CASE DeployAccepted
  BY <1>3, DeployChainsKept DEF DeployAccepted, clientVars, queueVars
<1>4. CASE DeployRejected
  <2>1. dh.id \in Ids BY <1>4 DEF DeployRejected, TypeInv, HandlerTypes
  <2> QED BY <1>4, <2>1, DeployChainsKept DEF DeployRejected, DeployFails, clientVars, queueVars
<1> QED BY <1>1, <1>2, <1>3, <1>4, HandleDeployChains, DeployWorkloadChains DEF DeployStep

LEMMA StopStepChains ==
    ASSUME TypeInv, ChainInv, StopStep
    PROVE  ChainInv'
<1>1. UNCHANGED <<client, deploys, dh, ev>>
  BY DEF StopStep, HandleStop, StopUndeploys, StopWorkload, clientVars, queueVars
<1>2. CASE HandleStop \/ StopUndeploys
  <2>1. UNCHANGED <<req, proc>> BY <1>2 DEF HandleStop, StopUndeploys, workVars
  <2> QED BY <1>1, <2>1, OtherChains DEF Holds, EventsAfter, ChainInv
<1>3. CASE StopWorkload
  <2>1. sh.id \in Ids BY <1>3 DEF StopWorkload, TypeInv, HandlerTypes
  <2>2. StopProcess(sh.id) \/ KillFails(sh.id) BY <1>3 DEF StopWorkload
  <2> QED BY <1>1, <2>1, <2>2, StopChains, OtherChains
<1> QED BY <1>2, <1>3 DEF StopStep

LEMMA LameDuckChains ==
    ASSUME TypeInv, ChainInv, LameDuckStep
    PROVE  ChainInv'
<1>1. UNCHANGED <<client, deploys, dh, proc, ev>>
  BY DEF LameDuckStep, ClearEssential, EnterLameDuck, clientVars, queueVars, workVars
<1>2. \A i \in Ids : Holds(i) => req'[i].chain = req[i].chain
  <2>1. CASE ClearEssential
    <3>1. ASSUME NEW i \in Ids, Holds(i) PROVE req'[i].chain = req[i].chain
      <4>1. req[i] \in DeployMsg BY <3>1, ChainTyped
      <4>2. [req[i] EXCEPT !.essential = FALSE].chain = req[i].chain
        BY <4>1 DEF DeployMsg
      <4> QED BY <2>1, <4>2 DEF ClearEssential
    <3> QED BY <3>1
  <2>2. CASE ~ClearEssential BY <2>2 DEF LameDuckStep, EnterLameDuck, workVars
  <2> QED BY <2>1, <2>2
<1>3. \A i \in Ids : Holds(i)' <=> Holds(i) BY <1>1 DEF Holds
<1>4. EventsAfter' BY <1>1 DEF EventsAfter, ChainInv
<1> QED BY <1>1, <1>2, <1>3, <1>4, OtherChains

LEMMA WorkloadChains ==
    ASSUME TypeInv, ChainInv, NEW i \in Ids,
           AgentDeploys(i) \/ \E code \in {0, 1} : WorkloadExits(i, code)
    PROVE  ChainInv'
<1>1. UNCHANGED <<client, deploys, dh, req>> /\ Holds(i)
  BY DEF AgentDeploys, WorkloadExits, clientVars, queueVars, Holds
<1>2. \A k \in Ids \ {i} : proc'[k] = proc[k] /\ ev'[k] = ev[k]
  BY DEF AgentDeploys, WorkloadExits, TypeInv, WorkTypes, EventTypes
<1>3. EventsAfter'
  <2>1. CASE AgentDeploys(i)
    BY <2>1 DEF AgentDeploys, EventsAfter, ChainInv, TypeInv, WorkTypes
  <2>2. ASSUME NEW code \in {0, 1}, WorkloadExits(i, code) PROVE EventsAfter'
    <3>1. proc'[i] = "ended" BY <2>2 DEF WorkloadExits, TypeInv, WorkTypes
    <3> QED BY <1>2, <3>1 DEF EventsAfter, ChainInv
  <2> QED BY <2>1, <2>2
<1>4. \A k \in Ids : Holds(k)' => Holds(k) BY <1>1, <1>2 DEF Holds
<1> QED BY <1>1, <1>3, <1>4, OtherChains

\* agentEvent queues a chain again when the process that had it has ended.
LEMMA EventChains ==
    ASSUME TypeInv, ChainInv, NEW i \in Ids, EventStep(i)
    PROVE  ChainInv'
<1>1. PICK pc \in EventPcs : EventGoes(i, pc) /\
         (pc \in {"pending", "stopping", "locking", "stopped"} =>
             ev[i].pc \in {"pending", "stopping", "locking", "stopped"})
         /\ pc # "none"
  <2>1. CASE AgentEvent(i) BY <2>1 DEF AgentEvent, EventPcs
  <2>2. CASE EventLocks(i) BY <2>2 DEF EventLocks, EventPcs
  <2>3. CASE EventStops(i) BY <2>3 DEF EventStops, EventPcs
  <2>4. CASE EventDecides(i) BY <2>4 DEF EventDecides, EventPcs
  <2>5. CASE EventAnswered(i) BY <2>5 DEF EventAnswered, EventPcs
  <2> QED BY <2>1, <2>2, <2>3, <2>4, <2>5 DEF EventStep
<1>2. (\A k \in Ids \ {i} : ev'[k] = ev[k]) /\ ev'[i].pc = pc
  BY <1>1, EventGoesTyped DEF TypeInv
<1>3. UNCHANGED <<client, dh>> BY <1>1 DEF EventGoes, clientVars
<1>4. ev[i].pc # "none"
  BY DEF EventStep, AgentEvent, EventLocks, EventStops, EventDecides, EventAnswered
<1>5. proc[i] \notin {"prepared", "running", "refused"} BY <1>4 DEF ChainInv, EventsAfter
<1>6. \A k \in Ids : proc'[k] = proc[k] \/ proc'[k] = "killed"
  BY DEF EventStep, AgentEvent, EventLocks, EventStops, EventDecides, EventAnswered,
         StopProcess, KillFails, workVars, TypeInv, WorkTypes
<1>7. EventsAfter' BY <1>2, <1>5, <1>6 DEF ChainInv, EventsAfter
<1>8. \A k \in Ids : Holds(k)' => Holds(k) BY <1>1, <1>2, <1>6 DEF Holds
<1>9. CASE EventDecides(i) /\ Redeploys(i)
  <2> DEFINE m == [req[i] EXCEPT !.from = i, !.n = 1, !.retries = @ + 1]
  <2>1. deploys' = Append(deploys, m) /\ EventGoes(i, "waiting")
        /\ req' = [req EXCEPT ![i].retries = @ + 1] /\ ev[i].pc = "stopped"
    BY <1>9 DEF EventDecides
  <2>2. Holds(i) BY <2>1 DEF Holds
  <2>3. m \in DeployMsg /\ m.chain = req[i].chain BY <2>2, ChainTyped, AgainTyped
  <2> HIDE DEF m
  <2>4. ev'[i].pc = "waiting" BY <2>1, EventGoesTyped DEF TypeInv, EventPcs
  <2>5. ~Holds(i)' BY <1>5, <1>6, <2>4 DEF Holds
  <2>6. \A k \in Ids \ {i} : req'[k] = req[k] BY <2>1 DEF TypeInv, WorkTypes
  <2>7. \A k \in Ids : Holds(k)' => k # i /\ Holds(k) /\ req'[k].chain = req[k].chain
    BY <1>8, <2>5, <2>6
  <2>8. /\ \A a \in 1..Len(deploys) : deploys[a].chain # m.chain
        /\ AtWork => dh.msg.chain # m.chain
        /\ \A k \in Ids : Holds(k)' => req[k].chain # m.chain
    BY <2>2, <2>3, <2>7 DEF ChainInv, ProcessesApart
  <2>9. Begun(client', m.chain) BY <1>3, <2>2, <2>3 DEF ChainInv, AllBegun
  <2>10. \A ch \in Chains : Begun(client, ch) => Begun(client', ch) BY <1>3
  <2> QED BY <1>3, <1>7, <2>1, <2>3, <2>7, <2>8, <2>9, <2>10, ChainQueued
<1>10. CASE ~(EventDecides(i) /\ Redeploys(i))
  <2>1. UNCHANGED <<deploys, req>>
    BY <1>10 DEF EventStep, AgentEvent, EventLocks, EventStops, EventDecides, EventAnswered,
                 StopProcess, KillFails, workVars
  <2> QED BY <1>3, <1>7, <1>8, <2>1, OtherChains
<1> QED BY <1>9, <1>10

LEMMA ChainInvStep == TypeInv /\ TypeInv' /\ ChainInv /\ [Next]_vars => ChainInv'
<1> SUFFICES ASSUME TypeInv, TypeInv', ChainInv, [Next]_vars PROVE ChainInv'
  OBVIOUS
<1>1. ASSUME UNCHANGED <<client, deploys, dh, req, proc, ev>> PROVE ChainInv'
  BY <1>1, OtherChains DEF Holds, EventsAfter, ChainInv
<1>2. CASE UNCHANGED vars
  BY <1>1, <1>2 DEF vars, clientVars, queueVars, workVars
<1>3. CASE Tick
  BY <1>1, <1>3 DEF Tick, clientVars, queueVars, workVars
<1>4. ASSUME NEW c \in Clients, Question(c) PROVE ChainInv'
  <2>1. questionFrame BY <1>4, QuestionTyped
  <2> QED BY <1>1, <2>1 DEF questionFrame, clientVars, queueVars, workVars
<1> QED BY <1>2, <1>3, <1>4, UserChains, DeployChains, StopStepChains, LameDuckChains,
           WorkloadChains, EventChains DEF Next

LEMMA InitChains == Init => ChainInv
<1> SUFFICES ASSUME Init PROVE ChainInv
  OBVIOUS
<1>1. Len(deploys) = 0 /\ ~AtWork BY DEF Init, AtWork, NoMsg
<1>2. \A i \in Ids : ~Holds(i) BY DEF Init, Holds
<1>3. EventsAfter BY DEF Init, EventsAfter
<1> QED BY <1>1, <1>2, <1>3
        DEF ChainInv, QueueDistinct, HandlerApart, ProcessesApart, AllBegun

\* However many users deploy and however often their workloads crash or hang,
\* a request and its re-deployments are at no time two running processes.
THEOREM DeploymentsRunOnce == Spec => []OneAtATime
<1>1. ChainInv => OneAtATime
  BY DEF ChainInv, ProcessesApart, Holds, OneAtATime, Used, ChainOf
<1> QED BY <1>1, InitChains, TypeInvHolds, ChainInvStep, PTL DEF Spec

(***************************************************************************)
(* Messages and answers.                                                   *)
(***************************************************************************)
Elems(s) == {s[a] : a \in 1..Len(s)}

\* The messages of handleDeploy, handleStop and handleLameDuck: those that
\* wait, and the one at hand.
Deploying == Elems(deploys) \cup (IF dh.pc # "idle" THEN {dh.msg} ELSE {})
Stopping == Elems(stops) \cup (IF sh.pc # "idle" THEN {sh.msg} ELSE {})
Laming == Elems(lames) \cup (IF lh # None THEN {lh} ELSE {})

\* A client with the shells cl has sent m, and if m is its last request it
\* waits for the answer at pc or not at all.
SentAt(cl, m, pc) ==
    /\ m.n <= cl[m.from].n
    /\ m.n = cl[m.from].n => cl[m.from].pc \in {pc, "idle"}

DeploySent(cl, m) ==
    /\ SentAt(cl, m, "starting")
    /\ m.n = cl[m.from].n /\ cl[m.from].pc = "starting"
         => m.chain = <<m.from, cl[m.from].done + 1>>

\* An answer never goes to a shell that waits for another kind of answer.
PostInv ==
    /\ \A m \in Deploying : m.from \in Clients => DeploySent(client, m)
    /\ \A m \in Stopping : SentAt(client, m, "stopping")
    /\ \A m \in Laming : SentAt(client, m, "laming")
    /\ sh.pc # "idle" => sh.id = sh.msg.id

LEMMA AppendElems ==
    ASSUME NEW S, NEW s \in Seq(S), NEW m
    PROVE  Elems(Append(s, m)) = Elems(s) \cup {m}
<1> DEFINE t == Append(s, m)
<1>1. /\ Len(s) \in Nat /\ Len(t) = Len(s) + 1 /\ t[Len(s) + 1] = m
      /\ \A a \in 1..Len(s) : t[a] = s[a]
  BY AppendProperties, LenProperties
<1> HIDE DEF t
<1>2. \A a : a \in 1..Len(t) <=> a \in 1..Len(s) \/ a = Len(s) + 1 BY <1>1
<1>3. Elems(t) = Elems(s) \cup {m} BY <1>1, <1>2 DEF Elems
<1> QED BY <1>3 DEF t

LEMMA TailElems ==
    ASSUME NEW S, NEW s \in Seq(S), s # <<>>
    PROVE  /\ Head(s) \in Elems(s)
           /\ Elems(s) = Elems(Tail(s)) \cup {Head(s)}
<1> DEFINE t == Tail(s)
<1>1. Len(s) \in Nat /\ Len(s) > 0 BY EmptySeq, LenProperties
<1>2. Head(s) = s[1] /\ 1 \in 1..Len(s) BY <1>1
<1>3. Len(t) = Len(s) - 1 /\ \A a \in 1..Len(t) : t[a] = s[a + 1] BY <1>1
<1> HIDE DEF t
<1>4. \A a \in 1..Len(t) : a + 1 \in 1..Len(s) BY <1>1, <1>3
<1>5. \A a \in 1..Len(s) : a = 1 \/ (a - 1 \in 1..Len(t) /\ t[a - 1] = s[a])
  <2> SUFFICES ASSUME NEW a \in 1..Len(s), a # 1 PROVE a - 1 \in 1..Len(t) /\ t[a - 1] = s[a]
    OBVIOUS
  <2>1. a - 1 \in 1..Len(t) /\ (a - 1) + 1 = a BY <1>1, <1>3
  <2> QED BY <1>3, <2>1
<1>6. Elems(t) \subseteq Elems(s) BY <1>3, <1>4 DEF Elems
<1>7. Elems(s) \subseteq Elems(t) \cup {Head(s)} BY <1>2, <1>5 DEF Elems
<1>8. Head(s) \in Elems(s) BY <1>2 DEF Elems
<1>9. Elems(s) = Elems(t) \cup {Head(s)} BY <1>6, <1>7, <1>8
<1> QED BY <1>8, <1>9 DEF t

LEMMA ElemsTyped ==
    ASSUME NEW S, NEW s \in Seq(S)
    PROVE  Elems(s) \subseteq S
BY ElementOfSeq DEF Elems

LEMMA MessagesTyped ==
    ASSUME HandlerTypes
    PROVE  /\ Deploying \subseteq DeployMsg /\ Stopping \subseteq StopMsg
           /\ Laming \subseteq LameMsg
<1>1. Elems(deploys) \subseteq DeployMsg /\ Elems(stops) \subseteq StopMsg
      /\ Elems(lames) \subseteq LameMsg
  BY ElemsTyped DEF HandlerTypes
<1> QED BY <1>1 DEF HandlerTypes, Deploying, Stopping, Laming

\* The field of a message that says whose it is.
LEMMA SenderTyped ==
    /\ \A m \in DeployMsg : m.from \in Clients \cup Ids /\ m.n \in Nat
    /\ \A m \in StopMsg : m.from \in Clients /\ m.n \in Nat /\ m.id \in Ids
    /\ \A m \in LameMsg : m.from \in Clients /\ m.n \in Nat
BY DEF DeployMsg, StopMsg, LameMsg

\* The first answer is taken, by someone who waits for it.
LEMMA AnswerEffect ==
    ASSUME AnswerTypes, NEW r \in Clients \cup Ids, NEW n, NEW ok, NEW ids,
           Answer(r, n, ok, ids)
    PROVE  /\ \A x \in Clients \cup Ids : x # r => answer'[x] = answer[x]
           /\ \/ answer'[r] = answer[r]
              \/ Waits(r, n) /\ answer[r] = None /\ answer'[r] = [ok |-> ok, ids |-> ids]
BY DEF AnswerTypes, Answer

LEMMA NoneIsNoAnswer ==
    ASSUME NEW a, a \in Answers \cup {None}, a # None
    PROVE  a.ok \in BOOLEAN /\ a.ids \subseteq Ids
BY DEF Answers

\* What was sent stays sent as the shells go on.
ShellsGoOn(cl, cm) ==
    \A c \in Clients : \/ cm[c] = cl[c]
                       \/ cm[c].n = cl[c].n + 1
                       \/ cm[c].n = cl[c].n /\ cm[c].pc = "idle"

LEMMA SentStays ==
    ASSUME NEW cl \in [Clients -> Shell], NEW cm \in [Clients -> Shell], ShellsGoOn(cl, cm),
           NEW m, m.from \in Clients, m.n \in Nat
    PROVE  /\ \A pc : SentAt(cl, m, pc) => SentAt(cm, m, pc)
           /\ DeploySent(cl, m) => DeploySent(cm, m)
<1>1. cl[m.from].n \in Nat /\ cm[m.from].n \in Nat BY DEF Shell
<1>2. ASSUME NEW pc, SentAt(cl, m, pc) PROVE SentAt(cm, m, pc)
  BY <1>1, <1>2 DEF SentAt, ShellsGoOn
<1>3. ASSUME DeploySent(cl, m) PROVE DeploySent(cm, m)
  <2>1. SentAt(cm, m, "starting") BY <1>2, <1>3 DEF DeploySent
  <2>2. ASSUME m.n = cm[m.from].n, cm[m.from].pc = "starting"
        PROVE  cm[m.from] = cl[m.from]
    BY <1>1, <1>3, <2>2 DEF DeploySent, SentAt, ShellsGoOn
  <2> QED BY <1>3, <2>1, <2>2 DEF DeploySent
<1> QED BY <1>2, <1>3

\* What requests and returns do to the shells and to their answers.
LEMMA ShellEffect ==
    ASSUME UserTypes, AnswerTypes, NEW c \in Clients
    PROVE  /\ \A pc, todo : Asks(c, pc, todo) =>
                 /\ client'[c].n = client[c].n + 1 /\ client'[c].done = client[c].done
                 /\ client'[c].pc = pc /\ client'[c].todo = todo
                 /\ \A d \in Clients \ {c} : client'[d] = client[d]
                 /\ answer'[c] = None
                 /\ \A x \in Clients \cup Ids : x # c => answer'[x] = answer[x]
           /\ Returns(c) =>
                 /\ client'[c].n = client[c].n /\ client'[c].done = client[c].done + 1
                 /\ client'[c].pc = "idle"
                 /\ \A d \in Clients \ {c} : client'[d] = client[d]
                 /\ answer'[c] = None
                 /\ \A x \in Clients \cup Ids : x # c => answer'[x] = answer[x]
<1>1. client[c] \in Shell /\ client \in [Clients -> Shell] BY DEF UserTypes
<1>2. ASSUME NEW pc, NEW todo, Asks(c, pc, todo)
      PROVE  /\ client'[c].n = client[c].n + 1 /\ client'[c].done = client[c].done
             /\ client'[c].pc = pc /\ client'[c].todo = todo
             /\ \A d \in Clients \ {c} : client'[d] = client[d]
  BY <1>1, <1>2 DEF Asks, Shell
<1>3. ASSUME Returns(c)
      PROVE  /\ client'[c].n = client[c].n /\ client'[c].done = client[c].done + 1
             /\ client'[c].pc = "idle"
             /\ \A d \in Clients \ {c} : client'[d] = client[d]
  BY <1>1, <1>3 DEF Returns, Shell
<1>4. ASSUME answer' = [answer EXCEPT ![c] = None]
      PROVE  /\ answer'[c] = None
             /\ \A x \in Clients \cup Ids : x # c => answer'[x] = answer[x]
  BY <1>4 DEF AnswerTypes
<1>5. \A pc, todo : Asks(c, pc, todo) => answer' = [answer EXCEPT ![c] = None] BY DEF Asks
<1>6. Returns(c) => answer' = [answer EXCEPT ![c] = None] BY DEF Returns
<1> QED BY <1>2, <1>3, <1>4, <1>5, <1>6

\* What a step of a user is.
LEMMA UserEffect ==
    ASSUME TypeInv, NEW c \in Clients, UserStep(c)
    PROVE  /\ clientFrame
           /\ \/ AsksDeploy(c)
              \/ \E i \in Ids : \E todo \in SUBSET Ids : AsksStop(c, i, todo)
              \/ AsksLameDuck(c)
              \/ \E pc \in {"listing", "info", "wlisting"} :
                    Asks(c, pc, {}) /\ UNCHANGED queueVars
              \/ Returns(c) /\ UNCHANGED queueVars
<1> USE DEF TypeInv
<1>1. clientFrame
  BY DEF UserStep, Begins, ListEnds, GotInfo, GotStop, GotAnswer, TimesOut
<1> DEFINE Does == \/ AsksDeploy(c)
                   \/ \E i \in Ids : \E todo \in SUBSET Ids : AsksStop(c, i, todo)
                   \/ AsksLameDuck(c)
                   \/ \E pc \in {"listing", "info", "wlisting"} :
                         Asks(c, pc, {}) /\ UNCHANGED queueVars
                   \/ Returns(c) /\ UNCHANGED queueVars
<1>2. ASSUME NEW S \in SUBSET Ids, \E i \in S : AsksStop(c, i, S \ {i}) PROVE Does
  <2>1. PICK i \in S : AsksStop(c, i, S \ {i}) BY <1>2
  <2>2. i \in Ids /\ S \ {i} \in SUBSET Ids OBVIOUS
  <2> QED BY <2>1, <2>2
<1>3. CASE Begins(c)
  <2>1. {} \in SUBSET Ids OBVIOUS
  <2>2. (\E i \in Ids : AsksStop(c, i, {})) => Does BY <2>1
  <2>3. (PingsNodes(c) \/ AsksInfo(c) \/ PingsWorkloads(c)) => Does
    BY DEF PingsNodes, AsksInfo, PingsWorkloads
  <2>4. AsksLameDuck(c) => Does OBVIOUS
  <2> HIDE DEF Does
  <2>5. Does
    BY <1>3, <2>2, <2>3, <2>4
       DEF Begins, RunDevWorkload, RunWorkload, StopCommand, LameDuck, ListWorkloads,
           ListNodes, NodeInfo
  <2> QED BY <1>1, <2>5 DEF Does
<1>4. CASE ListEnds(c)
  BY <1>1, <1>4 DEF ListEnds, AsksInfo
<1>5. CASE GotInfo(c)
  <2> DEFINE same == IF Cmd(c).op = "devrun"
                     THEN {i \in answer[c].ids : req[i].job.name = Cmd(c).job.name} ELSE {}
  <2>1. answer[c].ids \subseteq Ids
    BY <1>5 DEF GotInfo, AnswerTypes, Answers
  <2>2. same \in SUBSET Ids BY <2>1
  <2>3. \/ Returns(c) /\ UNCHANGED queueVars
        \/ AsksDeploy(c)
        \/ \E i \in same : AsksStop(c, i, same \ {i})
    BY <1>5 DEF GotInfo
  <2> HIDE DEF same
  <2>4. Does BY <1>2, <2>2, <2>3
  <2> QED BY <1>1, <2>4
<1>6. CASE GotStop(c)
  <2> DEFINE S == client[c].todo
  <2>1. S \in SUBSET Ids BY DEF UserTypes, Shell
  <2>2. \/ Returns(c) /\ UNCHANGED queueVars
        \/ AsksDeploy(c)
        \/ \E k \in S : AsksStop(c, k, S \ {k})
    BY <1>6 DEF GotStop
  <2> HIDE DEF S
  <2>3. Does BY <1>2, <2>1, <2>2
  <2> QED BY <1>1, <2>3
<1>7. CASE GotAnswer(c) \/ TimesOut(c)
  BY <1>1, <1>7 DEF GotAnswer, TimesOut
<1> QED BY <1>3, <1>4, <1>5, <1>6, <1>7 DEF UserStep

\* Only the steps of its user move a shell, and they move it on.
LEMMA UserGoesOn ==
    ASSUME TypeInv, TypeInv', NEW c \in Clients, UserStep(c)
    PROVE  ShellsGoOn(client, client')
<1>1. UserTypes /\ AnswerTypes BY DEF TypeInv
<1>2. (\E pc, todo : Asks(c, pc, todo)) \/ Returns(c)
  BY UserEffect DEF AsksDeploy, AsksStop, AsksLameDuck
<1>3. \A d \in Clients \ {c} : client'[d] = client[d] BY <1>1, <1>2, ShellEffect
<1>4. \/ client'[c].n = client[c].n + 1
      \/ client'[c].n = client[c].n /\ client'[c].pc = "idle"
  BY <1>1, <1>2, ShellEffect
<1> QED BY <1>3, <1>4 DEF ShellsGoOn

\* How the handlers move messages: none appears, except by an event.
LEMMA DeployMoves ==
    ASSUME TypeInv, DeployStep
    PROVE  /\ Deploying' \subseteq Deploying
           /\ UNCHANGED <<world, clock, client, toldStopped, refused, stops, sh, lames, lh, ev>>
<1>1. UNCHANGED <<world, clock, client, toldStopped, refused, stops, sh, lames, lh, ev>>
  BY DEF DeployStep, HandleDeploy, CacheWorkload, DeployWorkload, NoAgent, DeployAccepted,
         DeployRejected, DeployTimesOut, clientVars, queueVars
<1>2. dh \in [pc : DeployPcs, msg : DeployMsg \cup {None}, id : Ids \cup {None}]
      /\ deploys \in Seq(DeployMsg)
  BY DEF TypeInv, HandlerTypes
<1>3. CASE HandleDeploy
  <2>1. deploys' = Tail(deploys) /\ deploys # <<>> BY <1>3 DEF HandleDeploy
  <2>2. dh' = NoMsg \/ dh' = [pc |-> "caching", msg |-> Head(deploys), id |-> None]
    BY <1>3 DEF HandleDeploy, DeployFails
  <2>3. dh'.pc = "idle" \/ dh'.msg = Head(deploys) BY <2>2 DEF NoMsg
  <2>4. Elems(deploys') \subseteq Elems(deploys) /\ Head(deploys) \in Elems(deploys)
    BY <1>2, <2>1, TailElems
  <2> QED BY <1>1, <2>3, <2>4 DEF Deploying
<1>4. CASE ~HandleDeploy
  <2>1. UNCHANGED deploys
    BY <1>4 DEF DeployStep, CacheWorkload, DeployWorkload, NoAgent, DeployAccepted,
                DeployRejected, DeployTimesOut, queueVars
  <2>2. CASE CacheWorkload \/ DeployWorkload
    <3>1. dh.pc # "idle" BY <2>2 DEF CacheWorkload, DeployWorkload
    <3>2. dh'.pc = "idle" \/ dh'.msg = dh.msg
      <4>1. \/ dh' = NoMsg \/ dh' = dh \/ dh' = [dh EXCEPT !.pc = "deploying"]
            \/ \E i \in Ids : dh' = [dh EXCEPT !.pc = "sent", !.id = i]
        BY <2>2 DEF CacheWorkload, DeployWorkload, DeployFails
      <4>2. \A i : [dh EXCEPT !.pc = "sent", !.id = i].msg = dh.msg BY <1>2
      <4>3. [dh EXCEPT !.pc = "deploying"].msg = dh.msg BY <1>2
      <4>4. NoMsg.pc = "idle" BY DEF NoMsg
      <4> QED BY <4>1, <4>2, <4>3, <4>4
    <3> QED BY <1>1, <2>1, <3>1, <3>2 DEF Deploying
  <2>3. CASE ~(CacheWorkload \/ DeployWorkload)
    <3>1. dh' = NoMsg
      BY <1>4, <2>3 DEF DeployStep, NoAgent, DeployAccepted, DeployRejected, DeployTimesOut,
                        DeployFails
    <3>2. dh'.pc = "idle" BY <3>1 DEF NoMsg
    <3> QED BY <1>1, <2>1, <3>2 DEF Deploying
  <2> QED BY <2>2, <2>3
<1> QED BY <1>3, <1>4

LEMMA StopMoves ==
    ASSUME TypeInv, StopStep, sh.pc # "idle" => sh.id = sh.msg.id
    PROVE  /\ Stopping' \subseteq Stopping
           /\ UNCHANGED <<world, clock, client, toldStopped, refused, deploys, dh, lames, lh, ev>>
           /\ sh'.pc # "idle" => sh'.id = sh'.msg.id
<1>1. UNCHANGED <<world, clock, client, toldStopped, refused, deploys, dh, lames, lh, ev>>
  BY DEF StopStep, HandleStop, StopUndeploys, StopWorkload, clientVars, queueVars
<1>2. sh \in [pc : StopPcs, msg : StopMsg \cup {None}, id : Ids \cup {None}]
      /\ stops \in Seq(StopMsg)
  BY DEF TypeInv, HandlerTypes
<1>3. CASE HandleStop
  <2>1. stops' = Tail(stops) /\ stops # <<>> /\ sh.pc = "idle" BY <1>3 DEF HandleStop
  <2>2. \/ sh' = sh
        \/ sh' = [pc |-> "found", msg |-> Head(stops), id |-> Head(stops).id]
    BY <1>3 DEF HandleStop
  <2>3. sh'.pc = "idle" \/ (sh'.msg = Head(stops) /\ sh'.id = sh'.msg.id) BY <2>1, <2>2
  <2>4. Elems(stops') \subseteq Elems(stops) /\ Head(stops) \in Elems(stops)
    BY <1>2, <2>1, TailElems
  <2> QED BY <1>1, <2>3, <2>4 DEF Stopping
<1>4. CASE StopUndeploys
  <2>1. UNCHANGED stops /\ sh.pc = "found" BY <1>4 DEF StopUndeploys, queueVars
  <2>2. sh'.msg = sh.msg /\ sh'.id = sh.id BY <1>2, <1>4 DEF StopUndeploys
  <2> QED BY <1>1, <2>1, <2>2 DEF Stopping
<1>5. CASE StopWorkload
  <2>1. UNCHANGED stops /\ sh' = NoMsg BY <1>5 DEF StopWorkload, queueVars
  <2>2. sh'.pc = "idle" BY <2>1 DEF NoMsg
  <2> QED BY <1>1, <2>1, <2>2 DEF Stopping
<1> QED BY <1>3, <1>4, <1>5 DEF StopStep

LEMMA LameMoves ==
    ASSUME TypeInv, LameDuckStep
    PROVE  /\ Laming' \subseteq Laming
           /\ UNCHANGED <<world, clock, client, toldStopped, refused, deploys, dh, stops, sh,
                          filed, live, proc, ev>>
<1>1. UNCHANGED <<world, clock, client, toldStopped, refused, deploys, dh, stops, sh,
                  filed, live, proc, ev>>
  BY DEF LameDuckStep, ClearEssential, EnterLameDuck, clientVars, queueVars, workVars
<1>2. CASE EnterLameDuck
  <2>1. lames' = Tail(lames) /\ lames # <<>> BY <1>2 DEF EnterLameDuck
  <2>2. lh' = lh \/ lh' = Head(lames) BY <1>2 DEF EnterLameDuck
  <2>3. Elems(lames') \subseteq Elems(lames) /\ Head(lames) \in Elems(lames)
    BY <2>1, TailElems DEF TypeInv, HandlerTypes
  <2> QED BY <1>1, <2>2, <2>3 DEF Laming
<1>3. CASE ClearEssential
  <2>1. UNCHANGED lames /\ lh' = None BY <1>3 DEF ClearEssential, queueVars
  <2> QED BY <1>1, <2>1 DEF Laming
<1> QED BY <1>2, <1>3 DEF LameDuckStep

\* The message that agentEvent sends for i.
Again(i) == [req[i] EXCEPT !.from = i, !.n = 1, !.retries = @ + 1]

LEMMA AgainFields ==
    ASSUME NEW i \in Ids, req[i] \in DeployMsg
    PROVE  /\ Again(i) \in DeployMsg /\ Again(i).chain = req[i].chain
           /\ Again(i).job = req[i].job /\ Again(i).essential = req[i].essential
           /\ Again(i).from = i
<1>1. Again(i) \in DeployMsg /\ Again(i).chain = req[i].chain BY AgainTyped DEF Again
<1> DEFINE a == [req[i] EXCEPT !.from = i]
           b == [a EXCEPT !.n = 1]
           m == [b EXCEPT !.retries = @ + 1]
<1>2. a \in DeployMsg /\ a.from = i /\ a.job = req[i].job /\ a.essential = req[i].essential
  BY DEF DeployMsg
<1>3. Again(i) = m BY <1>2 DEF DeployMsg, Again
<1> HIDE DEF a
<1>4. b \in DeployMsg /\ b.from = a.from /\ b.job = a.job /\ b.essential = a.essential
  BY <1>2 DEF DeployMsg
<1> HIDE DEF b
<1>5. m.from = b.from /\ m.job = b.job /\ m.essential = b.essential
  BY <1>4 DEF DeployMsg
<1> QED BY <1>1, <1>2, <1>3, <1>4, <1>5

LEMMA EventMoves ==
    ASSUME TypeInv, NEW i \in Ids, EventStep(i)
    PROVE  /\ UNCHANGED <<world, clock, client, toldStopped, refused, answer, dh, stops, sh,
                          lames, lh, lame>>
           /\ ev[i].pc # "none" /\ req[i] \in DeployMsg
           /\ \/ UNCHANGED <<deploys, req>>
              \/ /\ Redeploys(i) /\ ev[i].pc = "stopped"
                 /\ deploys' = Append(deploys, Again(i))
                 /\ req' = [req EXCEPT ![i].retries = @ + 1]
                 /\ UNCHANGED <<filed, live, proc>>
<1>1. UNCHANGED <<world, clock, client, toldStopped, refused, answer, dh, stops, sh,
                  lames, lh, lame>>
  BY DEF EventStep, AgentEvent, EventLocks, EventStops, EventDecides, EventAnswered,
         EventGoes, clientVars
<1>2. ev[i].pc # "none"
  BY DEF EventStep, AgentEvent, EventLocks, EventStops, EventDecides, EventAnswered
<1>3. req[i] \in DeployMsg BY <1>2 DEF TypeInv, Requested, WorkTypes
<1>4. CASE EventDecides(i)
  BY <1>1, <1>2, <1>3, <1>4 DEF EventDecides, Again
<1>5. CASE ~EventDecides(i)
  <2>1. UNCHANGED <<deploys, req>>
    BY <1>5 DEF EventStep, AgentEvent, EventLocks, EventStops, EventAnswered, StopProcess,
                KillFails, workVars
  <2> QED BY <1>1, <1>2, <1>3, <2>1
<1> QED BY <1>4, <1>5

LEMMA WorkloadMoves ==
    ASSUME NEW i \in Ids, AgentDeploys(i) \/ \E code \in {0, 1} : WorkloadExits(i, code)
    PROVE  UNCHANGED <<world, clock, client, toldStopped, refused, answer, deploys, dh, stops,
                       sh, lames, lh, lame, req, filed, live, panicked>>
BY DEF AgentDeploys, WorkloadExits, clientVars, queueVars

\* Nothing is sent, or an event sends a message.
LEMMA PostFrame ==
    ASSUME TypeInv, PostInv, UNCHANGED client,
           \A m \in Deploying' : m \in Deploying \/ m.from \in Ids,
           Stopping' \subseteq Stopping, Laming' \subseteq Laming,
           sh'.pc # "idle" => sh'.id = sh'.msg.id
    PROVE  PostInv'
<1>1. \A m \in Deploying' : m.from \in Clients => m \in Deploying
  BY ControlPlaneAssumption
<1> QED BY <1>1 DEF PostInv

LEMMA UserPost ==
    ASSUME TypeInv, TypeInv', PostInv, NEW c \in Clients, UserStep(c)
    PROVE  PostInv'
<1>1. UNCHANGED <<dh, sh, lh>> BY UserEffect DEF clientFrame
<1>2. /\ client \in [Clients -> Shell] /\ client' \in [Clients -> Shell]
      /\ ShellsGoOn(client, client')
  BY UserGoesOn DEF TypeInv, UserTypes
<1>3. UserTypes /\ AnswerTypes /\ HandlerTypes BY DEF TypeInv
<1>4. \A m \in Deploying : m.from \in Clients => DeploySent(client', m)
  <2>1. \A m \in Deploying : m.n \in Nat BY <1>3, MessagesTyped, SenderTyped
  <2> QED BY <1>2, <2>1, SentStays DEF PostInv
<1>5. \A m \in Stopping : SentAt(client', m, "stopping")
  <2>1. \A m \in Stopping : m.from \in Clients /\ m.n \in Nat
    BY <1>3, MessagesTyped, SenderTyped
  <2> QED BY <1>2, <2>1, SentStays DEF PostInv
<1>6. \A m \in Laming : SentAt(client', m, "laming")
  <2>1. \A m \in Laming : m.from \in Clients /\ m.n \in Nat
    BY <1>3, MessagesTyped, SenderTyped
  <2> QED BY <1>2, <2>1, SentStays DEF PostInv
<1>7. sh'.pc # "idle" => sh'.id = sh'.msg.id BY <1>1 DEF PostInv
<1>8. CASE AsksDeploy(c)
  <2> DEFINE m == NewDeployRequest(c, client[c].n + 1, Cmd(c).job)
  <2>1. UNCHANGED <<stops, lames>> /\ deploys' = Append(deploys, m) BY <1>8 DEF AsksDeploy
  <2>2. /\ client'[c].n = client[c].n + 1 /\ client'[c].pc = "starting"
        /\ client'[c].done = client[c].done
    BY <1>3, <1>8, ShellEffect DEF AsksDeploy
  <2>3. m.from = c /\ m.n = client[c].n + 1 /\ m.chain = <<c, client[c].done + 1>>
    BY DEF NewDeployRequest
  <2> HIDE DEF m
  <2>4. DeploySent(client', m)
    <3>1. client[c].n + 1 \in Nat BY <1>2 DEF Shell
    <3> QED BY <2>2, <2>3, <3>1 DEF DeploySent, SentAt
  <2>5. Elems(deploys') = Elems(deploys) \cup {m}
    BY <1>3, <2>1, AppendElems DEF HandlerTypes
  <2>6. Deploying' \subseteq Deploying \cup {m} BY <1>1, <2>5 DEF Deploying
  <2>7. Stopping' = Stopping /\ Laming' = Laming BY <1>1, <2>1 DEF Stopping, Laming
  <2> QED BY <1>4, <1>5, <1>6, <1>7, <2>4, <2>6, <2>7 DEF PostInv
<1>9. ASSUME NEW i \in Ids, NEW todo, AsksStop(c, i, todo) PROVE PostInv'
  <2> DEFINE m == NewStopRequest(c, client[c].n + 1, i, Cmd(c).job)
  <2>1. UNCHANGED <<deploys, lames>> /\ stops' = Append(stops, m) BY <1>9 DEF AsksStop
  <2>2. client'[c].n = client[c].n + 1 /\ client'[c].pc = "stopping"
    BY <1>3, <1>9, ShellEffect DEF AsksStop
  <2>3. m.from = c /\ m.n = client[c].n + 1 BY DEF NewStopRequest
  <2> HIDE DEF m
  <2>4. SentAt(client', m, "stopping")
    <3>1. client[c].n + 1 \in Nat BY <1>2 DEF Shell
    <3> QED BY <2>2, <2>3, <3>1 DEF SentAt
  <2>5. Elems(stops') = Elems(stops) \cup {m}
    BY <1>3, <2>1, AppendElems DEF HandlerTypes
  <2>6. Stopping' \subseteq Stopping \cup {m} BY <1>1, <2>5 DEF Stopping
  <2>7. Deploying' = Deploying /\ Laming' = Laming BY <1>1, <2>1 DEF Deploying, Laming
  <2> QED BY <1>4, <1>5, <1>6, <1>7, <2>4, <2>6, <2>7 DEF PostInv
<1>10. CASE AsksLameDuck(c)
  <2> DEFINE m == [from |-> c, n |-> client[c].n + 1]
  <2>1. UNCHANGED <<deploys, stops>> /\ lames' = Append(lames, m) BY <1>10 DEF AsksLameDuck
  <2>2. client'[c].n = client[c].n + 1 /\ client'[c].pc = "laming"
    BY <1>3, <1>10, ShellEffect DEF AsksLameDuck
  <2>3. m.from = c /\ m.n = client[c].n + 1 OBVIOUS
  <2> HIDE DEF m
  <2>4. SentAt(client', m, "laming")
    <3>1. client[c].n + 1 \in Nat BY <1>2 DEF Shell
    <3> QED BY <2>2, <2>3, <3>1 DEF SentAt
  <2>5. Elems(lames') = Elems(lames) \cup {m}
    BY <1>3, <2>1, AppendElems DEF HandlerTypes
  <2>6. Laming' \subseteq Laming \cup {m} BY <1>1, <2>5 DEF Laming
  <2>7. Deploying' = Deploying /\ Stopping' = Stopping BY <1>1, <2>1 DEF Deploying, Stopping
  <2> QED BY <1>4, <1>5, <1>6, <1>7, <2>4, <2>6, <2>7 DEF PostInv
<1>11. CASE UNCHANGED queueVars
  <2>1. Deploying' = Deploying /\ Stopping' = Stopping /\ Laming' = Laming
    BY <1>1, <1>11 DEF queueVars, Deploying, Stopping, Laming
  <2> QED BY <1>4, <1>5, <1>6, <1>7, <2>1 DEF PostInv
<1> QED BY <1>8, <1>9, <1>10, <1>11, UserEffect

LEMMA PostInvStep == TypeInv /\ TypeInv' /\ PostInv /\ [Next]_vars => PostInv'
<1> SUFFICES ASSUME TypeInv, TypeInv', PostInv, [Next]_vars PROVE PostInv'
  OBVIOUS
<1>0. sh.pc # "idle" => sh.id = sh.msg.id BY DEF PostInv
<1>1. ASSUME UNCHANGED <<client, deploys, dh, stops, sh, lames, lh>> PROVE PostInv'
  <2>1. Deploying' = Deploying /\ Stopping' = Stopping /\ Laming' = Laming
    BY <1>1 DEF Deploying, Stopping, Laming
  <2> QED BY <1>0, <1>1, <2>1, PostFrame
<1>2. CASE UNCHANGED vars
  BY <1>1, <1>2 DEF vars, clientVars, queueVars
<1>3. CASE Tick
  BY <1>1, <1>3 DEF Tick, clientVars, queueVars
<1>4. ASSUME NEW c \in Clients, Question(c) PROVE PostInv'
  <2>1. questionFrame BY <1>4, QuestionTyped
  <2> QED BY <1>1, <2>1 DEF questionFrame, clientVars, queueVars
<1>5. CASE DeployStep
  <2>1. Deploying' \subseteq Deploying /\ UNCHANGED <<client, stops, sh, lames, lh>>
    BY <1>5, DeployMoves
  <2>2. Stopping' = Stopping /\ Laming' = Laming BY <2>1 DEF Stopping, Laming
  <2> QED BY <1>0, <2>1, <2>2, PostFrame
<1>6. CASE StopStep
  <2>1. /\ Stopping' \subseteq Stopping /\ UNCHANGED <<client, deploys, dh, lames, lh>>
        /\ sh'.pc # "idle" => sh'.id = sh'.msg.id
    BY <1>0, <1>6, StopMoves
  <2>2. Deploying' = Deploying /\ Laming' = Laming BY <2>1 DEF Deploying, Laming
  <2> QED BY <2>1, <2>2, PostFrame
<1>7. CASE LameDuckStep
  <2>1. Laming' \subseteq Laming /\ UNCHANGED <<client, deploys, dh, stops, sh>>
    BY <1>7, LameMoves
  <2>2. Deploying' = Deploying /\ Stopping' = Stopping BY <2>1 DEF Deploying, Stopping
  <2> QED BY <1>0, <2>1, <2>2, PostFrame
<1>8. ASSUME NEW i \in Ids, EventStep(i) PROVE PostInv'
  <2>1. UNCHANGED <<client, dh, stops, sh, lames, lh>> /\ req[i] \in DeployMsg
        /\ (UNCHANGED deploys \/ deploys' = Append(deploys, Again(i)))
    BY <1>8, EventMoves
  <2>2. Stopping' = Stopping /\ Laming' = Laming BY <2>1 DEF Stopping, Laming
  <2>3. Again(i).from = i BY <2>1, AgainFields
  <2>4. Elems(deploys') \subseteq Elems(deploys) \cup {Again(i)}
    BY <2>1, AppendElems DEF TypeInv, HandlerTypes
  <2>5. \A m \in Deploying' : m \in Deploying \/ m.from \in Ids
    BY <2>1, <2>3, <2>4 DEF Deploying
  <2> QED BY <1>0, <2>1, <2>2, <2>5, PostFrame
<1>9. ASSUME NEW i \in Ids, AgentDeploys(i) \/ \E code \in {0, 1} : WorkloadExits(i, code)
      PROVE  PostInv'
  BY <1>1, <1>9, WorkloadMoves
<1> QED BY <1>2, <1>3, <1>4, <1>5, <1>6, <1>7, <1>8, <1>9, UserPost DEF Next

\* Where an answer of a handler may arrive.
LEMMA DeployAnswered ==
    ASSUME TypeInv, PostInv, NEW m \in Deploying, NEW ok, NEW ids,
           Answer(m.from, m.n, ok, ids), NEW c \in Clients, answer'[c] # answer[c]
    PROVE  /\ c = m.from /\ m.n = client[c].n /\ client[c].pc = "starting"
           /\ m.chain = <<c, client[c].done + 1>>
           /\ answer[c] = None /\ answer'[c] = [ok |-> ok, ids |-> ids]
<1>1. m.from \in Clients \cup Ids BY MessagesTyped, SenderTyped DEF TypeInv
<1>2. c = m.from /\ Waits(c, m.n) /\ answer[c] = None /\ answer'[c] = [ok |-> ok, ids |-> ids]
  BY <1>1, AnswerEffect DEF TypeInv
<1>3. m.n = client[c].n /\ client[c].pc # "idle" BY <1>2 DEF Waits
<1>4. DeploySent(client, m) BY <1>2 DEF PostInv
<1> QED BY <1>2, <1>3, <1>4 DEF DeploySent, SentAt

LEMMA StopAnswered ==
    ASSUME TypeInv, PostInv, NEW m \in Stopping, NEW ok, NEW ids,
           Answer(m.from, m.n, ok, ids), NEW c \in Clients, answer'[c] # answer[c]
    PROVE  /\ c = m.from /\ m.n = client[c].n /\ client[c].pc = "stopping"
           /\ answer[c] = None /\ answer'[c] = [ok |-> ok, ids |-> ids]
<1>1. m.from \in Clients BY MessagesTyped, SenderTyped DEF TypeInv
<1>2. c = m.from /\ Waits(c, m.n) /\ answer[c] = None /\ answer'[c] = [ok |-> ok, ids |-> ids]
  BY <1>1, AnswerEffect DEF TypeInv
<1>3. m.n = client[c].n /\ client[c].pc # "idle" BY <1>2 DEF Waits
<1> QED BY <1>2, <1>3 DEF PostInv, SentAt

LEMMA LameAnswered ==
    ASSUME TypeInv, PostInv, LameDuckStep, NEW c \in Clients, answer'[c] # answer[c]
    PROVE  client[c].pc = "laming"
<1>1. PICK m \in Laming, ok \in BOOLEAN : Answer(m.from, m.n, ok, {})
  <2>1. CASE EnterLameDuck
    <3>1. Answer(Head(lames).from, Head(lames).n, TRUE, {}) BY <2>1 DEF EnterLameDuck
    <3>2. Head(lames) \in Laming
      BY <2>1, TailElems DEF EnterLameDuck, Laming, TypeInv, HandlerTypes
    <3> QED BY <3>1, <3>2
  <2>2. CASE ClearEssential BY <2>2 DEF ClearEssential, Laming
  <2> QED BY <2>1, <2>2 DEF LameDuckStep
<1>2. m.from \in Clients BY MessagesTyped, SenderTyped DEF TypeInv
<1>3. c = m.from /\ Waits(c, m.n)
  <2>1. AnswerTypes /\ m.from \in Clients \cup Ids /\ c \in Clients \cup Ids
    BY <1>2 DEF TypeInv
  <2>2. /\ \A x \in Clients \cup Ids : x # m.from => answer'[x] = answer[x]
        /\ answer'[m.from] = answer[m.from] \/ Waits(m.from, m.n)
    BY <1>1, <2>1, AnswerEffect
  <2> QED BY <2>1, <2>2
<1>4. m.n = client[c].n /\ client[c].pc # "idle" BY <1>3 DEF Waits
<1> QED BY <1>3, <1>4 DEF PostInv, SentAt

LEMMA QuestionAnswered ==
    ASSUME TypeInv, NEW d \in Clients, Question(d), NEW c \in Clients, answer'[c] # answer[c]
    PROVE  c = d /\ client[c].pc \in {"listing", "info", "wlisting"}
<1>1. PICK ids : Answer(d, client[d].n, TRUE, ids)
  BY DEF Question, HandlePing, HandleInfo, HandleWorkloadPing
<1>2. c = d
  <2>1. AnswerTypes /\ d \in Clients \cup Ids /\ c \in Clients \cup Ids BY DEF TypeInv
  <2>2. \A x \in Clients \cup Ids : x # d => answer'[x] = answer[x]
    BY <1>1, <2>1, AnswerEffect
  <2> QED BY <2>1, <2>2
<1> QED BY <1>2 DEF Question, HandlePing, HandleInfo, HandleWorkloadPing

\* What handleDeploy answers.
LEMMA DeployAnswers ==
    ASSUME TypeInv, PostInv, DeployStep, answer' # answer
    PROVE  \/ /\ HandleDeploy /\ Head(deploys) \in Deploying
              /\ Answer(Head(deploys).from, Head(deploys).n, FALSE, {})
           \/ /\ dh.pc # "idle" /\ dh.msg \in Deploying
              /\ \E ok \in BOOLEAN : \E ids : Answer(dh.msg.from, dh.msg.n, ok, ids)
<1>1. CASE HandleDeploy
  <2>1. Head(deploys) \in Deploying
    BY <1>1, TailElems DEF HandleDeploy, Deploying, TypeInv, HandlerTypes
  <2> QED BY <1>1, <2>1 DEF HandleDeploy, DeployFails
<1>2. CASE ~HandleDeploy
  <2>1. dh.pc # "idle"
    BY <1>2 DEF DeployStep, CacheWorkload, DeployWorkload, NoAgent, DeployAccepted,
                DeployRejected, DeployTimesOut
  <2>2. dh.msg \in Deploying BY <2>1 DEF Deploying
  <2>3. \E ok \in BOOLEAN : \E ids : Answer(dh.msg.from, dh.msg.n, ok, ids)
    <3>1. CASE DeployAccepted BY <3>1 DEF DeployAccepted
    <3>2. CASE ~DeployAccepted
      <4>1. Answer(dh.msg.from, dh.msg.n, FALSE, {})
        BY <1>2, <3>2 DEF DeployStep, CacheWorkload, DeployWorkload, NoAgent, DeployRejected,
                          DeployTimesOut, DeployFails
      <4> QED BY <4>1
    <3> QED BY <3>1, <3>2
  <2> QED BY <2>1, <2>2, <2>3
<1> QED BY <1>1, <1>2

(***************************************************************************)
(* StopIsFinal.                                                            *)
(***************************************************************************)
Stopped(i) == i \notin live /\ proc[i] \in {"ended", "killed"}

StopInv ==
    /\ \A c \in Clients :
          client[c].pc = "stopping" /\ answer[c] # None /\ answer[c].ok
             => \E i \in Ids : answer[c].ids = {i} /\ Stopped(i)
    /\ \A i \in toldStopped : i \in Ids /\ Stopped(i)

LEMMA StoppedStays ==
    ASSUME TypeInv, [Next]_vars, NEW i \in Ids, Stopped(i)
    PROVE  Stopped(i)'
<1>1. req[i] # None BY DEF Stopped, TypeInv, Requested
<1>2. ASSUME NEW k \in Ids, StopProcess(k) \/ KillFails(k) PROVE Stopped(i)'
  <2>1. k # i BY <1>2 DEF StopProcess, KillFails, Stopped
  <2>2. live' \subseteq live BY <1>2 DEF StopProcess, KillFails
  <2>3. proc'[i] = proc[i] BY <1>2, <2>1 DEF StopProcess, KillFails, TypeInv, WorkTypes
  <2> QED BY <2>2, <2>3 DEF Stopped
<1>3. ASSUME UNCHANGED <<live, proc>> PROVE Stopped(i)' BY <1>3 DEF Stopped
<1>4. CASE UNCHANGED vars \/ Tick BY <1>3, <1>4 DEF vars, Tick, workVars
<1>5. ASSUME NEW c \in Clients, UserStep(c) \/ Question(c) PROVE Stopped(i)'
  <2>1. UserStep(c) => clientFrame BY UserEffect
  <2>2. Question(c) => questionFrame BY QuestionTyped
  <2> QED BY <1>3, <1>5, <2>1, <2>2 DEF clientFrame, questionFrame, workVars
<1>6. CASE DeployStep
  <2>1. CASE DeployWorkload
    <3>1. PICK k \in Ids : NextId(k) /\ live' = live \cup {k}
                           /\ proc' = [proc EXCEPT ![k] = "prepared"]
      BY <2>1 DEF DeployWorkload
    <3>2. k # i BY <1>1, <3>1 DEF NextId
    <3>3. proc'[i] = proc[i] BY <3>1, <3>2 DEF TypeInv, WorkTypes
    <3> QED BY <3>1, <3>2, <3>3 DEF Stopped
  <2>2. CASE DeployRejected
    <3>1. dh.id \in Ids BY <2>2 DEF DeployRejected, TypeInv, HandlerTypes
    <3> QED BY <1>2, <2>2, <3>1 DEF DeployRejected
  <2>3. CASE ~(DeployWorkload \/ DeployRejected)
    BY <1>3, <1>6, <2>3 DEF DeployStep, HandleDeploy, CacheWorkload, NoAgent, DeployAccepted,
                            DeployTimesOut, workVars
  <2> QED BY <2>1, <2>2, <2>3
<1>7. CASE StopStep
  <2>1. CASE StopWorkload
    <3>1. sh.id \in Ids BY <2>1 DEF StopWorkload, TypeInv, HandlerTypes
    <3> QED BY <1>2, <2>1, <3>1 DEF StopWorkload
  <2> QED BY <1>3, <1>7, <2>1 DEF StopStep, HandleStop, StopUndeploys, workVars
<1>8. CASE LameDuckStep BY <1>3, <1>8, LameMoves
<1>9. ASSUME NEW k \in Ids, EventStep(k) PROVE Stopped(i)'
  BY <1>2, <1>3, <1>9 DEF EventStep, AgentEvent, EventLocks, EventStops, EventDecides,
     EventAnswered, workVars
<1>10. ASSUME NEW k \in Ids, AgentDeploys(k) \/ \E code \in {0, 1} : WorkloadExits(k, code)
       PROVE  Stopped(i)'
  <2>1. live' = live /\ proc[k] \in {"prepared", "running"}
    BY <1>10 DEF AgentDeploys, WorkloadExits
  <2>2. k # i BY <2>1 DEF Stopped
  <2>3. proc'[i] = proc[i]
    BY <1>10, <2>2 DEF AgentDeploys, WorkloadExits, TypeInv, WorkTypes
  <2> QED BY <2>1, <2>3 DEF Stopped
<1> QED BY <1>4, <1>5, <1>6, <1>7, <1>8, <1>9, <1>10 DEF Next

\* A shell that waits for a STOP and has its answer had it before, or has it
\* now that the process is stopped.
LEMMA StopAnswersStep ==
    ASSUME TypeInv, TypeInv', PostInv, [Next]_vars, NEW c \in Clients,
           client'[c].pc = "stopping", answer'[c] # None, answer'[c].ok
    PROVE  \/ client'[c].pc = client[c].pc /\ answer'[c] = answer[c]
           \/ \E i \in Ids : answer'[c].ids = {i} /\ Stopped(i)'
<1>1. ASSUME UNCHANGED <<client, answer>>
      PROVE  client'[c].pc = client[c].pc /\ answer'[c] = answer[c]
  BY <1>1
<1>2. CASE UNCHANGED vars \/ Tick BY <1>2 DEF vars, Tick, clientVars
<1>3. ASSUME NEW d \in Clients, UserStep(d)
      PROVE  client'[c].pc = client[c].pc /\ answer'[c] = answer[c]
  <2>1. (\E pc, todo : Asks(d, pc, todo)) \/ Returns(d)
    BY <1>3, UserEffect DEF AsksDeploy, AsksStop, AsksLameDuck
  <2>2. /\ \A e \in Clients \ {d} : client'[e] = client[e]
        /\ answer'[d] = None
        /\ \A x \in Clients \cup Ids : x # d => answer'[x] = answer[x]
    BY <2>1, ShellEffect DEF TypeInv
  <2>3. c # d BY <2>2
  <2> QED BY <2>2, <2>3
<1>4. ASSUME NEW d \in Clients, Question(d)
      PROVE  client'[c].pc = client[c].pc /\ answer'[c] = answer[c]
  <2>1. UNCHANGED client BY <1>4, QuestionTyped DEF questionFrame, clientVars
  <2>2. client[c].pc \notin {"listing", "info", "wlisting"} BY <2>1
  <2> QED BY <1>4, <2>1, <2>2, QuestionAnswered
<1>5. CASE DeployStep
  <2>1. UNCHANGED client /\ client[c].pc # "starting" BY <1>5, DeployMoves
  <2>2. ASSUME NEW m \in Deploying, NEW ok, NEW ids, Answer(m.from, m.n, ok, ids)
        PROVE  answer'[c] = answer[c]
    BY <2>1, <2>2, DeployAnswered
  <2>3. answer'[c] = answer[c] BY <1>5, <2>2, DeployAnswers
  <2> QED BY <2>1, <2>3
<1>6. CASE LameDuckStep
  <2>1. UNCHANGED client BY <1>6, LameMoves
  <2>2. client[c].pc # "laming" BY <2>1
  <2> QED BY <1>6, <2>1, <2>2, LameAnswered
<1>7. CASE StopStep
  <2>1. UNCHANGED client BY <1>7, StopMoves DEF PostInv
  <2>2. CASE HandleStop
    <3> DEFINE m == Head(stops)
    <3>1. m \in Stopping
      BY <2>2, TailElems DEF HandleStop, Stopping, TypeInv, HandlerTypes
    <3>2. answer' = answer \/ Answer(m.from, m.n, FALSE, {m.id}) BY <2>2 DEF HandleStop
    <3> HIDE DEF m
    <3>3. ASSUME answer'[c] # answer[c] PROVE FALSE
      <4>1. PICK ok, ids : ok = FALSE /\ Answer(m.from, m.n, ok, ids) BY <3>2, <3>3
      <4>2. answer'[c] = [ok |-> ok, ids |-> ids] BY <3>1, <3>3, <4>1, StopAnswered
      <4> QED BY <4>1, <4>2
    <3> QED BY <2>1, <3>3
  <2>3. CASE StopUndeploys BY <2>1, <2>3 DEF StopUndeploys
  <2>4. CASE StopWorkload
    <3>1. sh.msg \in Stopping /\ sh.id \in Ids
      BY <2>4 DEF StopWorkload, Stopping, TypeInv, HandlerTypes
    <3>2. ASSUME answer'[c] # answer[c]
          PROVE  \E i \in Ids : answer'[c].ids = {i} /\ Stopped(i)'
      <4>1. PICK i \in Ids : i = sh.id BY <3>1
      <4>2. PICK ok, ids : /\ ids = {i} /\ Answer(sh.msg.from, sh.msg.n, ok, ids)
                           /\ StopProcess(i) \/ ok = FALSE
        BY <2>4, <4>1 DEF StopWorkload
      <4>3. answer'[c] = [ok |-> ok, ids |-> ids] BY <3>1, <3>2, <4>2, StopAnswered
      <4>4. answer'[c].ok = ok /\ answer'[c].ids = ids BY <4>3
      <4>5. StopProcess(i) BY <4>2, <4>4
      <4>6. i \notin live' /\ proc'[i] \in {"ended", "killed"}
        BY <4>5 DEF StopProcess, TypeInv, WorkTypes
      <4>7. Stopped(i)' BY <4>6 DEF Stopped
      <4>8. answer'[c].ids = {i} BY <4>2, <4>4
      <4> QED BY <4>7, <4>8
    <3> QED BY <2>1, <3>1, <3>2
  <2> QED BY <1>7, <2>2, <2>3, <2>4 DEF StopStep
<1>8. ASSUME NEW i \in Ids, EventStep(i) \/ AgentDeploys(i)
                            \/ \E code \in {0, 1} : WorkloadExits(i, code)
      PROVE  client'[c].pc = client[c].pc /\ answer'[c] = answer[c]
  BY <1>8, EventMoves, WorkloadMoves
<1> QED BY <1>1, <1>2, <1>3, <1>4, <1>5, <1>6, <1>7, <1>8 DEF Next

LEMMA StopInvStep == TypeInv /\ TypeInv' /\ PostInv /\ StopInv /\ [Next]_vars => StopInv'
<1> SUFFICES ASSUME TypeInv, TypeInv', PostInv, StopInv, [Next]_vars PROVE StopInv'
  OBVIOUS
<1>1. ASSUME NEW c \in Clients, client'[c].pc = "stopping", answer'[c] # None, answer'[c].ok
      PROVE  \E i \in Ids : answer'[c].ids = {i} /\ Stopped(i)'
  <2>1. CASE client'[c].pc = client[c].pc /\ answer'[c] = answer[c]
    <3>1. PICK i \in Ids : answer[c].ids = {i} /\ Stopped(i) BY <1>1, <2>1 DEF StopInv
    <3>2. Stopped(i)' BY <3>1, StoppedStays
    <3> QED BY <2>1, <3>1, <3>2
  <2> QED BY <1>1, <2>1, StopAnswersStep
<1>2. ASSUME NEW i \in toldStopped' PROVE i \in Ids /\ Stopped(i)'
  <2>1. CASE i \in toldStopped BY <2>1, StoppedStays DEF StopInv
  <2>2. CASE i \notin toldStopped
    <3>1. PICK c \in Clients : GotStop(c)
      <4>1. ASSUME NEW c \in Clients, UserStep(c), ~GotStop(c) PROVE toldStopped' = toldStopped
        BY <4>1 DEF UserStep, Begins, ListEnds, GotInfo, GotAnswer, TimesOut
      <4>2. ASSUME NEW c \in Clients, Question(c) PROVE toldStopped' = toldStopped
        BY <4>2, QuestionTyped DEF questionFrame, clientVars
      <4>3. StopStep => toldStopped' = toldStopped BY StopMoves DEF PostInv
      <4> QED BY <1>2, <2>2, <4>1, <4>2, <4>3, DeployMoves, LameMoves, EventMoves, WorkloadMoves
              DEF Next, Tick, vars, clientVars
    <3>2. /\ answer[c] # None /\ client[c].pc = "stopping" /\ answer[c].ok
          /\ i = CHOOSE k \in answer[c].ids : TRUE
      BY <1>2, <2>2, <3>1 DEF GotStop
    <3>3. PICK k \in Ids : answer[c].ids = {k} /\ Stopped(k) BY <3>2 DEF StopInv
    <3>4. i = k BY <3>2, <3>3
    <3> QED BY <3>3, <3>4, StoppedStays
  <2> QED BY <2>1, <2>2
<1> QED BY <1>1, <1>2 DEF StopInv
=============================================================================
