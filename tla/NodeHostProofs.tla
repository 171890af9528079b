--------------------------- MODULE NodeHostProofs ---------------------------
(***************************************************************************)
(* OneNode and StopLeavesNoVM for any number of processes, files, VMs and  *)
(* worlds.                                                                 *)
(*                                                                         *)
(* Neither is inductive.  A node is alone only because the pid file names  *)
(* it while it runs, and because nobody else is on the way from a check to *)
(* a write: PidInv says both.  Stop ends the VMs it should because each    *)
(* has one holder at a time, the loop or the maps: VmInv says which.       *)
(***************************************************************************)
EXTENDS NodeHost, FirecrackerProcManProofs, FiniteSetTheorems, TLAPS

\* Most leaves are first-order; the rest is arithmetic or records.
USE ZenonT(3), SMT

Owning == {"telemetry", "natspub", "nc", "hostservices", "natsint", "manager",
           "api", "running", "draining", "stopping", "closing"}

PcValues == {"off", "loading", "checking", "installing", "pidCheck", "pidCreate",
             "pidWrite", "cancelling", "over"} \cup Owning

\* On the way from the check of the pid file to the end of the node.
Busy(p) == p \in alive /\ pc[p] \in {"pidCreate", "pidWrite"} \cup Owning

PcType == pc \in [Procs -> PcValues] /\ raced \in BOOLEAN

\* While there was no race at most one process is busy, and the file names it
\* once it owns it.
PidInv ==
    /\ PcType
    /\ ~raced => /\ \A p, q \in Procs : Busy(p) /\ Busy(q) => p = q
                 /\ \A p \in Procs : Owns(p) => pid = [file |-> "written", owner |-> p]

\* What a step of p does that concerns only p: another process is busy after
\* it if it was before.
MovesOnly(p) ==
    /\ \E to \in PcValues : pc' = [pc EXCEPT ![p] = to]
    /\ alive' \in {alive, alive \cup {p}, alive \ {p}}

\* The parts of init and shutdown, and everything before createPid, neither
\* touch the file nor make a process busy that was not.
Quiet(p) ==
    /\ MovesOnly(p)
    /\ UNCHANGED <<pid, raced>>
    /\ Busy(p)' => Busy(p)
    /\ Owns(p)' => Owns(p)

\* The other goroutines of a node can only end it.
LEMMA ProcManQuiet ==
    ASSUME NEW p \in Procs,
           \/ LoopSteps(p, p \in ctxDone) \/ StopSteps(p) \/ PrepareWorkload(p)
           \/ PrepareBegins(p) \/ EventStops(p) \/ StopsWorkload(p)
    PROVE  alive' \in {alive, alive \ {p}}
<1>1. ASSUME LoopSteps(p, p \in ctxDone) PROVE alive' = alive
  BY <1>1 DEF LoopSteps, LoopEnds, LoopCopies, CreateAndStartVM, SetMetadata, LoopPushes
<1>2. ASSUME NEW t \in Stoppers, FetchMutex(p, t) \/ StopProcess(p, t)
      PROVE  alive' \in {alive, alive \ {p}}
  BY <1>2 DEF FetchMutex, StopProcess
<1>3. ASSUME ProcManStop(p) \/ StopVisits(p) \/ StopReturns(p) PROVE alive' = alive
  BY <1>3 DEF ProcManStop, StopVisits, StopReturns, Enter
<1>4. ASSUME PrepareWorkload(p) \/ PrepareBegins(p) \/ EventStops(p) \/ StopsWorkload(p)
      PROVE  alive' = alive
  BY <1>4 DEF PrepareWorkload, PrepareBegins, EventStops, StopsWorkload, Enter
<1> QED BY <1>1, <1>2, <1>3, <1>4 DEF StopSteps

\* A quiet step of p preserves PidInv.
LEMMA QuietKeeps ==
    ASSUME NEW p \in Procs, PidInv, Quiet(p)
    PROVE  PidInv'
<1>1. PICK to \in PcValues : pc' = [pc EXCEPT ![p] = to]
  BY DEF Quiet, MovesOnly
<1>2. PcType'
  BY <1>1 DEF PidInv, PcType, Quiet
<1>3. \A q \in Procs : Busy(q)' => Busy(q)
  BY <1>1 DEF Quiet, MovesOnly, Busy, PidInv, PcType
<1>4. \A q \in Procs : Owns(q)' => Owns(q)
  BY <1>1 DEF Quiet, MovesOnly, Owns, PidInv, PcType
<1> QED BY <1>2, <1>3, <1>4 DEF PidInv, Quiet

\* The steps of a command that are quiet.
LEMMA EarlyQuiet ==
    ASSUME NEW p \in Procs, PcType,
           \/ Begin(p) \/ LoadConfig(p) \/ CheckPrerequisites(p) \/ Download(p)
           \/ CancelDownload(p) \/ WriteCniConf(p) \/ InstallFails(p) \/ Installed(p)
    PROVE  Quiet(p)
<1> USE DEF Quiet, MovesOnly, PcType, PcValues, Owning, Busy, Owns, Goes, Exits
<1>1. CASE Begin(p) BY <1>1 DEF Begin, hostVars
<1>2. CASE LoadConfig(p) BY <1>2 DEF LoadConfig
<1>3. CASE CheckPrerequisites(p) BY <1>3 DEF CheckPrerequisites, hostVars
<1>4. CASE Download(p) \/ CancelDownload(p) \/ WriteCniConf(p)
  <2>1. UNCHANGED <<pc, alive, pid, raced>>
    BY <1>4 DEF Download, CancelDownload, WriteCniConf
  <2>2. pc' = [pc EXCEPT ![p] = pc[p]]
    BY <2>1
  <2> QED BY <2>1, <2>2
<1>5. CASE InstallFails(p) BY <1>5 DEF InstallFails, Installing
<1>6. CASE Installed(p) BY <1>6 DEF Installed, hostVars
<1> QED BY <1>1, <1>2, <1>3, <1>4, <1>5, <1>6

LEMMA PartQuiet ==
    ASSUME NEW p \in Procs, PcType, NEW part \in Owning, NEW next \in Owning,
           Part(p, part, next)
    PROVE  Quiet(p)
BY DEF Part, Quiet, MovesOnly, PcType, PcValues, Owning, Busy, Owns, Goes, hostVars

LEMMA NodeQuiet ==
    ASSUME NEW p \in Procs, PcType,
           \/ NewTelemetry(p) \/ StartPublicNATS(p) \/ ConnectNATS(p)
           \/ StartHostServicesConnection(p) \/ StartInternalNATS(p) \/ NewManager(p)
           \/ StartApi(p) \/ StartLoopEnds(p) \/ DrainApi(p) \/ CloseAll(p) \/ Cancel(p)
           \/ MainReturns(p) \/ Signal(p) \/ FirstHandshakeTimesOut(p)
    PROVE  Quiet(p)
<1>1. CASE NewTelemetry(p) \/ StartPublicNATS(p) \/ ConnectNATS(p) \/ StartInternalNATS(p)
  BY <1>1, PartQuiet
     DEF NewTelemetry, StartPublicNATS, ConnectNATS, StartInternalNATS, Owning
<1> USE DEF Quiet, MovesOnly, PcType, PcValues, Owning, Busy, Owns, Goes, Exits, hostVars
<1>2. CASE StartHostServicesConnection(p)
  <2>1. CASE "nc" \in up[p] \/ May("ownHostServices")
    BY <1>2, <2>1, PartQuiet DEF StartHostServicesConnection
  <2>2. CASE ~("nc" \in up[p] \/ May("ownHostServices"))
    BY <1>2, <2>2 DEF StartHostServicesConnection
  <2> QED BY <2>1, <2>2
<1>3. CASE NewManager(p) BY <1>3 DEF NewManager
<1>4. CASE StartApi(p) BY <1>4 DEF StartApi
<1>5. CASE StartLoopEnds(p) BY <1>5 DEF StartLoopEnds, fcVars
<1>6. CASE DrainApi(p) BY <1>6 DEF DrainApi
<1>7. CASE CloseAll(p) BY <1>7 DEF CloseAll, fcVars
<1>8. CASE Cancel(p) \/ FirstHandshakeTimesOut(p)
  <2>1. UNCHANGED <<pc, alive, pid, raced>>
    BY <1>8 DEF Cancel, FirstHandshakeTimesOut, fcVars
  <2>2. pc' = [pc EXCEPT ![p] = pc[p]]
    BY <2>1
  <2> QED BY <2>1, <2>2
<1>9. CASE MainReturns(p) BY <1>9 DEF MainReturns
<1>10. CASE Signal(p)
  <2>1. CASE HandlersInstalled(p)
    <3>1. UNCHANGED <<pc, alive, pid, raced>>
      BY <1>10, <2>1 DEF Signal
    <3>2. pc' = [pc EXCEPT ![p] = pc[p]]
      BY <3>1
    <3> QED BY <3>1, <3>2
  <2>2. CASE ~HandlersInstalled(p)
    BY <1>10, <2>2 DEF Signal
  <2> QED BY <2>1, <2>2
<1> QED BY <1>1, <1>2, <1>3, <1>4, <1>5, <1>6, <1>7, <1>8, <1>9, <1>10

\* Whoever passes the check finds no owner that runs, and no one on the way.
LEMMA PidCheckKeeps ==
    ASSUME NEW p \in Procs, PidInv, PidCheck(p)
    PROVE  PidInv'
<1>1. CASE ~MayCreate
  <2>1. Quiet(p)
    BY <1>1 DEF PidCheck, PidInv, Quiet, MovesOnly, PcType, PcValues, Owning, Busy, Owns,
       Exits, Goes, hostVars
  <2> QED BY <2>1, QuietKeeps
<1>2. CASE MayCreate
  <2>1. pc' = [pc EXCEPT ![p] = "pidCreate"] /\ UNCHANGED <<alive, pid>>
    BY <1>2 DEF PidCheck, Goes, hostVars
  <2>2. PcType'
    BY <2>1 DEF PidInv, PcType, PcValues, PidCheck
  <2>3. ASSUME ~raced' PROVE ~raced /\ \A q \in Procs \ {p} : ~Creating(q)
    BY <1>2, <2>3 DEF PidCheck
  <2>4. ASSUME ~raced' PROVE \A q \in Procs \ {p} : ~Owns(q)
    BY <1>2, <2>3, <2>4 DEF PidInv, MayCreate, Owns
  <2>5. ASSUME ~raced' PROVE \A q \in Procs \ {p} : ~Busy(q)'
    BY <2>1, <2>3, <2>4, <2>5 DEF Busy, Creating, Owns, Owning, PidInv, PcType
  <2>6. ~Owns(p)'
    BY <2>1 DEF Owns, PidInv, PcType
  <2>7. \A q \in Procs : Owns(q)' => Busy(q)'
    BY DEF Owns, Busy, Owning
  <2> QED BY <2>2, <2>5, <2>6, <2>7 DEF PidInv
<1> QED BY <1>1, <1>2

\* The writer is alone, so the file it truncates and writes is nobody else's.
LEMMA PidWriteKeeps ==
    ASSUME NEW p \in Procs, PidInv, PidCreate(p) \/ PidWrite(p) \/ RemovePid(p)
    PROVE  PidInv'
<1>1. Busy(p)
  BY DEF PidCreate, PidWrite, RemovePid, Busy, Owning
<1>2. PICK to \in {"pidWrite", "telemetry", "over", "cancelling"} :
          /\ pc' = [pc EXCEPT ![p] = to]
          /\ to = "telemetry" => pid' = [file |-> "written", owner |-> p]
  BY DEF PidCreate, PidWrite, RemovePid, Goes, Exits
<1>3. alive' \in {alive, alive \ {p}} /\ raced' = raced
  BY DEF PidCreate, PidWrite, RemovePid, Exits, fcVars
<1>4. PcType'
  BY <1>2, <1>3 DEF PidInv, PcType, PcValues, Owning
<1>5. ASSUME NEW q \in Procs \ {p}, Busy(q)' PROVE Busy(q)
  BY <1>2, <1>3, <1>5 DEF Busy, PidInv, PcType
<1>6. ASSUME ~raced, NEW q \in Procs, Busy(q)' PROVE q = p
  BY <1>1, <1>5, <1>6 DEF PidInv
<1>7. ASSUME ~raced, NEW q \in Procs, Owns(q)'
      PROVE  pid' = [file |-> "written", owner |-> q]
  <2>1. q = p
    BY <1>6, <1>7 DEF Owns, Busy, Owning
  <2>2. to = "telemetry"
    BY <1>2, <1>7, <2>1 DEF Owns, PidInv, PcType
  <2> QED BY <1>2, <2>1, <2>2
<1> QED BY <1>3, <1>4, <1>6, <1>7 DEF PidInv

LEMMA PidInvInit == Init => PidInv
BY DEF Init, FcInit, PidInv, PcType, PcValues, Busy, Owns

LEMMA PidInvStep == PidInv /\ [Next]_vars => PidInv'
<1> SUFFICES ASSUME PidInv, [Next]_vars PROVE PidInv'
  OBVIOUS
<1>1. CASE UNCHANGED vars
  BY <1>1 DEF vars, fcVars, hostVars, nodeVars, PidInv, PcType, Busy, Owns
<1>2. ASSUME NEW p \in Procs, CommandSteps(p) PROVE PidInv'
  <2>1. CASE PidCheck(p) BY <2>1, PidCheckKeeps
  <2>2. CASE PidCreate(p) \/ PidWrite(p) \/ RemovePid(p) BY <2>2, PidWriteKeeps
  <2>3. CASE \/ LoadConfig(p) \/ CheckPrerequisites(p) \/ Download(p) \/ CancelDownload(p)
             \/ WriteCniConf(p) \/ InstallFails(p) \/ Installed(p)
    BY <2>3, EarlyQuiet, QuietKeeps DEF PidInv
  <2>4. CASE \/ NewTelemetry(p) \/ StartPublicNATS(p) \/ ConnectNATS(p)
             \/ StartHostServicesConnection(p) \/ StartInternalNATS(p) \/ NewManager(p)
             \/ StartApi(p) \/ StartLoopEnds(p) \/ DrainApi(p) \/ CloseAll(p) \/ Cancel(p)
             \/ MainReturns(p)
    BY <2>4, NodeQuiet, QuietKeeps DEF PidInv
  <2> QED BY <1>2, <2>1, <2>2, <2>3, <2>4 DEF CommandSteps
<1>3. ASSUME NEW p \in Procs, ProcManSteps(p) \/ Others(p) PROVE PidInv'
  <2>1. CASE Begin(p) BY <2>1, EarlyQuiet, QuietKeeps DEF PidInv
  <2>2. CASE Signal(p) \/ FirstHandshakeTimesOut(p)
    BY <2>2, NodeQuiet, QuietKeeps DEF PidInv
  <2>3. CASE /\ \/ LoopSteps(p, p \in ctxDone) \/ StopSteps(p) \/ PrepareWorkload(p)
                \/ PrepareBegins(p) \/ EventStops(p) \/ StopsWorkload(p)
             /\ UNCHANGED <<world, hostVars, nodeVars, raced>>
    <3>1. alive' \in {alive, alive \ {p}}
      BY <2>3, ProcManQuiet
    <3>2. UNCHANGED <<pc, pid, raced>>
      BY <2>3 DEF hostVars, nodeVars
    <3> QED BY <3>1, <3>2 DEF PidInv, PcType, Busy, Owns
  <2> QED BY <1>3, <2>1, <2>2, <2>3 DEF ProcManSteps, Others
<1> QED BY <1>1, <1>2, <1>3 DEF Next

\* createPid keeps a second node off the host, however many processes are
\* started, killed and crash, until two of them are inside it at once.
THEOREM PidFileExcludes == Spec => []OneNode
<1>1. PidInv => OneNode
  BY DEF PidInv, OneNode, Owns, Busy, Owning
<1> QED BY PidInvInit, PidInvStep, <1>1, PTL DEF Spec

-----------------------------------------------------------------------------
(***************************************************************************)
(* StopLeavesNoVM: the node starts the loop and the shutdown of its        *)
(* process manager once each, so that VmInv stays true.                    *)
(***************************************************************************)

\* Where a process that has started its loop can be, or its shutdown.
Started == {"running", "draining", "stopping", "closing", "cancelling", "over"}
ShutDown == {"stopping", "closing", "cancelling", "over"}

Where(p) ==
    /\ loop[p].pc # "off" => pc[p] \in Started
    /\ phase[p] # "none" => pc[p] \in ShutDown

HostInv == VmInv /\ PcType /\ \A p \in Procs : Where(p)

\* Every other step of a command, of a user or of the clock.
Forward(p) ==
    /\ UNCHANGED <<world, poolVars, stopVars, prep>>
    /\ alive' \in {alive, alive \cup {p}, alive \ {p}}
    /\ \E x : /\ Goes(p, x)
              /\ pc[p] \in Started => x \in Started
              /\ pc[p] \in ShutDown => x \in ShutDown

LEMMA HostForward ==
    ASSUME NEW p \in Procs, PcType,
           \/ CommandSteps(p) /\ ~StartApi(p) /\ ~DrainApi(p)
           \/ Begin(p) \/ Signal(p) \/ FirstHandshakeTimesOut(p)
    PROVE  Forward(p)
<1> USE DEF Forward, fcRest, fcVars
<1>1. ASSUME UNCHANGED <<world, fcRest, pc>>, alive' = alive PROVE Forward(p)
  <2>1. Goes(p, pc[p])
    BY <1>1 DEF Goes, PcType
  <2> QED BY <1>1, <2>1
<1>2. ASSUME UNCHANGED <<world, fcRest>>, Exits(p) PROVE Forward(p)
  BY <1>2 DEF Exits, Started, ShutDown
<1>3. ASSUME UNCHANGED <<world, fcRest>>, alive' \in {alive, alive \cup {p}}, NEW x, Goes(p, x),
             pc[p] \notin Started
      PROVE  Forward(p)
  BY <1>3 DEF Started, ShutDown
<1>4. ASSUME NEW part, NEW next, Part(p, part, next), part \notin Started PROVE Forward(p)
  BY <1>3, <1>4 DEF Part
<1>5. CASE LoadConfig(p) \/ Installed(p) \/ PidCheck(p)
  BY <1>2, <1>3, <1>5 DEF LoadConfig, Installed, PidCheck, Started
<1>6. CASE CheckPrerequisites(p)
  <2>1. UNCHANGED <<world, fcRest>> /\ pc[p] \notin Started
    BY <1>6 DEF CheckPrerequisites, Started
  <2>2. Exits(p) \/ (Goes(p, "installing") /\ UNCHANGED alive)
    BY <1>6 DEF CheckPrerequisites
  <2> QED BY <1>2, <1>3, <2>1, <2>2
<1>7. CASE Download(p) \/ CancelDownload(p) \/ WriteCniConf(p)
  BY <1>1, <1>7 DEF Download, CancelDownload, WriteCniConf
<1>8. CASE InstallFails(p) \/ MainReturns(p)
  BY <1>2, <1>8 DEF InstallFails, MainReturns
<1>9. CASE PidCreate(p)
  BY <1>3, <1>9 DEF PidCreate, Started
<1>10. CASE PidWrite(p)
  <2>1. UNCHANGED <<world, fcRest>> /\ pc[p] \notin Started
    BY <1>10 DEF PidWrite, Started
  <2>2. Exits(p) \/ (Goes(p, "telemetry") /\ UNCHANGED alive)
    BY <1>10 DEF PidWrite
  <2> QED BY <1>2, <1>3, <2>1, <2>2
<1>11. CASE NewTelemetry(p) \/ StartPublicNATS(p) \/ ConnectNATS(p) \/ StartInternalNATS(p)
  BY <1>4, <1>11
     DEF NewTelemetry, StartPublicNATS, ConnectNATS, StartInternalNATS, Started
<1>12. CASE StartHostServicesConnection(p)
  BY <1>2, <1>4, <1>12 DEF StartHostServicesConnection, Started
<1>13. CASE NewManager(p)
  <2>1. UNCHANGED <<world, fcRest>> /\ pc[p] \notin Started
    BY <1>13 DEF NewManager, Started
  <2>2. Exits(p) \/ (Goes(p, "api") /\ UNCHANGED alive)
    BY <1>13 DEF NewManager
  <2> QED BY <1>2, <1>3, <2>1, <2>2
<1>14. CASE StartLoopEnds(p)
  BY <1>14 DEF StartLoopEnds, Started, ShutDown
<1>15. CASE CloseAll(p) \/ RemovePid(p)
  BY <1>15 DEF CloseAll, RemovePid, Started, ShutDown
<1>16. CASE Cancel(p) \/ FirstHandshakeTimesOut(p)
  BY <1>1, <1>16 DEF Cancel, FirstHandshakeTimesOut
<1>17. CASE Begin(p)
  BY <1>3, <1>17 DEF Begin, Started
<1>18. CASE Signal(p)
  BY <1>1, <1>2, <1>18 DEF Signal
<1> QED BY <1>5, <1>6, <1>7, <1>8, <1>9, <1>10, <1>11, <1>12, <1>13, <1>14, <1>15, <1>16,
           <1>17, <1>18 DEF CommandSteps

LEMMA HostInit == Init => HostInv
<1> SUFFICES ASSUME Init PROVE HostInv
  OBVIOUS
<1>1. VmInv /\ PcType
  BY VmInit, PidInvInit DEF Init, PidInv
<1>2. \A p \in Procs : loop[p].pc = "off" /\ phase[p] = "none"
  BY DEF Init, FcInit
<1> QED BY <1>1, <1>2 DEF HostInv, Where

LEMMA HostStep == HostInv /\ PcType' /\ [Next]_vars => HostInv'
<1> SUFFICES ASSUME HostInv, PcType', [Next]_vars PROVE HostInv'
  OBVIOUS
<1>1. VmInv /\ FcTypeOK /\ PcType /\ \A q \in Procs : Where(q)
  BY DEF HostInv, VmInv
\* A step that changes pc[p] alone, and no loop and no phase.
<1>2. ASSUME NEW p \in Procs, Forward(p) PROVE HostInv'
  <2>1. alive' \subseteq Procs
    BY <1>1, <1>2 DEF Forward, FcTypeOK
  <2>2. VmInv'
    BY <1>1, <1>2, <2>1, NothingKeeps DEF Forward
  <2>3. UNCHANGED <<loop, phase>>
    BY <1>2 DEF Forward, poolVars, stopVars
  <2>4. PICK x : /\ Goes(p, x)
                 /\ pc[p] \in Started => x \in Started
                 /\ pc[p] \in ShutDown => x \in ShutDown
    BY <1>2 DEF Forward
  <2>5. \A q \in Procs : Where(q)'
    BY <1>1, <2>3, <2>4 DEF Goes, PcType, Where
  <2> QED BY <2>2, <2>5 DEF HostInv
<1>3. ASSUME NEW p \in Procs, StartApi(p) PROVE HostInv'
  <2>1. PICK x \in {"running", "draining"} : Goes(p, x)
    BY <1>3 DEF StartApi
  <2>2. pc[p] = "api" /\ pc'[p] = x /\ \A q \in Procs \ {p} : pc'[q] = pc[q]
    BY <1>1, <1>3, <2>1 DEF StartApi, Goes, PcType
  <2>3. loop[p].pc = "off" /\ phase[p] = "none" /\ UNCHANGED phase
    BY <1>1, <1>3, <2>2 DEF StartApi, stopVars, Where, Started, ShutDown
  <2>4. CASE p \in failed
    BY <1>2, <1>3, <2>1, <2>2, <2>4 DEF StartApi, Forward, poolVars, Started, ShutDown
  <2>5. CASE p \notin failed
    <3>1. VmInv'
      BY <1>1, <1>3, <2>3, <2>5, LoopStarts DEF StartApi
    <3>2. \A q \in Procs \ {p} : loop'[q] = loop[q]
      BY <1>1, <1>3, <2>5 DEF StartApi, LoopGoes, FcTypeOK
    <3>3. Where(p)'
      BY <2>2, <2>3 DEF Where, Started
    <3>4. \A q \in Procs \ {p} : Where(q)'
      BY <1>1, <2>2, <2>3, <3>2 DEF Where
    <3> QED BY <3>1, <3>3, <3>4 DEF HostInv
  <2> QED BY <2>4, <2>5
<1>4. ASSUME NEW p \in Procs, DrainApi(p) PROVE HostInv'
  <2>1. CASE "api" \notin up[p]
    BY <1>2, <1>4, <2>1 DEF DrainApi, Exits, Forward, stopVars, Started, ShutDown
  <2>2. CASE "api" \in up[p]
    <3>1. /\ pc[p] = "draining" /\ Goes(p, "stopping")
          /\ phase' = [phase EXCEPT ![p] = "workloads"]
          /\ UNCHANGED <<world, alive, poolVars, closing, stopper, toVisit, visited, prep>>
      BY <1>4, <2>2 DEF DrainApi
    <3>2. phase[p] = "none"
      BY <1>1, <3>1 DEF Where, ShutDown
    <3>3. VmInv'
      BY <1>1, <3>1, <3>2, StopStarts
    <3>4. /\ pc'[p] = "stopping" /\ UNCHANGED loop
          /\ \A q \in Procs \ {p} : pc'[q] = pc[q] /\ phase'[q] = phase[q]
      BY <1>1, <3>1 DEF Goes, PcType, FcTypeOK, poolVars
    <3>5. Where(p)' /\ \A q \in Procs \ {p} : Where(q)'
      BY <1>1, <3>4 DEF Where, Started, ShutDown
    <3> QED BY <3>3, <3>5 DEF HostInv
  <2> QED BY <2>1, <2>2
<1>5. ASSUME NEW p \in Procs, NEW c \in BOOLEAN, UNCHANGED <<world, nodeVars>>,
             \/ LoopSteps(p, c) \/ StopSteps(p) \/ PrepareWorkload(p)
             \/ PrepareBegins(p) \/ EventStops(p) \/ StopsWorkload(p)
      PROVE  HostInv'
  <2>1. VmInv'
    BY <1>1, <1>5, ProcManKeeps
  <2>2. \A q \in Procs : /\ loop'[q].pc # "off" => loop[q].pc # "off"
                         /\ phase'[q] # "none" => phase[q] # "none"
    BY <1>1, <1>5, ProcManStays
  <2>3. \A q \in Procs : Where(q)'
    BY <1>1, <1>5, <2>2 DEF Where, nodeVars
  <2> QED BY <2>1, <2>3 DEF HostInv
<1>6. ASSUME NEW p \in Procs, CommandSteps(p) \/ ProcManSteps(p) \/ Others(p) PROVE HostInv'
  <2>1. CASE CommandSteps(p)
    BY <1>1, <1>2, <1>3, <1>4, <2>1, HostForward
  <2>2. CASE ProcManSteps(p)
    <3>1. (p \in ctxDone) \in BOOLEAN
      OBVIOUS
    <3>2. UNCHANGED <<world, nodeVars>>
      BY <2>2 DEF ProcManSteps
    <3> QED BY <1>5, <2>2, <3>1, <3>2 DEF ProcManSteps
  <2>3. CASE Others(p)
    <3>1. CASE Begin(p) \/ Signal(p) \/ FirstHandshakeTimesOut(p)
      BY <1>1, <1>2, <3>1, HostForward
    <3>2. CASE /\ PrepareBegins(p) \/ EventStops(p) \/ StopsWorkload(p)
               /\ UNCHANGED <<world, nodeVars>>
      BY <1>5, <3>2
    <3> QED BY <2>3, <3>1, <3>2 DEF Others
  <2> QED BY <1>6, <2>1, <2>2, <2>3
<1>7. CASE UNCHANGED vars
  <2>1. VmInv'
    BY <1>1, <1>7, NothingKeeps DEF vars, fcVars, FcTypeOK
  <2>2. \A q \in Procs : Where(q)'
    BY <1>1, <1>7 DEF Where, vars, fcVars, poolVars, stopVars, nodeVars
  <2> QED BY <2>1, <2>2 DEF HostInv
<1> QED BY <1>6, <1>7 DEF Next

\* What VmInv says of a manager whose Stop has returned.
LEMMA VmInvStops == VmInv => StopLeavesNoVM
<1> SUFFICES ASSUME VmInv, NEW p \in Procs, phase[p] = "done", ~May("stopFails")
             PROVE  /\ toVisit[p] \cap RunningOf(p) = {}
                    /\ Cardinality(RunningOf(p)) <= 1
                    /\ ~May("createFails") => \A v \in rootfs : vm[v] # [st |-> "ended", by |-> p]
  BY DEF StopLeavesNoVM
<1>1. FcTypeOK /\ CopiesInv /\ FiledInv(p) /\ StopInv(p)
  BY Own
<1>2. \A v \in RunningOf(p) : v \in Vms /\ vm[v].st = "running" /\ vm[v].by = p
  BY DEF RunningOf
<1>3. ASSUME NEW v \in toVisit[p], v \in RunningOf(p) PROVE FALSE
  BY <1>1, <1>2, <1>3 DEF StopInv, FiledInv, Filed
<1>4. \A u, v \in RunningOf(p) : u = v
  BY <1>1, <1>2, <1>3 DEF StopInv, Left
<1>5. Cardinality(RunningOf(p)) <= 1
  <2>1. CASE RunningOf(p) = {}
    <3>1. Cardinality({}) = 0
      BY FS_EmptySet
    <3> QED BY <2>1, <3>1
  <2>2. CASE RunningOf(p) # {}
    <3>0. PICK v : v \in RunningOf(p)
      BY <2>2
    <3>1. RunningOf(p) = {v}
      BY <1>4, <3>0
    <3>2. Cardinality({v}) = 1
      BY FS_Singleton
    <3> QED BY <3>1, <3>2
  <2> QED BY <2>1, <2>2
<1>6. ASSUME ~May("createFails"), NEW v \in rootfs PROVE vm[v] # [st |-> "ended", by |-> p]
  BY <1>1, <1>6 DEF CopiesInv
<1>7. toVisit[p] \cap RunningOf(p) = {}
  BY <1>3
<1> QED BY <1>5, <1>6, <1>7

\* Stop of the process manager: if shutdown of a VM works, when it has
\* returned every VM that was filed when it began is down, at most one other
\* runs on, and the copies of the root file system are gone with their VMs -
\* for any number of nodes on the host, of VMs, and of interleavings with the
\* loop that makes VMs and with the events that stop them.
THEOREM StopEndsVMs == Spec => []StopLeavesNoVM
<1>1. Init => HostInv /\ PidInv
  BY HostInit, PidInvInit
<1>2. HostInv /\ PidInv /\ [Next]_vars => HostInv' /\ PidInv'
  BY HostStep, PidInvStep DEF PidInv
<1>3. HostInv => StopLeavesNoVM
  BY VmInvStops DEF HostInv
<1> QED BY <1>1, <1>2, <1>3, PTL DEF Spec

=============================================================================
