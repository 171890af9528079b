---------------------- MODULE FirecrackerProcManProofs ----------------------
(***************************************************************************)
(* What the process manager of a node keeps true of its VMs, whatever the  *)
(* order in which its goroutines run and whoever else is on the host: who  *)
(* can still know a VM.  The loop alone does until it is filed, the maps   *)
(* of the process that made it from then on, and nobody once it has ended. *)
(***************************************************************************)
EXTENDS FirecrackerProcMan, TLAPS

\* Most leaves are first-order; the rest is arithmetic or records.
USE ZenonT(3), SMT

InHand(p, v) == loop[p].pc \in {"creating", "metadata"} /\ loop[p].vm = v

\* The VM in the loop's hands: nobody else has it.
LoopInv(p) ==
    /\ loop[p].pc \in {"creating", "metadata", "pushing"} => loop[p].vm \in Vms
    /\ loop[p].pc = "creating" =>
           /\ vm[loop[p].vm].st = "none"
           /\ \A q \in Procs \ {p} :
                 loop[q].pc = "creating" => loop[q].vm # loop[p].vm
    /\ loop[p].pc = "metadata" =>
           vm[loop[p].vm].st = "running" /\ vm[loop[p].vm].by = p

\* A VM that was filed was made by p and has left the loop's hands.
Filed(p, v) == vm[v].st # "none" /\ vm[v].by = p /\ ~InHand(p, v)

FiledInv(p) ==
    /\ \A v \in allVMs[p] : Filed(p, v)
    /\ \A v \in toVisit[p] : Filed(p, v)
    /\ \A v \in visited[p] : Filed(p, v)
    /\ \A t \in Stoppers : stopper[p][t].pc # "idle" =>
           stopper[p][t].vm \in Vms /\ Filed(p, stopper[p][t].vm)

PhaseInv(p) ==
    /\ p \in closing <=> phase[p] \in {"vms", "done"}
    /\ phase[p] \in {"none", "workloads"} => visited[p] = {}

\* What Stop has still to do with v, or may never get to see.
Left(p, v) ==
    /\ v \notin toVisit[p]
    /\ v \in allVMs[p] \/ InHand(p, v) \/ (vm[v].st = "running" /\ vm[v].by = p)

\* If shutdown of a VM works: a VM that runs is filed or in the loop's hands,
\* the range over allVMs is busy with what it has met and not removed, and at
\* most one VM is missing from what it set out to meet.
StopInv(p) ==
    /\ \A v \in Vms : vm[v].st = "running" /\ vm[v].by = p =>
           v \in allVMs[p] \/ InHand(p, v)
    /\ phase[p] = "vms" => \A v \in visited[p] \cap allVMs[p] :
           stopper[p]["node"].pc # "idle" /\ stopper[p]["node"].vm = v
    /\ phase[p] = "done" => toVisit[p] \cap allVMs[p] = {}
    /\ phase[p] \in {"vms", "done"} =>
           \A u, v \in Vms : Left(p, u) /\ Left(p, v) => u = v

CopiesInv == ~May("createFails") => \A v \in rootfs : vm[v].st # "ended"

VmInv ==
    /\ FcTypeOK
    /\ CopiesInv
    /\ \A p \in Procs :
          LoopInv(p) /\ FiledInv(p) /\ PhaseInv(p) /\ (~May("stopFails") => StopInv(p))

-----------------------------------------------------------------------------
LoopPcs == {"off", "top", "creating", "metadata", "pushing", "ended"}
StopperStates == [pc : {"idle", "found", "waiting"}, vm : Vms \cup {None}]

\* What the three kinds of assignments do.
LEMMA LoopChange ==
    ASSUME FcTypeOK, NEW p \in Procs, NEW x \in LoopPcs, NEW v \in Vms \cup {None},
           LoopGoes(p, x, v)
    PROVE  /\ loop' \in [Procs -> [pc : LoopPcs, vm : Vms \cup {None}]]
           /\ loop'[p].pc = x /\ loop'[p].vm = v
           /\ \A q \in Procs \ {p} : loop'[q] = loop[q]
BY DEF FcTypeOK, LoopGoes, LoopPcs

LEMMA VmChange ==
    ASSUME FcTypeOK, NEW p \in Procs, NEW st \in {"none", "running", "ended"},
           NEW v \in Vms, VmIs(v, st, p)
    PROVE  /\ vm' \in [Vms -> [st : {"none", "running", "ended"}, by : Procs \cup {None}]]
           /\ vm'[v].st = st /\ vm'[v].by = p
           /\ \A u \in Vms \ {v} : vm'[u] = vm[u]
BY DEF FcTypeOK, VmIs

LEMMA StopperChange ==
    ASSUME FcTypeOK, NEW p \in Procs, NEW t \in Stoppers, NEW r \in StopperStates,
           stopper' = [stopper EXCEPT ![p][t] = r]
    PROVE  /\ stopper' \in [Procs -> [Stoppers -> StopperStates]]
           /\ stopper'[p][t] = r
           /\ \A u \in Stoppers \ {t} : stopper'[p][u] = stopper[p][u]
           /\ \A q \in Procs \ {p} : stopper'[q] = stopper[q]
<1>1. stopper \in [Procs -> [Stoppers -> StopperStates]]
  BY DEF FcTypeOK, StopperStates
<1> HIDE DEF StopperStates
<1>2. [stopper[p] EXCEPT ![t] = r] \in [Stoppers -> StopperStates]
  BY <1>1
<1> QED BY <1>1, <1>2

\* What a step of p's goroutines leaves alone, and which VMs it may change.
StepOf(p) ==
    /\ UNCHANGED world
    /\ \A q \in Procs \ {p} :
          /\ UNCHANGED <<loop[q], allVMs[q], toVisit[q], visited[q], stopper[q]>>
          /\ UNCHANGED phase[q]
          /\ q \in closing' <=> q \in closing
    /\ \A v \in Vms :
          \/ vm'[v] = vm[v]
          \/ /\ vm'[v].by = p /\ vm'[v].st # "none"
             /\ \/ vm[v].st # "none" /\ vm[v].by = p
                \/ loop[p].pc = "creating" /\ loop[p].vm = v
    /\ \/ loop'[p].pc # "creating"
       \/ loop'[p] = loop[p]
       \/ \A q \in Procs : loop'[p].vm # loop[q].vm

\* It preserves what the other processes rely on.
LEMMA OthersKeep ==
    ASSUME VmInv, NEW p \in Procs, StepOf(p), NEW q \in Procs \ {p}
    PROVE  /\ LoopInv(q)' /\ FiledInv(q)' /\ PhaseInv(q)'
           /\ (~May("stopFails"))' => StopInv(q)'
<1>1. /\ LoopInv(q) /\ FiledInv(q) /\ PhaseInv(q) /\ LoopInv(p)
      /\ ~May("stopFails") => StopInv(q)
      /\ allVMs[q] \subseteq Vms /\ toVisit[q] \subseteq Vms /\ visited[q] \subseteq Vms
  BY DEF VmInv, FcTypeOK
<1>2. /\ UNCHANGED <<loop[q], allVMs[q], toVisit[q], visited[q], stopper[q]>>
      /\ UNCHANGED phase[q]
      /\ q \in closing' <=> q \in closing
  BY DEF StepOf
\* The VMs of q are its own.
<1>3. ASSUME NEW v \in Vms, vm[v].st # "none" /\ vm[v].by = q PROVE vm'[v] = vm[v]
  BY <1>1, <1>3 DEF StepOf, LoopInv
<1>4. ASSUME NEW v \in Vms, vm'[v].st # "none" /\ vm'[v].by = q PROVE vm'[v] = vm[v]
  BY <1>4 DEF StepOf
<1>5. \A v \in Vms : InHand(q, v)' <=> InHand(q, v)
  BY <1>2 DEF InHand
<1>6. \A v \in Vms : Filed(q, v) => Filed(q, v)'
  BY <1>3, <1>5 DEF Filed
<1>7. LoopInv(q)'
  <2>1. ASSUME loop[q].pc = "creating"
        PROVE  vm'[loop[q].vm].st = "none"
    BY <1>1, <2>1 DEF LoopInv, StepOf
  <2>2. ASSUME loop[q].pc = "creating", NEW o \in Procs \ {q}, loop'[o].pc = "creating"
        PROVE  loop'[o].vm # loop[q].vm
    BY <1>1, <2>2 DEF LoopInv, StepOf
  <2>3. ASSUME loop[q].pc = "metadata"
        PROVE  vm'[loop[q].vm].st = "running" /\ vm'[loop[q].vm].by = q
    BY <1>1, <1>3, <2>3 DEF LoopInv
  <2> QED BY <1>1, <1>2, <2>1, <2>2, <2>3 DEF LoopInv
<1>8. FiledInv(q)'
  <2>1. \A t \in Stoppers : stopper[q][t].pc # "idle" => Filed(q, stopper[q][t].vm)'
    <3> SUFFICES ASSUME NEW t \in Stoppers, stopper[q][t].pc # "idle"
                 PROVE  \A v : v = stopper[q][t].vm => Filed(q, v)'
      BY <1>2 DEF Filed, InHand
    <3> QED BY <1>1, <1>6 DEF FiledInv
  <2> QED BY <1>1, <1>2, <1>6, <2>1 DEF FiledInv
<1>9. PhaseInv(q)'
  BY <1>1, <1>2 DEF PhaseInv
<1>10. ASSUME ~May("stopFails") PROVE StopInv(q)'
  <2>1. StopInv(q)
    BY <1>1, <1>10
  <2>2. \A v \in Vms : vm'[v].st = "running" /\ vm'[v].by = q =>
            vm[v].st = "running" /\ vm[v].by = q
    BY <1>4
  <2>3. \A v \in Vms : Left(q, v)' => Left(q, v)
    BY <1>2, <1>5, <2>2 DEF Left
  <2> QED BY <1>2, <1>5, <2>1, <2>2, <2>3 DEF StopInv
<1>11. May("stopFails")' <=> May("stopFails")
  BY DEF StepOf, May
<1> QED BY <1>7, <1>8, <1>9, <1>10, <1>11
LEMMA OwnKeep ==
    ASSUME VmInv, NEW p \in Procs, StepOf(p), FcTypeOK', CopiesInv',
           LoopInv(p)', FiledInv(p)', PhaseInv(p)', ~May("stopFails") => StopInv(p)'
    PROVE  VmInv'
<1>1. \A q \in Procs \ {p} : /\ LoopInv(q)' /\ FiledInv(q)' /\ PhaseInv(q)'
                             /\ (~May("stopFails"))' => StopInv(q)'
  BY OthersKeep
<1>2. (~May("stopFails"))' => ~May("stopFails")
  BY DEF StepOf, May
<1> QED BY <1>1, <1>2 DEF VmInv

\* What VmInv says of one process.
LEMMA Own ==
    ASSUME VmInv, NEW p \in Procs
    PROVE  /\ FcTypeOK /\ CopiesInv
           /\ LoopInv(p) /\ FiledInv(p) /\ PhaseInv(p) /\ (~May("stopFails") => StopInv(p))
           /\ allVMs[p] \subseteq Vms /\ toVisit[p] \subseteq Vms /\ visited[p] \subseteq Vms
BY DEF VmInv, FcTypeOK

\* Steps that change no more than the loop, the pool and the deployments.
LEMMA PoolKeeps ==
    ASSUME VmInv, NEW p \in Procs, FcTypeOK', StepOf(p),
           UNCHANGED <<allVMs, vm, rootfs, stopVars>>,
           loop'[p].pc \in {"creating", "metadata"} => loop'[p] = loop[p],
           loop'[p].pc = "pushing" => loop'[p] = loop[p],
           loop[p].pc = "off" => loop'[p].pc = "off",
           loop[p].pc = "metadata" => loop'[p] = loop[p]
    PROVE  VmInv'
<1> USE DEF stopVars
<1>1. /\ LoopInv(p) /\ FiledInv(p) /\ PhaseInv(p) /\ (~May("stopFails") => StopInv(p))
      /\ CopiesInv /\ allVMs[p] \subseteq Vms
  BY Own
<1>2. \A v \in Vms : InHand(p, v)' => InHand(p, v)
  BY DEF InHand
<1>3. \A v \in Vms : Filed(p, v) => Filed(p, v)'
  BY <1>2 DEF Filed
<1>4. LoopInv(p)'
  BY <1>1 DEF LoopInv, StepOf
<1>5. FiledInv(p)'
  <2>1. \A t \in Stoppers : stopper[p][t].pc # "idle" => Filed(p, stopper[p][t].vm)'
    <3> SUFFICES ASSUME NEW t \in Stoppers, stopper[p][t].pc # "idle"
                 PROVE  \A v : v = stopper[p][t].vm => Filed(p, v)'
      BY DEF Filed, InHand
    <3> QED BY <1>1, <1>3 DEF FiledInv
  <2>2. toVisit[p] \subseteq Vms /\ visited[p] \subseteq Vms
    BY Own
  <2> QED BY <1>1, <1>3, <2>1, <2>2 DEF FiledInv
<1>6. PhaseInv(p)'
  BY <1>1 DEF PhaseInv
<1>7. CopiesInv'
  BY <1>1 DEF CopiesInv, StepOf, May
<1>8. ASSUME ~May("stopFails") PROVE StopInv(p)'
  <2>1. StopInv(p)
    BY <1>1, <1>8
  <2>2. \A v \in Vms : vm[v].st = "running" /\ InHand(p, v) => InHand(p, v)'
    BY <1>1 DEF InHand, LoopInv
  <2>3. \A v \in Vms : Left(p, v)' => Left(p, v)
    BY <1>2 DEF Left
  <2> QED BY <2>1, <2>2, <2>3 DEF StopInv
<1> QED BY <1>4, <1>5, <1>6, <1>7, <1>8, OwnKeep

LEMMA LoopKeeps ==
    ASSUME VmInv, NEW p \in Procs, NEW c \in BOOLEAN, LoopSteps(p, c),
           UNCHANGED world
    PROVE  VmInv'
<1>0. /\ FcTypeOK /\ CopiesInv
      /\ LoopInv(p) /\ FiledInv(p) /\ PhaseInv(p) /\ (~May("stopFails") => StopInv(p))
      /\ allVMs[p] \subseteq Vms /\ toVisit[p] \subseteq Vms /\ visited[p] \subseteq Vms
  BY Own
<1>m. \A f : May(f)' <=> May(f)
  BY DEF May
<1>1. ASSUME NEW x \in {"top", "ended"}, LoopGoes(p, x, None),
             loop[p].pc \in {"top", "pushing"},
             warm' \in [Procs -> Seq(Vms)],
             UNCHANGED <<alive, allVMs, requests, vm, rootfs, stopVars, prep>>
      PROVE  VmInv'
  <2>1. /\ loop' \in [Procs -> [pc : LoopPcs, vm : Vms \cup {None}]]
        /\ loop'[p].pc = x
        /\ \A q \in Procs \ {p} : loop'[q] = loop[q]
    BY <1>0, <1>1, LoopChange DEF LoopPcs
  <2>2. FcTypeOK'
    BY <1>0, <1>1, <2>1 DEF FcTypeOK, LoopPcs, stopVars
  <2>3. StepOf(p)
    BY <1>1, <2>1 DEF StepOf, stopVars
  <2> QED BY <1>1, <2>1, <2>2, <2>3, PoolKeeps
<1>2. CASE LoopEnds(p, c)
  <2>1. warm' \in [Procs -> Seq(Vms)]
    BY <1>0, <1>2 DEF LoopEnds, FcTypeOK
  <2> QED BY <1>1, <1>2, <2>1 DEF LoopEnds
<1>3. CASE LoopPushes(p)
  <2>1. CASE p \in closing
    <3>1. warm' \in [Procs -> Seq(Vms)]
      BY <1>0, <1>3, <2>1 DEF LoopPushes, FcTypeOK
    <3> QED BY <1>1, <1>3, <2>1, <3>1 DEF LoopPushes
  <2>2. CASE p \notin closing
    <3>1. /\ warm' = [warm EXCEPT ![p] = Append(@, loop[p].vm)]
          /\ loop[p].vm \in Vms /\ warm \in [Procs -> Seq(Vms)]
      BY <1>0, <1>3, <2>2 DEF LoopPushes, FcTypeOK, LoopInv
    <3>2. Append(warm[p], loop[p].vm) \in Seq(Vms)
      BY <3>1
    <3>3. warm' \in [Procs -> Seq(Vms)]
      BY <3>1, <3>2
    <3> QED BY <1>1, <1>3, <2>2, <3>3 DEF LoopPushes
  <2> QED BY <2>1, <2>2
\* A new id: no VM has it, and no other loop.
<1>4. CASE LoopCopies(p)
  <2>1. PICK v \in Vms : /\ NextVm(v) /\ LoopGoes(p, "creating", v)
                         /\ rootfs' = rootfs \cup {v}
    BY <1>4 DEF LoopCopies
  <2>2. /\ loop[p].pc = "top" /\ p \notin closing
        /\ UNCHANGED <<alive, warm, allVMs, requests, vm, stopVars, prep>>
    BY <1>4 DEF LoopCopies
  <2>3. vm[v].st = "none" /\ \A q \in Procs : loop[q].vm # v
    BY <2>1 DEF NextVm, Taken
  <2>4. /\ loop' \in [Procs -> [pc : LoopPcs, vm : Vms \cup {None}]]
        /\ loop'[p].pc = "creating" /\ loop'[p].vm = v
        /\ \A q \in Procs \ {p} : loop'[q] = loop[q]
    BY <1>0, <2>1, LoopChange DEF LoopPcs
  <2>5. FcTypeOK'
    BY <1>0, <2>1, <2>2, <2>4 DEF FcTypeOK, LoopPcs, stopVars
  <2>6. StepOf(p)
    BY <2>2, <2>3, <2>4 DEF StepOf, stopVars
  <2>7. LoopInv(p)'
    BY <2>2, <2>3, <2>4 DEF LoopInv
  <2>8. \A u \in Vms : Filed(p, u) => Filed(p, u)'
    BY <2>2, <2>3, <2>4 DEF Filed, InHand
  <2>9. FiledInv(p)'
    BY <1>0, <2>2, <2>8 DEF FiledInv, stopVars
  <2>10. PhaseInv(p)' /\ CopiesInv'
    BY <1>0, <1>m, <2>1, <2>2, <2>3 DEF PhaseInv, CopiesInv, stopVars
  <2>11. ASSUME ~May("stopFails") PROVE StopInv(p)'
    <3>1. phase[p] \notin {"vms", "done"} /\ UNCHANGED <<phase, allVMs, vm>>
      BY <1>0, <2>2 DEF PhaseInv, stopVars
    <3>2. \A u \in Vms : ~InHand(p, u)
      BY <2>2 DEF InHand
    <3> QED BY <1>0, <2>11, <3>1, <3>2 DEF StopInv
  <2> QED BY <2>5, <2>6, <2>7, <2>9, <2>10, <2>11, OwnKeep
<1>5. CASE CreateAndStartVM(p)
  <2> DEFINE v == loop[p].vm
  <2>1. /\ loop[p].pc = "creating" /\ v \in Vms /\ vm[v].st = "none"
        /\ UNCHANGED <<alive, warm, allVMs, requests, rootfs, stopVars, prep>>
    BY <1>0, <1>5 DEF CreateAndStartVM, LoopInv
  <2>2. PICK x \in {"metadata", "top"}, st \in {"running", "ended"} :
           /\ x = "metadata" <=> st = "running"
           /\ st = "ended" => May("createFails")
           /\ LoopGoes(p, x, IF x = "metadata" THEN v ELSE None) /\ VmIs(v, st, p)
    BY <1>5 DEF CreateAndStartVM
  <2>3. /\ loop' \in [Procs -> [pc : LoopPcs, vm : Vms \cup {None}]]
        /\ loop'[p].pc = x /\ loop'[p].vm = (IF x = "metadata" THEN v ELSE None)
        /\ \A q \in Procs \ {p} : loop'[q] = loop[q]
    BY <1>0, <2>1, <2>2, LoopChange DEF LoopPcs
  <2>4. /\ vm' \in [Vms -> [st : {"none", "running", "ended"}, by : Procs \cup {None}]]
        /\ vm'[v].st = st /\ vm'[v].by = p
        /\ \A u \in Vms \ {v} : vm'[u] = vm[u]
    BY <1>0, <2>1, <2>2, VmChange
  <2> HIDE DEF v
  <2>5. FcTypeOK'
    BY <1>0, <2>1, <2>3, <2>4 DEF FcTypeOK, LoopPcs, stopVars
  <2>v. v = loop[p].vm
    BY DEF v
  <2>6. StepOf(p)
    BY <2>1, <2>3, <2>4, <2>v DEF StepOf, stopVars
  <2>7. LoopInv(p)'
    BY <2>1, <2>2, <2>3, <2>4 DEF LoopInv
  <2>8. \A u \in Vms : Filed(p, u) => Filed(p, u)' /\ u # v
    BY <2>1, <2>3, <2>4, <2>v DEF Filed, InHand
  <2>9. FiledInv(p)'
    BY <1>0, <2>1, <2>8 DEF FiledInv, stopVars
  <2>10. PhaseInv(p)' /\ CopiesInv'
    <3>1. PhaseInv(p)'
      BY <1>0, <2>1 DEF PhaseInv, stopVars
    <3>2. rootfs \subseteq Vms
      BY <1>0 DEF FcTypeOK
    <3> QED BY <1>0, <1>m, <2>1, <2>2, <2>4, <3>1, <3>2 DEF CopiesInv
  <2>11. ASSUME ~May("stopFails") PROVE StopInv(p)'
    <3>1. StopInv(p)
      BY <1>0, <2>11
    <3>2. \A u \in Vms : InHand(p, u)' => InHand(p, u)
      BY <2>1, <2>3, <2>v DEF InHand
    <3>3. \A u \in Vms : Left(p, u)' => Left(p, u)
      BY <2>1, <2>4, <3>2, <2>v DEF Left, InHand, stopVars
    <3>4. \A u \in Vms : vm'[u].st = "running" /\ vm'[u].by = p =>
              u \in allVMs'[p] \/ InHand(p, u)'
      BY <2>1, <2>2, <2>3, <2>4, <2>v, <3>1 DEF StopInv, InHand
    <3>5. UNCHANGED <<phase, visited, toVisit, allVMs, stopper>>
      BY <2>1 DEF stopVars
    <3> QED BY <3>1, <3>3, <3>4, <3>5 DEF StopInv
  <2> QED BY <2>5, <2>6, <2>7, <2>9, <2>10, <2>11, OwnKeep
<1>6. CASE SetMetadata(p)
  <2> DEFINE v == loop[p].vm
  <2>1. /\ loop[p].pc = "metadata" /\ v \in Vms /\ vm[v].st = "running" /\ vm[v].by = p
        /\ UNCHANGED <<alive, warm, requests, rootfs, stopVars, prep>>
    BY <1>0, <1>6 DEF SetMetadata, LoopInv
  <2>v. v = loop[p].vm
    BY DEF v
  <2>s. UNCHANGED <<phase, visited, toVisit, stopper, closing>>
    BY <2>1 DEF stopVars
  \* It is not known to Stop yet.
  <2>f. \A u \in Vms : Filed(p, u) => u # v
    BY <2>1, <2>v DEF Filed, InHand
  <2>2. CASE LoopGoes(p, "pushing", v) /\ allVMs' = [allVMs EXCEPT ![p] = @ \cup {v}]
             /\ UNCHANGED vm
    <3>1. /\ loop' \in [Procs -> [pc : LoopPcs, vm : Vms \cup {None}]]
          /\ loop'[p].pc = "pushing" /\ loop'[p].vm = v
          /\ \A q \in Procs \ {p} : loop'[q] = loop[q]
      BY <1>0, <2>1, <2>2, LoopChange DEF LoopPcs
    <3>2. /\ allVMs' \in [Procs -> SUBSET Vms] /\ allVMs'[p] = allVMs[p] \cup {v}
          /\ \A q \in Procs \ {p} : allVMs'[q] = allVMs[q]
      BY <1>0, <2>1, <2>2 DEF FcTypeOK
    <3> HIDE DEF v
    <3>3. FcTypeOK'
      BY <1>0, <2>1, <2>2, <2>s, <3>1, <3>2 DEF FcTypeOK, LoopPcs
    <3>4. StepOf(p)
      BY <2>2, <2>s, <3>1, <3>2 DEF StepOf
    <3>5. LoopInv(p)'
      BY <2>1, <3>1 DEF LoopInv
    <3>6. \A u \in Vms : Filed(p, u) \/ u = v => Filed(p, u)'
      BY <2>1, <2>2, <3>1 DEF Filed, InHand
    <3>7. FiledInv(p)'
      BY <1>0, <2>1, <2>s, <3>2, <3>6 DEF FiledInv
    <3>8. PhaseInv(p)' /\ CopiesInv'
      BY <1>0, <1>m, <2>1, <2>2, <2>s DEF PhaseInv, CopiesInv
    <3>9. ASSUME ~May("stopFails") PROVE StopInv(p)'
      <4>1. StopInv(p) /\ v \notin visited[p] /\ v \notin toVisit[p]
        BY <1>0, <2>1, <2>f, <3>9 DEF FiledInv
      <4>2. \A u \in Vms : Left(p, u)' => Left(p, u)
        BY <2>1, <2>2, <2>s, <2>v, <3>1, <3>2 DEF Left, InHand
      <4>3. \A u \in Vms : vm'[u].st = "running" /\ vm'[u].by = p => u \in allVMs'[p]
        BY <2>2, <2>v, <3>2, <4>1 DEF StopInv, InHand
      <4> QED BY <2>s, <3>2, <4>1, <4>2, <4>3 DEF StopInv
    <3> QED BY <3>3, <3>4, <3>5, <3>7, <3>8, <3>9, OwnKeep
  <2>3. CASE May("createFails") /\ LoopGoes(p, "top", None) /\ VmIs(v, "ended", p)
             /\ UNCHANGED allVMs
    <3>1. /\ loop' \in [Procs -> [pc : LoopPcs, vm : Vms \cup {None}]]
          /\ loop'[p].pc = "top"
          /\ \A q \in Procs \ {p} : loop'[q] = loop[q]
      BY <1>0, <2>3, LoopChange DEF LoopPcs
    <3>2. /\ vm' \in [Vms -> [st : {"none", "running", "ended"}, by : Procs \cup {None}]]
          /\ vm'[v].st = "ended" /\ vm'[v].by = p
          /\ \A u \in Vms \ {v} : vm'[u] = vm[u]
      BY <1>0, <2>1, <2>3, VmChange
    <3> HIDE DEF v
    <3>3. FcTypeOK'
      BY <1>0, <2>1, <2>3, <2>s, <3>1, <3>2 DEF FcTypeOK, LoopPcs
    <3>4. StepOf(p)
      BY <2>1, <2>3, <2>s, <3>1, <3>2 DEF StepOf
    <3>5. LoopInv(p)'
      BY <3>1 DEF LoopInv
    <3>6. \A u \in Vms : Filed(p, u) => Filed(p, u)'
      BY <2>f, <3>1, <3>2 DEF Filed, InHand
    <3>7. FiledInv(p)'
      BY <1>0, <2>3, <2>s, <3>6 DEF FiledInv
    <3>8. PhaseInv(p)' /\ CopiesInv'
      BY <1>0, <1>m, <2>1, <2>3, <2>s DEF PhaseInv, CopiesInv
    <3>9. ASSUME ~May("stopFails") PROVE StopInv(p)'
      <4>1. StopInv(p)
        BY <1>0, <3>9
      <4>2. \A u \in Vms : Left(p, u)' => Left(p, u)
        BY <2>1, <2>3, <2>s, <2>v, <3>1, <3>2 DEF Left, InHand
      <4>3. \A u \in Vms : vm'[u].st = "running" /\ vm'[u].by = p => u \in allVMs'[p]
        BY <2>3, <2>v, <3>2, <4>1 DEF StopInv, InHand
      <4> QED BY <2>3, <2>s, <4>1, <4>2, <4>3 DEF StopInv
    <3> QED BY <3>3, <3>4, <3>5, <3>7, <3>8, <3>9, OwnKeep
  <2> QED BY <1>6, <2>2, <2>3 DEF SetMetadata
<1> QED BY <1>2, <1>3, <1>4, <1>5, <1>6 DEF LoopSteps

\* Steps that leave the loop and the VMs as they are.
LEMMA StopperKeeps ==
    ASSUME VmInv, NEW p \in Procs, FcTypeOK', UNCHANGED <<world, loop, allVMs, vm, rootfs>>,
           \A q \in Procs \ {p} :
               /\ UNCHANGED <<toVisit[q], visited[q], stopper[q], phase[q]>>
               /\ q \in closing' <=> q \in closing,
           \A t \in Stoppers : stopper'[p][t].pc # "idle" =>
               \/ stopper'[p][t].vm \in allVMs[p]
               \/ stopper[p][t].pc # "idle" /\ stopper'[p][t].vm = stopper[p][t].vm,
           toVisit'[p] \subseteq toVisit[p] \cup allVMs[p],
           visited'[p] \subseteq visited[p] \cup allVMs[p],
           PhaseInv(p)', ~May("stopFails") => StopInv(p)'
    PROVE  VmInv'
<1>1. /\ FcTypeOK /\ CopiesInv /\ LoopInv(p) /\ FiledInv(p)
      /\ allVMs[p] \subseteq Vms /\ toVisit[p] \subseteq Vms /\ visited[p] \subseteq Vms
  BY Own
<1>2. StepOf(p)
  BY DEF StepOf
<1>3. LoopInv(p)' /\ CopiesInv'
  BY <1>1 DEF LoopInv, CopiesInv, May
<1>4. \A v \in Vms : Filed(p, v) => Filed(p, v)'
  BY DEF Filed, InHand
<1>5. ASSUME NEW t \in Stoppers, stopper'[p][t].pc # "idle"
      PROVE  stopper'[p][t].vm \in Vms /\ \A v : v = stopper'[p][t].vm => Filed(p, v)'
  BY <1>1, <1>4, <1>5 DEF FiledInv
<1>6. \A t \in Stoppers : stopper'[p][t].pc # "idle" => Filed(p, stopper[p][t].vm)'
  BY <1>5 DEF Filed, InHand
<1>7. FiledInv(p)'
  BY <1>1, <1>4, <1>5, <1>6 DEF FiledInv
<1> QED BY <1>2, <1>3, <1>7, OwnKeep

LEMMA EnterKeeps ==
    ASSUME VmInv, NEW p \in Procs, NEW t \in Stoppers, NEW v \in Vms, Enter(p, t, v),
           UNCHANGED <<world, toVisit>>,
           \/ visited' = visited /\ (t = "node" => phase[p] # "vms")
           \/ /\ t = "node" /\ phase[p] = "vms"
              /\ visited' = [visited EXCEPT ![p] = @ \cup {v}]
    PROVE  VmInv'
<1>1. /\ FcTypeOK /\ PhaseInv(p) /\ (~May("stopFails") => StopInv(p))
      /\ allVMs[p] \subseteq Vms /\ toVisit[p] \subseteq Vms /\ visited[p] \subseteq Vms
  BY Own
<1>2. /\ stopper[p][t].pc = "idle" /\ v \in allVMs[p]
      /\ stopper' = [stopper EXCEPT ![p][t] = [pc |-> "found", vm |-> v]]
      /\ requests' = [requests EXCEPT ![p] = @ \ {v}]
      /\ UNCHANGED <<alive, loop, warm, allVMs, vm, rootfs, prep, closing, phase>>
  BY DEF Enter
<1>3. [pc |-> "found", vm |-> v] \in StopperStates
  BY DEF StopperStates
<1>4. /\ stopper' \in [Procs -> [Stoppers -> StopperStates]]
      /\ stopper'[p][t] = [pc |-> "found", vm |-> v]
      /\ \A u \in Stoppers \ {t} : stopper'[p][u] = stopper[p][u]
      /\ \A q \in Procs \ {p} : stopper'[q] = stopper[q]
  BY <1>1, <1>2, <1>3, StopperChange
<1>5. stopper'[p][t].pc = "found" /\ stopper'[p][t].vm = v
  BY <1>4
<1>6. /\ visited' \in [Procs -> SUBSET Vms]
      /\ visited'[p] \subseteq visited[p] \cup {v}
      /\ \A q \in Procs \ {p} : visited'[q] = visited[q]
      /\ phase[p] # "vms" => visited'[p] = visited[p]
      /\ t # "node" => visited'[p] = visited[p]
  <2>1. visited \in [Procs -> SUBSET Vms]
    BY <1>1 DEF FcTypeOK
  <2>2. CASE visited' = visited
    BY <2>1, <2>2
  <2>3. CASE /\ t = "node" /\ phase[p] = "vms"
             /\ visited' = [visited EXCEPT ![p] = @ \cup {v}]
    BY <2>1, <2>3
  <2> QED BY <2>2, <2>3
<1>7. requests' \in [Procs -> SUBSET Vms]
  BY <1>1, <1>2 DEF FcTypeOK
<1>8. FcTypeOK'
  BY <1>1, <1>2, <1>4, <1>6, <1>7 DEF FcTypeOK, StopperStates
<1>9. PhaseInv(p)'
  <2>1. phase'[p] = phase[p] /\ closing' = closing
    BY <1>2
  <2> QED BY <1>1, <1>6, <2>1 DEF PhaseInv
<1>10. ASSUME ~May("stopFails") PROVE StopInv(p)'
  <2>1. StopInv(p)
    BY <1>1, <1>10
  <2>2. ASSUME phase[p] = "vms", NEW u \in visited'[p] \cap allVMs[p]
        PROVE  stopper'[p]["node"].pc # "idle" /\ stopper'[p]["node"].vm = u
    <3>1. CASE t = "node"
      BY <1>2, <1>5, <1>6, <2>1, <2>2, <3>1 DEF StopInv
    <3>2. CASE t # "node"
      BY <1>4, <1>6, <2>1, <2>2, <3>2 DEF StopInv, Stoppers
    <3> QED BY <3>1, <3>2
  <2>3. \A u \in Vms : Left(p, u)' => Left(p, u)
    BY <1>2 DEF Left, InHand
  <2>4. \A u \in Vms : InHand(p, u) => InHand(p, u)'
    BY <1>2 DEF InHand
  <2> QED BY <1>2, <2>1, <2>2, <2>3, <2>4 DEF StopInv
<1>11. ASSUME NEW u \in Stoppers, stopper'[p][u].pc # "idle"
       PROVE  \/ stopper'[p][u].vm \in allVMs[p]
              \/ stopper[p][u].pc # "idle" /\ stopper'[p][u].vm = stopper[p][u].vm
  BY <1>2, <1>4, <1>5, <1>11
<1> QED BY <1>2, <1>4, <1>6, <1>8, <1>9, <1>10, <1>11, StopperKeeps

LEMMA ShutdownKeeps ==
    ASSUME VmInv, NEW p \in Procs, NEW t \in Stoppers, StopProcess(p, t), UNCHANGED world
    PROVE  VmInv'
<1>1. /\ FcTypeOK /\ CopiesInv /\ LoopInv(p) /\ FiledInv(p) /\ PhaseInv(p)
      /\ ~May("stopFails") => StopInv(p)
      /\ allVMs[p] \subseteq Vms /\ toVisit[p] \subseteq Vms /\ visited[p] \subseteq Vms
  BY Own
<1> DEFINE v == stopper[p][t].vm
<1>2. /\ stopper[p][t].pc = "waiting" /\ Shutdown(v, p)
      /\ allVMs' = [allVMs EXCEPT ![p] = @ \ {v}]
      /\ stopper' = [stopper EXCEPT ![p][t] = Idle]
      /\ UNCHANGED <<alive, loop, warm, requests, prep, closing, phase, toVisit, visited>>
  BY DEF StopProcess
<1>3. v \in Vms /\ Filed(p, v)
  BY <1>1, <1>2 DEF FiledInv
<1>4. Idle \in StopperStates /\ Idle.pc = "idle"
  BY DEF StopperStates, Idle
<1>5. /\ stopper' \in [Procs -> [Stoppers -> StopperStates]]
      /\ stopper'[p][t] = Idle
      /\ \A u \in Stoppers \ {t} : stopper'[p][u] = stopper[p][u]
      /\ \A q \in Procs \ {p} : stopper'[q] = stopper[q]
  BY <1>1, <1>2, <1>4, StopperChange
<1>6. /\ vm' \in [Vms -> [st : {"none", "running", "ended"}, by : Procs \cup {None}]]
      /\ \A u \in Vms \ {v} : vm'[u] = vm[u]
      /\ vm'[v].st # "none" /\ vm'[v].by = p
      /\ vm'[v].st = "ended" \/ May("stopFails")
  <2>1. CASE VmIs(v, "ended", p)
    BY <1>1, <1>3, <2>1, VmChange
  <2>2. CASE May("stopFails") /\ UNCHANGED vm
    BY <1>1, <1>3, <2>2 DEF FcTypeOK, Filed
  <2> QED BY <1>2, <2>1, <2>2 DEF Shutdown
<1>7. rootfs' = rootfs \ {v}
  BY <1>2 DEF Shutdown
<1>8. /\ allVMs' \in [Procs -> SUBSET Vms] /\ allVMs'[p] = allVMs[p] \ {v}
      /\ \A q \in Procs \ {p} : allVMs'[q] = allVMs[q]
  BY <1>1, <1>2 DEF FcTypeOK
<1>9. FcTypeOK'
  BY <1>1, <1>2, <1>5, <1>6, <1>7, <1>8 DEF FcTypeOK, StopperStates
<1>v. v = stopper[p][t].vm
  OBVIOUS
<1> HIDE DEF v
<1>10. StepOf(p)
  BY <1>2, <1>3, <1>5, <1>6, <1>8 DEF StepOf, Filed
<1>11. LoopInv(p)'
  BY <1>1, <1>2, <1>3, <1>6 DEF LoopInv, Filed, InHand
<1>12. \A u \in Vms : Filed(p, u) => Filed(p, u)'
  BY <1>2, <1>6 DEF Filed, InHand
<1>13. FiledInv(p)'
  <2>1. ASSUME NEW u \in Stoppers, stopper'[p][u].pc # "idle"
        PROVE  /\ stopper'[p][u].vm \in Vms
               /\ \A w : w = stopper'[p][u].vm => Filed(p, w)'
    BY <1>1, <1>4, <1>5, <1>12, <2>1 DEF FiledInv
  <2>2. \A u \in Stoppers : stopper'[p][u].pc # "idle" => Filed(p, stopper[p][u].vm)'
    BY <2>1 DEF Filed, InHand
  <2> QED BY <1>1, <1>2, <1>8, <1>12, <2>1, <2>2 DEF FiledInv
<1>14. PhaseInv(p)' /\ CopiesInv'
  <2>1. PhaseInv(p)'
    BY <1>1, <1>2 DEF PhaseInv
  <2>2. rootfs \subseteq Vms
    BY <1>1 DEF FcTypeOK
  <2> QED BY <1>1, <1>6, <1>7, <2>1, <2>2 DEF CopiesInv, May
<1>15. ASSUME ~May("stopFails") PROVE StopInv(p)'
  <2>1. StopInv(p) /\ vm'[v].st = "ended"
    BY <1>1, <1>6, <1>15
  <2>2. \A u \in Vms : InHand(p, u)' <=> InHand(p, u)
    BY <1>2 DEF InHand
  <2>3. \A u \in Vms : vm'[u].st = "running" /\ vm'[u].by = p =>
            u \in allVMs'[p] \/ InHand(p, u)'
    BY <1>6, <1>8, <2>1, <2>2 DEF StopInv
  <2>4. ASSUME phase[p] = "vms", NEW u \in visited[p] \cap allVMs'[p]
        PROVE  stopper'[p]["node"].pc # "idle" /\ stopper'[p]["node"].vm = u
    <3>1. u # v /\ stopper[p]["node"].pc # "idle" /\ stopper[p]["node"].vm = u
      BY <1>8, <2>1, <2>4 DEF StopInv
    <3> QED BY <1>5, <1>v, <3>1 DEF Stoppers
  <2>5. \A u \in Vms : Left(p, u)' => Left(p, u)
    BY <1>2, <1>6, <1>8, <2>1, <2>2 DEF Left
  <2> QED BY <1>2, <1>8, <2>1, <2>3, <2>4, <2>5 DEF StopInv
<1> QED BY <1>9, <1>10, <1>11, <1>13, <1>14, <1>15, OwnKeep

\* The steps of the process manager.
LEMMA ProcManKeeps ==
    ASSUME VmInv, NEW p \in Procs, NEW c \in BOOLEAN, UNCHANGED world,
           \/ LoopSteps(p, c) \/ StopSteps(p) \/ PrepareWorkload(p)
           \/ PrepareBegins(p) \/ EventStops(p) \/ StopsWorkload(p)
    PROVE  VmInv'
<1>1. /\ FcTypeOK /\ PhaseInv(p) /\ (~May("stopFails") => StopInv(p))
      /\ allVMs[p] \subseteq Vms /\ toVisit[p] \subseteq Vms /\ visited[p] \subseteq Vms
  BY Own
<1>3. CASE LoopSteps(p, c)
  BY <1>3, LoopKeeps
\* Steps that change nothing VmInv speaks of.
<1>4. ASSUME FcTypeOK', UNCHANGED <<loop, allVMs, vm, rootfs, stopVars>> PROVE VmInv'
  <2>1. StepOf(p)
    BY <1>4 DEF StepOf, stopVars
  <2> QED BY <1>4, <2>1, PoolKeeps
<1>5. CASE PrepareBegins(p)
  <2>1. FcTypeOK'
    BY <1>1, <1>5 DEF PrepareBegins, FcTypeOK, poolVars, stopVars
  <2> QED BY <1>4, <1>5, <2>1 DEF PrepareBegins, poolVars
<1>6. CASE PrepareWorkload(p)
  <2>1. warm' \in [Procs -> Seq(Vms)] /\ requests' \in [Procs -> SUBSET Vms]
    <3>1. CASE warm[p] # <<>> /\ requests' = [requests EXCEPT ![p] = @ \cup {Head(warm[p])}]
               /\ warm' = [warm EXCEPT ![p] = Tail(@)]
      <4>1. warm[p] \in Seq(Vms) /\ requests[p] \subseteq Vms
        BY <1>1 DEF FcTypeOK
      <4>2. Tail(warm[p]) \in Seq(Vms) /\ Head(warm[p]) \in Vms
        BY <3>1, <4>1
      <4> QED BY <1>1, <3>1, <4>1, <4>2 DEF FcTypeOK
    <3>2. CASE UNCHANGED <<requests, warm>>
      BY <1>1, <3>2 DEF FcTypeOK
    <3> QED BY <1>6, <3>1, <3>2 DEF PrepareWorkload
  <2>2. prep' \in [Procs -> {"idle", "blocked", "failed"}]
    <3>1. prep' = [prep EXCEPT ![p] = "idle"] \/ prep' = [prep EXCEPT ![p] = "failed"]
      BY <1>6 DEF PrepareWorkload
    <3> QED BY <1>1, <3>1 DEF FcTypeOK
  <2>3. FcTypeOK'
    BY <1>1, <1>6, <2>1, <2>2 DEF PrepareWorkload, FcTypeOK, stopVars
  <2> QED BY <1>4, <1>6, <2>3 DEF PrepareWorkload
<1>7. CASE EventStops(p) \/ StopsWorkload(p)
  <2>0. requests[p] \subseteq Vms
    BY <1>1 DEF FcTypeOK
  <2>1. CASE EventStops(p)
    <3>1. UNCHANGED <<toVisit, visited>>
      BY <2>1 DEF EventStops
    <3>2. PICK v \in Vms : Enter(p, "event", v)
      BY <2>0, <2>1 DEF EventStops
    <3> QED BY <3>1, <3>2, EnterKeeps DEF Stoppers
  <2>2. CASE StopsWorkload(p)
    <3>1. phase[p] # "vms" /\ UNCHANGED <<toVisit, visited>>
      BY <2>2 DEF StopsWorkload
    <3>2. PICK v \in Vms : Enter(p, "node", v)
      BY <2>0, <2>2 DEF StopsWorkload
    <3> QED BY <3>1, <3>2, EnterKeeps DEF Stoppers
  <2> QED BY <1>7, <2>1, <2>2
<1>8. CASE StopVisits(p)
  BY <1>1, <1>8, EnterKeeps DEF StopVisits, Stoppers
<1>9. ASSUME NEW t \in Stoppers, StopProcess(p, t) PROVE VmInv'
  BY <1>9, ShutdownKeeps
<1>10. ASSUME NEW t \in Stoppers, FetchMutex(p, t) PROVE VmInv'
  <2>1. CASE alive' = alive \ {p} /\ UNCHANGED stopper
    <3>1. FcTypeOK'
      BY <1>1, <1>10, <2>1 DEF FetchMutex, FcTypeOK, poolVars
    <3> QED BY <1>4, <1>10, <2>1, <3>1 DEF FetchMutex, poolVars, stopVars
  <2>2. CASE stopper' = [stopper EXCEPT ![p][t].pc = "waiting"] /\ UNCHANGED alive
    <3> DEFINE r == [stopper[p][t] EXCEPT !.pc = "waiting"]
    <3>1. stopper[p][t] \in StopperStates /\ stopper[p][t].pc = "found"
      BY <1>1, <1>10 DEF FetchMutex, FcTypeOK, StopperStates
    <3>2. r \in StopperStates /\ r.vm = stopper[p][t].vm /\ r.pc = "waiting"
      BY <3>1 DEF StopperStates
    <3>3. stopper' = [stopper EXCEPT ![p][t] = r]
      BY <2>2
    <3> HIDE DEF r
    <3>4. /\ stopper' \in [Procs -> [Stoppers -> StopperStates]]
          /\ stopper'[p][t] = r
          /\ \A u \in Stoppers \ {t} : stopper'[p][u] = stopper[p][u]
          /\ \A q \in Procs \ {p} : stopper'[q] = stopper[q]
      BY <1>1, <3>2, <3>3, StopperChange
    <3>5. UNCHANGED <<poolVars, prep, closing, phase, toVisit, visited>>
      BY <1>10 DEF FetchMutex
    <3>6. FcTypeOK'
      BY <1>1, <2>2, <3>4, <3>5 DEF FcTypeOK, poolVars, StopperStates
    <3>7. PhaseInv(p)'
      BY <1>1, <3>5 DEF PhaseInv, poolVars
    <3>8. \A u \in Stoppers : /\ stopper'[p][u].pc # "idle" <=> stopper[p][u].pc # "idle"
                              /\ stopper'[p][u].vm = stopper[p][u].vm
      BY <3>1, <3>2, <3>4
    <3>9. ASSUME ~May("stopFails") PROVE StopInv(p)'
      <4>1. \A u \in Vms : (Left(p, u)' <=> Left(p, u)) /\ (InHand(p, u)' <=> InHand(p, u))
        BY <3>5 DEF Left, InHand, poolVars
      <4> QED BY <1>1, <3>5, <3>8, <3>9, <4>1 DEF StopInv, Stoppers, poolVars
    <3> QED BY <3>4, <3>5, <3>6, <3>7, <3>8, <3>9, StopperKeeps DEF poolVars
  <2> QED BY <1>10, <2>1, <2>2 DEF FetchMutex
\* All that runs and is not filed is in the loop's hands.
<1>11. CASE ProcManStop(p)
  <2>1. /\ phase[p] = "workloads" /\ phase' = [phase EXCEPT ![p] = "vms"]
        /\ closing' = closing \cup {p}
        /\ toVisit' = [toVisit EXCEPT ![p] = allVMs[p]]
        /\ UNCHANGED <<alive, poolVars, prep, stopper, visited>>
    BY <1>11 DEF ProcManStop
  <2>2. /\ phase'[p] = "vms" /\ toVisit'[p] = allVMs[p]
        /\ \A q \in Procs \ {p} : phase'[q] = phase[q] /\ toVisit'[q] = toVisit[q]
    BY <1>1, <2>1 DEF FcTypeOK
  <2>3. FcTypeOK'
    BY <1>1, <2>1 DEF FcTypeOK, poolVars
  <2>4. PhaseInv(p)'
    BY <1>1, <2>1, <2>2 DEF PhaseInv, poolVars
  <2>5. ASSUME ~May("stopFails") PROVE StopInv(p)'
    <3>1. StopInv(p) /\ visited'[p] = {}
      BY <1>1, <2>1, <2>5 DEF PhaseInv
    <3>2. \A u \in Vms : InHand(p, u)' <=> InHand(p, u)
      BY <2>1 DEF InHand, poolVars
    <3>3. \A u \in Vms : Left(p, u)' => InHand(p, u)
      BY <2>1, <2>2, <3>1, <3>2 DEF Left, StopInv, poolVars
    <3>4. \A u, w \in Vms : Left(p, u)' /\ Left(p, w)' => u = w
      BY <3>3 DEF InHand
    <3> QED BY <2>1, <2>2, <3>1, <3>2, <3>4 DEF StopInv, poolVars
  <2> QED BY <2>1, <2>2, <2>3, <2>4, <2>5, StopperKeeps DEF poolVars
<1>12. CASE StopReturns(p)
  <2>1. /\ phase[p] = "vms" /\ phase' = [phase EXCEPT ![p] = "done"]
        /\ stopper[p]["node"].pc = "idle" /\ toVisit[p] \cap allVMs[p] \subseteq visited[p]
        /\ UNCHANGED <<alive, poolVars, prep, closing, stopper, toVisit, visited>>
    BY <1>12 DEF StopReturns, Idle
  <2>2. phase'[p] = "done" /\ \A q \in Procs \ {p} : phase'[q] = phase[q]
    BY <1>1, <2>1 DEF FcTypeOK
  <2>3. FcTypeOK'
    BY <1>1, <2>1 DEF FcTypeOK, poolVars
  <2>4. PhaseInv(p)'
    BY <1>1, <2>1, <2>2 DEF PhaseInv, poolVars
  <2>5. ASSUME ~May("stopFails") PROVE StopInv(p)'
    <3>1. StopInv(p)
      BY <1>1, <2>5
    <3>2. \A u \in Vms : (Left(p, u)' <=> Left(p, u)) /\ (InHand(p, u)' <=> InHand(p, u))
      BY <2>1 DEF Left, InHand, poolVars
    <3>3. toVisit[p] \cap allVMs[p] = {}
      BY <2>1, <3>1 DEF StopInv
    <3> QED BY <2>1, <2>2, <3>1, <3>2, <3>3 DEF StopInv, poolVars
  <2> QED BY <2>1, <2>2, <2>3, <2>4, <2>5, StopperKeeps DEF poolVars
<1> QED BY <1>3, <1>5, <1>6, <1>7, <1>8, <1>9, <1>10, <1>11, <1>12 DEF StopSteps

LEMMA VmInit == FcInit => VmInv
<1> SUFFICES ASSUME FcInit PROVE VmInv
  OBVIOUS
<1> USE DEF FcInit
<1>1. <<>> \in Seq(Vms)
  OBVIOUS
<1>2. /\ loop \in [Procs -> [pc : LoopPcs, vm : Vms \cup {None}]]
      /\ warm \in [Procs -> Seq(Vms)]
      /\ vm \in [Vms -> [st : {"none", "running", "ended"}, by : Procs \cup {None}]]
  BY <1>1 DEF LoopPcs
<1>3. stopper \in [Procs -> [Stoppers -> StopperStates]]
  BY DEF StopperStates, Idle
<1>4. FcTypeOK
  BY <1>2, <1>3 DEF FcTypeOK, LoopPcs, StopperStates
<1>5. CopiesInv
  BY DEF CopiesInv
<1>6. ASSUME NEW p \in Procs
      PROVE  LoopInv(p) /\ FiledInv(p) /\ PhaseInv(p) /\ StopInv(p)
  <2>1. loop[p].pc = "off"
    OBVIOUS
  <2>2. \A v \in Vms : vm[v].st = "none"
    OBVIOUS
  <2>3. \A t \in Stoppers : stopper[p][t].pc = "idle"
    BY DEF Idle
  <2>4. LoopInv(p) /\ FiledInv(p)
    BY <2>1, <2>3 DEF LoopInv, FiledInv
  <2>5. PhaseInv(p)
    BY <2>1 DEF PhaseInv
  <2>6. StopInv(p)
    BY <2>2 DEF StopInv
  <2> QED BY <2>4, <2>5, <2>6
<1> QED BY <1>4, <1>5, <1>6 DEF VmInv

\* Steps that touch no more than the process itself.
LEMMA NothingKeeps ==
    ASSUME VmInv, UNCHANGED <<world, poolVars, stopVars, prep>>, alive' \subseteq Procs
    PROVE  VmInv'
<1>1. FcTypeOK' /\ CopiesInv'
  BY DEF VmInv, FcTypeOK, CopiesInv, May, poolVars, stopVars
<1>2. ASSUME NEW p \in Procs PROVE VmInv'
  <2>1. StepOf(p)
    BY DEF StepOf, poolVars, stopVars
  <2> QED BY <1>1, <2>1, PoolKeeps DEF poolVars
<1>3. CASE Procs = {}
  BY <1>1, <1>3 DEF VmInv
<1> QED BY <1>2, <1>3

\* The node starts the loop.
LEMMA LoopStarts ==
    ASSUME VmInv, NEW p \in Procs, loop[p].pc = "off", LoopGoes(p, "top", None),
           UNCHANGED <<world, alive, warm, allVMs, requests, vm, rootfs, stopVars, prep>>,
           phase[p] = "none"
    PROVE  VmInv'
<1>1. /\ FcTypeOK /\ CopiesInv /\ FiledInv(p) /\ PhaseInv(p)
      /\ ~May("stopFails") => StopInv(p)
      /\ allVMs[p] \subseteq Vms /\ toVisit[p] \subseteq Vms /\ visited[p] \subseteq Vms
  BY Own
<1>2. /\ loop' \in [Procs -> [pc : LoopPcs, vm : Vms \cup {None}]]
      /\ loop'[p].pc = "top"
      /\ \A q \in Procs \ {p} : loop'[q] = loop[q]
  BY <1>1, LoopChange DEF LoopPcs
<1>3. FcTypeOK'
  BY <1>1, <1>2 DEF FcTypeOK, LoopPcs, stopVars
<1>4. StepOf(p)
  BY <1>2 DEF StepOf, stopVars
<1>5. LoopInv(p)' /\ CopiesInv' /\ PhaseInv(p)'
  BY <1>1, <1>2 DEF LoopInv, CopiesInv, May, PhaseInv, stopVars
<1>6. FiledInv(p)'
  <2>1. \A v : Filed(p, v) => Filed(p, v)'
    BY <1>2 DEF Filed, InHand
  <2>2. ASSUME NEW t \in Stoppers, stopper[p][t].pc # "idle"
        PROVE  Filed(p, stopper[p][t].vm)'
    BY <1>1, <1>2, <2>2 DEF FiledInv, Filed, InHand, stopVars
  <2> QED BY <1>1, <2>1, <2>2 DEF FiledInv, stopVars
<1>7. ASSUME ~May("stopFails") PROVE StopInv(p)'
  <2>1. phase'[p] = "none" /\ UNCHANGED <<vm, allVMs>>
    BY DEF stopVars
  <2>2. \A v \in Vms : ~InHand(p, v)
    BY DEF InHand
  <2> QED BY <1>1, <1>7, <2>1, <2>2 DEF StopInv
<1> QED BY <1>3, <1>4, <1>5, <1>6, <1>7, OwnKeep

\* The node's shutdown enters WorkloadManager.Stop.
LEMMA StopStarts ==
    ASSUME VmInv, NEW p \in Procs, phase[p] = "none",
           phase' = [phase EXCEPT ![p] = "workloads"],
           UNCHANGED <<world, alive, poolVars, closing, stopper, toVisit, visited, prep>>
    PROVE  VmInv'
<1>1. FcTypeOK /\ PhaseInv(p) /\ (~May("stopFails") => StopInv(p))
  BY Own
<1>2. phase'[p] = "workloads" /\ \A q \in Procs \ {p} : phase'[q] = phase[q]
  BY <1>1 DEF FcTypeOK
<1>3. FcTypeOK'
  BY <1>1 DEF FcTypeOK, poolVars
<1>4. PhaseInv(p)'
  BY <1>1, <1>2 DEF PhaseInv
<1>5. ASSUME ~May("stopFails") PROVE StopInv(p)'
  BY <1>1, <1>2, <1>5 DEF StopInv, InHand, poolVars
<1> QED BY <1>2, <1>3, <1>4, <1>5, StopperKeeps DEF poolVars

\* None of its steps starts the loop or the shutdown.
LEMMA ProcManStays ==
    ASSUME FcTypeOK, NEW p \in Procs, NEW c \in BOOLEAN,
           \/ LoopSteps(p, c) \/ StopSteps(p) \/ PrepareWorkload(p)
           \/ PrepareBegins(p) \/ EventStops(p) \/ StopsWorkload(p)
    PROVE  \A q \in Procs : /\ loop'[q].pc # "off" => loop[q].pc # "off"
                            /\ phase'[q] # "none" => phase[q] # "none"
<1> USE DEF FcTypeOK, poolVars, stopVars
<1>1. CASE LoopSteps(p, c)
  BY <1>1 DEF LoopSteps, LoopEnds, LoopCopies, CreateAndStartVM, SetMetadata, LoopPushes, LoopGoes
<1>2. CASE PrepareWorkload(p) \/ PrepareBegins(p)
  BY <1>2 DEF PrepareWorkload, PrepareBegins
<1>3. CASE EventStops(p) \/ StopsWorkload(p) \/ StopVisits(p)
  BY <1>3 DEF EventStops, StopsWorkload, StopVisits, Enter
<1>4. ASSUME NEW t \in Stoppers, FetchMutex(p, t) \/ StopProcess(p, t)
      PROVE  UNCHANGED <<loop, phase>>
  BY <1>4 DEF FetchMutex, StopProcess
<1>5. CASE ProcManStop(p) \/ StopReturns(p)
  BY <1>5 DEF ProcManStop, StopReturns
<1> QED BY <1>1, <1>2, <1>3, <1>4, <1>5 DEF StopSteps
=============================================================================
