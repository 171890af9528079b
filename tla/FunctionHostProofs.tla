------------------------- MODULE FunctionHostProofs -------------------------
(***************************************************************************)
(* AnswersOwnTrigger, OneOutcome, CrashNeedsCause, the types and           *)
(* AcknowledgedSetStays for any number of functions, triggers and worlds.  *)
(*                                                                         *)
(* An answer is a trigger's own because a Wasm module runs as long as its  *)
(* Execute waits and a script that Execute gave up compares in vain        *)
(* (OwnInv).  A trigger has one outcome because it is in one place: not    *)
(* sent, in one subscription once, or with one handler; and whatever is in *)
(* such a place has not been reported (PlaceInv).  A set that was          *)
(* acknowledged stays because handleRPC is serial and in order: when the   *)
(* latest call of a function has its answer, no request of it is left      *)
(* (AckInv).                                                               *)
(***************************************************************************)
EXTENDS FunctionHost, SequenceTheorems, TLAPS

\* Most leaves are first-order; the rest is arithmetic or records.
USE ZenonT(6), SMT

(***************************************************************************)
(* Answers.                                                                *)
(***************************************************************************)
ScriptShape ==
    /\ DOMAIN script = Funcs
    /\ \A f \in Funcs : "trig" \in DOMAIN script[f] /\ "pc" \in DOMAIN script[f]

ExecShape ==
    /\ DOMAIN exec = Funcs
    /\ \A f \in Funcs : "trig" \in DOMAIN exec[f] /\ "pc" \in DOMAIN exec[f]

\* Execute waits for a Wasm module as long as it runs.
WasmAttended ==
    \A f \in Funcs \ V8Funcs :
        script[f].pc # "none" => exec[f].trig = script[f].trig /\ exec[f].pc = "running"

RunsInv == ScriptShape /\ ExecShape /\ WasmAttended

OwnAnswers ==
    /\ DOMAIN answered = Triggers
    /\ DOMAIN replied = Triggers
    /\ \A t \in Triggers : answered[t] \in {None, t} /\ replied[t] \in {None, t}

OwnInv == RunsInv /\ OwnAnswers

\* Steps that leave every run alone.
LEMMA RunsFrame ==
    ASSUME RunsInv, UNCHANGED <<exec, script>>
    PROVE  RunsInv'
BY DEF RunsInv, ScriptShape, ExecShape, WasmAttended

\* f's run is over and nobody waits for it.
LEMMA RunEnds ==
    ASSUME RunsInv, NEW f \in Funcs,
           script' = [script EXCEPT ![f] = NoRun],
           exec' = exec \/ Idle(f),
           f \notin V8Funcs => Idle(f)
    PROVE  RunsInv'
<1>1. ScriptShape' BY DEF RunsInv, ScriptShape, NoRun
<1>2. ExecShape' BY DEF RunsInv, ExecShape, Idle
<1>3. WasmAttended'
  <2> SUFFICES ASSUME NEW g \in Funcs \ V8Funcs, script'[g].pc # "none"
               PROVE  exec'[g].trig = script'[g].trig /\ exec'[g].pc = "running"
    BY DEF WasmAttended
  <2>1. g # f BY DEF RunsInv, ScriptShape, NoRun
  <2>2. script'[g] = script[g] /\ exec'[g] = exec[g]
    BY <2>1 DEF RunsInv, ScriptShape, ExecShape, Idle
  <2> QED BY <2>2 DEF RunsInv, WasmAttended
<1> QED BY <1>1, <1>2, <1>3 DEF RunsInv

\* f's run goes on, for the same trigger.
LEMMA RunGoesOn ==
    ASSUME RunsInv, NEW f \in Funcs, exec' = exec, script[f].pc # "none",
           DOMAIN script' = Funcs,
           \A g \in Funcs \ {f} : script'[g] = script[g],
           script'[f].trig = script[f].trig,
           "trig" \in DOMAIN script'[f] /\ "pc" \in DOMAIN script'[f]
    PROVE  RunsInv'
<1>1. ScriptShape' BY DEF RunsInv, ScriptShape
<1>2. ExecShape' BY DEF RunsInv, ExecShape
<1>3. WasmAttended' BY DEF RunsInv, WasmAttended
<1> QED BY <1>1, <1>2, <1>3 DEF RunsInv

\* f's run answers the trigger that Execute was called for.
LEMMA AnswerKeeps ==
    ASSUME OwnAnswers, NEW x, answered' = [answered EXCEPT ![x] = x],
           replied' = replied
    PROVE  OwnAnswers'
BY DEF OwnAnswers

LEMMA AnswersFrame ==
    ASSUME OwnAnswers, UNCHANGED <<answered, replied>>
    PROVE  OwnAnswers'
BY DEF OwnAnswers

\* The node: no run changes, and what the sender gets is what was answered.
LEMMA NodeOwn ==
    ASSUME OwnInv, NEW f \in Funcs, NodeStep(f)
    PROVE  OwnInv'
<1>1. CASE RunTrigger(f)
  BY <1>1, RunsFrame, AnswersFrame DEF OwnInv, RunTrigger
<1>2. CASE RunTriggerReturns(f)
  BY <1>2, RunsFrame, AnswersFrame DEF OwnInv, RunTriggerReturns, agentVars
<1>3. CASE RunTriggerTimesOut(f)
  BY <1>3, RunsFrame, AnswersFrame DEF OwnInv, RunTriggerTimesOut, agentVars
<1>4. CASE Report(f)
  <2>1. UNCHANGED <<exec, script, answered>>
    BY <1>4 DEF Report, Crash, agentVars
  <2>2. \/ replied' = replied
        \/ \E b \in BOOLEAN : replied' = [replied EXCEPT ![handler[f]] =
                                   IF b THEN answered[handler[f]] ELSE @]
    BY <1>4 DEF Report, Crash, nodeVars
  <2>3. OwnAnswers' BY <2>1, <2>2 DEF OwnInv, OwnAnswers
  <2> QED BY <2>1, <2>3, RunsFrame DEF OwnInv
<1> QED BY <1>1, <1>2, <1>3, <1>4 DEF NodeStep

LEMMA AgentOwn ==
    ASSUME OwnInv, NEW f \in Funcs,
           \/ StopProcess(f) \/ ExecBegins(f) \/ RunStarts(f) \/ ExecTimesOut(f)
    PROVE  OwnInv'
<1>1. UNCHANGED <<answered, replied>>
  BY DEF StopProcess, ExecBegins, RunStarts, ExecTimesOut, nodeVars
<1>2. OwnAnswers' BY <1>1, AnswersFrame DEF OwnInv
<1>3. CASE StopProcess(f)
  <2>1. script' = [script EXCEPT ![f] = NoRun] /\ Idle(f)
    BY <1>3 DEF StopProcess, Idle
  <2>2. RunsInv' BY <2>1, RunEnds DEF OwnInv
  <2> QED BY <1>2, <2>2 DEF OwnInv
<1>4. CASE ExecBegins(f)
  <2>1. /\ script' = script /\ exec[f].pc = "idle"
        /\ exec' = [exec EXCEPT ![f] = [trig |-> Head(inbox[f]), pc |-> "entering"]]
    BY <1>4 DEF ExecBegins
  <2>2. ScriptShape' /\ ExecShape'
    BY <2>1 DEF OwnInv, RunsInv, ScriptShape, ExecShape
  <2>3. WasmAttended' BY <2>1 DEF OwnInv, RunsInv, WasmAttended, ExecShape
  <2> QED BY <1>2, <2>2, <2>3 DEF OwnInv, RunsInv
<1>5. CASE RunStarts(f)
  <2>1. /\ exec' = [exec EXCEPT ![f].pc = "running"]
        /\ script' = [script EXCEPT ![f] = [NoRun EXCEPT !.trig = exec[f].trig,
                                                        !.pc = "running"]]
    BY <1>5 DEF RunStarts
  <2>2. /\ script'[f].trig = exec[f].trig
        /\ "trig" \in DOMAIN script'[f] /\ "pc" \in DOMAIN script'[f]
        /\ DOMAIN script' = Funcs /\ \A g \in Funcs \ {f} : script'[g] = script[g]
    BY <2>1 DEF OwnInv, RunsInv, ScriptShape, NoRun
  <2>3. /\ exec'[f].trig = exec[f].trig /\ exec'[f].pc = "running"
        /\ "trig" \in DOMAIN exec'[f] /\ "pc" \in DOMAIN exec'[f]
        /\ DOMAIN exec' = Funcs /\ \A g \in Funcs \ {f} : exec'[g] = exec[g]
    BY <2>1 DEF OwnInv, RunsInv, ExecShape
  <2>4. ScriptShape' /\ ExecShape'
    BY <2>2, <2>3 DEF OwnInv, RunsInv, ScriptShape, ExecShape
  <2>5. WasmAttended' BY <2>2, <2>3 DEF OwnInv, RunsInv, WasmAttended
  <2> QED BY <1>2, <2>4, <2>5 DEF OwnInv, RunsInv
<1>6. CASE ExecTimesOut(f)
  <2>1. script' = script /\ f \in V8Funcs /\ Idle(f)
    BY <1>6 DEF ExecTimesOut
  <2>2. ScriptShape' /\ ExecShape'
    BY <2>1 DEF OwnInv, RunsInv, ScriptShape, ExecShape, Idle
  <2>3. WasmAttended' BY <2>1 DEF OwnInv, RunsInv, WasmAttended, ExecShape, Idle
  <2> QED BY <1>2, <2>2, <2>3 DEF OwnInv, RunsInv
<1> QED BY <1>3, <1>4, <1>5, <1>6

\* Runs: an answer is sent for the trigger whose run it is.
LEMMA ScriptOwn ==
    ASSUME OwnInv, NEW f \in Funcs, ScriptStep(f)
    PROVE  OwnInv'
<1>1. CASE ScriptReturns(f)
  <2>1. /\ script' = [script EXCEPT ![f] = NoRun] /\ f \in V8Funcs
        /\ exec' = exec \/ Idle(f)
    BY <1>1 DEF ScriptReturns
  <2>2. RunsInv' BY <2>1, RunEnds DEF OwnInv
  <2>3. replied' = replied BY <1>1 DEF ScriptReturns, nodeVars
  <2>4. \/ answered' = answered
        \/ answered' = [answered EXCEPT ![script[f].trig] = script[f].trig]
    BY <1>1 DEF ScriptReturns
  <2>5. OwnAnswers' BY <2>3, <2>4, AnswersFrame, AnswerKeeps DEF OwnInv
  <2> QED BY <2>2, <2>5 DEF OwnInv
<1>2. CASE ScriptThrows(f)
  <2>1. /\ script' = [script EXCEPT ![f] = NoRun] /\ f \in V8Funcs
        /\ exec' = exec \/ Idle(f)
    BY <1>2 DEF ScriptThrows
  <2>2. RunsInv' BY <2>1, RunEnds DEF OwnInv
  <2>3. OwnAnswers' BY <1>2, AnswersFrame DEF OwnInv, ScriptThrows, nodeVars
  <2> QED BY <2>2, <2>3 DEF OwnInv
<1>3. CASE WasmWrites(f)
  <2>1. PICK p : script' = [script EXCEPT ![f].out = p]
    BY <1>3 DEF WasmWrites
  <2>2. exec' = exec /\ script[f].pc # "none" BY <1>3 DEF WasmWrites, Running
  <2>3. /\ DOMAIN script' = Funcs /\ \A g \in Funcs \ {f} : script'[g] = script[g]
        /\ script'[f].trig = script[f].trig
        /\ "trig" \in DOMAIN script'[f] /\ "pc" \in DOMAIN script'[f]
    BY <2>1 DEF OwnInv, RunsInv, ScriptShape
  <2>4. RunsInv' BY <2>2, <2>3, RunGoesOn DEF OwnInv
  <2>5. OwnAnswers' BY <1>3, AnswersFrame DEF OwnInv, WasmWrites, nodeVars
  <2> QED BY <2>4, <2>5 DEF OwnInv
<1>4. CASE WasmExits(f)
  <2>1. script' = [script EXCEPT ![f] = NoRun] /\ Idle(f) BY <1>4 DEF WasmExits
  <2>2. RunsInv' BY <2>1, RunEnds DEF OwnInv
  <2>3. exec[f].trig = script[f].trig
    BY <1>4 DEF WasmExits, Running, OwnInv, RunsInv, WasmAttended
  <2>4. \/ answered' = answered
        \/ answered' = [answered EXCEPT ![script[f].trig] = script[f].trig]
    BY <1>4, <2>3 DEF WasmExits
  <2>5. replied' = replied BY <1>4 DEF WasmExits, nodeVars
  <2>6. OwnAnswers' BY <2>4, <2>5, AnswersFrame, AnswerKeeps DEF OwnInv
  <2> QED BY <2>2, <2>6 DEF OwnInv
<1>5. ASSUME NEW c, HostCall(f, c) PROVE OwnInv'
  <2>1. script' = [script EXCEPT ![f].pc = "waiting", ![f].call = c]
    BY <1>5 DEF HostCall
  <2>2. exec' = exec /\ script[f].pc # "none" BY <1>5 DEF HostCall, Makes, Running
  <2>3. /\ DOMAIN script' = Funcs /\ \A g \in Funcs \ {f} : script'[g] = script[g]
        /\ script'[f].trig = script[f].trig
        /\ "trig" \in DOMAIN script'[f] /\ "pc" \in DOMAIN script'[f]
    BY <2>1 DEF OwnInv, RunsInv, ScriptShape
  <2>4. RunsInv' BY <2>2, <2>3, RunGoesOn DEF OwnInv
  <2>5. OwnAnswers' BY <1>5, AnswersFrame DEF OwnInv, HostCall, nodeVars
  <2> QED BY <2>4, <2>5 DEF OwnInv
<1>6. ASSUME NEW c, HostCallThrows(f, c) PROVE OwnInv'
  BY <1>6, RunsFrame, AnswersFrame DEF OwnInv, HostCallThrows, nodeVars
<1> QED BY <1>1, <1>2, <1>3, <1>4, <1>5, <1>6 DEF ScriptStep

LEMMA CallOwn ==
    ASSUME OwnInv, NEW f \in Funcs, CallReturns(f) \/ CallTimesOut(f)
    PROVE  OwnInv'
<1>1. script' = [script EXCEPT ![f].pc = "running", ![f].call = None]
  BY DEF CallReturns, CallTimesOut, Resume
<1>2. exec' = exec /\ script[f].pc # "none" BY DEF CallReturns, CallTimesOut
<1>3. /\ DOMAIN script' = Funcs /\ \A g \in Funcs \ {f} : script'[g] = script[g]
      /\ script'[f].trig = script[f].trig
      /\ "trig" \in DOMAIN script'[f] /\ "pc" \in DOMAIN script'[f]
  BY <1>1 DEF OwnInv, RunsInv, ScriptShape
<1>4. RunsInv' BY <1>2, <1>3, RunGoesOn DEF OwnInv
<1>5. OwnAnswers' BY AnswersFrame DEF OwnInv, CallReturns, CallTimesOut, nodeVars
<1> QED BY <1>4, <1>5 DEF OwnInv

(***************************************************************************)
(* What the steps of handleRPC leave alone.                                *)
(***************************************************************************)
Delivers == \E g \in Funcs, t \in Triggers, who \in {"client", "nobody", "host"} :
                Deliver(g, t, who)

LEMMA ServerKeeps ==
    ASSUME ServerStep
    PROVE  /\ UNCHANGED <<agentVars, handler, reporting, deployed, draining, events, replied>>
           /\ Delivers \/ UNCHANGED <<pending, requester>>
<1>1. ASSUME NEW i \in 1..Len(rpc),
             NoSuchService(i) \/ ServeKv(i) \/ ServeObjectStore(i) \/ AskWeb(i)
      PROVE  UNCHANGED <<nodeVars, agentVars>>
  BY <1>1 DEF NoSuchService, ServeKv, ServeObjectStore, AskWeb
<1>2. ASSUME NEW i \in 1..Len(rpc), ServeMessaging(i)
      PROVE  /\ UNCHANGED <<agentVars, handler, reporting, deployed, draining, events, replied>>
             /\ Delivers \/ UNCHANGED <<pending, requester>>
  BY <1>2 DEF ServeMessaging, Delivers
<1>3. ASSUME NEW i \in 1..Len(rpc), AskFunction(i)
      PROVE  /\ UNCHANGED <<agentVars, handler, reporting, deployed, draining, events, replied>>
             /\ Delivers \/ UNCHANGED <<pending, requester>>
  BY <1>3 DEF AskFunction, Delivers
<1>4. ASSUME FunctionAnswers \/ AskTimesOut \/ WebAnswers
      PROVE  UNCHANGED <<nodeVars, agentVars>>
  BY <1>4 DEF FunctionAnswers, AskTimesOut, WebAnswers, Crash
<1>5. UNCHANGED nodeVars =>
         UNCHANGED <<handler, reporting, deployed, draining, events, replied, pending, requester>>
  BY DEF nodeVars
<1> QED BY <1>1, <1>2, <1>3, <1>4, <1>5 DEF ServerStep

LEMMA OwnInvStep == OwnInv /\ [Next]_vars => OwnInv'
<1> SUFFICES ASSUME OwnInv, [Next]_vars PROVE OwnInv'
  OBVIOUS
<1>1. CASE UNCHANGED vars
  BY <1>1, RunsFrame, AnswersFrame DEF OwnInv, vars, agentVars, nodeVars
<1>2. ASSUME NEW f \in Funcs, NEW t \in Triggers, TriggerArrives(f, t) PROVE OwnInv'
  BY <1>2, RunsFrame, AnswersFrame DEF OwnInv, TriggerArrives, agentVars
<1>3. ASSUME NEW f \in Funcs, NodeStep(f) PROVE OwnInv'
  BY <1>3, NodeOwn
<1>4. ASSUME NEW f \in Funcs, StopDrains(f) PROVE OwnInv'
  BY <1>4, RunsFrame, AnswersFrame DEF OwnInv, StopDrains, agentVars
<1>5. ASSUME NEW f \in Funcs,
             \/ StopProcess(f) \/ ExecBegins(f) \/ RunStarts(f) \/ ExecTimesOut(f)
      PROVE OwnInv'
  BY <1>5, AgentOwn
<1>6. ASSUME NEW f \in Funcs, ScriptStep(f) PROVE OwnInv'
  BY <1>6, ScriptOwn
<1>7. ASSUME NEW f \in Funcs, CallReturns(f) \/ CallTimesOut(f) PROVE OwnInv'
  BY <1>7, CallOwn
<1>8. CASE ServerStep
  BY <1>8, ServerKeeps, RunsFrame, AnswersFrame DEF OwnInv, agentVars
<1> QED BY <1>1, <1>2, <1>3, <1>4, <1>5, <1>6, <1>7, <1>8 DEF Next

\* The answer to a trigger is the result of its own run: Execute's timeout,
\* the isolate a given-up script still holds and the ten seconds of
\* RunTrigger never let the result of another run through.
THEOREM AnswersAreOwn == Spec => []AnswersOwnTrigger
<1>1. Init => OwnInv
  BY DEF Init, OwnInv, RunsInv, ScriptShape, ExecShape, WasmAttended, OwnAnswers, NoRun
<1>2. OwnInv => AnswersOwnTrigger
  BY DEF OwnInv, OwnAnswers, AnswersOwnTrigger
<1> QED BY <1>1, <1>2, OwnInvStep, PTL DEF Spec

(***************************************************************************)
(* Outcomes.                                                               *)
(***************************************************************************)
PlaceTypes ==
    /\ pending \in [Funcs -> Seq(Triggers)]
    /\ handler \in [Funcs -> Triggers \cup {None}]
    /\ DOMAIN requester = Triggers
    /\ DOMAIN events = Triggers
    /\ DOMAIN replied = Triggers

\* The node has said nothing of t yet.
Unreported(t) == events[t] = <<>> /\ replied[t] = None

InQueue(f, t) == \E i \in 1..Len(pending[f]) : pending[f][i] = t

\* Where a trigger is, it is unreported; and it is in one place only.
Placed ==
    /\ \A t \in Triggers : requester[t] = "none" =>
          /\ Unreported(t)
          /\ \A f \in Funcs : handler[f] # t /\ ~InQueue(f, t)
    /\ \A f \in Funcs, t \in Triggers :
          handler[f] = t \/ InQueue(f, t) => Unreported(t)

InOnePlace ==
    /\ \A f, g \in Funcs, t \in Triggers :
          /\ ~(handler[f] = t /\ InQueue(g, t))
          /\ f # g => ~(handler[f] = t /\ handler[g] = t)
          /\ f # g => ~(InQueue(f, t) /\ InQueue(g, t))
    /\ \A f \in Funcs : \A i, j \in 1..Len(pending[f]) :
          pending[f][i] = pending[f][j] => i = j

PlaceInv == PlaceTypes /\ Placed /\ InOnePlace /\ OneOutcome

LEMMA PlaceFrame ==
    ASSUME PlaceInv, UNCHANGED <<pending, handler, requester, events, replied>>
    PROVE  PlaceInv'
BY DEF PlaceInv, PlaceTypes, Placed, InOnePlace, OneOutcome, Unreported, InQueue

\* Append adds t to what is queued.
LEMMA QueueGrows ==
    ASSUME NEW f \in Funcs, NEW t \in Triggers, PlaceTypes, ~InQueue(f, t),
           pending' = [pending EXCEPT ![f] = Append(@, t)],
           \A i, j \in 1..Len(pending[f]) : pending[f][i] = pending[f][j] => i = j
    PROVE  /\ pending' \in [Funcs -> Seq(Triggers)]
           /\ \A g \in Funcs, u \in Triggers : InQueue(g, u)' => InQueue(g, u) \/ (g = f /\ u = t)
           /\ \A i, j \in 1..Len(pending'[f]) : pending'[f][i] = pending'[f][j] => i = j
<1>1. pending[f] \in Seq(Triggers) /\ DOMAIN pending = Funcs BY DEF PlaceTypes
<1>2. pending'[f] = Append(pending[f], t) /\ \A g \in Funcs \ {f} : pending'[g] = pending[g]
  BY <1>1
<1>3. /\ Append(pending[f], t) \in Seq(Triggers)
      /\ Len(Append(pending[f], t)) = Len(pending[f]) + 1
      /\ \A i \in 1..Len(pending[f]) : Append(pending[f], t)[i] = pending[f][i]
      /\ Append(pending[f], t)[Len(pending[f]) + 1] = t
      /\ Len(pending[f]) \in Nat
  BY <1>1, AppendProperties, LenProperties
<1>4. pending' \in [Funcs -> Seq(Triggers)] BY <1>3 DEF PlaceTypes
<1>5. \A g \in Funcs, u \in Triggers : InQueue(g, u)' => InQueue(g, u) \/ (g = f /\ u = t)
  <2> SUFFICES ASSUME NEW g \in Funcs, NEW u \in Triggers, NEW i \in 1..Len(pending'[g]),
                      pending'[g][i] = u
               PROVE  InQueue(g, u) \/ (g = f /\ u = t)
    BY DEF InQueue
  <2>1. CASE g # f BY <1>2, <2>1 DEF InQueue
  <2>2. CASE g = f
    <3>1. i \in 1..Len(pending[f]) \/ i = Len(pending[f]) + 1 BY <1>2, <1>3, <2>2
    <3> QED BY <1>2, <1>3, <2>2, <3>1 DEF InQueue
  <2> QED BY <2>1, <2>2
<1>6. ASSUME NEW i \in 1..Len(pending'[f]), NEW j \in 1..Len(pending'[f]),
             pending'[f][i] = pending'[f][j]
      PROVE  i = j
  <2>1. /\ i \in 1..Len(pending[f]) \/ i = Len(pending[f]) + 1
        /\ j \in 1..Len(pending[f]) \/ j = Len(pending[f]) + 1
    BY <1>2, <1>3
  <2>2. \A k \in 1..Len(pending[f]) : pending[f][k] # t BY DEF InQueue
  <2> QED BY <1>2, <1>3, <1>6, <2>1, <2>2
<1> QED BY <1>4, <1>5, <1>6

\* Tail takes the head, and only the head, out of the queue.
LEMMA QueueShrinks ==
    ASSUME NEW f \in Funcs, PlaceTypes, pending[f] # <<>>,
           pending' = [pending EXCEPT ![f] = Tail(@)],
           \A i, j \in 1..Len(pending[f]) : pending[f][i] = pending[f][j] => i = j
    PROVE  /\ pending' \in [Funcs -> Seq(Triggers)]
           /\ Head(pending[f]) \in Triggers /\ InQueue(f, Head(pending[f]))
           /\ \A g \in Funcs, u \in Triggers : InQueue(g, u)' =>
                 InQueue(g, u) /\ (g = f => u # Head(pending[f]))
           /\ \A i, j \in 1..Len(pending'[f]) : pending'[f][i] = pending'[f][j] => i = j
<1>1. pending[f] \in Seq(Triggers) /\ DOMAIN pending = Funcs BY DEF PlaceTypes
<1>2. pending'[f] = Tail(pending[f]) /\ \A g \in Funcs \ {f} : pending'[g] = pending[g]
  BY <1>1
<1>3. /\ Head(pending[f]) \in Triggers
      /\ Tail(pending[f]) \in Seq(Triggers)
      /\ Len(Tail(pending[f])) = Len(pending[f]) - 1
      /\ \A i \in 1..Len(Tail(pending[f])) : Tail(pending[f])[i] = pending[f][i + 1]
  BY <1>1, HeadTailProperties
<1>4. Len(pending[f]) \in Nat /\ Len(pending[f]) # 0
  BY <1>1, LenProperties, EmptySeq
<1>5. Head(pending[f]) = pending[f][1] /\ 1 \in 1..Len(pending[f])
  BY <1>1, <1>4
<1>6. pending' \in [Funcs -> Seq(Triggers)] BY <1>3 DEF PlaceTypes
<1>7. InQueue(f, Head(pending[f])) BY <1>5 DEF InQueue
<1>8. \A i \in 1..Len(pending'[f]) : /\ i + 1 \in 1..Len(pending[f]) /\ i + 1 # 1
                                     /\ pending'[f][i] = pending[f][i + 1]
  <2> SUFFICES ASSUME NEW i \in 1..Len(Tail(pending[f]))
               PROVE  /\ i + 1 \in 1..Len(pending[f]) /\ i + 1 # 1
                      /\ Tail(pending[f])[i] = pending[f][i + 1]
    BY <1>2
  <2>1. i + 1 \in 1..Len(pending[f]) /\ i + 1 # 1 BY <1>3, <1>4
  <2>2. Tail(pending[f])[i] = pending[f][i + 1] BY <1>3
  <2> QED BY <2>1, <2>2
<1>9. ASSUME NEW g \in Funcs, NEW u \in Triggers, InQueue(g, u)'
      PROVE  InQueue(g, u) /\ (g = f => u # Head(pending[f]))
  <2>1. PICK i \in 1..Len(pending'[g]) : pending'[g][i] = u BY <1>9 DEF InQueue
  <2>2. CASE g # f BY <1>2, <2>1, <2>2 DEF InQueue
  <2>3. CASE g = f
    <3>1. i + 1 \in 1..Len(pending[f]) /\ i + 1 # 1 /\ pending[f][i + 1] = u
      BY <1>8, <2>1, <2>3
    <3>2. u # pending[f][1] BY <1>5, <3>1
    <3> QED BY <1>5, <2>3, <3>1, <3>2 DEF InQueue
  <2> QED BY <2>2, <2>3
<1>10. ASSUME NEW i \in 1..Len(pending'[f]), NEW j \in 1..Len(pending'[f]),
              pending'[f][i] = pending'[f][j]
       PROVE  i = j
  <2>1. i + 1 = j + 1 BY <1>8, <1>10, ZenonT(20)
  <2> QED BY <1>2, <1>3, <2>1
<1> QED BY <1>3, <1>6, <1>7, <1>9, <1>10

\* A message is in no place before it is sent, then in one subscription.
LEMMA DeliverKeeps ==
    ASSUME PlaceInv, Delivers, UNCHANGED <<handler, events, replied>>
    PROVE  PlaceInv'
<1>1. PICK f \in Funcs, t \in Triggers, who \in {"client", "nobody", "host"} :
          Deliver(f, t, who)
  BY DEF Delivers
<1>2. /\ requester[t] = "none" /\ requester' = [requester EXCEPT ![t] = who]
      /\ pending' = [pending EXCEPT ![f] = Append(@, t)]
  BY <1>1 DEF Deliver, Fresh
<1>3. Unreported(t) /\ \A g \in Funcs : handler[g] # t /\ ~InQueue(g, t)
  BY <1>2 DEF PlaceInv, Placed
<1>4. /\ pending' \in [Funcs -> Seq(Triggers)]
      /\ \A g \in Funcs, u \in Triggers : InQueue(g, u)' => InQueue(g, u) \/ (g = f /\ u = t)
      /\ \A i, j \in 1..Len(pending'[f]) : pending'[f][i] = pending'[f][j] => i = j
  BY <1>2, <1>3, QueueGrows DEF PlaceInv, InOnePlace
<1>5. PlaceTypes' BY <1>2, <1>4 DEF PlaceInv, PlaceTypes
<1>6. \A u \in Triggers : Unreported(u)' <=> Unreported(u) BY DEF Unreported
<1>7. \A u \in Triggers : requester'[u] = "none" => requester[u] = "none" /\ u # t
  BY <1>2 DEF PlaceInv, PlaceTypes
<1>8. Placed'
  <2>1. ASSUME NEW u \in Triggers, requester'[u] = "none"
        PROVE  Unreported(u)' /\ \A g \in Funcs : handler'[g] # u /\ ~InQueue(g, u)'
    BY <1>4, <1>6, <1>7, <2>1 DEF PlaceInv, Placed
  <2>2. ASSUME NEW g \in Funcs, NEW u \in Triggers, handler'[g] = u \/ InQueue(g, u)'
        PROVE  Unreported(u)'
    BY <1>3, <1>4, <1>6, <2>2 DEF PlaceInv, Placed
  <2> QED BY <2>1, <2>2 DEF Placed
<1>9. InOnePlace'
  <2>1. ASSUME NEW g \in Funcs, NEW h \in Funcs, NEW u \in Triggers
        PROVE  /\ ~(handler'[g] = u /\ InQueue(h, u)')
               /\ g # h => ~(handler'[g] = u /\ handler'[h] = u)
               /\ g # h => ~(InQueue(g, u)' /\ InQueue(h, u)')
    BY <1>3, <1>4 DEF PlaceInv, InOnePlace
  <2>2. ASSUME NEW g \in Funcs, NEW i \in 1..Len(pending'[g]), NEW j \in 1..Len(pending'[g]),
               pending'[g][i] = pending'[g][j]
        PROVE  i = j
    <3>1. CASE g = f BY <1>4, <2>2, <3>1
    <3>2. CASE g # f
      <4>1. pending'[g] = pending[g] BY <1>2, <3>2 DEF PlaceInv, PlaceTypes
      <4> QED BY <2>2, <4>1 DEF PlaceInv, InOnePlace
    <3> QED BY <3>1, <3>2
  <2> QED BY <2>1, <2>2 DEF InOnePlace
<1>10. OneOutcome' BY DEF PlaceInv, OneOutcome
<1> QED BY <1>5, <1>8, <1>9, <1>10 DEF PlaceInv

\* The handler takes the oldest message of its subscription.
LEMMA RunTriggerKeeps ==
    ASSUME PlaceInv, NEW f \in Funcs, RunTrigger(f)
    PROVE  PlaceInv'
<1> DEFINE t == Head(pending[f])
<1>1. /\ handler[f] = None /\ pending[f] # <<>>
      /\ handler' = [handler EXCEPT ![f] = t]
      /\ pending' = [pending EXCEPT ![f] = Tail(@)]
      /\ UNCHANGED <<requester, events, replied>>
  BY DEF RunTrigger
<1>2. /\ pending' \in [Funcs -> Seq(Triggers)]
      /\ t \in Triggers /\ InQueue(f, t)
      /\ \A g \in Funcs, u \in Triggers : InQueue(g, u)' => InQueue(g, u) /\ (g = f => u # t)
      /\ \A i, j \in 1..Len(pending'[f]) : pending'[f][i] = pending'[f][j] => i = j
  BY <1>1, QueueShrinks DEF PlaceInv, InOnePlace
<1> HIDE DEF t
<1>3. handler'[f] = t /\ \A g \in Funcs \ {f} : handler'[g] = handler[g]
  BY <1>1 DEF PlaceInv, PlaceTypes
<1>4. PlaceTypes' BY <1>1, <1>2 DEF PlaceInv, PlaceTypes
<1>5. \A u \in Triggers : Unreported(u)' <=> Unreported(u) BY <1>1 DEF Unreported
<1>6. Placed'
  <2>1. ASSUME NEW u \in Triggers, requester'[u] = "none"
        PROVE  Unreported(u)' /\ \A g \in Funcs : handler'[g] # u /\ ~InQueue(g, u)'
    <3>1. Unreported(u) /\ \A g \in Funcs : handler[g] # u /\ ~InQueue(g, u)
      BY <1>1, <2>1 DEF PlaceInv, Placed
    <3> QED BY <1>2, <1>3, <1>5, <3>1
  <2>2. ASSUME NEW g \in Funcs, NEW u \in Triggers, handler'[g] = u \/ InQueue(g, u)'
        PROVE  Unreported(u)'
    BY <1>2, <1>3, <1>5, <2>2 DEF PlaceInv, Placed
  <2> QED BY <2>1, <2>2 DEF Placed
<1>7. InOnePlace'
  <2>1. ASSUME NEW g \in Funcs, NEW h \in Funcs, NEW u \in Triggers
        PROVE  /\ ~(handler'[g] = u /\ InQueue(h, u)')
               /\ g # h => ~(handler'[g] = u /\ handler'[h] = u)
               /\ g # h => ~(InQueue(g, u)' /\ InQueue(h, u)')
    <3>1. \A k \in Funcs : handler[k] # t /\ (k # f => ~InQueue(k, t))
      BY <1>2 DEF PlaceInv, InOnePlace
    <3>2. ~(handler'[g] = u /\ InQueue(h, u)')
      <4>1. CASE g = f BY <1>2, <1>3, <3>1, <4>1
      <4>2. CASE g # f BY <1>2, <1>3, <4>2 DEF PlaceInv, InOnePlace
      <4> QED BY <4>1, <4>2
    <3>3. g # h => ~(handler'[g] = u /\ handler'[h] = u)
      BY <1>3, <3>1, ZenonT(20) DEF PlaceInv, InOnePlace
    <3>4. g # h => ~(InQueue(g, u)' /\ InQueue(h, u)')
      BY <1>2 DEF PlaceInv, InOnePlace
    <3> QED BY <3>2, <3>3, <3>4
  <2>2. ASSUME NEW g \in Funcs, NEW i \in 1..Len(pending'[g]), NEW j \in 1..Len(pending'[g]),
               pending'[g][i] = pending'[g][j]
        PROVE  i = j
    <3>1. CASE g = f BY <1>2, <2>2, <3>1
    <3>2. CASE g # f
      <4>1. pending'[g] = pending[g] BY <1>1, <3>2 DEF PlaceInv, PlaceTypes
      <4> QED BY <2>2, <4>1 DEF PlaceInv, InOnePlace
    <3> QED BY <3>1, <3>2
  <2> QED BY <2>1, <2>2 DEF InOnePlace
<1>8. OneOutcome' BY <1>1 DEF PlaceInv, OneOutcome
<1> QED BY <1>4, <1>6, <1>7, <1>8 DEF PlaceInv

\* The handler reports its message and lets go of it.
LEMMA ReportKeeps ==
    ASSUME PlaceInv, NEW f \in Funcs, Report(f)
    PROVE  PlaceInv'
<1>1. CASE ~deployed[f]
  BY <1>1, PlaceFrame DEF Report, Crash, nodeVars
<1>2. CASE deployed[f]
  <2> DEFINE t == handler[f]
             ok == reporting[f] = "ok"
             answer == IF ok /\ requester[t] # "nobody" THEN answered[t] ELSE replied[t]
  <2>1. /\ handler[f] # None
        /\ events' = [events EXCEPT ![t] = Append(@, reporting[f])]
        /\ replied' = [replied EXCEPT ![t] = answer]
        /\ handler' = [handler EXCEPT ![f] = None]
        /\ UNCHANGED <<pending, requester>>
    BY <1>2 DEF Report
  <2>2. t \in Triggers BY <2>1 DEF PlaceInv, PlaceTypes
  <2>3. events[t] = <<>> /\ replied[t] = None
    BY <2>2 DEF PlaceInv, Placed, Unreported
  <2>4. answer # None => reporting[f] = "ok" BY <2>3
  <2> HIDE DEF answer, ok, t
  <2>5. /\ \A u \in Triggers \ {t} : events'[u] = events[u] /\ replied'[u] = replied[u]
        /\ events'[t] = Append(<<>>, reporting[f]) /\ replied'[t] = answer
        /\ DOMAIN events' = Triggers /\ DOMAIN replied' = Triggers
    BY <2>1, <2>2, <2>3 DEF PlaceInv, PlaceTypes
  <2>6. events'[t] = <<reporting[f]>> /\ Len(events'[t]) = 1
    BY <2>5
  <2>7. handler'[f] = None /\ \A g \in Funcs \ {f} : handler'[g] = handler[g]
    BY <2>1 DEF PlaceInv, PlaceTypes
  <2>8. handler' \in [Funcs -> Triggers \cup {None}] BY <2>1 DEF PlaceInv, PlaceTypes
  <2>9. PlaceTypes' BY <2>1, <2>5, <2>8 DEF PlaceInv, PlaceTypes
  <2>10. OneOutcome'
    <3> SUFFICES ASSUME NEW u \in Triggers
                 PROVE  /\ Len(events'[u]) <= 1
                        /\ replied'[u] # None => events'[u] = <<"ok">>
      BY DEF OneOutcome
    <3>1. CASE u = t
      <4>0. Len(events'[t]) = 1 BY <2>6
      <4>1. Len(events'[u]) <= 1 BY <3>1, <4>0
      <4>2. replied'[u] # None => reporting[f] = "ok" BY <2>4, <2>5, <3>1
      <4> QED BY <2>6, <3>1, <4>1, <4>2
    <3>2. CASE u # t BY <2>5, <3>2 DEF PlaceInv, OneOutcome
    <3> QED BY <3>1, <3>2
  <2>11. \A u \in Triggers \ {t} : Unreported(u)' <=> Unreported(u)
    BY <2>5 DEF Unreported
  <2>12. \A g \in Funcs, u \in Triggers : InQueue(g, u)' <=> InQueue(g, u)
    BY <2>1 DEF InQueue
  <2>13. handler[f] = t BY DEF t
  <2>14. None \notin Triggers BY FunctionHostAssumption
  <2>15. \A g \in Funcs, u \in Triggers : handler'[g] = u => handler[g] = u /\ u # t
    BY <2>7, <2>13, <2>14 DEF PlaceInv, InOnePlace
  <2>16. \A g \in Funcs : ~InQueue(g, t)
    BY <2>2, <2>13 DEF PlaceInv, InOnePlace
  <2>17. Placed'
    <3>1. ASSUME NEW u \in Triggers, requester'[u] = "none"
          PROVE  Unreported(u)' /\ \A g \in Funcs : handler'[g] # u /\ ~InQueue(g, u)'
      <4>1. /\ Unreported(u) /\ u # t
            /\ \A g \in Funcs : handler[g] # u /\ ~InQueue(g, u)
        BY <2>1, <2>13, <3>1 DEF PlaceInv, Placed
      <4> QED BY <2>11, <2>12, <2>15, <4>1
    <3>2. ASSUME NEW g \in Funcs, NEW u \in Triggers, handler'[g] = u \/ InQueue(g, u)'
          PROVE  Unreported(u)'
      <4>1. u # t /\ (handler[g] = u \/ InQueue(g, u)) BY <2>12, <2>15, <2>16, <3>2
      <4>2. Unreported(u) BY <4>1 DEF PlaceInv, Placed
      <4> QED BY <2>11, <4>1, <4>2
    <3> QED BY <3>1, <3>2 DEF Placed
  <2>18. InOnePlace'
    <3>1. ASSUME NEW g \in Funcs, NEW h \in Funcs, NEW u \in Triggers
          PROVE  /\ ~(handler'[g] = u /\ InQueue(h, u)')
                 /\ g # h => ~(handler'[g] = u /\ handler'[h] = u)
                 /\ g # h => ~(InQueue(g, u)' /\ InQueue(h, u)')
      BY <2>12, <2>15 DEF PlaceInv, InOnePlace
    <3>2. \A g \in Funcs : \A i, j \in 1..Len(pending'[g]) :
              pending'[g][i] = pending'[g][j] => i = j
      BY <2>1 DEF PlaceInv, InOnePlace
    <3> QED BY <3>1, <3>2 DEF InOnePlace
  <2> QED BY <2>9, <2>10, <2>17, <2>18 DEF PlaceInv
<1> QED BY <1>1, <1>2

LEMMA PlaceInvStep == PlaceInv /\ [Next]_vars => PlaceInv'
<1> SUFFICES ASSUME PlaceInv, [Next]_vars PROVE PlaceInv'
  OBVIOUS
<1>1. CASE UNCHANGED vars
  BY <1>1, PlaceFrame DEF vars, nodeVars
<1>2. ASSUME NEW f \in Funcs, NEW t \in Triggers, TriggerArrives(f, t) PROVE PlaceInv'
  BY <1>2, DeliverKeeps DEF TriggerArrives, Delivers
<1>3. ASSUME NEW f \in Funcs, NodeStep(f) PROVE PlaceInv'
  <2>1. CASE RunTrigger(f) BY <2>1, RunTriggerKeeps
  <2>2. CASE RunTriggerReturns(f) BY <2>2, PlaceFrame DEF RunTriggerReturns
  <2>3. CASE RunTriggerTimesOut(f) BY <2>3, PlaceFrame DEF RunTriggerTimesOut
  <2>4. CASE Report(f) BY <2>4, ReportKeeps
  <2> QED BY <1>3, <2>1, <2>2, <2>3, <2>4 DEF NodeStep
<1>4. ASSUME NEW f \in Funcs, StopDrains(f) \/ StopProcess(f) PROVE PlaceInv'
  BY <1>4, PlaceFrame DEF StopDrains, StopProcess
<1>5. ASSUME NEW f \in Funcs,
             \/ ExecBegins(f) \/ RunStarts(f) \/ ExecTimesOut(f) \/ ScriptStep(f)
             \/ CallReturns(f) \/ CallTimesOut(f)
      PROVE  PlaceInv'
  <2>1. UNCHANGED nodeVars
    BY <1>5 DEF ExecBegins, RunStarts, ExecTimesOut, ScriptStep, CallReturns,
       CallTimesOut, ScriptReturns, ScriptThrows, WasmWrites, WasmExits, HostCall,
       HostCallThrows
  <2> QED BY <2>1, PlaceFrame DEF nodeVars
<1>6. CASE ServerStep
  BY <1>6, ServerKeeps, PlaceFrame, DeliverKeeps
<1> QED BY <1>1, <1>2, <1>3, <1>4, <1>5, <1>6 DEF Next

\* The trigger handler reports every trigger once and answers its sender only
\* after it reported a success, however late the agent answers and whoever
\* sent the trigger.
THEOREM TriggersHaveOneOutcome == Spec => []OneOutcome
<1>1. Init => PlaceInv
  <2> SUFFICES ASSUME Init PROVE PlaceInv
    OBVIOUS
  <2>1. PlaceTypes BY DEF Init, PlaceTypes
  <2>2. \A f \in Funcs, t \in Triggers : ~InQueue(f, t) BY DEF Init, InQueue
  <2>3. \A f \in Funcs, t \in Triggers : handler[f] # t
    BY FunctionHostAssumption DEF Init
  <2>4. \A t \in Triggers : Unreported(t) BY DEF Init, Unreported
  <2>5. \A f \in Funcs : \A i, j \in 1..Len(pending[f]) :
            pending[f][i] = pending[f][j] => i = j
    BY DEF Init
  <2>6. OneOutcome BY <2>4 DEF Unreported, OneOutcome
  <2> QED BY <2>1, <2>2, <2>3, <2>4, <2>5, <2>6 DEF PlaceInv, Placed, InOnePlace
<1>2. PlaceInv => OneOutcome BY DEF PlaceInv
<1> QED BY <1>1, <1>2, PlaceInvStep, PTL DEF Spec

(***************************************************************************)
(* Crashes.                                                                *)
(***************************************************************************)

\* Neither the node's handlers nor handleRPC go on after a crash, so its
\* cause stays in place.
LEMMA CrashFrame ==
    ASSUME CrashNeedsCause, UNCHANGED <<panicked, deployed, handler, serving>>
    PROVE  CrashNeedsCause'
BY DEF CrashNeedsCause

LEMMA NoCrash ==
    ASSUME ~panicked, panicked' = panicked
    PROVE  CrashNeedsCause'
BY DEF CrashNeedsCause

LEMMA CrashStep == CrashNeedsCause /\ [Next]_vars => CrashNeedsCause'
<1> SUFFICES ASSUME CrashNeedsCause, [Next]_vars PROVE CrashNeedsCause'
  OBVIOUS
<1>1. CASE UNCHANGED vars
  BY <1>1, CrashFrame DEF vars, nodeVars, serviceVars
<1>2. ASSUME NEW f \in Funcs, NEW t \in Triggers, TriggerArrives(f, t)
      PROVE  CrashNeedsCause'
  BY <1>2, NoCrash DEF TriggerArrives, Deliver
<1>3. ASSUME NEW f \in Funcs, NodeStep(f) PROVE CrashNeedsCause'
  <2>1. CASE RunTrigger(f) BY <2>1, NoCrash DEF RunTrigger
  <2>2. CASE RunTriggerReturns(f) BY <2>2, NoCrash DEF RunTriggerReturns, Waiting
  <2>3. CASE RunTriggerTimesOut(f) BY <2>3, NoCrash DEF RunTriggerTimesOut, Waiting
  <2>4. CASE Report(f)
    <3>1. CASE deployed[f] BY <2>4, <3>1, NoCrash DEF Report
    <3>2. CASE ~deployed[f]
      <4>1. handler[f] # None /\ UNCHANGED <<handler, deployed>>
        BY <2>4, <3>2 DEF Report, Crash, nodeVars
      <4> QED BY <3>2, <4>1 DEF CrashNeedsCause
    <3> QED BY <3>1, <3>2
  <2> QED BY <1>3, <2>1, <2>2, <2>3, <2>4 DEF NodeStep
<1>4. ASSUME NEW f \in Funcs, StopDrains(f) \/ StopProcess(f) PROVE CrashNeedsCause'
  BY <1>4, NoCrash DEF StopDrains, StopProcess
<1>5. ASSUME NEW f \in Funcs,
             \/ ExecBegins(f) \/ RunStarts(f) \/ ExecTimesOut(f) \/ ScriptStep(f)
             \/ CallReturns(f) \/ CallTimesOut(f)
      PROVE  CrashNeedsCause'
  <2>1. UNCHANGED <<nodeVars, serving, panicked>>
    BY <1>5 DEF ExecBegins, RunStarts, ExecTimesOut, ScriptStep, CallReturns,
       CallTimesOut, ScriptReturns, ScriptThrows, WasmWrites, WasmExits, HostCall,
       HostCallThrows, serviceVars
  <2> QED BY <2>1, CrashFrame DEF nodeVars
<1>6. CASE ServerStep
  <2>1. ASSUME NEW i \in 1..Len(rpc),
               \/ NoSuchService(i) \/ ServeKv(i) \/ ServeObjectStore(i)
               \/ ServeMessaging(i) \/ AskFunction(i) \/ AskWeb(i)
        PROVE  ~panicked /\ panicked' = panicked
    BY <2>1 DEF NoSuchService, ServeKv, ServeObjectStore, ServeMessaging,
       AskFunction, AskWeb, Takes
  <2>2. CASE FunctionAnswers \/ AskTimesOut
    BY <2>2, NoCrash DEF FunctionAnswers, AskTimesOut
  <2>3. CASE WebAnswers
    <3>1. CASE panicked' = panicked BY <2>3, <3>1, NoCrash DEF WebAnswers
    <3>2. CASE Crash
      <4>1. serving # None /\ serving.trig = None /\ serving' = serving
        BY <2>3, <3>2 DEF WebAnswers, Crash, serviceVars
      <4> QED BY <4>1 DEF CrashNeedsCause
    <3> QED BY <2>3, <3>1, <3>2 DEF WebAnswers
  <2> QED BY <1>6, <2>1, <2>2, <2>3, NoCrash DEF ServerStep
<1> QED BY <1>1, <1>2, <1>3, <1>4, <1>5, <1>6 DEF Next

\* The node survives every order of triggers, answers, timeouts and host
\* service calls, but for a trigger whose workload was removed under it
\* (publishFunctionExecSucceeded, publishFunctionExecFailed) and for a web
\* server's answer that HTTPClient cannot read.
THEOREM CrashesHaveACause == Spec => []CrashNeedsCause
<1>1. Init => CrashNeedsCause BY DEF Init, CrashNeedsCause
<1> QED BY <1>1, CrashStep, PTL DEF Spec

-----------------------------------------------------------------------------
(***************************************************************************)
(* Types, in three groups.                                                 *)
(***************************************************************************)
NodeTypes ==
    /\ pending \in [Funcs -> Seq(Triggers)]
    /\ handler \in [Funcs -> Triggers \cup {None}]
    /\ reporting \in [Funcs -> {"ok", "failed", None}]
    /\ replied \in [Triggers -> Triggers \cup {None}]
    /\ requester \in [Triggers -> {"none", "client", "nobody", "host"}]
    /\ events \in [Triggers -> Seq({"ok", "failed"})]
    /\ execTotal \in [Funcs -> Nat]
    /\ deployed \in [Funcs -> BOOLEAN]
    /\ draining \in [Funcs -> BOOLEAN]

Runs == [trig : Triggers \cup {None}, pc : {"none", "running", "waiting"},
         out : Seq(Int), call : Call \cup {None}]

AgentTypes ==
    /\ world \in Worlds
    /\ inbox \in [Funcs -> Seq(Triggers)]
    /\ exec \in [Funcs -> [trig : Triggers \cup {None},
                           pc : {"idle", "entering", "running"}]]
    /\ script \in [Funcs -> Runs]
    /\ answered \in [Triggers -> Triggers \cup {None}]
    /\ made \in [Funcs -> Nat]
    /\ agentUp \in [Funcs -> BOOLEAN]

ServiceTypes ==
    /\ rpc \in Seq(Request)
    /\ serving \in [req : Request, trig : Triggers \cup {None}] \cup {None}
    /\ panicked \in BOOLEAN

LEMMA TypeGroups ==
    /\ TypeOK <=> NodeTypes /\ AgentTypes /\ ServiceTypes
    /\ TypeOK' <=> NodeTypes' /\ AgentTypes' /\ ServiceTypes'
BY DEF TypeOK, NodeTypes, AgentTypes, ServiceTypes, Runs

LEMMA NodeFrame == NodeTypes /\ UNCHANGED nodeVars => NodeTypes'
BY DEF NodeTypes, nodeVars

LEMMA AgentFrame == AgentTypes /\ UNCHANGED agentVars => AgentTypes'
BY DEF AgentTypes, agentVars

LEMMA ServiceFrame == ServiceTypes /\ UNCHANGED <<rpc, serving, panicked>> => ServiceTypes'
BY DEF ServiceTypes

\* What is taken from a queue, and what stays.
LEMMA HeadTail ==
    ASSUME NEW S, NEW q \in Seq(S), q # <<>>
    PROVE  Head(q) \in S /\ Tail(q) \in Seq(S)
OBVIOUS

\* A message for f.
LEMMA DeliverTypes ==
    ASSUME NodeTypes, NEW f \in Funcs, NEW t \in Triggers,
           NEW who \in {"client", "nobody", "host"}, Deliver(f, t, who),
           UNCHANGED <<handler, reporting, deployed, draining, events, replied, execTotal>>
    PROVE  NodeTypes'
<1>1. Append(pending[f], t) \in Seq(Triggers)
  BY DEF NodeTypes
<1>2. pending' \in [Funcs -> Seq(Triggers)]
  BY <1>1 DEF NodeTypes, Deliver
<1>3. requester' \in [Triggers -> {"none", "client", "nobody", "host"}]
  BY DEF NodeTypes, Deliver
<1> QED BY <1>2, <1>3 DEF NodeTypes

LEMMA NodeStepTypes ==
    ASSUME TypeOK, NEW f \in Funcs, NodeStep(f)
    PROVE  TypeOK'
<1> USE TypeGroups
<1>1. CASE RunTrigger(f)
  <2>0. pending[f] \in Seq(Triggers) /\ pending[f] # <<>> /\ inbox[f] \in Seq(Triggers)
    BY <1>1 DEF RunTrigger, NodeTypes, AgentTypes
  <2> DEFINE t == Head(pending[f])
  <2>1. t \in Triggers /\ Tail(pending[f]) \in Seq(Triggers)
    BY <2>0, HeadTail
  <2>2. Append(inbox[f], t) \in Seq(Triggers)
    BY <2>0, <2>1
  <2> HIDE DEF t
  <2>3. /\ handler' = [handler EXCEPT ![f] = t]
        /\ pending' = [pending EXCEPT ![f] = Tail(@)]
        /\ inbox' = [inbox EXCEPT ![f] = IF agentUp[f] THEN Append(@, t) ELSE @]
        /\ reporting' = [reporting EXCEPT ![f] = IF agentUp[f] THEN None ELSE "failed"]
        /\ UNCHANGED <<deployed, draining, requester, events, replied, execTotal,
                       world, agentUp, exec, script, answered, made, rpc, serving, panicked>>
    BY <1>1 DEF RunTrigger, t, serviceVars
  <2>4. NodeTypes'
    BY <2>1, <2>3 DEF NodeTypes
  <2>5. inbox' \in [Funcs -> Seq(Triggers)]
    BY <2>0, <2>2, <2>3 DEF AgentTypes
  <2>6. AgentTypes'
    BY <2>3, <2>5 DEF AgentTypes
  <2> QED BY <2>3, <2>4, <2>6, ServiceFrame
<1>2. CASE RunTriggerReturns(f) \/ RunTriggerTimesOut(f)
  <2>1. PICK x \in {"ok", "failed"} : reporting' = [reporting EXCEPT ![f] = x]
    BY <1>2 DEF RunTriggerReturns, RunTriggerTimesOut
  <2>2. UNCHANGED <<pending, handler, deployed, draining, requester, events,
                    replied, execTotal, agentVars, rpc, serving, panicked>>
    BY <1>2 DEF RunTriggerReturns, RunTriggerTimesOut, serviceVars
  <2>3. NodeTypes'
    BY <2>1, <2>2 DEF NodeTypes
  <2> QED BY <2>2, <2>3, AgentFrame, ServiceFrame
<1>3. CASE Report(f)
  <2>1. CASE Crash
    BY <2>1, NodeFrame, AgentFrame DEF Crash, serviceVars, ServiceTypes
  <2>2. CASE ~Crash
    <3> DEFINE t == handler[f]
    <3>1. t \in Triggers /\ reporting[f] \in {"ok", "failed"}
      BY <1>3 DEF Report, NodeTypes
    <3>2. PICK y \in BOOLEAN, z \in BOOLEAN :
            /\ events' = [events EXCEPT ![t] = Append(@, reporting[f])]
            /\ execTotal' = [execTotal EXCEPT ![f] = IF y THEN @ + 1 ELSE @]
            /\ replied' = [replied EXCEPT ![t] = IF z THEN answered[t] ELSE @]
            /\ handler' = [handler EXCEPT ![f] = None]
            /\ reporting' = [reporting EXCEPT ![f] = None]
            /\ UNCHANGED <<pending, deployed, draining, requester, agentVars,
                           serviceVars, panicked>>
      BY <1>3, <2>2 DEF Report
    <3> HIDE DEF t
    <3>3. Append(events[t], reporting[f]) \in Seq({"ok", "failed"})
      BY <3>1 DEF NodeTypes
    <3>4. events' \in [Triggers -> Seq({"ok", "failed"})]
      BY <3>1, <3>2, <3>3 DEF NodeTypes
    <3>5. execTotal' \in [Funcs -> Nat]
      BY <3>2 DEF NodeTypes
    <3>6. replied' \in [Triggers -> Triggers \cup {None}]
      BY <3>1, <3>2 DEF NodeTypes, AgentTypes
    <3>7. NodeTypes'
      BY <3>2, <3>4, <3>5, <3>6 DEF NodeTypes
    <3> QED BY <3>2, <3>7, AgentFrame, ServiceFrame DEF serviceVars
  <2> QED BY <2>1, <2>2
<1> QED BY <1>1, <1>2, <1>3 DEF NodeStep

LEMMA StopTypes ==
    ASSUME TypeOK, NEW f \in Funcs, StopDrains(f) \/ StopProcess(f)
    PROVE  TypeOK'
<1> USE TypeGroups
<1>1. CASE StopDrains(f)
  BY <1>1, AgentFrame, ServiceFrame DEF StopDrains, NodeTypes, serviceVars
<1>2. CASE StopProcess(f)
  <2>1. NoRun \in Runs /\ <<>> \in Seq(Triggers)
    BY DEF NoRun, Runs
  <2>2. script' \in [Funcs -> Runs] /\ inbox' \in [Funcs -> Seq(Triggers)]
    BY <1>2, <2>1 DEF StopProcess, AgentTypes
  <2>3. AgentTypes'
    BY <1>2, <2>2 DEF StopProcess, AgentTypes
  <2>4. NodeTypes'
    BY <1>2 DEF StopProcess, NodeTypes
  <2> QED BY <1>2, <2>3, <2>4, ServiceFrame DEF StopProcess
<1> QED BY <1>1, <1>2

\* What a byte array is sent as: bytes again, the same if they are below 128.
LEMMA Utf8Bytes ==
    ASSUME NEW b \in 0..255
    PROVE  Utf8(b) \in Seq(0..255) /\ (b < 128 => Utf8(b) = <<b>>)
<1>1. CASE b < 128
  <2>1. Utf8(b) = <<b>>
    BY <1>1 DEF Utf8
  <2> QED BY <2>1
<1>2. CASE ~(b < 128)
  <2>1. b \div 64 \in 2..3 /\ b % 64 \in 0..63
    BY <1>2
  <2>2. 192 + (b \div 64) \in 0..255 /\ 128 + (b % 64) \in 0..255
    BY <2>1
  <2>3. Utf8(b) = <<192 + (b \div 64), 128 + (b % 64)>>
    BY <1>2 DEF Utf8
  <2> QED BY <1>2, <2>2, <2>3
<1> QED BY <1>1, <1>2

LEMMA Pair ==
    ASSUME NEW S, NEW a \in S, NEW b \in S
    PROVE  <<a>> \o <<b>> = <<a, b>>
<1> DEFINE s == <<a>> \o <<b>>
           t == <<a, b>>
<1>1. <<a>> \in Seq(S) /\ <<b>> \in Seq(S) /\ t \in Seq(S) /\ Len(t) = 2
  OBVIOUS
<1>2. s \in Seq(S) /\ Len(s) = 2 /\ s[1] = a /\ s[2] = b
  BY <1>1, ConcatProperties
<1>3. t[1] = a /\ t[2] = b
  OBVIOUS
<1> HIDE DEF s, t
<1>4. \A i \in 1..2 : i = 1 \/ i = 2
  OBVIOUS
<1>5. \A i \in 1..Len(s) : s[i] = t[i]
  BY <1>2, <1>3, <1>4
<1>6. Len(s) = Len(t)
  BY <1>1, <1>2
<1>7. s = t
  BY <1>1, <1>2, <1>5, <1>6, SeqEqual
<1> QED BY <1>7 DEF s, t

LEMMA Marshalled ==
    ASSUME NEW v \in Seq(0..255), Len(v) <= 2
    PROVE  /\ MarshalValue(v) \in Seq(0..255)
           /\ SevenBit(v) => MarshalValue(v) = v
<1>0. Len(v) \in Nat
  BY LenProperties
<1>00. Len(v) = 0 \/ Len(v) = 1 \/ Len(v) = 2
  <2>1. \A n \in Nat : n <= 2 => n = 0 \/ n = 1 \/ n = 2
    OBVIOUS
  <2> QED BY <1>0, <2>1, Zenon
<1>1. CASE Len(v) = 0
  <2>1. MarshalValue(v) = <<>>
    BY <1>1 DEF MarshalValue
  <2>2. v = <<>>
    BY <1>1
  <2> QED BY <2>1, <2>2
<1>2. CASE Len(v) = 1
  <2>0. v[1] \in 0..255
    <3>1. 1 \in 1..Len(v)
      BY <1>2
    <3> QED BY <3>1, ElementOfSeq
  <2>1. MarshalValue(v) = Utf8(v[1])
    BY <1>2 DEF MarshalValue
  <2>2. v = <<v[1]>>
    BY <1>2
  <2>3. SevenBit(v) => v[1] < 128
    BY <1>2 DEF SevenBit
  <2> QED BY <2>0, <2>1, <2>2, <2>3, Utf8Bytes
<1>3. CASE Len(v) = 2
  <2>0. v[1] \in 0..255 /\ v[2] \in 0..255
    <3>1. 1 \in 1..Len(v) /\ 2 \in 1..Len(v)
      BY <1>3
    <3> QED BY <3>1, ElementOfSeq, ZenonT(20)
  <2>1. MarshalValue(v) = Utf8(v[1]) \o Utf8(v[2])
    BY <1>3 DEF MarshalValue
  <2>2. v = <<v[1], v[2]>>
    BY <1>3
  <2>3. SevenBit(v) => v[1] < 128 /\ v[2] < 128
    BY <1>3 DEF SevenBit
  <2>4. <<v[1]>> \o <<v[2]>> = <<v[1], v[2]>>
    BY <2>0, Pair
  <2>5. Utf8(v[1]) \in Seq(0..255) /\ Utf8(v[2]) \in Seq(0..255)
    BY <2>0, Utf8Bytes
  <2>6. Utf8(v[1]) \o Utf8(v[2]) \in Seq(0..255)
    BY <2>5
  <2>7. SevenBit(v) => Utf8(v[1]) = <<v[1]>> /\ Utf8(v[2]) = <<v[2]>>
    BY <2>0, <2>3, Utf8Bytes
  <2> QED BY <2>1, <2>2, <2>4, <2>6, <2>7
<1> QED BY <1>00, <1>1, <1>2, <1>3

NoKey == ""

\* A call of f's code.
LEMMA CallsOfCode ==
    ASSUME AgentTypes, NEW f \in Funcs, NEW c, Makes(f, c)
    PROVE  /\ c \in Call
           /\ made[f] + 1 \in 1..Len(world.code[f]) /\ c = world.code[f][made[f] + 1]
           /\ c.data \in Seq(0..255) /\ Len(c.data) <= 2
           /\ c.svc = "kv" => c.key \in Keys \cup {NoKey}
<1>1. world \in Worlds /\ world.code[f] \in Seq(Call) /\ made[f] \in Nat
  BY FunctionHostAssumption DEF AgentTypes, World
<1>2. made[f] + 1 \in 1..Len(world.code[f]) /\ c = world.code[f][made[f] + 1]
  BY <1>1 DEF Makes
<1>3. c \in Call
  BY <1>1, <1>2
<1>4. /\ world.code[f][made[f] + 1].data \in Seq(0..255)
      /\ Len(world.code[f][made[f] + 1].data) <= 2
      /\ world.code[f][made[f] + 1].svc = "kv" =>
            world.code[f][made[f] + 1].key \in Keys \cup {NoKey}
  <2>1. \A w \in Worlds, g \in Funcs : \A i \in 1..Len(w.code[g]) :
            /\ w.code[g][i].data \in Seq(0..255) /\ Len(w.code[g][i].data) <= 2
            /\ w.code[g][i].svc = "kv" => w.code[g][i].key \in Keys \cup {NoKey}
    BY CallAssumption, Zenon DEF NoKey
  <2>2. made[f] + 1 \in 1..Len(world.code[f])
    BY <1>2
  <2> QED BY <1>1, <2>2, <2>1, ZenonT(30)
<1> QED BY <1>2, <1>3, <1>4

Sent(c) == [c EXCEPT !.data = MarshalValue(c.data)]

LEMMA SentCall ==
    ASSUME NEW c \in Call, c.data \in Seq(0..255), Len(c.data) <= 2
    PROVE  /\ Sent(c) \in Call
           /\ Sent(c).svc = c.svc /\ Sent(c).method = c.method /\ Sent(c).key = c.key
           /\ Sent(c).data = MarshalValue(c.data)
<1>1. MarshalValue(c.data) \in Seq(Int)
  <2>1. MarshalValue(c.data) \in Seq(0..255)
    BY Marshalled
  <2>2. 0..255 \subseteq Int
    OBVIOUS
  <2> QED BY <2>1, <2>2, SeqMonotonic
<1> QED BY <1>1 DEF Sent, Call

\* The run of f's code is what the step makes it.
LEMMA RunTypes ==
    ASSUME TypeOK, NEW f \in Funcs, NEW r \in Runs,
           script' = [script EXCEPT ![f] = r],
           UNCHANGED <<world, inbox, agentUp, nodeVars>>,
           made' \in [Funcs -> Nat],
           exec' \in [Funcs -> [trig : Triggers \cup {None},
                                pc : {"idle", "entering", "running"}]],
           answered' \in [Triggers -> Triggers \cup {None}],
           ServiceTypes'
    PROVE  TypeOK'
<1>1. script' \in [Funcs -> Runs]
  BY TypeGroups DEF AgentTypes
<1> QED BY <1>1, TypeGroups, NodeFrame DEF AgentTypes

LEMMA ExecTypes ==
    ASSUME TypeOK, NEW f \in Funcs,
           ExecBegins(f) \/ RunStarts(f) \/ ExecTimesOut(f)
    PROVE  TypeOK'
<1> USE TypeGroups
<1>0. ServiceTypes' /\ UNCHANGED nodeVars
  BY ServiceFrame DEF ExecBegins, RunStarts, ExecTimesOut, serviceVars
<1>1. CASE ExecBegins(f)
  <2>1. Head(inbox[f]) \in Triggers /\ Tail(inbox[f]) \in Seq(Triggers)
    BY <1>1, HeadTail DEF ExecBegins, AgentTypes
  <2>2. AgentTypes'
    BY <1>1, <2>1 DEF ExecBegins, AgentTypes
  <2> QED BY <1>0, <2>2, NodeFrame
<1>2. CASE RunStarts(f)
  <2>0. exec[f].trig \in Triggers \cup {None} /\ <<>> \in Seq(Int)
    BY DEF AgentTypes
  <2>1. [NoRun EXCEPT !.trig = exec[f].trig, !.pc = "running"] \in Runs
    BY <2>0 DEF NoRun, Runs
  <2>2. exec' \in [Funcs -> [trig : Triggers \cup {None},
                             pc : {"idle", "entering", "running"}]]
    BY <1>2 DEF RunStarts, AgentTypes
  <2> QED BY <1>0, <1>2, <2>1, <2>2, RunTypes DEF RunStarts, AgentTypes
<1>3. CASE ExecTimesOut(f)
  BY <1>0, <1>3, NodeFrame DEF ExecTimesOut, Idle, AgentTypes
<1> QED BY <1>1, <1>2, <1>3

LEMMA ScriptTypes ==
    ASSUME TypeOK, NEW f \in Funcs,
           ScriptReturns(f) \/ ScriptThrows(f) \/ WasmWrites(f) \/ WasmExits(f)
    PROVE  TypeOK'
<1> USE TypeGroups
<1>0. /\ ServiceTypes' /\ UNCHANGED nodeVars
      /\ UNCHANGED <<world, inbox, agentUp, made>>
  BY ServiceFrame DEF ScriptReturns, ScriptThrows, WasmWrites, WasmExits, serviceVars
<1>1. NoRun \in Runs
  BY DEF NoRun, Runs
<1>2. script[f] \in Runs /\ script[f].trig \in Triggers \cup {None}
  BY DEF AgentTypes, Runs
<1>3. CASE WasmWrites(f)
  <2>1. PICK x \in {<<>>, <<1>>} : script' = [script EXCEPT ![f].out = x]
    BY <1>3 DEF WasmWrites
  <2>2. x \in Seq(Int)
    <3>1. <<>> \in Seq(Int) /\ <<1>> \in Seq(Int)
      OBVIOUS
    <3> QED BY <3>1, <2>1, Zenon
  <2>3. [script[f] EXCEPT !.out = x] \in Runs
    BY <1>2, <2>2 DEF Runs
  <2>4. script' = [script EXCEPT ![f] = [script[f] EXCEPT !.out = x]]
    BY <2>1
  <2>5. UNCHANGED <<exec, answered>>
    BY <1>3 DEF WasmWrites
  <2> QED BY <1>0, <2>3, <2>4, <2>5, RunTypes DEF AgentTypes
<1>4. CASE ~WasmWrites(f)
  <2>1. script' = [script EXCEPT ![f] = NoRun]
    BY <1>4 DEF ScriptReturns, ScriptThrows, WasmExits
  <2>2. UNCHANGED exec \/ exec' = [exec EXCEPT ![f] = [trig |-> None, pc |-> "idle"]]
    BY <1>4 DEF ScriptReturns, ScriptThrows, WasmExits, Idle
  <2>3. exec' \in [Funcs -> [trig : Triggers \cup {None},
                             pc : {"idle", "entering", "running"}]]
    <3>1. [trig |-> None, pc |-> "idle"] \in [trig : Triggers \cup {None},
                                            pc : {"idle", "entering", "running"}]
      OBVIOUS
    <3> QED BY <2>2, <3>1 DEF AgentTypes
  <2>4. \/ UNCHANGED answered
        \/ answered' = [answered EXCEPT ![exec[f].trig] = script[f].trig]
    BY <1>4 DEF ScriptReturns, ScriptThrows, WasmExits
  <2>5. answered' \in [Triggers -> Triggers \cup {None}]
    <3>1. \A g, S, D : \A x, y : g \in [D -> S] /\ y \in S => [g EXCEPT ![x] = y] \in [D -> S]
      OBVIOUS
    <3> QED BY <1>2, <2>4, <3>1 DEF AgentTypes
  <2> QED BY <1>0, <1>1, <2>1, <2>3, <2>5, RunTypes DEF AgentTypes
<1> QED BY <1>3, <1>4

LEMMA CallTypes ==
    ASSUME TypeOK, NEW f \in Funcs,
           \/ CallReturns(f) \/ CallTimesOut(f)
           \/ \E i \in 1..Len(world.code[f]) :
                 HostCall(f, world.code[f][i]) \/ HostCallThrows(f, world.code[f][i])
    PROVE  TypeOK'
<1> USE TypeGroups
<1>0. script[f] \in Runs
  BY DEF AgentTypes
<1>1. CASE CallReturns(f) \/ CallTimesOut(f)
  <2>1. /\ ServiceTypes' /\ UNCHANGED nodeVars
        /\ UNCHANGED <<world, inbox, agentUp, made, exec, answered>> /\ Resume(f)
    BY <1>1, ServiceFrame DEF CallReturns, CallTimesOut
  <2>2. [script[f] EXCEPT !.pc = "running", !.call = None] \in Runs
    BY <1>0 DEF Runs
  <2>3. script' = [script EXCEPT ![f] = [script[f] EXCEPT !.pc = "running", !.call = None]]
    BY <2>1 DEF Resume
  <2> QED BY <2>1, <2>2, <2>3, RunTypes DEF AgentTypes
<1>2. ASSUME NEW c, HostCall(f, c) \/ HostCallThrows(f, c)
      PROVE  TypeOK'
  <2>0. Makes(f, c) /\ UNCHANGED nodeVars /\ UNCHANGED <<world, inbox, agentUp, exec, answered>>
    BY <1>2 DEF HostCall, HostCallThrows
  <2>1. c \in Call /\ Sent(c) \in Call
    BY <2>0, CallsOfCode, SentCall
  <2>2. made' \in [Funcs -> Nat] /\ made[f] + 1 \in Nat
    BY <2>0 DEF Makes, AgentTypes
  <2>3. CASE HostCall(f, c)
    <3>1. [func |-> f, id |-> made[f] + 1, call |-> Sent(c)] \in Request
      BY <2>1, <2>2 DEF Request
    <3>2. rpc' = Append(rpc, [func |-> f, id |-> made[f] + 1, call |-> Sent(c)])
      BY <2>3 DEF HostCall, Sent
    <3>3. rpc' \in Seq(Request)
      BY <3>1, <3>2 DEF ServiceTypes
    <3>4. ServiceTypes'
      BY <2>3, <3>3 DEF HostCall, ServiceTypes
    <3>5. [script[f] EXCEPT !.pc = "waiting", !.call = c] \in Runs
      BY <1>0, <2>1 DEF Runs
    <3>6. script' = [script EXCEPT ![f] = [script[f] EXCEPT !.pc = "waiting", !.call = c]]
      BY <2>3 DEF HostCall
    <3> QED BY <2>0, <2>2, <3>4, <3>5, <3>6, RunTypes DEF AgentTypes
  <2>4. CASE HostCallThrows(f, c)
    <3>1. ServiceTypes' /\ script' = script
      BY <2>4, ServiceFrame DEF HostCallThrows, serviceVars
    <3> QED BY <2>0, <2>2, <3>1, NodeFrame DEF AgentTypes
  <2> QED BY <1>2, <2>3, <2>4
<1> QED BY <1>1, <1>2

\* handleRPC takes a request from its subscription.
LEMMA TakenTypes ==
    ASSUME ServiceTypes, NEW i, Takes(i), Without(i)
    PROVE  /\ i = 1 /\ Len(rpc) \in Nat \ {0} /\ rpc[1] \in Request
           /\ rpc' \in Seq(Request) /\ Len(rpc') = Len(rpc) - 1
           /\ \A j \in 1..Len(rpc') : j + 1 \in 2..Len(rpc) /\ rpc'[j] = rpc[j + 1]
<1>1. i = 1 /\ rpc \in Seq(Request) /\ rpc # <<>>
  BY DEF Takes, ServiceTypes
<1>2. Len(rpc) \in Nat /\ Len(rpc) # 0
  BY <1>1, EmptySeq
<1>3. rpc' = [j \in 1..(Len(rpc) - 1) |-> rpc[j + 1]]
  BY <1>1, <1>2 DEF Without
<1>4. \A j \in 1..(Len(rpc) - 1) : j + 1 \in 2..Len(rpc) /\ j + 1 \in 1..Len(rpc)
  BY <1>2
<1>5. \A j \in 1..(Len(rpc) - 1) : rpc[j + 1] \in Request
  BY <1>1, <1>4, ElementOfSeq
<1>6. Len(rpc) - 1 \in Nat
  BY <1>2
<1>7. rpc' \in Seq(Request) /\ Len(rpc') = Len(rpc) - 1
  <2> DEFINE n == Len(rpc) - 1
  <2>1. n \in Nat /\ rpc' = [j \in 1..n |-> rpc[j + 1]] /\ \A j \in 1..n : rpc[j + 1] \in Request
    BY <1>3, <1>5, <1>6
  <2> HIDE DEF n
  <2>2. rpc' \in [1..n -> Request]
    BY <2>1
  <2>3. rpc' \in Seq(Request) /\ Len(rpc') = n
    BY <2>1, <2>2
  <2> QED BY <2>3 DEF n
<1>8. 1 \in 1..Len(rpc)
  BY <1>2
<1> QED BY <1>1, <1>2, <1>3, <1>4, <1>7, <1>8, ElementOfSeq

LEMMA ServerTypes ==
    ASSUME TypeOK, ServerStep
    PROVE  TypeOK'
<1> USE TypeGroups
<1>1. ASSUME NEW i, Takes(i), Without(i), UNCHANGED panicked,
             \/ NoSuchService(i) \/ ServeKv(i) \/ ServeObjectStore(i)
             \/ ServeMessaging(i) \/ AskFunction(i) \/ AskWeb(i)
      PROVE  TypeOK'
  <2>0. UNCHANGED agentVars
    BY <1>1 DEF NoSuchService, ServeKv, ServeObjectStore, ServeMessaging, AskFunction, AskWeb
  <2>1. rpc' \in Seq(Request) /\ rpc[i] \in Request
    BY <1>1, TakenTypes
  <2>2. \/ UNCHANGED serving
        \/ \E t \in Triggers \cup {None} : serving' = [req |-> rpc[i], trig |-> t]
    BY <1>1 DEF NoSuchService, ServeKv, ServeObjectStore, ServeMessaging, AskFunction, AskWeb
  <2>3. serving' \in [req : Request, trig : Triggers \cup {None}] \cup {None}
    BY <2>1, <2>2 DEF ServiceTypes
  <2>4. ServiceTypes'
    BY <1>1, <2>1, <2>3 DEF ServiceTypes
  <2>5. \/ UNCHANGED nodeVars
        \/ /\ \E g \in Funcs, t \in Triggers, who \in {"client", "nobody", "host"} : Deliver(g, t, who)
           /\ UNCHANGED <<handler, reporting, deployed, draining, events, replied, execTotal>>
    <3>1. CASE ServeMessaging(i)
      BY <3>1 DEF ServeMessaging, nodeVars
    <3>2. CASE AskFunction(i)
      BY <3>2 DEF AskFunction
    <3>3. CASE NoSuchService(i) \/ ServeKv(i) \/ ServeObjectStore(i) \/ AskWeb(i)
      BY <3>3 DEF NoSuchService, ServeKv, ServeObjectStore, AskWeb
    <3> QED BY <1>1, <3>1, <3>2, <3>3
  <2>6. NodeTypes'
    BY <2>5, NodeFrame, DeliverTypes
  <2> QED BY <2>0, <2>4, <2>6, AgentFrame
<1>2. ASSUME NEW i, \/ NoSuchService(i) \/ ServeKv(i) \/ ServeObjectStore(i)
                    \/ ServeMessaging(i) \/ AskFunction(i) \/ AskWeb(i)
      PROVE  Takes(i) /\ Without(i) /\ UNCHANGED panicked
  BY <1>2 DEF NoSuchService, ServeKv, ServeObjectStore, ServeMessaging, AskFunction, AskWeb
<1>3. CASE FunctionAnswers \/ AskTimesOut \/ WebAnswers
  <2>1. UNCHANGED <<nodeVars, agentVars, rpc>> /\ serving' \in {None, serving} /\ panicked' \in {TRUE, panicked}
    BY <1>3 DEF FunctionAnswers, AskTimesOut, WebAnswers, Crash, serviceVars
  <2>2. ServiceTypes'
    BY <2>1 DEF ServiceTypes
  <2> QED BY <2>1, <2>2, NodeFrame, AgentFrame
<1> QED BY <1>1, <1>2, <1>3 DEF ServerStep

\* Every step keeps the types.
LEMMA TypesStep == TypeOK /\ [Next]_vars => TypeOK'
<1> SUFFICES ASSUME TypeOK, [Next]_vars PROVE TypeOK'
  OBVIOUS
<1> USE TypeGroups
<1>1. CASE UNCHANGED vars
  BY <1>1, NodeFrame, AgentFrame, ServiceFrame DEF vars, serviceVars
<1>2. ASSUME NEW f \in Funcs, NEW t \in Triggers, TriggerArrives(f, t)
      PROVE  TypeOK'
  BY <1>2, DeliverTypes, AgentFrame, ServiceFrame DEF TriggerArrives, serviceVars
<1>3. ASSUME NEW f \in Funcs, ScriptStep(f)
      PROVE  TypeOK'
  BY <1>3, ScriptTypes, CallTypes DEF ScriptStep
<1>4. CASE ServerStep
  BY <1>4, ServerTypes
<1> QED BY <1>1, <1>2, <1>3, <1>4, NodeStepTypes, StopTypes, ExecTypes, CallTypes DEF Next

LEMMA TypesInit == Init => TypeOK
<1> SUFFICES ASSUME Init PROVE TypeOK
  OBVIOUS
<1>1. NoRun \in Runs /\ <<>> \in Seq(Triggers) /\ <<>> \in Seq({"ok", "failed"}) /\ <<>> \in Seq(Request)
  BY DEF NoRun, Runs
<1>2. NodeTypes
  BY <1>1 DEF Init, NodeTypes
<1>3. AgentTypes
  BY <1>1 DEF Init, AgentTypes
<1>4. ServiceTypes
  BY <1>1 DEF Init, ServiceTypes
<1> QED BY <1>2, <1>3, <1>4, TypeGroups

\* The variables keep their types: queues hold triggers and requests, a run
\* has the trigger and the call it is for, a request of a function is one its
\* code can make after marshalValue.
THEOREM FunctionHostTypeCorrect == Spec => []TypeOK
BY TypesInit, TypesStep, PTL DEF Spec

-----------------------------------------------------------------------------
(***************************************************************************)
(* A set that was acknowledged stays.  handleRPC serves the requests one   *)
(* by one and in order, so when the answer to the latest call of a         *)
(* function is on its way, no earlier request of that function is left: an *)
(* older set that timed out has been applied, or dropped, before.          *)
(***************************************************************************)
GoodCalls == {c \in Call : /\ c.data \in Seq(0..255) /\ Len(c.data) <= 2
                           /\ c.svc = "kv" => c.key \in Keys \cup {NoKey}}

Bucket == [Keys -> {None} \cup Seq(Int)]

StoreInv ==
    /\ kv \in [Buckets -> {None} \cup Bucket]
    /\ DOMAIN reply = Funcs
    /\ DOMAIN acked = Funcs

CallInv == \A f \in Funcs : script[f].pc = "waiting" => script[f].call \in GoodCalls

\* A request is one the code made, and not later than the latest call.
CurrentIn(r, m, s) ==
    /\ r.id <= m[r.func]
    /\ r.id = m[r.func] /\ s[r.func].pc = "waiting" => r.call = Sent(s[r.func].call)
    /\ \E c \in GoodCalls : r.call = Sent(c)

\* Requests of a function are in the order of its calls, and the one that
\* handleRPC waits for was before those in its subscription.
QueueInv ==
    /\ \A i \in 1..Len(rpc) : CurrentIn(rpc[i], made, script)
    /\ \A i, j \in 1..Len(rpc) : i < j /\ rpc[i].func = rpc[j].func => rpc[i].id < rpc[j].id
    /\ serving # None =>
          /\ CurrentIn(serving.req, made, script)
          /\ serving.req.call.svc # "kv"
          /\ \A i \in 1..Len(rpc) : rpc[i].func = serving.req.func => serving.req.id < rpc[i].id

\* No request of f is left at the node.
Gone(f) ==
    /\ \A i \in 1..Len(rpc) : rpc[i].func # f
    /\ serving # None => serving.req.func # f

HoldsIn(k, f, key, data) == k[KvBucket(f)] # None /\ k[KvBucket(f)][key] = data

Succeeds(r) == r.code = 200

\* What the success r of the call c of f says about f's bucket.
Fits(k, f, c, r) ==
    Succeeds(r) /\ c.svc = "kv" =>
        /\ c.method = "set" => HoldsIn(k, f, c.key, MarshalValue(c.data))
        /\ c.method = "get" => HoldsIn(k, f, c.key, r.data)

ReplyInv ==
    \A f \in Funcs : reply[f] # None =>
        /\ script[f].pc = "waiting"
        /\ Gone(f)
        /\ Alone(f) => Fits(kv, f, script[f].call, reply[f])

AckedInv ==
    \A f \in Funcs : acked[f] # None =>
        /\ acked[f].data \in Seq(0..255) /\ Len(acked[f].data) <= 2
        /\ \A i \in 1..Len(rpc) : rpc[i].func = f => ~Writes(rpc[i].call)
        /\ Alone(f) => HoldsIn(kv, f, acked[f].key, MarshalValue(acked[f].data))

AckInv == StoreInv /\ CallInv /\ QueueInv /\ ReplyInv /\ AckedInv

LEMMA AckFrame == AckInv /\ UNCHANGED <<script, made, rpc, serving, reply, kv, acked>> => AckInv'
<1> SUFFICES ASSUME AckInv, UNCHANGED <<script, made, rpc, serving, reply, kv, acked>>
             PROVE  AckInv'
  OBVIOUS
<1>1. StoreInv' /\ CallInv'
  BY DEF AckInv, StoreInv, CallInv
<1>2. QueueInv'
  BY DEF AckInv, QueueInv
<1>3. ReplyInv' /\ AckedInv'
  BY ZenonT(20) DEF AckInv, ReplyInv, AckedInv, Gone
<1> QED BY <1>1, <1>2, <1>3 DEF AckInv

\* What is in hand of the node is well-typed.
LEMMA RequestTypes ==
    ASSUME TypeOK
    PROVE  /\ \A i \in 1..Len(rpc) : rpc[i].func \in Funcs /\ rpc[i].id \in Nat /\ rpc[i].call \in Call
           /\ serving # None => /\ serving.req.func \in Funcs /\ serving.req.id \in Nat
                                /\ serving.req.call \in Call
           /\ \A f \in Funcs : made[f] \in Nat
<1>1. \A i \in 1..Len(rpc) : rpc[i] \in Request
  BY TypeGroups, ElementOfSeq DEF ServiceTypes
<1>2. serving # None => serving.req \in Request
  BY TypeGroups DEF ServiceTypes
<1> QED BY <1>1, <1>2, TypeGroups DEF Request, AgentTypes

\* A run of f that waits no longer, or does not wait.
LEMMA AgentAck ==
    ASSUME TypeOK, AckInv, NEW f \in Funcs, NEW r, r.pc # "waiting",
           script' = [script EXCEPT ![f] = r],
           made' = made \/ made' = [made EXCEPT ![f] = @ + 1],
           DOMAIN reply' = Funcs, reply'[f] = None,
           \A g \in Funcs \ {f} : reply'[g] = reply[g],
           UNCHANGED <<rpc, serving, kv>>
    PROVE  CallInv' /\ QueueInv' /\ ReplyInv' /\ (UNCHANGED acked => AckInv')
<1> USE RequestTypes
<1>0. /\ script'[f].pc # "waiting"
      /\ \A g \in Funcs \ {f} : script'[g] = script[g] /\ made'[g] = made[g]
      /\ made'[f] \in Nat /\ made[f] <= made'[f] /\ made[f] \in Nat
  BY TypeGroups DEF AgentTypes
<1>1. CallInv'
  BY <1>0 DEF CallInv, AckInv
<1>2. ASSUME NEW q, q.func \in Funcs, q.id \in Nat, CurrentIn(q, made, script)
      PROVE  CurrentIn(q, made', script')
  <2>1. CASE q.func = f
    BY <1>0, <1>2, <2>1 DEF CurrentIn
  <2>2. CASE q.func # f
    BY <1>0, <1>2, <2>2 DEF CurrentIn
  <2> QED BY <2>1, <2>2
<1>3. QueueInv'
  BY <1>2 DEF QueueInv, AckInv
<1>4. ReplyInv'
  BY <1>0 DEF ReplyInv, AckInv, Gone
<1>5. UNCHANGED acked => AckedInv' /\ StoreInv'
  BY DEF AckedInv, AckInv, StoreInv
<1> QED BY <1>1, <1>3, <1>4, <1>5 DEF AckInv

\* The call of f is the newest request.
LEMMA HostCallAck ==
    ASSUME TypeOK, AckInv, NEW f \in Funcs, NEW c, HostCall(f, c)
    PROVE  AckInv'
<1> USE RequestTypes
<1> DEFINE new == [func |-> f, id |-> made[f] + 1, call |-> Sent(c)]
<1>1. /\ rpc' = Append(rpc, new) /\ Makes(f, c) /\ script[f].pc = "running"
      /\ script' = [script EXCEPT ![f].pc = "waiting", ![f].call = c]
      /\ acked' = [acked EXCEPT ![f] = IF Writes(c) THEN None ELSE @]
      /\ UNCHANGED <<serving, reply, kv>>
      /\ made' = [made EXCEPT ![f] = @ + 1]
  BY DEF HostCall, Sent, Makes, Running
<1>2. c \in GoodCalls
  BY <1>1, CallsOfCode, TypeGroups DEF GoodCalls
<1>3. /\ Len(rpc') = Len(rpc) + 1 /\ Len(rpc) \in Nat
      /\ \A i \in 1..Len(rpc) : rpc'[i] = rpc[i]
      /\ rpc'[Len(rpc) + 1] = new
  <2>1. rpc \in Seq(Request)
    BY TypeGroups DEF ServiceTypes
  <2> HIDE DEF new
  <2> QED BY <1>1, <2>1, LenProperties, AppendProperties
<1>4. /\ new.func = f /\ new.id = made[f] + 1 /\ new.call = Sent(c)
      /\ made'[f] = made[f] + 1 /\ script'[f].pc = "waiting" /\ script'[f].call = c
      /\ \A g \in Funcs \ {f} : script'[g] = script[g] /\ made'[g] = made[g]
  <2>1. script[f] \in Runs
    BY TypeGroups DEF AgentTypes
  <2> QED BY <1>1, <2>1, TypeGroups DEF AgentTypes, Runs
<1>5. reply[f] = None
  BY <1>1 DEF ReplyInv, AckInv
<1> HIDE DEF new
<1>6. \A i \in 1..Len(rpc') : \/ i \in 1..Len(rpc) /\ rpc'[i] = rpc[i]
                              \/ i = Len(rpc) + 1 /\ rpc'[i] = new
  <2>1. \A i \in 1..(Len(rpc) + 1) : i \in 1..Len(rpc) \/ i = Len(rpc) + 1
    BY <1>3
  <2>2. 1..Len(rpc') = 1..(Len(rpc) + 1)
    BY <1>3
  <2> QED BY <1>3, <2>1, <2>2, Zenon
<1>7. ASSUME NEW q, q.func \in Funcs, q.id \in Nat, CurrentIn(q, made, script)
      PROVE  CurrentIn(q, made', script') /\ (q.func = f => q.id < new.id)
  <2>1. CASE q.func = f
    BY <1>4, <1>7, <2>1 DEF CurrentIn
  <2>2. CASE q.func # f
    BY <1>4, <1>7, <2>2 DEF CurrentIn
  <2> QED BY <2>1, <2>2
<1>8. CurrentIn(new, made', script')
  BY <1>2, <1>4 DEF CurrentIn
<1>9. QueueInv'
  <2>1. \A i \in 1..Len(rpc') : CurrentIn(rpc'[i], made', script')
    BY <1>6, <1>7, <1>8 DEF QueueInv, AckInv
  <2>2. ASSUME NEW i \in 1..Len(rpc'), NEW j \in 1..Len(rpc'), i < j, rpc'[i].func = rpc'[j].func
        PROVE  rpc'[i].id < rpc'[j].id
    <3>1. i \in 1..Len(rpc) /\ rpc'[i] = rpc[i]
      BY <1>3, <2>2
    <3>2. CASE j \in 1..Len(rpc) /\ rpc'[j] = rpc[j]
      BY <2>2, <3>1, <3>2 DEF QueueInv, AckInv
    <3>3. CASE rpc'[j] = new
      BY <1>4, <1>7, <2>2, <3>1, <3>3 DEF QueueInv, AckInv
    <3> QED BY <1>6, <3>2, <3>3
  <2>3. serving # None => CurrentIn(serving.req, made', script') /\ serving.req.call.svc # "kv"
    BY <1>7 DEF QueueInv, AckInv
  <2>4. serving # None => \A i \in 1..Len(rpc') : rpc'[i].func = serving.req.func => serving.req.id < rpc'[i].id
    BY <1>4, <1>6, <1>7 DEF QueueInv, AckInv
  <2> QED BY <1>1, <2>1, <2>2, <2>3, <2>4 DEF QueueInv
<1>10. CallInv'
  BY <1>2, <1>4 DEF CallInv, AckInv
<1>11. ReplyInv'
  <2> SUFFICES ASSUME NEW g \in Funcs, reply[g] # None
               PROVE  /\ script'[g].pc = "waiting" /\ Gone(g)'
                      /\ Alone(g) => Fits(kv, g, script'[g].call, reply[g])
    BY <1>1 DEF ReplyInv
  <2>1. g # f /\ script'[g] = script[g]
    BY <1>4, <1>5
  <2>2. Gone(g)'
    BY <1>1, <1>4, <1>6, <2>1 DEF Gone, ReplyInv, AckInv
  <2> QED BY <2>1, <2>2 DEF ReplyInv, AckInv
<1>12. StoreInv'
  BY <1>1 DEF StoreInv, AckInv
<1>13. AckedInv'
  <2> SUFFICES ASSUME NEW g \in Funcs, acked'[g] # None
               PROVE  /\ acked'[g] = acked[g]
                      /\ \A i \in 1..Len(rpc') : rpc'[i].func = g => ~Writes(rpc'[i].call)
    BY <1>1 DEF AckedInv, AckInv
  <2>1. acked'[g] = acked[g] /\ (g = f => ~Writes(c))
    BY <1>1 DEF StoreInv, AckInv
  <2>2. ~Writes(c) => ~Writes(Sent(c))
    BY <1>2, SentCall DEF Writes, GoodCalls
  <2> QED BY <1>4, <1>6, <2>1, <2>2 DEF AckedInv, AckInv
<1> QED BY <1>9, <1>10, <1>11, <1>12, <1>13 DEF AckInv

\* Steps of the agent of f that make no call.
LEMMA AgentStepAck ==
    ASSUME TypeOK, AckInv, NEW f \in Funcs,
           \/ RunStarts(f) \/ ScriptReturns(f) \/ ScriptThrows(f)
           \/ WasmWrites(f) \/ WasmExits(f) \/ CallTimesOut(f) \/ StopProcess(f)
           \/ \E c : HostCallThrows(f, c)
    PROVE  AckInv'
<1>0. script[f] \in Runs /\ script \in [Funcs -> Runs]
  BY TypeGroups DEF AgentTypes
<1>1. CASE CallTimesOut(f) \/ StopProcess(f)
  <2>1. PICK r : r.pc # "waiting" /\ script' = [script EXCEPT ![f] = r]
    <3>1. NoRun.pc # "waiting"
      BY DEF NoRun
    <3>2. [script[f] EXCEPT !.pc = "running", !.call = None].pc # "waiting"
      BY <1>0 DEF Runs
    <3>3. Resume(f) => script' = [script EXCEPT ![f] = [script[f] EXCEPT !.pc = "running", !.call = None]]
      BY DEF Resume
    <3> QED BY <1>1, <3>1, <3>2, <3>3 DEF CallTimesOut, StopProcess
  <2>2. /\ reply' = [reply EXCEPT ![f] = None]
        /\ UNCHANGED <<made, rpc, serving, kv, acked>>
    BY <1>1 DEF CallTimesOut, StopProcess
  <2>3. DOMAIN reply' = Funcs /\ reply'[f] = None /\ \A g \in Funcs \ {f} : reply'[g] = reply[g]
    BY <2>2 DEF AckInv, StoreInv
  <2> QED BY <2>1, <2>2, <2>3, AgentAck
<1>2. CASE ~(CallTimesOut(f) \/ StopProcess(f))
  <2>1. script[f].pc # "waiting"
    BY <1>2 DEF RunStarts, ScriptReturns, ScriptThrows, WasmWrites, WasmExits,
                HostCallThrows, Makes, Running
  <2>2. reply[f] = None /\ DOMAIN reply = Funcs
    BY <2>1 DEF AckInv, StoreInv, ReplyInv
  <2>3. PICK r : r.pc # "waiting" /\ script' = [script EXCEPT ![f] = r]
    <3>1. NoRun.pc # "waiting" /\ [NoRun EXCEPT !.trig = exec[f].trig, !.pc = "running"].pc # "waiting"
      BY DEF NoRun
    <3>2. CASE RunStarts(f) \/ ScriptReturns(f) \/ ScriptThrows(f) \/ WasmExits(f)
      BY <3>1, <3>2 DEF RunStarts, ScriptReturns, ScriptThrows, WasmExits
    <3>3. CASE WasmWrites(f)
      <4>1. PICK x : script' = [script EXCEPT ![f].out = x]
        BY <3>3 DEF WasmWrites
      <4>2. script' = [script EXCEPT ![f] = [script[f] EXCEPT !.out = x]]
        BY <4>1
      <4>3. [script[f] EXCEPT !.out = x].pc = script[f].pc
        BY <1>0 DEF Runs
      <4> QED BY <2>1, <4>2, <4>3
    <3>4. CASE \E c : HostCallThrows(f, c)
      <4>1. script' = [script EXCEPT ![f] = script[f]]
        BY <1>0, <3>4 DEF HostCallThrows
      <4> QED BY <2>1, <4>1
    <3> QED BY <1>2, <3>2, <3>3, <3>4
  <2>4. /\ UNCHANGED <<reply, rpc, serving, kv, acked>>
        /\ made' = made \/ made' = [made EXCEPT ![f] = @ + 1]
    BY <1>2 DEF RunStarts, ScriptReturns, ScriptThrows, WasmWrites, WasmExits,
                HostCallThrows, Makes, serviceVars
  <2> QED BY <2>2, <2>3, <2>4, AgentAck
<1> QED BY <1>1, <1>2

\* The answer to a call of f arrives.
LEMMA CallReturnsAck ==
    ASSUME TypeOK, AckInv, NEW f \in Funcs, CallReturns(f)
    PROVE  AckInv'
<1> DEFINE c == script[f].call
<1>0. script[f] \in Runs
  BY TypeGroups DEF AgentTypes
<1>1. /\ script[f].pc = "waiting" /\ reply[f] # None
      /\ acked' = [acked EXCEPT ![f] =
               IF c.svc = "kv" /\ c.method = "set" /\ ScriptResult(c, reply[f]) # None
               THEN [key |-> c.key, data |-> c.data] ELSE @]
      /\ reply' = [reply EXCEPT ![f] = None]
      /\ UNCHANGED <<made, rpc, serving, kv>>
  BY DEF CallReturns
<1>2. PICK r : r.pc # "waiting" /\ script' = [script EXCEPT ![f] = r]
  <2>1. [script[f] EXCEPT !.pc = "running", !.call = None].pc # "waiting"
    BY <1>0 DEF Runs
  <2>2. script' = [script EXCEPT ![f] = [script[f] EXCEPT !.pc = "running", !.call = None]]
    BY DEF CallReturns, Resume
  <2> QED BY <2>1, <2>2
<1>3. DOMAIN reply' = Funcs /\ reply'[f] = None /\ \A g \in Funcs \ {f} : reply'[g] = reply[g]
  BY <1>1 DEF AckInv, StoreInv
<1>4. CallInv' /\ QueueInv' /\ ReplyInv'
  BY <1>1, <1>2, <1>3, AgentAck
<1>5. StoreInv'
  BY <1>1, <1>3 DEF StoreInv, AckInv
<1>6. c \in GoodCalls /\ Gone(f) /\ (Alone(f) => Fits(kv, f, c, reply[f]))
  BY <1>1 DEF AckInv, CallInv, ReplyInv
<1>7. c.svc = "kv" /\ c.method = "set" /\ ScriptResult(c, reply[f]) # None => Succeeds(reply[f])
  BY DEF ScriptResult, Returns, KvClient, Succeeds
<1> HIDE DEF c
<1>8. AckedInv'
  <2> SUFFICES ASSUME NEW g \in Funcs, acked'[g] # None
               PROVE  /\ acked'[g].data \in Seq(0..255) /\ Len(acked'[g].data) <= 2
                      /\ \A i \in 1..Len(rpc) : rpc[i].func = g => ~Writes(rpc[i].call)
                      /\ Alone(g) => HoldsIn(kv, g, acked'[g].key, MarshalValue(acked'[g].data))
    BY <1>1 DEF AckedInv
  <2>1. CASE acked'[g] = acked[g]
    BY <2>1 DEF AckedInv, AckInv
  <2>2. CASE acked'[g] # acked[g]
    <3>1. /\ g = f /\ c.svc = "kv" /\ c.method = "set" /\ Succeeds(reply[f])
          /\ acked'[f].key = c.key /\ acked'[f].data = c.data
      BY <1>1, <1>7, <2>2 DEF AckInv, StoreInv
    <3> QED BY <1>6, <3>1 DEF GoodCalls, Fits, Gone
  <2> QED BY <2>1, <2>2
<1> QED BY <1>4, <1>5, <1>8 DEF AckInv

\* What the key-value service leaves in a bucket: the other keys as they were
\* and, for a success, what the answer says.
Serves(bkt, c, res) ==
    /\ res.bkt \in {None} \cup Bucket
    /\ ~Writes(c) /\ bkt # None => res.bkt = bkt
    /\ Succeeds(res) /\ c.method = "set" => res.bkt # None /\ res.bkt[c.key] = c.data
    /\ Succeeds(res) /\ c.method = "get" => res.bkt # None /\ res.bkt[c.key] = res.data

LEMMA FailServes ==
    ASSUME NEW bkt, NEW b \in {None} \cup Bucket, bkt # None => b = bkt, NEW c
    PROVE  Serves(bkt, c, Fail(400, b)) /\ Serves(bkt, c, Fail(500, b))
<1>1. Fail(400, b).bkt = b /\ ~Succeeds(Fail(400, b))
  BY DEF Fail, Succeeds
<1>2. Fail(500, b).bkt = b /\ ~Succeeds(Fail(500, b))
  BY DEF Fail, Succeeds
<1>3. Serves(bkt, c, Fail(400, b))
  BY <1>1 DEF Serves
<1>4. Serves(bkt, c, Fail(500, b))
  BY <1>2, ZenonT(20) DEF Serves
<1> QED BY <1>3, <1>4

LEMMA WithKeyIs ==
    ASSUME NEW b, NEW key, NEW r
    PROVE  \/ WithKey(b, key, r) = Fail(500, b)
           \/ WithKey(b, key, r) = Fail(400, b)
           \/ b # None /\ key # NoKey /\ WithKey(b, key, r) = r
<1>1. CASE b = None
  BY <1>1 DEF WithKey
<1>2. CASE b # None /\ key = NoKey
  <2>1. WithKey(b, key, r) = Fail(400, b)
    BY <1>2, ZenonT(30) DEF WithKey, NoKey
  <2> QED BY <2>1
<1>3. CASE b # None /\ key # NoKey
  BY <1>3, ZenonT(30) DEF WithKey, NoKey
<1> QED BY <1>1, <1>2, <1>3

LEMMA KvServes ==
    ASSUME NEW bkt \in {None} \cup Bucket, NEW c, c.svc = "kv",
           c.key \in Keys \cup {NoKey}, c.data \in Seq(Int)
    PROVE  Serves(bkt, c, KvHandle(bkt, c))
<1> DEFINE b == Resolve(KvConf, bkt)
           res == KvHandle(bkt, c)
<1>1. None \notin Bucket
  BY CallAssumption DEF Bucket
<1>2. b \in {None} \cup Bucket /\ (bkt # None => b = bkt)
  <2>1. EmptyBucket \in Bucket
    BY DEF EmptyBucket, Bucket
  <2> QED BY <2>1 DEF Resolve
<1> SUFFICES Serves(bkt, c, res)
  OBVIOUS
<1> HIDE DEF b, res
<1>3. Serves(bkt, c, Fail(400, b)) /\ Serves(bkt, c, Fail(500, b)) /\ Serves(bkt, c, Fail(400, bkt))
  <2>1. Serves(bkt, c, Fail(400, b))
    BY <1>2, FailServes
  <2>2. Serves(bkt, c, Fail(500, b))
    BY <1>2, FailServes
  <2>3. Serves(bkt, c, Fail(400, bkt))
    BY FailServes
  <2> QED BY <2>1, <2>2, <2>3
<1>4. CASE c.method = "get"
  <2>1. res = KvGet(b, c.key)
    BY <1>4 DEF KvHandle, b, res
  <2>2. \/ res = Fail(500, b)
        \/ res = Fail(400, b)
        \/ b # None /\ res = Pass(b[c.key], b)
    <3>1. res = WithKey(b, c.key, IF b[c.key] = None THEN Fail(500, b) ELSE Pass(b[c.key], b))
      BY <2>1 DEF KvGet
    <3> QED BY <3>1, WithKeyIs
  <2>3. CASE b # None /\ res = Pass(b[c.key], b)
    <3>1. res.bkt = b /\ res.data = b[c.key]
      BY <2>3 DEF Pass
    <3> QED BY <1>2, <1>4, <2>3, <3>1 DEF Serves
  <2> QED BY <1>3, <2>2, <2>3
<1>5. CASE c.method \in {"set", "delete"}
  <2> DEFINE v == IF c.method = "set" THEN c.data ELSE None
  <2>1. v \in {None} \cup Seq(Int) /\ (c.method = "set" => v = c.data)
    OBVIOUS
  <2>2. res = WithKey(b, c.key, Pass(Json, [b EXCEPT ![c.key] = v]))
    BY <1>5 DEF KvHandle, KvSet, KvDelete, b, res
  <2> HIDE DEF v
  <2>3. \/ res = Fail(500, b)
        \/ res = Fail(400, b)
        \/ b # None /\ c.key # NoKey /\ res = Pass(Json, [b EXCEPT ![c.key] = v])
    BY <2>2, WithKeyIs
  <2>4. CASE b # None /\ c.key # NoKey /\ res = Pass(Json, [b EXCEPT ![c.key] = v])
    <3>1. res.bkt = [b EXCEPT ![c.key] = v]
      BY <2>4 DEF Pass
    <3>2. b \in Bucket /\ c.key \in Keys
      BY <1>2, <2>4
    <3>3. res.bkt \in Bucket /\ res.bkt[c.key] = v
      BY <2>1, <3>1, <3>2 DEF Bucket
    <3>4. Writes(c) /\ res.bkt # None
      BY <1>1, <1>5, <3>3 DEF Writes
    <3> QED BY <1>5, <2>1, <3>3, <3>4 DEF Serves
  <2> QED BY <1>3, <2>3, <2>4
<1>6. CASE c.method = "keys"
  <2>1. res = ListOf(b)
    BY <1>6 DEF KvHandle, b, res
  <2>2. res = Fail(500, b) \/ res = Pass(Json, b)
    BY <2>1 DEF ListOf
  <2>3. CASE res = Pass(Json, b)
    <3>1. res.bkt = b
      BY <2>3 DEF Pass
    <3> QED BY <1>2, <1>6, <3>1 DEF Serves
  <2> QED BY <1>3, <2>2, <2>3, ZenonT(20)
<1>7. CASE c.method \notin {"get", "set", "delete", "keys"}
  <2>1. res = Fail(400, bkt)
    BY <1>7 DEF KvHandle, res
  <2> QED BY <1>3, <2>1
<1> QED BY <1>4, <1>5, <1>6, <1>7

\* q was the oldest request of its function, and the step removes it.
Removes(q) ==
    /\ q.func \in Funcs /\ q.id \in Nat /\ CurrentIn(q, made, script)
    /\ reply[q.func] = None
    /\ \A k \in 1..Len(rpc') :
          /\ CurrentIn(rpc'[k], made, script) /\ rpc'[k].id \in Nat
          /\ rpc'[k].func = q.func => q.id < rpc'[k].id
          /\ \E j \in 1..Len(rpc) : rpc'[k] = rpc[j]

\* handleRPC answers the request q, which it no longer has.
LEMMA RespondAck ==
    ASSUME TypeOK, AckInv, NEW q, NEW res, Removes(q), serving' = None,
           Respond(q, res), UNCHANGED <<script, made, acked>>,
           \A f \in Funcs \ {q.func} : Alone(f) => kv'[KvBucket(f)] = kv[KvBucket(f)],
           Alone(q.func) /\ script[q.func].call \in GoodCalls /\ q.call = Sent(script[q.func].call)
               => Fits(kv', q.func, script[q.func].call, res)
    PROVE  ReplyInv' /\ DOMAIN reply' = Funcs
<1> USE RequestTypes
<1>0. DOMAIN reply' = Funcs /\ DOMAIN reply = Funcs /\ \A g \in Funcs \ {q.func} : reply'[g] = reply[g]
  BY DEF Respond, AckInv, StoreInv
<1>00. q.func \in Funcs /\ q.id \in Nat /\ CurrentIn(q, made, script) /\ reply[q.func] = None
  BY DEF Removes
<1>1. ASSUME NEW f \in Funcs, reply'[f] # None
      PROVE  /\ script[f].pc = "waiting" /\ Gone(f)'
             /\ Alone(f) => Fits(kv', f, script[f].call, reply'[f])
  <2>1. CASE f # q.func
    <3>1. script[f].pc = "waiting" /\ Gone(f) /\ (Alone(f) => Fits(kv, f, script[f].call, reply[f]))
      BY <1>0, <1>1, <2>1 DEF ReplyInv, AckInv
    <3>2. Gone(f)'
      BY <3>1 DEF Gone, Removes
    <3>3. Alone(f) => kv'[KvBucket(f)] = kv[KvBucket(f)]
      BY <2>1
    <3>4. Alone(f) => Fits(kv', f, script[f].call, reply[f])
      BY <3>1, <3>3 DEF Fits, HoldsIn
    <3> QED BY <1>0, <2>1, <3>1, <3>2, <3>4
  <2>2. CASE f = q.func
    <3>1. script[f].pc = "waiting" /\ made[f] = q.id /\ reply'[f] = [code |-> res.code, data |-> res.data]
      BY <1>0, <1>00, <1>1, <2>2 DEF Respond
    <3>2. Gone(f)'
      BY <1>00, <2>2, <3>1 DEF Gone, CurrentIn, Removes
    <3>3. q.call = Sent(script[f].call) /\ script[f].call \in GoodCalls
      BY <1>00, <2>2, <3>1, ZenonT(20) DEF CurrentIn, CallInv, AckInv
    <3>4. reply'[f].data = res.data /\ (Succeeds(reply'[f]) <=> Succeeds(res))
      <4>1. reply'[f].code = res.code /\ reply'[f].data = res.data
        BY <3>1, SMTT(30)
      <4> QED BY <4>1 DEF Succeeds
    <3> QED BY <2>2, <3>1, <3>2, <3>3, <3>4 DEF Fits
  <2> QED BY <2>1, <2>2
<1> QED BY <1>0, <1>1 DEF ReplyInv

\* handleRPC takes the oldest request.
LEMMA TakenAck ==
    ASSUME TypeOK, AckInv, NEW i, Takes(i), Without(i)
    PROVE  /\ i = 1 /\ serving = None
           /\ rpc[1].func \in Funcs /\ rpc[1].id \in Nat /\ rpc[1].call \in Call
           /\ CurrentIn(rpc[1], made, script) /\ reply[rpc[1].func] = None
           /\ \A f \in Funcs : acked[f] # None /\ rpc[1].func = f => ~Writes(rpc[1].call)
           /\ \A k \in 1..Len(rpc') :
                 /\ CurrentIn(rpc'[k], made, script) /\ rpc'[k].id \in Nat
                 /\ rpc'[k].func = rpc[1].func => rpc[1].id < rpc'[k].id
                 /\ \E j \in 1..Len(rpc) : rpc'[k] = rpc[j]
           /\ \A k, l \in 1..Len(rpc') : k < l /\ rpc'[k].func = rpc'[l].func => rpc'[k].id < rpc'[l].id
<1> USE RequestTypes
<1>1. /\ i = 1 /\ serving = None /\ Len(rpc) \in Nat \ {0} /\ Len(rpc') = Len(rpc) - 1
      /\ \A j \in 1..Len(rpc') : j + 1 \in 2..Len(rpc) /\ rpc'[j] = rpc[j + 1]
  BY TypeGroups, TakenTypes DEF Takes
<1>2. 1 \in 1..Len(rpc)
  BY <1>1
<1>3. \A j \in 2..Len(rpc) : j \in 1..Len(rpc) /\ 1 < j
  BY <1>1
<1>4. reply[rpc[1].func] = None
  BY <1>2 DEF AckInv, ReplyInv, Gone
<1>5. ASSUME NEW k \in 1..Len(rpc')
      PROVE  /\ CurrentIn(rpc'[k], made, script) /\ rpc'[k].id \in Nat
             /\ rpc'[k].func = rpc[1].func => rpc[1].id < rpc'[k].id
             /\ \E j \in 1..Len(rpc) : rpc'[k] = rpc[j]
  <2>1. k + 1 \in 1..Len(rpc) /\ 1 < k + 1 /\ rpc'[k] = rpc[k + 1]
    BY <1>1, <1>3
  <2>2. rpc[k + 1].func = rpc[1].func => rpc[1].id < rpc[k + 1].id
    BY <1>2, <2>1 DEF AckInv, QueueInv
  <2> QED BY <2>1, <2>2 DEF AckInv, QueueInv
<1>6. ASSUME NEW k \in 1..Len(rpc'), NEW l \in 1..Len(rpc'), k < l, rpc'[k].func = rpc'[l].func
      PROVE  rpc'[k].id < rpc'[l].id
  <2>1. /\ k + 1 \in 1..Len(rpc) /\ l + 1 \in 1..Len(rpc)
        /\ rpc'[k] = rpc[k + 1] /\ rpc'[l] = rpc[l + 1]
    BY <1>1, <1>3
  <2>2. k + 1 < l + 1
    BY <1>6
  <2> QED BY <1>6, <2>1, <2>2 DEF AckInv, QueueInv
<1>7. CurrentIn(rpc[1], made, script) /\ \A f \in Funcs : acked[f] # None /\ rpc[1].func = f => ~Writes(rpc[1].call)
  BY <1>2 DEF AckInv, QueueInv, AckedInv
<1> QED BY <1>1, <1>2, <1>4, <1>5, <1>6, <1>7

\* What is left after a request was taken, when the buckets of acknowledged
\* sets stay as they are.
LEMMA TakenKeeps ==
    ASSUME TypeOK, AckInv, NEW i, Takes(i), Without(i), UNCHANGED <<script, made, acked>>,
           \/ serving' = None
           \/ \E t : serving' = [req |-> rpc[1], trig |-> t] /\ rpc[1].call.svc # "kv",
           kv' \in [Buckets -> {None} \cup Bucket],
           \A f \in Funcs : acked[f] # None /\ Alone(f) => kv'[KvBucket(f)] = kv[KvBucket(f)]
    PROVE  CallInv' /\ QueueInv' /\ AckedInv' /\ (DOMAIN reply' = Funcs => StoreInv')
<1>1. CallInv'
  BY DEF CallInv, AckInv
<1>2. QueueInv'
  <2>1. CASE serving' = None
    BY <2>1, TakenAck DEF QueueInv
  <2>2. CASE \E t : serving' = [req |-> rpc[1], trig |-> t] /\ rpc[1].call.svc # "kv"
    <3>1. serving'.req = rpc[1] /\ rpc[1].call.svc # "kv"
      BY <2>2
    <3> QED BY <3>1, TakenAck DEF QueueInv
  <2> QED BY <2>1, <2>2
<1>3. AckedInv'
  <2> SUFFICES ASSUME NEW f \in Funcs, acked[f] # None
               PROVE  /\ acked[f].data \in Seq(0..255) /\ Len(acked[f].data) <= 2
                      /\ \A k \in 1..Len(rpc') : rpc'[k].func = f => ~Writes(rpc'[k].call)
                      /\ Alone(f) => HoldsIn(kv', f, acked[f].key, MarshalValue(acked[f].data))
    BY ZenonT(20) DEF AckedInv
  <2>1. \A k \in 1..Len(rpc') : \E j \in 1..Len(rpc) : rpc'[k] = rpc[j]
    BY TakenAck
  <2> QED BY <2>1 DEF AckedInv, AckInv, HoldsIn
<1>4. DOMAIN reply' = Funcs => StoreInv'
  BY DEF StoreInv, AckInv
<1> QED BY <1>1, <1>2, <1>3, <1>4

\* Requests that are not for the key-value store, or refused.
LEMMA OtherServed ==
    ASSUME TypeOK, AckInv, NEW i, NEW res, Takes(i), Without(i), Respond(rpc[i], res),
           rpc[i].call.svc = "kv" => ~Succeeds(res),
           UNCHANGED <<script, made, acked, kv, serving>>
    PROVE  AckInv'
<1>1. i = 1 /\ serving' = None
  BY TakenAck
<1>2. CallInv' /\ QueueInv' /\ AckedInv' /\ (DOMAIN reply' = Funcs => StoreInv')
  BY <1>1, TakenKeeps DEF AckInv, StoreInv
<1>3. script[rpc[1].func].call \in GoodCalls /\ rpc[1].call = Sent(script[rpc[1].func].call)
        => Fits(kv', rpc[1].func, script[rpc[1].func].call, res)
  <2>1. \A c \in GoodCalls : Sent(c).svc = c.svc
    BY SentCall DEF GoodCalls
  <2>2. \A c \in GoodCalls : rpc[1].call = Sent(c) /\ c.svc = "kv" => ~Succeeds(res)
    BY <1>1, <2>1
  <2> QED BY <2>2 DEF Fits
<1>4. ReplyInv' /\ DOMAIN reply' = Funcs
  <2>1. Removes(rpc[1])
    BY <1>1, TakenAck DEF Removes
  <2> QED BY <1>1, <1>3, <2>1, RespondAck
<1> QED BY <1>2, <1>4 DEF AckInv

LEMMA ServeKvAck ==
    ASSUME TypeOK, AckInv, NEW i, ServeKv(i)
    PROVE  AckInv'
<1> DEFINE q == rpc[1]
           b == KvBucket(q.func)
<1>1. Takes(i) /\ Without(i) /\ UNCHANGED <<script, made, acked, serving>> /\ rpc[i].call.svc = "kv"
  BY DEF ServeKv, agentVars
<1>2. i = 1 /\ serving' = None /\ q.func \in Funcs /\ q.call \in Call /\ CurrentIn(q, made, script)
  BY <1>1, TakenAck
<1>3. PICK res : /\ res = KvHandle(kv[b], q.call) \/ res = Fail(500, kv[b])
                 /\ kv' = [kv EXCEPT ![b] = res.bkt]
                 /\ Respond(q, res)
  <2> DEFINE fails == IF "storeFails" \in world.env THEN {Fail(500, kv[b])} ELSE {}
  <2>1. PICK res \in {KvHandle(kv[b], q.call)} \cup fails :
          kv' = [kv EXCEPT ![b] = res.bkt] /\ Respond(q, res)
    <3>1. ServeKv(1)
      BY <1>2
    <3> QED BY <3>1, ZenonT(30) DEF ServeKv
  <2>2. fails \subseteq {Fail(500, kv[b])}
    BY ZenonT(20)
  <2>3. res = KvHandle(kv[b], q.call) \/ res = Fail(500, kv[b])
    <3> DEFINE fail == Fail(500, kv[b])
    <3> HIDE DEF fails, fail, b
    <3>1. fails \subseteq {fail}
      BY <2>2 DEF fail
    <3>2. res = KvHandle(kv[b], q.call) \/ res = fail
      BY <2>1, <3>1
    <3> QED BY <3>2 DEF fail
  <2> HIDE DEF fails, q, b
  <2> QED BY <2>1, <2>3, ZenonT(20)
<1>4. PICK c \in GoodCalls : q.call = Sent(c)
  BY <1>2 DEF CurrentIn
<1>5. /\ q.call.svc = "kv" /\ q.call.key \in Keys \cup {NoKey} /\ q.call.data \in Seq(Int)
  BY <1>1, <1>2, <1>4, SentCall DEF GoodCalls, Call
<1>6. b \in Buckets /\ kv[b] \in {None} \cup Bucket
  BY <1>2 DEF Buckets, AckInv, StoreInv
<1>7. Serves(kv[b], q.call, res)
  <2>1. Serves(kv[b], q.call, KvHandle(kv[b], q.call))
    BY <1>5, <1>6, KvServes
  <2>2. Serves(kv[b], q.call, Fail(500, kv[b]))
    BY <1>6, FailServes
  <2> QED BY <1>3, <2>1, <2>2
<1>8. kv' \in [Buckets -> {None} \cup Bucket] /\ kv'[b] = res.bkt
  BY <1>3, <1>6, <1>7 DEF Serves, AckInv, StoreInv
<1>9. ASSUME NEW f \in Funcs \ {q.func}, Alone(f)
      PROVE  kv'[KvBucket(f)] = kv[KvBucket(f)]
  <2>1. KvBucket(f) # b /\ KvBucket(f) \in Buckets
    BY <1>2, <1>9 DEF Alone, Buckets
  <2> HIDE DEF b
  <2> QED BY <1>3, <2>1 DEF AckInv, StoreInv
<1>10. ASSUME NEW f \in Funcs, acked[f] # None, Alone(f)
       PROVE  kv'[KvBucket(f)] = kv[KvBucket(f)]
  <2>1. CASE f = q.func
    <3>1. ~Writes(q.call)
      BY <1>1, <1>10, <2>1, TakenAck
    <3>2. kv[b] # None
      BY <1>10, <2>1 DEF AckInv, AckedInv, HoldsIn
    <3> QED BY <1>7, <1>8, <2>1, <3>1, <3>2 DEF Serves
  <2> QED BY <1>9, <1>10, <2>1
<1>11. CallInv' /\ QueueInv' /\ AckedInv' /\ (DOMAIN reply' = Funcs => StoreInv')
  BY <1>1, <1>2, <1>8, <1>10, TakenKeeps
<1>12. ASSUME script[q.func].call \in GoodCalls, q.call = Sent(script[q.func].call)
       PROVE  Fits(kv', q.func, script[q.func].call, res)
  <2> DEFINE d == script[q.func].call
  <2>1. d.method = q.call.method /\ d.key = q.call.key /\ MarshalValue(d.data) = q.call.data
    BY <1>12, SentCall DEF GoodCalls
  <2> HIDE DEF d
  <2>2. Fits(kv', q.func, d, res)
    BY <1>7, <1>8, <2>1 DEF Fits, HoldsIn, Serves
  <2> QED BY <2>2 DEF d
<1>13. ReplyInv' /\ DOMAIN reply' = Funcs
  <2>1. Removes(q)
    BY <1>1, TakenAck DEF Removes
  <2> HIDE DEF q
  <2> QED BY <1>1, <1>2, <1>3, <1>9, <1>12, <2>1, RespondAck
<1> QED BY <1>11, <1>13 DEF AckInv

\* handleRPC begins to wait for someone.
LEMMA AskAck ==
    ASSUME TypeOK, AckInv, NEW i, NEW t, Takes(i), Without(i),
           serving' = [req |-> rpc[i], trig |-> t], rpc[i].call.svc # "kv",
           UNCHANGED <<script, made, acked, kv, reply>>
    PROVE  AckInv'
<1>1. i = 1 /\ serving = None /\ serving'.req = rpc[1]
  BY TakenAck
<1>2. CallInv' /\ QueueInv' /\ AckedInv' /\ (DOMAIN reply' = Funcs => StoreInv')
  BY <1>1, TakenKeeps DEF AckInv, StoreInv
<1>3. reply[rpc[1].func] = None /\ \A k \in 1..Len(rpc') : \E j \in 1..Len(rpc) : rpc'[k] = rpc[j]
  BY TakenAck
<1>4. ReplyInv'
  <2> SUFFICES ASSUME NEW f \in Funcs, reply[f] # None
               PROVE  /\ script[f].pc = "waiting" /\ Gone(f)'
                      /\ Alone(f) => Fits(kv, f, script[f].call, reply[f])
    BY DEF ReplyInv
  <2>1. script[f].pc = "waiting" /\ Gone(f) /\ (Alone(f) => Fits(kv, f, script[f].call, reply[f]))
    BY DEF ReplyInv, AckInv
  <2>2. f # rpc[1].func
    BY <1>3
  <2>3. Gone(f)'
    BY <1>1, <1>3, <2>1, <2>2 DEF Gone
  <2> QED BY <2>1, <2>3
<1> QED BY <1>2, <1>4 DEF AckInv, StoreInv

\* The wait is over.
LEMMA AnswerAck ==
    ASSUME TypeOK, AckInv, NEW res, serving # None, Respond(serving.req, res), serving' = None,
           UNCHANGED <<script, made, acked, kv, rpc>>
    PROVE  AckInv'
<1> USE RequestTypes
<1> DEFINE q == serving.req
<1>1. Removes(q)
  <2>1. reply[q.func] = None
    BY DEF AckInv, ReplyInv, Gone
  <2> QED BY <2>1 DEF AckInv, QueueInv, Removes
<1>2. q.call.svc # "kv"
  BY DEF AckInv, QueueInv
<1> HIDE DEF q
<1>3. script[q.func].call \in GoodCalls /\ q.call = Sent(script[q.func].call)
        => Fits(kv', q.func, script[q.func].call, res)
  BY <1>2, SentCall DEF Fits, GoodCalls
<1>4. Respond(q, res)
  BY DEF q
<1>5. ReplyInv' /\ DOMAIN reply' = Funcs
  BY <1>1, <1>3, <1>4, RespondAck
<1>6. CallInv' /\ QueueInv' /\ AckedInv'
  BY ZenonT(20) DEF AckInv, CallInv, QueueInv, AckedInv
<1> QED BY <1>5, <1>6 DEF AckInv, StoreInv

LEMMA ServerAck ==
    ASSUME TypeOK, AckInv, ServerStep
    PROVE  AckInv'
<1>1. ASSUME NEW i, NoSuchService(i) PROVE AckInv'
  <2>1. /\ Takes(i) /\ Without(i) /\ Respond(rpc[i], Fail(404, None))
        /\ UNCHANGED <<script, made, acked, kv, serving>>
    BY <1>1 DEF NoSuchService, agentVars
  <2>2. ~Succeeds(Fail(404, None))
    BY DEF Fail, Succeeds
  <2> QED BY <2>1, <2>2, OtherServed
<1>2. ASSUME NEW i, ServeObjectStore(i) PROVE AckInv'
  <2>1. \E res : Respond(rpc[i], res)
    BY <1>2 DEF ServeObjectStore
  <2>2. /\ Takes(i) /\ Without(i) /\ rpc[i].call.svc = "objectstore"
        /\ UNCHANGED <<script, made, acked, kv, serving>>
    BY <1>2 DEF ServeObjectStore, agentVars
  <2> QED BY <2>1, <2>2, OtherServed
<1>3. ASSUME NEW i, ServeMessaging(i) PROVE AckInv'
  <2>1. \E res : Respond(rpc[i], res)
    BY <1>3 DEF ServeMessaging
  <2>2. /\ Takes(i) /\ Without(i) /\ rpc[i].call.svc = "messaging"
        /\ UNCHANGED <<script, made, acked, kv, serving>>
    BY <1>3 DEF ServeMessaging, agentVars
  <2> QED BY <2>1, <2>2, OtherServed
<1>4. ASSUME NEW i, AskFunction(i) PROVE AckInv'
  <2>1. \E t : serving' = [req |-> rpc[i], trig |-> t]
    BY <1>4 DEF AskFunction
  <2>2. /\ Takes(i) /\ Without(i) /\ rpc[i].call.svc = "messaging"
        /\ UNCHANGED <<script, made, acked, kv, reply>>
    BY <1>4 DEF AskFunction, agentVars
  <2> QED BY <2>1, <2>2, AskAck
<1>5. ASSUME NEW i, AskWeb(i) PROVE AckInv'
  <2>1. \/ serving' = [req |-> rpc[i], trig |-> None] /\ UNCHANGED reply
        \/ (\E res : Respond(rpc[i], res)) /\ UNCHANGED serving
    BY <1>5 DEF AskWeb
  <2>2. /\ Takes(i) /\ Without(i) /\ rpc[i].call.svc = "http"
        /\ UNCHANGED <<script, made, acked, kv>>
    BY <1>5 DEF AskWeb, agentVars
  <2> QED BY <2>1, <2>2, AskAck, OtherServed
<1>6. CASE FunctionAnswers \/ AskTimesOut \/ WebAnswers
  <2>1. CASE Crash
    BY <2>1, AckFrame DEF Crash, agentVars, serviceVars
  <2>2. CASE ~Crash
    <3>1. \E res : Respond(serving.req, res)
      BY <1>6, <2>2 DEF FunctionAnswers, AskTimesOut, WebAnswers
    <3>2. serving # None /\ serving' = None /\ UNCHANGED <<script, made, acked, kv, rpc>>
      BY <1>6, <2>2 DEF FunctionAnswers, AskTimesOut, WebAnswers, agentVars
    <3> QED BY <3>1, <3>2, AnswerAck
  <2> QED BY <2>1, <2>2
<1> QED BY <1>1, <1>2, <1>3, <1>4, <1>5, <1>6, ServeKvAck DEF ServerStep

LEMMA AckStep == TypeOK /\ AckInv /\ [Next]_vars => AckInv'
<1> SUFFICES ASSUME TypeOK, AckInv, [Next]_vars PROVE AckInv'
  OBVIOUS
<1>1. CASE UNCHANGED vars
  BY <1>1, AckFrame DEF vars, agentVars, serviceVars
<1>2. ASSUME NEW f \in Funcs,
             \/ \E t \in Triggers : TriggerArrives(f, t)
             \/ NodeStep(f) \/ StopDrains(f) \/ ExecBegins(f) \/ ExecTimesOut(f)
      PROVE  AckInv'
  <2>1. UNCHANGED <<script, made, acked, rpc, serving, reply, kv>>
    BY <1>2 DEF TriggerArrives, NodeStep, RunTrigger, RunTriggerReturns, RunTriggerTimesOut,
                Report, Crash, StopDrains, ExecBegins, ExecTimesOut, agentVars, serviceVars
  <2> QED BY <2>1, AckFrame
<1>3. ASSUME NEW f \in Funcs, ScriptStep(f)
      PROVE  AckInv'
  BY <1>3, AgentStepAck, HostCallAck DEF ScriptStep
<1>4. CASE ServerStep
  BY <1>4, ServerAck
<1> QED BY <1>1, <1>2, <1>3, <1>4, AgentStepAck, CallReturnsAck DEF Next

LEMMA AckInit == Init => AckInv
<1> SUFFICES ASSUME Init PROVE AckInv
  OBVIOUS
<1>1. StoreInv /\ AckedInv /\ ReplyInv
  BY DEF Init, StoreInv, AckedInv, ReplyInv
<1>2. CallInv
  BY DEF Init, CallInv, NoRun
<1>3. QueueInv
  BY DEF Init, QueueInv
<1> QED BY <1>1, <1>2, <1>3 DEF AckInv

\* toUInt8ArrayValue leaves bytes as they are.
LEMMA BytesStay ==
    ASSUME NEW v \in Seq(0..255)
    PROVE  ToUInt8Array(v) = v
<1>1. \A i \in 1..Len(v) : v[i] % 256 = v[i]
  <2> DEFINE B == 0..255
             Same(n) == n % 256 = n
  <2>1. \A n \in B : Same(n)
    OBVIOUS
  <2>2. \A i \in 1..Len(v) : v[i] \in B
    BY ElementOfSeq
  <2> HIDE DEF B, Same
  <2>3. \A i \in 1..Len(v) : Same(v[i])
    BY <2>1, <2>2
  <2> QED BY <2>3 DEF Same
<1>2. v = [i \in 1..Len(v) |-> v[i]]
  OBVIOUS
<1> QED BY <1>1, <1>2 DEF ToUInt8Array

LEMMA AckInvStays == AckInv => AcknowledgedSetStays
<1> SUFFICES ASSUME AckInv, NEW f \in Funcs, acked[f] # None, Alone(f)
             PROVE  /\ kv[KvBucket(f)] # None
                    /\ kv[KvBucket(f)][acked[f].key] = MarshalValue(acked[f].data)
                    /\ SevenBit(acked[f].data) =>
                          kv[KvBucket(f)][acked[f].key] = acked[f].data
                    /\ LET c == script[f].call
                       IN  script[f].pc = "waiting" /\ c.svc = "kv" /\ c.method = "get"
                              /\ c.key = acked[f].key /\ reply[f] # None /\ reply[f].code = 200
                           => ScriptResult(c, reply[f]) = MarshalValue(acked[f].data)
  BY DEF AcknowledgedSetStays
<1> DEFINE m == MarshalValue(acked[f].data)
           c == script[f].call
<1>1. /\ HoldsIn(kv, f, acked[f].key, m) /\ m \in Seq(0..255)
      /\ SevenBit(acked[f].data) => m = acked[f].data
  BY Marshalled DEF AckInv, AckedInv
<1>2. ASSUME script[f].pc = "waiting", c.svc = "kv", c.method = "get",
             c.key = acked[f].key, reply[f] # None, reply[f].code = 200
      PROVE  ScriptResult(c, reply[f]) = m
  <2>1. HoldsIn(kv, f, c.key, reply[f].data)
    BY <1>2 DEF AckInv, ReplyInv, Fits, Succeeds
  <2>2. reply[f].data = m
    BY <1>1, <1>2, <2>1 DEF HoldsIn
  <2>3. Returns(c, reply[f]) = reply[f].data
    BY <1>2 DEF Returns, KvClient
  <2>4. ToUInt8Array(m) = m
    BY <1>1, BytesStay
  <2> HIDE DEF m, c
  <2>5. Returns(c, reply[f]) = m
    BY <2>2, <2>3
  <2>6. ScriptResult(c, reply[f]) = IF m = None THEN None ELSE ToUInt8Array(m)
    BY <2>5 DEF ScriptResult
  <2> QED BY <2>4, <2>6
<1> QED BY <1>1, <1>2 DEF HoldsIn

\* A function that was told that its set succeeded finds the value, encoded
\* as marshalValue does, until it writes again: for any number of functions,
\* calls and timeouts, handleRPC applies no older write after it and no other
\* function's, as long as no other function has the same bucket name.
THEOREM AcknowledgedSetsStay == Spec => []AcknowledgedSetStays
<1>1. Init => TypeOK /\ AckInv
  BY TypesInit, AckInit
<1>2. TypeOK /\ AckInv /\ [Next]_vars => (TypeOK /\ AckInv)'
  BY TypesStep, AckStep
<1>3. TypeOK /\ AckInv => AcknowledgedSetStays
  BY AckInvStays
<1> QED BY <1>1, <1>2, <1>3, PTL DEF Spec

=============================================================================
