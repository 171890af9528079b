---------------------------- MODULE FunctionHost ----------------------------
(***************************************************************************)
(* Function workloads of a node: a message on a trigger subject makes the  *)
(* node ask the function's agent to run it (generateTriggerHandler,        *)
(* RunTrigger), the agent runs a V8 script or a Wasm module (Execute), and *)
(* a script calls host services of the node (PerformRPC, handleRPC).       *)
(*                                                                         *)
(* Every NATS subscription runs its callback serially, so there is one     *)
(* trigger handler per function at the node, one per agent and one         *)
(* handleRPC for all functions.  Every wait has a timeout in the code      *)
(* except the run of a Wasm module; here a timeout may strike whenever its *)
(* waiter waits, and the other side goes on all the same.                  *)
(***************************************************************************)
EXTENDS HostServices

CONSTANTS
    V8Funcs,    \* functions of type v8, the others are wasm
    Triggers,   \* messages on trigger subjects: numbers, used in order
    Subject,    \* Subject[f]: f's trigger subject
    Worlds      \* what the functions are and what may happen to them

\* What the environment may do.
EnvEvents == {"timeout", "storeFails", "badGzip", "throw"}

Call == [svc : Services, method : STRING, key : STRING, data : Seq(Int),
         args : {"ok", "missing", "notBytes"}]

\* The calls the code of each function makes, in order; the functions that
\* get messages from outside; those that may be stopped; other events; the
\* node's configuration of each service.
World == [code : [Funcs -> Seq(Call)], clients : SUBSET Funcs,
          stops : SUBSET Funcs, env : SUBSET EnvEvents,
          config : [Services -> {"absent", "disabled", "enabled"}]]

ASSUME FunctionHostAssumption ==
    /\ V8Funcs \subseteq Funcs
    /\ Triggers \subseteq Nat
    /\ Worlds \subseteq World
    /\ None \notin Triggers \cup Funcs

\* MarshalValue is defined for what the calls write, Keys has the keys they
\* use with the key-value store, and nil is not a bucket.
ASSUME CallAssumption ==
    /\ \A w \in Worlds, f \in Funcs : \A i \in 1..Len(w.code[f]) :
          LET c == w.code[f][i]
          IN  /\ c.data \in Seq(0..255) /\ Len(c.data) <= 2
              /\ c.svc = "kv" => c.key \in Keys \cup {""}
    /\ None \notin [Keys -> {None} \cup Seq(Int)]

VARIABLES
    world,      \* the world this is (never changes)
    pending,    \* trigger messages in the node's subscription for f
    handler,    \* the node's trigger handler of f
    reporting,  \* what it is about to report: "ok", "failed" or None
    deployed,   \* Lookup(f) # nil
    draining,   \* the trigger subscription of f was drained
    agentUp,    \* f's agent process runs
    requester,  \* who waits for an answer to a trigger
    inbox,      \* trigger messages at f's agent
    exec,       \* the agent's trigger handler: its trigger
    script,     \* the run of f's code: its trigger, where it is
    answered,   \* the agent's answer to a trigger: the run that made it
    made,       \* number of calls f has made, in all its runs
    rpc,        \* requests at the host services' subscription
    serving,    \* the request handleRPC is waiting for someone to answer
    reply,      \* the answer on its way to f
    kv, obj,    \* the stores
    events,     \* exec_succeeded and exec_failed events of a trigger
    replied,    \* the answer its sender got to a trigger
    execTotal,  \* executions whose run time was recorded
    panicked,   \* the node's process has crashed
    acked       \* history: f's last set, while f knows it was the last write

nodeVars == <<pending, handler, reporting, deployed, draining, requester,
              events, replied, execTotal>>
agentVars == <<world, agentUp, inbox, exec, script, answered, made, acked>>
serviceVars == <<rpc, serving, reply, kv, obj>>
vars == <<nodeVars, agentVars, serviceVars, panicked>>

Request == [func : Funcs, id : Nat, call : Call]

NoRun == [trig |-> None, pc |-> "none", out |-> <<>>, call |-> None]

TypeOK ==
    /\ pending \in [Funcs -> Seq(Triggers)]
    /\ inbox \in [Funcs -> Seq(Triggers)]
    /\ handler \in [Funcs -> Triggers \cup {None}]
    /\ reporting \in [Funcs -> {"ok", "failed", None}]
    /\ exec \in [Funcs -> [trig : Triggers \cup {None},
                           pc : {"idle", "entering", "running"}]]
    /\ script \in [Funcs -> [trig : Triggers \cup {None},
                             pc : {"none", "running", "waiting"},
                             out : Seq(Int), call : Call \cup {None}]]
    /\ answered \in [Triggers -> Triggers \cup {None}]
    /\ replied \in [Triggers -> Triggers \cup {None}]
    /\ requester \in [Triggers -> {"none", "client", "nobody", "host"}]
    /\ events \in [Triggers -> Seq({"ok", "failed"})]
    /\ world \in Worlds
    /\ made \in [Funcs -> Nat]
    /\ execTotal \in [Funcs -> Nat]
    /\ rpc \in Seq(Request)
    /\ serving \in [req : Request, trig : Triggers \cup {None}] \cup {None}
    /\ deployed \in [Funcs -> BOOLEAN]
    /\ draining \in [Funcs -> BOOLEAN]
    /\ agentUp \in [Funcs -> BOOLEAN]
    /\ panicked \in BOOLEAN

\* Every function is deployed, its agent has subscribed to its triggers.
Init ==
    /\ world \in Worlds
    /\ pending = [f \in Funcs |-> <<>>]
    /\ handler = [f \in Funcs |-> None]
    /\ reporting = [f \in Funcs |-> None]
    /\ deployed = [f \in Funcs |-> TRUE]
    /\ draining = [f \in Funcs |-> FALSE]
    /\ agentUp = [f \in Funcs |-> TRUE]
    /\ requester = [t \in Triggers |-> "none"]
    /\ inbox = [f \in Funcs |-> <<>>]
    /\ exec = [f \in Funcs |-> [trig |-> None, pc |-> "idle"]]
    /\ script = [f \in Funcs |-> NoRun]
    /\ answered = [t \in Triggers |-> None]
    /\ made = [f \in Funcs |-> 0]
    /\ rpc = <<>>
    /\ serving = None
    /\ reply = [f \in Funcs |-> None]
    /\ kv = [b \in Buckets |-> None]
    /\ obj = [b \in Buckets |-> None]
    /\ events = [t \in Triggers |-> <<>>]
    /\ replied = [t \in Triggers |-> None]
    /\ execTotal = [f \in Funcs |-> 0]
    /\ panicked = FALSE
    /\ acked = [f \in Funcs |-> None]

(***************************************************************************)
(* The node: triggers.                                                     *)
(***************************************************************************)

\* The next message that has not been sent.
Fresh(t) ==
    /\ requester[t] = "none"
    /\ \A u \in Triggers : u < t => requester[u] # "none"

\* A message on f's trigger subject, for whose answer `who` waits.
Deliver(f, t, who) ==
    /\ ~panicked
    /\ Fresh(t)
    /\ ~draining[f]
    /\ requester' = [requester EXCEPT ![t] = who]
    /\ pending' = [pending EXCEPT ![f] = Append(@, t)]

\* Someone outside the node sends a request (external).
TriggerArrives(f, t) ==
    /\ f \in world.clients
    /\ Deliver(f, t, "client")
    /\ UNCHANGED <<handler, reporting, deployed, draining, events, replied,
                   execTotal, agentVars, serviceVars, panicked>>

\* The trigger handler calls RunTrigger, which fails at once when the agent
\* has no subscription any more.
RunTrigger(f) ==
    /\ ~panicked
    /\ handler[f] = None
    /\ pending[f] # <<>>
    /\ handler' = [handler EXCEPT ![f] = Head(pending[f])]
    /\ pending' = [pending EXCEPT ![f] = Tail(@)]
    /\ inbox' = [inbox EXCEPT ![f] = IF agentUp[f] THEN Append(@, Head(pending[f])) ELSE @]
    /\ reporting' = [reporting EXCEPT ![f] = IF agentUp[f] THEN None ELSE "failed"]
    /\ UNCHANGED <<deployed, draining, requester, events, replied, execTotal,
                   world, agentUp, exec, script, answered, made, acked, serviceVars,
                   panicked>>

Waiting(f) == handler[f] # None /\ reporting[f] = None /\ ~panicked

\* RunTrigger returns: with the agent's answer, or after ten seconds.
RunTriggerReturns(f) ==
    /\ Waiting(f)
    /\ answered[handler[f]] # None
    /\ reporting' = [reporting EXCEPT ![f] = "ok"]
    /\ UNCHANGED <<pending, handler, deployed, draining, requester, events,
                   replied, execTotal, agentVars, serviceVars, panicked>>

\* Variant: the deadline is forgotten.
RunTriggerTimesOut_Never(f) ==
    /\ FALSE
    /\ UNCHANGED vars

\* Variant: the header of the answer is read before the error is looked at.
RunTriggerTimesOut_ReadsAnswer(f) ==
    /\ Waiting(f)
    /\ "timeout" \in world.env
    /\ panicked' = TRUE
    /\ UNCHANGED <<nodeVars, agentVars, serviceVars>>

RunTriggerTimesOut(f) ==
    /\ Waiting(f)
    /\ "timeout" \in world.env
    /\ reporting' = [reporting EXCEPT ![f] = "failed"]
    /\ UNCHANGED <<pending, handler, deployed, draining, requester, events,
                   replied, execTotal, agentVars, serviceVars, panicked>>

\* publishFunctionExecFailed and publishFunctionExecSucceeded: Lookup returns
\* nil and no error for a workload that was removed, and nil is dereferenced.
Crash ==
    /\ panicked' = TRUE
    /\ UNCHANGED <<nodeVars, agentVars, serviceVars>>

\* Variant: a failure that was reported is reported again by the next step.
Report_Twice(f) ==
    /\ handler[f] # None /\ reporting[f] # None /\ ~panicked
    /\ deployed[f]
    /\ events' = [events EXCEPT ![handler[f]] = Append(@, reporting[f])]
    /\ handler' = IF reporting[f] = "ok" THEN [handler EXCEPT ![f] = None] ELSE handler
    /\ reporting' = [reporting EXCEPT ![f] = None]
    /\ UNCHANGED <<pending, deployed, draining, requester, replied, execTotal,
                   agentVars, serviceVars, panicked>>

\* Variant: the handler goes on before RunTrigger has returned.
Report_Early(f) ==
    /\ handler[f] # None /\ deployed[f] /\ ~panicked
    /\ events' = [events EXCEPT ![handler[f]] = Append(@, reporting[f])]
    /\ handler' = [handler EXCEPT ![f] = None]
    /\ reporting' = [reporting EXCEPT ![f] = None]
    /\ UNCHANGED <<pending, deployed, draining, requester, replied, execTotal,
                   agentVars, serviceVars, panicked>>

\* The rest of the trigger handler: the event, then for a success the run
\* time (a Wasm answer has no run time header and counts as 0) and the
\* answer, which only a message with a reply subject can be given.
Report(f) ==
    LET t  == handler[f]
        ok == reporting[f] = "ok"
    IN  /\ handler[f] # None /\ reporting[f] # None /\ ~panicked
        /\ \/ /\ ~deployed[f]
              /\ Crash
           \/ /\ deployed[f]
              /\ events' = [events EXCEPT ![t] = Append(@, reporting[f])]
              /\ execTotal' = [execTotal EXCEPT ![f] = IF ok /\ f \in V8Funcs THEN @ + 1 ELSE @]
              /\ replied' = [replied EXCEPT ![t] = IF ok /\ requester[t] # "nobody"
                                                   THEN answered[t] ELSE @]
              /\ handler' = [handler EXCEPT ![f] = None]
              /\ reporting' = [reporting EXCEPT ![f] = None]
              /\ UNCHANGED <<pending, deployed, draining, requester, agentVars,
                             serviceVars, panicked>>

\* StopWorkload drains the trigger subscription, which goes on with what it
\* has, and then stops the process.
StopDrains(f) ==
    /\ f \in world.stops
    /\ ~panicked
    /\ ~draining[f]
    /\ draining' = [draining EXCEPT ![f] = TRUE]
    /\ UNCHANGED <<pending, handler, reporting, deployed, requester, events,
                   replied, execTotal, agentVars, serviceVars, panicked>>

StopProcess(f) ==
    /\ ~panicked
    /\ draining[f] /\ deployed[f]
    /\ deployed' = [deployed EXCEPT ![f] = FALSE]
    /\ agentUp' = [agentUp EXCEPT ![f] = FALSE]
    /\ inbox' = [inbox EXCEPT ![f] = <<>>]
    /\ exec' = [exec EXCEPT ![f] = [trig |-> None, pc |-> "idle"]]
    /\ script' = [script EXCEPT ![f] = NoRun]
    /\ reply' = [reply EXCEPT ![f] = None]
    /\ UNCHANGED <<pending, handler, reporting, draining, requester, events,
                   replied, execTotal, world, answered, made, acked, rpc, serving,
                   kv, obj, panicked>>

(***************************************************************************)
(* The agent: runs of a function.                                          *)
(***************************************************************************)

\* The trigger subscription of the provider calls Execute.
ExecBegins(f) ==
    /\ agentUp[f]
    /\ exec[f].pc = "idle"
    /\ inbox[f] # <<>>
    /\ exec' = [exec EXCEPT ![f] = [trig |-> Head(inbox[f]), pc |-> "entering"]]
    /\ inbox' = [inbox EXCEPT ![f] = Tail(@)]
    /\ UNCHANGED <<nodeVars, world, agentUp, script, answered, made, acked,
                   serviceVars, panicked>>

\* A V8 isolate is locked by the script that runs in it, one that was given
\* up included: newV8Context waits for it.
RunStarts(f) ==
    /\ agentUp[f]
    /\ exec[f].pc = "entering"
    /\ script[f].pc = "none"
    /\ exec' = [exec EXCEPT ![f].pc = "running"]
    /\ script' = [script EXCEPT ![f] = [NoRun EXCEPT !.trig = exec[f].trig,
                                                    !.pc = "running"]]
    /\ UNCHANGED <<nodeVars, world, agentUp, inbox, answered, made, acked,
                   serviceVars, panicked>>

Idle(f) == exec' = [exec EXCEPT ![f] = [trig |-> None, pc |-> "idle"]]

\* Execute gives up a script after five seconds; the script goes on.
ExecTimesOut(f) ==
    /\ "timeout" \in world.env
    /\ f \in V8Funcs
    /\ exec[f].pc = "running"
    /\ Idle(f)
    /\ UNCHANGED <<nodeVars, world, agentUp, inbox, script, answered, made, acked,
                   serviceVars, panicked>>

Running(f) == script[f].pc = "running"

\* Variant: the channels of a run belong to the provider, and whoever is in
\* Execute reads from them.
ScriptReturns_SharedChannel(f) ==
    /\ Running(f) /\ f \in V8Funcs
    /\ script' = [script EXCEPT ![f] = NoRun]
    /\ IF exec[f].pc # "idle"
       THEN /\ answered' = [answered EXCEPT ![exec[f].trig] = script[f].trig]
            /\ Idle(f)
       ELSE UNCHANGED <<answered, exec>>
    /\ UNCHANGED <<nodeVars, world, agentUp, inbox, made, acked, serviceVars, panicked>>

\* The script's function returns.  Whatever it returns is marshalled and
\* sent, unless Execute has given up this run.
ScriptReturns(f) ==
    /\ Running(f) /\ f \in V8Funcs
    /\ script' = [script EXCEPT ![f] = NoRun]
    /\ IF exec[f] = [trig |-> script[f].trig, pc |-> "running"]
       THEN /\ answered' = [answered EXCEPT ![exec[f].trig] = script[f].trig]
            /\ Idle(f)
       ELSE UNCHANGED <<answered, exec>>
    /\ UNCHANGED <<nodeVars, world, agentUp, inbox, made, acked, serviceVars, panicked>>

\* It throws, or returns what cannot be marshalled: no answer is sent.
ScriptThrows(f) ==
    /\ "throw" \in world.env
    /\ Running(f) /\ f \in V8Funcs
    /\ script' = [script EXCEPT ![f] = NoRun]
    /\ IF exec[f] = [trig |-> script[f].trig, pc |-> "running"]
       THEN Idle(f)
       ELSE UNCHANGED exec
    /\ UNCHANGED <<nodeVars, world, agentUp, inbox, answered, made, acked, serviceVars,
                   panicked>>

\* stdOutBuf.Write keeps the last write only.
WasmWrites(f) ==
    /\ Running(f) /\ f \notin V8Funcs
    /\ \E p \in {<<>>, <<1>>} : script' = [script EXCEPT ![f].out = p]
    /\ UNCHANGED <<nodeVars, world, agentUp, inbox, exec, answered, made, acked,
                   serviceVars, panicked>>

\* InstantiateModule returns.  A module that calls proc_exit fails whatever
\* its code, and an empty output is not sent.
WasmExits(f) ==
    /\ Running(f) /\ f \notin V8Funcs
    /\ \E how \in {"return", "proc_exit", "trap"} :
          answered' = IF how = "return" /\ script[f].out # <<>>
                      THEN [answered EXCEPT ![exec[f].trig] = script[f].trig]
                      ELSE answered
    /\ script' = [script EXCEPT ![f] = NoRun]
    /\ Idle(f)
    /\ UNCHANGED <<nodeVars, world, agentUp, inbox, made, acked, serviceVars, panicked>>

(***************************************************************************)
(* The agent: calls of host services.                                      *)
(***************************************************************************)

\* The call f's code makes next.
Makes(f, c) ==
    /\ Running(f) /\ f \in V8Funcs
    /\ made[f] < Len(world.code[f])
    /\ c = world.code[f][made[f] + 1]
    /\ made' = [made EXCEPT ![f] = @ + 1]

Writes(c) == c.svc = "kv" /\ c.method \in {"set", "delete"}

\* The arguments are not what the function needs: it throws at once.
HostCallThrows(f, c) ==
    /\ Makes(f, c)
    /\ Throws(c)
    /\ UNCHANGED <<nodeVars, world, agentUp, inbox, exec, script, answered, acked,
                   serviceVars, panicked>>

\* PerformRPC sends the request and waits.
HostCall(f, c) ==
    /\ Makes(f, c)
    /\ ~Throws(c)
    /\ rpc' = Append(rpc, [func |-> f, id |-> made[f] + 1,
                           call |-> [c EXCEPT !.data = MarshalValue(c.data)]])
    /\ script' = [script EXCEPT ![f].pc = "waiting", ![f].call = c]
    /\ acked' = [acked EXCEPT ![f] = IF Writes(c) THEN None ELSE @]
    /\ UNCHANGED <<nodeVars, world, agentUp, inbox, exec, answered, serving, reply,
                   kv, obj, panicked>>

Resume(f) == script' = [script EXCEPT ![f].pc = "running", ![f].call = None]

\* The answer arrives in time.  A script that gets an exception may catch it.
CallReturns(f) ==
    /\ script[f].pc = "waiting"
    /\ reply[f] # None
    /\ LET c == script[f].call
       IN  acked' = [acked EXCEPT ![f] =
               IF c.svc = "kv" /\ c.method = "set" /\ ScriptResult(c, reply[f]) # None
               THEN [key |-> c.key, data |-> c.data] ELSE @]
    /\ Resume(f)
    /\ reply' = [reply EXCEPT ![f] = None]
    /\ UNCHANGED <<nodeVars, world, agentUp, inbox, exec, answered, made, rpc, serving,
                   kv, obj, panicked>>

\* It does not come within two seconds: the script gets an exception, the
\* request stays where it is.
CallTimesOut(f) ==
    /\ "timeout" \in world.env
    /\ script[f].pc = "waiting"
    /\ Resume(f)
    /\ reply' = [reply EXCEPT ![f] = None]
    /\ UNCHANGED <<nodeVars, world, agentUp, inbox, exec, answered, made, acked, rpc,
                   serving, kv, obj, panicked>>

(***************************************************************************)
(* The node: handleRPC.                                                    *)
(***************************************************************************)

\* RespondMsg: an answer nobody waits for any more is dropped.
Respond(r, res) ==
    reply' = [reply EXCEPT ![r.func] =
        IF agentUp[r.func] /\ script[r.func].pc = "waiting" /\ made[r.func] = r.id
        THEN [code |-> res.code, data |-> res.data] ELSE @]

\* HostServices.init adds the services that are configured and enabled.
Added(svc) == world.config[svc] = "enabled"

\* Variant: requests are handled in goroutines of their own.
Takes_Concurrently(i) == i \in 1..Len(rpc) /\ serving = None /\ ~panicked

\* handleRPC takes the oldest request, when it has done with the last one.
Takes(i) == i = 1 /\ rpc # <<>> /\ serving = None /\ ~panicked

Without(i) == rpc' = [j \in 1..(Len(rpc) - 1) |-> IF j < i THEN rpc[j] ELSE rpc[j + 1]]

NoSuchService(i) ==
    /\ Takes(i)
    /\ ~Added(rpc[i].call.svc)
    /\ Respond(rpc[i], Fail(404, None))
    /\ Without(i)
    /\ UNCHANGED <<nodeVars, agentVars, serving, kv, obj, panicked>>

\* A request to the key-value service; JetStream may fail, before or in the
\* operation.
ServeKv(i) ==
    /\ Takes(i)
    /\ rpc[i].call.svc = "kv" /\ Added("kv")
    /\ LET b == KvBucket(rpc[i].func)
       IN  \E res \in {KvHandle(kv[b], rpc[i].call)} \cup
                      (IF "storeFails" \in world.env THEN {Fail(500, kv[b])} ELSE {}) :
             /\ kv' = [kv EXCEPT ![b] = res.bkt]
             /\ Respond(rpc[i], res)
    /\ Without(i)
    /\ UNCHANGED <<nodeVars, agentVars, serving, obj, panicked>>

ServeObjectStore(i) ==
    /\ Takes(i)
    /\ rpc[i].call.svc = "objectstore" /\ Added("objectstore")
    /\ LET b == ObjBucket(rpc[i].func)
       IN  \E res \in {ObjHandle(obj[b], rpc[i].call)} \cup
                      (IF "storeFails" \in world.env THEN {Fail(500, obj[b])} ELSE {}) :
             /\ obj' = [obj EXCEPT ![b] = res.bkt]
             /\ Respond(rpc[i], res)
    /\ Without(i)
    /\ UNCHANGED <<nodeVars, agentVars, serving, kv, panicked>>

\* g is subscribed to the subject (and the bound on messages is not reached).
Listens(g, subject) ==
    /\ Subject[g] = subject
    /\ ~draining[g]
    /\ \E t \in Triggers : requester[t] = "none"

\* A refusal, a publication, or a request that has no responders.
ServeMessaging(i) ==
    LET c == rpc[i].call
    IN  /\ Takes(i)
        /\ c.svc = "messaging" /\ Added("messaging")
        /\ \/ /\ MessagingRefusal(c) # None
              /\ Respond(rpc[i], MessagingRefusal(c))
              /\ UNCHANGED <<pending, requester>>
           \/ /\ MessagingRefusal(c) = None /\ c.method = "publish"
              /\ Respond(rpc[i], Pass(Json, None))
              /\ \/ \E g \in Funcs, t \in Triggers :
                       Listens(g, c.key) /\ Deliver(g, t, "nobody")
                 \/ /\ \A g \in Funcs : ~Listens(g, c.key)
                    /\ UNCHANGED <<pending, requester>>
           \/ /\ MessagingRefusal(c) = None /\ c.method = "request"
              /\ \A g \in Funcs : ~Listens(g, c.key)
              /\ Respond(rpc[i], Fail(500, None))
              /\ UNCHANGED <<pending, requester>>
        /\ Without(i)
        /\ UNCHANGED <<handler, reporting, deployed, draining, events, replied,
                       execTotal, agentVars, serving, kv, obj, panicked>>

\* A request to a function of this node: handleRPC waits for its answer.
AskFunction(i) ==
    LET c == rpc[i].call
    IN  /\ Takes(i)
        /\ c.svc = "messaging" /\ Added("messaging")
        /\ MessagingRefusal(c) = None /\ c.method = "request"
        /\ \E g \in Funcs, t \in Triggers :
              /\ Listens(g, c.key)
              /\ Deliver(g, t, "host")
              /\ serving' = [req |-> rpc[i], trig |-> t]
        /\ Without(i)
        /\ UNCHANGED <<handler, reporting, deployed, draining, events, replied,
                       execTotal, agentVars, reply, kv, obj, panicked>>

\* A request to a web server: handleRPC waits for it.
AskWeb(i) ==
    LET c == rpc[i].call
    IN  /\ Takes(i)
        /\ c.svc = "http" /\ Added("http")
        /\ IF HttpRefusal(c) = None
           THEN serving' = [req |-> rpc[i], trig |-> None] /\ UNCHANGED reply
           ELSE Respond(rpc[i], HttpRefusal(c)) /\ UNCHANGED serving
        /\ Without(i)
        /\ UNCHANGED <<nodeVars, agentVars, kv, obj, panicked>>

\* The function asked has answered.
FunctionAnswers ==
    /\ ~panicked
    /\ serving # None
    /\ serving.trig # None /\ replied[serving.trig] # None
    /\ Respond(serving.req, Pass(Json, None))
    /\ serving' = None
    /\ UNCHANGED <<nodeVars, agentVars, rpc, kv, obj, panicked>>

\* Variant: the wait for a function has no deadline.
AskTimesOut_Never ==
    /\ FALSE
    /\ UNCHANGED vars

\* RequestTimeoutMs is over.
AskTimesOut ==
    /\ "timeout" \in world.env
    /\ ~panicked
    /\ serving # None /\ serving.trig # None
    /\ Respond(serving.req, Fail(500, None))
    /\ serving' = None
    /\ UNCHANGED <<nodeVars, agentVars, rpc, kv, obj, panicked>>

\* The web server's answer is read, or HTTPClient gives up.
WebAnswers ==
    /\ ~panicked
    /\ serving # None /\ serving.trig = None
    /\ \/ \E w \in WebResponses \ {"badGzip"} :
             /\ Respond(serving.req, HttpResult(w))
             /\ serving' = None
             /\ UNCHANGED <<nodeVars, agentVars, rpc, kv, obj, panicked>>
       \/ /\ "badGzip" \in world.env
          /\ HttpResult("badGzip") = None
          /\ Crash

(***************************************************************************)
(* The specification.                                                      *)
(***************************************************************************)
NodeStep(f) ==
    \/ RunTrigger(f)
    \/ RunTriggerReturns(f)
    \/ RunTriggerTimesOut(f)
    \/ Report(f)

ScriptStep(f) ==
    \/ ScriptReturns(f)
    \/ ScriptThrows(f)
    \/ WasmWrites(f)
    \/ WasmExits(f)
    \/ \E i \in 1..Len(world.code[f]) :
          HostCall(f, world.code[f][i]) \/ HostCallThrows(f, world.code[f][i])

ServerStep ==
    \/ \E i \in 1..Len(rpc) :
          \/ NoSuchService(i)
          \/ ServeKv(i)
          \/ ServeObjectStore(i)
          \/ ServeMessaging(i)
          \/ AskFunction(i)
          \/ AskWeb(i)
    \/ FunctionAnswers
    \/ AskTimesOut
    \/ WebAnswers

Next ==
    \/ \E f \in Funcs :
          \/ \E t \in Triggers : TriggerArrives(f, t)
          \/ NodeStep(f)
          \/ StopDrains(f)
          \/ StopProcess(f)
          \/ ExecBegins(f)
          \/ RunStarts(f)
          \/ ExecTimesOut(f)
          \/ ScriptStep(f)
          \/ CallReturns(f)
          \/ CallTimesOut(f)
    \/ ServerStep

Spec == Init /\ [][Next]_vars

\* The node's and the agents' goroutines run, and their timers fire.  Nothing
\* is assumed of scripts, modules, web servers and clients.
Fairness ==
    /\ \A f \in Funcs :
          /\ WF_vars(RunTrigger(f))
          /\ WF_vars(RunTriggerReturns(f) \/ RunTriggerTimesOut(f))
          /\ WF_vars(Report(f))
          /\ WF_vars(CallReturns(f) \/ CallTimesOut(f))
    /\ WF_vars(FunctionAnswers \/ AskTimesOut)

FairSpec == Spec /\ Fairness

(***************************************************************************)
(* Properties.                                                             *)
(***************************************************************************)

\* The node reports a trigger once (publishFunctionExecSucceeded or -Failed),
\* and who sent it gets an answer only after a success was reported, however
\* the agent's answer and the ten seconds of RunTrigger fall together.
OneOutcome ==
    \A t \in Triggers :
        /\ Len(events[t]) <= 1
        /\ replied[t] # None => events[t] = <<"ok">>

\* The answer to a trigger is what the run for that trigger returned, never
\* the late result of a run that Execute gave up after five seconds.
AnswersOwnTrigger ==
    \A t \in Triggers : replied[t] \in {None, t}

\* f's bucket belongs to no other function.
Alone(f) == \A g \in Funcs \ {f} : KvBucket(g) # KvBucket(f)

\* Once hostServices.kv.set has returned to a function, the value (encoded as
\* marshalValue encodes it, so unchanged if its bytes are below 128) is in
\* its bucket until it writes again, and a get returns it: no set or delete
\* of an earlier call that timed out, and no call of another function, is
\* applied after it.
AcknowledgedSetStays ==
    \A f \in Funcs :
        acked[f] # None /\ Alone(f) =>
            /\ kv[KvBucket(f)] # None
            /\ kv[KvBucket(f)][acked[f].key] = MarshalValue(acked[f].data)
            /\ SevenBit(acked[f].data) =>
                  kv[KvBucket(f)][acked[f].key] = acked[f].data
            /\ LET c == script[f].call
               IN  script[f].pc = "waiting" /\ c.svc = "kv" /\ c.method = "get"
                      /\ c.key = acked[f].key /\ reply[f] # None /\ reply[f].code = 200
                   => ScriptResult(c, reply[f]) = MarshalValue(acked[f].data)

\* A trigger does not bring the node down unless its workload was removed
\* while it was under way (Lookup then returns nil in publishFunctionExec*)
\* or a web server's answer breaks HTTPClient.
CrashNeedsCause ==
    panicked => \/ \E f \in Funcs : ~deployed[f] /\ handler[f] # None
                \/ serving # None /\ serving.trig = None

\* Every trigger message is reported, though functions may run for ever, ask
\* themselves or each other and thereby wait for the one handleRPC.
TriggerEnds ==
    \A t \in Triggers : requester[t] # "none" ~> events[t] # <<>> \/ panicked

\* handleRPC gets rid of every request to a function.
ServiceRecovers ==
    (serving # None /\ serving.trig # None) ~> (serving = None \/ panicked)
=============================================================================
