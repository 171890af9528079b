--------------------------- MODULE WorkloadEvents ---------------------------
(***************************************************************************)
(* What a node may rely on in the events of an agent: for every deployment *)
(* at most one workload_started, then at most one workload_stopped, and    *)
(* the latter only when no process of the workload is left.  NexAgent      *)
(* implements this specification.                                          *)
(***************************************************************************)
CONSTANT Deploys

VARIABLES
    life,   \* what there is of a deployment's own process
    said    \* the events of a deployment, oldest first

vars == <<life, said>>

Sayings == {<<>>, <<"started">>, <<"stopped">>, <<"started", "stopped">>}

Init ==
    /\ life = [d \in Deploys |-> "none"]
    /\ said = [d \in Deploys |-> <<>>]

Begin(d) ==
    /\ life[d] = "none"
    /\ said[d] = <<>>
    /\ life' = [life EXCEPT ![d] = "alive"]
    /\ UNCHANGED said

End(d) ==
    /\ life[d] = "alive"
    /\ life' = [life EXCEPT ![d] = "over"]
    /\ UNCHANGED said

SayStarted(d) ==
    /\ said[d] = <<>>
    /\ said' = [said EXCEPT ![d] = <<"started">>]
    /\ UNCHANGED life

SayStopped(d) ==
    /\ said[d] \in {<<>>, <<"started">>}
    /\ life[d] # "alive"
    /\ said' = [said EXCEPT ![d] = IF said[d] = <<>> THEN <<"stopped">>
                                   ELSE <<"started", "stopped">>]
    /\ UNCHANGED life

Next ==
    \E d \in Deploys : Begin(d) \/ End(d) \/ SayStarted(d) \/ SayStopped(d)

Spec == Init /\ [][Next]_vars
=============================================================================
