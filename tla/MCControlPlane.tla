--------------------------- MODULE MCControlPlane ---------------------------
(***************************************************************************)
(* ControlPlane on a small instance: two users, three agent processes, and *)
(* a clock of two seconds.                                                 *)
(***************************************************************************)
EXTENDS ControlPlane, TLC

CONSTANTS alice, bob

J(name, type, triggers, essential, issuer) ==
    [name |-> name, ns |-> "default", issuer |-> issuer, type |-> type,
     triggers |-> triggers, essential |-> essential, claims |-> TRUE,
     sealed |-> "node", found |-> TRUE]

svc      == J("svc", "elf", FALSE, FALSE, "me")
essSvc   == J("svc", "elf", FALSE, TRUE, "me")
otherNs  == [svc EXCEPT !.ns = "other"]
fn       == J("fn", "v8", TRUE, FALSE, "me")
essFn    == J("fn", "v8", TRUE, TRUE, "me")
bareJs   == J("fn", "v8", FALSE, FALSE, "me")
bareWasm == J("fn", "wasm", FALSE, FALSE, "me")
badType  == J("svc", "oci", FALSE, FALSE, "me")
badTrig  == J("svc", "elf", TRUE, FALSE, "me")
badEnv   == [svc EXCEPT !.sealed = "other"]
badJwt   == [svc EXCEPT !.claims = FALSE]
missing  == [svc EXCEPT !.found = FALSE]
stranger == J("svc", "elf", FALSE, FALSE, "stranger")
anySvc   == J("", "elf", FALSE, FALSE, "me")

MCJobs == {svc, essSvc, otherNs, fn, essFn, bareJs, bareWasm, badType, badTrig,
           badEnv, badJwt, missing, stranger, anySvc}

Op(op, j) == [op |-> op, job |-> j]

W(a, b, faults, seconds) ==
    [ops |-> (alice :> a @@ bob :> b), faults |-> faults, seconds |-> seconds]

MCWorlds == {
    \* An essential workload that crashes, while another user deploys.
    W(<<Op("run", essSvc)>>, <<Op("run", fn)>>, {"crash", "clientTimeout"}, 0),
    \* It is stopped while it crashes or exits.
    W(<<Op("run", essSvc)>>, <<Op("stop", essSvc)>>, {"crash"}, 1),
    W(<<Op("run", svc)>>, <<Op("stop", svc), Op("list", anySvc)>>, {"exit", "killFails"}, 1),
    \* Lame duck mode amid deployments and a crash.
    W(<<Op("run", essSvc), Op("run", fn)>>, <<Op("lameduck", svc)>>, {"crash"}, 0),
    W(<<Op("lameduck", svc), Op("run", svc)>>, <<Op("run", fn), Op("lameduck", svc)>>, {}, 0),
    W(<<Op("lameduck", svc), Op("stop", svc)>>, <<Op("run", svc), Op("lameduck", svc)>>,
      {"clientTimeout"}, 1),
    \* devrun over and over, with and without a user who stops things.
    W(<<Op("devrun", svc), Op("devrun", svc), Op("devrun", otherNs)>>, <<>>,
      {"agentTimeout", "killFails"}, 1),
    W(<<Op("devrun", svc), Op("devrun", svc)>>, <<Op("stop", svc)>>, {"exit"}, 1),
    W(<<Op("devrun", essSvc), Op("devrun", essSvc)>>, <<>>, {"crash"}, 1),
    \* devrun of an essential workload, or for another issuer, and then not.
    W(<<Op("devrun", essSvc), Op("devrun", svc)>>, <<>>, {"crash"}, 1),
    W(<<Op("devrun", stranger), Op("devrun", svc), Op("devrun", svc)>>, <<>>, {}, 1),
    \* Two users of the same name.
    W(<<Op("devrun", svc), Op("devrun", svc)>>, <<Op("devrun", svc)>>, {}, 1),
    \* Requests that are refused.
    W(<<Op("run", badType), Op("run", badTrig), Op("run", badEnv), Op("run", badJwt)>>,
      <<Op("run", essFn), Op("run", bareJs)>>, {"noAgent"}, 0),
    W(<<Op("run", missing), Op("run", stranger), Op("run", bareWasm)>>,
      <<Op("list", svc), Op("nodes", svc), Op("devrun", missing), Op("info", svc)>>, {"cacheFails", "noHandshake"}, 0),
    W(<<Op("run", essFn), Op("run", svc)>>, <<Op("stop", stranger), Op("stop", otherNs)>>, {}, 1),
    W(<<Op("run", svc), Op("run", essFn)>>, <<>>, {"agentTimeout", "killFails", "clientTimeout"}, 0)}
=============================================================================
