--------------------------- MODULE MCFunctionHost ---------------------------
(* An instance of FunctionHost for TLC: a script f1 that uses the stores    *)
(* and asks f2, a script f2 that uses the other services, a Wasm module f3. *)
EXTENDS FunctionHost, TLC

CONSTANTS f1, f2, f3

MCNamespace == (f1 :> <<"a">>) @@ (f2 :> <<"a", "b">>) @@ (f3 :> <<"a">>)
MCName == (f1 :> "x") @@ (f2 :> "x") @@ (f3 :> "y")
MCSubject == (f1 :> "s1") @@ (f2 :> "s2") @@ (f3 :> "s3")

C(svc, method, key, data, args) ==
    [svc |-> svc, method |-> method, key |-> key, data |-> data, args |-> args]

Set(k, v) == C("kv", "set", k, v, "ok")
Kv(method, k) == C("kv", method, k, <<>>, "ok")
Obj(method, k) == C("objectstore", method, k, <<7>>, "ok")
Ask(s) == C("messaging", "request", s, <<7>>, "ok")
Web(method, u) == C("http", method, u, <<7>>, "ok")

\* f3 is a Wasm module.
W(p1, p2, clients, stops, env) ==
    [code |-> (f1 :> p1) @@ (f2 :> p2) @@ (f3 :> <<>>),
     clients |-> clients, stops |-> stops, env |-> {"timeout"} \cup env,
     config |-> [s \in Services |-> "enabled"]]

MCWorlds ==
    {\* sets that time out, two functions with buckets of their own
     W(<<Set("k", <<65>>), Set("k", <<200>>)>>, <<Set("k", <<66>>)>>, {f1, f2}, {}, {}),
     W(<<Set("k", <<65>>), Kv("delete", "k"), Set("k", <<1, 255>>)>>, <<>>, {f1}, {}, {"storeFails"}),
     W(<<Kv("keys", ""), Set("k", <<9>>), Kv("get", "k")>>, <<>>, {f1}, {f1}, {"throw"}),
     \* calls that are refused
     W(<<Set("", <<65>>), C("kv", "set", "k", <<65>>, "missing"),
         C("kv", "set", "k", <<>>, "notBytes")>>,
       <<>>, {f1}, {}, {}),
     [W(<<Obj("get", "k"), Web("get", "u")>>, <<>>, {f1}, {}, {})
         EXCEPT !.config.objectstore = "disabled", !.config.http = "absent"],
     W(<<Obj("put", "k"), Obj("delete", "k"), Obj("delete", "k")>>, <<>>, {f1}, {}, {"storeFails"}),
     \* functions that ask each other and themselves
     W(<<Ask("s2")>>, <<Kv("get", "k")>>, {f1}, {f2}, {"throw"}),
     W(<<Ask("s1"), Ask("")>>, <<>>, {f1}, {f1}, {}),
     W(<<Ask("s3"), C("messaging", "publish", "s3", <<7>>, "ok")>>, <<>>, {f1, f3}, {f3}, {}),
     W(<<C("messaging", "publish", "nobody", <<7>>, "ok"), Ask("nobody")>>, <<>>, {f1}, {}, {}),
     \* web servers
     W(<<Web("get", "u"), Web("head", "")>>, <<Web("post", "u")>>, {f1, f2}, {}, {"badGzip"})}

NoOverride == [x \in {} |-> 0]
=============================================================================
