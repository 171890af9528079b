---------------------------- MODULE HostServices ----------------------------
(***************************************************************************)
(* The host services of a node (host-services/, internal/node/services.go) *)
(* as operators: what each built-in service does with a request and the    *)
(* stores of a workload, and what its client in the agent makes of the     *)
(* answer.  FunctionHost composes them with the functions that call them.  *)
(*                                                                         *)
(* A call of a function is a record: the service and method it names, its  *)
(* first argument (key, object name, subject or url) and the bytes of its  *)
(* second one.  Data are sequences of bytes; Json stands for every         *)
(* document that only says that an operation succeeded.                    *)
(***************************************************************************)
EXTENDS Integers, Sequences, FiniteSets

CONSTANTS
    Funcs,      \* deployed functions, by workload id
    None,       \* nil
    Namespace,  \* the namespace of each, as the parts between underscores
    Name,       \* the workload name of each (^[a-z]+$: one part)
    Keys,       \* keys, object names and subjects used
    KvConfig,   \* the node's configuration of the kv service: fields that
    ObjConfig   \*   override the defaults, and of the object store

Json == <<123, 125>>

Services == {"kv", "objectstore", "messaging", "http"}

Methods ==
    [kv          |-> {"get", "set", "delete", "keys"},
     objectstore |-> {"get", "put", "delete", "list"},
     messaging   |-> {"publish", "request", "requestMany"},
     http        |-> {"get", "post", "put", "patch", "delete", "head"}]

(***************************************************************************)
(* Values that cross the border between a script and the host.             *)
(***************************************************************************)

\* One byte, made a character by String.fromCharCode and written as UTF-8
\* by []byte(v.String()).
Utf8(b) == IF b < 128 THEN <<b>> ELSE <<192 + (b \div 64), 128 + (b % 64)>>

\* marshalValue: a byte array as it is sent (at most two bytes here).
MarshalValue(v) ==
    CASE Len(v) = 0 -> <<>>
      [] Len(v) = 1 -> Utf8(v[1])
      [] OTHER      -> Utf8(v[1]) \o Utf8(v[2])

\* toUInt8ArrayValue copies byte by byte.
ToUInt8Array(v) == [i \in 1..Len(v) |-> v[i] % 256]

SevenBit(v) == \A i \in 1..Len(v) : v[i] < 128

(***************************************************************************)
(* Buckets.                                                                *)
(***************************************************************************)

\* Initialize: the defaults, then what the configuration gives.
KvDefault == [bucket |-> <<"hs", "${namespace}", "${workload_name}", "kv">>,
              jit    |-> TRUE]

ObjDefault == [bucket |-> <<"hs", "${namespace}", "${workload_name}", "obj">>,
               jit    |-> TRUE]

Override(default, conf) ==
    [x \in DOMAIN default |-> IF x \in DOMAIN conf THEN conf[x] ELSE default[x]]

KvConf == Override(KvDefault, KvConfig)
ObjConf == Override(ObjDefault, ObjConfig)

\* The two regular expressions, applied one after the other.
Expand(part, f) ==
    CASE part = "${workload_name}" -> <<Name[f]>>
      [] part = "${namespace}"     -> Namespace[f]
      [] OTHER                     -> <<part>>

\* The name of f's bucket for a configured name of at most four parts.
BucketName(conf, f) ==
    LET P(i) == IF i \in DOMAIN conf.bucket THEN Expand(conf.bucket[i], f) ELSE <<>>
    IN  P(1) \o P(2) \o P(3) \o P(4)

KvBucket(f) == BucketName(KvConf, f)
ObjBucket(f) == BucketName(ObjConf, f)

Buckets == {KvBucket(f) : f \in Funcs} \cup {ObjBucket(f) : f \in Funcs}

(***************************************************************************)
(* Stores (external: JetStream).  A store maps a bucket to None while it   *)
(* does not exist, then to what is under every key; an object that was     *)
(* deleted leaves a marker.                                                *)
(***************************************************************************)
Deleted == <<-1>>

EmptyBucket == [k \in Keys |-> None]

Present(bkt) == {k \in Keys : bkt[k] \notin {None, Deleted}}

\* ServiceResultPass and ServiceResultFail with the bucket left behind.
Pass(data, bkt) == [code |-> 200, data |-> data, bkt |-> bkt]
Fail(code, bkt) == [code |-> code, data |-> <<>>, bkt |-> bkt]

\* resolveKeyValueStore, resolveObjectStore: the bucket to work on, created
\* just in time if the configuration allows it; None if there is none.
Resolve(conf, bkt) ==
    IF bkt = None /\ conf.jit THEN EmptyBucket ELSE bkt

\* What every handler of a store does first: resolve the bucket, then look
\* at the key.
WithKey(b, key, result) ==
    IF b = None THEN Fail(500, b) ELSE IF key = "" THEN Fail(400, b) ELSE result

KvGet(b, key) ==
    WithKey(b, key, IF b[key] = None THEN Fail(500, b) ELSE Pass(b[key], b))

KvSet(b, key, data) ==
    WithKey(b, key, Pass(Json, [b EXCEPT ![key] = data]))

\* Deleting a key that does not exist succeeds.
KvDelete(b, key) ==
    WithKey(b, key, Pass(Json, [b EXCEPT ![key] = None]))

\* Keys of an empty bucket is an error of the library.
ListOf(b) ==
    IF b = None \/ Present(b) = {} THEN Fail(500, b) ELSE Pass(Json, b)

\* ErrObjectNotFound is not the error handleGet compares with: never 404.
ObjGet(b, key) ==
    WithKey(b, key, IF b[key] \in {None, Deleted} THEN Fail(500, b) ELSE Pass(b[key], b))

ObjPut(b, key, data) ==
    WithKey(b, key, Pass(Json, [b EXCEPT ![key] = data]))

ObjDelete(b, key) ==
    WithKey(b, key, IF b[key] = None THEN Fail(500, b)
                    ELSE Pass(Json, [b EXCEPT ![key] = Deleted]))

\* KeyValueService.HandleRequest on the bucket bkt.
KvHandle(bkt, c) ==
    LET b == Resolve(KvConf, bkt)
    IN  CASE c.method = "get"    -> KvGet(b, c.key)
          [] c.method = "set"    -> KvSet(b, c.key, c.data)
          [] c.method = "delete" -> KvDelete(b, c.key)
          [] c.method = "keys"   -> ListOf(b)
          [] OTHER               -> Fail(400, bkt)

\* ObjectStoreService.HandleRequest on the bucket bkt.
ObjHandle(bkt, c) ==
    LET b == Resolve(ObjConf, bkt)
    IN  CASE c.method = "get"    -> ObjGet(b, c.key)
          [] c.method = "put"    -> ObjPut(b, c.key, c.data)
          [] c.method = "delete" -> ObjDelete(b, c.key)
          [] c.method = "list"   -> ListOf(b)
          [] OTHER               -> Fail(400, bkt)

(***************************************************************************)
(* Messaging and HTTP: what is answered without asking anyone.             *)
(***************************************************************************)

\* handlePublish, handleRequest and handleRequestMany before they use the
\* connection; None when they go on to it.
MessagingRefusal(c) ==
    CASE c.method \notin Methods.messaging          -> Fail(400, None)
      [] c.method = "publish" /\ c.key = ""         -> Fail(500, None)
      [] c.method # "publish" /\ c.key = ""         -> Fail(400, None)
      [] c.method = "requestMany"                   -> Fail(500, None)
      [] OTHER                                      -> None

\* handleHead answers code 200 without data to a url that does not parse,
\* the other http handlers 400.
HeadRefusal == Pass(<<>>, None)

HttpRefusal(c) ==
    CASE c.method \notin Methods.http         -> Fail(400, None)
      [] c.key = "" /\ c.method = "head"      -> HeadRefusal
      [] c.key = "" /\ c.method # "head"      -> Fail(400, None)
      [] OTHER                                -> None

\* The responses of a web server as HTTPClient.handleResponse sees them.
WebResponses == {"plain", "error", "badGzip"}

\* handleResponse and the end of the six http handlers: any status is a
\* success of the service, a failed request (or one that took longer than
\* 2.5 s) is not.  A body that is not what Content-Encoding: gzip says
\* leaves a nil reader, which is then used.
HttpResult(w) ==
    CASE w = "plain"   -> Pass(Json, None)
      [] w = "error"   -> Fail(500, None)
      [] w = "badGzip" -> None

(***************************************************************************)
(* The agent's side: BuiltinServicesClient and the functions of a script.  *)
(***************************************************************************)

\* json.Unmarshal of the data of an answer.
Unmarshal(r) == IF r.data = <<>> THEN None ELSE Json

\* The methods of BuiltinServicesClient: what they make of an answer, None if
\* they return an error.
KvClient(c, r) ==
    CASE r.code # 200      -> None
      [] c.method = "get"  -> r.data
      [] OTHER             -> Unmarshal(r)

MessagingClient(c, r) ==
    CASE r.code # 200          -> None
      [] c.method = "request"  -> r.data
      [] OTHER                 -> Unmarshal(r)

ObjectStoreClient(c, r) ==
    CASE r.code # 200      -> None
      [] c.method = "get"  -> r.data
      [] OTHER             -> Unmarshal(r)

HttpClient(c, r) == IF r.code # 200 THEN None ELSE Unmarshal(r)

\* The functions of the objects hostServices.kv, .messaging, .objectStore and
\* .http: the calls that throw before anything is sent (http: a url that does
\* not parse), and what the others return of an answer; None is an exception.
KvThrows(c) ==
    \/ c.method \in {"get", "delete"} /\ c.args = "missing"
    \/ c.method = "set" /\ c.args # "ok"

MessagingThrows(c) == c.args # "ok" \/ c.method = "requestMany"

ObjectStoreThrows(c) ==
    \/ c.method \in {"get", "delete"} /\ c.args = "missing"
    \/ c.method = "put" /\ c.args # "ok"

HttpThrows(c) == c.args # "ok" \/ c.key = ""

Throws(c) ==
    CASE c.svc = "kv"          -> KvThrows(c)
      [] c.svc = "messaging"   -> MessagingThrows(c)
      [] c.svc = "objectstore" -> ObjectStoreThrows(c)
      [] c.svc = "http"        -> HttpThrows(c)

Returns(c, r) ==
    CASE c.svc = "kv"          -> KvClient(c, r)
      [] c.svc = "messaging"   -> MessagingClient(c, r)
      [] c.svc = "objectstore" -> ObjectStoreClient(c, r)
      [] c.svc = "http"        -> HttpClient(c, r)

\* What the script gets of an answer.
ScriptResult(c, r) ==
    LET x == Returns(c, r) IN IF x = None THEN None ELSE ToUInt8Array(x)
=============================================================================
