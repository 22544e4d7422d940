-------------------------------- MODULE Deps --------------------------------
(***************************************************************************)
(* One API process from its first requests on: how requests that arrive    *)
(* together come by the module-level singletons of deps.py (task store,    *)
(* arq pool, OpenStackService), how the service comes by its OpenStack     *)
(* connection, and what a request or a readiness probe is told while the   *)
(* cloud comes and goes, or lets the API in and refuses it.                *)
(*                                                                         *)
(* get_task_store is a plain function, which FastAPI runs in a thread, so  *)
(* two of them interleave anywhere.  get_arq_pool awaits the connection    *)
(* between its check and its assignment.  get_openstack_service and        *)
(* _get_conn have no await: on the event loop each is one step.            *)
(***************************************************************************)
CONSTANTS Requests,
          PollRequests,  \* GET /tasks/{id}: these need the task store only
          Probes,        \* GET /ready; the others make OpenStack calls
          RedisUrl,      \* whether REDIS_URL is configured
          None

ASSUME RequestsAssumption ==
  PollRequests \subseteq Requests /\ Probes \subseteq Requests \ PollRequests
ASSUME RedisUrlAssumption == RedisUrl \in BOOLEAN

\* An instance is named after the request that built it: none builds two.
VARIABLES pc,            \* pc[r]: where request r is
          taskStore,     \* _task_store_instance
          arqPool,       \* _arq_pool_instance
          service,       \* _service_instance, with the pool it was given
          got,           \* got[r]: the task store, pool and service r received
          pools,         \* the pools that were opened; none is ever closed
          conn,          \* conn[s]: _conn of the service built by s
          cloud,         \* how OpenStack takes a login
          token,         \* whether the connection holds a valid token
          resp,          \* resp[r]: the HTTP status, and the probe's `ready`
          seen           \* seen[r]: the values of cloud while r was at work there

globals == <<taskStore, arqPool, service, pools>>
openstack == <<conn, cloud, token>>
vars == <<pc, taskStore, arqPool, service, got, pools, conn, cloud, token,
          resp, seen>>

Instances == Requests \cup {None}
Services == [by : Requests, store : Instances, pool : Instances]
ASSUME NoneAssumption == None \notin Requests \cup Services

\* up: a login succeeds; refusing: OpenStack can be reached, but not with these
\* credentials or this configuration; down: it cannot be reached.
Clouds == {"up", "refusing", "down"}
Codes == {"none", "200", "404", "409", "500", "502", "503"}

Nothing == [store |-> None, pool |-> None, service |-> None]
NoAnswer == [code |-> "none", ready |-> FALSE]

TypeOK ==
  /\ pc \in [Requests -> {"store", "new_store", "return_store", "pool",
                          "connect", "service", "conn", "call", "done"}]
  /\ taskStore \in Instances
  /\ arqPool \in Instances
  /\ service \in Services \cup {None}
  /\ got \in [Requests -> [store : Instances, pool : Instances,
                           service : Services \cup {None}]]
  /\ pools \subseteq Requests
  /\ conn \in [Requests -> Instances]
  /\ cloud \in Clouds /\ token \in BOOLEAN
  /\ resp \in [Requests -> [code : Codes, ready : BOOLEAN]]
  /\ seen \in [Requests -> SUBSET Clouds]

Init ==
  /\ pc = [r \in Requests |-> "store"]
  /\ taskStore = None
  /\ arqPool = None
  /\ service = None
  /\ got = [r \in Requests |-> Nothing]
  /\ pools = {}
  /\ conn = [r \in Requests |-> None]
  /\ cloud \in Clouds
  /\ token = FALSE
  /\ resp = [r \in Requests |-> NoAnswer]
  /\ seen = [r \in Requests |-> {}]

-----------------------------------------------------------------------------
(* deps.py.                                                                *)

Goto(r, step) == pc' = [pc EXCEPT ![r] = step] /\ UNCHANGED resp

\* The request is over, and its locals with it.
Answer(r, code, ready) ==
  /\ pc' = [pc EXCEPT ![r] = "done"]
  /\ got' = [got EXCEPT ![r] = Nothing]
  /\ resp' = [resp EXCEPT ![r] = [code |-> code, ready |-> ready]]

\* get_task_store: the check; without REDIS_URL a ValueError, ...
StoreCheck(r) ==
  /\ pc[r] = "store"
  /\ IF taskStore = None /\ ~RedisUrl THEN Answer(r, "500", FALSE)
     ELSE /\ Goto(r, IF taskStore = None THEN "new_store" ELSE "return_store")
          /\ UNCHANGED got
  /\ UNCHANGED <<globals, openstack, seen>>

\* ... the assignment, ...
StoreAssign(r) ==
  /\ pc[r] = "new_store"
  /\ taskStore' = r
  /\ Goto(r, "return_store")
  /\ UNCHANGED <<arqPool, service, got, pools, openstack, seen>>

\* ... and the return, which reads the global again.
StoreReturn(r) ==
  /\ pc[r] = "return_store"
  /\ IF r \in PollRequests THEN Answer(r, "200", FALSE)
     ELSE Goto(r, "pool") /\ got' = [got EXCEPT ![r].store = taskStore]
  /\ UNCHANGED <<taskStore, arqPool, service, pools, openstack, seen>>

\* Broken variant: the connection is left to the background, not awaited.
PoolCheck_NotAwaited(r) ==
  /\ pc[r] = "pool"
  /\ got' = [got EXCEPT ![r].pool = arqPool]
  /\ Goto(r, "service")
  /\ UNCHANGED <<taskStore, arqPool, service, pools, openstack, seen>>

\* Broken variant: a marker is left in the global while the pool connects.
PoolCheck_Claimed(r) ==
  /\ pc[r] = "pool" /\ arqPool = None
  /\ arqPool' = "connecting"
  /\ Goto(r, "connect")
  /\ UNCHANGED <<taskStore, service, got, pools, openstack, seen>>

\* get_arq_pool: the check; the global is returned at once when it is set.
PoolCheck(r) ==
  /\ pc[r] = "pool"
  /\ \/ /\ arqPool = None
        /\ Goto(r, "connect")
        /\ UNCHANGED got
     \/ /\ arqPool # None
        /\ Goto(r, "service")
        /\ got' = [got EXCEPT ![r].pool = arqPool]
  /\ UNCHANGED <<taskStore, arqPool, service, pools, openstack, seen>>

\* `await create_pool`, and the assignment and return after it; connecting to
\* Redis may fail.
PoolAssign(r) ==
  /\ pc[r] = "connect"
  /\ \/ /\ arqPool' = r
        /\ pools' = pools \cup {r}
        /\ got' = [got EXCEPT ![r].pool = r]
        /\ Goto(r, "service")
     \/ /\ Answer(r, "500", FALSE)
        /\ UNCHANGED <<arqPool, pools>>
  /\ UNCHANGED <<taskStore, service, openstack, seen>>

\* Broken variant: the service is built without looking for one.
GetService_Unchecked(r) ==
  /\ pc[r] = "service"
  /\ service' = [by |-> r, store |-> got[r].store, pool |-> got[r].pool]
  /\ got' = [got EXCEPT ![r].service = service']
  /\ Goto(r, "conn")
  /\ seen' = [seen EXCEPT ![r] = {cloud}]
  /\ UNCHANGED <<taskStore, arqPool, pools, openstack>>

\* get_openstack_service
GetService(r) ==
  /\ pc[r] = "service"
  /\ service' = IF service # None THEN service
                ELSE [by |-> r, store |-> got[r].store, pool |-> got[r].pool]
  /\ got' = [got EXCEPT ![r].service = service']
  /\ Goto(r, "conn")
  /\ seen' = [seen EXCEPT ![r] = {cloud}]
  /\ UNCHANGED <<taskStore, arqPool, pools, openstack>>

-----------------------------------------------------------------------------
(* OpenStackService: the connection, a call, the readiness probe.          *)

\* _vm_api_error_handler and handle_domain_error answer alike.
StatusCode(exc) ==
  CASE exc = "OpenStackConnectionError" -> "503"
    [] exc = "VMOperationError" -> "502"

\* healthcheck swallows every exception, and ready() answers 200 either way.
Raise(r, exc) ==
  IF r \in Probes THEN Answer(r, "200", FALSE) ELSE Answer(r, StatusCode(exc), FALSE)

\* create_vm without a network of its own or a default one: no call is made.
NoNetwork(r) ==
  /\ pc[r] = "conn" /\ r \notin Probes
  /\ Raise(r, "VMOperationError")
  /\ UNCHANGED <<globals, openstack, seen>>

\* Broken variant: the failed attempt is kept, and taken for a connection.
GetConn_Kept(r) ==
  /\ pc[r] = "conn"
  /\ LET s == got[r].service.by IN
     /\ conn' = [conn EXCEPT ![s] = r]
     /\ \/ cloud = "up" /\ conn[s] = None /\ Goto(r, "call") /\ UNCHANGED got
        \/ /\ cloud # "up" \/ conn[s] # None
           /\ Raise(r, "OpenStackConnectionError")
  /\ UNCHANGED <<globals, cloud, token, seen>>

\* _get_conn.  openstack.connect raises, for whatever keeps it from a login, or
\* puts the login off to the first call.
GetConn(r) ==
  /\ pc[r] = "conn"
  /\ LET s == got[r].service.by IN
     \/ /\ conn' = [conn EXCEPT ![s] = IF @ = None THEN r ELSE @]
        /\ Goto(r, "call")
        /\ UNCHANGED got
     \/ /\ conn[s] = None /\ cloud # "up"
        /\ Raise(r, "OpenStackConnectionError")
        /\ UNCHANGED conn
  /\ UNCHANGED <<globals, cloud, token, seen>>

\* A call reaches the service it is for: the SDK logs in, or has a token.
LetIn == cloud = "up" \/ (token /\ cloud # "down")

\* _run: a call, in a thread.  The handler goes on to its next call or answers;
\* it answers a Conflict or NotFound, which reaches it as it is, with 409 or 404
\* or does not translate it.  Any other exception is a VMOperationError: nobody
\* was reached, the login or the request was refused, something broke.
Call(r) ==
  /\ pc[r] = "call" /\ r \notin Probes
  /\ \/ LetIn /\ Goto(r, "conn") /\ UNCHANGED got
     \/ LetIn /\ \E code \in {"200", "404", "409", "500"} : Answer(r, code, FALSE)
     \/ Raise(r, "VMOperationError")
  /\ token' \in {token, token \/ cloud = "up"}
  /\ UNCHANGED <<globals, conn, cloud, seen>>

\* healthcheck: conn.authorize, which is content with the token it has.
Authorize(r) ==
  /\ pc[r] = "call" /\ r \in Probes
  /\ \/ (token \/ cloud = "up") /\ Answer(r, "200", TRUE) /\ token' = TRUE
     \/ ~token /\ cloud # "up" /\ Raise(r, "VMOperationError") /\ UNCHANGED token
  /\ UNCHANGED <<globals, conn, cloud, seen>>

\* OpenStack goes down or comes back; the API's credentials are withdrawn,
\* locked or restored.
CloudChanges ==
  /\ \E c \in Clouds \ {cloud} :
       /\ cloud' = c
       /\ seen' = [r \in Requests |-> IF pc[r] \in {"conn", "call"}
                                     THEN seen[r] \cup {c} ELSE seen[r]]
  /\ UNCHANGED <<pc, globals, got, conn, token, resp>>

TokenExpires ==
  /\ token
  /\ token' = FALSE
  /\ UNCHANGED <<pc, globals, got, conn, cloud, resp, seen>>

Next ==
  \/ \E r \in Requests :
       \/ StoreCheck(r) \/ StoreAssign(r) \/ StoreReturn(r)
       \/ PoolCheck(r) \/ PoolAssign(r) \/ GetService(r)
       \/ NoNetwork(r) \/ GetConn(r) \/ Call(r) \/ Authorize(r)
  \/ CloudChanges
  \/ TokenExpires

Spec == Init /\ [][Next]_vars

-----------------------------------------------------------------------------
(* Properties.                                                             *)

\* Whatever the first requests race for, the process ends up with one OpenStack
\* connection, and every call is made on it ("a single openstack.Connection
\* object is created once", "the connection is not re-established on every
\* request").
OneConnection ==
  \A r, q \in Requests :
    /\ conn[r] # None /\ conn[q] # None => r = q
    /\ pc[r] = "call" => conn[got[r].service.by] # None

\* Every request that got past its dependencies has a task store, and a service
\* able to enqueue jobs: no interleaving of first requests builds the service
\* for good without a pool ("arq pool is not configured", _enqueue_job).
ReadyIsComplete ==
  \A r \in Requests :
    /\ pc[r] \in {"pool", "connect", "service"} => got[r].store # None
    /\ pc[r] \in {"conn", "call"} =>
         /\ got[r].service.store # None
         /\ got[r].service.pool \in pools

\* No failure to connect outlives its cause: a request told 503 ("Cannot reach
\* the OpenStack API. Check connectivity and credentials.") and a probe told "not
\* ready" were at work while a login could not succeed.  An attempt that failed is
\* not kept, and what is raised for one request is not another's.  A 502 says
\* nothing of the kind: any call may be refused.
UnavailableWasSo ==
  \A r \in Requests :
    \/ resp[r].code = "503"
    \/ r \in Probes /\ resp[r].code = "200" /\ ~resp[r].ready
    => \E c \in seen[r] : c # "up"

\* "Return the arq connection pool singleton", "one instance per worker
\* process": a process opens one pool.
OnePool == \A r, q \in pools : r = q

\* "readiness probe (200 only when the backend is reachable)", health.py: a
\* probe answered 200 was in progress while the cloud could be reached.
ReadyWhenReachable ==
  \A r \in Probes : resp[r].code = "200" => \E c \in seen[r] : c # "down"
=============================================================================
