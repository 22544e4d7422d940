# Specifications of the VM lifecycle API

TLA+ models of the API in `app/`, of its arq worker and of the Terraform
provider in `terraform/provider-vmapi/`; TLC configurations that check them on
small instances; and TLAPS proofs for every instance. The system is a REST facade
over OpenStack: the hard part is not the requests but what is left when one of
them, or the job it started, stops half-way.

## 1. Inventory

| Part | State it keeps | Operations | What makes it correct |
|---|---|---|---|
| Request handlers (`services/_compute.py`, `endpoints/`) | none of their own | create, delete, resize, snapshot, power action, console; list and get | what the client is told agrees with what exists: server, task record, job |
| Jobs (`workers/`, `poll_until_active`, `do_delete`, `do_resize`) | loop counter, arq's job record | one function per operation, run by arq, repeated after a crash, cancelled at `job_timeout` | every accepted task is closed; success is written only for work that was done |
| Task store (`services/task_store.py`) | one Redis key per task, with a TTL | create, update (GET then SET), get | records follow pending → running → success or failed; error text exactly on failed ones |
| Service facade (`openstack_service.py`) | the SDK connection | opens it on first use, runs SDK calls in threads, translates exceptions, `healthcheck` | one connection per process; a failure to connect is reported while its cause lasts and not longer; a call that outlives its job does no harm |
| Exception mapping (`core/handlers.py`) | none | exception → HTTP status | clients can tell refusal from failure |
| Singletons (`api/deps.py`) | task store, arq pool, service of one process | built by the first requests | one service, complete, whatever the interleaving |
| Readiness (`endpoints/health.py`) | none | `/ready`, `/health` | 200 exactly when the cloud can be reached |
| Authentication (`api/oidc.py`) | none; Keycloak has the tokens | introspection, API key, role checks | served only if authorised at an instant of the request |
| Terraform provider (`resource_*.go`, `client.go`, `provider.go`) | Terraform's state file | Create, Read, Update, Delete, ImportState, WaitTask | no running server is forgotten silently |
| Nova, arq, Redis, Keycloak | outside the repository | | modelled as far as the code relies on them |
| Lists (`list_vms`, `list_flavors`, `list_images`, `schemas/common.py`) and data sources (`data_source_*.go`) | none; every page is cut from a list fetched for it | list with limit, offset and status filter; one page per data source block | pages read one after the other cover the list as far as it did not change |
| Request schemas | none | refuse a body (422), fail to convert a response | a refused request has no effect |
| Config, logging, middleware, application factory, scripts, containers, mock backend | none that matters here | | not modelled |

The parts interact so: an HTTP request resolves its dependencies (Deps), is
authenticated (Oidc), and its handler calls Nova and Redis, creates a task record
and enqueues a job in Redis. A worker process takes the job, updates the record
and calls Nova. Clients, Terraform among them, poll the record.

What is hard: every `await` lets other requests and jobs in; API and worker
processes die between any two of them; arq repeats and cancels jobs; an SDK call
in a thread survives the cancellation of its job, and may arrive after the next run of
it; any answer of Nova or Redis may
be lost after the work was done; the record's GET and SET are two commands and
its key expires; Nova changes a server's status on its own; the cloud comes and goes
under a connection made once; a list changes between two of its pages. `PROJECT.json` lists
these hazards line by line with the properties aimed at them.

## 2. Modules

| Module | Models |
|---|---|
| `Parameters` | constants of the core and their assumptions |
| `TaskLifecycle` | abstract specification: what `GET /tasks/{id}` promises about a record |
| `VmApi` | abstract specification: what the API promises its clients about servers and tasks together |
| `TaskStore` | `RedisTaskStore`; `update` is the two steps `StoreGet`, `StoreSet` |
| `Nova` | external: statuses, refusals and own progress of servers |
| `ComputeClient` | the core: handlers, jobs, arq, faults, over `TaskStore` and `Nova` |
| `ComputeClientProofs` | theorems about it: types, tasks and jobs |
| `TruthProofs` | theorems: what a task, an error and a refusal say of the servers |
| `LifecycleProofs`, `ApiProofs` | theorems: it implements `TaskLifecycle` and `VmApi` |
| `Terraform` | the provider, running against `VmApi` |
| `Deps` | one API process: its singletons, its OpenStack connection, its readiness probe |
| `Listing` | the list endpoints and a client that reads them page by page |
| `Oidc` | authentication with Keycloak changing meanwhile |
| `TerraformProofs`, `DepsProofs`, `ListingProofs`, `OidcProofs` | theorems about these four |
| `MC*` | symmetry sets for TLC |

### ComputeClient

`hpc[r]` is the handler of request `r` between two awaits, `jpc[r]` its job
function, `jst[r]` what arq knows of the job. The action names follow the code:

| Code | Actions |
|---|---|
| `create_vm` | `Receive`, `CreateServer`, `CreateTask`, `EnqueueJob` |
| `delete_vm`, `resize_vm` | `Receive`, `CheckVm`, `CreateTask`, `EnqueueJob` |
| `get_vm` | `Receive`, `CheckVm` |
| `perform_action`, `get_console_url` | `Receive`, (`CheckVm`,) `PowerAction` / `GetConsole` |
| `create_snapshot` | `Receive`, `CheckVm`, `CreateTask`, `CreateImage`, `SnapshotGet`, `SnapshotSet` |
| `poll_until_active` | `StartJob`, `JobGet`, `JobSet`, `PollSleep`, `Poll`, `PollTimesOut`, `FinishJob` |
| `do_delete` | `StartJob`, `JobGet`, `JobSet`, `DeleteServer`, `FinishJob` |
| `do_resize` | `StartJob`, `JobGet`, `JobSet`, `ResizeServer`, `ResizeWait`, `ConfirmResize`, `FinishJob` |
| arq | `StartJob` (max_jobs, max_tries), `GiveUp`, `ArqTimeout`, `WorkerCrash` |
| `asyncio.to_thread` of a run that is over | `CutShort`, `LateCall` |

The `Faults` constant switches the environment: `sdk` and `redis` let calls fail
before or after their work, `stall` lets calls take time, `worker_crash`,
`api_crash` kill processes, `expire` lets keys run out. Time is counted per job
in units of the poll interval (`age`), because only `job_timeout` and the loop
counter compare it.

A run that is cut short, by arq's `job_timeout` (`ArqTimeout`) or because the worker
dies or is shut down (`WorkerCrash`), leaves its SDK call behind in `late`, with the
number of the run: asyncio cannot cancel the thread, and a call that was sent reaches
Nova even if the process is gone. `LateCall` lets it arrive at any later time, or
never, whatever the job or its next runs have done by then.

`_enqueue_job`'s check for a missing pool is not in this module: `Deps` shows
(`ReadyIsComplete`) that no request gets that far without one.

### VmApi: one contract, implemented and used

`VmApi` says what a client can rely on. A call is accepted and gets a task; it does
its work at some time or never, its record is closed at some time or never; and a
record that reads success means: the created server has been ACTIVE (`up`), the
delete was accepted, the job saw Nova confirm a resize of the server
(`Accomplished`). A resize can take effect as long as its task does not read
success, and after that too if its job may be run again (`Pending`, `Resized`): the
second run asks Nova once more, and when a worker is shut down the call of the first
run goes on in its thread and may arrive after the second has written success. A
confirmation may concern the resize of another request (`Confirmed`), because the code
confirms whatever it finds after its five seconds.

`ComputeClient` implements it (`ImplementsApi`, under the mapping `Api`: a task is
its request, a flavor is the request that asked for it), and `Terraform` extends it
and runs against it. So the provider's properties do not rest on an API invented for
the purpose: every step of the code's API is a step Terraform's model allows.

`Rewrites` says whether something may still write to the record of a closed task. In
`ComputeClient` it is true exactly with worker crashes, Redis errors or expiry.
`CleanUpdateConverges` needs it false: otherwise a resize that is run again, or whose
first run had a call under way, takes effect over a later one, whose Update has already
reported success.

### Terraform

`vmapi_vm` and `vmapi_volume` have the same control line by line, so one set of
actions stands for both; `Volumes` says which resources are volumes, for which
the API has no route. `method[x]` and `pc[x]` give the CRUD method running and its
next request. `maker`, `reported` and `erred` are history: who made an object, which
objects a failed Create has shown to the user, and on which a method has failed. An
import is of a server that exists (`terraform import` names an id the user has seen)
and that no resource manages.
`CleanUpdateConverges` is about the servers no method has failed on: after a timed out
or failed Update an earlier resize may still take effect.

### Deps

Each instance is named after the request that built it. `get_task_store` is
synchronous, so FastAPI runs it in a thread and its check, assignment and return
are separate steps; `get_arq_pool` is cut at its await; `get_openstack_service` and
`_get_conn` have none and are one step each. A request then makes its calls one after
the other (`GetConn`, `Call`), or fails for want of a network (`NoNetwork`), and a probe
authorizes, while `cloud` and `token` change. `cloud` is up, down, or refusing:
reachable, but not with the API's credentials or configuration. `openstack.connect` may
raise for any of that, which is a 503, or put the login off to the first call. There
`_run` makes a `VMOperationError` (502) of whatever is neither a Conflict nor a
NotFound, a rejected request on a cloud that is up included, so a 502 says nothing
about the cloud and no property claims that it does. `seen[r]` records what the cloud
has been while the endpoint ran, so that the properties can speak of the whole duration
of a request.

### Listing

`items` is the list OpenStack holds, in its order; `Get` is one request. The three
lists differ where the code does: `list_vms` lets Nova filter and converts the slice,
`list_flavors` converts everything before slicing (one flavor that cannot be
converted fails every page), `list_images` leaves out what it cannot convert, then
slices. The client walks forward while `total` says there is more, or, like the
blocks of a Terraform configuration, reads given pages in any order. `kept`, `entered`
and `left` record how the list changed meanwhile, as the client sees it: with a
status filter a change of status is a coming or a going. Filters are written with
`Keep`, which gives each kept element its place by counting, where `SelectSeq` would
recurse: the provers have no induction over a sequence.

### Oidc

`seen[r]` records what the token has been at some instant since the request was sent.
The settings are chosen initially, all four combinations.

## 3. Runs

| Run | Question | Instance | Result |
|---|---|---|---|
| `contract` | is the contract kept, no task stranded but a create's, nothing left by a refusal, while requests contend? | 3 requests, all endpoints, 1 server, `sdk`, `api_crash`, `JobTimeout = 2` | holds |
| `failing_calls` | do answers and records stay truthful, and every open task tracked, when any call fails and records expire? | 2 requests, all endpoints, 2 servers, `sdk`, `redis`, `api_crash`, `expire`, `JobTimeout = 3` | holds |
| `progress` | is every accepted task concluded, and the contract kept, with crashes, repeated and cancelled jobs, calls that arrive after later runs, and one job slot? | 2 requests (create, delete, resize), 2 servers, `worker_crash`, `stall`, `JobTimeout = 2`, liveness | holds |
| `job_timeout` | is no task stranded with arq's default `job_timeout`? | 1 request, `JobTimeout = 2` | **violated** |
| `rerun` | are success and failed final across a worker restart? | 1 request | **violated** |
| `terraform_orphans` | does Terraform lose servers, or report a destroy that did not happen? | a VM and a volume, 2 servers, 2 tasks, everything may fail | holds |
| `terraform_converges` | does a clean Update converge, does every method return? | a VM, 1 server, 3 tasks, liveness | holds |
| `singletons` | do racing first requests get one complete service and one connection, and does a failure to connect end with its cause? | a request, a probe, a poll | holds |
| `pools` | is there one arq pool per process? | 2 requests | **violated** |
| `ready` | does a 200 from `/ready` mean that the cloud can be reached? | 1 probe | **violated** |
| `listing` | what does a client miss or see twice when the list changes under it? | 5 items, one of which cannot be converted, 3 changes | bounded by the changes |
| `revocation` | is a request served only if it was authorised at an instant of it, and refused for a reason? | 2 requests, 1 token | holds |

`AckedCompletes` lets a task end with a job that arq recorded as failed;
`OnlyCreatesStranded` of `contract` and `AckedTaskTracked` of `failing_calls` say when
that outcome is possible if the worker does not die or stall: at the shipped
`job_timeout` for a create that is cancelled, above it only after a Redis error.

Every property has a broken variant of one definition (the operators named
`Definition_Defect` next to it) under which TLC finds it violated.

### Bounds

Requests share nothing but servers, job slots and Nova, so two requests on two
servers show every pairwise race (`failing_calls`, `progress`). `contract` gives three
requests a single server, which none finds until one has created it: that is the
instance in which a create, a resize and a delete, or two resizes and a power action,
meet. `PollTimeout = 2` polls are enough to see, miss and time out;
`MaxTries = 2` gives a first run, a repetition and a give-up. `JobTimeout = 2`, equal
to `PollTimeout` (`contract`, `progress`, `job_timeout`), is how the code is deployed:
both are 300 s. There arq cancels every create before its loop runs out, so
`failing_calls`, which is to see `PollTimesOut`, uses 3, the least value above what a
job sleeps by its own limits (`SleepsUpTo`). One slot in `progress` keeps the runs of
its jobs apart; the calls they leave behind still overlap with them, and
`failing_calls` and `contract` let jobs run side by side.
The bound on time is the guard of the code itself: a job whose `age` reaches
`JobTimeout` can only be cancelled.
In `Terraform`, `Objects` bounds the creates and `Tasks` the accepted calls;
two of each allow a lost server and its replacement, and a late task of an
earlier method during a later one; three tasks a create and two resizes.
In `Listing` the page sizes 1 and 2 are valid, 0 and 3 stand for values out of range;
lists of up to five items take up to five pages, so that changes fall before, on and
behind the page boundary; two blocks are enough for an order to matter.
Symmetry is used for requests (and tasks, sizes, fresh objects) in safety runs
only.

`CHECK_DEADLOCK FALSE` in the `ComputeClient` configurations: a finite set of
requests, all answered, really is the end; likewise in `Listing`, where the client is
done. In `Deps` and `Terraform` something can always happen.

### Fairness

`ComputeClient` assumes weak fairness of each job's next step: the worker's event
loop resumes every coroutine that is ready, and arq polls its queue as long as a
worker runs. Clients, Nova, Redis and all faults have none. `Terraform` assumes
that a method that was called runs on: its HTTP client has a timeout, its sleeps
end. The API has no fairness there at all.

## 4. Findings

* `job_timeout`: `WorkerSettings` leaves arq's `job_timeout` at 300 s, equal to
  `POLL_TIMEOUT_SECONDS`. A VM that never becomes ACTIVE leaves its task running
  for good: the cancellation passes `except Exception` and the final update is
  not reached. Any `job_timeout` above `SleepsUpTo` works as long as calls are fast.
* `rerun`: a repeated job starts by writing RUNNING over a final status.
* `pools`: first requests that arrive together open one pool each.
* `ready`: `/ready` answers 200 whatever `healthcheck` returned, where its docstring
  and the endpoint table of the README promise 200 only when the cloud can be reached.

Seen on the way, without a run of their own:

* `get_console_url` translates no SDK exception (`GetConsole`), so the console of a
  stopped VM answers 500 on OpenStack, where the mock backend answers 409.
* The provider's `vmapi_volume` calls `/api/v1/volumes`, which the API does not
  serve (`Served`): every Create of a volume ends with an error.
* Once there is a connection, an unreachable cloud is a `VMOperationError` (502), like
  refused credentials or a rejected request, although `OpenStackConnectionError` is
  "Raised when the service cannot reach the OpenStack endpoint" (`core/exceptions.py`).
* A worker that is shut down, not only one that dies, leaves the SDK call of its job
  running while arq runs the job again, so a resize may arrive after its task read
  success and after a later resize (`LateCall`, `Pending`).
* The connection is made by the first call, not "once at startup"
  (`openstack_service.py`).
* `conn.authorize` uses a token it has: the probe reads ready through an outage until
  the token expires.
* The `status` filter of `GET /vms` is matched by Nova against its own statuses, so
  filtering by a status the API itself shows (BUILDING for BUILD) finds nothing.
* One flavor that cannot be converted makes every page of `/flavors` a 500
  (`ListFlavors`); an image is left out silently (`ListImages`).
* `core/config.py` says of `api_key` that when set "every request must carry" it, and
  to "Leave empty to disable"; a bearer token is accepted instead of it, and with
  neither configured every request is refused.

## 5. Proofs

Every invariant and every action property that a passing run checks is also a theorem,
as are the two refinements. They hold for all sets of requests, servers, tasks,
resources, tokens and items, all limits and, unless a theorem says otherwise, every
fault at once. The assumptions about the constants are the named `ASSUME`s of the
modules, which TLC evaluates in every run. Those that carry weight: Nova's ids are
never None (`NoServerAssumption`, likewise `NoneAssumption` of `Deps`), the bounds and
intervals are naturals. The order of `JobTimeout` and the code's own delays is not
assumed: `OnlyCreates` has `ResizeConfirmDelay < JobTimeout` (5 s and 300 s) as a
hypothesis, and no theorem needs a `job_timeout` other than the one deployed.

**Tasks and jobs** (`ComputeClientProofs`).

* `TypeCorrect`. The inductive invariant `TypeInv` adds to `TypeOK` that a request
  past `CreateServer` has a server, that the operation fits the handler's step, and
  that jobs belong to job operations; without it the steps that apply `srv` to `vm[r]`
  are not well typed.
* `FinishedJobs`: a job that returned has closed its task. By itself this says nothing
  about a job that is about to return. `TrackInv` adds where a job is relative to its
  updates: at `ret` the record is closed or gone (`Closed`), after the first update of
  a run the record is not pending (`Sequenced`), and a repeated run may meet a
  terminal record (`Retried`).
* `TasksAreTracked`, and from it `OnlyCreates` (in `TruthProofs`), which holds of the
  code as deployed. `ClockInv` relates `age` to the loop counter (`InTime`): without slow
  calls a job's age is at most what its own sleeps add up to (`SleepsUpTo`), so a job
  that is cancelled is one whose sleeps reach `job_timeout`.

Most steps concern one request; the lemma `Locality` reduces the others to the request
that moves.

**What a client is told** (`TruthProofs`). A task that reads success is believed long
after the job wrote it, while other requests act on the same server. `TruthInv` says
what a job knows at each of its steps (`JobAt`: from its first update to the last its
record does not read success, not even one left by an earlier run), what a call of a
run that is over may still find when it arrives (`LateAt`), what success stands for from
then on (`Worked`), and what Nova's records of a server have to do with one another
(`ServerFacts`). From it:

* `CreateSuccess`, `DeleteSuccess`, `ResizeSuccess`: success of a task is success in
  Nova. A resize is the delicate one, since `confirm` takes whatever it finds after
  five seconds: `Worked` says that the flavor is one that was asked for and that the
  resize under way, if any, is another request's.
* `Refusals`: a request answered 404, 409 or 422 has left no task, no job and no new
  server.
* `Errors`: a failed record carries an error text and, without worker crashes, only a
  failed one does. `update()` keeps a text it has read, so `ErrorInv` has to say that
  only a run after a failed one reads one.
* `NoOrphans`: a server that was made has a job, or a client who was not told of
  success.

**Refinements.** `LifecycleProofs` proves `ImplementsLifecycle` assuming `Calm` (no
worker crashes, Redis errors or expiry; the run `rerun` shows that the first exclusion
is needed): `RecordInv` ties each record's status and error to the job's next write,
so that every `StoreSet` is a step of the lifecycle. `ClosedTasksStayClosed` is the
property that `rerun` refutes, true under `Calm`. `ApiProofs` proves `ApiImplemented`,
under every fault: first what a client sees of one server (`ServerView`) and of one
task (`TaskView`), then, action by action, which step of `VmApi` it is or that it is
none. A write of SUCCESS is `VmApi`'s conclusion of a task because of `Worked`; a
write over a closed task is allowed only when `Rewrites`, which is where `RecordInv`
enters.

**The provider** (`TerraformProofs`), against any API that keeps the contract.

* `TypeCorrect` from `TypeInv`: what each method works with at each request
  (`MethodAt`).
* `Bounded`: `WaitTask` ends, at most one interval and one HTTP timeout past its
  deadline.
* `NothingForgotten`, `DestroyTells`. `StateInv` adds that the task a method polls is
  that of the call it made (`KnownAt`), that a closed task speaks the truth
  (`TrueTask`), and that a server is in the state, reported, or its Create is still at
  work on it (`Remembered`).
* `UpdateConverges`, if nobody else changes servers and nothing rewrites closed
  records. `SizeInv`: no two resources manage a server, a resize that can still take
  effect is that of an Update under way (`PendingAt`), and the state tells the size
  unless one is (`SizeAt`).

**One API process** (`DepsProofs`): `Connections`, `Dependencies`, `Unavailable`, for
any number of first requests that race. `WiringInv` follows what each request has received
from its dependencies (`LocalsOK`), the globals that are set for good (`GlobalsOK`),
and what it has seen of the cloud (`AnswerOK`).

**Authentication** (`OidcProofs`): `Served`, `TurnedAway`. `CallerInv` says that the
history of a request holds what its token is now (`Watched`), and that the principal
is what an active token said at some instant (`Principal`).

**Listing** (`ListingProofs`): `WalkMisses`, `WalkRepeats`, `BlocksPartition`, for
lists, page sizes and numbers of changes of any size. An element of a filtered list
stands at its rank, the number of wanted elements up to it (`KeepProperties`). Two
lists that have what they share in one order keep it when they are filtered, and the
one that holds more has it further back (`KeepGrows`). So one coming pushes at most
one item over the border between the pages read and those to come, and one going pulls
at most one (`PushedOut`, `OneChange`). `WalkInv` counts them at that border: missed
so far is at most `left`, repeated so far plus what will repeat is at most `entered`.
For the blocks, `BlocksInv` says that as long as the counters are zero the pages read
are pages of one list.

Inductive invariants were checked with TLC on small instances before they were proved.
The proofs corrected the models in three places: `erred` is about servers, because a
resize that outlives its failed Update meets the server again under whatever resource
manages it then; Terraform could import a server that did not exist yet; and `Get` of
`Listing` left open which of two applicable cases a request with an invalid limit
takes.

Only model-checked: liveness (`AckedCompletes`, `MethodsReturn`), which needs fairness
and ENABLED, out of the prover's reach; and the four properties that the code does not
have, where TLC gives the counterexample.

## 6. Abstractions

Names, payloads, timestamps, error texts and results are left out; an error text
is present or not. A task is named after its request (`uuid4` makes it fresh).
A flavor is known by the request that asked for it (`flavor` in `Nova`), and is a
member of `Sizes` in `Terraform`. A soft reboot with `reboot_type` HARD is the
`hard_reboot` action. `create_vm` with and without a network id are both
possible when no default is configured. In `Terraform` the resource attributes
besides the size are copied without effect on control. In `ComputeClient` a server's
details can always be converted; that a conversion raises is in `Listing`. `offset` is
a multiple of the limit in `Listing`, as in a client that pages; the name filter,
which Nova matches as a pattern, behaves like the status filter.

## 7. Not modelled

Configuration loading (its values are constants of the modules), which field values a
schema accepts, logging and middleware, the application factory, scripts, container
and realm files: they keep no state that an operation depends on. The mock backend and
the tests were read as statements of intent. `list_all` of the task store is not
called.

## 8. Plan

Done: the core with its two refinements, the provider on the contract, one API process
with its connection and probe, listing, authentication, and the theorems about all of them.

Left, in this order:

1. The findings as theorems: what is true instead of the four violated properties,
   such as at most one pool per request that found none, or that a 200 from `/ready`
   comes with the outcome of a probe made during the request.
2. `ImplementsLifecycle` with expiry: a record that runs out is not rewritten as long as the
   worker lives.
3. Terraform's `UpdateConverges` after a failed method, once its earlier tasks are closed.
4. Request schemas: the validation of field combinations, as far as a handler depends on it.
