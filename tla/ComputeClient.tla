--------------------------- MODULE ComputeClient ---------------------------
(***************************************************************************)
(* The VM operations from HTTP request to finished task: the handlers of   *)
(* ComputeClient running in the API processes, the arq jobs they enqueue   *)
(* running in the worker processes, the Redis task store both write to,    *)
(* and Nova.                                                               *)
(*                                                                         *)
(* Every `await` is a point where the others may step, so each handler and *)
(* each job is one action per awaited call.  A call that can fail has up   *)
(* to three outcomes: it answers, it raises having done nothing, or it     *)
(* raises having done its work (the answer was lost).                      *)
(*                                                                         *)
(* Time is kept per job, as arq does to enforce job_timeout: it passes in  *)
(* the code's own sleeps and, with the "stall" fault, in its calls.        *)
(***************************************************************************)
EXTENDS TaskStore, Nova, FiniteSets

VARIABLE op,       \* op[r]: the endpoint request r was sent to
         vm,       \* vm[r]: its vm_id; for create_vm the server made for it
         hpc,      \* hpc[r]: the handler's next step
         resp,     \* resp[r]: the HTTP status answered
         jst,      \* jst[r]: what arq knows of the job enqueued for r
         jpc,      \* jpc[r]: the job function's next step
         todo,     \* todo[r]: status the job is about to write, or wrote last
         elapsed,  \* elapsed[r]: the loop counter of poll_until_active
         age,      \* age[r]: time since arq started this run of the job
         tries,    \* tries[r]: arq's job_try
         late      \* SDK calls still under way whose run of the job is over

handler == <<op, vm, hpc, resp>>
worker == <<jst, jpc, todo, elapsed, age, tries, late>>
store == <<task, raw>>
vars == <<task, raw, srv, resizer, flavor, everActive, confirmed, op, vm, hpc, resp,
          jst, jpc, todo, elapsed, age, tries, late>>

HandlerSteps == {"idle", "create_server", "check", "task", "enqueue", "act",
                 "snap", "get", "set", "done"}
Codes == {"none", "200", "202", "404", "409", "422", "500", "502", "503"}
JobStates == {"none", "queued", "running", "ok", "raised", "timeout", "gave_up"}
SdkJobCalls == {"delete", "resize", "confirm"}
JobCalls == {"get", "set", "poll"} \cup SdkJobCalls
JobSteps == JobCalls \cup {"idle", "sleep", "wait", "ret"}

TypeOK ==
  /\ TaskStoreTypeOK
  /\ NovaTypeOK
  /\ op \in [Requests -> AllOperations \cup {"none"}]
  /\ vm \in [Requests -> Servers \cup {NoServer}]
  /\ hpc \in [Requests -> HandlerSteps]
  /\ resp \in [Requests -> Codes]
  /\ jst \in [Requests -> JobStates]
  /\ jpc \in [Requests -> JobSteps]
  /\ todo \in [Requests -> TaskStatus]
  /\ elapsed \in [Requests -> Nat]
  /\ age \in [Requests -> Nat]
  /\ tries \in [Requests -> 0 .. MaxTries]
  /\ late \subseteq Requests \X (0 .. MaxTries) \X SdkJobCalls

Init ==
  /\ TaskStoreInit
  /\ NovaInit
  /\ op = [r \in Requests |-> "none"]
  /\ vm = [r \in Requests |-> NoServer]
  /\ hpc = [r \in Requests |-> "idle"]
  /\ resp = [r \in Requests |-> "none"]
  /\ jst = [r \in Requests |-> "none"]
  /\ jpc = [r \in Requests |-> "idle"]
  /\ todo = [r \in Requests |-> "pending"]
  /\ elapsed = [r \in Requests |-> 0]
  /\ age = [r \in Requests |-> 0]
  /\ tries = [r \in Requests |-> 0]
  /\ late = {}

-----------------------------------------------------------------------------
(* Exceptions and HTTP statuses.                                           *)

\* Broken variant: a server that is being built is taken for ACTIVE.
MapState_BuildIsActive(status) == IF status = "BUILD" THEN "ACTIVE" ELSE status

\* _map_state: how a Nova status is shown to clients and to poll_until_active.
MapState(status) ==
  CASE status \in {"REBOOT", "HARD_REBOOT"} -> "REBOOT"
    [] status = "BUILD" -> "BUILDING"
    [] status \in {"ACTIVE", "SHUTOFF", "SUSPENDED", "ERROR", "RESIZE",
                   "VERIFY_RESIZE"} -> status
    [] OTHER -> "UNKNOWN"

\* handle_domain_error and the generic handler: SDK and Redis exceptions that
\* were not translated into a domain exception end as 500.
HttpStatus(exc) ==
  CASE exc = "VMNotFoundError" -> "404"
    [] exc = "InvalidVMStateError" -> "409"
    [] exc = "VMOperationError" -> "502"
    [] exc = "OpenStackConnectionError" -> "503"
    [] exc \in {"NotFoundException", "ConflictException", "RedisError"} -> "500"

\* _run: what a failing SDK call raises.  Without a connection nothing is sent;
\* any other exception may come before or after Nova did the work.
SdkErrors == {"OpenStackConnectionError", "VMOperationError"}
SdkMayFail == "sdk" \in Faults
RedisMayFail == "redis" \in Faults

\* A call that is refused because the server vanished or is in another state.
Refusal(s) == IF Visible(s) THEN "ConflictException" ELSE "NotFoundException"

Answer(r, code) ==
  /\ hpc' = [hpc EXCEPT ![r] = "done"]
  /\ resp' = [resp EXCEPT ![r] = code]

Fail(r, exc) == Answer(r, HttpStatus(exc))

Goto(r, step) ==
  /\ hpc' = [hpc EXCEPT ![r] = step]
  /\ UNCHANGED resp

-----------------------------------------------------------------------------
(* Request handlers (API processes).                                       *)

\* A request arrives; one its schema does not accept goes no further.  create_vm
\* needs a network id, its own or the default one; get_console_url goes to Nova
\* directly; the others look the VM up.
Receive(r) ==
  /\ hpc[r] = "idle"
  /\ \E o \in Operations :
       /\ op' = [op EXCEPT ![r] = o]
       /\ \/ /\ o \in WithBody
             /\ UNCHANGED vm
             /\ Answer(r, "422")
          \/ /\ o = "create_vm"
             /\ UNCHANGED vm
             /\ \/ Goto(r, "create_server")
                \/ ~DefaultNetwork /\ Fail(r, "VMOperationError")
          \/ /\ o # "create_vm"
             /\ \E s \in Servers : vm' = [vm EXCEPT ![r] = s]
             /\ Goto(r, IF o = "console" THEN "act" ELSE "check")
  /\ UNCHANGED <<store, nova, worker>>

\* await self.get_vm(vm_id), which is all there is to GET /vms/{vm_id}.
CheckVm(r) ==
  /\ hpc[r] = "check"
  /\ \/ /\ Visible(vm[r])
        /\ CASE op[r] = "get_vm" -> Answer(r, "200")
             [] op[r] = "action" -> Goto(r, "act")
             [] OTHER -> Goto(r, "task")
     \/ ~Visible(vm[r]) /\ Fail(r, "VMNotFoundError")
     \/ SdkMayFail /\ \E exc \in SdkErrors : Fail(r, exc)
  /\ UNCHANGED <<store, nova, op, vm, worker>>

\* create_vm: conn.compute.create_server
CreateServer(r) ==
  /\ hpc[r] = "create_server"
  /\ \/ /\ \E s \in Servers : NovaCreate(s) /\ vm' = [vm EXCEPT ![r] = s]
        /\ \/ Goto(r, "task")
           \/ SdkMayFail /\ Fail(r, "VMOperationError")
     \/ /\ SdkMayFail
        /\ \E exc \in SdkErrors : Fail(r, exc)
        /\ UNCHANGED <<nova, vm>>
  /\ UNCHANGED <<store, op, worker>>

\* task_store.create(...)
CreateTask(r) ==
  /\ hpc[r] = "task"
  /\ \/ /\ StoreCreate(r)
        /\ \/ Goto(r, IF op[r] \in JobOperations THEN "enqueue" ELSE "snap")
           \/ RedisMayFail /\ Fail(r, "RedisError")
     \/ RedisMayFail /\ Fail(r, "RedisError") /\ UNCHANGED store
  /\ UNCHANGED <<nova, op, vm, worker>>

\* Broken variant: a failing enqueue_job is answered with 202.
EnqueueJob_ErrorSwallowed(r) ==
  /\ hpc[r] = "enqueue"
  /\ \/ jst' = [jst EXCEPT ![r] = "queued"]
     \/ RedisMayFail /\ UNCHANGED jst
  /\ Answer(r, "202")
  /\ UNCHANGED <<store, nova, op, vm, jpc, todo, elapsed, age, tries, late>>

\* Broken variant: the handler returns its task without enqueueing the job.
EnqueueJob_Forgotten(r) ==
  /\ hpc[r] = "enqueue"
  /\ Answer(r, "202")
  /\ UNCHANGED <<store, nova, op, vm, worker>>

\* _enqueue_job, and the return of create_vm, delete_vm and resize_vm
EnqueueJob(r) ==
  /\ hpc[r] = "enqueue"
  /\ \/ /\ jst' = [jst EXCEPT ![r] = "queued"]
        /\ \/ Answer(r, "202")
           \/ RedisMayFail /\ Fail(r, "RedisError")
     \/ RedisMayFail /\ Fail(r, "RedisError") /\ UNCHANGED jst
  /\ UNCHANGED <<store, nova, op, vm, jpc, todo, elapsed, age, tries, late>>

\* perform_action after its get_vm: the status may have changed since.
PowerAction(r) ==
  /\ hpc[r] = "act" /\ op[r] = "action"
  /\ \E a \in PowerActions :
       \/ /\ NovaPower(vm[r], a)
          /\ Answer(r, "202") \/ (SdkMayFail /\ Fail(r, "VMOperationError"))
       \/ /\ ~Accepts(vm[r], a)
          /\ Fail(r, IF Visible(vm[r]) THEN "InvalidVMStateError"
                     ELSE "NotFoundException")
          /\ UNCHANGED nova
       \/ /\ SdkMayFail /\ \E exc \in SdkErrors : Fail(r, exc)
          /\ UNCHANGED nova
  /\ UNCHANGED <<store, op, vm, worker>>

\* get_console_url: no get_vm first, and no exception is translated.
GetConsole(r) ==
  /\ hpc[r] = "act" /\ op[r] = "console"
  /\ \/ Accepts(vm[r], "console") /\ Answer(r, "200")
     \/ ~Accepts(vm[r], "console") /\ Fail(r, Refusal(vm[r]))
     \/ SdkMayFail /\ \E exc \in SdkErrors : Fail(r, exc)
  /\ UNCHANGED <<store, nova, op, vm, worker>>

\* Broken variant: the Conflict is translated to InvalidVMStateError after the
\* task record was made.
CreateImage_Translated(r) ==
  /\ hpc[r] = "snap"
  /\ IF Accepts(vm[r], "image") THEN Goto(r, "get")
     ELSE Fail(r, "InvalidVMStateError")
  /\ UNCHANGED <<store, nova, op, vm, worker>>

\* create_snapshot: conn.compute.create_server_image.  The task record stays
\* as created when the call raises.
CreateImage(r) ==
  /\ hpc[r] = "snap"
  /\ \/ Accepts(vm[r], "image") /\ Goto(r, "get")
     \/ ~Accepts(vm[r], "image") /\ Fail(r, Refusal(vm[r]))
     \/ SdkMayFail /\ \E exc \in SdkErrors : Fail(r, exc)
  /\ UNCHANGED <<store, nova, op, vm, worker>>

\* create_snapshot: task_store.update(status=SUCCESS), then the return of the
\* task as it was created.
SnapshotGet(r) ==
  /\ hpc[r] = "get"
  /\ \/ /\ StoreGet(r)
        /\ IF Live(r) THEN Goto(r, "set") ELSE Answer(r, "202")
     \/ RedisMayFail /\ Fail(r, "RedisError") /\ UNCHANGED store
  /\ UNCHANGED <<nova, op, vm, worker>>

SnapshotSet(r) ==
  /\ hpc[r] = "set"
  /\ \/ /\ StoreSet(r, "success")
        /\ Answer(r, "202") \/ (RedisMayFail /\ Fail(r, "RedisError"))
     \/ RedisMayFail /\ Fail(r, "RedisError") /\ StoreDrop(r)
  /\ UNCHANGED <<nova, op, vm, worker>>

\* The API process dies before it has answered.
ApiCrash(r) ==
  /\ "api_crash" \in Faults
  /\ hpc[r] \notin {"idle", "done"}
  /\ hpc' = [hpc EXCEPT ![r] = "done"]
  /\ StoreDrop(r)
  /\ UNCHANGED <<nova, op, vm, resp, worker>>

-----------------------------------------------------------------------------
(* arq jobs (worker processes).                                            *)

\* arq enforces job_timeout with wait_for, whose clock starts before the job
\* function does: a job whose age reaches it is cancelled at its next await.
Alive(r) == jst[r] = "running" /\ age[r] < JobTimeout

Step(r, pc) ==
  /\ jpc' = [jpc EXCEPT ![r] = pc]
  /\ UNCHANGED <<jst, todo, elapsed, age, tries, late>>

\* Begin task_store.update(task_id, status=st, ...)
Write(r, st) ==
  /\ todo' = [todo EXCEPT ![r] = st]
  /\ jpc' = [jpc EXCEPT ![r] = "get"]
  /\ UNCHANGED <<jst, elapsed, age, tries, late>>

\* This run of the job is over, and its local variables with it.
EndRun(r, st) ==
  /\ jst' = [jst EXCEPT ![r] = st]
  /\ jpc' = [jpc EXCEPT ![r] = "idle"]
  /\ todo' = [todo EXCEPT ![r] = "pending"]
  /\ elapsed' = [elapsed EXCEPT ![r] = 0]
  /\ age' = [age EXCEPT ![r] = 0]
  /\ UNCHANGED tries

\* The job sleeps for d.  If job_timeout comes first, the sleep does not end.
Sleep(r, d, pc) ==
  /\ age' = [age EXCEPT ![r] = @ + d]
  /\ jpc' = [jpc EXCEPT ![r] = IF age[r] + d < JobTimeout THEN pc ELSE @]

\* Broken variant: jobs are retried without limit.
StartJob_NoLimit(r) ==
  /\ jst[r] = "queued"
  /\ jst' = [jst EXCEPT ![r] = "running"]
  /\ tries' = [tries EXCEPT ![r] = @ + 1]
  /\ todo' = [todo EXCEPT ![r] = "running"]
  /\ jpc' = [jpc EXCEPT ![r] = "get"]
  /\ UNCHANGED <<store, nova, handler, elapsed, age, late>>

\* arq starts a run of the job, the first one or a retry; every job function
\* begins by marking its task RUNNING.
StartJob(r) ==
  /\ jst[r] = "queued"
  /\ tries[r] < MaxTries
  /\ Cardinality({q \in Requests : jst[q] = "running"}) < MaxJobs
  /\ jst' = [jst EXCEPT ![r] = "running"]
  /\ tries' = [tries EXCEPT ![r] = @ + 1]
  /\ todo' = [todo EXCEPT ![r] = "running"]
  /\ jpc' = [jpc EXCEPT ![r] = "get"]
  /\ UNCHANGED <<store, nova, handler, elapsed, age, late>>

\* arq fails a job that was started max_tries times without running it.
GiveUp(r) ==
  /\ jst[r] = "queued"
  /\ tries[r] = MaxTries
  /\ jst' = [jst EXCEPT ![r] = "gave_up"]
  /\ UNCHANGED <<store, nova, handler, jpc, todo, elapsed, age, tries, late>>

\* What a job function does after marking its task RUNNING.
FirstStep(o) ==
  CASE o = "delete_vm" -> "delete"
    [] o = "resize_vm" -> "resize"
    [] OTHER -> "sleep"

\* Broken variant: no return after a FAILED update, the work is tried again.
AfterUpdate_NoReturn(r) ==
  IF todo[r] = "success" THEN "ret" ELSE FirstStep(op[r])

\* Where the job function continues once its update is done.
AfterUpdate(r) == IF todo[r] \in Terminal THEN "ret" ELSE FirstStep(op[r])

\* A Redis error inside an update.  do_delete and do_resize write SUCCESS
\* inside their try block, so there it leads to FAILED; anywhere else the
\* exception leaves the job function and arq records the job as failed.
UpdateRaises(r) ==
  /\ RedisMayFail
  /\ \/ /\ todo[r] = "success" /\ op[r] # "create_vm"
        /\ Write(r, "failed")
     \/ /\ todo[r] # "success" \/ op[r] = "create_vm"
        /\ EndRun(r, "raised")
        /\ UNCHANGED late

JobGet(r) ==
  /\ Alive(r) /\ jpc[r] = "get"
  /\ \/ /\ StoreGet(r)
        /\ Step(r, IF Live(r) THEN "set" ELSE AfterUpdate(r))
     \/ UpdateRaises(r) /\ UNCHANGED store
  /\ UNCHANGED <<nova, handler>>

JobSet(r) ==
  /\ Alive(r) /\ jpc[r] = "set"
  /\ \/ StoreSet(r, todo[r]) /\ (Step(r, AfterUpdate(r)) \/ UpdateRaises(r))
     \/ UpdateRaises(r) /\ StoreDrop(r)
  /\ UNCHANGED <<nova, handler>>

\* Broken variant: the loop does not count.
PollSleep_NotCounted(r) ==
  /\ Alive(r) /\ jpc[r] = "sleep"
  /\ elapsed[r] < PollTimeout
  /\ Sleep(r, PollInterval, "poll")
  /\ UNCHANGED <<store, nova, handler, jst, todo, elapsed, tries, late>>

\* poll_until_active: while elapsed < timeout: sleep, count ...
PollSleep(r) ==
  /\ Alive(r) /\ jpc[r] = "sleep"
  /\ elapsed[r] < PollTimeout
  /\ elapsed' = [elapsed EXCEPT ![r] = @ + PollInterval]
  /\ Sleep(r, PollInterval, "poll")
  /\ UNCHANGED <<store, nova, handler, jst, todo, tries, late>>

\* Broken variant: the loop is left when the VM cannot be found.
Poll_GoneReturns(r) ==
  /\ Alive(r) /\ jpc[r] = "poll"
  /\ LET state == MapState(srv[vm[r]].status) IN
     \/ Visible(vm[r]) /\ state = "ACTIVE" /\ Write(r, "success")
     \/ Visible(vm[r]) /\ state = "ERROR" /\ Write(r, "failed")
     \/ Visible(vm[r]) /\ state \notin {"ACTIVE", "ERROR"} /\ Step(r, "sleep")
     \/ ~Visible(vm[r]) /\ Step(r, "ret")
  /\ UNCHANGED <<store, nova, handler>>

\* ... get_vm, whose exceptions are swallowed ...
Poll(r) ==
  /\ Alive(r) /\ jpc[r] = "poll"
  /\ LET state == MapState(srv[vm[r]].status) IN
     \/ Visible(vm[r]) /\ state = "ACTIVE" /\ Write(r, "success")
     \/ Visible(vm[r]) /\ state = "ERROR" /\ Write(r, "failed")
     \/ Visible(vm[r]) /\ state \notin {"ACTIVE", "ERROR"} /\ Step(r, "sleep")
     \/ ~Visible(vm[r]) /\ Step(r, "sleep")
     \/ SdkMayFail /\ Step(r, "sleep")
  /\ UNCHANGED <<store, nova, handler>>

\* Broken variant: the loop runs out without an update.
PollTimesOut_Silent(r) ==
  /\ Alive(r) /\ jpc[r] = "sleep"
  /\ elapsed[r] >= PollTimeout
  /\ Step(r, "ret")
  /\ UNCHANGED <<store, nova, handler>>

\* ... and FAILED when the loop runs out.
PollTimesOut(r) ==
  /\ Alive(r) /\ jpc[r] = "sleep"
  /\ elapsed[r] >= PollTimeout
  /\ Write(r, "failed")
  /\ UNCHANGED <<store, nova, handler>>

\* Broken variant: SUCCESS is written whether or not the call raised.
DeleteServer_ErrorSwallowed(r) ==
  /\ Alive(r) /\ jpc[r] = "delete"
  /\ NovaDelete(vm[r]) \/ (SdkMayFail /\ UNCHANGED nova)
  /\ Write(r, "success")
  /\ UNCHANGED <<store, handler>>

\* do_delete: conn.compute.delete_server
DeleteServer(r) ==
  /\ Alive(r) /\ jpc[r] = "delete"
  /\ \/ /\ NovaDelete(vm[r])
        /\ Write(r, "success") \/ (SdkMayFail /\ Write(r, "failed"))
     \/ SdkMayFail /\ Write(r, "failed") /\ UNCHANGED nova
  /\ UNCHANGED <<store, handler>>

\* do_resize: conn.compute.resize_server ...
ResizeServer(r) ==
  /\ Alive(r) /\ jpc[r] = "resize"
  /\ \/ /\ NovaResize(vm[r], r)
        /\ Step(r, "wait") \/ (SdkMayFail /\ Write(r, "failed"))
     \/ /\ ~Accepts(vm[r], "resize") \/ SdkMayFail
        /\ Write(r, "failed")
        /\ UNCHANGED nova
  /\ UNCHANGED <<store, handler>>

\* Broken variant: the delay is the time limit of poll_until_active.
ResizeWait_PollTimeout(r) ==
  /\ Alive(r) /\ jpc[r] = "wait"
  /\ Sleep(r, PollTimeout, "confirm")
  /\ UNCHANGED <<store, nova, handler, jst, todo, elapsed, tries, late>>

\* ... a fixed delay ...
ResizeWait(r) ==
  /\ Alive(r) /\ jpc[r] = "wait"
  /\ Sleep(r, ResizeConfirmDelay, "confirm")
  /\ UNCHANGED <<store, nova, handler, jst, todo, elapsed, tries, late>>

\* Broken variant: a refused confirmation counts as success.
ConfirmResize_ConflictIgnored(r) ==
  /\ Alive(r) /\ jpc[r] = "confirm"
  /\ NovaConfirm(vm[r], r) \/ (~Accepts(vm[r], "confirm") /\ UNCHANGED nova)
  /\ Write(r, "success")
  /\ UNCHANGED <<store, handler>>

\* ... and conn.compute.confirm_server_resize.
ConfirmResize(r) ==
  /\ Alive(r) /\ jpc[r] = "confirm"
  /\ \/ /\ NovaConfirm(vm[r], r)
        /\ Write(r, "success") \/ (SdkMayFail /\ Write(r, "failed"))
     \/ /\ ~Accepts(vm[r], "confirm") \/ SdkMayFail
        /\ Write(r, "failed")
        /\ UNCHANGED nova
  /\ UNCHANGED <<store, handler>>

\* The job function returns and arq records the job as done.
FinishJob(r) ==
  /\ Alive(r) /\ jpc[r] = "ret"
  /\ EndRun(r, "ok")
  /\ UNCHANGED <<store, nova, handler, late>>

\* A call of the job takes long.
Stall(r) ==
  /\ "stall" \in Faults
  /\ Alive(r) /\ jpc[r] \in JobCalls
  /\ age' = [age EXCEPT ![r] = @ + PollInterval]
  /\ UNCHANGED <<store, nova, handler, jst, jpc, todo, elapsed, tries, late>>

\* This run of the job is cut short.  The CancelledError passes by every
\* `except Exception`.  A SET that was under way may have reached Redis; an SDK
\* call runs on in its thread, and at Nova if the process is gone.
CutShort(r, st) ==
  /\ EndRun(r, st)
  /\ (jpc[r] = "set" /\ StoreSet(r, todo[r])) \/ StoreDrop(r)
  /\ late' = IF jpc[r] \in SdkJobCalls
             THEN late \cup {<<r, tries[r], jpc[r]>>} ELSE late

\* Broken variant: a job that timed out is put back in the queue.
ArqTimeout_Retried(r) ==
  /\ jst[r] = "running" /\ age[r] >= JobTimeout
  /\ CutShort(r, "queued")
  /\ UNCHANGED <<nova, handler>>

\* job_timeout: arq cancels the job function and does not retry the job.
ArqTimeout(r) ==
  /\ jst[r] = "running" /\ age[r] >= JobTimeout
  /\ CutShort(r, "timeout")
  /\ UNCHANGED <<nova, handler>>

\* The call of the run that is over, the n-th, reaches Nova, or fails there.  By
\* then the job may be running again, or have finished.
LateCall(r, n, call) ==
  /\ <<r, n, call>> \in late
  /\ late' = late \ {<<r, n, call>>}
  /\ \/ call = "delete" /\ NovaDelete(vm[r])
     \/ call = "resize" /\ NovaResize(vm[r], r)
     \/ call = "confirm" /\ NovaConfirm(vm[r], r)
     \/ UNCHANGED nova
  /\ UNCHANGED <<store, handler, jst, jpc, todo, elapsed, age, tries>>

\* The worker process running the job dies, or is shut down, when arq cancels
\* its jobs and puts them back at once.  arq has not recorded the job as
\* finished, so it is run again.  The other jobs of that worker go the same way,
\* in crash steps of their own.
WorkerCrash(r) ==
  /\ "worker_crash" \in Faults
  /\ jst[r] = "running"
  /\ CutShort(r, "queued")
  /\ UNCHANGED <<nova, handler>>

Expire(r) ==
  /\ "expire" \in Faults
  /\ StoreExpire(r)
  /\ UNCHANGED <<nova, handler, worker>>

NovaStep(s) ==
  /\ NovaSettle(s) \/ NovaPurge(s)
  /\ UNCHANGED <<store, handler, worker>>

-----------------------------------------------------------------------------
HandlerNext(r) ==
  \/ Receive(r) \/ CheckVm(r) \/ CreateServer(r) \/ CreateTask(r)
  \/ EnqueueJob(r) \/ PowerAction(r) \/ GetConsole(r) \/ CreateImage(r)
  \/ SnapshotGet(r) \/ SnapshotSet(r)

JobNext(r) ==
  \/ StartJob(r) \/ GiveUp(r) \/ JobGet(r) \/ JobSet(r) \/ PollSleep(r)
  \/ Poll(r) \/ PollTimesOut(r) \/ DeleteServer(r) \/ ResizeServer(r)
  \/ ResizeWait(r) \/ ConfirmResize(r) \/ FinishJob(r) \/ ArqTimeout(r)

Environment ==
  \/ \E r \in Requests :
       \/ ApiCrash(r) \/ Stall(r) \/ WorkerCrash(r) \/ Expire(r)
       \/ \E n \in 0 .. MaxTries, call \in SdkJobCalls : LateCall(r, n, call)
  \/ \E s \in Servers : NovaStep(s)

Next ==
  \/ \E r \in Requests : HandlerNext(r) \/ JobNext(r)
  \/ Environment

Spec == Init /\ [][Next]_vars

\* The worker processes keep running jobs: uvicorn and arq schedule every
\* coroutine that is ready.  Nothing is assumed of clients, Nova or the faults.
Fairness == \A r \in Requests : WF_vars(JobNext(r))

FairSpec == Spec /\ Fairness

-----------------------------------------------------------------------------
(* Properties.                                                             *)

\* A client was told 202 and given a task to poll.
Acked(r) == resp[r] = "202" /\ op[r] \in TaskOperations

Open(r) == Live(r) /\ task[r].status \notin Terminal

\* A task function that returns has closed its task: whatever was lost,
\* retried or expired on the way, the record is gone or terminal once arq
\* holds the job done (poll_until_active, do_delete, do_resize have no exit
\* that leaves the task RUNNING).
FinishedJobClosesTask == \A r \in Requests : jst[r] = "ok" => ~Open(r)

\* The longest a job for operation o sleeps by its own limits.
SleepsUpTo(o) ==
  CASE o = "create_vm" -> PollTimeout + PollInterval - 1
    [] o = "resize_vm" -> ResizeConfirmDelay
    [] OTHER -> 0

\* An accepted task that is still open has a job that will close it, unless
\* the job was ended for good by one of exactly three things: a Redis error
\* outside the try blocks, max_tries worker crashes, or arq's job_timeout,
\* which without slow calls must be within what the job's function sleeps.
AckedTaskTracked ==
  \A r \in Requests : Acked(r) /\ Open(r) =>
    \/ jst[r] \in {"queued", "running"}
    \/ jst[r] = "raised" /\ RedisMayFail
    \/ jst[r] = "gave_up" /\ "worker_crash" \in Faults
    \/ jst[r] = "timeout" /\ ("stall" \in Faults \/ JobTimeout <= SleepsUpTo(op[r]))

\* With worker processes and Redis at work, and no call slow, only create_vm
\* tasks are left open by a job that has ended, and only by arq's job_timeout:
\* not by failing SDK calls, dying API processes or what other requests do to the
\* server.  arq's default is what the polling loop takes, so those it does leave.
OnlyCreatesStranded ==
  \A r \in Requests : Acked(r) /\ Open(r) =>
    \/ jst[r] \in {"queued", "running"}
    \/ jst[r] = "timeout" /\ op[r] = "create_vm"

\* As the documentation has it: every accepted task is followed to success or
\* failed ("pending -> running -> success | failed", tasks.py; "Timeout
\* waiting for VM to become ACTIVE." is what a create that takes too long
\* ends with).  An open task whose job has ended would never be.
NoStrandedTask ==
  \A r \in Requests : Acked(r) /\ Open(r) => jst[r] \in {"queued", "running"}

\* A create_vm task reads success only if its server has been ACTIVE.
CreateSuccessWasActive ==
  \A r \in Requests :
    op[r] = "create_vm" /\ task[r].status = "success" => vm[r] \in everActive

\* A delete_vm task reads success only if Nova has accepted a delete of the
\* server: nothing done to it meanwhile can undo that.
DeleteSuccessIsDeleted ==
  \A r \in Requests :
    op[r] = "delete_vm" /\ task[r].status = "success" =>
      srv[vm[r]].deleting \/ srv[vm[r]].status = "gone"

\* A resize_vm task reads success only if its server has a flavor a resize_vm
\* request asked for: its own one when no other request resizes the server.  The
\* confirmation five seconds later names no resize, it takes what it finds.
ResizeSuccessTookEffect ==
  \A r \in Requests :
    op[r] = "resize_vm" /\ task[r].status = "success" =>
      \E q \in Requests :
        op[q] = "resize_vm" /\ vm[q] = vm[r] /\ flavor[vm[r]] = q

\* update() keeps an earlier error text, yet a record reads failed only with
\* one and success only without one; the latter needs jobs not to be run
\* again after they wrote FAILED.
ErrorMatchesStatus ==
  \A r \in Requests :
    /\ task[r].status = "failed" => task[r].error
    /\ task[r].error /\ "worker_crash" \notin Faults => task[r].status = "failed"

\* create_vm makes the server before the task and the job that follow it.  A
\* server left with no job is one whose creator was told of an error or got no
\* answer at all: no server is silently forgotten.
NoSilentOrphan ==
  \A s \in Servers \ Existing : srv[s].status # "none" =>
    \E r \in Requests :
      /\ op[r] = "create_vm" /\ vm[r] = s
      /\ \/ jst[r] # "none"
         \/ hpc[r] \in {"task", "enqueue"}
         \/ hpc[r] = "done" /\ resp[r] \in {"none", "500", "502"}

\* A request refused for its body or its target (422, 404, 409) leaves nothing
\* behind: no task record, no job, no server, although the VM is looked up in one
\* step and used in another.
RefusalLeavesNothing ==
  \A r \in Requests :
    resp[r] \in {"404", "409", "422"} =>
      /\ task[r] = Absent /\ jst[r] = "none"
      /\ op[r] = "create_vm" => vm[r] = NoServer

\* The records change as the abstract specification of the lifecycle says.
Lifecycle == INSTANCE TaskLifecycle WITH
  Tasks <- Requests,
  status <- [r \in Requests |-> task[r].status],
  error <- [r \in Requests |-> task[r].error]
RefinesLifecycle == Lifecycle!LifecycleSpec

\* The whole of it is an implementation of the contract its clients rely on.
\* A call is known by its request; a flavor by the request that asked for it.
Called(r) == op[r] \in JobOperations /\ vm[r] # NoServer

Shown(status) ==
  CASE status = "absent" -> "none"
    [] status \in {"pending", "running"} -> "open"
    [] OTHER -> status

ShownServer(s) ==
  [st |-> IF srv[s].status \in {"none", "gone"} THEN srv[s].status
          ELSE IF srv[s].deleting THEN "deleting" ELSE "live",
   up |-> s \in everActive,
   size |-> flavor[s]]

ShownTask(r) ==
  IF Called(r)
  THEN [call |-> CASE op[r] = "create_vm" -> "create"
                   [] op[r] = "delete_vm" -> "delete"
                   [] op[r] = "resize_vm" -> "update",
        of |-> vm[r],
        size |-> IF op[r] = "resize_vm" THEN r ELSE NoRequest,
        worked |-> r \in confirmed,
        status |-> Shown(task[r].status)]
  ELSE [call |-> "none"]

ShownServers == [s \in Servers |-> ShownServer(s)]
ShownTasks == [r \in Requests |-> ShownTask(r)]

Api == INSTANCE VmApi WITH
  Objects <- Servers,
  Sizes <- Requests \cup {NoRequest},
  Tasks <- Requests,
  Foreign <- FALSE,
  Rewrites <- Faults \cap {"worker_crash", "redis", "expire"} # {},
  obj <- ShownServers,
  task <- ShownTasks
ImplementsApi == Api!ApiSpec

\* The task endpoint documents success and failed as final.
TerminalIsFinal ==
  [][\A r \in Requests :
       task[r].status \in Terminal => task'[r].status = task[r].status]_task

\* What a client that polls the task endpoint waits for: its task is closed,
\* or gone, or arq has recorded the job as failed.
AckedCompletes ==
  \A r \in Requests :
    Acked(r) ~> (~Open(r) \/ jst[r] \in {"raised", "timeout", "gave_up"})
=============================================================================
