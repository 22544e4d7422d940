----------------------------- MODULE TruthProofs -----------------------------
(***************************************************************************)
(* What a client is told is true: of the servers in Nova when a task reads *)
(* success, of the failure when it carries an error, and of what a refused *)
(* or a failed request has left behind.  All of it for any number of       *)
(* requests and servers, and under every fault unless a theorem says so.   *)
(***************************************************************************)
EXTENDS ComputeClientProofs

-----------------------------------------------------------------------------
(* The inductive invariant.                                                *)

Resizing(s) == srv[s].status \in {"RESIZE", "VERIFY_RESIZE"}

\* q is a request that asked for another flavor of server s.
AskedFor(q, s) == q \in Requests /\ op[q] = "resize_vm" /\ vm[q] = s

\* What Nova's records of a server have to do with one another.
ServerFacts(s) ==
  /\ srv[s].status = "none" =>
       s \notin everActive /\ ~srv[s].deleting /\ flavor[s] = NoRequest
  /\ srv[s].status = "ACTIVE" => s \in everActive
  /\ Resizing(s) => AskedFor(resizer[s], s)
  /\ srv[s].status = "VERIFY_RESIZE" => flavor[s] = resizer[s]
  /\ flavor[s] = NoRequest \/ AskedFor(flavor[s], s)

\* What a request has and has not brought about by each step of its handler.
Begun(r) ==
  /\ hpc[r] \in {"idle", "create_server", "check", "task", "act"} =>
       task[r] = Absent
  /\ hpc[r] \in {"idle", "create_server"} => vm[r] = NoServer
  /\ hpc[r] \in {"check", "act"} => op[r] # "create_vm"
  /\ op[r] \in JobOperations /\ Live(r) => vm[r] \in Servers
  /\ hpc[r] \in {"task", "enqueue"} \/ jst[r] # "none" =>
       srv[vm[r]].status # "none"
  /\ resp[r] \in {"404", "409", "422"} =>
       /\ task[r] = Absent /\ jst[r] = "none"
       /\ op[r] = "create_vm" => vm[r] = NoServer

\* A server that is not there before the API starts was made by a request that
\* has a job, is on its way to one, or was not told of success.
Accounted(r) ==
  \/ jst[r] # "none"
  \/ hpc[r] \in {"task", "enqueue"}
  \/ hpc[r] = "done" /\ resp[r] \in {"none", "500", "502"}

\* What success of r's task stands for.  A resize is done when r has had one
\* confirmed and the server's flavor is one that was asked for.  Unless a worker
\* went down, the resize that r started is then not the one under way; a call of
\* an earlier run may start one yet.
Worked(r) ==
  /\ op[r] = "create_vm" => vm[r] \in everActive
  /\ op[r] = "delete_vm" => srv[vm[r]].deleting \/ srv[vm[r]].status = "gone"
  /\ op[r] = "resize_vm" =>
       /\ r \in confirmed
       /\ AskedFor(flavor[vm[r]], vm[r])
       /\ Resizing(vm[r]) /\ "worker_crash" \notin Faults => resizer[vm[r]] # r

\* The operation whose job makes an SDK call.
OperationOf(call) == IF call = "delete" THEN "delete_vm" ELSE "resize_vm"

\* A call that outlived its run is of r's operation.  If the run was timed out,
\* it is r's last one and has not written success; if its worker went down, the
\* job may be running again, or have finished.
LateAt(r) ==
  \A n \in 0 .. MaxTries, call \in SdkJobCalls : <<r, n, call>> \in late =>
    /\ jst[r] # "none" /\ op[r] = OperationOf(call)
    /\ \/ "worker_crash" \in Faults
       \/ jst[r] = "timeout" /\ task[r].status # "success"

\* Where a job may be.  In its middle part, between the update to RUNNING and
\* the one that closes the task, the record does not read success, not even
\* one left by an earlier run.
JobAt(r) ==
  /\ r \in confirmed => jst[r] # "none"
  /\ jst[r] = "none" /\ op[r] \in JobOperations => task[r].status # "success"
  /\ LateAt(r)
  /\ jst[r] = "running" =>
       /\ todo[r] # "pending" /\ jpc[r] \in JobSteps \ {"idle"}
       /\ jpc[r] \in {"sleep", "poll"} => op[r] = "create_vm"
       /\ jpc[r] = "delete" => op[r] = "delete_vm"
       /\ jpc[r] \in {"resize", "wait", "confirm"} => op[r] = "resize_vm"
       /\ jpc[r] \notin {"get", "set", "ret"} =>
            todo[r] = "running" /\ task[r].status # "success"
       /\ todo[r] = "success" => Worked(r)
  /\ op[r] \in JobOperations /\ task[r].status = "success" => Worked(r)

TruthInv ==
  /\ \A s \in Servers : ServerFacts(s)
  /\ \A r \in Requests : Begun(r) /\ JobAt(r)

\* The error text of a record, and of the copy an update has read.
ErrorAt(r) ==
  /\ task[r].status = "failed" => task[r].error
  /\ "worker_crash" \notin Faults =>
       /\ task[r].error => task[r].status = "failed"
       /\ \/ hpc[r] # "done" \/ jst[r] = "queued"
          \/ jst[r] = "running" /\ todo[r] # "failed"
          => ~task[r].error /\ ~raw[r].error

ErrorInv == \A r \in Requests : ErrorAt(r)

-----------------------------------------------------------------------------
(* Nova.                                                                   *)

\* The calls that a step of request r may make, and the server it makes them
\* for: only create_vm makes servers, only a job for resize_vm resizes.
MayResize(r) ==
  /\ op[r] = "resize_vm" /\ jst[r] # "none"
  /\ \/ "worker_crash" \in Faults
     \/ /\ task[r].status # "success"
        /\ jst[r] = "timeout" \/ (jst[r] = "running" /\ todo[r] = "running")

CallsOf(r, s) ==
  \/ CreateServer(r) /\ NovaCreate(s) /\ vm' = [vm EXCEPT ![r] = s]
  \/ vm[r] = s /\ op[r] = "delete_vm" /\ NovaDelete(s)
  \/ vm[r] = s /\ \E a \in PowerActions : NovaPower(s, a)
  \/ vm[r] = s /\ MayResize(r) /\ NovaResize(s, r)
  \/ vm[r] = s /\ op[r] = "resize_vm" /\ jst[r] # "none" /\ NovaConfirm(s, r)

\* What is never undone: a server made, seen ACTIVE or deleted stays so, its
\* flavor changes only by a resize under way, and that of q is started only by
\* q, whose task does not read success then unless a worker went down.
Grows(s) ==
  /\ srv[s].status # "none" => srv'[s].status # "none"
  /\ s \in everActive => s \in everActive'
  /\ srv[s].deleting \/ srv[s].status = "gone" =>
       srv'[s].deleting \/ srv'[s].status = "gone"
  /\ flavor'[s] = flavor[s] \/ (Resizing(s) /\ flavor'[s] = resizer[s])
  /\ \A q \in Requests : Resizing(s)' /\ resizer'[s] = q =>
       (Resizing(s) /\ resizer[s] = q) \/ MayResize(q)

\* Nova's steps and the calls of a request only let servers grow.
LEMMA CallGrows ==
  ASSUME NovaTypeOK, NEW s \in Servers, NEW i \in Servers,
         (\E r \in Requests : CallsOf(r, s)) \/ NovaSettle(s) \/ NovaPurge(s)
  PROVE  Grows(i)
<1> USE DEF NovaTypeOK, ServerRecords, Grows, Resizing
<1>1. CASE NovaCreate(s)
  BY <1>1 DEF NovaCreate, Become
<1>2. CASE NovaDelete(s)
  BY <1>2 DEF NovaDelete, Visible
<1>3. ASSUME NEW a \in PowerActions, NovaPower(s, a)
      PROVE  Grows(i)
  <2>1. AfterPower(a) \notin {"none", "RESIZE", "VERIFY_RESIZE"} /\ ~srv[s].deleting
    BY <1>3 DEF AfterPower, PowerActions, NovaPower, Accepts
  <2>2. srv[s].status # "gone"
    BY <1>3 DEF PowerActions, NovaPower, Accepts
  <2> QED
    BY <1>3, <2>1, <2>2 DEF NovaPower, Become
<1>4. ASSUME NEW r \in Requests, NovaResize(s, r), MayResize(r)
      PROVE  Grows(i)
  BY <1>4 DEF NovaResize, Become, Accepts
<1>5. ASSUME NEW r \in Requests, NovaConfirm(s, r)
      PROVE  Grows(i)
  BY <1>5 DEF NovaConfirm, Become, Accepts
<1>6. CASE NovaSettle(s)
  BY <1>6 DEF NovaSettle, Become, Settles
<1>7. CASE NovaPurge(s)
  BY <1>7 DEF NovaPurge
<1> QED
  BY <1>1, <1>2, <1>3, <1>4, <1>5, <1>6, <1>7 DEF CallsOf

\* They keep what Nova's records have to do with one another.
LEMMA CallFacts ==
  ASSUME NovaTypeOK, NEW s \in Servers, NEW i \in Servers,
         (\E r \in Requests : CallsOf(r, s)) \/ NovaSettle(s) \/ NovaPurge(s),
         ServerFacts(i),
         \A q \in Requests : AskedFor(q, i) => AskedFor(q, i)'
  PROVE  ServerFacts(i)'
<1> USE DEF NovaTypeOK, ServerRecords, ServerFacts, Resizing
<1>1. CASE NovaCreate(s)
  BY <1>1 DEF NovaCreate, Become, AskedFor
<1>2. CASE NovaDelete(s)
  BY <1>2 DEF NovaDelete, Visible, Statuses, AskedFor
<1>3. ASSUME NEW a \in PowerActions, NovaPower(s, a)
      PROVE  ServerFacts(i)'
  <2>1. AfterPower(a) \notin {"none", "RESIZE", "VERIFY_RESIZE"}
    BY <1>3 DEF AfterPower, PowerActions
  <2> QED
    BY <1>3, <2>1 DEF NovaPower, Become, AskedFor
<1>4. ASSUME NEW r \in Requests, NovaResize(s, r), vm[r] = s, MayResize(r)
      PROVE  ServerFacts(i)'
  BY <1>4 DEF NovaResize, Become, AskedFor, MayResize
<1>5. ASSUME NEW r \in Requests, NovaConfirm(s, r)
      PROVE  ServerFacts(i)'
  BY <1>5 DEF NovaConfirm, Become, AskedFor
<1>6. CASE NovaSettle(s)
  BY <1>6 DEF NovaSettle, Become, Settles, AskedFor
<1>7. CASE NovaPurge(s)
  BY <1>7 DEF NovaPurge, AskedFor
<1> QED
  BY <1>1, <1>2, <1>3, <1>4, <1>5, <1>6, <1>7 DEF CallsOf

\* A step of request r makes none of Nova's calls or one of CallsOf.
LEMMA StepCalls ==
  ASSUME TypeInv, TrackInv, TruthInv, NEW r \in Requests,
         HandlerNext(r) \/ JobNext(r) \/ EnvironmentOf(r)
  PROVE  UNCHANGED nova \/ \E s \in Servers : CallsOf(r, s)
<1>0. TargetKnown(r) /\ Sequenced(r) /\ Begun(r) /\ JobAt(r)
  BY DEF TypeInv, TrackInv, TruthInv
<1>1. CASE CreateServer(r)
  BY <1>0, <1>1 DEF CreateServer, CallsOf, Sequenced, Begun
<1>2. CASE PowerAction(r)
  BY <1>0, <1>2 DEF PowerAction, CallsOf, TargetKnown
<1>3. CASE DeleteServer(r)
  BY <1>0, <1>3 DEF DeleteServer, Alive, CallsOf, TargetKnown, JobAt
<1>4. CASE ResizeServer(r)
  BY <1>0, <1>4 DEF ResizeServer, Alive, CallsOf, MayResize, TargetKnown, JobAt
<1>5. CASE ConfirmResize(r)
  BY <1>0, <1>5 DEF ConfirmResize, Alive, CallsOf, TargetKnown, JobAt
<1>6. ASSUME NEW n \in 0 .. MaxTries, NEW call \in SdkJobCalls,
             LateCall(r, n, call)
      PROVE  UNCHANGED nova \/ \E s \in Servers : CallsOf(r, s)
  <2>1. /\ vm[r] \in Servers /\ jst[r] # "none" /\ op[r] = OperationOf(call)
        /\ \/ "worker_crash" \in Faults
           \/ jst[r] = "timeout" /\ task[r].status # "success"
    BY <1>0, <1>6 DEF LateCall, TargetKnown, JobAt, LateAt
  <2> QED
    BY <1>6, <2>1 DEF LateCall, CallsOf, MayResize, OperationOf
<1>7. CASE \/ Receive(r) \/ CheckVm(r) \/ CreateTask(r) \/ EnqueueJob(r)
           \/ GetConsole(r) \/ CreateImage(r) \/ SnapshotGet(r)
           \/ SnapshotSet(r) \/ ApiCrash(r) \/ WorkerCrash(r) \/ Expire(r)
  BY <1>7 DEF Receive, CheckVm, CreateTask, EnqueueJob, GetConsole, CreateImage,
    SnapshotGet, SnapshotSet, ApiCrash, WorkerCrash, CutShort, Expire
<1>8. CASE \/ StartJob(r) \/ GiveUp(r) \/ JobGet(r) \/ JobSet(r)
           \/ PollSleep(r) \/ Poll(r) \/ PollTimesOut(r) \/ ResizeWait(r)
           \/ FinishJob(r) \/ ArqTimeout(r) \/ Stall(r)
  BY <1>8 DEF StartJob, GiveUp, JobGet, JobSet, PollSleep, Poll, PollTimesOut,
    ResizeWait, FinishJob, ArqTimeout, CutShort, Stall
<1> QED
  BY <1>1, <1>2, <1>3, <1>4, <1>5, <1>6, <1>7, <1>8
  DEF HandlerNext, JobNext, EnvironmentOf

\* Whoever asked for a flavor of a server asked for it for good: a request gets
\* its operation and its target once, while it has none.
LEMMA AskedForGood ==
  ASSUME TypeInv, TruthInv, NEW r \in Requests,
         HandlerNext(r) \/ JobNext(r) \/ EnvironmentOf(r),
         NEW q \in Requests, NEW s \in Servers, AskedFor(q, s)
  PROVE  AskedFor(q, s)'
<1>0. HandlerTypeOK /\ Begun(r)
  BY DEF TypeInv, TruthInv
<1>1. CASE q # r
  BY <1>1, Locality DEF AskedFor, Untouched
<1>2. CASE q = r
  <2>1. vm[r] # NoServer
    BY <1>2, NoServerAssumption DEF AskedFor
  <2>2. ~Receive(r) /\ ~CreateServer(r)
    BY <1>0, <2>1 DEF Begun, Receive, CreateServer
  <2>3. op' = op /\ vm' = vm
    BY <2>2 DEF HandlerNext, JobNext, EnvironmentOf, CheckVm, CreateTask,
      EnqueueJob, PowerAction, GetConsole, CreateImage, SnapshotGet,
      SnapshotSet, StartJob, GiveUp, JobGet, JobSet, PollSleep, Poll,
      PollTimesOut, DeleteServer, ResizeServer, ResizeWait, ConfirmResize,
      FinishJob, ArqTimeout, CutShort, ApiCrash, Stall, WorkerCrash, Expire,
      LateCall,
      handler
  <2> QED
    BY <1>2, <2>3 DEF AskedFor
<1> QED
  BY <1>1, <1>2

\* Every step of the system, as far as Nova goes.
LEMMA NovaStable ==
  ASSUME TypeInv, TrackInv, TruthInv, NEW r \in Requests,
         HandlerNext(r) \/ JobNext(r) \/ EnvironmentOf(r)
  PROVE  /\ \A s \in Servers : ServerFacts(s)' /\ Grows(s)
         /\ confirmed \subseteq confirmed'
         /\ \A q \in confirmed' : q \in confirmed \/ (q = r /\ jst[r] # "none")
<1>0. NovaTypeOK /\ \A s \in Servers : ServerFacts(s)
  BY DEF TypeInv, TruthInv
<1>1. \A q \in Requests, s \in Servers : AskedFor(q, s) => AskedFor(q, s)'
  BY AskedForGood
<1>2. CASE UNCHANGED nova
  <2>1. ASSUME NEW s \in Servers PROVE ServerFacts(s)' /\ Grows(s)
    BY <1>0, <1>1, <1>2, <2>1
    DEF nova, ServerFacts, Grows, Resizing, AskedFor, NovaTypeOK
  <2> QED
    BY <1>2, <2>1 DEF nova
<1>3. ASSUME NEW s \in Servers, CallsOf(r, s)
      PROVE  /\ \A i \in Servers : ServerFacts(i)' /\ Grows(i)
             /\ confirmed \subseteq confirmed'
             /\ \A q \in confirmed' : q \in confirmed \/ (q = r /\ jst[r] # "none")
  <2>1. \A i \in Servers : ServerFacts(i)' /\ Grows(i)
    BY <1>0, <1>1, <1>3, CallGrows, CallFacts
  <2>2. \/ confirmed' = confirmed
        \/ confirmed' = confirmed \cup {r} /\ jst[r] # "none"
    BY <1>3 DEF CallsOf, NovaCreate, NovaDelete, NovaPower, NovaResize,
      NovaConfirm
  <2> QED
    BY <2>1, <2>2
<1> QED
  BY <1>2, <1>3, StepCalls

\* What success stands for is not undone, except by the request's own job.
LEMMA WorkedStable ==
  ASSUME NEW q \in Requests, NEW s \in Servers, vm[q] = s,
         Worked(q), "worker_crash" \in Faults \/ ~MayResize(q), op'[q] = op[q], vm'[q] = vm[q],
         ServerFacts(s), Grows(s), q \in confirmed => q \in confirmed',
         \A p \in Requests : AskedFor(p, s) => AskedFor(p, s)'
  PROVE  Worked(q)'
<1>1. CASE op[q] = "resize_vm"
  <2>1. q \in confirmed' /\ AskedFor(flavor[s], s)
        /\ (Resizing(s) /\ "worker_crash" \notin Faults => resizer[s] # q)
    BY <1>1 DEF Worked
  <2>2. PICK p \in Requests : AskedFor(p, s) /\ flavor'[s] = p
    BY <2>1 DEF Grows, ServerFacts, AskedFor
  <2>3. AskedFor(flavor[s], s)'
    BY <2>2
  <2>4. Resizing(s)' /\ "worker_crash" \notin Faults => resizer'[s] # q
    BY <2>1 DEF Grows
  <2> QED
    BY <1>1, <2>1, <2>3, <2>4 DEF Worked, Resizing, AskedFor
<1>2. CASE op[q] # "resize_vm"
  BY <1>2 DEF Worked, Grows
<1> QED
  BY <1>1, <1>2

\* The requests that do not take the step keep their part of the invariant.
LEMMA OthersTruth ==
  ASSUME TypeInv, TrackInv, TruthInv, NEW q \in Requests, Untouched(q),
         \A s \in Servers : Grows(s),
         q \in confirmed' <=> q \in confirmed,
         \A p \in Requests, s \in Servers : AskedFor(p, s) => AskedFor(p, s)'
  PROVE  Begun(q)' /\ JobAt(q)'
<1>0. /\ TargetKnown(q) /\ Sequenced(q) /\ Begun(q) /\ JobAt(q)
      /\ \A s \in Servers : ServerFacts(s)
  BY DEF TypeInv, TrackInv, TruthInv
<1>1. Begun(q)'
  BY <1>0 DEF Begun, Untouched, TargetKnown, Grows, Live
<1>2. ASSUME Worked(q), vm[q] \in Servers, "worker_crash" \in Faults \/ ~MayResize(q)
      PROVE  Worked(q)'
  BY <1>0, <1>2, WorkedStable DEF Untouched
<1>3. jst[q] = "running" /\ todo[q] = "success" => Worked(q)'
  BY <1>0, <1>2 DEF JobAt, TargetKnown, MayResize
<1>4. op[q] \in JobOperations /\ task[q].status = "success" => Worked(q)'
  <2> SUFFICES ASSUME op[q] \in JobOperations, task[q].status = "success"
               PROVE  Worked(q)'
    OBVIOUS
  <2>1. vm[q] \in Servers
    BY <1>0 DEF Begun, Live
  <2> QED
    BY <1>0, <1>2, <2>1 DEF JobAt, MayResize
<1>5. LateAt(q)'
  BY <1>0 DEF JobAt, LateAt, Untouched
<1>6. JobAt(q)'
  BY <1>0, <1>3, <1>4, <1>5 DEF JobAt, Untouched
<1> QED
  BY <1>1, <1>6

-----------------------------------------------------------------------------
(* Handlers and jobs.                                                      *)

\* A handler's step keeps what Begun and JobAt say of its request.
LEMMA HandlerTruth ==
  ASSUME TypeInv, TrackInv, TruthInv, NEW r \in Requests,
         HandlerNext(r) \/ ApiCrash(r)
  PROVE  Begun(r)' /\ JobAt(r)'
<1>0. /\ TaskStoreTypeOK /\ HandlerTypeOK /\ WorkerTypeOK /\ TargetKnown(r)
      /\ Sequenced(r) /\ Begun(r) /\ JobAt(r)
  BY DEF TypeInv, TrackInv, TruthInv
<1>n. \A s \in Servers : Grows(s)
  BY NovaStable DEF EnvironmentOf
<1>c. hpc[r] # "done" /\ jst[r] = "none" /\ r \notin confirmed /\ resp[r] = "none"
  BY <1>0 DEF HandlerNext, Receive, CheckVm, CreateServer, CreateTask,
    EnqueueJob, PowerAction, GetConsole, CreateImage, SnapshotGet, SnapshotSet,
    ApiCrash, Sequenced, JobAt
<1>d. r \notin confirmed'
  BY <1>c, NovaStable DEF EnvironmentOf
<1>l. LateAt(r)'
  BY <1>0, <1>c DEF LateAt, JobAt, HandlerNext, Receive, CheckVm, CreateServer,
    CreateTask, EnqueueJob, PowerAction, GetConsole, CreateImage, SnapshotGet,
    SnapshotSet, ApiCrash, worker
<1>j. /\ jst'[r] \in {"none", "queued"}
      /\ op'[r] \in JobOperations => task'[r].status # "success"
  <2>1. jst'[r] \in {"none", "queued"}
    BY <1>0, <1>c DEF HandlerNext, Receive, CheckVm, CreateServer, CreateTask,
      EnqueueJob, PowerAction, GetConsole, CreateImage, SnapshotGet,
      SnapshotSet, ApiCrash, worker, WorkerTypeOK
  <2>2. CASE Receive(r)
    BY <1>0, <2>1, <2>2 DEF Receive, Begun, Absent, store
  <2>3. CASE CreateTask(r)
    BY <1>0, <1>c, <2>1, <2>3
    DEF CreateTask, StoreCreate, store, JobAt, TaskStoreTypeOK
  <2>4. CASE SnapshotSet(r)
    BY <1>0, <2>1, <2>4 DEF SnapshotSet, Sequenced, JobOperations
  <2>5. CASE ~Receive(r) /\ ~CreateTask(r) /\ ~SnapshotSet(r)
    BY <1>0, <1>c, <2>1, <2>5 DEF JobAt, HandlerNext, CheckVm, CreateServer,
      EnqueueJob, PowerAction, GetConsole, CreateImage, SnapshotGet, StoreGet,
      StoreDrop, ApiCrash, store
  <2> QED
    BY <2>1, <2>2, <2>3, <2>4, <2>5
<1>1. JobAt(r)'
  BY <1>d, <1>l, <1>j DEF JobAt
<1>2. Begun(r)'
  <2> USE <1>0, <1>c DEF TaskStoreTypeOK, HandlerTypeOK, WorkerTypeOK, Begun
  <2>e. \A exc \in {"VMOperationError", "OpenStackConnectionError",
                    "NotFoundException", "ConflictException", "RedisError"} :
          HttpStatus(exc) \in {"500", "502", "503"}
    BY DEF HttpStatus
  <2> USE <2>e
  <2>1. CASE Receive(r)
    BY <2>1 DEF Receive, Goto, Fail, Answer, store, worker, Live, Absent
  <2>2. CASE CheckVm(r)
    BY <2>2 DEF CheckVm, Goto, Fail, Answer, SdkErrors, store, nova, worker,
      Live, Visible, Statuses
  <2>3. CASE CreateServer(r)
    <3>1. ASSUME NEW s \in Servers, NovaCreate(s) PROVE srv'[s].status = "BUILD"
      BY <3>1 DEF NovaCreate, Become, TypeInv, NovaTypeOK, ServerRecords
    <3> QED
      BY <2>3, <3>1 DEF CreateServer, Goto, Fail, Answer, SdkErrors, store,
        worker, Live, Absent
  <2>4. CASE CreateTask(r)
    BY <2>4 DEF CreateTask, StoreCreate, Goto, Fail, Answer, store, nova,
      worker,
      TargetKnown, Live
  <2>5. CASE EnqueueJob(r)
    BY <2>5 DEF EnqueueJob, Fail, Answer, store, nova, Live
  <2>6. CASE PowerAction(r)
    BY <2>6 DEF PowerAction, Fail, Answer, SdkErrors, store, worker, Live
  <2>7. CASE GetConsole(r)
    BY <2>7 DEF GetConsole, Refusal, Fail, Answer, SdkErrors, store, worker,
      Live
  <2>8. CASE CreateImage(r)
    BY <2>8 DEF CreateImage, Refusal, Goto, Fail, Answer, SdkErrors, store,
      nova,
      worker, Live
  <2>9. CASE SnapshotGet(r) \/ SnapshotSet(r)
    BY <2>9 DEF SnapshotGet, SnapshotSet, StoreGet, StoreSet, StoreDrop, Goto,
      Fail, Answer, store, nova, worker, Live, Sequenced, JobOperations
  <2>10. CASE ApiCrash(r)
    BY <2>10 DEF ApiCrash, StoreDrop, nova, worker, Live
  <2> QED
    BY <2>1, <2>2, <2>3, <2>4, <2>5, <2>6, <2>7, <2>8, <2>9, <2>10
    DEF HandlerNext
<1> QED
  BY <1>1, <1>2

\* A job's step, and what befalls a job, keeps them.
LEMMA JobTruth ==
  ASSUME TypeInv, TrackInv, TruthInv, NEW r \in Requests,
         JobNext(r) \/ (EnvironmentOf(r) /\ ~ApiCrash(r))
  PROVE  Begun(r)' /\ JobAt(r)'
<1>0. /\ TaskStoreTypeOK /\ HandlerTypeOK /\ WorkerTypeOK /\ TargetKnown(r)
      /\ Sequenced(r) /\ Begun(r) /\ JobAt(r)
  BY DEF TypeInv, TrackInv, TruthInv
<1>n. /\ \A s \in Servers : ServerFacts(s) /\ Grows(s)
      /\ \A q \in Requests, s \in Servers : AskedFor(q, s) => AskedFor(q, s)'
      /\ r \in confirmed => r \in confirmed'
      /\ r \in confirmed' => jst[r] # "none"
  BY <1>0, NovaStable, AskedForGood DEF TruthInv, EnvironmentOf, JobAt
<1>h. UNCHANGED handler
  BY DEF JobNext, EnvironmentOf, StartJob, GiveUp, JobGet, JobSet, PollSleep,
    Poll, PollTimesOut, DeleteServer, ResizeServer, ResizeWait, ConfirmResize,
    FinishJob, ArqTimeout, CutShort, Stall, WorkerCrash, Expire, LateCall
<1>j. \/ jst[r] # "none" /\ jst'[r] # "none"
      \/ Expire(r)
  BY <1>0 DEF JobNext, EnvironmentOf, StartJob, GiveUp, JobGet, JobSet,
    PollSleep, Poll, PollTimesOut, DeleteServer, ResizeServer, ResizeWait,
    ConfirmResize, FinishJob, ArqTimeout, CutShort, Stall, WorkerCrash,
    LateCall, Alive, JobAt, LateAt, Step, Write, EndRun, UpdateRaises,
    WorkerTypeOK
<1>w. /\ Worked(r) /\ vm[r] \in Servers
      /\ "worker_crash" \in Faults \/ ~MayResize(r)
      => Worked(r)'
  BY <1>n, <1>h, WorkedStable DEF handler
<1>x. CASE Expire(r)
  <2>1. task'[r] = Absent /\ UNCHANGED worker
    BY <1>0, <1>x DEF Expire, StoreExpire, TaskStoreTypeOK
  <2>2. Begun(r)'
    BY <1>0, <1>n, <1>h, <2>1 DEF Begun, TargetKnown, Grows, handler, worker,
      Live, Absent
  <2>3. LateAt(r)'
    BY <1>0, <1>h, <2>1 DEF JobAt, LateAt, handler, worker, Absent
  <2>4. JobAt(r)'
    BY <1>0, <1>n, <1>h, <1>w, <2>1, <2>3 DEF JobAt, TargetKnown, MayResize,
      handler, worker, Absent
  <2> QED
    BY <2>2, <2>4
<1>b. ASSUME jst[r] # "none", jst'[r] # "none" PROVE Begun(r)'
  <2>1. /\ hpc'[r] = "done" /\ vm'[r] = vm[r] /\ vm[r] \in Servers
        /\ resp'[r] \notin {"404", "409", "422"}
    BY <1>0, <1>h, <1>b DEF Sequenced, TargetKnown, Begun, handler
  <2> QED
    BY <1>0, <1>n, <1>b, <2>1 DEF Begun, Grows
<1> SUFFICES ASSUME jst[r] # "none", jst'[r] # "none"
             PROVE  JobAt(r)'
  BY <1>x, <1>j, <1>b
<1>v. vm[r] \in Servers /\ op[r] \in JobOperations /\ todo[r] \in TaskStatus
      /\ op'[r] = op[r]
  BY <1>0, <1>h DEF TargetKnown, Sequenced, WorkerTypeOK, handler
<1>r. jst[r] # "timeout" /\ late' = late => LateAt(r)'
  BY <1>0, <1>v DEF JobAt, LateAt
<1>1. CASE StartJob(r)
  BY <1>0, <1>n, <1>v, <1>w, <1>r, <1>1
  DEF StartJob, JobAt, MayResize, WorkerTypeOK, store, JobSteps, JobCalls
<1>2. CASE GiveUp(r)
  BY <1>0, <1>n, <1>v, <1>w, <1>r, <1>2
  DEF GiveUp, JobAt, MayResize, WorkerTypeOK, store
<1>3. CASE PollSleep(r) \/ ResizeWait(r) \/ Stall(r)
  BY <1>0, <1>n, <1>v, <1>w, <1>r, <1>3
  DEF PollSleep, ResizeWait, Stall, Sleep, Alive, JobAt, MayResize,
    WorkerTypeOK, store, JobSteps, JobCalls, SdkJobCalls
<1>4. CASE FinishJob(r)
  BY <1>0, <1>n, <1>v, <1>w, <1>r, <1>4
  DEF FinishJob, EndRun, Alive, JobAt, MayResize, WorkerTypeOK, store
<1>u. ASSUME UpdateRaises(r), jst[r] = "running", UNCHANGED nova,
             task'[r].status = "success" => Worked(r)
      PROVE  JobAt(r)'
  <2>1. \/ jst'[r] = "running" /\ todo'[r] = "failed" /\ jpc'[r] = "get"
        \/ jst'[r] = "raised"
    BY <1>0, <1>u DEF UpdateRaises, Write, EndRun, WorkerTypeOK
  <2>2. late' = late
    BY <1>u DEF UpdateRaises, Write
  <2>3. task'[r].status = "success" => Worked(r)'
    BY <1>u, <1>h, <1>v DEF Worked, AskedFor, Resizing, nova, handler
  <2> QED
    BY <1>0, <1>r, <1>u, <1>v, <2>1, <2>2, <2>3 DEF JobAt, JobSteps, JobCalls
<1>5. CASE JobGet(r)
  <2>1. jst[r] = "running" /\ task' = task /\ UNCHANGED nova
    BY <1>5 DEF JobGet, Alive, StoreGet, store
  <2>2. CASE Step(r, IF Live(r) THEN "set" ELSE AfterUpdate(r))
    <3>1. \/ jpc'[r] \in {"set", "ret"}
          \/ jpc'[r] = FirstStep(op[r]) /\ task[r].status # "success"
             /\ todo[r] = "running"
      BY <1>0, <1>v, <2>1, <2>2
      DEF Step, AfterUpdate, Live, JobAt, WorkerTypeOK, TaskStatus
    <3>2. UNCHANGED <<jst, todo, late>>
      BY <2>2 DEF Step
    <3> QED
      BY <1>0, <1>n, <1>v, <1>w, <1>r, <2>1, <3>1, <3>2
      DEF JobAt, FirstStep, JobOperations, MayResize, JobSteps, JobCalls,
        SdkJobCalls
  <2>3. CASE UpdateRaises(r)
    BY <1>0, <1>u, <1>v, <2>1, <2>3 DEF JobAt
  <2> QED
    BY <1>5, <2>2, <2>3 DEF JobGet
<1>6. CASE JobSet(r)
  <2>1. jst[r] = "running" /\ jpc[r] = "set" /\ UNCHANGED nova
    BY <1>6 DEF JobSet, Alive
  <2>2. StoreSet(r, todo[r]) => task'[r].status = todo[r]
    BY <1>0, <1>v, MergeType DEF StoreSet, TaskStoreTypeOK
  <2>3. task'[r].status = "success" => Worked(r)
    BY <1>0, <1>6, <1>v, <2>1, <2>2 DEF JobSet, StoreDrop, JobAt
  <2>4. CASE StoreSet(r, todo[r]) /\ Step(r, AfterUpdate(r))
    <3>1. \/ jpc'[r] = "ret"
          \/ jpc'[r] = FirstStep(op[r]) /\ todo[r] = "running"
      BY <1>0, <1>v, <2>1, <2>4
      DEF Step, AfterUpdate, JobAt, WorkerTypeOK, TaskStatus
    <3>2. UNCHANGED <<jst, todo, late>>
      BY <2>4 DEF Step
    <3> QED
      BY <1>0, <1>v, <1>w, <1>r, <2>1, <2>2, <2>3, <2>4, <3>1, <3>2
      DEF JobAt, FirstStep, JobOperations, MayResize, JobSteps, JobCalls,
        SdkJobCalls
  <2>5. CASE UpdateRaises(r)
    BY <1>u, <2>1, <2>3, <2>5
  <2> QED
    BY <1>6, <2>4, <2>5 DEF JobSet
<1>7. CASE Poll(r) \/ PollTimesOut(r)
  <2>1. /\ jst[r] = "running" /\ jpc[r] \in {"sleep", "poll"}
        /\ op[r] = "create_vm" /\ task[r].status # "success"
        /\ todo[r] = "running" /\ task' = task
    BY <1>0, <1>7 DEF Poll, PollTimesOut, Alive, JobAt, store
  <2>2. \/ Step(r, "sleep") \/ Write(r, "failed")
        \/ Write(r, "success") /\ srv[vm[r]].status = "ACTIVE"
    BY <1>7 DEF Poll, PollTimesOut, Visible, MapState, Statuses
  <2>3. srv[vm[r]].status = "ACTIVE" => Worked(r)'
    BY <1>n, <1>h, <1>v, <2>1 DEF Worked, ServerFacts, Grows, handler
  <2> QED
    BY <1>0, <1>r, <1>v, <2>1, <2>2, <2>3
    DEF JobAt, Step, Write, WorkerTypeOK, JobSteps, JobCalls
<1>8. CASE DeleteServer(r)
  <2>1. /\ jst[r] = "running" /\ op[r] = "delete_vm"
        /\ task[r].status # "success" /\ task' = task
    BY <1>0, <1>8 DEF DeleteServer, Alive, JobAt, store
  <2>2. \/ Write(r, "failed")
        \/ Write(r, "success") /\ NovaDelete(vm[r])
    BY <1>8 DEF DeleteServer
  <2>3. NovaDelete(vm[r]) => Worked(r)'
    <3>1. srv[vm[r]] \in ServerRecords /\ srv[vm[r]].status # "none"
      BY <1>0, <1>v DEF TypeInv, NovaTypeOK, Begun
    <3> QED
      BY <1>h, <1>v, <2>1, <3>1
      DEF NovaDelete, Visible, Worked, handler, ServerRecords, TypeInv,
        NovaTypeOK
  <2> QED
    BY <1>0, <1>r, <1>v, <2>1, <2>2, <2>3
    DEF JobAt, Write, WorkerTypeOK, JobSteps, JobCalls
<1>9. CASE ResizeServer(r)
  <2>1. /\ jst[r] = "running" /\ op[r] = "resize_vm" /\ todo[r] = "running"
        /\ task[r].status # "success" /\ task' = task
    BY <1>0, <1>9 DEF ResizeServer, Alive, JobAt, store
  <2>2. Step(r, "wait") \/ Write(r, "failed")
    BY <1>9 DEF ResizeServer
  <2> QED
    BY <1>0, <1>r, <1>v, <2>1, <2>2
    DEF JobAt, Step, Write, WorkerTypeOK, JobSteps, JobCalls
<1>10. CASE ConfirmResize(r)
  <2>1. /\ jst[r] = "running" /\ op[r] = "resize_vm"
        /\ task[r].status # "success" /\ task' = task
    BY <1>0, <1>10 DEF ConfirmResize, Alive, JobAt, store
  <2>2. \/ Write(r, "failed")
        \/ Write(r, "success") /\ NovaConfirm(vm[r], r)
    BY <1>10 DEF ConfirmResize
  <2>3. NovaConfirm(vm[r], r) => Worked(r)'
    <3> SUFFICES ASSUME NovaConfirm(vm[r], r) PROVE Worked(r)'
      OBVIOUS
    <3>1. /\ srv[vm[r]].status = "VERIFY_RESIZE"
          /\ AskedFor(flavor[vm[r]], vm[r])
      BY <1>n, <1>v DEF NovaConfirm, Accepts, ServerFacts, Resizing
    <3>2. r \in confirmed' /\ flavor' = flavor /\ srv'[vm[r]].status = "ACTIVE"
      BY <1>v DEF NovaConfirm, Become, TypeInv, NovaTypeOK, ServerRecords
    <3> QED
      BY <1>h, <1>n, <1>v, <2>1, <3>1, <3>2
      DEF Worked, AskedFor, Resizing, handler
  <2> QED
    BY <1>0, <1>r, <1>v, <2>1, <2>2, <2>3
    DEF JobAt, Write, WorkerTypeOK, JobSteps, JobCalls
<1>11. ASSUME NEW st \in {"timeout", "queued"}, CutShort(r, st), UNCHANGED nova,
              jst[r] = "running", st = "queued" => "worker_crash" \in Faults
       PROVE  JobAt(r)'
  <2>1. jst'[r] = st
    BY <1>0, <1>11 DEF CutShort, EndRun, WorkerTypeOK
  <2>2. StoreSet(r, todo[r]) => task'[r].status = todo[r]
    BY <1>0, <1>v, MergeType DEF StoreSet, TaskStoreTypeOK
  <2>3. task'[r].status = "success" => Worked(r)'
    <3>1. task'[r].status = "success" => Worked(r)
      BY <1>0, <1>11, <1>v, <2>2 DEF CutShort, StoreDrop, JobAt
    <3> QED
      BY <1>h, <1>v, <1>11, <3>1 DEF Worked, AskedFor, Resizing, nova, handler
  <2>4. ASSUME NEW n \in 0 .. MaxTries, NEW call \in SdkJobCalls,
               <<r, n, call>> \in late'
        PROVE  /\ op'[r] = OperationOf(call)
               /\ \/ "worker_crash" \in Faults
                  \/ st = "timeout" /\ task'[r].status # "success"
    <3>1. CASE <<r, n, call>> \in late
      BY <1>0, <1>v, <1>11, <3>1 DEF JobAt, LateAt
    <3>2. CASE jpc[r] = call
      <4>1. op[r] = OperationOf(call) /\ task[r].status # "success"
        BY <1>0, <1>11, <3>2 DEF JobAt, OperationOf, SdkJobCalls
      <4>2. task' = task
        BY <1>11, <3>2 DEF CutShort, StoreDrop, SdkJobCalls
      <4> QED
        BY <1>v, <1>11, <4>1, <4>2
    <3> QED
      BY <1>11, <2>4, <3>1, <3>2 DEF CutShort
  <2>5. LateAt(r)'
    BY <2>1, <2>4 DEF LateAt
  <2> QED
    BY <1>0, <1>n, <2>1, <2>3, <2>5 DEF JobAt
<1>12. CASE ArqTimeout(r) \/ WorkerCrash(r)
  BY <1>11, <1>12 DEF ArqTimeout, WorkerCrash
<1>13. ASSUME NEW n \in 0 .. MaxTries, NEW call \in SdkJobCalls,
              LateCall(r, n, call)
       PROVE  JobAt(r)'
  <2>0. UNCHANGED <<task, jst, jpc, todo>> /\ late' \subseteq late
    BY <1>13 DEF LateCall, store
  <2>1. \/ "worker_crash" \in Faults
        \/ jst[r] = "timeout" /\ task[r].status # "success"
    BY <1>0, <1>13 DEF LateCall, JobAt, LateAt
  <2>2. LateAt(r)'
    BY <1>0, <1>v, <2>0 DEF JobAt, LateAt
  <2>3. \/ task[r].status = "success"
        \/ jst[r] = "running" /\ todo[r] = "success"
        => Worked(r)'
    <3>1. \/ task[r].status = "success"
          \/ jst[r] = "running" /\ todo[r] = "success"
          => Worked(r) /\ "worker_crash" \in Faults
      BY <1>0, <1>v, <2>1 DEF JobAt
    <3> QED
      BY <1>v, <1>w, <3>1
  <2> QED
    BY <1>0, <1>n, <1>v, <2>0, <2>1, <2>2, <2>3 DEF JobAt
<1> QED
  BY <1>x, <1>1, <1>2, <1>3, <1>4, <1>5, <1>6, <1>7, <1>8, <1>9, <1>10, <1>12,
     <1>13
  DEF JobNext, EnvironmentOf

\* The inductive invariant behind the theorems about success and refusals.
THEOREM TruthInvHolds == Spec => []TruthInv
<1>1. Init => TruthInv
  <2> SUFFICES ASSUME Init PROVE TruthInv
    OBVIOUS
  <2>1. \A s \in Servers : ServerFacts(s)
    BY DEF Init, NovaInit, ServerFacts, Resizing
  <2>2. \A r \in Requests : Begun(r)
    BY DEF Init, TaskStoreInit, Begun, JobOperations
  <2>3. \A r \in Requests : JobAt(r)
    BY DEF Init, TaskStoreInit, NovaInit, JobAt, LateAt, JobOperations
  <2> QED
    BY <2>1, <2>2, <2>3 DEF TruthInv
<1>2. TypeInv /\ TrackInv /\ TruthInv /\ [Next]_vars => TruthInv'
  <2> SUFFICES ASSUME TypeInv, TrackInv, TruthInv, [Next]_vars PROVE TruthInv'
    OBVIOUS
  <2>1. ASSUME NEW r \in Requests,
               HandlerNext(r) \/ JobNext(r) \/ EnvironmentOf(r)
        PROVE  TruthInv'
    <3>1. /\ \A s \in Servers : ServerFacts(s)' /\ Grows(s)
          /\ \A q \in Requests : q # r => (q \in confirmed' <=> q \in confirmed)
      BY <2>1, NovaStable
    <3>2. Begun(r)' /\ JobAt(r)'
      BY <2>1, HandlerTruth, JobTruth DEF EnvironmentOf
    <3>3. ASSUME NEW q \in Requests, q # r PROVE Begun(q)' /\ JobAt(q)'
      BY <2>1, <3>1, <3>3, Locality, AskedForGood, OthersTruth
    <3> QED
      BY <3>1, <3>2, <3>3 DEF TruthInv
  <2>2. ASSUME NEW s \in Servers, NovaStep(s)
        PROVE  TruthInv'
    <3>1. /\ UNCHANGED <<store, handler, worker>> /\ confirmed' = confirmed
          /\ NovaSettle(s) \/ NovaPurge(s)
      BY <2>2 DEF NovaStep, NovaSettle, NovaPurge
    <3>2. \A q \in Requests, i \in Servers : AskedFor(q, i) => AskedFor(q, i)'
      BY <3>1 DEF AskedFor, handler
    <3>3. ASSUME NEW q \in Requests PROVE Begun(q)' /\ JobAt(q)'
      <4>1. Untouched(q)
        BY <3>1 DEF Untouched, store, handler, worker
      <4>2. \A i \in Servers : Grows(i)
        BY <3>1, <3>3, CallGrows DEF TypeInv
      <4> QED
        BY <3>1, <3>2, <4>1, <4>2, OthersTruth
    <3>4. ASSUME NEW i \in Servers PROVE ServerFacts(i)'
      BY <3>1, <3>2, <3>4, CallFacts DEF TypeInv, TruthInv
    <3> QED
      BY <3>3, <3>4 DEF TruthInv
  <2>3. CASE UNCHANGED vars
    BY <2>3 DEF vars, TruthInv, ServerFacts, Begun, JobAt, LateAt, Worked,
      AskedFor, Resizing, Live
  <2> QED
    BY <2>1, <2>2, <2>3 DEF Next, Environment, EnvironmentOf
<1> QED
  BY <1>1, <1>2, TypeInvHolds, TrackInvHolds, PTL DEF Spec

-----------------------------------------------------------------------------
(* What success, an error text and a refusal mean.                         *)

\* Whatever is lost, retried or expires on the way, a create_vm task that reads
\* success is about a server that has been ACTIVE.
THEOREM CreateSuccess == Spec => []CreateSuccessWasActive
<1>1. TruthInv => CreateSuccessWasActive
  BY DEF TruthInv, JobAt, Worked, JobOperations, CreateSuccessWasActive
<1> QED
  BY <1>1, TruthInvHolds, PTL

\* ... a delete_vm task that reads success is about a server that Nova is
\* deleting or has deleted, whatever other requests do to it.
THEOREM DeleteSuccess == Spec => []DeleteSuccessIsDeleted
<1>1. TruthInv => DeleteSuccessIsDeleted
  BY DEF TruthInv, JobAt, Worked, JobOperations, DeleteSuccessIsDeleted
<1> QED
  BY <1>1, TruthInvHolds, PTL

\* ... and a resize_vm task that reads success is about a server with a flavor
\* that a resize_vm request for it asked for, and keeps being so.
THEOREM ResizeSuccess == Spec => []ResizeSuccessTookEffect
<1>1. TruthInv => ResizeSuccessTookEffect
  BY DEF TruthInv, JobAt, Worked, AskedFor, JobOperations,
    ResizeSuccessTookEffect
<1> QED
  BY <1>1, TruthInvHolds, PTL

\* A request answered with 404, 409 or 422 has left no record, no job and no
\* server behind, and never will.
THEOREM Refusals == Spec => []RefusalLeavesNothing
<1>1. TruthInv => RefusalLeavesNothing
  BY DEF TruthInv, Begun, RefusalLeavesNothing
<1> QED
  BY <1>1, TruthInvHolds, PTL

\* A step of a request keeps what ErrorAt says of it: update() keeps an error
\* text it has read, but only a run after one that failed can read one.
LEMMA ErrorStep ==
  ASSUME TypeInv, TrackInv, TruthInv, NEW r \in Requests, ErrorAt(r),
         HandlerNext(r) \/ JobNext(r) \/ EnvironmentOf(r)
  PROVE  ErrorAt(r)'
<1>0. /\ TaskStoreTypeOK /\ HandlerTypeOK /\ WorkerTypeOK /\ Sequenced(r)
      /\ todo[r] \in TaskStatus
  BY DEF TypeInv, TrackInv, WorkerTypeOK
<1>t. /\ task[r] \in Records /\ raw[r] \in Records
      /\ Absent \in Records /\ ~Absent.error /\ Absent.status = "absent"
  BY <1>0 DEF TaskStoreTypeOK, Records, Absent
<1>s. ASSUME NEW st \in TaskStatus, StoreSet(r, st)
      PROVE  /\ task'[r].status = st /\ raw'[r] = Absent
             /\ task'[r].error <=> raw[r].error \/ st = "failed"
  BY <1>0, <1>t, <1>s DEF StoreSet, Merge, TaskStoreTypeOK, Records
<1> USE <1>0, <1>t DEF TaskStoreTypeOK, HandlerTypeOK, WorkerTypeOK, ErrorAt
<1>1. CASE HandlerNext(r) /\ ~CreateTask(r) /\ ~SnapshotGet(r) /\ ~SnapshotSet(r)
  <2>1. /\ UNCHANGED store /\ hpc[r] # "done" /\ jst[r] = "none"
        /\ jst'[r] \in {"none", "queued"}
    BY <1>1 DEF HandlerNext, Receive, CheckVm, CreateServer, EnqueueJob,
      PowerAction, GetConsole, CreateImage, Sequenced, worker
  <2> QED
    BY <2>1 DEF store
<1>2. CASE CreateTask(r)
  BY <1>2 DEF CreateTask, StoreCreate, Sequenced, worker, store
<1>3. CASE SnapshotGet(r)
  BY <1>3 DEF SnapshotGet, StoreGet, Sequenced, worker, store
<1>4. CASE SnapshotSet(r)
  <2>1. /\ hpc[r] = "set" /\ jst'[r] = "none"
        /\ StoreSet(r, "success") \/ StoreDrop(r)
    BY <1>4 DEF SnapshotSet, Sequenced, worker
  <2> QED
    BY <1>s, <2>1 DEF StoreDrop, TaskStatus, Terminal
<1>5. CASE ApiCrash(r)
  BY <1>5 DEF ApiCrash, StoreDrop, Sequenced, worker
<1>6. CASE JobGet(r)
  <2>1. /\ jst[r] = "running" /\ hpc'[r] = "done" /\ task' = task
        /\ raw'[r] \in {raw[r], task[r]}
    BY <1>6 DEF JobGet, Alive, StoreGet, Sequenced, store, handler
  <2>2. \/ jst'[r] = "running" /\ todo'[r] \in {todo[r], "failed"}
        \/ jst'[r] = "raised"
    BY <1>6, <2>1 DEF JobGet, UpdateRaises, Step, Write, EndRun
  <2> QED
    BY <2>1, <2>2
<1>7. CASE JobSet(r)
  <2>1. /\ jst[r] = "running" /\ hpc'[r] = "done"
        /\ StoreSet(r, todo[r]) \/ StoreDrop(r)
    BY <1>7 DEF JobSet, Alive, Sequenced, handler
  <2>2. \/ jst'[r] = "running" /\ todo'[r] \in {todo[r], "failed"}
        \/ jst'[r] = "raised"
    BY <1>7, <2>1 DEF JobSet, UpdateRaises, Step, Write, EndRun
  <2> QED
    BY <1>s, <2>1, <2>2 DEF StoreDrop
<1>8. CASE ArqTimeout(r) \/ WorkerCrash(r)
  <2>1. /\ jst[r] = "running" /\ hpc'[r] = "done"
        /\ jst'[r] = "timeout" \/ "worker_crash" \in Faults
        /\ StoreSet(r, todo[r]) \/ StoreDrop(r)
    BY <1>8 DEF ArqTimeout, WorkerCrash, CutShort, EndRun, Sequenced, handler
  <2> QED
    BY <1>s, <2>1 DEF StoreDrop
<1>9. CASE JobNext(r) /\ ~JobGet(r) /\ ~JobSet(r) /\ ~ArqTimeout(r)
  <2>1. UNCHANGED store /\ hpc'[r] = "done"
    BY <1>9 DEF JobNext, StartJob, GiveUp, PollSleep, Poll, PollTimesOut,
      DeleteServer, ResizeServer, ResizeWait, ConfirmResize, FinishJob, Alive,
      Sequenced, handler
  <2>2. \/ jst[r] = "queued" /\ jst'[r] \in {"running", "gave_up"}
        \/ jst[r] = "running" /\ jst'[r] = "running" /\ todo[r] # "failed"
        \/ jst'[r] = "ok"
    BY <1>9 DEF TruthInv, JobAt, JobNext, StartJob, GiveUp, PollSleep, Poll,
      PollTimesOut,
      DeleteServer, ResizeServer, ResizeWait, ConfirmResize, FinishJob, Alive,
      Step, Write, EndRun, Sleep
  <2> QED
    BY <2>1, <2>2 DEF store
<1>10. CASE Stall(r) \/ \E n \in 0 .. MaxTries, call \in SdkJobCalls : LateCall(r, n, call)
  BY <1>10 DEF Stall, LateCall, store, handler
<1>11. CASE Expire(r)
  BY <1>11 DEF Expire, StoreExpire, handler, worker
<1> QED
  BY <1>1, <1>2, <1>3, <1>4, <1>5, <1>6, <1>7, <1>8, <1>9, <1>10, <1>11
  DEF HandlerNext, EnvironmentOf

\* An error text and the status failed go together.
THEOREM ErrorInvHolds == Spec => []ErrorInv
<1>1. Init => ErrorInv
  <2> SUFFICES ASSUME Init, NEW r \in Requests PROVE ErrorAt(r)
    BY DEF ErrorInv
  <2>1. Absent.status # "failed" /\ ~Absent.error
    BY DEF Absent
  <2>2. task[r] = Absent /\ raw[r] = Absent
    BY DEF Init, TaskStoreInit
  <2> QED
    BY <2>1, <2>2 DEF ErrorAt
<1>2. TypeInv /\ TrackInv /\ TruthInv /\ ErrorInv /\ [Next]_vars => ErrorInv'
  <2> SUFFICES ASSUME TypeInv, TrackInv, TruthInv, ErrorInv, [Next]_vars
               PROVE  ErrorInv'
    OBVIOUS
  <2>0. ASSUME NEW q \in Requests, Untouched(q) PROVE ErrorAt(q)'
    BY <2>0 DEF ErrorInv, ErrorAt, Untouched
  <2>1. ASSUME NEW r \in Requests,
               HandlerNext(r) \/ JobNext(r) \/ EnvironmentOf(r)
        PROVE  ErrorInv'
    <3>1. ErrorAt(r)'
      BY <2>1, ErrorStep DEF ErrorInv
    <3>2. ASSUME NEW q \in Requests, q # r PROVE ErrorAt(q)'
      BY <2>0, <2>1, <3>2, Locality
    <3> QED
      BY <3>1, <3>2 DEF ErrorInv
  <2>2. CASE UNCHANGED <<store, handler, worker>>
    <3>1. \A q \in Requests : Untouched(q)
      BY <2>2 DEF Untouched, store, handler, worker
    <3> QED
      BY <2>0, <3>1 DEF ErrorInv
  <2>3. CASE UNCHANGED vars
    <3>1. UNCHANGED <<store, handler, worker>>
      BY <2>3 DEF vars, store, handler, worker
    <3> QED
      BY <2>2, <3>1
  <2> QED
    BY <2>1, <2>2, <2>3 DEF Next, Environment, EnvironmentOf, NovaStep
<1> QED
  BY <1>1, <1>2, TypeInvHolds, TrackInvHolds, TruthInvHolds, PTL DEF Spec

\* A task that reads failed always says why; one that carries an error reads
\* failed, as long as arq does not run a job again.
THEOREM Errors == Spec => []ErrorMatchesStatus
<1>1. ErrorInv => ErrorMatchesStatus
  BY DEF ErrorInv, ErrorAt, ErrorMatchesStatus
<1> QED
  BY <1>1, ErrorInvHolds, PTL

-----------------------------------------------------------------------------
(* What is left behind.                                                    *)

\* A request that accounts for the server it made goes on doing so.
LEMMA AccountedStep ==
  ASSUME TypeInv, TrackInv, TruthInv, NEW r \in Requests,
         HandlerNext(r) \/ JobNext(r) \/ EnvironmentOf(r),
         op[r] = "create_vm", vm[r] \in Servers, Accounted(r)
  PROVE  op'[r] = "create_vm" /\ vm'[r] = vm[r] /\ Accounted(r)'
<1>0. HandlerTypeOK /\ WorkerTypeOK /\ Sequenced(r) /\ Begun(r)
  BY DEF TypeInv, TrackInv, TruthInv
<1>n. hpc[r] \notin {"idle", "create_server"}
  BY <1>0, NoServerAssumption DEF Begun
<1> USE <1>0, <1>n DEF HandlerTypeOK, WorkerTypeOK, Accounted
<1>1. CASE CreateTask(r)
  BY <1>1 DEF CreateTask, Goto, Fail, Answer, HttpStatus, worker, JobOperations
<1>2. CASE EnqueueJob(r)
  BY <1>2 DEF EnqueueJob, Fail, Answer, HttpStatus
<1>3. CASE ApiCrash(r)
  BY <1>3 DEF ApiCrash, Sequenced, worker
<1>4. CASE HandlerNext(r) /\ ~CreateTask(r) /\ ~EnqueueJob(r)
  <2>1. hpc[r] \notin {"task", "enqueue", "done"}
    BY <1>4 DEF HandlerNext, Receive, CheckVm, CreateServer, PowerAction,
      GetConsole, CreateImage, SnapshotGet, SnapshotSet
  <2> QED
    BY <2>1 DEF Sequenced
<1>5. CASE JobNext(r) \/ (EnvironmentOf(r) /\ ~ApiCrash(r))
  <2>1. UNCHANGED handler
    BY <1>5 DEF JobNext, EnvironmentOf, StartJob, GiveUp, JobGet, JobSet,
      PollSleep, Poll, PollTimesOut, DeleteServer, ResizeServer, ResizeWait,
      ConfirmResize, FinishJob, ArqTimeout, CutShort, Stall, WorkerCrash,
      Expire, LateCall
  <2>2. jst'[r] # "none" \/ jst'[r] = jst[r]
    BY <1>5 DEF JobNext, EnvironmentOf, StartJob, GiveUp, JobGet, JobSet,
      PollSleep, Poll, PollTimesOut, DeleteServer, ResizeServer, ResizeWait,
      ConfirmResize, FinishJob, ArqTimeout, CutShort, Stall, WorkerCrash,
      Expire, LateCall,
      Step, Write, EndRun, UpdateRaises, worker
  <2> QED
    BY <2>1, <2>2 DEF handler
<1> QED
  BY <1>1, <1>2, <1>3, <1>4, <1>5

\* No server is silently forgotten, whatever fails: it has a job, or its maker
\* was told of an error or got no answer.
THEOREM NoOrphans == Spec => []NoSilentOrphan
<1>1. Init => NoSilentOrphan
  BY DEF Init, NovaInit, NoSilentOrphan
<1>2. TypeInv /\ TrackInv /\ TruthInv /\ NoSilentOrphan /\ [Next]_vars
        => NoSilentOrphan'
  <2> SUFFICES ASSUME TypeInv, TrackInv, TruthInv, NoSilentOrphan, [Next]_vars,
                      NEW s \in Servers \ Existing, srv'[s].status # "none"
               PROVE  \E r \in Requests :
                        op'[r] = "create_vm" /\ vm'[r] = s /\ Accounted(r)'
    BY DEF NoSilentOrphan, Accounted
  <2>0. srv[s].status # "none" =>
          \E r \in Requests : op[r] = "create_vm" /\ vm[r] = s /\ Accounted(r)
    BY DEF NoSilentOrphan, Accounted
  <2>1. ASSUME NEW r \in Requests,
               HandlerNext(r) \/ JobNext(r) \/ EnvironmentOf(r)
        PROVE  \E q \in Requests :
                 op'[q] = "create_vm" /\ vm'[q] = s /\ Accounted(q)'
    <3>1. CASE srv[s].status # "none"
      <4>1. PICK q \in Requests : op[q] = "create_vm" /\ vm[q] = s /\ Accounted(q)
        BY <2>0, <3>1
      <4>2. CASE q = r
        BY <2>1, <4>1, <4>2, AccountedStep
      <4>3. CASE q # r
        BY <2>1, <4>1, <4>3, Locality DEF Untouched, Accounted
      <4> QED
        BY <4>2, <4>3
    <3>2. CASE srv[s].status = "none"
      <4>1. CreateServer(r) /\ vm'[r] = s
        <5>1. PICK i \in Servers : CallsOf(r, i)
          BY <2>1, <3>2, StepCalls DEF nova
        <5>2. NovaCreate(i) => i = s
          BY <3>2 DEF NovaCreate, Become, TypeInv, NovaTypeOK
        <5>3. ~NovaDelete(i) /\ ~NovaResize(i, r) /\ ~NovaConfirm(i, r)
          BY <3>2 DEF NovaDelete, NovaResize, NovaConfirm, Accepts, Become,
            TypeInv, NovaTypeOK, ServerRecords
        <5>4. \A a \in PowerActions : ~NovaPower(i, a)
          BY <3>2 DEF NovaPower, Accepts, PowerActions, Become, TypeInv,
            NovaTypeOK, ServerRecords
        <5> QED
          BY <5>1, <5>2, <5>3, <5>4 DEF CallsOf, TypeInv, HandlerTypeOK
      <4>2. op'[r] = "create_vm" /\ Accounted(r)'
        <5>1. /\ vm'[r] # vm[r] /\ hpc[r] = "create_server"
              /\ op[r] = "create_vm" /\ HandlerTypeOK
          BY <4>1, NoServerAssumption DEF CreateServer, TypeInv, TrackInv,
            Sequenced, TruthInv, Begun
        <5> QED
          BY <4>1, <5>1 DEF CreateServer, Goto, Fail, Answer, HttpStatus,
            Accounted, HandlerTypeOK
      <4> QED
        BY <4>1, <4>2
    <3> QED
      BY <3>1, <3>2
  <2>2. ASSUME NEW i \in Servers, NovaStep(i)
        PROVE  \E q \in Requests :
                 op'[q] = "create_vm" /\ vm'[q] = s /\ Accounted(q)'
    <3>1. srv[s].status # "none"
      BY <2>2 DEF NovaStep, NovaSettle, Settles, Become, NovaPurge, Visible,
        Statuses, TypeInv, NovaTypeOK, ServerRecords
    <3>2. UNCHANGED <<handler, worker>>
      BY <2>2 DEF NovaStep
    <3> QED
      BY <2>0, <3>1, <3>2 DEF Accounted, handler, worker
  <2>3. CASE UNCHANGED vars
    BY <2>0, <2>3 DEF vars, Accounted
  <2> QED
    BY <2>1, <2>2, <2>3 DEF Next, Environment, EnvironmentOf
<1> QED
  BY <1>1, <1>2, TypeInvHolds, TrackInvHolds, TruthInvHolds, PTL DEF Spec

\* With worker processes and Redis at work and no call slow, whatever fails and
\* whoever interferes, a task that its job has left open is a create_vm task
\* whose polling ran into job_timeout.  The delay of do_resize must be within
\* job_timeout, as 5 s are within arq's 300 s; the polling loop need not be, as
\* its 300 s are not.
THEOREM OnlyCreates ==
  ASSUME Faults \cap {"redis", "worker_crash", "stall"} = {},
         ResizeConfirmDelay < JobTimeout
  PROVE  Spec => []OnlyCreatesStranded
<1>1. AckedTaskTracked /\ TrackInv => OnlyCreatesStranded
  <2> SUFFICES ASSUME AckedTaskTracked, TrackInv, NEW r \in Requests, Acked(r),
                      Open(r), jst[r] \notin {"queued", "running"}
               PROVE  jst[r] = "timeout" /\ op[r] = "create_vm"
    BY DEF OnlyCreatesStranded
  <2>1. jst[r] = "timeout" /\ JobTimeout <= SleepsUpTo(op[r])
    BY DEF AckedTaskTracked, RedisMayFail
  <2>2. op[r] # "create_vm" => SleepsUpTo(op[r]) < JobTimeout
    BY TimesAssumption DEF SleepsUpTo
  <2> QED
    BY <2>1, <2>2, TimesAssumption DEF SleepsUpTo
<1> QED
  BY <1>1, TrackInvHolds, TasksAreTracked, PTL
=============================================================================
