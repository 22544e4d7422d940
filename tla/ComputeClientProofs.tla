------------------------ MODULE ComputeClientProofs ------------------------
(***************************************************************************)
(* What holds of ComputeClient for any number of requests and servers, any *)
(* time limits and any set of faults.                                      *)
(***************************************************************************)
EXTENDS ComputeClient, TLAPS

-----------------------------------------------------------------------------
(* The steps of the task store and of Nova keep their types.               *)

\* Merge, the record that update() writes back, is a record with that status.
LEMMA MergeType ==
  ASSUME NEW rec \in Records, NEW st \in TaskStatus
  PROVE  Merge(rec, st) \in Records /\ Merge(rec, st).status = st
BY DEF Merge, Records, TaskStatus, Terminal

\* Each of the task store's commands leaves records in Redis and in raw.
LEMMA StoreType ==
  ASSUME NEW r \in Requests, TaskStoreTypeOK,
         \/ StoreCreate(r) \/ StoreGet(r) \/ StoreDrop(r) \/ StoreExpire(r)
         \/ \E st \in TaskStatus : StoreSet(r, st)
         \/ UNCHANGED store
  PROVE  TaskStoreTypeOK'
<1> USE DEF TaskStoreTypeOK
<1>1. Absent \in Records
  BY DEF Absent, Records
<1>2. CASE StoreCreate(r)
  BY <1>2 DEF StoreCreate, Records, TaskStatus
<1>3. CASE StoreGet(r)
  BY <1>3 DEF StoreGet
<1>4. CASE StoreDrop(r)
  BY <1>1, <1>4 DEF StoreDrop
<1>5. CASE StoreExpire(r)
  BY <1>1, <1>5 DEF StoreExpire
<1>6. ASSUME NEW st \in TaskStatus, StoreSet(r, st)
      PROVE  TaskStoreTypeOK'
  BY <1>1, <1>6, MergeType DEF StoreSet
<1>7. CASE UNCHANGED store
  BY <1>7 DEF store
<1> QED
  BY <1>2, <1>3, <1>4, <1>5, <1>6, <1>7

\* A server that enters a known status keeps Nova's types.
LEMMA BecomeType ==
  ASSUME NEW s \in Servers, NEW st \in Statuses \cup {"none", "gone"},
         NovaTypeOK, Become(s, st)
  PROVE  srv' \in [Servers -> ServerRecords] /\ everActive' \subseteq Servers
BY DEF NovaTypeOK, Become, ServerRecords

\* So does every step of Nova's own ...
LEMMA NovaOwnType ==
  ASSUME NEW s \in Servers, NovaTypeOK, NovaSettle(s) \/ NovaPurge(s)
  PROVE  NovaTypeOK'
<1>1. CASE NovaSettle(s)
  <2>1. PICK st \in Settles(srv[s].status) :
          /\ Become(s, st)
          /\ resizer' = IF st = "VERIFY_RESIZE" THEN resizer
                        ELSE [resizer EXCEPT ![s] = NoRequest]
          /\ flavor' = IF st = "VERIFY_RESIZE" THEN [flavor EXCEPT ![s] = resizer[s]]
                       ELSE flavor
    BY <1>1 DEF NovaSettle
  <2>2. st \in Statuses
    BY <2>1 DEF Settles, Statuses
  <2> QED
    BY <1>1, <2>1, <2>2, BecomeType DEF NovaSettle, NovaTypeOK
<1>2. CASE NovaPurge(s)
  BY <1>2 DEF NovaPurge, NovaTypeOK, ServerRecords
<1> QED
  BY <1>1, <1>2

\* ... and every call of the SDK.
LEMMA NovaType ==
  ASSUME NEW s \in Servers, NEW r \in Requests, NovaTypeOK,
         \/ NovaCreate(s) \/ NovaDelete(s) \/ NovaResize(s, r)
         \/ NovaConfirm(s, r)
         \/ \E a \in PowerActions : NovaPower(s, a)
         \/ UNCHANGED nova
  PROVE  NovaTypeOK'
<1>1. CASE NovaCreate(s)
  BY <1>1, BecomeType DEF NovaCreate, NovaTypeOK, Statuses
<1>2. CASE NovaDelete(s)
  BY <1>2 DEF NovaDelete, NovaTypeOK, ServerRecords
<1>3. CASE NovaResize(s, r)
  BY <1>3, BecomeType DEF NovaResize, NovaTypeOK, Statuses
<1>4. CASE NovaConfirm(s, r)
  BY <1>4, BecomeType DEF NovaConfirm, NovaTypeOK, Statuses
<1>5. ASSUME NEW a \in PowerActions, NovaPower(s, a)
      PROVE  NovaTypeOK'
  <2>1. AfterPower(a) \in Statuses
    BY DEF PowerActions, AfterPower, Statuses
  <2> QED
    BY <1>5, <2>1, BecomeType DEF NovaPower, NovaTypeOK
<1>6. CASE UNCHANGED nova
  BY <1>6 DEF nova, NovaTypeOK
<1> QED
  BY <1>1, <1>2, <1>3, <1>4, <1>5, <1>6

-----------------------------------------------------------------------------
(* Type correctness.                                                       *)

HandlerTypeOK ==
  /\ op \in [Requests -> AllOperations \cup {"none"}]
  /\ vm \in [Requests -> Servers \cup {NoServer}]
  /\ hpc \in [Requests -> HandlerSteps]
  /\ resp \in [Requests -> Codes]

WorkerTypeOK ==
  /\ jst \in [Requests -> JobStates]
  /\ jpc \in [Requests -> JobSteps]
  /\ todo \in [Requests -> TaskStatus]
  /\ elapsed \in [Requests -> Nat]
  /\ age \in [Requests -> Nat]
  /\ tries \in [Requests -> 0 .. MaxTries]
  /\ late \subseteq Requests \X (0 .. MaxTries) \X SdkJobCalls

\* A request has a server once its handler or its job is about to use it.
TargetKnown(r) ==
  /\ hpc[r] \in {"check", "task", "enqueue", "act", "snap"} => vm[r] \in Servers
  /\ jst[r] # "none" => vm[r] \in Servers
  /\ \A n \in 0 .. MaxTries, call \in SdkJobCalls :
       <<r, n, call>> \in late => vm[r] \in Servers

TypeInv ==
  /\ TaskStoreTypeOK /\ NovaTypeOK /\ HandlerTypeOK /\ WorkerTypeOK
  /\ \A r \in Requests : TargetKnown(r)

\* HttpStatus maps every exception the handlers can raise to a status code.
LEMMA HttpStatusType ==
  ASSUME NEW exc \in {"VMNotFoundError", "InvalidVMStateError",
                      "VMOperationError", "OpenStackConnectionError",
                      "NotFoundException", "ConflictException", "RedisError"}
  PROVE  HttpStatus(exc) \in {"404", "409", "500", "502", "503"}
BY DEF HttpStatus

\* Answering keeps the handler's types.
LEMMA AnswerType ==
  ASSUME NEW r \in Requests, NEW code \in Codes, HandlerTypeOK, Answer(r, code)
  PROVE  /\ hpc' \in [Requests -> HandlerSteps]
         /\ resp' \in [Requests -> Codes]
BY DEF HandlerTypeOK, Answer, HandlerSteps

\* So does moving on to another step.
LEMMA GotoType ==
  ASSUME NEW r \in Requests, NEW st \in HandlerSteps, HandlerTypeOK, Goto(r, st)
  PROVE  /\ hpc' \in [Requests -> HandlerSteps]
         /\ resp' \in [Requests -> Codes]
BY DEF HandlerTypeOK, Goto

\* A handler's step keeps types: what the handler itself may change.
LEMMA HandlerType ==
  ASSUME TypeInv, NEW r \in Requests, HandlerNext(r) \/ ApiCrash(r)
  PROVE  HandlerTypeOK'
<1> USE DEF TypeInv
<1>0. \A st \in {"404", "409", "422", "500", "502", "503", "200", "202"} : st \in Codes
  BY DEF Codes
<1>1. CASE Receive(r)
  <2> USE DEF HandlerTypeOK
  <2>1. PICK o \in Operations :
       /\ op' = [op EXCEPT ![r] = o]
       /\ \/ /\ o \in WithBody
             /\ UNCHANGED vm
             /\ Answer(r, "422")
          \/ /\ o = "create_vm"
             /\ UNCHANGED vm
             /\ \/ Goto(r, "create_server")
                \/ ~DefaultNetwork /\ Fail(r, "VMOperationError")
          \/ /\ o # "create_vm"
             /\ \E s \in Servers : vm' = [vm EXCEPT ![r] = s]
             /\ Goto(r, IF o = "console" THEN "act" ELSE "check")
    BY <1>1 DEF Receive
  <2>2. op' \in [Requests -> AllOperations \cup {"none"}]
    BY <2>1, OperationsAssumption
  <2>3. vm' \in [Requests -> Servers \cup {NoServer}]
    BY <2>1
  <2>4. hpc' \in [Requests -> HandlerSteps] /\ resp' \in [Requests -> Codes]
    BY <2>1, <1>0, AnswerType, GotoType, HttpStatusType DEF Fail, HandlerSteps
  <2> QED
    BY <2>2, <2>3, <2>4
<1>2. CASE CheckVm(r)
  BY <1>2, <1>0, AnswerType, GotoType, HttpStatusType
  DEF CheckVm, Fail, HandlerSteps, SdkErrors, HandlerTypeOK
<1>3. CASE CreateServer(r)
  BY <1>3, <1>0, AnswerType, GotoType, HttpStatusType
  DEF CreateServer, Fail, HandlerSteps, SdkErrors, HandlerTypeOK
<1>4. CASE CreateTask(r)
  BY <1>4, <1>0, AnswerType, GotoType, HttpStatusType
  DEF CreateTask, Fail, HandlerSteps, HandlerTypeOK
<1>5. CASE EnqueueJob(r)
  BY <1>5, <1>0, AnswerType, HttpStatusType
  DEF EnqueueJob, Fail, HandlerTypeOK
<1>6. CASE PowerAction(r)
  BY <1>6, <1>0, AnswerType, HttpStatusType
  DEF PowerAction, Fail, SdkErrors, HandlerTypeOK
<1>7. CASE GetConsole(r)
  BY <1>7, <1>0, AnswerType, HttpStatusType
  DEF GetConsole, Fail, Refusal, SdkErrors, HandlerTypeOK
<1>8. CASE CreateImage(r)
  BY <1>8, <1>0, AnswerType, GotoType, HttpStatusType
  DEF CreateImage, Fail, Refusal, SdkErrors, HandlerSteps, HandlerTypeOK
<1>9. CASE SnapshotGet(r)
  BY <1>9, <1>0, AnswerType, GotoType, HttpStatusType
  DEF SnapshotGet, Fail, HandlerSteps, HandlerTypeOK
<1>10. CASE SnapshotSet(r)
  BY <1>10, <1>0, AnswerType, HttpStatusType
  DEF SnapshotSet, Fail, HandlerTypeOK
<1>11. CASE ApiCrash(r)
  BY <1>11 DEF ApiCrash, HandlerSteps, HandlerTypeOK
<1> QED
  BY <1>1, <1>2, <1>3, <1>4, <1>5, <1>6, <1>7, <1>8, <1>9, <1>10, <1>11
  DEF HandlerNext

\* The local moves of a job keep the worker's types.
LEMMA MoveType ==
  ASSUME NEW r \in Requests, WorkerTypeOK,
         \/ \E pc \in JobSteps : Step(r, pc)
         \/ \E st \in TaskStatus : Write(r, st)
         \/ \E st \in JobStates : EndRun(r, st) /\ UNCHANGED late
         \/ UpdateRaises(r)
  PROVE  WorkerTypeOK'
<1> USE DEF WorkerTypeOK
<1>1. ASSUME NEW pc \in JobSteps, Step(r, pc)
      PROVE  WorkerTypeOK'
  BY <1>1 DEF Step
<1>2. ASSUME NEW st \in TaskStatus, Write(r, st)
      PROVE  WorkerTypeOK'
  BY <1>2 DEF Write, JobSteps, JobCalls
<1>3. ASSUME NEW st \in JobStates, EndRun(r, st) /\ UNCHANGED late
      PROVE  WorkerTypeOK'
  BY <1>3 DEF EndRun, JobSteps, TaskStatus
<1>4. CASE UpdateRaises(r)
  <2>1. "failed" \in TaskStatus /\ "raised" \in JobStates
    BY DEF TaskStatus, Terminal, JobStates
  <2> QED
    BY <1>2, <1>3, <1>4, <2>1 DEF UpdateRaises
<1> QED
  BY <1>1, <1>2, <1>3, <1>4

\* An update is followed by a step of the job function.
LEMMA AfterUpdateType ==
  ASSUME NEW r \in Requests
  PROVE  AfterUpdate(r) \in JobSteps
BY DEF AfterUpdate, FirstStep, JobSteps, JobCalls, SdkJobCalls

\* A job's step, and what the environment does to a job, keeps types.
LEMMA WorkerType ==
  ASSUME TypeInv, NEW r \in Requests,
         \/ JobNext(r) \/ Stall(r) \/ WorkerCrash(r) \/ EnqueueJob(r)
         \/ \E n \in 0 .. MaxTries, call \in SdkJobCalls : LateCall(r, n, call)
  PROVE  WorkerTypeOK'
<1>0. WorkerTypeOK /\ TaskStoreTypeOK
  BY DEF TypeInv
<1>1. \A st \in {"success", "failed"} : st \in TaskStatus
  BY DEF TaskStatus, Terminal
<1>2. \A pc \in {"set", "sleep", "wait"} : pc \in JobSteps
  BY DEF JobSteps, JobCalls
<1>3. CASE StartJob(r)
  BY <1>0, <1>3, ArqAssumption
  DEF StartJob, WorkerTypeOK, JobStates, JobSteps, JobCalls, TaskStatus
<1>4. CASE GiveUp(r)
  BY <1>0, <1>4 DEF GiveUp, WorkerTypeOK, JobStates
<1>5. CASE JobGet(r)
  BY <1>0, <1>2, <1>5, MoveType, AfterUpdateType DEF JobGet
<1>6. CASE JobSet(r)
  BY <1>0, <1>6, MoveType, AfterUpdateType DEF JobSet
<1>7. CASE PollSleep(r)
  BY <1>0, <1>7, TimesAssumption
  DEF PollSleep, Sleep, WorkerTypeOK, JobSteps, JobCalls
<1>8. CASE Poll(r)
  BY <1>0, <1>1, <1>2, <1>8, MoveType DEF Poll
<1>9. CASE PollTimesOut(r)
  BY <1>0, <1>1, <1>9, MoveType DEF PollTimesOut
<1>10. CASE DeleteServer(r)
  BY <1>0, <1>1, <1>10, MoveType DEF DeleteServer
<1>11. CASE ResizeServer(r)
  BY <1>0, <1>1, <1>2, <1>11, MoveType DEF ResizeServer
<1>12. CASE ResizeWait(r)
  BY <1>0, <1>12, TimesAssumption
  DEF ResizeWait, Sleep, WorkerTypeOK, JobSteps, JobCalls, SdkJobCalls
<1>13. CASE ConfirmResize(r)
  BY <1>0, <1>1, <1>13, MoveType DEF ConfirmResize
<1>14. CASE FinishJob(r)
  BY <1>0, <1>14, MoveType DEF FinishJob, JobStates
<1>15. CASE ArqTimeout(r) \/ WorkerCrash(r)
  BY <1>0, <1>15
  DEF ArqTimeout, WorkerCrash, CutShort, EndRun, WorkerTypeOK, JobStates,
      JobSteps, TaskStatus
<1>16. CASE Stall(r)
  BY <1>0, <1>16, TimesAssumption DEF Stall, WorkerTypeOK
<1>17. CASE EnqueueJob(r)
  BY <1>0, <1>17 DEF EnqueueJob, WorkerTypeOK, JobStates
<1>18. CASE \E n \in 0 .. MaxTries, call \in SdkJobCalls : LateCall(r, n, call)
  BY <1>0, <1>18 DEF LateCall, WorkerTypeOK
<1> QED
  BY <1>3, <1>4, <1>5, <1>6, <1>7, <1>8, <1>9, <1>10, <1>11, <1>12, <1>13,
     <1>14, <1>15, <1>16, <1>17, <1>18
  DEF JobNext

\* What the environment does to request r.
EnvironmentOf(r) ==
  \/ ApiCrash(r) \/ Stall(r) \/ WorkerCrash(r) \/ Expire(r)
  \/ \E n \in 0 .. MaxTries, call \in SdkJobCalls : LateCall(r, n, call)

\* Every step keeps the types of the task store.
LEMMA StoreStep ==
  ASSUME TypeInv, NEW r \in Requests,
         HandlerNext(r) \/ JobNext(r) \/ EnvironmentOf(r)
  PROVE  TaskStoreTypeOK'
<1>0. TaskStoreTypeOK /\ todo[r] \in TaskStatus /\ "success" \in TaskStatus
  BY DEF TypeInv, WorkerTypeOK, TaskStatus, Terminal
<1>1. CASE CreateTask(r)
  BY <1>0, <1>1, StoreType DEF CreateTask
<1>2. CASE SnapshotGet(r)
  BY <1>0, <1>2, StoreType DEF SnapshotGet
<1>3. CASE SnapshotSet(r)
  BY <1>0, <1>3, StoreType DEF SnapshotSet
<1>4. CASE JobGet(r)
  BY <1>0, <1>4, StoreType DEF JobGet
<1>5. CASE JobSet(r)
  BY <1>0, <1>5, StoreType DEF JobSet
<1>6. CASE ArqTimeout(r) \/ WorkerCrash(r)
  BY <1>0, <1>6, StoreType DEF ArqTimeout, WorkerCrash, CutShort
<1>7. CASE ApiCrash(r) \/ Expire(r)
  BY <1>0, <1>7, StoreType DEF ApiCrash, Expire
<1>8. CASE \/ Receive(r) \/ CheckVm(r) \/ CreateServer(r) \/ EnqueueJob(r)
           \/ PowerAction(r) \/ GetConsole(r) \/ CreateImage(r)
  BY <1>0, <1>8, StoreType
  DEF Receive, CheckVm, CreateServer, EnqueueJob, PowerAction, GetConsole,
      CreateImage
<1>9. CASE \/ StartJob(r) \/ GiveUp(r) \/ PollSleep(r) \/ Poll(r)
           \/ PollTimesOut(r) \/ DeleteServer(r) \/ ResizeServer(r)
           \/ ResizeWait(r) \/ ConfirmResize(r) \/ FinishJob(r) \/ Stall(r)
           \/ \E n \in 0 .. MaxTries, call \in SdkJobCalls : LateCall(r, n, call)
  BY <1>0, <1>9, StoreType
  DEF StartJob, GiveUp, PollSleep, Poll, PollTimesOut, DeleteServer,
      ResizeServer, ResizeWait, ConfirmResize, FinishJob, Stall, LateCall
<1> QED
  BY <1>1, <1>2, <1>3, <1>4, <1>5, <1>6, <1>7, <1>8, <1>9
  DEF HandlerNext, JobNext, EnvironmentOf

\* Every step keeps Nova's types: the calls that change servers are made for a
\* server that is known.
LEMMA NovaTypeStep ==
  ASSUME TypeInv, NEW r \in Requests,
         HandlerNext(r) \/ JobNext(r) \/ EnvironmentOf(r)
  PROVE  NovaTypeOK'
<1>0. NovaTypeOK /\ TargetKnown(r)
  BY DEF TypeInv
<1>1. CASE CreateServer(r)
  <2>1. CASE UNCHANGED nova
    BY <1>0, <2>1 DEF nova, NovaTypeOK
  <2>2. CASE \E s \in Servers : NovaCreate(s)
    BY <1>0, <2>2, NovaType
  <2> QED
    BY <1>1, <2>1, <2>2 DEF CreateServer
<1>2. CASE PowerAction(r)
  BY <1>0, <1>2, NovaType DEF PowerAction, TargetKnown
<1>3. CASE DeleteServer(r)
  BY <1>0, <1>3, NovaType DEF DeleteServer, Alive, TargetKnown
<1>4. CASE ResizeServer(r)
  BY <1>0, <1>4, NovaType DEF ResizeServer, Alive, TargetKnown
<1>5. CASE ConfirmResize(r)
  BY <1>0, <1>5, NovaType DEF ConfirmResize, Alive, TargetKnown
<1>6. ASSUME NEW n \in 0 .. MaxTries, NEW call \in SdkJobCalls,
             LateCall(r, n, call)
      PROVE  NovaTypeOK'
  BY <1>0, <1>6, NovaType DEF LateCall, TargetKnown
<1>7. CASE \/ Receive(r) \/ CheckVm(r) \/ CreateTask(r) \/ EnqueueJob(r)
           \/ GetConsole(r) \/ CreateImage(r) \/ SnapshotGet(r)
           \/ SnapshotSet(r) \/ ApiCrash(r) \/ WorkerCrash(r) \/ Expire(r)
  <2>1. UNCHANGED nova
    BY <1>7 DEF Receive, CheckVm, CreateTask, EnqueueJob, GetConsole,
      CreateImage, SnapshotGet, SnapshotSet, ApiCrash, WorkerCrash, CutShort,
      Expire
  <2> QED
    BY <1>0, <2>1 DEF nova, NovaTypeOK
<1>8. CASE \/ StartJob(r) \/ GiveUp(r) \/ JobGet(r) \/ JobSet(r)
           \/ PollSleep(r) \/ Poll(r) \/ PollTimesOut(r) \/ ResizeWait(r)
           \/ FinishJob(r) \/ ArqTimeout(r) \/ Stall(r)
  <2>1. UNCHANGED nova
    BY <1>8 DEF StartJob, GiveUp, JobGet, JobSet, PollSleep, Poll,
      PollTimesOut, ResizeWait, FinishJob, ArqTimeout, CutShort, Stall
  <2> QED
    BY <1>0, <2>1 DEF nova, NovaTypeOK
<1> QED
  BY <1>1, <1>2, <1>3, <1>4, <1>5, <1>6, <1>7, <1>8
  DEF HandlerNext, JobNext, EnvironmentOf

\* A request keeps its target, and gets one before a step that uses it.
LEMMA TargetStep ==
  ASSUME TypeInv, NEW r \in Requests,
         HandlerNext(r) \/ JobNext(r) \/ EnvironmentOf(r)
  PROVE  \A q \in Requests : TargetKnown(q)'
<1>0. HandlerTypeOK /\ WorkerTypeOK /\ \A q \in Requests : TargetKnown(q)
  BY DEF TypeInv
<1> USE DEF TargetKnown
<1>1. CASE Receive(r)
  BY <1>0, <1>1
  DEF Receive, Goto, Fail, Answer, HandlerTypeOK, worker
<1>2. CASE CreateServer(r)
  BY <1>0, <1>2 DEF CreateServer, Goto, Fail, Answer, HandlerTypeOK, worker
<1>3. CASE \/ CheckVm(r) \/ CreateTask(r) \/ PowerAction(r) \/ GetConsole(r)
           \/ CreateImage(r) \/ SnapshotGet(r) \/ SnapshotSet(r) \/ ApiCrash(r)
  BY <1>0, <1>3
  DEF CheckVm, CreateTask, PowerAction, GetConsole, CreateImage, SnapshotGet,
      SnapshotSet, ApiCrash, Goto, Fail, Answer, HandlerTypeOK, worker
<1>4. CASE EnqueueJob(r)
  BY <1>0, <1>4
  DEF EnqueueJob, Fail, Answer, HandlerTypeOK, WorkerTypeOK
<1>5. CASE JobNext(r) \/ Stall(r) \/ WorkerCrash(r)
  <2>1. UNCHANGED handler
    BY <1>5 DEF JobNext, StartJob, GiveUp, JobGet, JobSet, PollSleep, Poll,
      PollTimesOut, DeleteServer, ResizeServer, ResizeWait, ConfirmResize,
      FinishJob, ArqTimeout, CutShort, Stall, WorkerCrash
  <2>2. jst[r] # "none"
    BY <1>5 DEF JobNext, StartJob, GiveUp, JobGet, JobSet, PollSleep, Poll,
      PollTimesOut, DeleteServer, ResizeServer, ResizeWait, ConfirmResize,
      FinishJob, ArqTimeout, CutShort, Stall, WorkerCrash, Alive
  <2>3. \A q \in Requests : q # r => jst'[q] = jst[q]
    BY <1>0, <1>5 DEF JobNext, StartJob, GiveUp, JobGet, JobSet, PollSleep,
      Poll, PollTimesOut, DeleteServer, ResizeServer, ResizeWait,
      ConfirmResize, FinishJob, ArqTimeout, CutShort, Stall, WorkerCrash,
      Step, Write,
      EndRun, UpdateRaises, WorkerTypeOK
  <2>4. \A q \in Requests, n \in 0 .. MaxTries, call \in SdkJobCalls :
          <<q, n, call>> \in late' => <<q, n, call>> \in late \/ q = r
    BY <1>5 DEF JobNext, StartJob, GiveUp, JobGet, JobSet, PollSleep, Poll,
      PollTimesOut, DeleteServer, ResizeServer, ResizeWait, ConfirmResize,
      FinishJob, ArqTimeout, CutShort, Stall, WorkerCrash, Step, Write, EndRun,
      UpdateRaises
  <2> QED
    BY <1>0, <2>1, <2>2, <2>3, <2>4 DEF handler
<1>6. CASE Expire(r) \/ \E n \in 0 .. MaxTries, call \in SdkJobCalls : LateCall(r, n, call)
  BY <1>0, <1>6 DEF Expire, LateCall, handler, worker
<1> QED
  BY <1>1, <1>2, <1>3, <1>4, <1>5, <1>6 DEF HandlerNext, EnvironmentOf

\* Type correctness, with the fact that makes it inductive: a request has a
\* server by the time a step of its handler or its job looks one up.
THEOREM TypeInvHolds == Spec => []TypeInv
<1>1. Init => TypeInv
  <2> SUFFICES ASSUME Init PROVE TypeInv
    OBVIOUS
  <2>1. TaskStoreTypeOK
    BY DEF Init, TaskStoreInit, TaskStoreTypeOK, Absent, Records
  <2>2. NovaTypeOK
    BY ExistingAssumption
    DEF Init, NovaInit, NovaTypeOK, ServerRecords, Statuses
  <2>3. HandlerTypeOK
    BY DEF Init, HandlerTypeOK, HandlerSteps, Codes
  <2>4. WorkerTypeOK
    BY ArqAssumption DEF Init, WorkerTypeOK, JobStates, JobSteps, TaskStatus
  <2>5. \A r \in Requests : TargetKnown(r)
    BY DEF Init, TargetKnown
  <2> QED
    BY <2>1, <2>2, <2>3, <2>4, <2>5 DEF TypeInv
<1>2. TypeInv /\ [Next]_vars => TypeInv'
  <2> SUFFICES ASSUME TypeInv, [Next]_vars PROVE TypeInv'
    OBVIOUS
  <2>1. ASSUME NEW r \in Requests,
               HandlerNext(r) \/ JobNext(r) \/ EnvironmentOf(r)
        PROVE  TypeInv'
    <3>1. TaskStoreTypeOK' /\ NovaTypeOK' /\ \A q \in Requests : TargetKnown(q)'
      BY <2>1, StoreStep, NovaTypeStep, TargetStep
    <3>2. HandlerTypeOK'
      <4>1. CASE HandlerNext(r) \/ ApiCrash(r)
        BY <4>1, HandlerType
      <4>2. CASE ~(HandlerNext(r) \/ ApiCrash(r))
        <5>1. UNCHANGED handler
          BY <2>1, <4>2 DEF JobNext, EnvironmentOf, StartJob, GiveUp, JobGet,
            JobSet, PollSleep, Poll, PollTimesOut, DeleteServer, ResizeServer,
            ResizeWait, ConfirmResize, FinishJob, ArqTimeout, CutShort, Stall,
            WorkerCrash, Expire, LateCall
        <5> QED
          BY <5>1 DEF TypeInv, HandlerTypeOK, handler
      <4> QED
        BY <4>1, <4>2
    <3>3. WorkerTypeOK'
      <4>1. CASE \/ JobNext(r) \/ Stall(r) \/ WorkerCrash(r) \/ EnqueueJob(r)
                 \/ \E n \in 0 .. MaxTries, call \in SdkJobCalls : LateCall(r, n, call)
        BY <4>1, WorkerType
      <4>2. CASE \/ ApiCrash(r) \/ Expire(r)
                 \/ HandlerNext(r) /\ ~EnqueueJob(r)
        <5>1. UNCHANGED worker
          BY <4>2 DEF HandlerNext, Receive, CheckVm, CreateServer, CreateTask,
            PowerAction, GetConsole, CreateImage, SnapshotGet, SnapshotSet,
            ApiCrash, Expire
        <5> QED
          BY <5>1 DEF TypeInv, WorkerTypeOK, worker
      <4> QED
        BY <2>1, <4>1, <4>2 DEF EnvironmentOf
    <3> QED
      BY <3>1, <3>2, <3>3 DEF TypeInv
  <2>2. ASSUME NEW s \in Servers, NovaStep(s)
        PROVE  TypeInv'
    <3>1. UNCHANGED <<store, handler, worker>>
      BY <2>2 DEF NovaStep
    <3>2. NovaTypeOK'
      BY <2>2, NovaOwnType DEF NovaStep, TypeInv
    <3> QED
      BY <3>1, <3>2 DEF TypeInv, TaskStoreTypeOK, HandlerTypeOK, WorkerTypeOK,
        TargetKnown, store, handler, worker
  <2>3. CASE UNCHANGED vars
    BY <2>3 DEF vars, TypeInv, TaskStoreTypeOK, NovaTypeOK, HandlerTypeOK,
      WorkerTypeOK, TargetKnown
  <2> QED
    BY <2>1, <2>2, <2>3 DEF Next, Environment, EnvironmentOf
<1> QED
  BY <1>1, <1>2, PTL DEF Spec

\* Every variable of the system keeps its type in every behaviour, whatever
\* the faults: in particular no job is run more than MaxTries times.
THEOREM TypeCorrect == Spec => []TypeOK
<1>1. TypeInv => TypeOK
  BY DEF TypeInv, TypeOK, HandlerTypeOK, WorkerTypeOK
<1> QED
  BY <1>1, TypeInvHolds, PTL

-----------------------------------------------------------------------------
(* No accepted task is lost track of.                                      *)

\* Handler and job follow one another: a job exists only once the handler is
\* over, and the steps a handler can be at tell its operation.
Sequenced(r) ==
  /\ hpc[r] # "done" => jst[r] = "none" /\ resp[r] = "none"
  /\ hpc[r] = "create_server" => op[r] = "create_vm"
  /\ hpc[r] \in {"check", "task"} =>
       op[r] \in TaskOperations \cup {"action", "get_vm"}
  /\ hpc[r] = "task" => op[r] \notin {"action", "get_vm"}
  /\ hpc[r] = "enqueue" => op[r] \in JobOperations
  /\ hpc[r] \in {"snap", "get", "set"} => op[r] = "create_snapshot"
  /\ jst[r] # "none" => op[r] \in JobOperations

\* A task is closed when its job function is about to return, has returned,
\* or, for a snapshot, when the handler has answered.
Closed(r) ==
  /\ jst[r] = "ok" => ~Open(r)
  /\ jst[r] = "running" /\ jpc[r] = "ret" => ~Open(r)
  /\ Acked(r) /\ op[r] = "create_snapshot" => ~Open(r)
  /\ Acked(r) /\ op[r] \in JobOperations => jst[r] # "none"

\* Only a crash makes arq start a job again, and only a fault ends it badly.
Retried(r) ==
  /\ jst[r] = "none" => tries[r] = 0
  /\ jst[r] = "queued" /\ tries[r] > 0 => "worker_crash" \in Faults
  /\ jst[r] = "gave_up" => "worker_crash" \in Faults
  /\ jst[r] = "raised" => RedisMayFail

TrackInv == \A r \in Requests : Sequenced(r) /\ Closed(r) /\ Retried(r)

\* Without slow calls a job's age is what its own sleeps add up to: for create_vm
\* what the loop has counted, for resize_vm at most the one delay.  A sleep that
\* job_timeout cuts off leaves the job where it was.
InTime(r) ==
  /\ jst[r] # "running" => age[r] = 0 /\ elapsed[r] = 0
  /\ jst[r] = "timeout" => JobTimeout <= SleepsUpTo(op[r])
  /\ jst[r] = "running" => todo[r] # "pending" /\ age[r] <= SleepsUpTo(op[r])
  /\ jst[r] = "running" /\ op[r] = "create_vm" =>
       /\ age[r] = elapsed[r] /\ elapsed[r] < PollTimeout + PollInterval
       /\ jpc[r] \in {"get", "set", "sleep", "poll", "ret"}
  /\ jst[r] = "running" /\ op[r] # "create_vm" =>
       /\ jpc[r] \in JobCalls \cup {"wait", "ret"} /\ jpc[r] # "poll"
       /\ jpc[r] = "resize" => age[r] = 0
       /\ jpc[r] \in {"resize", "wait", "confirm"} => op[r] = "resize_vm"
       /\ jpc[r] = "wait" => age[r] = 0 \/ age[r] >= JobTimeout
       /\ todo[r] = "running" /\ jpc[r] \in {"get", "set"} => age[r] = 0

ClockInv ==
  "stall" \notin Faults => \A r \in Requests : InTime(r)

\* The part of the state that belongs to request q is as it was.
Untouched(q) ==
  /\ op'[q] = op[q] /\ vm'[q] = vm[q]
  /\ hpc'[q] = hpc[q] /\ resp'[q] = resp[q]
  /\ jst'[q] = jst[q] /\ jpc'[q] = jpc[q] /\ todo'[q] = todo[q]
  /\ elapsed'[q] = elapsed[q] /\ age'[q] = age[q] /\ tries'[q] = tries[q]
  /\ task'[q] = task[q] /\ raw'[q] = raw[q]
  /\ \A n \in 0 .. MaxTries, call \in SdkJobCalls :
       <<q, n, call>> \in late' <=> <<q, n, call>> \in late

\* A handler's step, a job's step and a fault touch one request only: the
\* others share nothing with it but Nova's servers.
LEMMA Locality ==
  ASSUME TypeInv, NEW r \in Requests, NEW q \in Requests, q # r,
         HandlerNext(r) \/ JobNext(r) \/ EnvironmentOf(r)
  PROVE  Untouched(q)
<1>0. TaskStoreTypeOK /\ HandlerTypeOK /\ WorkerTypeOK
  BY DEF TypeInv
<1> USE <1>0 DEF TaskStoreTypeOK, HandlerTypeOK, WorkerTypeOK, Untouched
<1>1. CASE Receive(r)
  BY <1>1 DEF Receive, Goto, Fail, Answer, store, worker
<1>2. CASE CheckVm(r) \/ CreateServer(r) \/ GetConsole(r) \/ CreateImage(r)
  BY <1>2 DEF CheckVm, CreateServer, GetConsole, CreateImage, Goto, Fail,
    Answer, store, worker
<1>3. CASE CreateTask(r) \/ SnapshotGet(r) \/ SnapshotSet(r) \/ ApiCrash(r)
  BY <1>3 DEF CreateTask, SnapshotGet, SnapshotSet, ApiCrash, StoreCreate,
    StoreGet, StoreSet, StoreDrop, Goto, Fail, Answer, store, worker
<1>4. CASE EnqueueJob(r) \/ PowerAction(r)
  BY <1>4 DEF EnqueueJob, PowerAction, Fail, Answer, store, worker
<1>5. CASE StartJob(r) \/ GiveUp(r) \/ PollSleep(r) \/ ResizeWait(r) \/ Stall(r)
  BY <1>5 DEF StartJob, GiveUp, PollSleep, ResizeWait, Stall, Sleep, store,
    handler
<1>6. CASE JobGet(r) \/ JobSet(r)
  BY <1>6 DEF JobGet, JobSet, StoreGet, StoreSet, StoreDrop, Step, Write,
    EndRun, UpdateRaises, store, handler
<1>7. CASE \/ Poll(r) \/ PollTimesOut(r) \/ DeleteServer(r) \/ ResizeServer(r)
           \/ ConfirmResize(r)
  BY <1>7 DEF Poll, PollTimesOut, DeleteServer, ResizeServer, ConfirmResize,
    Step, Write, store, handler
<1>8. CASE FinishJob(r) \/ ArqTimeout(r) \/ WorkerCrash(r)
  BY <1>8 DEF FinishJob, ArqTimeout, CutShort, WorkerCrash, EndRun, StoreSet,
    StoreDrop,
    store, handler
<1>9. CASE Expire(r) \/ \E n \in 0 .. MaxTries, call \in SdkJobCalls : LateCall(r, n, call)
  BY <1>9 DEF Expire, StoreExpire, LateCall, store, handler, worker
<1> QED
  BY <1>1, <1>2, <1>3, <1>4, <1>5, <1>6, <1>7, <1>8, <1>9
  DEF HandlerNext, JobNext, EnvironmentOf

\* What TrackInv says of a request depends on that part of the state alone.
LEMMA UntouchedTrack ==
  ASSUME NEW q \in Requests, Untouched(q),
         Sequenced(q), Closed(q), Retried(q)
  PROVE  Sequenced(q)' /\ Closed(q)' /\ Retried(q)'
BY DEF Untouched, Sequenced, Closed, Retried, Acked, Open, Live

\* A handler's step keeps TrackInv.
LEMMA HandlerTrack ==
  ASSUME TypeInv, NEW r \in Requests, HandlerNext(r) \/ ApiCrash(r),
         Sequenced(r), Closed(r), Retried(r)
  PROVE  Sequenced(r)' /\ Closed(r)' /\ Retried(r)'
<1>0. TaskStoreTypeOK /\ HandlerTypeOK /\ WorkerTypeOK
  BY DEF TypeInv
<1>e. \A exc \in {"VMNotFoundError", "InvalidVMStateError", "VMOperationError",
                  "OpenStackConnectionError", "NotFoundException",
                  "ConflictException", "RedisError"} : HttpStatus(exc) # "202"
  BY HttpStatusType
<1> USE <1>0, <1>e DEF TaskStoreTypeOK, HandlerTypeOK, WorkerTypeOK,
    Sequenced, Closed, Retried, Acked, JobOperations, TaskOperations
<1>1. CASE Receive(r)
  BY <1>1, OperationsAssumption
  DEF Receive, AllOperations, WithBody, Goto, Fail, Answer, store, worker,
    Open, Live
<1>2. CASE CheckVm(r)
  BY <1>2 DEF CheckVm, Goto, Fail, Answer, SdkErrors, store, worker, Open, Live
<1>3. CASE CreateServer(r)
  BY <1>3 DEF CreateServer, Goto, Fail, Answer, SdkErrors, store, worker
<1>4. CASE CreateTask(r)
  BY <1>4 DEF CreateTask, Goto, Fail, Answer, worker
<1>5. CASE EnqueueJob(r)
  BY <1>5 DEF EnqueueJob, Fail, Answer
<1>6. CASE PowerAction(r) \/ GetConsole(r)
  BY <1>6 DEF PowerAction, GetConsole, Refusal, Fail, Answer, SdkErrors, worker
<1>7. CASE CreateImage(r)
  BY <1>7 DEF CreateImage, Refusal, Goto, Fail, Answer, SdkErrors, worker
<1>8. CASE SnapshotGet(r)
  BY <1>8 DEF SnapshotGet, StoreGet, Goto, Fail, Answer, worker, Open, Live
<1>9. CASE SnapshotSet(r)
  <2>1. ASSUME StoreSet(r, "success") PROVE ~Open(r)'
    BY <2>1, MergeType DEF StoreSet, Open, TaskStatus, Terminal
  <2> QED
    BY <1>9, <2>1 DEF SnapshotSet, Fail, Answer, worker
<1>10. CASE ApiCrash(r)
  BY <1>10 DEF ApiCrash, worker
<1> QED
  BY <1>1, <1>2, <1>3, <1>4, <1>5, <1>6, <1>7, <1>8, <1>9, <1>10
  DEF HandlerNext

\* A SET of a terminal status closes the task.
LEMMA TerminalSetCloses ==
  ASSUME TypeInv, NEW r \in Requests, NEW st \in Terminal, StoreSet(r, st)
  PROVE  ~Open(r)'
<1>1. st \in TaskStatus /\ raw[r] \in Records /\ task \in [Requests -> Records]
  BY DEF TypeInv, TaskStoreTypeOK, TaskStatus
<1> QED
  BY <1>1, MergeType DEF StoreSet, Open

\* A job's step, and what befalls a job, keeps TrackInv.
LEMMA JobTrack ==
  ASSUME TypeInv, NEW r \in Requests,
         JobNext(r) \/ (EnvironmentOf(r) /\ ~ApiCrash(r)),
         Sequenced(r), Closed(r), Retried(r)
  PROVE  Sequenced(r)' /\ Closed(r)' /\ Retried(r)'
<1>0. TaskStoreTypeOK /\ HandlerTypeOK /\ WorkerTypeOK
  BY DEF TypeInv
<1> USE <1>0 DEF TaskStoreTypeOK, HandlerTypeOK, WorkerTypeOK,
    Sequenced, Closed, Retried, Acked, JobOperations, TaskOperations
<1>1. CASE StartJob(r)
  BY <1>1 DEF StartJob, handler
<1>2. CASE GiveUp(r)
  BY <1>2, ArqAssumption DEF GiveUp, handler
<1>3. CASE JobGet(r)
  <2>1. CASE StoreGet(r) /\ Step(r, IF Live(r) THEN "set" ELSE AfterUpdate(r))
    BY <1>3, <2>1 DEF JobGet, StoreGet, Step, Alive, Open, Live, handler
  <2>2. CASE UpdateRaises(r) /\ UNCHANGED store
    BY <1>3, <2>2 DEF JobGet, UpdateRaises, Write, EndRun, Alive, handler
  <2> QED
    BY <1>3, <2>1, <2>2 DEF JobGet
<1>4. CASE JobSet(r)
  <2>1. CASE StoreSet(r, todo[r]) /\ Step(r, AfterUpdate(r))
    <3>1. AfterUpdate(r) = "ret" => ~Open(r)'
      BY <2>1, TerminalSetCloses DEF AfterUpdate, FirstStep
    <3> QED
      BY <1>4, <2>1, <3>1 DEF JobSet, Step, Alive, handler
  <2>2. CASE UpdateRaises(r)
    BY <1>4, <2>2 DEF JobSet, UpdateRaises, Write, EndRun, Alive, handler
  <2> QED
    BY <1>4, <2>1, <2>2 DEF JobSet
<1>5. CASE PollSleep(r) \/ ResizeWait(r) \/ Stall(r)
  BY <1>5 DEF PollSleep, ResizeWait, Stall, Sleep, Alive, store, handler, Open,
    Live
<1>6. CASE \/ Poll(r) \/ PollTimesOut(r) \/ DeleteServer(r)
           \/ ResizeServer(r) \/ ConfirmResize(r)
  BY <1>6 DEF Poll, PollTimesOut, DeleteServer, ResizeServer, ConfirmResize,
    Step, Write, Alive, store, handler, Open, Live
<1>7. CASE FinishJob(r)
  BY <1>7 DEF FinishJob, EndRun, Alive, store, handler, Open, Live
<1>8. CASE ArqTimeout(r)
  BY <1>8 DEF ArqTimeout, CutShort, EndRun, handler
<1>9. CASE WorkerCrash(r)
  BY <1>9 DEF WorkerCrash, CutShort, EndRun, handler
<1>10. CASE Expire(r)
  <2>1. ~Open(r)'
    BY <1>10 DEF Expire, StoreExpire, Absent, Open, Live
  <2> QED
    BY <1>10, <2>1 DEF Expire, handler, worker
<1>11. CASE \E n \in 0 .. MaxTries, call \in SdkJobCalls : LateCall(r, n, call)
  BY <1>11 DEF LateCall, store, handler, Open, Live
<1> QED
  BY <1>1, <1>2, <1>3, <1>4, <1>5, <1>6, <1>7, <1>8, <1>9, <1>10, <1>11
  DEF JobNext, EnvironmentOf

\* The inductive invariant behind the two theorems that follow.
THEOREM TrackInvHolds == Spec => []TrackInv
<1>1. Init => TrackInv
  BY DEF Init, TaskStoreInit, TrackInv, Sequenced, Closed, Retried, Acked
<1>2. TypeInv /\ TrackInv /\ [Next]_vars => TrackInv'
  <2> SUFFICES ASSUME TypeInv, TrackInv, [Next]_vars PROVE TrackInv'
    OBVIOUS
  <2>1. ASSUME NEW r \in Requests,
               HandlerNext(r) \/ JobNext(r) \/ EnvironmentOf(r)
        PROVE  TrackInv'
    <3>1. Sequenced(r)' /\ Closed(r)' /\ Retried(r)'
      BY <2>1, HandlerTrack, JobTrack DEF TrackInv, EnvironmentOf
    <3>2. ASSUME NEW q \in Requests, q # r
          PROVE  Sequenced(q)' /\ Closed(q)' /\ Retried(q)'
      BY <2>1, <3>2, Locality, UntouchedTrack DEF TrackInv
    <3> QED
      BY <3>1, <3>2 DEF TrackInv
  <2>2. CASE UNCHANGED <<store, handler, worker>>
    <3>1. \A q \in Requests : Untouched(q)
      BY <2>2 DEF Untouched, store, handler, worker
    <3> QED
      BY <3>1, UntouchedTrack DEF TrackInv
  <2>3. CASE UNCHANGED vars
    <3>1. UNCHANGED <<store, handler, worker>>
      BY <2>3 DEF vars, store, handler, worker
    <3> QED
      BY <2>2, <3>1
  <2> QED
    BY <2>1, <2>2, <2>3 DEF Next, Environment, EnvironmentOf, NovaStep
<1> QED
  BY <1>1, <1>2, TypeInvHolds, PTL DEF Spec

\* Whatever faults occur and however often a job is run, once arq has recorded
\* it as done its task is closed or its record has expired.
THEOREM FinishedJobs == Spec => []FinishedJobClosesTask
<1>1. TrackInv => FinishedJobClosesTask
  BY DEF TrackInv, Closed, FinishedJobClosesTask
<1> QED
  BY <1>1, TrackInvHolds, PTL

-----------------------------------------------------------------------------
(* job_timeout.                                                            *)

\* What InTime says of a request depends on its own part of the state alone.
LEMMA UntouchedClock ==
  ASSUME NEW q \in Requests, Untouched(q), InTime(q)
  PROVE  InTime(q)'
BY DEF Untouched, InTime

\* A step of a request, without slow calls, keeps its job within its time.
LEMMA ClockStep ==
  ASSUME TypeInv, NEW r \in Requests,
         "stall" \notin Faults,
         Sequenced(r), InTime(r),
         HandlerNext(r) \/ JobNext(r) \/ EnvironmentOf(r)
  PROVE  InTime(r)'
<1>0. HandlerTypeOK /\ WorkerTypeOK
  BY DEF TypeInv
<1>a. age[r] \in Nat /\ elapsed[r] \in Nat
  BY <1>0 DEF WorkerTypeOK
<1>b. /\ PollInterval \in Nat /\ PollTimeout \in Nat
      /\ ResizeConfirmDelay \in Nat /\ JobTimeout \in Nat
      /\ PollInterval > 0
  BY TimesAssumption
<1>c. /\ \A o : SleepsUpTo(o) \in Nat
      /\ SleepsUpTo("create_vm") = PollTimeout + PollInterval - 1
      /\ SleepsUpTo("resize_vm") = ResizeConfirmDelay
  BY <1>b DEF SleepsUpTo
<1> USE <1>0 DEF HandlerTypeOK, WorkerTypeOK
<1>1. CASE HandlerNext(r) \/ ApiCrash(r)
  <2>1. jst[r] = "none"
    BY <1>1 DEF Sequenced, HandlerNext, Receive, CheckVm, CreateServer,
      CreateTask, EnqueueJob, PowerAction, GetConsole, CreateImage,
      SnapshotGet, SnapshotSet, ApiCrash
  <2>2. /\ jst'[r] \in {"none", "queued"}
        /\ UNCHANGED <<elapsed, age>>
    BY <1>1, <2>1 DEF HandlerNext, Receive, CheckVm, CreateServer,
      CreateTask, EnqueueJob, PowerAction, GetConsole, CreateImage,
      SnapshotGet, SnapshotSet, ApiCrash, worker
  <2> QED
    BY <2>1, <2>2 DEF InTime
<1>2. CASE StartJob(r)
  <2>1. /\ op'[r] = op[r] /\ age'[r] = 0 /\ elapsed'[r] = 0
        /\ jpc'[r] = "get" /\ jst'[r] = "running" /\ todo'[r] = "running"
    BY <1>2 DEF StartJob, handler, InTime
  <2> QED
    BY <1>b, <1>c, <2>1 DEF InTime, JobCalls
<1>3. CASE GiveUp(r)
  BY <1>3 DEF GiveUp, InTime, handler
<1>4. CASE JobGet(r) \/ JobSet(r)
  <2>1. jst[r] = "running" /\ jpc[r] \in {"get", "set"} /\ op[r] \in JobOperations
    BY <1>4 DEF JobGet, JobSet, Alive, Sequenced
  <2>2. ASSUME Step(r, "set") \/ Step(r, AfterUpdate(r))
        PROVE  InTime(r)'
    <3>1. /\ op[r] = "create_vm" => AfterUpdate(r) \in {"ret", "sleep"}
          /\ op[r] # "create_vm" => AfterUpdate(r) \in {"ret", "delete", "resize"}
          /\ AfterUpdate(r) = "resize" =>
               todo[r] \notin Terminal /\ op[r] = "resize_vm"
      BY <2>1 DEF AfterUpdate, FirstStep, JobOperations
    <3>2. op[r] # "create_vm" /\ todo[r] \notin Terminal => age[r] = 0
      BY <2>1 DEF InTime, TaskStatus, Terminal
    <3> QED
      BY <1>4, <2>1, <2>2, <3>1, <3>2
      DEF Step, InTime, JobGet, JobSet, handler, JobCalls, SdkJobCalls
  <2>3. ASSUME UpdateRaises(r)
        PROVE  InTime(r)'
    BY <1>4, <2>1, <2>3
    DEF UpdateRaises, Write, EndRun, InTime, JobGet, JobSet, handler, JobCalls
  <2> QED
    BY <1>4, <2>2, <2>3 DEF JobGet, JobSet
<1>5. CASE PollSleep(r)
  <2>1. op[r] = "create_vm" /\ jst[r] = "running" /\ elapsed[r] < PollTimeout
    BY <1>5 DEF PollSleep, Alive, InTime, JobCalls, SdkJobCalls
  <2>2. /\ age'[r] = age[r] + PollInterval
        /\ elapsed'[r] = elapsed[r] + PollInterval
        /\ jpc'[r] \in {"sleep", "poll"}
        /\ UNCHANGED <<op, jst, todo>>
    BY <1>5 DEF PollSleep, Sleep, handler
  <2> QED
    BY <1>a, <1>b, <1>c, <2>1, <2>2 DEF InTime
<1>6. CASE Poll(r) \/ PollTimesOut(r)
  <2>1. op[r] = "create_vm" /\ jst[r] = "running"
    BY <1>6 DEF Poll, PollTimesOut, Alive, InTime, JobCalls, SdkJobCalls
  <2>2. /\ jpc'[r] \in {"get", "sleep"} /\ todo'[r] \in {"success", "failed", todo[r]}
        /\ UNCHANGED <<op, jst, age, elapsed>>
    BY <1>6 DEF Poll, PollTimesOut, Step, Write, handler
  <2> QED
    BY <2>1, <2>2 DEF InTime
<1>7. CASE DeleteServer(r) \/ ConfirmResize(r)
  <2>1. /\ jpc'[r] = "get" /\ todo'[r] \in {"success", "failed"}
        /\ jst[r] = "running" /\ jpc[r] \in {"delete", "confirm"}
        /\ UNCHANGED <<op, jst, age, elapsed>>
    BY <1>7 DEF DeleteServer, ConfirmResize, Alive, Write, handler
  <2> QED
    BY <2>1 DEF InTime, JobCalls
<1>8. CASE ResizeServer(r)
  <2>1. /\ jst[r] = "running" /\ jpc[r] = "resize"
        /\ UNCHANGED <<op, jst, age, elapsed>>
        /\ \/ jpc'[r] = "wait" /\ todo'[r] = todo[r]
           \/ jpc'[r] = "get" /\ todo'[r] = "failed"
    BY <1>8 DEF ResizeServer, Alive, Step, Write, handler
  <2> QED
    BY <2>1 DEF InTime, JobCalls
<1>9. CASE ResizeWait(r)
  <2>1. /\ jst[r] = "running" /\ jpc[r] = "wait"
        /\ op[r] = "resize_vm" /\ age[r] = 0
    BY <1>9, <1>a, <1>b DEF ResizeWait, Alive, InTime
  <2>2. /\ age'[r] = ResizeConfirmDelay
        /\ jpc'[r] = "confirm" \/ (jpc'[r] = "wait" /\ age'[r] >= JobTimeout)
        /\ UNCHANGED <<op, jst, todo, elapsed>>
    BY <1>9, <1>b, <2>1 DEF ResizeWait, Sleep, handler
  <2> QED
    BY <1>b, <1>c, <2>1, <2>2 DEF InTime, JobCalls, SdkJobCalls
<1>10. CASE FinishJob(r) \/ WorkerCrash(r)
  <2>1. /\ jst'[r] \in {"ok", "queued"} /\ age'[r] = 0 /\ elapsed'[r] = 0
    BY <1>10 DEF FinishJob, WorkerCrash, CutShort, EndRun
  <2> QED
    BY <2>1 DEF InTime
<1>11. CASE ArqTimeout(r)
  <2>1. /\ jst'[r] = "timeout" /\ age'[r] = 0 /\ elapsed'[r] = 0
        /\ op' = op /\ jst[r] = "running" /\ age[r] >= JobTimeout
    BY <1>11 DEF ArqTimeout, CutShort, EndRun, handler
  <2> QED
    BY <1>a, <1>b, <1>c, <2>1 DEF InTime
<1>13. ~Stall(r)
  BY DEF Stall
<1>12. CASE Expire(r) \/ \E n \in 0 .. MaxTries, call \in SdkJobCalls : LateCall(r, n, call)
  BY <1>12 DEF Expire, LateCall, InTime, handler, worker
<1> QED
  BY <1>1, <1>2, <1>3, <1>4, <1>5, <1>6, <1>7, <1>8, <1>9, <1>10, <1>11, <1>12,
     <1>13
  DEF JobNext, EnvironmentOf

\* Without slow calls a job runs into job_timeout only if its function's own
\* limits let it sleep that long.
THEOREM ClockInvHolds == Spec => []ClockInv
<1>1. Init => ClockInv
  BY DEF Init, ClockInv, InTime
<1>2. TypeInv /\ TrackInv /\ ClockInv /\ [Next]_vars => ClockInv'
  <2> SUFFICES ASSUME TypeInv, TrackInv, ClockInv, [Next]_vars,
                      "stall" \notin Faults
               PROVE  \A r \in Requests : InTime(r)'
    BY DEF ClockInv
  <2>1. ASSUME NEW r \in Requests,
               HandlerNext(r) \/ JobNext(r) \/ EnvironmentOf(r)
        PROVE  \A q \in Requests : InTime(q)'
    <3>1. InTime(r)'
      BY <2>1, ClockStep DEF TrackInv, ClockInv
    <3>2. ASSUME NEW q \in Requests, q # r
          PROVE  InTime(q)'
      BY <2>1, <3>2, Locality, UntouchedClock DEF ClockInv
    <3> QED
      BY <3>1, <3>2
  <2>2. CASE UNCHANGED <<store, handler, worker>>
    <3>1. \A q \in Requests : Untouched(q)
      BY <2>2 DEF Untouched, store, handler, worker
    <3> QED
      BY <3>1, UntouchedClock DEF ClockInv
  <2>3. CASE UNCHANGED vars
    <3>1. UNCHANGED <<store, handler, worker>>
      BY <2>3 DEF vars, store, handler, worker
    <3> QED
      BY <2>2, <3>1
  <2> QED
    BY <2>1, <2>2, <2>3 DEF Next, Environment, EnvironmentOf, NovaStep
<1> QED
  BY <1>1, <1>2, TypeInvHolds, TrackInvHolds, PTL DEF Spec

\* The main result: for any number of requests, servers, workers and retries,
\* an accepted task that is still open has a job queued or running, unless one
\* of the named faults ended the job for good, or the job's function may by its
\* own limits sleep until job_timeout.
THEOREM TasksAreTracked == Spec => []AckedTaskTracked
<1>1. TypeInv /\ TrackInv /\ ClockInv => AckedTaskTracked
  <2> SUFFICES ASSUME TypeInv, TrackInv, ClockInv,
                      NEW r \in Requests, Acked(r), Open(r)
               PROVE  \/ jst[r] \in {"queued", "running"}
                      \/ jst[r] = "raised" /\ RedisMayFail
                      \/ jst[r] = "gave_up" /\ "worker_crash" \in Faults
                      \/ /\ jst[r] = "timeout"
                         /\ \/ "stall" \in Faults
                            \/ JobTimeout <= SleepsUpTo(op[r])
    BY DEF AckedTaskTracked
  <2>1. jst[r] \in JobStates
    BY DEF TypeInv, WorkerTypeOK
  <2>2. op[r] \in JobOperations /\ jst[r] \notin {"none", "ok"}
    BY DEF TrackInv, Closed, Acked, TaskOperations
  <2>3. jst[r] = "timeout" =>
          "stall" \in Faults \/ JobTimeout <= SleepsUpTo(op[r])
    BY DEF ClockInv, InTime
  <2> QED
    BY <2>1, <2>2, <2>3 DEF TrackInv, Retried, JobStates
<1> QED
  BY <1>1, TypeInvHolds, TrackInvHolds, ClockInvHolds, PTL
=============================================================================
