-------------------------- MODULE LifecycleProofs --------------------------
(***************************************************************************)
(* ComputeClient implements TaskLifecycle when jobs are not run again       *)
(* (worker_crash), Redis answers (redis) and records live long enough       *)
(* (expire): each of the three is needed, as the rerun run shows for the    *)
(* first.  Slow and failing SDK calls and API crashes are allowed.          *)
(***************************************************************************)
EXTENDS ComputeClientProofs

Calm == Faults \cap {"worker_crash", "redis", "expire"} = {}

PendingRecord == [status |-> "pending", error |-> FALSE]
RunningRecord == [status |-> "running", error |-> FALSE]

\* The job is inside task_store.update.
Writing(r) == jpc[r] \in {"get", "set"}

\* The record of r at each point of its handler and its job; and the copy that
\* an update has read is still what Redis holds, since nobody else writes it.
RecordAt(r) ==
  /\ hpc[r] \in {"idle", "create_server", "check", "task", "act"} =>
       task[r] = Absent
  /\ hpc[r] \in {"enqueue", "snap", "get", "set"} => task[r] = PendingRecord
  /\ hpc[r] = "set" => raw[r] = task[r]
  /\ jst[r] = "queued" => task[r] = PendingRecord
  /\ jst[r] = "running" =>
       /\ todo[r] # "pending"
       /\ jpc[r] = "set" => raw[r] = task[r]
       /\ todo[r] = "running" =>
            task[r] = IF Writing(r) THEN PendingRecord ELSE RunningRecord
       /\ todo[r] \in Terminal =>
            IF Writing(r) THEN task[r] = RunningRecord ELSE jpc[r] = "ret"

RecordInv == \A r \in Requests : RecordAt(r)

\* RecordAt depends on the request's own part of the state alone.
LEMMA UntouchedRecord ==
  ASSUME NEW q \in Requests, Untouched(q), RecordAt(q)
  PROVE  RecordAt(q)'
BY DEF Untouched, RecordAt, Writing

SuccessRecord == [status |-> "success", error |-> FALSE]
FailedRecord == [status |-> "failed", error |-> TRUE]

\* What update() makes of an open record.
LEMMA MergeValues ==
  /\ Merge(PendingRecord, "running") = RunningRecord
  /\ Merge(PendingRecord, "success") = SuccessRecord
  /\ Merge(RunningRecord, "success") = SuccessRecord
  /\ Merge(RunningRecord, "failed") = FailedRecord
<1>1. Merge(PendingRecord, "running") = RunningRecord
  BY DEF Merge, PendingRecord, RunningRecord
<1>2. Merge(PendingRecord, "success") = SuccessRecord
  BY DEF Merge, PendingRecord, SuccessRecord
<1>3. Merge(RunningRecord, "success") = SuccessRecord
  BY DEF Merge, RunningRecord, SuccessRecord
<1>4. Merge(RunningRecord, "failed") = FailedRecord
  BY DEF Merge, RunningRecord, FailedRecord
<1> QED
  BY <1>1, <1>2, <1>3, <1>4

\* Open records are live.
LEMMA OpenIsLive ==
  ASSUME NEW r, task[r] \in {PendingRecord, RunningRecord}
  PROVE  Live(r)
BY DEF PendingRecord, RunningRecord, Live

\* A step of request r either leaves all records alone or makes the one change
\* to r's record that the lifecycle allows; and RecordAt keeps holding of r.
LegalChange(r) ==
  \/ task' = task
  \/ /\ task[r] = Absent
     /\ task' = [task EXCEPT ![r] = PendingRecord]
  \/ /\ task[r] = PendingRecord
     /\ task' = [task EXCEPT ![r] = RunningRecord]
  \/ /\ task[r] \in {PendingRecord, RunningRecord}
     /\ task' = [task EXCEPT ![r] = SuccessRecord]
  \/ /\ task[r] = RunningRecord
     /\ task' = [task EXCEPT ![r] = FailedRecord]

\* The SET that ends an update makes a legal change: the copy read is fresh.
LEMMA SetIsLegal ==
  ASSUME NEW r \in Requests, RecordAt(r), jst[r] = "running", jpc[r] = "set",
         todo[r] \in TaskStatus, StoreSet(r, todo[r])
  PROVE  /\ LegalChange(r)
         /\ todo[r] = "running" =>
              task' = [task EXCEPT ![r] = RunningRecord]
<1>1. CASE todo[r] = "running"
  BY <1>1, MergeValues DEF RecordAt, Writing, StoreSet, LegalChange
<1>2. CASE todo[r] \in Terminal
  BY <1>2, MergeValues DEF RecordAt, Writing, StoreSet, LegalChange, Terminal
<1> QED
  BY <1>1, <1>2 DEF RecordAt, TaskStatus

\* Handlers: the record is made once, and a snapshot's is closed by its handler.
LEMMA HandlerRecord ==
  ASSUME Calm, TypeInv, NEW r \in Requests, HandlerNext(r) \/ ApiCrash(r),
         Sequenced(r), RecordAt(r)
  PROVE  LegalChange(r) /\ RecordAt(r)'
<1>0. TaskStoreTypeOK /\ HandlerTypeOK /\ WorkerTypeOK /\ ~RedisMayFail
  BY DEF TypeInv, Calm, RedisMayFail
<1> USE <1>0 DEF TaskStoreTypeOK, HandlerTypeOK, WorkerTypeOK
<1>1. CASE Receive(r)
  BY <1>1 DEF Receive, Goto, Fail, Answer, store, worker, RecordAt, Writing,
    Sequenced, LegalChange
<1>2. CASE CheckVm(r) \/ CreateServer(r)
  BY <1>2 DEF CheckVm, CreateServer, Goto, Fail, Answer, store, worker,
    RecordAt, Writing, Sequenced, LegalChange
<1>3. CASE CreateTask(r)
  BY <1>3 DEF CreateTask, StoreCreate, Goto, Fail, Answer, worker,
    RecordAt, Writing, Sequenced, LegalChange, PendingRecord
<1>4. CASE EnqueueJob(r)
  BY <1>4 DEF EnqueueJob, Fail, Answer, store, RecordAt, Writing, Sequenced,
    LegalChange
<1>5. CASE PowerAction(r) \/ GetConsole(r)
  BY <1>5 DEF PowerAction, GetConsole, Fail, Answer, store, worker,
    RecordAt, Writing, Sequenced, LegalChange
<1>6. CASE CreateImage(r)
  BY <1>6 DEF CreateImage, Goto, Fail, Answer, store, worker,
    RecordAt, Writing, Sequenced, LegalChange
<1>7. CASE SnapshotGet(r)
  BY <1>7, OpenIsLive DEF SnapshotGet, StoreGet, Goto, Fail, Answer, worker,
    RecordAt, Writing, Sequenced, LegalChange
<1>8. CASE SnapshotSet(r)
  BY <1>8, MergeValues DEF SnapshotSet, StoreSet, Fail, Answer, worker,
    RecordAt, Writing, Sequenced, LegalChange
<1>9. CASE ApiCrash(r)
  BY <1>9 DEF ApiCrash, StoreDrop, worker, RecordAt, Writing, Sequenced,
    LegalChange
<1> QED
  BY <1>1, <1>2, <1>3, <1>4, <1>5, <1>6, <1>7, <1>8, <1>9 DEF HandlerNext

\* Jobs: RUNNING is written over pending, a terminal status over running.
LEMMA JobRecord ==
  ASSUME Calm, TypeInv, NEW r \in Requests,
         JobNext(r) \/ (EnvironmentOf(r) /\ ~ApiCrash(r)),
         Sequenced(r), RecordAt(r)
  PROVE  LegalChange(r) /\ RecordAt(r)'
<1>0. TaskStoreTypeOK /\ HandlerTypeOK /\ WorkerTypeOK /\ ~RedisMayFail
  BY DEF TypeInv, Calm, RedisMayFail
<1>t. todo[r] \in TaskStatus
  BY <1>0 DEF WorkerTypeOK
<1>d. jst[r] # "none" => hpc[r] = "done"
  BY DEF Sequenced
<1> USE <1>0 DEF TaskStoreTypeOK, HandlerTypeOK, WorkerTypeOK
<1>1. CASE StartJob(r)
  BY <1>1, <1>d DEF StartJob, store, handler, RecordAt, Writing, LegalChange,
    Terminal
<1>2. CASE GiveUp(r)
  BY <1>2, <1>d DEF GiveUp, store, handler, RecordAt, LegalChange
<1>3. CASE JobGet(r)
  <2>1. /\ jst[r] = "running" /\ jpc[r] = "get" /\ StoreGet(r)
        /\ Step(r, IF Live(r) THEN "set" ELSE AfterUpdate(r))
        /\ UNCHANGED handler
    BY <1>3 DEF JobGet, Alive, UpdateRaises
  <2>2. Live(r)
    BY <1>t, <2>1, OpenIsLive DEF RecordAt, Writing, TaskStatus
  <2> QED
    BY <1>d, <2>1, <2>2
    DEF StoreGet, Step, handler, RecordAt, Writing, LegalChange
<1>4. CASE JobSet(r)
  <2>1. /\ jst[r] = "running" /\ jpc[r] = "set" /\ StoreSet(r, todo[r])
        /\ Step(r, AfterUpdate(r)) /\ UNCHANGED handler
    BY <1>4 DEF JobSet, Alive, UpdateRaises
  <2>2. /\ LegalChange(r)
        /\ todo[r] = "running" => task'[r] = RunningRecord
    BY <1>t, <2>1, SetIsLegal
  <2>3. AfterUpdate(r) \notin {"get", "set"}
        /\ (todo[r] \in Terminal => AfterUpdate(r) = "ret")
    BY DEF AfterUpdate, FirstStep
  <2> QED
    BY <1>d, <1>t, <2>1, <2>2, <2>3
    DEF Step, handler, RecordAt, Writing, TaskStatus, Terminal
<1>5. CASE PollSleep(r) \/ ResizeWait(r) \/ Stall(r)
  BY <1>5, <1>d DEF PollSleep, ResizeWait, Stall, Sleep, Alive, store, handler,
    RecordAt, Writing, LegalChange
<1>6. CASE \/ Poll(r) \/ PollTimesOut(r) \/ DeleteServer(r)
           \/ ResizeServer(r) \/ ConfirmResize(r)
  <2>1. /\ jst[r] = "running" /\ jpc[r] \notin {"get", "set", "ret"}
        /\ UNCHANGED <<task, raw, hpc, jst>>
        /\ \/ todo'[r] = todo[r] /\ jpc'[r] \in {"sleep", "wait"}
           \/ todo'[r] \in Terminal /\ jpc'[r] = "get"
    BY <1>6 DEF Poll, PollTimesOut, DeleteServer, ResizeServer, ConfirmResize,
      Step, Write, Alive, store, handler, Terminal
  <2> QED
    BY <1>d, <1>t, <2>1 DEF RecordAt, Writing, LegalChange, TaskStatus, Terminal
<1>7. CASE FinishJob(r)
  BY <1>7, <1>d DEF FinishJob, EndRun, Alive, store, handler, RecordAt,
    LegalChange
<1>8. CASE ArqTimeout(r)
  <2>1. jst[r] = "running" /\ hpc'[r] = "done" /\ jst'[r] = "timeout"
    BY <1>8, <1>d DEF ArqTimeout, CutShort, EndRun, handler
  <2>2. LegalChange(r)
    BY <1>8, <1>t, SetIsLegal DEF ArqTimeout, CutShort, StoreDrop, LegalChange
  <2> QED
    BY <2>1, <2>2 DEF RecordAt
<1>9. CASE \E n \in 0 .. MaxTries, call \in SdkJobCalls :
             LateCall(r, n, call)
  BY <1>9 DEF LateCall, store, handler, RecordAt, Writing, LegalChange
<1>10. ~WorkerCrash(r) /\ ~Expire(r)
  BY DEF Calm, WorkerCrash, Expire
<1> QED
  BY <1>1, <1>2, <1>3, <1>4, <1>5, <1>6, <1>7, <1>8, <1>9, <1>10
  DEF JobNext, EnvironmentOf

\* Every step of the system keeps the records in place and makes at most one
\* legal change to them.
LEMMA RecordStep ==
  ASSUME Calm, TypeInv, TrackInv, RecordInv, [Next]_vars
  PROVE  /\ RecordInv'
         /\ task' = task \/ \E r \in Requests : LegalChange(r)
<1>0. ASSUME \A q \in Requests : Untouched(q)
      PROVE  RecordInv'
  BY <1>0, UntouchedRecord DEF RecordInv
<1>1. ASSUME NEW r \in Requests,
             HandlerNext(r) \/ JobNext(r) \/ EnvironmentOf(r)
      PROVE  RecordInv' /\ LegalChange(r)
  <2>1. LegalChange(r) /\ RecordAt(r)'
    BY <1>1, HandlerRecord, JobRecord DEF TrackInv, RecordInv, EnvironmentOf
  <2>2. ASSUME NEW q \in Requests, q # r PROVE RecordAt(q)'
    BY <1>1, <2>2, Locality, UntouchedRecord DEF RecordInv
  <2> QED
    BY <2>1, <2>2 DEF RecordInv
<1>2. CASE UNCHANGED <<store, handler, worker>>
  BY <1>0, <1>2 DEF Untouched, store, handler, worker
<1>3. CASE UNCHANGED vars
  BY <1>2, <1>3 DEF vars, store, handler, worker
<1> QED
  BY <1>1, <1>2, <1>3 DEF Next, Environment, EnvironmentOf, NovaStep, store

\* The inductive invariant of the lifecycle.
THEOREM RecordInvHolds == Spec => [](Calm => RecordInv)
<1>1. Init => RecordInv
  <2> SUFFICES ASSUME Init, NEW r \in Requests PROVE RecordAt(r)
    BY DEF RecordInv
  <2>1. task[r] = Absent /\ hpc[r] = "idle" /\ jst[r] = "none"
    BY DEF Init, TaskStoreInit
  <2> QED
    BY <2>1 DEF RecordAt
<1>2. TypeInv /\ TrackInv /\ (Calm => RecordInv) /\ [Next]_vars
        => (Calm => RecordInv)'
  <2> SUFFICES ASSUME TypeInv, TrackInv, RecordInv, [Next]_vars, Calm
               PROVE  RecordInv'
    BY DEF Calm
  <2> QED
    BY RecordStep
<1> QED
  BY <1>1, <1>2, TypeInvHolds, TrackInvHolds, PTL DEF Spec

\* A legal change of the records is a step of the abstract lifecycle.
LEMMA LegalChangeRefines ==
  ASSUME TypeInv, NEW r \in Requests, LegalChange(r)
  PROVE  [Lifecycle!LifecycleNext]_(Lifecycle!ltvars)
<1>0. task \in [Requests -> Records]
  BY DEF TypeInv, TaskStoreTypeOK
<1>1. ASSUME NEW rec \in Records, task' = [task EXCEPT ![r] = rec]
      PROVE  /\ [q \in Requests |-> task'[q].status]
                  = [[q \in Requests |-> task[q].status] EXCEPT ![r] = rec.status]
             /\ [q \in Requests |-> task'[q].error]
                  = [[q \in Requests |-> task[q].error] EXCEPT ![r] = rec.error]
  BY <1>0, <1>1
<1>2. /\ PendingRecord \in Records /\ RunningRecord \in Records
      /\ SuccessRecord \in Records /\ FailedRecord \in Records
  BY DEF PendingRecord, RunningRecord, SuccessRecord, FailedRecord, Records,
    TaskStatus, Terminal
<1>3. /\ Absent.status = "absent"
      /\ PendingRecord.status = "pending" /\ PendingRecord.error = FALSE
      /\ RunningRecord.status = "running" /\ RunningRecord.error = FALSE
      /\ SuccessRecord.status = "success" /\ SuccessRecord.error = FALSE
      /\ FailedRecord.status = "failed" /\ FailedRecord.error = TRUE
  BY DEF Absent, PendingRecord, RunningRecord, SuccessRecord, FailedRecord
<1>4. CASE task' = task
  BY <1>4 DEF Lifecycle!ltvars
<1>5. CASE task[r] = Absent /\ task' = [task EXCEPT ![r] = PendingRecord]
  BY <1>1, <1>2, <1>3, <1>5 DEF Lifecycle!LifecycleNext, Lifecycle!Become
<1>6. CASE task[r] = PendingRecord /\ task' = [task EXCEPT ![r] = RunningRecord]
  BY <1>1, <1>2, <1>3, <1>6 DEF Lifecycle!LifecycleNext, Lifecycle!Become
<1>7. CASE /\ task[r] \in {PendingRecord, RunningRecord}
           /\ task' = [task EXCEPT ![r] = SuccessRecord]
  BY <1>1, <1>2, <1>3, <1>7 DEF Lifecycle!LifecycleNext, Lifecycle!Become
<1>8. CASE task[r] = RunningRecord /\ task' = [task EXCEPT ![r] = FailedRecord]
  BY <1>1, <1>2, <1>3, <1>8 DEF Lifecycle!LifecycleNext, Lifecycle!Become
<1> QED
  BY <1>4, <1>5, <1>6, <1>7, <1>8 DEF LegalChange

\* Without re-runs, Redis errors and expiry, every behaviour of handlers, jobs
\* and Nova shows the documented lifecycle to a client that polls its tasks.
THEOREM ImplementsLifecycle == ASSUME Calm PROVE Spec => RefinesLifecycle
<1>1. Init => Lifecycle!LifecycleInit
  BY DEF Init, TaskStoreInit, Lifecycle!LifecycleInit, Absent
<1>2. TypeInv /\ TrackInv /\ (Calm => RecordInv) /\ [Next]_vars
        => [Lifecycle!LifecycleNext]_(Lifecycle!ltvars)
  <2> SUFFICES ASSUME TypeInv, TrackInv, RecordInv, [Next]_vars
               PROVE  [Lifecycle!LifecycleNext]_(Lifecycle!ltvars)
    OBVIOUS
  <2>1. CASE task' = task
    BY <2>1 DEF Lifecycle!ltvars
  <2> QED
    BY <2>1, RecordStep, LegalChangeRefines
<1> QED
  BY <1>1, <1>2, TypeInvHolds, TrackInvHolds, RecordInvHolds, PTL
  DEF Spec, RefinesLifecycle, Lifecycle!LifecycleSpec

\* In particular success and failed are final, as the task endpoint documents;
\* the rerun run shows that a worker crash alone is enough to undo that.
THEOREM ClosedTasksStayClosed == ASSUME Calm PROVE Spec => TerminalIsFinal
<1>1. TypeInv /\ TrackInv /\ (Calm => RecordInv) /\ [Next]_vars
        => [\A r \in Requests :
              task[r].status \in Terminal => task'[r].status = task[r].status]_task
  <2> SUFFICES ASSUME TypeInv, TrackInv, RecordInv, [Next]_vars,
                      NEW r \in Requests, task[r].status \in Terminal
               PROVE  task'[r].status = task[r].status
    OBVIOUS
  <2>1. task[r] \notin {Absent, PendingRecord, RunningRecord}
    BY DEF Absent, PendingRecord, RunningRecord, Terminal
  <2>2. task \in [Requests -> Records]
    BY DEF TypeInv, TaskStoreTypeOK
  <2> QED
    BY <2>1, <2>2, RecordStep DEF LegalChange
<1> QED
  BY <1>1, TypeInvHolds, TrackInvHolds, RecordInvHolds, PTL
  DEF Spec, TerminalIsFinal
=============================================================================
