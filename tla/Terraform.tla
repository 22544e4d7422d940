----------------------------- MODULE Terraform -----------------------------
(***************************************************************************)
(* The Terraform provider: the CRUD methods of vmapi_vm and vmapi_volume,  *)
(* whose control is the same line by line, and WaitTask, against the API.  *)
(*                                                                         *)
(* A method is one action per HTTP request.  A request may fail at any     *)
(* time, before or after the API did the work; the HTTP client gives up    *)
(* after its own timeout, so no request takes longer than that.            *)
(*                                                                         *)
(* The API is the contract VmApi, which ComputeClient implements.  It      *)
(* serves no volumes.                                                      *)
(***************************************************************************)
EXTENDS Naturals, VmApi

CONSTANTS Resources,     \* addresses in the Terraform configuration
          Volumes,       \* those of type vmapi_volume, the others are vmapi_vm
          PollInterval,  \* poll_interval_seconds
          PollTimeout,   \* poll_timeout_seconds
          HttpTimeout,   \* Timeout of the http.Client
          Failures,      \* whether requests fail and users interrupt runs
          None

ASSUME VolumesAssumption == Volumes \subseteq Resources
ASSUME PollAssumption ==
  PollInterval \in Nat /\ PollTimeout \in Nat /\ HttpTimeout \in Nat
ASSUME FailuresAssumption == Failures \in BOOLEAN
ASSUME NoneAssumption ==
  None \notin Objects \cup Resources \cup Sizes \cup Tasks
             \cup [id : Objects, size : Sizes]

VARIABLES state,     \* state[x]: what Terraform's state file holds of x
          method,    \* method[x]: the method running for x
          pc,        \* pc[x]: its next request
          plan,      \* plan[x]: the size planned
          id,        \* id[x]: the object it works on
          tid,       \* tid[x]: the task WaitTask polls
          waited,    \* waited[x]: time since WaitTask was called
          maker,     \* maker[i]: the resource i was created for (history)
          reported,  \* objects whose Create ended in an error (history)
          erred      \* objects a method ended in an error for (history)

methods == <<method, plan, id>>
wait == <<tid, waited>>
history == <<maker, reported, erred>>
vars == <<state, method, pc, plan, id, tid, waited, obj, task, maker,
          reported, erred>>

TypeOK ==
  /\ state \in [Resources -> [id : Objects, size : Sizes] \cup {None}]
  /\ method \in [Resources -> {"create", "read", "update", "delete", "import", "none"}]
  /\ pc \in [Resources -> {"idle", "call", "wait", "sleep", "get"}]
  /\ plan \in [Resources -> Sizes \cup {None}]
  /\ id \in [Resources -> Objects \cup {None}]
  /\ tid \in [Resources -> Tasks \cup {None}]
  /\ waited \in [Resources -> Nat]
  /\ ApiTypeOK
  /\ maker \in [Objects -> Resources \cup {None}]
  /\ reported \subseteq Objects
  /\ erred \subseteq Objects \cup {None}

Init ==
  /\ state = [x \in Resources |-> None]
  /\ method = [x \in Resources |-> "none"]
  /\ pc = [x \in Resources |-> "idle"]
  /\ plan = [x \in Resources |-> None]
  /\ id = [x \in Resources |-> None]
  /\ tid = [x \in Resources |-> None]
  /\ waited = [x \in Resources |-> 0]
  /\ ApiInit
  /\ maker = [i \in Objects |-> None]
  /\ reported = {}
  /\ erred = {}

-----------------------------------------------------------------------------
(* The API.                                                                *)

\* What GET answers for; there is no /volumes route, so 404 for every volume.
Served(x) == x \notin Volumes
Found(x, i) == Served(x) /\ There(i)

\* The bounds: with no task left the API fails, with no object Nova's quota is
\* used up.
NoTaskLeft == \A t \in Tasks : task[t] # NoTask
QuotaUsedUp == \A i \in Objects : obj[i].st # "none"

-----------------------------------------------------------------------------
(* The methods.  A method that ends with an error diagnostic leaves the    *)
(* state as it was; Delete without one lets the framework drop the state.  *)

End(x, st) ==
  /\ pc' = [pc EXCEPT ![x] = "idle"]
  /\ method' = [method EXCEPT ![x] = "none"]
  /\ plan' = [plan EXCEPT ![x] = None]
  /\ id' = [id EXCEPT ![x] = None]
  /\ tid' = [tid EXCEPT ![x] = None]
  /\ waited' = [waited EXCEPT ![x] = 0]
  /\ state' = [state EXCEPT ![x] = st]

\* An object Create made, lost, is from now on known only from the error shown.
EndWithError(x, lost) ==
  /\ End(x, state[x])
  /\ reported' = reported \cup lost
  /\ erred' = erred \cup {id[x]}

EndWithSuccess(x, st) == End(x, st) /\ UNCHANGED <<reported, erred>>

Goto(x, step) ==
  /\ pc' = [pc EXCEPT ![x] = step]
  /\ UNCHANGED <<state, method, plan, reported, erred>>

\* What is lost when the method running for x fails after its first request.
Lost(x) == IF method[x] = "create" THEN {id[x]} ELSE {}

\* The provider's Configure refuses other values, and then nothing runs.
Configured == PollInterval > 0 /\ PollTimeout > 0

\* Terraform calls a method.  Import is ImportState and the Read after it; an
\* object is bound to one resource, as Terraform demands of its users, and its
\* id is known to nobody before it is made.
Begin(x, m, i, n) ==
  /\ Configured
  /\ pc[x] = "idle"
  /\ CASE m = "create" -> state[x] = None /\ i = None
       [] m = "import" -> /\ state[x] = None /\ i # None /\ obj[i].st # "none"
                          /\ \A y \in Resources :
                               pc[y] = "idle" /\ (state[y] # None => state[y].id # i)
       [] OTHER -> state[x] # None /\ i = state[x].id
  /\ m \in {"create", "update"} <=> n # None
  /\ method' = [method EXCEPT ![x] = m]
  /\ id' = [id EXCEPT ![x] = i]
  /\ plan' = [plan EXCEPT ![x] = n]
  /\ pc' = [pc EXCEPT ![x] =
              IF m \in {"create", "delete"} \/ (m = "update" /\ n # state[x].size)
              THEN "call" ELSE "get"]
  /\ UNCHANGED <<state, wait, api, history>>

\* Create: POST.  When the answer is lost, or is an error that came late, the
\* API has made the object, and perhaps the task's record.
CreateCall(x) ==
  /\ pc[x] = "call" /\ method[x] = "create"
  /\ \/ /\ Served(x)
        /\ \E i \in Objects, t \in Tasks :
             /\ maker' = [maker EXCEPT ![i] = x]
             /\ \/ /\ Made(t, i, plan[x], "open")
                   /\ Goto(x, "wait")
                   /\ id' = [id EXCEPT ![x] = i]
                   /\ tid' = [tid EXCEPT ![x] = t]
                   /\ UNCHANGED waited
                \/ /\ Failures
                   /\ \E st \in {"none", "open"} : Made(t, i, plan[x], st)
                   /\ EndWithError(x, {i})
     \/ /\ ~Served(x) \/ QuotaUsedUp \/ NoTaskLeft \/ Failures
        /\ EndWithError(x, {})
        /\ UNCHANGED <<api, maker>>

\* Update: PUT .../resize, when the size planned is not the one in the state.
\* Delete: DELETE; 404 is success.
ChangeCall(x) ==
  /\ pc[x] = "call" /\ method[x] \in {"update", "delete"}
  /\ \/ /\ Found(x, id[x])
        /\ \E t \in Tasks, st \in {"none", "open"} :
             /\ Asked(t, method[x], id[x],
                      IF method[x] = "update" THEN plan[x] ELSE obj[id[x]].size, st)
             /\ \/ /\ st = "open"
                   /\ Goto(x, "wait")
                   /\ tid' = [tid EXCEPT ![x] = t]
                   /\ UNCHANGED <<id, waited>>
                \/ Failures /\ EndWithError(x, {})
     \/ /\ ~Found(x, id[x]) /\ method[x] = "delete"
        /\ EndWithSuccess(x, None)
        /\ UNCHANGED task
     \/ /\ \/ Failures \/ NoTaskLeft
           \/ ~Found(x, id[x]) /\ method[x] = "update"
        /\ EndWithError(x, {})
        /\ UNCHANGED task
  /\ UNCHANGED <<obj, maker>>

\* Broken variant: the loop has no deadline.
WaitTask_NoDeadline(x) ==
  /\ pc[x] = "wait"
  /\ IF task[tid[x]].status = "open" THEN Goto(x, "sleep") /\ UNCHANGED <<id, wait>>
     ELSE EndWithError(x, Lost(x))
  /\ UNCHANGED <<api, maker>>

\* Broken variant: the deadline is computed anew in every turn of the loop.
WaitTask_DeadlineMoves(x) ==
  /\ pc[x] = "wait"
  /\ IF task[tid[x]].status = "open"
     THEN /\ Goto(x, "sleep")
          /\ waited' = [waited EXCEPT ![x] = 0]
          /\ UNCHANGED <<id, tid>>
     ELSE EndWithError(x, Lost(x))
  /\ UNCHANGED <<api, maker>>

\* Broken variant: `failed` ends the loop like `success`.
WaitTask_FailedIsDone(x) ==
  /\ pc[x] = "wait"
  /\ IF task[tid[x]].status = "open" THEN Goto(x, "sleep") /\ UNCHANGED <<id, wait>>
     ELSE IF method[x] = "delete" THEN EndWithSuccess(x, None)
          ELSE Goto(x, "get") /\ UNCHANGED <<id, wait>>
  /\ UNCHANGED <<api, maker>>

\* WaitTask, one turn of its loop up to the sleep.  A task that has expired in
\* the store answers 404, an error like any other.
WaitTask(x) ==
  /\ pc[x] = "wait"
  /\ LET status == task[tid[x]].status IN
     \/ /\ waited[x] <= PollTimeout /\ status = "open"
        /\ Goto(x, "sleep")
        /\ \E d \in {0, HttpTimeout} : waited' = [waited EXCEPT ![x] = @ + d]
        /\ UNCHANGED <<id, tid>>
     \/ /\ waited[x] <= PollTimeout /\ status = "success" /\ method[x] # "delete"
        /\ Goto(x, "get")
        /\ UNCHANGED <<id, wait>>
     \/ /\ waited[x] <= PollTimeout /\ status = "success" /\ method[x] = "delete"
        /\ EndWithSuccess(x, None)
     \/ /\ waited[x] > PollTimeout \/ status \in {"failed", "none"} \/ Failures
        /\ EndWithError(x, Lost(x))
  /\ UNCHANGED <<api, maker>>

\* ... and the sleep, which ctx.Done() ends early.
WaitSleep(x) ==
  /\ pc[x] = "sleep"
  /\ \/ /\ Goto(x, "wait")
        /\ waited' = [waited EXCEPT ![x] = @ + PollInterval]
        /\ UNCHANGED <<id, tid>>
     \/ Failures /\ EndWithError(x, Lost(x))
  /\ UNCHANGED <<api, maker>>

\* flattenVMState, flattenVolumeState: the state becomes what was read.
Flatten(i) == [id |-> i, size |-> obj[i].size]

\* Broken variant: any error of Read's GET is taken for ErrNotFound.
GetObject_ErrorIsGone(x) ==
  /\ pc[x] = "get"
  /\ \/ Found(x, id[x]) /\ EndWithSuccess(x, Flatten(id[x]))
     \/ EndWithSuccess(x, None)
  /\ UNCHANGED <<api, maker>>

\* Broken variant: an object that is gone keeps its entry, with its id unset.
GetObject_IdCleared(x) ==
  /\ pc[x] = "get"
  /\ \/ Found(x, id[x]) /\ EndWithSuccess(x, Flatten(id[x]))
     \/ ~Found(x, id[x]) /\ EndWithSuccess(x, [id |-> None, size |-> plan[x]])
  /\ UNCHANGED <<api, maker>>

\* GET of the object.  ErrNotFound removes the resource, except in Create;
\* after ImportState it is Terraform itself that reports it.
GetObject(x) ==
  /\ pc[x] = "get"
  /\ \/ /\ Found(x, id[x])
        /\ End(x, Flatten(id[x]))
        /\ reported' = reported \ {id[x]}
        /\ UNCHANGED erred
     \/ /\ ~Found(x, id[x]) /\ method[x] \in {"read", "update"}
        /\ EndWithSuccess(x, None)
     \/ /\ Failures \/ (~Found(x, id[x]) /\ method[x] \in {"create", "import"})
        /\ EndWithError(x, Lost(x))
  /\ UNCHANGED <<api, maker>>

-----------------------------------------------------------------------------
Provider(x) ==
  CreateCall(x) \/ ChangeCall(x) \/ WaitTask(x) \/ WaitSleep(x) \/ GetObject(x)

Next ==
  \/ \E x \in Resources :
       \/ Provider(x)
       \/ \E m \in {"create", "read", "update", "delete", "import"},
             i \in Objects \cup {None}, n \in Sizes \cup {None} : Begin(x, m, i, n)
  \/ ApiStep /\ UNCHANGED <<state, methods, pc, wait, history>>

Spec == Init /\ [][Next]_vars

\* A method that has been called runs on: its requests end, by an answer or by
\* the HTTP timeout, and its sleeps do.  Nothing is assumed of the API.
FairSpec == Spec /\ \A x \in Resources : WF_vars(Provider(x))

-----------------------------------------------------------------------------
(* Properties.                                                             *)

Tracked(i) == \E x \in Resources : state[x] # None /\ state[x].id = i

\* Terraform never forgets a server silently: one it made that still runs is in
\* its state, or is being created, or its Create ended with an error the user
\* was shown.  Read, Update and Delete drop the state of no running server.
NoUnreportedOrphan ==
  \A i \in Objects : maker[i] # None /\ obj[i].st = "live" =>
    \/ Tracked(i)
    \/ i \in reported
    \/ method[maker[i]] = "create" /\ pc[maker[i]] # "idle"

\* WaitTask never overruns poll_timeout by more than one poll: its deadline is
\* looked at once per turn, before the request.
WaitBounded ==
  \A x \in Resources : waited[x] <= PollTimeout + HttpTimeout + PollInterval

\* Delete reports success only for a server whose delete Nova has accepted, or
\* that is gone, so `terraform destroy` leaves nothing running behind its back.
DestroyedIsDeleted ==
  [][\A x \in Resources :
       method[x] = "delete" /\ state[x] # None /\ state'[x] = None =>
         obj'[state[x].id].st \in {"deleting", "gone"}]_vars

\* With nobody else at work, no job run again, and no method having failed on
\* this server before (a task given up on may still resize it later), an Update
\* that reports success leaves the planned size in the state: success of the
\* task means the resize is in effect when the object is read back.
CleanUpdateConverges ==
  [][\A x \in Resources :
       /\ method[x] = "update" /\ method'[x] = "none"
       /\ id[x] \notin erred' /\ ~Foreign /\ ~Rewrites
       => state'[x] = None \/ state'[x].size = plan[x]]_vars

\* Every method called returns, whatever the API does.
MethodsReturn == \A x \in Resources : pc[x] # "idle" ~> pc[x] = "idle"
=============================================================================
