-------------------------- MODULE TerraformProofs --------------------------
(***************************************************************************)
(* What the Terraform provider does right against any API that keeps the   *)
(* contract VmApi, for any number of resources, servers, tasks and sizes,  *)
(* any time limits, and whatever requests fail.                            *)
(***************************************************************************)
EXTENDS Terraform, TLAPS

-----------------------------------------------------------------------------
(* The inductive invariants.                                               *)

\* What the method running for x works with at each of its requests.
MethodAt(x) ==
  /\ method[x] = "none" <=> pc[x] = "idle"
  /\ pc[x] = "idle" => id[x] = None
  /\ pc[x] = "call" => method[x] \in {"create", "update", "delete"}
  /\ pc[x] = "call" /\ method[x] = "create" => id[x] = None
  /\ pc[x] \in {"wait", "sleep"} =>
       tid[x] \in Tasks /\ method[x] \in {"create", "update", "delete"}
  /\ pc[x] = "get" => method[x] # "delete"
  /\ pc[x] \in {"wait", "sleep", "get"} => id[x] \in Objects
  /\ method[x] \in {"create", "update"} => plan[x] \in Sizes
  /\ method[x] \in {"read", "update", "delete"} =>
       state[x] # None /\ state[x].id = id[x]
  /\ method[x] \in {"create", "import"} => state[x] = None
  /\ method[x] = "import" => id[x] \in Objects

TypeInv == TypeOK /\ \A x \in Resources : MethodAt(x)

\* WaitTask looks at its deadline before each request, not after it.
ClockAt(x) ==
  /\ waited[x] <= PollTimeout + HttpTimeout + PollInterval
  /\ pc[x] = "sleep" => waited[x] <= PollTimeout + HttpTimeout

\* A task that is polled is that of the call made; the servers in the state and
\* under way have been made; no volume ever gets into the state.
KnownAt(x) ==
  /\ pc[x] \in {"wait", "sleep"} => Is(tid[x], method[x], id[x])
  /\ state[x] # None => x \notin Volumes /\ obj[state[x].id].st # "none"
  /\ id[x] # None => obj[id[x]].st # "none"

\* A closed task speaks the truth, of a delete and of an update.
TrueTask(t) ==
  task[t] # NoTask /\ task[t].status = "success" =>
    /\ task[t].call = "delete" => obj[task[t].of].st \in {"deleting", "gone"}
    /\ task[t].call = "update" => task[t].worked

\* The Create that made i is still at work on it.
Making(i) ==
  /\ maker[i] \in Resources
  /\ method[maker[i]] = "create" /\ id[maker[i]] = i
  /\ pc[maker[i]] \in {"wait", "sleep", "get"}

Remembered(i) ==
  maker[i] # None /\ obj[i].st = "live" => Tracked(i) \/ i \in reported \/ Making(i)

StateInv ==
  /\ \A x \in Resources : ClockAt(x) /\ KnownAt(x)
  /\ \A t \in Tasks : TrueTask(t)
  /\ \A i \in Objects : Remembered(i)

-----------------------------------------------------------------------------
(* Sizes, when nobody else changes servers and no job is run again.        *)

\* x works on i, or has it in its state.
Holds(x, i) == id[x] = i \/ (state[x] # None /\ state[x].id = i)

\* The Update of x has asked for another size, and not read it back yet.
Updating(x) == method[x] = "update" /\ pc[x] \in {"wait", "sleep"}

\* The state tells the size of a server unless an Update is changing it; then
\* it is the planned one as soon as the resize has been confirmed.
SizeAt(x) ==
  /\ state[x] # None /\ state[x].id \notin erred =>
       \/ method[x] = "update" /\ pc[x] \in {"wait", "sleep", "get"}
       \/ obj[state[x].id].size = state[x].size
  /\ Updating(x) /\ id[x] \notin erred =>
       /\ task[tid[x]].size = plan[x]
       /\ task[tid[x]].worked => obj[id[x]].size = plan[x]
  /\ method[x] = "update" /\ pc[x] = "get" /\ id[x] \notin erred =>
       obj[id[x]].size = plan[x]

\* A resize that can still take effect is that of an Update under way.
PendingAt(t) ==
  Pending(t) /\ task[t].of \notin erred =>
    \E x \in Resources : Updating(x) /\ id[x] = task[t].of /\ tid[x] = t

SizeInv ==
  /\ \A x, y \in Resources, i \in Objects : Holds(x, i) /\ Holds(y, i) => x = y
  /\ \A x \in Resources : SizeAt(x)
  /\ \A t \in Tasks : PendingAt(t)

-----------------------------------------------------------------------------
(* The API.                                                                *)

\* A record of a server stays one when a field of it is changed.
LEMMA ObjectType ==
  ASSUME ApiTypeOK, NEW i \in Objects
  PROVE  /\ \A st \in {"none", "live", "deleting", "gone"}, up \in BOOLEAN,
               n \in Sizes :
              [obj EXCEPT ![i] = [st |-> st, up |-> up, size |-> n]]
                \in [Objects -> ObjectRecords]
         /\ \A st \in {"none", "live", "deleting", "gone"} :
              [obj EXCEPT ![i].st = st] \in [Objects -> ObjectRecords]
         /\ \A up \in BOOLEAN : [obj EXCEPT ![i].up = up] \in [Objects -> ObjectRecords]
         /\ \A n \in Sizes : [obj EXCEPT ![i].size = n] \in [Objects -> ObjectRecords]
BY DEF ApiTypeOK, ObjectRecords

\* So does a task's.
LEMMA TaskType ==
  ASSUME ApiTypeOK, NEW t \in Tasks
  PROVE  /\ \A call \in Calls, i \in Objects, n \in Sizes, w \in BOOLEAN,
               st \in {"none", "open"} :
              [task EXCEPT ![t] = [call |-> call, of |-> i, size |-> n,
                                   worked |-> w, status |-> st]]
                \in [Tasks -> TaskRecords \cup {NoTask}]
         /\ task[t] # NoTask =>
              /\ \A st \in {"none", "open", "success", "failed"} :
                   [task EXCEPT ![t].status = st] \in [Tasks -> TaskRecords \cup {NoTask}]
              /\ \A w \in BOOLEAN :
                   [task EXCEPT ![t].worked = w] \in [Tasks -> TaskRecords \cup {NoTask}]
BY DEF ApiTypeOK, TaskRecords

\* A task with a call is not NoTask.
LEMMA CallIsTask ==
  ASSUME ApiTypeOK, NEW t \in Tasks
  PROVE  /\ task[t].call \in Calls <=> task[t] # NoTask
         /\ task[t] # NoTask => task[t] \in TaskRecords
BY DEF ApiTypeOK, TaskRecords, NoTask, Calls

\* Every step of the API keeps its types.
LEMMA ApiStepType ==
  ASSUME ApiTypeOK, ApiStep
  PROVE  ApiTypeOK'
<1>t. PICK yes \in BOOLEAN : yes = TRUE
  OBVIOUS
<1>o. obj' = obj => obj' \in [Objects -> ObjectRecords]
  BY DEF ApiTypeOK
<1>k. task' = task => task' \in [Tasks -> TaskRecords \cup {NoTask}]
  BY DEF ApiTypeOK
<1> SUFFICES /\ obj' \in [Objects -> ObjectRecords]
             /\ task' \in [Tasks -> TaskRecords \cup {NoTask}]
  BY DEF ApiTypeOK
<1>1. ASSUME NEW t \in Tasks, Lapsed(t)
      PROVE  ApiTypeOK'
  BY <1>1, <1>o, TaskType DEF Lapsed, ApiTypeOK
<1>2. ASSUME NEW t \in Tasks, Resized(t)
      PROVE  ApiTypeOK'
  <2>1. task[t] \in TaskRecords
    BY <1>2, CallIsTask DEF Resized, Pending, Calls
  <2> QED
    BY <1>2, <1>k, <2>1, ObjectType DEF Resized, TaskRecords, ApiTypeOK
<1>3. ASSUME NEW t \in Tasks, Confirmed(t)
      PROVE  ApiTypeOK'
  <2>1. task[t] # NoTask /\ task[t] \in TaskRecords
    BY <1>3, CallIsTask DEF Confirmed, Calls
  <2>2. task' \in [Tasks -> TaskRecords \cup {NoTask}]
    BY <1>3, <1>t, <2>1, TaskType DEF Confirmed
  <2>3. PICK up \in {obj[task[t].of].up, yes} :
          obj' = [obj EXCEPT ![task[t].of].up = up]
    BY <1>3, <1>t DEF Confirmed
  <2>4. task[t].of \in Objects
    BY <2>1 DEF TaskRecords
  <2>5. up \in BOOLEAN
    BY <2>3, <2>4 DEF ApiTypeOK, ObjectRecords
  <2> QED
    BY <2>2, <2>3, <2>4, <2>5, ObjectType DEF ApiTypeOK
<1>4. ASSUME NEW t \in Tasks, NEW st \in {"open", "success", "failed"}, Written(t, st)
      PROVE  ApiTypeOK'
  BY <1>4, <1>o, TaskType DEF Written, ApiTypeOK
<1>5. ASSUME NEW i \in Objects, Up(i) \/ Deleting(i) \/ Gone(i)
      PROVE  ApiTypeOK'
  <2>1. CASE Up(i)
    BY <1>k, <1>t, <2>1, ObjectType DEF Up, ApiTypeOK
  <2>2. CASE Deleting(i) \/ Gone(i)
    <3>1. PICK st \in {"none", "live", "deleting", "gone"} :
            obj' = [obj EXCEPT ![i].st = st]
      BY <2>2 DEF Deleting, Gone
    <3>2. obj' \in [Objects -> ObjectRecords]
      BY <3>1, ObjectType
    <3>3. task' \in [Tasks -> TaskRecords \cup {NoTask}]
      BY <1>k, <2>2 DEF Deleting, Gone
    <3> QED
      BY <3>2, <3>3 DEF ApiTypeOK
  <2> QED
    BY <1>5, <2>1, <2>2
<1>6. ASSUME NEW i \in Objects, NEW n \in Sizes, ForeignResize(i, n)
      PROVE  ApiTypeOK'
  BY <1>6, <1>k, ObjectType DEF ForeignResize, ApiTypeOK
<1> QED
  BY <1>1, <1>2, <1>3, <1>4, <1>5, <1>6 DEF ApiStep, ApiTypeOK

\* So does a call.
LEMMA CallType ==
  ASSUME ApiTypeOK, NEW t \in Tasks, NEW i \in Objects, NEW n \in Sizes,
         NEW st \in {"none", "open"},
         \/ Made(t, i, n, st)
         \/ \E call \in {"update", "delete"} : UNCHANGED obj /\ Asked(t, call, i, n, st)
  PROVE  ApiTypeOK'
<1>t. PICK no \in BOOLEAN : no = FALSE
  OBVIOUS
<1>1. CASE Made(t, i, n, st)
  BY <1>t, <1>1, ObjectType, TaskType DEF Made, Asked, ApiTypeOK, Calls
<1>2. ASSUME NEW call \in {"update", "delete"}, UNCHANGED obj, Asked(t, call, i, n, st)
      PROVE  ApiTypeOK'
  BY <1>t, <1>2, TaskType DEF Asked, ApiTypeOK, Calls
<1> QED
  BY <1>1, <1>2

-----------------------------------------------------------------------------
(* Types.                                                                  *)

States == [id : Objects, size : Sizes]

\* The part of the type invariant that is about resources.
ResourcesOK ==
  /\ state \in [Resources -> States \cup {None}]
  /\ method \in [Resources -> {"create", "read", "update", "delete", "import", "none"}]
  /\ pc \in [Resources -> {"idle", "call", "wait", "sleep", "get"}]
  /\ plan \in [Resources -> Sizes \cup {None}]
  /\ id \in [Resources -> Objects \cup {None}]
  /\ tid \in [Resources -> Tasks \cup {None}]
  /\ waited \in [Resources -> Nat]

HistoryOK ==
  /\ maker \in [Objects -> Resources \cup {None}]
  /\ reported \subseteq Objects
  /\ erred \subseteq Objects \cup {None}

LEMMA TypeParts == TypeOK <=> ResourcesOK /\ ApiTypeOK /\ HistoryOK
BY DEF TypeOK, ResourcesOK, HistoryOK, States

\* None is not the id of anything, nor a state.
LEMMA NoneIsNone ==
  /\ None \notin Objects /\ None \notin Resources /\ None \notin Sizes
  /\ None \notin Tasks /\ None \notin States
BY NoneAssumption DEF States

Call(x) == \E m \in {"create", "read", "update", "delete", "import"},
             i \in Objects \cup {None}, n \in Sizes \cup {None} : Begin(x, m, i, n)

\* The end of a method leaves nothing of it.
LEMMA EndType ==
  ASSUME ResourcesOK, NEW x \in Resources, NEW st \in States \cup {None}, End(x, st)
  PROVE  ResourcesOK' /\ MethodAt(x)'
BY DEF ResourcesOK, End, MethodAt

\* An end with an error is an end.
LEMMA ErrorType ==
  ASSUME ResourcesOK, HistoryOK, NEW x \in Resources,
         NEW lost \in SUBSET Objects, EndWithError(x, lost), maker' = maker
  PROVE  ResourcesOK' /\ MethodAt(x)' /\ HistoryOK'
<1>1. state[x] \in States \cup {None} /\ id[x] \in Objects \cup {None}
  BY DEF ResourcesOK
<1>2. ResourcesOK' /\ MethodAt(x)'
  BY <1>1, EndType DEF EndWithError
<1>3. HistoryOK'
  BY <1>1 DEF EndWithError, HistoryOK
<1> QED
  BY <1>2, <1>3

\* Every step of a method keeps types, and knows what its next request needs.
LEMMA MethodType ==
  ASSUME TypeInv, NEW x \in Resources, Provider(x) \/ Call(x)
  PROVE  TypeOK' /\ MethodAt(x)'
<1>0. ResourcesOK /\ ApiTypeOK /\ HistoryOK /\ MethodAt(x)
  BY TypeParts DEF TypeInv
<1>n. /\ PollInterval \in Nat /\ HttpTimeout \in Nat
      /\ \A w \in Nat, d \in {0, HttpTimeout, PollInterval} : w + d \in Nat
  BY PollAssumption
<1>a. UNCHANGED api => ApiTypeOK'
  BY <1>0 DEF api, ApiTypeOK
<1>h. UNCHANGED history => HistoryOK'
  BY <1>0 DEF history, HistoryOK
<1>l. pc[x] \in {"wait", "sleep", "get"} => Lost(x) \in SUBSET Objects
  BY <1>0 DEF Lost, MethodAt
<1> SUFFICES ResourcesOK' /\ ApiTypeOK' /\ HistoryOK' /\ MethodAt(x)'
  BY TypeParts, PTL
<1>1. ASSUME NEW m \in {"create", "read", "update", "delete", "import"},
             NEW i \in Objects \cup {None}, NEW n \in Sizes \cup {None},
             Begin(x, m, i, n)
      PROVE  ResourcesOK' /\ ApiTypeOK' /\ HistoryOK' /\ MethodAt(x)'
  <2>1. ResourcesOK'
    BY <1>0, <1>1 DEF Begin, ResourcesOK, wait
  <2>2. MethodAt(x)'
    BY <1>0, <1>1, NoneIsNone DEF Begin, ResourcesOK, MethodAt, wait, States
  <2> QED
    BY <1>1, <1>a, <1>h, <2>1, <2>2 DEF Begin
<1>2. CASE CreateCall(x)
  <2>0. pc[x] = "call" /\ method[x] = "create" /\ plan[x] \in Sizes
        /\ state[x] = None
    BY <1>0, <1>2 DEF CreateCall, MethodAt
  <2>1. ASSUME NEW i \in Objects, NEW t \in Tasks, Made(t, i, plan[x], "open"),
               maker' = [maker EXCEPT ![i] = x], Goto(x, "wait"),
               id' = [id EXCEPT ![x] = i], tid' = [tid EXCEPT ![x] = t],
               UNCHANGED waited
        PROVE  ResourcesOK' /\ ApiTypeOK' /\ HistoryOK' /\ MethodAt(x)'
    <3>1. ApiTypeOK'
      BY <1>0, <2>0, <2>1, CallType
    <3>2. ResourcesOK' /\ MethodAt(x)'
      BY <1>0, <2>0, <2>1, NoneIsNone DEF Goto, ResourcesOK, MethodAt
    <3>3. HistoryOK'
      BY <1>0, <2>1 DEF Goto, HistoryOK
    <3> QED
      BY <3>1, <3>2, <3>3
  <2>2. ASSUME NEW i \in Objects, NEW t \in Tasks, NEW st \in {"none", "open"},
               Made(t, i, plan[x], st),
               maker' = [maker EXCEPT ![i] = x], EndWithError(x, {i})
        PROVE  ResourcesOK' /\ ApiTypeOK' /\ HistoryOK' /\ MethodAt(x)'
    <3>1. ApiTypeOK'
      BY <1>0, <2>0, <2>2, CallType
    <3>2. ResourcesOK' /\ MethodAt(x)'
      BY <1>0, <2>0, <2>2, EndType DEF EndWithError
    <3>3. HistoryOK'
      BY <1>0, <2>2 DEF EndWithError, HistoryOK, ResourcesOK
    <3> QED
      BY <3>1, <3>2, <3>3
  <2>3. CASE EndWithError(x, {}) /\ UNCHANGED <<api, maker>>
    BY <1>0, <1>a, <2>3, ErrorType
  <2> QED
    BY <1>2, <2>1, <2>2, <2>3 DEF CreateCall
<1>3. CASE ChangeCall(x)
  <2>0. pc[x] = "call" /\ method[x] \in {"update", "delete"} /\ obj' = obj
        /\ maker' = maker
    BY <1>3 DEF ChangeCall
  <2>1. task' = task => ApiTypeOK'
    BY <1>a, <2>0 DEF api
  <2>2. CASE EndWithSuccess(x, None) /\ UNCHANGED task
    <3>1. HistoryOK'
      BY <1>0, <2>0, <2>2 DEF EndWithSuccess, HistoryOK
    <3> QED
      BY <1>0, <2>1, <2>2, <3>1, EndType DEF EndWithSuccess
  <2>3. CASE EndWithError(x, {}) /\ UNCHANGED task
    BY <1>0, <2>0, <2>1, <2>3, ErrorType
  <2>4. ASSUME Found(x, id[x]), NEW t \in Tasks, NEW st \in {"none", "open"},
               Asked(t, method[x], id[x],
                     IF method[x] = "update" THEN plan[x] ELSE obj[id[x]].size, st)
        PROVE  ApiTypeOK' /\ id[x] \in Objects
    <3>1. id[x] \in Objects
      <4>1. state[x] # None /\ state[x].id = id[x]
        BY <1>0, <2>0 DEF MethodAt
      <4> QED
        BY <1>0, <4>1 DEF ResourcesOK, States
    <3>2. (IF method[x] = "update" THEN plan[x] ELSE obj[id[x]].size) \in Sizes
      BY <1>0, <2>0, <3>1 DEF MethodAt, ApiTypeOK, ObjectRecords
    <3> QED
      BY <1>0, <2>0, <2>4, <3>1, <3>2, CallType
  <2>5. ASSUME NEW t \in Tasks, Goto(x, "wait"), tid' = [tid EXCEPT ![x] = t],
               UNCHANGED <<id, waited>>, id[x] \in Objects
        PROVE  ResourcesOK' /\ HistoryOK' /\ MethodAt(x)'
    <3>1. ResourcesOK' /\ MethodAt(x)'
      BY <1>0, <2>0, <2>5, NoneIsNone DEF Goto, ResourcesOK, MethodAt
    <3>2. HistoryOK'
      BY <1>0, <2>0, <2>5 DEF Goto, HistoryOK
    <3> QED
      BY <3>1, <3>2
  <2> QED
    BY <1>0, <1>3, <2>0, <2>2, <2>3, <2>4, <2>5, ErrorType DEF ChangeCall
<1>4. CASE WaitTask(x) \/ WaitSleep(x) \/ GetObject(x)
  <2>0. UNCHANGED <<api, maker>> /\ pc[x] \in {"wait", "sleep", "get"}
    BY <1>4 DEF WaitTask, WaitSleep, GetObject
  <2>1. CASE EndWithError(x, Lost(x))
    BY <1>0, <1>a, <1>l, <2>0, <2>1, ErrorType
  <2>2. CASE EndWithSuccess(x, None)
    <3>1. HistoryOK'
      BY <1>0, <2>0, <2>2 DEF EndWithSuccess, HistoryOK
    <3> QED
      BY <1>0, <1>a, <2>0, <2>2, <3>1, EndType DEF EndWithSuccess
  <2>3. CASE End(x, Flatten(id[x])) /\ reported' = reported \ {id[x]} /\ UNCHANGED erred
    <3>1. Flatten(id[x]) \in States
      BY <1>0, <2>0 DEF Flatten, States, MethodAt, ApiTypeOK, ObjectRecords
    <3>2. HistoryOK'
      BY <1>0, <2>0, <2>3 DEF HistoryOK
    <3> QED
      BY <1>0, <1>a, <2>0, <2>3, <3>1, <3>2, EndType
  <2>4. ASSUME pc[x] \in {"wait", "sleep"},
               Goto(x, "sleep") \/ Goto(x, "wait") \/ (Goto(x, "get") /\ method[x] # "delete"),
               id' = id, tid' = tid,
               \E d \in {0, HttpTimeout, PollInterval} :
                 waited' = [waited EXCEPT ![x] = @ + d]
        PROVE  ResourcesOK' /\ ApiTypeOK' /\ HistoryOK' /\ MethodAt(x)'
    <3>1. ResourcesOK'
      BY <1>0, <1>n, <2>4 DEF Goto, ResourcesOK
    <3>2. MethodAt(x)'
      BY <1>0, <2>4 DEF Goto, ResourcesOK, MethodAt
    <3>3. HistoryOK'
      BY <1>0, <2>0, <2>4 DEF Goto, HistoryOK
    <3> QED
      BY <1>a, <2>0, <3>1, <3>2, <3>3
  <2>5. waited' = waited => waited' = [waited EXCEPT ![x] = @ + 0]
    BY <1>0 DEF ResourcesOK
  <2>6. CASE WaitTask(x)
    BY <2>1, <2>2, <2>4, <2>5, <2>6 DEF WaitTask, wait
  <2>7. CASE WaitSleep(x)
    BY <2>1, <2>4, <2>7 DEF WaitSleep
  <2>8. CASE GetObject(x)
    BY <2>1, <2>2, <2>3, <2>8 DEF GetObject
  <2> QED
    BY <1>4, <2>6, <2>7, <2>8
<1> QED
  BY <1>1, <1>2, <1>3, <1>4 DEF Provider, Call

\* A step of one resource's method leaves those of the others as they are.
LEMMA OthersStay ==
  ASSUME TypeInv, NEW x \in Resources, Provider(x) \/ Call(x),
         NEW y \in Resources, y # x
  PROVE  /\ state'[y] = state[y] /\ method'[y] = method[y] /\ pc'[y] = pc[y]
         /\ plan'[y] = plan[y] /\ id'[y] = id[y] /\ tid'[y] = tid[y]
         /\ waited'[y] = waited[y]
<1>0. ResourcesOK
  BY TypeParts DEF TypeInv
<1>1. CASE Call(x)
  BY <1>0, <1>1 DEF Call, Begin, wait, ResourcesOK
<1>2. CASE CreateCall(x) \/ ChangeCall(x)
  BY <1>0, <1>2 DEF CreateCall, ChangeCall, Goto, EndWithError, EndWithSuccess,
    End, ResourcesOK
<1>3. CASE WaitTask(x) \/ WaitSleep(x)
  BY <1>0, <1>3 DEF WaitTask, WaitSleep, Goto, EndWithError, EndWithSuccess,
    End, wait, ResourcesOK
<1>4. CASE GetObject(x)
  BY <1>0, <1>4 DEF GetObject, EndWithError, EndWithSuccess, End, ResourcesOK
<1> QED
  BY <1>1, <1>2, <1>3, <1>4 DEF Provider

ApiAlone == ApiStep /\ UNCHANGED <<state, methods, pc, wait, history>>

\* Types are kept, and each method knows at each of its requests what it needs.
THEOREM TypeInvHolds == Spec => []TypeInv
<1>1. Init => TypeInv
  <2> SUFFICES ASSUME Init PROVE TypeInv
    OBVIOUS
  <2>1. ApiTypeOK
    <3>1. PICK n \in Sizes : obj = [i \in Objects |->
            [st |-> IF i \in Existing THEN "live" ELSE "none",
             up |-> i \in Existing, size |-> n]]
      BY DEF Init, ApiInit
    <3>2. ASSUME NEW i \in Objects
          PROVE  [st |-> IF i \in Existing THEN "live" ELSE "none",
                  up |-> i \in Existing, size |-> n] \in ObjectRecords
      <4>1. PICK st \in {"none", "live", "deleting", "gone"} :
              st = IF i \in Existing THEN "live" ELSE "none"
        OBVIOUS
      <4>2. PICK up \in BOOLEAN : up <=> i \in Existing
        OBVIOUS
      <4>3. up = (i \in Existing)
        BY <4>2, Zenon
      <4>4. [st |-> st, up |-> up, size |-> n] \in ObjectRecords
        BY DEF ObjectRecords
      <4> QED
        BY <4>1, <4>3, <4>4, Zenon
    <3>3. task \in [Tasks -> TaskRecords \cup {NoTask}]
      BY DEF Init, ApiInit
    <3> QED
      BY <3>1, <3>2, <3>3 DEF ApiTypeOK
  <2>2. ResourcesOK /\ HistoryOK
    BY DEF Init, ResourcesOK, HistoryOK
  <2>3. \A x \in Resources : MethodAt(x)
    BY DEF Init, MethodAt
  <2> QED
    BY <2>1, <2>2, <2>3, TypeParts DEF TypeInv
<1>2. TypeInv /\ [Next]_vars => TypeInv'
  <2> SUFFICES ASSUME TypeInv, [Next]_vars PROVE TypeInv'
    OBVIOUS
  <2>1. ASSUME NEW x \in Resources, Provider(x) \/ Call(x)
        PROVE  TypeInv'
    <3>1. TypeOK' /\ MethodAt(x)'
      BY <2>1, MethodType
    <3>2. ASSUME NEW y \in Resources, y # x PROVE MethodAt(y)'
      BY <2>1, <3>2, OthersStay DEF TypeInv, MethodAt
    <3> QED
      BY <3>1, <3>2 DEF TypeInv
  <2>2. CASE ApiAlone
    <3>1. ApiTypeOK'
      BY <2>2, ApiStepType, TypeParts DEF TypeInv, ApiAlone
    <3>2. UNCHANGED <<state, method, plan, id, pc, tid, waited, maker, reported, erred>>
      BY <2>2 DEF ApiAlone, methods, wait, history
    <3> QED
      BY <3>1, <3>2 DEF TypeInv, TypeOK, MethodAt
  <2>3. CASE UNCHANGED vars
    BY <2>3 DEF vars, TypeInv, TypeOK, ApiTypeOK, MethodAt
  <2> QED
    BY <2>1, <2>2, <2>3 DEF Next, Call, ApiAlone
<1> QED
  BY <1>1, <1>2, PTL DEF Spec

\* In particular the state file holds no entry without an id or a size, whatever
\* requests fail in whatever method.
THEOREM TypeCorrect == Spec => []TypeOK
<1>1. TypeInv => TypeOK
  BY DEF TypeInv
<1> QED
  BY <1>1, TypeInvHolds, PTL

-----------------------------------------------------------------------------
(* What the API never takes back.                                          *)

Lasts(i) ==
  /\ obj[i].st # "none" => obj'[i].st # "none"
  /\ obj[i].st \in {"deleting", "gone"} => obj'[i].st \in {"deleting", "gone"}

Follows(t) ==
  task[t] # NoTask =>
    /\ task'[t] # NoTask
    /\ task'[t].call = task[t].call /\ task'[t].of = task[t].of
    /\ task'[t].size = task[t].size
    /\ task[t].worked => task'[t].worked

\* A step of the API that writes one field of one task's record, or none.
LEMMA RecordFollows ==
  ASSUME ApiTypeOK, NEW t \in Tasks, task[t] # NoTask,
         \/ \E st \in {"none", "open", "success", "failed"} :
              task' = [task EXCEPT ![t].status = st]
         \/ task' = [task EXCEPT ![t].worked = TRUE]
         \/ task' = task
  PROVE  \A u \in Tasks : Follows(u) /\ (task[u] = NoTask => task'[u] = NoTask)
<1>1. task[t] \in TaskRecords
  BY CallIsTask
<1>2. ASSUME NEW u \in Tasks, u # t \/ task' = task
      PROVE  Follows(u) /\ (task[u] = NoTask => task'[u] = NoTask)
  <2>1. task'[u] = task[u]
    BY <1>2 DEF ApiTypeOK
  <2> QED
    BY <2>1 DEF Follows
<1>3. ASSUME NEW st \in {"none", "open", "success", "failed"},
             task' = [task EXCEPT ![t].status = st]
      PROVE  Follows(t)
  <2>1. task'[t] = [task[t] EXCEPT !.status = st]
    BY <1>3 DEF ApiTypeOK
  <2>2. /\ task'[t].call = task[t].call /\ task'[t].of = task[t].of
        /\ task'[t].size = task[t].size /\ task'[t].worked = task[t].worked
    BY <1>1, <2>1 DEF TaskRecords
  <2>3. task'[t] # NoTask
    BY <1>1, <2>2 DEF NoTask, TaskRecords, Calls
  <2> QED
    BY <2>2, <2>3 DEF Follows
<1>4. CASE task' = [task EXCEPT ![t].worked = TRUE]
  <2>1. task'[t] = [task[t] EXCEPT !.worked = TRUE]
    BY <1>4 DEF ApiTypeOK
  <2>2. /\ task'[t].call = task[t].call /\ task'[t].of = task[t].of
        /\ task'[t].size = task[t].size /\ task'[t].worked
    BY <1>1, <2>1 DEF TaskRecords
  <2>3. task'[t] # NoTask
    BY <1>1, <2>2 DEF NoTask, TaskRecords, Calls
  <2> QED
    BY <1>2, <2>2, <2>3 DEF Follows
<1> QED
  BY <1>2, <1>3, <1>4

\* A step of the API that writes fields of one server.
LEMMA ObjectLasts ==
  ASSUME ApiTypeOK, NEW i \in Objects, obj[i].st # "none",
         \/ \E n \in Sizes : obj' = [obj EXCEPT ![i].size = n]
         \/ \E up \in BOOLEAN : obj' = [obj EXCEPT ![i].up = up]
         \/ \E st \in {"deleting", "gone"} : obj' = [obj EXCEPT ![i].st = st]
         \/ obj' = obj
  PROVE  \A j \in Objects : Lasts(j) /\ (obj'[j].st = "live" => obj[j].st = "live")
BY DEF Lasts, ApiTypeOK, ObjectRecords

\* No step of the API makes a server or a task, brings a server back, or
\* changes what a task was made for.
LEMMA ApiGrows ==
  ASSUME ApiTypeOK, ApiStep
  PROVE  /\ \A i \in Objects : Lasts(i) /\ (obj'[i].st = "live" => obj[i].st = "live")
         /\ \A t \in Tasks : Follows(t) /\ (task[t] = NoTask => task'[t] = NoTask)
<1>o. obj' = obj =>
        \A i \in Objects : Lasts(i) /\ (obj'[i].st = "live" => obj[i].st = "live")
  BY DEF Lasts
<1>k. task' = task =>
        \A t \in Tasks : Follows(t) /\ (task[t] = NoTask => task'[t] = NoTask)
  BY DEF Follows
<1>1. ASSUME NEW t \in Tasks, Lapsed(t)
      PROVE  \A u \in Tasks : Follows(u) /\ (task[u] = NoTask => task'[u] = NoTask)
  BY <1>1, RecordFollows DEF Lapsed
<1>2. ASSUME NEW t \in Tasks, Resized(t)
      PROVE  \A i \in Objects : Lasts(i) /\ (obj'[i].st = "live" => obj[i].st = "live")
  <2>1. task[t] \in TaskRecords
    BY <1>2, CallIsTask DEF Resized, Pending, Calls
  <2>2. task[t].of \in Objects /\ task[t].size \in Sizes
    BY <2>1 DEF TaskRecords
  <2> QED
    BY <1>2, <2>2, ObjectLasts DEF Resized, There
<1>3. ASSUME NEW t \in Tasks, Confirmed(t)
      PROVE  /\ \A i \in Objects : Lasts(i) /\ (obj'[i].st = "live" => obj[i].st = "live")
             /\ \A u \in Tasks : Follows(u) /\ (task[u] = NoTask => task'[u] = NoTask)
  <2>1. task[t] # NoTask /\ task[t] \in TaskRecords
    BY <1>3, CallIsTask DEF Confirmed, Calls
  <2>2. \A u \in Tasks : Follows(u) /\ (task[u] = NoTask => task'[u] = NoTask)
    BY <1>3, <2>1, RecordFollows DEF Confirmed
  <2>3. task[t].of \in Objects /\ obj[task[t].of].up \in BOOLEAN
    BY <2>1 DEF TaskRecords, ApiTypeOK, ObjectRecords
  <2>4. PICK up \in {obj[task[t].of].up, TRUE} :
          obj' = [obj EXCEPT ![task[t].of].up = up]
    BY <1>3 DEF Confirmed
  <2>5. \A i \in Objects : obj'[i].st = obj[i].st
    BY <2>3, <2>4 DEF ApiTypeOK, ObjectRecords
  <2> QED
    BY <2>2, <2>5 DEF Lasts
<1>4. ASSUME NEW t \in Tasks, NEW st \in {"open", "success", "failed"}, Written(t, st)
      PROVE  \A u \in Tasks : Follows(u) /\ (task[u] = NoTask => task'[u] = NoTask)
  BY <1>4, RecordFollows DEF Written
<1>5. ASSUME NEW i \in Objects, Up(i) \/ Deleting(i) \/ Gone(i)
      PROVE  \A j \in Objects : Lasts(j) /\ (obj'[j].st = "live" => obj[j].st = "live")
  <2>1. CASE Up(i)
    BY <2>1 DEF Up, Lasts, ApiTypeOK, ObjectRecords
  <2>2. CASE Deleting(i) \/ Gone(i)
    BY <2>2, ObjectLasts DEF Deleting, Gone, There
  <2> QED
    BY <1>5, <2>1, <2>2
<1>6. ASSUME NEW i \in Objects, NEW n \in Sizes, ForeignResize(i, n)
      PROVE  \A j \in Objects : Lasts(j) /\ (obj'[j].st = "live" => obj[j].st = "live")
  BY <1>6, ObjectLasts DEF ForeignResize, There
<1> QED
  BY <1>o, <1>k, <1>1, <1>2, <1>3, <1>4, <1>5, <1>6
  DEF ApiStep, Lapsed, Resized, Written, Up, Deleting, Gone, ForeignResize

\* A new task is nobody's so far, and says no more than that it is open.
LEMMA AskedGrows ==
  ASSUME ApiTypeOK, NEW t \in Tasks, NEW i \in Objects, NEW n \in Sizes,
         NEW call \in Calls, NEW st \in {"none", "open"}, Asked(t, call, i, n, st)
  PROVE  /\ \A u \in Tasks : Follows(u)
         /\ \A u \in Tasks : u # t => task'[u] = task[u]
         /\ Is(t, call, i)' /\ task'[t].size = n /\ task'[t].status = st
         /\ task'[t] # NoTask /\ ~task'[t].worked
<1>1. task'[t] = [call |-> call, of |-> i, size |-> n, worked |-> FALSE, status |-> st]
  BY DEF Asked, ApiTypeOK
<1>2. \A u \in Tasks : u # t => task'[u] = task[u]
  BY DEF Asked, ApiTypeOK
<1>3. task'[t].call = call
  BY <1>1
<1>4. task'[t] # NoTask
  BY <1>3 DEF NoTask, Calls
<1>5. task[t] = NoTask
  BY DEF Asked
<1>6. \A u \in Tasks : Follows(u)
  BY <1>2, <1>5 DEF Follows
<1>7. ~task'[t].worked
  BY <1>1
<1>8. task'[t].of = i /\ task'[t].size = n /\ task'[t].status = st
  BY <1>1
<1> QED
  BY <1>2, <1>3, <1>4, <1>6, <1>7, <1>8 DEF Is

\* Success of a task stays true.
LEMMA TruthStays ==
  ASSUME ApiTypeOK, ApiStep, \A t \in Tasks : TrueTask(t)
  PROVE  \A t \in Tasks : TrueTask(t)'
<1> SUFFICES ASSUME NEW t \in Tasks, task'[t] # NoTask, task'[t].status = "success"
             PROVE  TrueTask(t)'
  BY DEF TrueTask
<1>1. /\ \A i \in Objects : Lasts(i)
      /\ Follows(t) /\ (task[t] = NoTask => task'[t] = NoTask)
  BY ApiGrows
<1>2. task[t] # NoTask /\ task[t] \in TaskRecords
  BY <1>1, CallIsTask
<1>3. task[t].of \in Objects
  BY <1>2 DEF TaskRecords
<1>4. CASE task[t].status = "success"
  BY <1>1, <1>2, <1>3, <1>4 DEF TrueTask, Follows, Lasts
<1>5. CASE task[t].status # "success"
  <2>1. ASSUME NEW u \in Tasks, Lapsed(u) \/ Confirmed(u) \/ Resized(u)
        PROVE  task'[t].status # "success"
    <3>1. CASE Lapsed(u)
      BY <1>2, <1>5, <3>1 DEF Lapsed, ApiTypeOK, TaskRecords
    <3>2. CASE Confirmed(u)
      <4>1. task' = [task EXCEPT ![u].worked = TRUE]
        BY <3>2 DEF Confirmed
      <4>2. task'[t].status = task[t].status
        BY <1>2, <4>1 DEF ApiTypeOK, TaskRecords
      <4> QED
        BY <1>5, <4>2
    <3>3. CASE Resized(u)
      BY <1>5, <3>3 DEF Resized
    <3> QED
      BY <2>1, <3>1, <3>2, <3>3
  <2>2. ASSUME NEW u \in Tasks, NEW st \in {"open", "success", "failed"}, Written(u, st)
        PROVE  TrueTask(t)'
    <3>1. CASE u = t
      <4>1. Accomplished(t)
        <5>1. task'[t].status = st
          BY <1>2, <2>2, <3>1 DEF Written, ApiTypeOK, TaskRecords
        <5> QED
          BY <2>2, <3>1, <5>1 DEF Written
      <4>2. obj' = obj
        BY <2>2 DEF Written
      <4>3. task'[t].call = task[t].call /\ task'[t].of = task[t].of
            /\ (task[t].worked => task'[t].worked)
        BY <1>1, <1>2 DEF Follows
      <4>4. task[t].call = "delete" => obj[task[t].of].st \in {"deleting", "gone"}
        BY <4>1 DEF Accomplished
      <4>5. task[t].call = "update" => task[t].worked
        BY <4>1 DEF Accomplished
      <4> QED
        BY <4>2, <4>3, <4>4, <4>5 DEF TrueTask
    <3>2. CASE u # t
      <4>1. task'[t] = task[t]
        BY <2>2, <3>2 DEF Written, ApiTypeOK
      <4> QED
        BY <1>5, <4>1
    <3> QED
      BY <3>1, <3>2
  <2>3. task' = task => task'[t].status # "success"
    BY <1>5
  <2> QED
    BY <2>1, <2>2, <2>3 DEF ApiStep, Up, Deleting, Gone, ForeignResize
<1> QED
  BY <1>4, <1>5

-----------------------------------------------------------------------------
(* What the provider knows.                                                *)

Same(y) ==
  /\ state'[y] = state[y] /\ method'[y] = method[y] /\ pc'[y] = pc[y]
  /\ plan'[y] = plan[y] /\ id'[y] = id[y] /\ tid'[y] = tid[y]
  /\ waited'[y] = waited[y]

\* What is known of a resource that does nothing stays known.
LEMMA KnownStays ==
  ASSUME TypeInv, NEW y \in Resources, KnownAt(y), Same(y),
         \A i \in Objects : Lasts(i), \A t \in Tasks : Follows(t)
  PROVE  KnownAt(y)'
<1>0. ResourcesOK /\ ApiTypeOK /\ MethodAt(y)
  BY TypeParts DEF TypeInv
<1>1. ASSUME pc[y] \in {"wait", "sleep"} PROVE Is(tid[y], method[y], id[y])'
  <2>1. tid[y] \in Tasks /\ method[y] \in Calls
    BY <1>0, <1>1 DEF MethodAt, Calls
  <2>2. Is(tid[y], method[y], id[y])
    BY <1>1 DEF KnownAt
  <2>3. task[tid[y]] # NoTask
    BY <1>0, <2>1, <2>2, CallIsTask DEF Is
  <2> QED
    BY <2>1, <2>2, <2>3 DEF Is, Follows, Same
<1>2. ASSUME state[y] # None
      PROVE  y \notin Volumes /\ obj'[state[y].id].st # "none"
  BY <1>0, <1>2 DEF ResourcesOK, States, KnownAt, Lasts
<1>3. ASSUME id[y] # None PROVE obj'[id[y]].st # "none"
  BY <1>0, <1>3 DEF ResourcesOK, KnownAt, Lasts
<1> QED
  BY <1>1, <1>2, <1>3 DEF KnownAt, Same

\* What a method ends with: the server it read, or nothing.
LEMMA EndKnown ==
  ASSUME TypeInv, NEW x \in Resources, NEW st \in States \cup {None}, End(x, st),
         st # None => x \notin Volumes /\ obj'[st.id].st # "none"
  PROVE  KnownAt(x)' /\ ClockAt(x)' /\ state'[x] = st
<1>0. ResourcesOK
  BY TypeParts DEF TypeInv
<1>1. pc'[x] = "idle" /\ id'[x] = None /\ state'[x] = st /\ waited'[x] = 0
  BY <1>0 DEF End, ResourcesOK
<1>2. 0 <= PollTimeout + HttpTimeout + PollInterval
  BY PollAssumption
<1> QED
  BY <1>1, <1>2 DEF KnownAt, ClockAt

\* A server is remembered through a step of the method running for x, if that
\* keeps what it has of the server in the state and passes on what it makes.
LEMMA Passed ==
  ASSUME TypeInv, NEW x \in Resources, NEW i \in Objects, Remembered(i),
         \A y \in Resources : y # x => Same(y),
         maker'[i] = maker[i],
         obj'[i].st = "live" => obj[i].st = "live",
         i \in reported => i \in reported' \/ Tracked(i)',
         obj'[i].st = "live" /\ state[x] # None /\ state[x].id = i =>
           state'[x] # None /\ state'[x].id = i,
         Making(i) /\ maker[i] = x => Making(i)' \/ i \in reported' \/ Tracked(i)'
  PROVE  Remembered(i)'
<1> SUFFICES ASSUME maker'[i] # None, obj'[i].st = "live"
             PROVE  (Tracked(i) \/ i \in reported \/ Making(i))'
  BY DEF Remembered
<1>1. CASE Tracked(i)
  <2>1. PICK y \in Resources : state[y] # None /\ state[y].id = i
    BY <1>1 DEF Tracked
  <2>2. state'[y] # None /\ state'[y].id = i
    BY <2>1 DEF Same
  <2> QED
    BY <2>2 DEF Tracked
<1>2. CASE i \in reported
  BY <1>2
<1>3. CASE Making(i)
  <2>1. maker[i] # x => Making(i)'
    BY <1>3 DEF Making, Same
  <2> QED
    BY <1>3, <2>1
<1> QED
  BY <1>1, <1>2, <1>3 DEF Remembered

\* What an end of a method leaves, if what is lost is reported.
LEMMA EndRemembers ==
  ASSUME TypeInv, NEW x \in Resources, NEW st \in States \cup {None}, End(x, st),
         \A y \in Resources : y # x => Same(y),
         UNCHANGED <<obj, maker>>,
         \A i \in reported : i \in reported' \/ (st # None /\ st.id = i),
         method[x] = "create" =>
           pc[x] = "call" \/ id[x] \in reported' \/ (st # None /\ st.id = id[x]),
         \A i \in Objects : obj[i].st = "live" /\ state[x] # None /\ state[x].id = i =>
           st # None /\ st.id = i,
         \A i \in Objects : Remembered(i)
  PROVE  \A i \in Objects : Remembered(i)'
<1>0. ResourcesOK
  BY TypeParts DEF TypeInv
<1>1. state'[x] = st
  BY <1>0 DEF End, ResourcesOK
<1> SUFFICES ASSUME NEW i \in Objects PROVE Remembered(i)'
  OBVIOUS
<1>2. st # None /\ st.id = i => Tracked(i)'
  BY <1>1 DEF Tracked
<1>3. Making(i) /\ maker[i] = x => i \in reported' \/ Tracked(i)'
  BY <1>2 DEF Making
<1> QED
  BY <1>1, <1>2, <1>3, Passed

\* Every step of a method keeps what is known, and forgets no server.
LEMMA MethodKnown ==
  ASSUME TypeInv, StateInv, NEW x \in Resources, Provider(x) \/ Call(x)
  PROVE  /\ \A i \in Objects : Lasts(i) /\ Remembered(i)'
         /\ \A t \in Tasks : Follows(t) /\ TrueTask(t)'
         /\ KnownAt(x)' /\ ClockAt(x)'
<1>0. /\ ResourcesOK /\ ApiTypeOK /\ HistoryOK /\ MethodAt(x)
      /\ KnownAt(x) /\ ClockAt(x)
      /\ \A t \in Tasks : TrueTask(t)
      /\ \A i \in Objects : Remembered(i)
  BY TypeParts DEF TypeInv, StateInv
<1>s. \A y \in Resources : y # x => Same(y)
  BY OthersStay DEF Same
<1>o. obj' = obj => \A i \in Objects : Lasts(i)
  BY DEF Lasts
<1>k. UNCHANGED api => \A t \in Tasks : Follows(t) /\ TrueTask(t)'
  BY <1>0 DEF api, Follows, TrueTask
<1>n. /\ PollInterval \in Nat /\ HttpTimeout \in Nat /\ PollTimeout \in Nat
      /\ waited[x] \in Nat
  BY <1>0, PollAssumption DEF ResourcesOK
<1>p. state[x] # None => state[x] \in States
  BY <1>0 DEF ResourcesOK
\* An end with an error leaves the state alone and reports what is lost.
<1>e. ASSUME NEW lost \in SUBSET Objects, EndWithError(x, lost), UNCHANGED <<obj, maker>>,
             method[x] = "create" => pc[x] = "call" \/ id[x] \in lost
      PROVE  KnownAt(x)' /\ ClockAt(x)' /\ \A i \in Objects : Remembered(i)'
  <2>1. End(x, state[x])
    BY <1>e DEF EndWithError
  <2>2. state[x] \in States \cup {None}
    BY <1>p
  <2>3. state[x] # None => x \notin Volumes /\ obj'[state[x].id].st # "none"
    BY <1>0, <1>e DEF KnownAt
  <2>4. KnownAt(x)' /\ ClockAt(x)'
    BY <2>1, <2>2, <2>3, EndKnown
  <2>5. reported' = reported \cup lost
    BY <1>e DEF EndWithError
  <2>6. \A i \in Objects : Remembered(i)'
    BY <1>0, <1>e, <1>s, <2>1, <2>2, <2>5, EndRemembers
  <2> QED
    BY <2>4, <2>6
\* Dropping the state of a server that does not run.
<1>d. ASSUME EndWithSuccess(x, None), UNCHANGED <<obj, maker>>,
             method[x] # "create", state[x] # None, state[x].id = id[x],
             obj[id[x]].st # "live"
      PROVE  KnownAt(x)' /\ ClockAt(x)' /\ \A i \in Objects : Remembered(i)'
  <2>1. End(x, None) /\ reported' = reported
    BY <1>d DEF EndWithSuccess
  <2>2. KnownAt(x)' /\ ClockAt(x)'
    BY <2>1, EndKnown
  <2>3. \A i \in Objects : Remembered(i)'
    BY <1>0, <1>d, <1>s, <2>1, EndRemembers
  <2> QED
    BY <2>2, <2>3
\* A server that has been read into the state.
<1>f. ASSUME Found(x, id[x]), End(x, Flatten(id[x])), reported' = reported \ {id[x]},
             UNCHANGED <<obj, maker>>, id[x] \in Objects, method[x] # "delete",
             method[x] # "none"
      PROVE  KnownAt(x)' /\ ClockAt(x)' /\ \A i \in Objects : Remembered(i)'
  <2>1. Flatten(id[x]) \in States /\ Flatten(id[x]) # None /\ Flatten(id[x]).id = id[x]
    BY <1>0, <1>f, NoneIsNone DEF Flatten, States, ApiTypeOK, ObjectRecords
  <2>2. x \notin Volumes /\ obj'[id[x]].st # "none"
    BY <1>f DEF Found, Served, There
  <2>3. KnownAt(x)' /\ ClockAt(x)'
    BY <1>f, <2>1, <2>2, EndKnown
  <2>4. state[x] # None => state[x].id = id[x]
    BY <1>0, <1>f DEF MethodAt, ResourcesOK
  <2>5. \A i \in Objects : Remembered(i)'
    BY <1>0, <1>f, <1>s, <2>1, <2>4, EndRemembers
  <2> QED
    BY <2>3, <2>5
\* Going on with the same server.
<1>g. ASSUME NEW step \in {"wait", "sleep", "get"}, Goto(x, step),
             UNCHANGED <<obj, maker, task, id, tid>>, pc[x] \in {"wait", "sleep"}
      PROVE  KnownAt(x)' /\ \A i \in Objects : Remembered(i)'
  <2>1. pc'[x] = step /\ UNCHANGED <<state, method, reported>>
    BY <1>0, <1>g DEF Goto, ResourcesOK
  <2>2. KnownAt(x)'
    BY <1>0, <1>g, <2>1 DEF KnownAt, Is
  <2>3. ASSUME NEW i \in Objects PROVE Remembered(i)'
    <3>1. Making(i) /\ maker[i] = x => Making(i)'
      BY <1>g, <2>1 DEF Making
    <3> QED
      BY <1>0, <1>g, <1>s, <2>1, <3>1, Passed
  <2> QED
    BY <2>2, <2>3
<1>1. CASE Call(x)
  <2>1. PICK m \in {"create", "read", "update", "delete", "import"},
             i \in Objects \cup {None}, n \in Sizes \cup {None} : Begin(x, m, i, n)
    BY <1>1 DEF Call
  <2>2. /\ UNCHANGED <<state, waited, maker, reported>> /\ UNCHANGED api /\ obj' = obj
        /\ method'[x] = m /\ id'[x] = i /\ pc'[x] \in {"call", "get"} /\ pc[x] = "idle"
    BY <1>0, <2>1 DEF Begin, wait, history, ResourcesOK, api
  <2>3. i # None => obj[i].st # "none"
    BY <1>0, <2>1 DEF Begin, KnownAt
  <2>4. KnownAt(x)' /\ ClockAt(x)'
    BY <1>0, <2>2, <2>3 DEF KnownAt, ClockAt
  <2>5. ASSUME NEW j \in Objects PROVE Remembered(j)'
    <3>1. ~(Making(j) /\ maker[j] = x)
      BY <2>2 DEF Making
    <3> QED
      BY <1>0, <1>s, <2>2, <3>1, Passed
  <2> QED
    BY <1>o, <1>k, <2>2, <2>4, <2>5
<1>2. CASE CreateCall(x)
  <2>0. /\ pc[x] = "call" /\ method[x] = "create" /\ plan[x] \in Sizes
        /\ state[x] = None /\ id[x] = None
    BY <1>0, <1>2 DEF CreateCall, MethodAt
  <2>1. ASSUME NEW i \in Objects, NEW t \in Tasks, NEW st \in {"none", "open"},
               Made(t, i, plan[x], st), maker' = [maker EXCEPT ![i] = x],
               \/ /\ Goto(x, "wait") /\ id' = [id EXCEPT ![x] = i]
                  /\ tid' = [tid EXCEPT ![x] = t] /\ UNCHANGED waited
               \/ EndWithError(x, {i})
        PROVE  /\ \A j \in Objects : Lasts(j) /\ Remembered(j)'
               /\ \A u \in Tasks : Follows(u) /\ TrueTask(u)'
               /\ KnownAt(x)' /\ ClockAt(x)'
    <3>1. /\ obj[i].st = "none" /\ obj'[i].st = "live"
          /\ \A j \in Objects : j # i => obj'[j] = obj[j]
          /\ Asked(t, "create", i, plan[x], st)
      BY <1>0, <2>1 DEF Made, ApiTypeOK
    <3>2. \A j \in Objects : Lasts(j)
      BY <3>1 DEF Lasts
    <3>3. /\ \A u \in Tasks : Follows(u)
          /\ \A u \in Tasks : u # t => task'[u] = task[u]
          /\ Is(t, "create", i)' /\ task'[t].status = st /\ task'[t] # NoTask
      BY <1>0, <2>0, <3>1, AskedGrows DEF Calls
    <3>4. ASSUME NEW u \in Tasks PROVE TrueTask(u)'
      <4>1. CASE u = t
        BY <3>3, <4>1 DEF TrueTask
      <4>2. CASE u # t
        <5> SUFFICES ASSUME task[u] # NoTask PROVE TrueTask(u)'
          BY <3>3, <4>2 DEF TrueTask
        <5>1. task[u].of \in Objects
          BY <1>0, CallIsTask DEF TaskRecords
        <5> QED
          BY <1>0, <3>2, <3>3, <4>2, <5>1 DEF TrueTask, Lasts
      <4> QED
        BY <4>1, <4>2
    <3>5. ASSUME NEW j \in Objects, j # i PROVE Remembered(j)'
      <4>1. maker'[j] = maker[j] /\ obj'[j] = obj[j]
        BY <1>0, <2>1, <3>1, <3>5 DEF HistoryOK
      <4>2. reported \subseteq reported'
        BY <2>1 DEF Goto, EndWithError
      <4>3. ~(Making(j) /\ maker[j] = x)
        BY <2>0 DEF Making
      <4> QED
        BY <1>0, <1>s, <2>0, <4>1, <4>2, <4>3, Passed
    <3>6. maker'[i] = x
      BY <1>0, <2>1 DEF HistoryOK
    <3>7. CASE Goto(x, "wait") /\ id' = [id EXCEPT ![x] = i]
               /\ tid' = [tid EXCEPT ![x] = t] /\ UNCHANGED waited
      <4>1. /\ pc'[x] = "wait" /\ UNCHANGED <<state, method>> /\ id'[x] = i /\ tid'[x] = t
            /\ waited' = waited
        BY <1>0, <3>7 DEF Goto, ResourcesOK
      <4>2. Making(i)'
        BY <2>0, <3>6, <4>1 DEF Making
      <4>3. KnownAt(x)'
        BY <2>0, <3>1, <3>3, <4>1 DEF KnownAt
      <4>4. ClockAt(x)'
        BY <1>0, <4>1 DEF ClockAt
      <4> QED
        BY <3>2, <3>3, <3>4, <3>5, <4>2, <4>3, <4>4 DEF Remembered
    <3>8. CASE EndWithError(x, {i})
      <4>1. End(x, None) /\ i \in reported'
        BY <2>0, <3>8 DEF EndWithError
      <4>2. KnownAt(x)' /\ ClockAt(x)'
        BY <4>1, EndKnown
      <4> QED
        BY <3>2, <3>3, <3>4, <3>5, <4>1, <4>2 DEF Remembered
    <3> QED
      BY <2>1, <3>7, <3>8
  <2>2. CASE EndWithError(x, {}) /\ UNCHANGED <<api, maker>>
    BY <1>e, <1>o, <1>k, <2>0, <2>2 DEF api
  <2> QED
    BY <1>2, <2>1, <2>2 DEF CreateCall
<1>3. CASE ChangeCall(x)
  <2>0. /\ pc[x] = "call" /\ method[x] \in {"update", "delete"}
        /\ state[x] # None /\ state[x].id = id[x] /\ UNCHANGED <<obj, maker>>
    BY <1>0, <1>3 DEF ChangeCall, MethodAt
  <2>1. id[x] \in Objects /\ x \notin Volumes
    BY <1>0, <2>0 DEF ResourcesOK, States, KnownAt
  <2>2. ASSUME NEW t \in Tasks, NEW st \in {"none", "open"},
               Asked(t, method[x], id[x],
                     IF method[x] = "update" THEN plan[x] ELSE obj[id[x]].size, st)
        PROVE  /\ \A u \in Tasks : Follows(u) /\ TrueTask(u)'
               /\ task'[t].call = method[x] /\ task'[t].of = id[x]
    <3>1. PICK m \in Calls, i \in Objects, n \in Sizes : Asked(t, m, i, n, st)
                                                /\ m = method[x] /\ i = id[x]
      <4>1. (IF method[x] = "update" THEN plan[x] ELSE obj[id[x]].size) \in Sizes
        BY <1>0, <2>0, <2>1 DEF MethodAt, ApiTypeOK, ObjectRecords
      <4> QED
        BY <2>0, <2>1, <2>2, <4>1 DEF Calls
    <3>2. /\ \A u \in Tasks : Follows(u)
          /\ \A u \in Tasks : u # t => task'[u] = task[u]
          /\ Is(t, m, i)' /\ task'[t].status = st
      BY <1>0, <3>1, AskedGrows
    <3>3. \A u \in Tasks : TrueTask(u)'
      BY <1>0, <2>0, <3>2 DEF TrueTask
    <3> QED
      BY <3>1, <3>2, <3>3 DEF Is
  <2>3. ASSUME Goto(x, "wait"), NEW t \in Tasks, tid' = [tid EXCEPT ![x] = t],
               UNCHANGED <<id, waited>>,
               task'[t].call = method[x], task'[t].of = id[x]
        PROVE  KnownAt(x)' /\ ClockAt(x)' /\ \A i \in Objects : Remembered(i)'
    <3>1. pc'[x] = "wait" /\ UNCHANGED <<state, method, reported>> /\ tid'[x] = t
      BY <1>0, <2>3 DEF Goto, ResourcesOK
    <3>2. KnownAt(x)' /\ ClockAt(x)'
      BY <1>0, <2>0, <2>3, <3>1 DEF KnownAt, Is, ClockAt
    <3>3. ASSUME NEW i \in Objects PROVE Remembered(i)'
      <4>1. ~(Making(i) /\ maker[i] = x)
        BY <2>0 DEF Making
      <4> QED
        BY <1>0, <1>s, <2>0, <3>1, <4>1, Passed
    <3> QED
      BY <3>2, <3>3
  <2>4. UNCHANGED task => \A u \in Tasks : Follows(u) /\ TrueTask(u)'
    BY <1>k, <2>0 DEF api
  <2>5. ASSUME EndWithError(x, {})
        PROVE  KnownAt(x)' /\ ClockAt(x)' /\ \A i \in Objects : Remembered(i)'
    BY <1>e, <2>0, <2>5
  <2>6. CASE ~Found(x, id[x]) /\ EndWithSuccess(x, None) /\ UNCHANGED task
    <3>1. obj[id[x]].st # "live"
      BY <2>1, <2>6 DEF Found, Served, There
    <3> QED
      BY <1>d, <1>o, <2>0, <2>4, <2>6, <3>1
  <2> QED
    BY <1>3, <1>o, <2>0, <2>2, <2>3, <2>4, <2>5, <2>6 DEF ChangeCall
<1>4. CASE WaitTask(x) \/ WaitSleep(x) \/ GetObject(x)
  <2>0. /\ UNCHANGED <<api, obj, task, maker>> /\ pc[x] \in {"wait", "sleep", "get"}
        /\ id[x] \in Objects /\ method[x] # "none"
    BY <1>0, <1>4 DEF WaitTask, WaitSleep, GetObject, api, MethodAt
  <2> SUFFICES KnownAt(x)' /\ ClockAt(x)' /\ \A i \in Objects : Remembered(i)'
    BY <1>o, <1>k, <2>0
  <2>1. CASE EndWithError(x, Lost(x))
    <3>1. Lost(x) \in SUBSET Objects /\ (method[x] = "create" => id[x] \in Lost(x))
      BY <2>0 DEF Lost
    <3> QED
      BY <1>e, <2>0, <2>1, <3>1
  <2>2. CASE WaitTask(x)
    <3>0. pc[x] = "wait" /\ tid[x] \in Tasks /\ Is(tid[x], method[x], id[x])
          /\ method[x] \in Calls
      BY <1>0, <2>2 DEF WaitTask, MethodAt, KnownAt, Calls
    <3>1. CASE /\ waited[x] <= PollTimeout /\ Goto(x, "sleep")
               /\ \E d \in {0, HttpTimeout} : waited' = [waited EXCEPT ![x] = @ + d]
               /\ UNCHANGED <<id, tid>>
      <4>1. PICK d \in {0, HttpTimeout} : waited'[x] = waited[x] + d
        BY <1>0, <3>1 DEF ResourcesOK
      <4>2. waited'[x] <= PollTimeout + HttpTimeout
        BY <1>n, <3>1, <4>1
      <4>3. ClockAt(x)'
        BY <1>n, <4>1, <4>2 DEF ClockAt
      <4> QED
        BY <1>g, <2>0, <3>0, <3>1, <4>3
    <3>2. CASE Goto(x, "get") /\ UNCHANGED <<id, wait>>
      <4>1. ClockAt(x)'
        BY <1>0, <3>2 DEF ClockAt, Goto, wait, ResourcesOK
      <4> QED
        BY <1>g, <2>0, <3>0, <3>2, <4>1 DEF wait
    <3>3. CASE /\ task[tid[x]].status = "success" /\ method[x] = "delete"
               /\ EndWithSuccess(x, None)
      <4>1. task[tid[x]] # NoTask
        BY <1>0, <3>0, CallIsTask DEF Is
      <4>2. obj[id[x]].st \in {"deleting", "gone"}
        BY <1>0, <3>0, <3>3, <4>1 DEF TrueTask, Is
      <4>3. state[x] # None /\ state[x].id = id[x]
        BY <1>0, <3>3 DEF MethodAt
      <4> QED
        BY <1>d, <2>0, <3>3, <4>2, <4>3
    <3> QED
      BY <2>1, <2>2, <3>1, <3>2, <3>3 DEF WaitTask
  <2>3. CASE WaitSleep(x)
    <3>1. CASE /\ Goto(x, "wait") /\ waited' = [waited EXCEPT ![x] = @ + PollInterval]
               /\ UNCHANGED <<id, tid>>
      <4>1. waited'[x] = waited[x] + PollInterval /\ pc'[x] = "wait"
        BY <1>0, <3>1 DEF ResourcesOK, Goto
      <4>2. waited[x] <= PollTimeout + HttpTimeout
        BY <1>0, <2>3 DEF WaitSleep, ClockAt
      <4>3. ClockAt(x)'
        BY <1>n, <4>1, <4>2 DEF ClockAt
      <4> QED
        BY <1>g, <2>0, <2>3, <3>1, <4>3 DEF WaitSleep
    <3> QED
      BY <2>1, <2>3, <3>1 DEF WaitSleep
  <2>4. CASE GetObject(x)
    <3>0. pc[x] = "get" /\ method[x] # "delete"
      BY <1>0, <2>4 DEF GetObject, MethodAt
    <3>1. CASE ~Found(x, id[x]) /\ method[x] \in {"read", "update"}
               /\ EndWithSuccess(x, None)
      <4>1. state[x] # None /\ state[x].id = id[x]
        BY <1>0, <3>1 DEF MethodAt
      <4>2. obj[id[x]].st # "live"
        BY <1>0, <3>1, <4>1 DEF Found, Served, There, KnownAt
      <4> QED
        BY <1>d, <2>0, <3>1, <4>1, <4>2
    <3> QED
      BY <1>f, <2>0, <2>1, <2>4, <3>0, <3>1 DEF GetObject
  <2> QED
    BY <1>4, <2>2, <2>3, <2>4
<1> QED
  BY <1>1, <1>2, <1>3, <1>4 DEF Provider, Call

\* What is known, and remembered, after a step of the API on its own.
LEMMA ApiKnown ==
  ASSUME TypeInv, StateInv, ApiAlone
  PROVE  StateInv'
<1>0. ApiTypeOK /\ ApiStep
  BY TypeParts DEF TypeInv, ApiAlone
<1>1. /\ \A i \in Objects : Lasts(i) /\ (obj'[i].st = "live" => obj[i].st = "live")
      /\ \A t \in Tasks : Follows(t)
  BY <1>0, ApiGrows
<1>2. UNCHANGED <<state, method, plan, id, pc, tid, waited, maker, reported>>
  BY DEF ApiAlone, methods, wait, history
<1>3. \A y \in Resources : Same(y)
  BY <1>2 DEF Same
<1>4. \A y \in Resources : KnownAt(y)'
  BY <1>1, <1>3, KnownStays DEF StateInv
<1>5. \A y \in Resources : ClockAt(y)'
  BY <1>2 DEF StateInv, ClockAt
<1>6. \A t \in Tasks : TrueTask(t)'
  BY <1>0, TruthStays DEF StateInv
<1>7. \A i \in Objects : Remembered(i)'
  BY <1>1, <1>2 DEF StateInv, Remembered, Tracked, Making
<1> QED
  BY <1>4, <1>5, <1>6, <1>7 DEF StateInv

\* Whatever the provider and the API do: what is known stays true.
THEOREM StateInvHolds == Spec => []StateInv
<1>1. Init => StateInv
  <2> SUFFICES ASSUME Init PROVE StateInv
    OBVIOUS
  <2>1. 0 <= PollTimeout + HttpTimeout + PollInterval /\ 0 <= PollTimeout + HttpTimeout
    BY PollAssumption
  <2>2. \A x \in Resources : ClockAt(x) /\ KnownAt(x)
    BY <2>1 DEF Init, ClockAt, KnownAt
  <2>3. \A t \in Tasks : TrueTask(t)
    BY DEF Init, ApiInit, TrueTask
  <2>4. \A i \in Objects : Remembered(i)
    BY DEF Init, Remembered
  <2> QED
    BY <2>2, <2>3, <2>4 DEF StateInv
<1>2. TypeInv /\ StateInv /\ [Next]_vars => StateInv'
  <2> SUFFICES ASSUME TypeInv, StateInv, [Next]_vars PROVE StateInv'
    OBVIOUS
  <2>1. ASSUME NEW x \in Resources, Provider(x) \/ Call(x)
        PROVE  StateInv'
    <3>1. /\ \A i \in Objects : Lasts(i) /\ Remembered(i)'
          /\ \A t \in Tasks : Follows(t) /\ TrueTask(t)'
          /\ KnownAt(x)' /\ ClockAt(x)'
      BY <2>1, MethodKnown
    <3>2. ASSUME NEW y \in Resources, y # x PROVE KnownAt(y)' /\ ClockAt(y)'
      <4>1. Same(y)
        BY <2>1, <3>2, OthersStay DEF Same
      <4>2. KnownAt(y)'
        BY <3>1, <4>1, KnownStays DEF StateInv
      <4>3. ClockAt(y)'
        BY <4>1 DEF StateInv, ClockAt, Same
      <4> QED
        BY <4>2, <4>3
    <3> QED
      BY <3>1, <3>2 DEF StateInv
  <2>2. CASE ApiAlone
    BY <2>2, ApiKnown
  <2>3. CASE UNCHANGED vars
    BY <2>3 DEF vars, StateInv, ClockAt, KnownAt, TrueTask, Remembered, Tracked,
      Making, Is
  <2> QED
    BY <2>1, <2>2, <2>3 DEF Next, Call, ApiAlone
<1> QED
  BY <1>1, <1>2, TypeInvHolds, PTL DEF Spec

\* WaitTask overruns poll_timeout by at most one poll and one sleep, whatever the
\* API answers.
THEOREM Bounded == Spec => []WaitBounded
<1>1. StateInv => WaitBounded
  BY DEF StateInv, ClockAt, WaitBounded
<1> QED
  BY <1>1, StateInvHolds, PTL

\* No server Terraform made is forgotten while it runs, unless the user has been
\* shown the error that lost it.
THEOREM NothingForgotten == Spec => []NoUnreportedOrphan
<1>1. TypeInv /\ StateInv => NoUnreportedOrphan
  BY DEF StateInv, Remembered, Making, NoUnreportedOrphan
<1> QED
  BY <1>1, TypeInvHolds, StateInvHolds, PTL

\* Delete reports success only for a server that is being deleted or is gone: its
\* task says so, or the API answered 404, and then it is gone because the state
\* holds no volumes.
THEOREM DestroyTells == Spec => DestroyedIsDeleted
<1>1. TypeInv /\ StateInv /\ [Next]_vars =>
        [\A x \in Resources :
           method[x] = "delete" /\ state[x] # None /\ state'[x] = None =>
             obj'[state[x].id].st \in {"deleting", "gone"}]_vars
  <2> SUFFICES ASSUME TypeInv, StateInv, Next, NEW x \in Resources,
                      method[x] = "delete", state[x] # None, state'[x] = None
               PROVE  obj'[state[x].id].st \in {"deleting", "gone"}
    OBVIOUS
  <2>0. /\ ResourcesOK /\ ApiTypeOK /\ MethodAt(x) /\ KnownAt(x)
        /\ \A t \in Tasks : TrueTask(t)
    BY TypeParts DEF TypeInv, StateInv
  <2>1. state[x].id = id[x] /\ id[x] \in Objects /\ x \notin Volumes
        /\ obj[id[x]].st # "none"
    BY <2>0 DEF MethodAt, ResourcesOK, States, KnownAt
  <2>2. Provider(x) \/ Call(x)
    <3>1. ~ApiAlone
      BY DEF ApiAlone
    <3>2. ASSUME NEW y \in Resources, y # x, Provider(y) \/ Call(y)
          PROVE  FALSE
      BY <3>2, OthersStay
    <3> QED
      BY <3>1, <3>2 DEF Next, Call, ApiAlone
  <2>3. ~EndWithError(x, {}) /\ ~EndWithError(x, Lost(x)) /\ state' # state
    BY <2>0 DEF EndWithError, End, ResourcesOK
  <2>4. CASE ChangeCall(x)
    <3>1. ~Found(x, id[x]) /\ obj' = obj
      BY <2>3, <2>4 DEF ChangeCall, Goto
    <3> QED
      BY <2>0, <2>1, <3>1 DEF Found, Served, There, ApiTypeOK, ObjectRecords
  <2>5. CASE WaitTask(x)
    <3>1. task[tid[x]].status = "success" /\ obj' = obj /\ pc[x] = "wait"
      BY <2>3, <2>5 DEF WaitTask, Goto, api
    <3>2. tid[x] \in Tasks /\ Is(tid[x], "delete", id[x])
      BY <2>0, <3>1 DEF MethodAt, KnownAt
    <3>3. task[tid[x]] # NoTask
      BY <2>0, <3>2, CallIsTask DEF Is, Calls
    <3> QED
      BY <2>0, <2>1, <3>1, <3>2, <3>3 DEF TrueTask, Is
  <2>6. CASE Call(x)
    BY <2>3, <2>6 DEF Call, Begin
  <2>7. CASE CreateCall(x) \/ WaitSleep(x) \/ GetObject(x)
    <3>1. ~CreateCall(x) /\ ~GetObject(x)
      BY <2>0 DEF CreateCall, GetObject, MethodAt
    <3>2. ~WaitSleep(x)
      BY <2>3 DEF WaitSleep, Goto
    <3> QED
      BY <2>7, <3>1, <3>2
  <2> QED
    BY <2>2, <2>4, <2>5, <2>6, <2>7 DEF Provider
<1> QED
  BY <1>1, TypeInvHolds, StateInvHolds, PTL DEF Spec, DestroyedIsDeleted

-----------------------------------------------------------------------------
(* Sizes.                                                                  *)

Unshared == \A x, y \in Resources, i \in Objects : Holds(x, i) /\ Holds(y, i) => x = y

\* What a step of a method leaves of the API's state.
LEMMA MethodFrame ==
  ASSUME TypeInv, NEW x \in Resources, Provider(x) \/ Call(x)
  PROVE  /\ \A i \in Objects : obj[i].st # "none" => obj'[i] = obj[i]
         /\ \A t \in Tasks : task[t] # NoTask => task'[t] = task[t]
         /\ erred \subseteq erred'
<1>0. ApiTypeOK
  BY TypeParts DEF TypeInv
<1>1. CASE Call(x)
  BY <1>1 DEF Call, Begin, api, history
<1>2. CASE CreateCall(x)
  BY <1>0, <1>2 DEF CreateCall, Made, Asked, Goto, EndWithError, api, ApiTypeOK
<1>3. CASE ChangeCall(x)
  <2>1. erred \subseteq erred' /\ obj' = obj
    BY <1>3 DEF ChangeCall, Goto, EndWithError, EndWithSuccess
  <2>2. \A t \in Tasks : task[t] # NoTask => task'[t] = task[t]
    BY <1>0, <1>3 DEF ChangeCall, Asked, ApiTypeOK
  <2> QED
    BY <2>1, <2>2
<1>4. CASE WaitTask(x) \/ WaitSleep(x)
  BY <1>4 DEF WaitTask, WaitSleep, Goto, EndWithError, EndWithSuccess, api
<1>5. CASE GetObject(x)
  BY <1>5 DEF GetObject, EndWithError, EndWithSuccess, api
<1> QED
  BY <1>1, <1>2, <1>3, <1>4, <1>5 DEF Provider

\* A server or task somebody works with is no new one.
LEMMA HeldIsKnown ==
  ASSUME TypeInv, StateInv, NEW y \in Resources
  PROVE  /\ \A i \in Objects : Holds(y, i) => obj[i].st # "none"
         /\ Updating(y) => /\ tid[y] \in Tasks /\ task[tid[y]] # NoTask
                           /\ task[tid[y]] \in TaskRecords
                           /\ task[tid[y]].call = "update" /\ task[tid[y]].of = id[y]
                           /\ id[y] \in Objects /\ plan[y] \in Sizes
                           /\ state[y] # None /\ state[y].id = id[y]
<1>0. ApiTypeOK /\ MethodAt(y) /\ KnownAt(y)
  BY TypeParts DEF TypeInv, StateInv
<1>1. \A i \in Objects : Holds(y, i) => obj[i].st # "none"
  BY <1>0, NoneIsNone DEF Holds, KnownAt
<1>2. ASSUME Updating(y)
      PROVE  /\ tid[y] \in Tasks /\ Is(tid[y], "update", id[y])
             /\ id[y] \in Objects /\ plan[y] \in Sizes
             /\ state[y] # None /\ state[y].id = id[y]
  BY <1>0, <1>2 DEF Updating, MethodAt, KnownAt
<1> QED
  BY <1>0, <1>1, <1>2, CallIsTask DEF Is, Calls

\* Sizes stay right for a resource whose server and task are left alone.
LEMMA SizeStays ==
  ASSUME TypeInv, NEW y \in Resources, SizeAt(y), Same(y), erred \subseteq erred',
         \A i \in Objects : Holds(y, i) => obj'[i].size = obj[i].size,
         Updating(y) => /\ task'[tid[y]].size = task[tid[y]].size
                        /\ task'[tid[y]].worked => task[tid[y]].worked
  PROVE  SizeAt(y)'
<1>0. ResourcesOK /\ MethodAt(y)
  BY TypeParts DEF TypeInv
<1>1. state[y] # None => state[y].id \in Objects /\ Holds(y, state[y].id)
  BY <1>0 DEF ResourcesOK, States, Holds
<1>2. pc[y] \in {"wait", "sleep", "get"} => id[y] \in Objects /\ Holds(y, id[y])
  BY <1>0 DEF MethodAt, Holds
<1>3. ASSUME state'[y] # None, state'[y].id \notin erred'
      PROVE  \/ method'[y] = "update" /\ pc'[y] \in {"wait", "sleep", "get"}
             \/ obj'[state'[y].id].size = state'[y].size
  BY <1>1, <1>3 DEF SizeAt, Same
<1>4. ASSUME Updating(y)', id'[y] \notin erred'
      PROVE  /\ task'[tid'[y]].size = plan'[y]
             /\ task'[tid'[y]].worked => obj'[id'[y]].size = plan'[y]
  <2>1. Updating(y) /\ id[y] \notin erred
    BY <1>4 DEF Same, Updating
  <2>2. id[y] \in Objects /\ Holds(y, id[y])
    BY <1>2, <2>1 DEF Updating
  <2>3. /\ task[tid[y]].size = plan[y]
        /\ task[tid[y]].worked => obj[id[y]].size = plan[y]
    BY <2>1 DEF SizeAt
  <2> QED
    BY <2>1, <2>2, <2>3 DEF Same
<1>5. ASSUME method'[y] = "update", pc'[y] = "get", id'[y] \notin erred'
      PROVE  obj'[id'[y]].size = plan'[y]
  BY <1>2, <1>5 DEF SizeAt, Same
<1> QED
  BY <1>3, <1>4, <1>5 DEF SizeAt

\* What a step of x's method owes the others: it takes no server of theirs, and
\* lets go of a resize that may still take effect only with an error.
Owes(x) ==
  /\ \A i \in Objects : Holds(x, i)' =>
       Holds(x, i) \/ \A y \in Resources : y # x => ~Holds(y, i)
  /\ Updating(x) /\ task[tid[x]].status # "success" =>
       id[x] \in erred' \/ (Updating(x)' /\ id'[x] = id[x] /\ tid'[x] = tid[x])
  /\ \A t \in Tasks : task[t] = NoTask /\ Pending(t)' =>
       \/ task'[t].of \in erred'
       \/ Updating(x)' /\ id'[x] = task'[t].of /\ tid'[x] = t

\* When a method ends, there is left what it put into the state.
LEMMA EndSizes ==
  ASSUME TypeInv, NEW x \in Resources, NEW st \in States \cup {None}, End(x, st),
         st # None => st.id \in erred' \/ obj'[st.id].size = st.size,
         st # None => Holds(x, st.id),
         Updating(x) /\ task[tid[x]].status # "success" => id[x] \in erred',
         \A t \in Tasks : task[t] = NoTask /\ Pending(t)' => task'[t].of \in erred'
  PROVE  SizeAt(x)' /\ Owes(x)
<1>1. /\ pc'[x] = "idle" /\ method'[x] = "none" /\ id'[x] = None /\ state'[x] = st
  BY TypeParts DEF TypeInv, End, ResourcesOK
<1>2. SizeAt(x)'
  BY <1>1 DEF SizeAt, Updating
<1>3. \A i \in Objects : Holds(x, i)' => Holds(x, i)
  BY <1>1, NoneIsNone DEF Holds
<1> QED
  BY <1>2, <1>3 DEF Owes

\* A step of a method keeps sizes right, those of the resource it is for.
LEMMA MethodSizes ==
  ASSUME TypeInv, StateInv, SizeInv, NEW x \in Resources, Provider(x) \/ Call(x)
  PROVE  SizeAt(x)' /\ Owes(x)
<1>0. /\ ResourcesOK /\ ApiTypeOK /\ MethodAt(x) /\ KnownAt(x) /\ SizeAt(x)
      /\ \A t \in Tasks : TrueTask(t)
  BY TypeParts DEF TypeInv, StateInv, SizeInv
<1>n. \A y \in Resources, i \in Objects : Holds(y, i) => obj[i].st # "none"
  BY HeldIsKnown
<1>k. task' = task => \A t \in Tasks : task[t] = NoTask => ~Pending(t)'
  BY DEF Pending, NoTask
\* An end with an error, before anything was asked or after.
<1>e. ASSUME NEW lost \in SUBSET Objects, EndWithError(x, lost),
             \A t \in Tasks : task[t] = NoTask /\ Pending(t)' => task'[t].of = id[x],
             method[x] = "none" => FALSE,
             obj' = obj \/ state[x] = None
      PROVE  SizeAt(x)' /\ Owes(x)
  <2>1. End(x, state[x]) /\ erred' = erred \cup {id[x]}
    BY <1>e DEF EndWithError
  <2>2. state[x] # None => Holds(x, state[x].id) /\ state[x].id \in erred'
    BY <1>0, <1>e, <2>1 DEF MethodAt, Holds, ResourcesOK
  <2>3. state[x] \in States \cup {None}
    BY <1>0 DEF ResourcesOK
  <2> QED
    BY <1>e, <2>1, <2>2, <2>3, EndSizes
<1>d. ASSUME EndWithSuccess(x, None), task' = task,
             method[x] # "update" \/ pc[x] = "get"
      PROVE  SizeAt(x)' /\ Owes(x)
  <2>1. End(x, None) /\ ~Updating(x)
    BY <1>d DEF EndWithSuccess, Updating
  <2> QED
    BY <1>d, <1>k, <2>1, EndSizes
<1>1. CASE Call(x)
  <2>1. PICK m \in {"create", "read", "update", "delete", "import"},
             i \in Objects \cup {None}, n \in Sizes \cup {None} : Begin(x, m, i, n)
    BY <1>1 DEF Call
  <2>2. /\ UNCHANGED <<state, tid, erred, obj, task>> /\ plan'[x] = n
        /\ method'[x] = m /\ id'[x] = i /\ pc'[x] \in {"call", "get"} /\ pc[x] = "idle"
        /\ pc'[x] = "get" /\ m = "update" => n = state[x].size
    BY <1>0, <2>1 DEF Begin, wait, history, ResourcesOK, api
  <2>3. m = "update" => state[x] # None /\ i = state[x].id
    BY <2>1 DEF Begin
  <2>4. SizeAt(x)'
    BY <1>0, <2>2, <2>3 DEF SizeAt, Updating
  <2>5. ASSUME NEW j \in Objects, Holds(x, j)', ~Holds(x, j),
               NEW y \in Resources, y # x
        PROVE  ~Holds(y, j)
    <3>1. m = "import" /\ j = i
      BY <2>1, <2>2, <2>5, NoneIsNone DEF Begin, Holds
    <3>2. pc[y] = "idle" /\ (state[y] # None => state[y].id # i)
      BY <2>1, <3>1 DEF Begin
    <3>3. id[y] = None
      BY <3>2 DEF TypeInv, MethodAt
    <3> QED
      BY <3>1, <3>2, <3>3, NoneIsNone DEF Holds
  <2>6. ~Updating(x)
    BY <2>2 DEF Updating
  <2> QED
    BY <1>k, <2>2, <2>4, <2>5, <2>6 DEF Owes
<1>2. CASE CreateCall(x)
  <2>0. /\ pc[x] = "call" /\ method[x] = "create" /\ plan[x] \in Sizes
        /\ state[x] = None /\ id[x] = None
    BY <1>0, <1>2 DEF CreateCall, MethodAt
  <2>1. ASSUME NEW i \in Objects, NEW t \in Tasks, NEW st \in {"none", "open"},
               Made(t, i, plan[x], st),
               \/ /\ Goto(x, "wait") /\ id' = [id EXCEPT ![x] = i]
                  /\ tid' = [tid EXCEPT ![x] = t] /\ UNCHANGED waited
               \/ EndWithError(x, {i})
        PROVE  SizeAt(x)' /\ Owes(x)
    <3>1. obj[i].st = "none" /\ Asked(t, "create", i, plan[x], st)
      BY <2>1 DEF Made
    <3>2. \A u \in Tasks : task[u] = NoTask => ~Pending(u)'
      <4>1. /\ \A u \in Tasks : u # t => task'[u] = task[u]
            /\ Is(t, "create", i)'
        BY <1>0, <2>0, <3>1, AskedGrows DEF Calls
      <4> QED
        BY <4>1 DEF Pending, Is, NoTask
    <3>3. CASE Goto(x, "wait") /\ id' = [id EXCEPT ![x] = i]
      <4>1. /\ pc'[x] = "wait" /\ UNCHANGED <<state, method>> /\ id'[x] = i
        BY <1>0, <3>3 DEF Goto, ResourcesOK
      <4>2. SizeAt(x)'
        BY <2>0, <4>1 DEF SizeAt, Updating
      <4>3. \A j \in Objects : Holds(x, j)' => \A y \in Resources : ~Holds(y, j)
        BY <1>n, <2>0, <3>1, <4>1 DEF Holds
      <4>4. ~Updating(x)
        BY <2>0 DEF Updating
      <4> QED
        BY <3>2, <4>2, <4>3, <4>4 DEF Owes
    <3>4. CASE EndWithError(x, {i})
      BY <1>e, <2>0, <3>2, <3>4
    <3> QED
      BY <2>1, <3>3, <3>4
  <2>2. CASE EndWithError(x, {}) /\ UNCHANGED <<api, maker>>
    BY <1>e, <1>k, <2>0, <2>2 DEF api
  <2> QED
    BY <1>2, <2>1, <2>2 DEF CreateCall
<1>3. CASE ChangeCall(x)
  <2>0. /\ pc[x] = "call" /\ method[x] \in {"update", "delete"}
        /\ state[x] # None /\ state[x].id = id[x] /\ obj' = obj
    BY <1>0, <1>3 DEF ChangeCall, MethodAt
  <2>1. id[x] \in Objects
    BY <1>0, <2>0 DEF ResourcesOK, States
  <2>2. ASSUME NEW t \in Tasks, NEW st \in {"none", "open"},
               Asked(t, method[x], id[x],
                     IF method[x] = "update" THEN plan[x] ELSE obj[id[x]].size, st)
        PROVE  /\ \A u \in Tasks : task[u] = NoTask /\ Pending(u)' => u = t
               /\ task'[t].call = method[x] /\ task'[t].of = id[x]
               /\ method[x] = "update" => task'[t].size = plan[x]
               /\ ~task'[t].worked
    <3>1. PICK m \in Calls, i \in Objects, n \in Sizes :
            /\ Asked(t, m, i, n, st) /\ m = method[x] /\ i = id[x]
            /\ method[x] = "update" => n = plan[x]
      <4>1. (IF method[x] = "update" THEN plan[x] ELSE obj[id[x]].size) \in Sizes
        BY <1>0, <2>0, <2>1 DEF MethodAt, ApiTypeOK, ObjectRecords
      <4> QED
        BY <2>0, <2>1, <2>2, <4>1 DEF Calls
    <3>2. /\ \A u \in Tasks : u # t => task'[u] = task[u]
          /\ Is(t, m, i)' /\ task'[t].size = n /\ ~task'[t].worked
      BY <1>0, <3>1, AskedGrows
    <3>3. \A u \in Tasks : task[u] = NoTask /\ Pending(u)' => u = t
      BY <3>2 DEF Pending, NoTask
    <3> QED
      BY <3>1, <3>2, <3>3 DEF Is
  <2>3. ASSUME Goto(x, "wait"), NEW t \in Tasks, tid' = [tid EXCEPT ![x] = t],
               UNCHANGED <<id, waited>>,
               \A u \in Tasks : task[u] = NoTask /\ Pending(u)' => u = t,
               task'[t].call = method[x], task'[t].of = id[x],
               method[x] = "update" => task'[t].size = plan[x],
               ~task'[t].worked
        PROVE  SizeAt(x)' /\ Owes(x)
    <3>1. pc'[x] = "wait" /\ UNCHANGED <<state, method, plan, erred>> /\ tid'[x] = t
      BY <1>0, <2>3 DEF Goto, ResourcesOK
    <3>2. SizeAt(x)'
      BY <1>0, <2>0, <2>3, <3>1 DEF SizeAt, Updating
    <3>3. \A i \in Objects : Holds(x, i)' => Holds(x, i)
      BY <2>3, <3>1 DEF Holds
    <3>4. ~Updating(x)
      BY <2>0 DEF Updating
    <3>5. ASSUME NEW u \in Tasks, task[u] = NoTask, Pending(u)'
          PROVE  Updating(x)' /\ id'[x] = task'[u].of /\ tid'[x] = u
      <4>1. u = t
        BY <2>3, <3>5
      <4>2. method[x] = "update"
        BY <2>3, <3>5, <4>1 DEF Pending
      <4> QED
        BY <2>3, <3>1, <4>1, <4>2 DEF Updating
    <3> QED
      BY <3>2, <3>3, <3>4, <3>5 DEF Owes
  <2>4. ASSUME EndWithError(x, {}), NEW t \in Tasks,
               \A u \in Tasks : task[u] = NoTask /\ Pending(u)' => u = t,
               task'[t].of = id[x]
        PROVE  SizeAt(x)' /\ Owes(x)
    BY <1>e, <2>0, <2>4
  <2>5. CASE EndWithError(x, {}) /\ UNCHANGED task
    BY <1>e, <1>k, <2>0, <2>5
  <2>6. CASE method[x] = "delete" /\ EndWithSuccess(x, None) /\ UNCHANGED task
    BY <1>d, <2>6
  <2> QED
    BY <1>3, <2>2, <2>3, <2>4, <2>5, <2>6 DEF ChangeCall
<1>4. CASE WaitTask(x) \/ WaitSleep(x) \/ GetObject(x)
  <2>0. /\ UNCHANGED <<obj, task, maker>> /\ pc[x] \in {"wait", "sleep", "get"}
        /\ id[x] \in Objects /\ method[x] # "none"
    BY <1>0, <1>4 DEF WaitTask, WaitSleep, GetObject, api, MethodAt
  <2>1. CASE EndWithError(x, Lost(x))
    <3>1. Lost(x) \in SUBSET Objects
      BY <2>0 DEF Lost
    <3> QED
      BY <1>e, <1>k, <2>0, <2>1, <3>1
\* Going on waiting.
  <2>2. ASSUME pc[x] \in {"wait", "sleep"}, NEW step \in {"wait", "sleep"},
               Goto(x, step), UNCHANGED <<id, tid>>
        PROVE  SizeAt(x)' /\ Owes(x)
    <3>1. pc'[x] = step /\ UNCHANGED <<state, method, plan, erred>>
      BY <1>0, <2>2 DEF Goto, ResourcesOK
    <3>2. SizeAt(x)'
      BY <1>0, <2>0, <2>2, <3>1 DEF SizeAt, Updating
    <3>3. \A i \in Objects : Holds(x, i)' => Holds(x, i)
      BY <2>2, <3>1 DEF Holds
    <3>4. Updating(x) => Updating(x)'
      BY <3>1 DEF Updating
    <3> QED
      BY <1>k, <2>0, <2>2, <3>2, <3>3, <3>4 DEF Owes
  <2>3. CASE WaitTask(x)
    <3>1. CASE task[tid[x]].status = "success" /\ Goto(x, "get") /\ UNCHANGED <<id, wait>>
      <4>1. pc'[x] = "get" /\ UNCHANGED <<state, method, plan, erred, id>>
        BY <1>0, <3>1 DEF Goto, ResourcesOK
      <4>2. ASSUME method[x] = "update", id[x] \notin erred
            PROVE  obj[id[x]].size = plan[x]
        <5>1. Updating(x)
          BY <2>3, <4>2 DEF WaitTask, Updating
        <5>2. task[tid[x]].worked
          BY <1>0, <3>1, <5>1, HeldIsKnown DEF TrueTask
        <5> QED
          BY <1>0, <4>2, <5>1, <5>2 DEF SizeAt
      <4>3. SizeAt(x)'
        BY <1>0, <2>0, <4>1, <4>2 DEF SizeAt, Updating
      <4>4. \A i \in Objects : Holds(x, i)' => Holds(x, i)
        BY <4>1 DEF Holds
      <4> QED
        BY <1>k, <2>0, <3>1, <4>3, <4>4 DEF Owes
    <3>2. CASE method[x] = "delete" /\ EndWithSuccess(x, None)
      BY <1>d, <2>0, <3>2
    <3> QED
      BY <2>1, <2>2, <2>3, <3>1, <3>2 DEF WaitTask
  <2>4. CASE WaitSleep(x)
    BY <2>1, <2>2, <2>4 DEF WaitSleep
  <2>5. CASE GetObject(x)
    <3>1. CASE End(x, Flatten(id[x])) /\ UNCHANGED erred
      <4>1. Flatten(id[x]) \in States /\ Flatten(id[x]).id = id[x]
            /\ Flatten(id[x]).size = obj[id[x]].size
        BY <1>0, <2>0 DEF Flatten, States, ApiTypeOK, ObjectRecords
      <4>2. Holds(x, id[x]) /\ ~Updating(x)
        BY <2>5 DEF Holds, Updating, GetObject
      <4> QED
        BY <1>k, <2>0, <3>1, <4>1, <4>2, EndSizes
    <3> QED
      BY <1>d, <2>0, <2>1, <2>5, <3>1 DEF GetObject
  <2> QED
    BY <1>4, <2>3, <2>4, <2>5
<1> QED
  BY <1>1, <1>2, <1>3, <1>4 DEF Provider, Call

\* So does it keep those of the others.
LEMMA MethodKeepsSizes ==
  ASSUME TypeInv, StateInv, SizeInv, ~Rewrites,
         NEW x \in Resources, Provider(x) \/ Call(x)
  PROVE  SizeInv'
<1>1. SizeAt(x)' /\ Owes(x)
  BY MethodSizes
<1>2. /\ \A i \in Objects : obj[i].st # "none" => obj'[i] = obj[i]
      /\ \A t \in Tasks : task[t] # NoTask => task'[t] = task[t]
      /\ erred \subseteq erred'
  BY MethodFrame
<1>3. \A y \in Resources : y # x => Same(y)
  BY OthersStay DEF Same
<1>4. ASSUME NEW y \in Resources, y # x PROVE SizeAt(y)'
  <2>1. \A i \in Objects : Holds(y, i) => obj'[i].size = obj[i].size
    BY <1>2, HeldIsKnown
  <2>2. Updating(y) => task'[tid[y]] = task[tid[y]]
    BY <1>2, HeldIsKnown
  <2> QED
    BY <1>2, <1>3, <1>4, <2>1, <2>2, SizeStays DEF SizeInv
<1>5. Unshared'
  <2>1. \A y \in Resources, i \in Objects : y # x => (Holds(y, i)' <=> Holds(y, i))
    BY <1>3 DEF Same, Holds
  <2> QED
    BY <1>1, <2>1 DEF Unshared, SizeInv, Owes
<1>6. ASSUME NEW t \in Tasks, Pending(t)', task'[t].of \notin erred'
      PROVE  \E y \in Resources : Updating(y)' /\ id'[y] = task'[t].of /\ tid'[y] = t
  <2>1. CASE task[t] = NoTask
    BY <1>1, <1>6, <2>1 DEF Owes
  <2>2. CASE task[t] # NoTask
    <3>1. task'[t] = task[t]
      BY <1>2, <2>2
    <3>2. Pending(t) /\ task[t].of \notin erred
      BY <1>2, <1>6, <3>1 DEF Pending
    <3>3. PICK y \in Resources : Updating(y) /\ id[y] = task[t].of /\ tid[y] = t
      BY <3>2 DEF SizeInv, PendingAt
    <3>4. CASE y # x
      BY <1>3, <3>1, <3>3, <3>4 DEF Same, Updating
    <3>5. CASE y = x
      BY <1>1, <1>6, <3>1, <3>2, <3>3, <3>5 DEF Owes, Pending
    <3> QED
      BY <3>4, <3>5
  <2> QED
    BY <2>1, <2>2
<1>7. \A t \in Tasks : PendingAt(t)'
  BY <1>6 DEF PendingAt
<1> QED
  BY <1>1, <1>4, <1>5, <1>7 DEF SizeInv, Unshared

\* The API alone changes a size only for the Update that asked for it, and its
\* word that the resize is confirmed is about that resize.
LEMMA ApiKeepsSizes ==
  ASSUME TypeInv, StateInv, SizeInv, ApiAlone, ~Foreign, ~Rewrites
  PROVE  SizeInv'
<1>0. ApiTypeOK /\ ApiStep
  BY TypeParts DEF TypeInv, ApiAlone
<1>1. UNCHANGED <<state, method, plan, id, pc, tid, waited, erred>>
  BY DEF ApiAlone, methods, wait, history
<1>2. \A y \in Resources : Same(y) /\ SizeAt(y)
  BY <1>1 DEF Same, SizeInv
<1>3. \A t \in Tasks : Follows(t) /\ (task[t] = NoTask => task'[t] = NoTask)
  BY <1>0, ApiGrows
<1>u. Unshared'
  BY <1>1 DEF SizeInv, Unshared, Holds
\* Nothing closed is written again, so nothing starts pending.
<1>p. ASSUME NEW t \in Tasks PROVE PendingAt(t)'
  <2> SUFFICES ASSUME Pending(t)', task'[t].of \notin erred
               PROVE  \E y \in Resources :
                        Updating(y)' /\ id'[y] = task'[t].of /\ tid'[y] = t
    BY <1>1 DEF PendingAt
  <2>1. task[t] # NoTask /\ task[t] \in TaskRecords /\ task'[t].of = task[t].of
        /\ task'[t].call = task[t].call
    <3>1. task'[t] # NoTask
      BY DEF Pending, NoTask
    <3> QED
      BY <1>0, <1>3, <3>1, CallIsTask DEF Follows
  <2>2. task[t].status # "success"
    <3>1. ASSUME NEW u \in Tasks, NEW st \in {"open", "success", "failed"}, Written(u, st)
          PROVE  task[t].status = task'[t].status \/ task[t].status # "success"
      BY <1>0, <2>1, <3>1 DEF Written, ApiTypeOK
    <3>2. ASSUME NEW u \in Tasks, Confirmed(u)
          PROVE  task[t].status = task'[t].status
      <4>1. task' = [task EXCEPT ![u].worked = TRUE]
        BY <3>2 DEF Confirmed
      <4> QED
        BY <1>0, <2>1, <4>1 DEF ApiTypeOK, TaskRecords
    <3>3. task' = task => task[t].status = task'[t].status
      OBVIOUS
    <3>4. \A u \in Tasks : ~Lapsed(u)
      BY DEF Lapsed
    <3>5. task[t].status = task'[t].status \/ task[t].status # "success"
      BY <1>0, <3>1, <3>2, <3>3, <3>4
      DEF ApiStep, Resized, Up, Deleting, Gone, ForeignResize
    <3> QED
      BY <3>5 DEF Pending
  <2>3. Pending(t)
    BY <2>1, <2>2 DEF Pending
  <2>4. PICK y \in Resources : Updating(y) /\ id[y] = task[t].of /\ tid[y] = t
    BY <1>1, <2>1, <2>3 DEF SizeInv, PendingAt
  <2> QED
    BY <1>1, <2>1, <2>4 DEF Updating
<1>s. ASSUME \A y \in Resources : SizeAt(y)' PROVE SizeInv'
  BY <1>p, <1>s, <1>u DEF SizeInv, Unshared
\* A step that changes no size, and confirms no resize.
<1>n. ASSUME \A i \in Objects : obj'[i].size = obj[i].size,
             \A t \in Tasks : task[t] # NoTask => (task'[t].worked => task[t].worked)
      PROVE  SizeInv'
  <2>1. ASSUME NEW y \in Resources
        PROVE  Updating(y) => /\ task'[tid[y]].size = task[tid[y]].size
                              /\ task'[tid[y]].worked => task[tid[y]].worked
    BY <1>3, <1>n, HeldIsKnown DEF Follows
  <2>2. \A y \in Resources : SizeAt(y)'
    BY <1>1, <1>2, <1>n, <2>1, SizeStays
  <2> QED
    BY <1>s, <2>2
<1>4. ASSUME NEW t \in Tasks, Resized(t) PROVE SizeInv'
  <2>0. task[t] \in TaskRecords /\ Pending(t) /\ task' = task
    BY <1>0, <1>4, CallIsTask DEF Resized, Pending, Calls
  <2>1. /\ task[t].of \in Objects
        /\ obj'[task[t].of].size = task[t].size
        /\ \A i \in Objects : i # task[t].of => obj'[i] = obj[i]
    BY <1>0, <1>4, <2>0 DEF Resized, TaskRecords, ApiTypeOK, ObjectRecords
  <2>2. ASSUME NEW y \in Resources PROVE SizeAt(y)'
    <3>1. CASE ~Holds(y, task[t].of)
      BY <1>1, <1>2, <2>0, <2>1, <3>1, SizeStays
    <3>2. CASE Holds(y, task[t].of) /\ task[t].of \in erred
      <4>1. /\ state[y] # None /\ state[y].id \notin erred => obj'[state[y].id] = obj[state[y].id]
            /\ pc[y] \in {"wait", "sleep", "get"} /\ id[y] \notin erred => obj'[id[y]] = obj[id[y]]
        <5>1. /\ state[y] # None => state[y].id \in Objects
              /\ pc[y] \in {"wait", "sleep", "get"} => id[y] \in Objects
          BY TypeParts DEF TypeInv, ResourcesOK, States, MethodAt
        <5> QED
          BY <2>1, <3>2, <5>1
      <4> QED
        BY <1>1, <1>2, <2>0, <4>1 DEF SizeAt, Updating
    <3>3. CASE Holds(y, task[t].of) /\ task[t].of \notin erred
      <4>1. PICK z \in Resources : Updating(z) /\ id[z] = task[t].of /\ tid[z] = t
        BY <2>0, <3>3 DEF SizeInv, PendingAt
      <4>2. Holds(z, task[t].of)
        BY <4>1 DEF Holds
      <4>3. z = y
        BY <2>1, <3>3, <4>2 DEF SizeInv
      <4>4. task[t].size = plan[y]
        BY <1>2, <3>3, <4>1, <4>3 DEF SizeAt
      <4> QED
        BY <1>1, <2>0, <2>1, <4>1, <4>3, <4>4 DEF SizeAt, Updating
    <3> QED
      BY <3>1, <3>2, <3>3
  <2> QED
    BY <1>s, <2>2
<1>5. ASSUME NEW t \in Tasks, Confirmed(t) PROVE SizeInv'
  <2>0. /\ task[t] # NoTask /\ task[t] \in TaskRecords /\ task[t].of \in Objects
        /\ task' = [task EXCEPT ![t].worked = TRUE]
    BY <1>0, <1>5, CallIsTask DEF Confirmed, Calls, TaskRecords
  <2>1. \A i \in Objects : obj'[i].size = obj[i].size
    <3>1. PICK up \in {obj[task[t].of].up, TRUE} :
            obj' = [obj EXCEPT ![task[t].of].up = up]
      BY <1>5 DEF Confirmed
    <3> QED
      BY <1>0, <2>0, <3>1 DEF ApiTypeOK, ObjectRecords
  <2>2. \A u \in Tasks : u # t => task'[u] = task[u]
    BY <1>0, <2>0 DEF ApiTypeOK
  <2>3. PICK q \in Tasks : Is(q, "update", task[t].of) /\ obj[task[t].of].size = task[q].size
                           /\ Pending(q)
    BY <1>5 DEF Confirmed
  <2>4. ASSUME NEW y \in Resources PROVE SizeAt(y)'
    <3>1. CASE ~Updating(y) \/ tid[y] # t
      <4>1. Updating(y) => task'[tid[y]] = task[tid[y]]
        BY <2>2, <3>1, HeldIsKnown
      <4> QED
        BY <1>1, <1>2, <2>1, <4>1, SizeStays
    <3>2. CASE Updating(y) /\ tid[y] = t
      <4>1. /\ id[y] = task[t].of /\ state[y] # None /\ state[y].id = id[y]
            /\ task'[t].size = task[t].size
        BY <1>3, <2>0, <3>2, HeldIsKnown DEF Follows
      <4>2. ASSUME id[y] \notin erred PROVE obj[id[y]].size = plan[y]
        <5>1. PICK z \in Resources : Updating(z) /\ id[z] = task[q].of /\ tid[z] = q
          BY <2>3, <4>1, <4>2 DEF SizeInv, PendingAt, Is
        <5>2. Holds(z, task[t].of) /\ Holds(y, task[t].of)
          BY <2>3, <4>1, <5>1 DEF Holds, Is
        <5>3. z = y
          BY <2>0, <5>2 DEF SizeInv
        <5>4. task[t].size = plan[y]
          BY <1>2, <3>2, <4>2 DEF SizeAt
        <5> QED
          BY <2>3, <3>2, <4>1, <5>1, <5>3, <5>4
      <4>3. id[y] \notin erred => task[t].size = plan[y]
        BY <1>2, <3>2 DEF SizeAt
      <4>4. id[y] \in Objects
        BY <2>0, <4>1
      <4> QED
        BY <1>1, <2>1, <3>2, <4>1, <4>2, <4>3, <4>4 DEF SizeAt, Updating
    <3> QED
      BY <3>1, <3>2
  <2> QED
    BY <1>s, <2>4
<1>6. ASSUME NEW t \in Tasks, NEW st \in {"open", "success", "failed"}, Written(t, st)
      PROVE  SizeInv'
  <2>1. \A u \in Tasks : task[u] # NoTask => (task'[u].worked => task[u].worked)
    <3>1. task[t] \in TaskRecords
      BY <1>0, <1>6, CallIsTask DEF Written
    <3> QED
      BY <1>0, <1>6, <3>1 DEF Written, ApiTypeOK, TaskRecords
  <2> QED
    BY <1>n, <1>6, <2>1 DEF Written
<1>7. ASSUME NEW i \in Objects, Up(i) \/ Deleting(i) \/ Gone(i) PROVE SizeInv'
  <2>1. task' = task
    BY <1>7 DEF Up, Deleting, Gone
  <2>2. \A j \in Objects : obj'[j].size = obj[j].size
    <3>1. CASE Up(i)
      BY <1>0, <3>1 DEF Up, ApiTypeOK, ObjectRecords
    <3>2. CASE Deleting(i) \/ Gone(i)
      BY <1>0, <3>2 DEF Deleting, Gone, ApiTypeOK, ObjectRecords
    <3> QED
      BY <1>7, <3>1, <3>2
  <2> QED
    BY <1>n, <2>1, <2>2
<1> QED
  BY <1>0, <1>4, <1>5, <1>6, <1>7 DEF ApiStep, Lapsed, ForeignResize

\* Sizes are right throughout, when nobody else changes servers and no job is
\* run again.
THEOREM SizeInvHolds == ~Foreign /\ ~Rewrites /\ Spec => []SizeInv
<1>1. Init => SizeInv
  <2> SUFFICES ASSUME Init PROVE SizeInv
    OBVIOUS
  <2>1. \A x \in Resources : SizeAt(x)
    BY DEF Init, SizeAt, Updating
  <2>2. \A t \in Tasks : PendingAt(t)
    BY DEF Init, ApiInit, PendingAt, Pending, NoTask
  <2>3. \A x \in Resources, i \in Objects : ~Holds(x, i)
    BY NoneIsNone DEF Init, Holds
  <2> QED
    BY <2>1, <2>2, <2>3 DEF SizeInv
<1>2. ASSUME ~Foreign, ~Rewrites
      PROVE  TypeInv /\ StateInv /\ SizeInv /\ [Next]_vars => SizeInv'
  <2> SUFFICES ASSUME TypeInv, StateInv, SizeInv, [Next]_vars PROVE SizeInv'
    OBVIOUS
  <2>1. ASSUME NEW x \in Resources, Provider(x) \/ Call(x) PROVE SizeInv'
    BY <1>2, <2>1, MethodKeepsSizes
  <2>2. CASE ApiAlone
    BY <1>2, <2>2, ApiKeepsSizes
  <2>3. CASE UNCHANGED vars
    BY <2>3 DEF vars, SizeInv, Holds, SizeAt, Updating, PendingAt, Pending
  <2> QED
    BY <2>1, <2>2, <2>3 DEF Next, Call, ApiAlone
<1>3. ASSUME ~Foreign, ~Rewrites PROVE Spec => []SizeInv
  BY <1>1, <1>2, <1>3, TypeInvHolds, StateInvHolds, PTL DEF Spec
<1> QED
  BY <1>3

\* An Update that nothing has gone wrong before, on this server, leaves the size
\* planned in the state, or learns that the server is gone.
THEOREM UpdateConverges == Spec => CleanUpdateConverges
<1> DEFINE Converged(x) ==
      /\ method[x] = "update" /\ method'[x] = "none"
      /\ id[x] \notin erred' /\ ~Foreign /\ ~Rewrites
      => state'[x] = None \/ state'[x].size = plan[x]
<1>1. TypeInv /\ SizeInv /\ [Next]_vars => [\A x \in Resources : Converged(x)]_vars
  <2> SUFFICES ASSUME TypeInv, SizeInv, Next, NEW x \in Resources,
                      method[x] = "update", method'[x] = "none", id[x] \notin erred'
               PROVE  state'[x] = None \/ state'[x].size = plan[x]
    OBVIOUS
  <2>0. ResourcesOK /\ MethodAt(x) /\ SizeAt(x)
    BY TypeParts DEF TypeInv, SizeInv
  <2>1. Provider(x) \/ Call(x)
    <3>1. ~ApiAlone
      BY DEF ApiAlone, methods
    <3>2. ASSUME NEW y \in Resources, y # x, Provider(y) \/ Call(y) PROVE FALSE
      BY <3>2, OthersStay
    <3> QED
      BY <3>1, <3>2 DEF Next, Call, ApiAlone
  <2>2. ~EndWithError(x, {}) /\ ~EndWithError(x, Lost(x)) /\ method' # method
    BY DEF EndWithError
  <2>3. ~Call(x) /\ ~CreateCall(x) /\ ~WaitSleep(x)
    BY <2>0, <2>2 DEF Call, Begin, CreateCall, WaitSleep, Goto, ResourcesOK
  <2>4. ~ChangeCall(x) /\ ~WaitTask(x)
    BY <2>2 DEF ChangeCall, WaitTask, Goto
  <2>5. GetObject(x)
    BY <2>1, <2>3, <2>4 DEF Provider
  <2>6. CASE End(x, Flatten(id[x])) /\ UNCHANGED erred
    <3>1. state'[x].size = obj[id[x]].size
      BY <2>0, <2>6 DEF End, ResourcesOK, Flatten
    <3>2. obj[id[x]].size = plan[x]
      BY <2>0, <2>5, <2>6 DEF GetObject, SizeAt
    <3> QED
      BY <3>1, <3>2
  <2>7. CASE EndWithSuccess(x, None)
    BY <2>0, <2>7 DEF EndWithSuccess, End, ResourcesOK
  <2> QED
    BY <2>2, <2>5, <2>6, <2>7 DEF GetObject
<1>2. ASSUME Foreign \/ Rewrites
      PROVE  [][\A x \in Resources : Converged(x)]_vars
  <2>1. [\A x \in Resources : Converged(x)]_vars
    BY <1>2
  <2> QED
    BY <2>1, PTL
<1>3. ASSUME ~Foreign, ~Rewrites
      PROVE  Spec => [][\A x \in Resources : Converged(x)]_vars
  BY <1>1, <1>3, TypeInvHolds, SizeInvHolds, PTL DEF Spec
<1>4. Spec => [][\A x \in Resources : Converged(x)]_vars
  BY <1>2, <1>3, ForeignAssumption
<1> QED
  BY <1>4 DEF CleanUpdateConverges
=============================================================================
