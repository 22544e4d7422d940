------------------------------ MODULE ApiProofs ------------------------------
(***************************************************************************)
(* ComputeClient implements VmApi, the contract its clients rely on, for   *)
(* any number of requests and servers and under every fault: step by step, *)
(* from what TruthProofs says of servers and tasks and, as long as nothing *)
(* rewrites a closed record, from what LifecycleProofs says of records.    *)
(***************************************************************************)
EXTENDS TruthProofs, LifecycleProofs

-----------------------------------------------------------------------------
(* What a client sees of one server and of one task.                       *)

\* A server that changes alone changes alone in the client's view.
LEMMA ServerView ==
  ASSUME NEW i \in Servers, NEW rec, ShownServer(i)' = rec,
         \A j \in Servers : j # i => ShownServer(j)' = ShownServer(j)
  PROVE  ShownServers' = [ShownServers EXCEPT ![i] = rec]
BY DEF ShownServers

\* So does a task.
LEMMA TaskView ==
  ASSUME NEW r \in Requests, NEW rec, ShownTask(r)' = rec,
         \A q \in Requests : q # r => ShownTask(q)' = ShownTask(q)
  PROVE  ShownTasks' = [ShownTasks EXCEPT ![r] = rec]
BY DEF ShownTasks

\* The view of a task is a function of the request's own part of the state.
LEMMA SameTask ==
  ASSUME NEW q \in Requests, op'[q] = op[q], vm'[q] = vm[q], task'[q] = task[q],
         q \in confirmed' <=> q \in confirmed
  PROVE  ShownTask(q)' = ShownTask(q)
<1>1. (q \in confirmed') = (q \in confirmed)
  OBVIOUS
<1>2. Called(q)' <=> Called(q)
  BY DEF Called
<1>3. CASE Called(q)
  BY <1>1, <1>2, <1>3 DEF ShownTask
<1>4. CASE ~Called(q)
  BY <1>2, <1>4 DEF ShownTask
<1> QED
  BY <1>3, <1>4

\* The view of a server is a function of Nova's records of it.
LEMMA SameServer ==
  ASSUME NEW s \in Servers, srv'[s] = srv[s], flavor'[s] = flavor[s],
         s \in everActive' <=> s \in everActive
  PROVE  ShownServer(s)' = ShownServer(s)
BY DEF ShownServer

\* The parts of a view of a server.
LEMMA ServerParts ==
  ASSUME NEW s \in Servers, NEW x
  PROVE  LET rec == ShownServer(s) IN
         /\ rec = [st |-> rec.st, up |-> rec.up, size |-> rec.size]
         /\ [rec EXCEPT !.st = x] = [st |-> x, up |-> rec.up, size |-> rec.size]
         /\ [rec EXCEPT !.up = x] = [st |-> rec.st, up |-> x, size |-> rec.size]
         /\ [rec EXCEPT !.size = x] = [st |-> rec.st, up |-> rec.up, size |-> x]
<1>1. PICK a, b, c : ShownServer(s) = [st |-> a, up |-> b, size |-> c]
  BY DEF ShownServer
<1> QED
  BY <1>1

\* A server that Nova knows, and does not call gone, is there.
LEMMA VisibleIsThere ==
  ASSUME NovaTypeOK, NEW s \in Servers, Visible(s)
  PROVE  /\ Api!There(s)
         /\ ShownServer(s).st = IF srv[s].deleting THEN "deleting" ELSE "live"
<1>1. srv[s].status \notin {"none", "gone"} /\ srv[s].deleting \in BOOLEAN
  BY DEF Visible, Statuses, NovaTypeOK, ServerRecords
<1>2. ShownServer(s).st = IF srv[s].deleting THEN "deleting" ELSE "live"
  BY <1>1 DEF ShownServer
<1> QED
  BY <1>2 DEF Api!There, ShownServers

-----------------------------------------------------------------------------
(* Nova's steps.                                                           *)

\* A server that enters a status of its life is at most found to be up.
LEMMA BecomeIsUp ==
  ASSUME NovaTypeOK, NEW s \in Servers, NEW st \in Statuses,
         Visible(s), Become(s, st), flavor' = flavor
  PROVE  /\ st = "ACTIVE" => ShownServers' = [ShownServers EXCEPT ![s].up = TRUE]
         /\ st # "ACTIVE" => ShownServers' = ShownServers
<1>1. \A j \in Servers : j # s => ShownServer(j)' = ShownServer(j)
  BY SameServer DEF Become, NovaTypeOK
<1>2. /\ srv'[s].status = st /\ srv'[s].deleting = srv[s].deleting
      /\ st = "ACTIVE" => s \in everActive'
      /\ st # "ACTIVE" => everActive' = everActive
  BY DEF Become, NovaTypeOK, ServerRecords
<1>3. st \notin {"none", "gone"} /\ srv[s].status \notin {"none", "gone"}
  BY DEF Visible, Statuses
<1>4. ShownServer(s)'.st = ShownServer(s).st
  BY <1>2, <1>3 DEF ShownServer
<1>5. CASE st = "ACTIVE"
  <2>0. (s \in everActive') = TRUE
    BY <1>2, <1>5
  <2>1. ShownServer(s)' = [ShownServer(s) EXCEPT !.up = TRUE]
    <3>1. ShownServer(s)' = [st |-> ShownServer(s).st, up |-> TRUE,
                             size |-> flavor[s]]
      BY <1>4, <2>0 DEF ShownServer
    <3>2. ShownServer(s).size = flavor[s]
      BY DEF ShownServer
    <3> QED
      BY <3>1, <3>2, ServerParts
  <2> QED
    BY <1>1, <1>5, <2>1, ServerView DEF ShownServers
<1>6. CASE st # "ACTIVE"
  <2>1. ShownServer(s)' = ShownServer(s)
    BY <1>2, <1>4, <1>6 DEF ShownServer
  <2> QED
    BY <1>1, <1>6, <2>1 DEF ShownServers
<1> QED
  BY <1>5, <1>6

\* What a client sees of a task that follows a call.
LEMMA CalledView ==
  ASSUME NEW r \in Requests, Called(r)
  PROVE  /\ ShownTask(r).call = CASE op[r] = "create_vm" -> "create"
                                  [] op[r] = "delete_vm" -> "delete"
                                  [] op[r] = "resize_vm" -> "update"
         /\ ShownTask(r).of = vm[r]
         /\ ShownTask(r).size = IF op[r] = "resize_vm" THEN r ELSE NoRequest
         /\ ShownTask(r).worked <=> r \in confirmed
         /\ ShownTask(r).status = Shown(task[r].status)
         /\ ShownTask(r) # [call |-> "none"]
         /\ ShownTasks[r] = ShownTask(r)
<1>1. ShownTask(r) =
        [call |-> CASE op[r] = "create_vm" -> "create"
                    [] op[r] = "delete_vm" -> "delete"
                    [] op[r] = "resize_vm" -> "update",
         of |-> vm[r],
         size |-> IF op[r] = "resize_vm" THEN r ELSE NoRequest,
         worked |-> r \in confirmed,
         status |-> Shown(task[r].status)]
  BY DEF ShownTask
<1>2. ShownTask(r).call # "none"
  BY <1>1 DEF Called, JobOperations
<1>3. ShownTask(r).worked = (r \in confirmed)
  BY <1>1
<1>4. /\ ShownTask(r).of = vm[r]
      /\ ShownTask(r).size = IF op[r] = "resize_vm" THEN r ELSE NoRequest
      /\ ShownTask(r).status = Shown(task[r].status)
  BY <1>1
<1>5. ShownTask(r).call = CASE op[r] = "create_vm" -> "create"
                            [] op[r] = "delete_vm" -> "delete"
                            [] op[r] = "resize_vm" -> "update"
  BY DEF ShownTask, Called, JobOperations
<1>6. ShownTasks[r] = ShownTask(r)
  BY DEF ShownTasks
<1>7. ShownTask(r) # [call |-> "none"]
  BY <1>2
<1> QED
  BY <1>3, <1>4, <1>5, <1>6, <1>7

\* Its parts.
LEMMA TaskParts ==
  ASSUME NEW r \in Requests, Called(r), NEW x
  PROVE  LET rec == ShownTask(r) IN
         /\ rec = [call |-> rec.call, of |-> rec.of, size |-> rec.size,
                   worked |-> rec.worked, status |-> rec.status]
         /\ [rec EXCEPT !.worked = x] =
              [call |-> rec.call, of |-> rec.of, size |-> rec.size,
               worked |-> x, status |-> rec.status]
         /\ [rec EXCEPT !.status = x] =
              [call |-> rec.call, of |-> rec.of, size |-> rec.size,
               worked |-> rec.worked, status |-> x]
<1>1. PICK a, b, c, d, e :
        ShownTask(r) = [call |-> a, of |-> b, size |-> c, worked |-> d, status |-> e]
  BY DEF ShownTask
<1> QED
  BY <1>1

\* The request whose resize of s is under way is an update that a client does
\* not yet see as successful, unless a worker went down.
LEMMA ResizerView ==
  ASSUME TypeInv, TruthInv, NEW s \in Servers, Resizing(s)
  PROVE  /\ resizer[s] \in Requests
         /\ ShownTasks[resizer[s]].call = "update"
         /\ ShownTasks[resizer[s]].of = s
         /\ ShownTasks[resizer[s]].size = resizer[s]
         /\ \/ ShownTasks[resizer[s]].status # "success"
            \/ Faults \cap {"worker_crash", "redis", "expire"} # {}
<1>1. PICK q \in Requests : q = resizer[s] /\ op[q] = "resize_vm" /\ vm[q] = s
  BY DEF TruthInv, ServerFacts, AskedFor
<1>2. Called(q)
  BY <1>1, NoServerAssumption DEF Called, JobOperations
<1>3. task[q].status \in TaskStatus \cup {"absent"}
  BY DEF TypeInv, TaskStoreTypeOK, Records
<1>4. task[q].status # "success" \/ "worker_crash" \in Faults
  BY <1>1 DEF TruthInv, JobAt, Worked, JobOperations
<1>5. task[q].status # "success" => Shown(task[q].status) # "success"
  BY <1>3 DEF Shown, TaskStatus, Terminal
<1> QED
  BY <1>1, <1>2, <1>4, <1>5, CalledView

\* Nova's own progress is a step of the contract: a server comes up, a resize
\* takes effect while its task is open, or nothing the client can see.
LEMMA SettleRefines ==
  ASSUME TypeInv, TruthInv, NEW s \in Servers, NovaSettle(s),
         ShownTasks' = ShownTasks
  PROVE  Api!ApiStep \/ UNCHANGED Api!api
<1>0. NovaTypeOK /\ NovaTypeOK' /\ Visible(s)
  <2>1. NovaTypeOK /\ NovaTypeOK'
    BY NovaOwnType DEF TypeInv
  <2> QED
    BY <2>1 DEF NovaSettle, Settles, Visible, Statuses
<1>1. PICK st \in Settles(srv[s].status) :
        /\ Become(s, st)
        /\ flavor' = IF st = "VERIFY_RESIZE" THEN [flavor EXCEPT ![s] = resizer[s]]
                     ELSE flavor
  BY DEF NovaSettle
<1>2. st \in Statuses
  BY <1>1 DEF Settles, Statuses
<1>3. CASE st = "VERIFY_RESIZE"
  <2>1. srv[s].status = "RESIZE"
    BY <1>1, <1>3 DEF Settles
  <2>2. Resizing(s)
    BY <2>1 DEF Resizing
  <2>3. \A j \in Servers : j # s => ShownServer(j)' = ShownServer(j)
    BY <1>0, <1>1, <1>3, SameServer DEF Become, NovaTypeOK
  <2>4. /\ srv'[s].status = st /\ srv'[s].deleting = srv[s].deleting
        /\ everActive' = everActive /\ flavor'[s] = resizer[s]
    BY <1>0, <1>1, <1>3 DEF Become, NovaTypeOK, ServerRecords
  <2>5. /\ ShownServer(s)'.st = ShownServer(s).st
        /\ ShownServer(s)'.size = resizer[s]
        /\ ShownServer(s)' = [st |-> ShownServer(s)'.st, up |-> ShownServer(s).up,
                              size |-> ShownServer(s)'.size]
    BY <1>3, <2>1, <2>4 DEF ShownServer
  <2>6. ShownServer(s)' = [ShownServer(s) EXCEPT !.size = resizer[s]]
    <3>1. PICK q : q = resizer[s]
      OBVIOUS
    <3>2. ShownServer(s)' = [st |-> ShownServer(s).st, up |-> ShownServer(s).up,
                             size |-> q]
      BY <2>5, <3>1
    <3> QED
      BY <3>1, <3>2, ServerParts
  <2>7. ShownServers' = [ShownServers EXCEPT ![s].size = resizer[s]]
    BY <2>3, <2>6, ServerView DEF ShownServers
  <2>8. Api!Resized(resizer[s])
    BY <1>0, <2>2, <2>7, ResizerView, VisibleIsThere DEF Api!Resized,
      Api!Pending
  <2> QED
    BY <2>2, <2>8, ResizerView DEF Api!ApiStep
<1>4. CASE st = "ACTIVE"
  <2>1. Api!Up(s)
    BY <1>0, <1>1, <1>2, <1>4, BecomeIsUp, VisibleIsThere DEF Api!Up
  <2> QED
    BY <2>1 DEF Api!ApiStep
<1>5. CASE st \notin {"VERIFY_RESIZE", "ACTIVE"}
  BY <1>0, <1>1, <1>2, <1>5, BecomeIsUp DEF Api!api
<1> QED
  BY <1>3, <1>4, <1>5

\* The end of a deletion is one.
LEMMA PurgeRefines ==
  ASSUME TypeInv, NEW s \in Servers, NovaPurge(s), ShownTasks' = ShownTasks
  PROVE  Api!ApiStep
<1>0. NovaTypeOK /\ srv[s].deleting /\ Visible(s)
  BY DEF TypeInv, NovaPurge
<1>1. \A j \in Servers : j # s => ShownServer(j)' = ShownServer(j)
  BY <1>0, SameServer DEF NovaPurge, NovaTypeOK
<1>2. srv'[s].status = "gone" /\ everActive' = everActive /\ flavor' = flavor
  BY <1>0 DEF NovaPurge, NovaTypeOK, ServerRecords
<1>3. ShownServer(s)' = [st |-> "gone", up |-> ShownServer(s).up,
                         size |-> ShownServer(s).size]
  BY <1>2 DEF ShownServer
<1>4. ShownServers' = [ShownServers EXCEPT ![s].st = "gone"]
  <2>1. ShownServer(s)' = [ShownServer(s) EXCEPT !.st = "gone"]
    BY <1>3, ServerParts
  <2> QED
    BY <1>1, <2>1, ServerView DEF ShownServers
<1>5. ShownServers[s].st = "deleting"
  BY <1>0, VisibleIsThere DEF ShownServers
<1>6. Api!Gone(s)
  BY <1>4, <1>5 DEF Api!Gone
<1> QED
  BY <1>6 DEF Api!ApiStep

\* delete_server is, because a client asked for the deletion.
LEMMA DeleteRefines ==
  ASSUME TypeInv, NEW r \in Requests, NEW s \in Servers, NovaDelete(s),
         op[r] = "delete_vm", vm[r] = s, ShownTasks' = ShownTasks
  PROVE  Api!ApiStep \/ UNCHANGED Api!api
<1>0. NovaTypeOK
  BY DEF TypeInv
<1>1. CASE ~Visible(s)
  <2>1. \A j \in Servers : ShownServer(j)' = ShownServer(j)
    BY <1>1, SameServer DEF NovaDelete
  <2> QED
    BY <2>1 DEF ShownServers, Api!api
<1>2. CASE Visible(s)
  <2>1. \A j \in Servers : j # s => ShownServer(j)' = ShownServer(j)
    BY <1>0, <1>2, SameServer DEF NovaDelete, NovaTypeOK
  <2>2. /\ srv'[s].status = srv[s].status /\ srv'[s].deleting = TRUE
        /\ everActive' = everActive /\ flavor' = flavor
        /\ srv[s].status \notin {"none", "gone"}
    BY <1>0, <1>2 DEF NovaDelete, NovaTypeOK, ServerRecords, Visible, Statuses
  <2>3. ShownServer(s)' = [st |-> "deleting", up |-> ShownServer(s).up,
                           size |-> ShownServer(s).size]
    BY <2>2 DEF ShownServer
  <2>4. ShownServers' = [ShownServers EXCEPT ![s].st = "deleting"]
    <3>1. ShownServer(s)' = [ShownServer(s) EXCEPT !.st = "deleting"]
      BY <2>3, ServerParts
    <3> QED
      BY <2>1, <3>1, ServerView DEF ShownServers
  <2>5. Called(r)
    BY NoServerAssumption DEF Called, JobOperations
  <2>6. Api!Is(r, "delete", s)
    BY <2>5, CalledView DEF Api!Is
  <2>7. Api!Deleting(s)
    BY <1>0, <1>2, <2>4, <2>6, VisibleIsThere DEF Api!Deleting
  <2> QED
    BY <2>7 DEF Api!ApiStep
<1> QED
  BY <1>1, <1>2

\* A power action shows nothing but that the server is up, and so does the
\* start of a resize.
LEMMA PowerRefines ==
  ASSUME TypeInv, NEW s \in Servers, ShownTasks' = ShownTasks,
         \/ \E a \in PowerActions : NovaPower(s, a)
         \/ \E r \in Requests : NovaResize(s, r)
  PROVE  Api!ApiStep \/ UNCHANGED Api!api
<1>0. NovaTypeOK
  BY DEF TypeInv
<1>1. PICK st \in Statuses : Become(s, st) /\ flavor' = flavor
  BY DEF NovaPower, NovaResize, AfterPower, PowerActions, Statuses
<1>2. Visible(s)
  BY DEF NovaPower, NovaResize, PowerActions, Accepts, Visible, Statuses
<1>3. CASE st = "ACTIVE"
  <2>1. Api!Up(s)
    BY <1>0, <1>1, <1>2, <1>3, BecomeIsUp, VisibleIsThere DEF Api!Up
  <2> QED
    BY <2>1 DEF Api!ApiStep
<1>4. CASE st # "ACTIVE"
  BY <1>0, <1>1, <1>2, <1>4, BecomeIsUp DEF Api!api
<1> QED
  BY <1>3, <1>4

\* confirm_server_resize confirms a resize that is still open.
LEMMA ConfirmRefines ==
  ASSUME TypeInv, TruthInv, NEW r \in Requests, NEW s \in Servers,
         NovaConfirm(s, r), op[r] = "resize_vm", vm[r] = s,
         UNCHANGED <<op, vm, task>>
  PROVE  Api!ApiStep
<1>0. NovaTypeOK /\ Visible(s) /\ srv[s].status = "VERIFY_RESIZE"
  BY DEF TypeInv, NovaConfirm, Accepts, Visible, Statuses
<1>1. ShownServers' = [ShownServers EXCEPT ![s].up = TRUE]
  BY <1>0, BecomeIsUp DEF NovaConfirm, Statuses
<1>2. Called(r) /\ Called(r)' /\ r \in confirmed'
  BY NoServerAssumption DEF Called, JobOperations, NovaConfirm
<1>3. \A q \in Requests : q # r => ShownTask(q)' = ShownTask(q)
  BY SameTask DEF NovaConfirm
<1>4. ShownTask(r)' = [ShownTask(r) EXCEPT !.worked = TRUE]
  <2>1. (r \in confirmed') = TRUE
    BY <1>2
  <2>2. ShownTask(r)' = [call |-> ShownTask(r).call, of |-> ShownTask(r).of,
                         size |-> ShownTask(r).size, worked |-> TRUE,
                         status |-> ShownTask(r).status]
    BY <1>2, <2>1, CalledView DEF ShownTask
  <2> QED
    BY <1>2, <2>2, TaskParts
<1>5. ShownTasks' = [ShownTasks EXCEPT ![r].worked = TRUE]
  BY <1>3, <1>4, TaskView DEF ShownTasks
<1>6. /\ resizer[s] \in Requests
      /\ Api!Is(resizer[s], "update", s) /\ Api!Pending(resizer[s])
      /\ ShownServers[s].size = ShownTasks[resizer[s]].size
  <2>1. Resizing(s) /\ flavor[s] = resizer[s]
    BY <1>0 DEF Resizing, TruthInv, ServerFacts
  <2>2. ShownServers[s].size = flavor[s]
    BY DEF ShownServers, ShownServer
  <2> QED
    BY <2>1, <2>2, ResizerView DEF Api!Is, Api!Pending
<1>7. ShownTasks[r].call = "update" /\ ShownTasks[r].of = s
  BY <1>2, CalledView
<1>8. Api!Confirmed(r)
  BY <1>0, <1>1, <1>5, <1>6, <1>7, VisibleIsThere DEF Api!Confirmed
<1> QED
  BY <1>8 DEF Api!ApiStep

-----------------------------------------------------------------------------
(* Steps that write a task's record.                                       *)

\* What success stands for, in the client's terms.
LEMMA AccomplishedView ==
  ASSUME TruthInv, NEW r \in Requests, Called(r), vm[r] \in Servers, Worked(r)
  PROVE  Api!Accomplished(r)
<1>1. ShownTasks[r].of = vm[r] /\ ShownServers[vm[r]] = ShownServer(vm[r])
  BY CalledView DEF ShownServers
<1>2. CASE op[r] = "create_vm"
  <2>1. ShownServer(vm[r]).up
    BY <1>2 DEF ShownServer, Worked
  <2> QED
    BY <1>1, <1>2, <2>1, CalledView DEF Api!Accomplished
<1>3. CASE op[r] = "delete_vm"
  <2>1. srv[vm[r]].status = "none" => ~srv[vm[r]].deleting
    BY DEF TruthInv, ServerFacts
  <2>2. ShownServer(vm[r]).st \in {"deleting", "gone"}
    BY <1>3, <2>1 DEF ShownServer, Worked
  <2> QED
    BY <1>1, <1>3, <2>2, CalledView DEF Api!Accomplished
<1>4. CASE op[r] = "resize_vm"
  BY <1>4, CalledView DEF Api!Accomplished, Worked
<1> QED
  BY <1>2, <1>3, <1>4 DEF Called, JobOperations

\* A record that is written changes the status that a client sees.
LEMMA StatusView ==
  ASSUME NEW r \in Requests, Called(r), UNCHANGED <<op, vm, nova>>,
         NEW st, Shown(task'[r].status) = st,
         \A q \in Requests : q # r => task'[q] = task[q]
  PROVE  /\ ShownServers' = ShownServers
         /\ ShownTasks' = [ShownTasks EXCEPT ![r].status = st]
<1>1. ShownServers' = ShownServers
  BY DEF nova, ShownServers, ShownServer
<1>2. \A q \in Requests : q # r => ShownTask(q)' = ShownTask(q)
  BY SameTask DEF nova
<1>3. Called(r)' /\ confirmed' = confirmed
  BY DEF Called, nova
<1>4. ShownTask(r)' = [call |-> ShownTask(r).call, of |-> ShownTask(r).of,
                       size |-> ShownTask(r).size,
                       worked |-> ShownTask(r).worked, status |-> st]
  BY <1>3, CalledView DEF ShownTask
<1>5. ShownTask(r)' = [ShownTask(r) EXCEPT !.status = st]
  BY <1>4, TaskParts
<1> QED
  BY <1>1, <1>2, <1>5, TaskView DEF ShownTasks

\* A record that is written while nothing else changes is Written, if success
\* is true and a closed record is only overwritten where that may happen.
LEMMA WrittenRefines ==
  ASSUME NEW r \in Requests, Called(r), UNCHANGED <<op, vm, nova>>,
         \A q \in Requests : q # r => task'[q] = task[q],
         NEW st \in {"open", "success", "failed"},
         Shown(task'[r].status) = st,
         Shown(task[r].status) \in {"success", "failed"} => ~Calm,
         st = "success" => Api!Accomplished(r)
  PROVE  Api!ApiStep
<1>1. /\ ShownServers' = ShownServers
      /\ ShownTasks' = [ShownTasks EXCEPT ![r].status = st]
  BY StatusView
<1>2. ShownTasks[r] # [call |-> "none"] /\ ShownTasks[r].status = Shown(task[r].status)
  BY CalledView
<1>3. Api!Written(r, st)
  BY <1>1, <1>2 DEF Api!Written, Api!NoTask, Calm
<1> QED
  BY <1>3 DEF Api!ApiStep

\* The record of a request that is not a call, a snapshot's, shows nowhere in
\* the contract.
LEMMA UncalledRefines ==
  ASSUME NEW r \in Requests, ~Called(r), UNCHANGED <<op, vm, nova>>,
         \A q \in Requests : q # r => task'[q] = task[q]
  PROVE  UNCHANGED Api!api
<1>1. \A q \in Requests : q # r => ShownTask(q)' = ShownTask(q)
  BY SameTask DEF nova
<1>2. ShownTask(r)' = ShownTask(r)
  BY DEF ShownTask, Called
<1>3. ShownServers' = ShownServers
  BY DEF nova, ShownServers, ShownServer
<1> QED
  BY <1>1, <1>2, <1>3 DEF ShownTasks, Api!api

\* An expired record is Lapsed.
LEMMA ExpireRefines ==
  ASSUME TypeInv, NEW r \in Requests, Expire(r)
  PROVE  Api!ApiStep \/ UNCHANGED Api!api
<1>0. task \in [Requests -> Records] /\ UNCHANGED <<op, vm, nova>> /\ ~Calm
  BY DEF TypeInv, TaskStoreTypeOK, Expire, handler, Calm
<1>1. \A q \in Requests : q # r => task'[q] = task[q]
  BY <1>0 DEF Expire, StoreExpire
<1>2. CASE Called(r)
  <2>1. task'[r].status = "absent"
    BY <1>0 DEF Expire, StoreExpire, Absent
  <2>2. Shown(task'[r].status) = "none"
    BY <2>1 DEF Shown
  <2>3. /\ ShownServers' = ShownServers
        /\ ShownTasks' = [ShownTasks EXCEPT ![r].status = "none"]
    BY <1>0, <1>1, <1>2, <2>2, StatusView
  <2>4. ShownTasks[r] # [call |-> "none"]
    BY <1>2, CalledView
  <2>5. Api!Lapsed(r)
    BY <1>0, <2>3, <2>4 DEF Api!Lapsed, Api!NoTask, Calm
  <2> QED
    BY <2>5 DEF Api!ApiStep
<1>3. CASE ~Called(r)
  BY <1>0, <1>1, <1>3, UncalledRefines
<1> QED
  BY <1>2, <1>3

-----------------------------------------------------------------------------
(* Steps that make a call.                                                 *)

\* A call as the client has made it: nothing has come of it yet.
LEMMA NewCall ==
  ASSUME NEW r \in Requests, ~Called(r), Called(r)', NEW c,
         NEW s \in Servers, vm'[r] = s, NEW n,
         op'[r] = "create_vm" => c = "create" /\ n = NoRequest,
         op'[r] = "delete_vm" => c = "delete" /\ n = NoRequest,
         op'[r] = "resize_vm" => c = "update" /\ n = r,
         task'[r] = Absent, r \notin confirmed',
         \A q \in Requests : q # r => ShownTask(q)' = ShownTask(q)
  PROVE  /\ ShownTasks[r] = [call |-> "none"]
         /\ Api!Asked(r, c, s, n, "none")
<1>1. ShownTasks[r] = [call |-> "none"]
  BY DEF ShownTasks, ShownTask
<1>2. op'[r] \in JobOperations
  BY DEF Called
<1>3. (r \in confirmed') = FALSE
  OBVIOUS
<1>4. Shown(task'[r].status) = "none"
  BY DEF Shown, Absent
<1>5. ShownTask(r)' = [call |-> c, of |-> s, size |-> n, worked |-> FALSE,
                       status |-> "none"]
  <2>1. CASE op'[r] = "create_vm"
    BY <1>3, <1>4, <2>1 DEF ShownTask
  <2>2. CASE op'[r] = "delete_vm"
    BY <1>3, <1>4, <2>2 DEF ShownTask
  <2>3. CASE op'[r] = "resize_vm"
    BY <1>3, <1>4, <2>3 DEF ShownTask
  <2> QED
    BY <1>2, <2>1, <2>2, <2>3 DEF JobOperations
<1> QED
  BY <1>1, <1>5, TaskView DEF Api!Asked, Api!NoTask

\* A request that arrives is a call if it is a delete or a resize of a server.
LEMMA ReceiveRefines ==
  ASSUME TypeInv, TrackInv, TruthInv, NEW r \in Requests, Receive(r)
  PROVE  Api!ApiNext \/ UNCHANGED Api!api
<1>0. HandlerTypeOK /\ Sequenced(r) /\ Begun(r) /\ JobAt(r)
  BY DEF TypeInv, TrackInv, TruthInv
<1>1. /\ hpc[r] = "idle" /\ vm[r] = NoServer /\ task[r] = Absent
      /\ r \notin confirmed /\ UNCHANGED <<store, nova>>
  BY <1>0 DEF Receive, Sequenced, Begun, JobAt
<1>2. \A q \in Requests : q # r => ShownTask(q)' = ShownTask(q)
  BY <1>0, <1>1, SameTask DEF Receive, HandlerTypeOK, store, nova
<1>3. ShownServers' = ShownServers
  BY <1>1 DEF nova, ShownServers, ShownServer
<1>4. ~Called(r)
  BY <1>1 DEF Called
<1>5. CASE ~Called(r)'
  <2>1. ShownTask(r)' = ShownTask(r)
    BY <1>4, <1>5 DEF ShownTask
  <2> QED
    BY <1>2, <1>3, <2>1 DEF ShownTasks, Api!api
<1>6. CASE Called(r)'
  <2>1. vm'[r] \in Servers /\ op'[r] \in {"delete_vm", "resize_vm"}
    BY <1>0, <1>1, <1>6 DEF Receive, Called, JobOperations, HandlerTypeOK
  <2>2. task'[r] = Absent /\ r \notin confirmed'
    BY <1>1 DEF store, nova
  <2>3. CASE op'[r] = "delete_vm"
    <3>1. Api!Asked(r, "delete", vm'[r], NoRequest, "none")
          /\ ShownTasks[r] = [call |-> "none"]
      BY <1>2, <1>4, <1>6, <2>1, <2>2, <2>3, NewCall
    <3> QED
      BY <1>3, <2>1, <3>1 DEF Api!ApiNext, Api!NoTask
  <2>4. CASE op'[r] = "resize_vm"
    <3>1. Api!Asked(r, "update", vm'[r], r, "none")
          /\ ShownTasks[r] = [call |-> "none"]
      BY <1>2, <1>4, <1>6, <2>1, <2>2, <2>4, NewCall
    <3> QED
      BY <1>3, <2>1, <3>1 DEF Api!ApiNext, Api!NoTask
  <2> QED
    BY <2>1, <2>3, <2>4
<1> QED
  BY <1>5, <1>6

\* POST /vms is one when Nova has made the server, told or not.
LEMMA CreateRefines ==
  ASSUME TypeInv, TrackInv, TruthInv, NEW r \in Requests, CreateServer(r)
  PROVE  Api!ApiNext \/ UNCHANGED Api!api
<1>0. /\ HandlerTypeOK /\ NovaTypeOK /\ Sequenced(r) /\ Begun(r) /\ JobAt(r)
      /\ \A s \in Servers : ServerFacts(s)
  BY DEF TypeInv, TrackInv, TruthInv
<1>1. /\ hpc[r] = "create_server" /\ op[r] = "create_vm" /\ vm[r] = NoServer
      /\ task[r] = Absent /\ r \notin confirmed /\ UNCHANGED <<store, op>>
  BY <1>0 DEF CreateServer, Sequenced, Begun, JobAt
<1>2. CASE UNCHANGED <<nova, vm>>
  BY <1>1, <1>2 DEF nova, store, Api!api, ShownServers, ShownServer, ShownTasks,
    ShownTask, Called
<1>3. ASSUME NEW s \in Servers, NovaCreate(s), vm' = [vm EXCEPT ![r] = s]
      PROVE  Api!ApiNext
  <2>1. /\ srv[s].status = "none" /\ s \notin everActive /\ ~srv[s].deleting
        /\ flavor[s] = NoRequest
    BY <1>0, <1>3 DEF NovaCreate, ServerFacts
  <2>2. /\ srv'[s].status = "BUILD" /\ ~srv'[s].deleting
        /\ everActive' = everActive /\ flavor' = flavor /\ confirmed' = confirmed
    BY <1>0, <1>3, <2>1 DEF NovaCreate, Become, NovaTypeOK, ServerRecords
  <2>3. (s \in everActive') = FALSE
    BY <2>1, <2>2
  <2>4. ShownServer(s)' = [st |-> "live", up |-> FALSE, size |-> NoRequest]
    BY <2>1, <2>2, <2>3 DEF ShownServer
  <2>5. \A j \in Servers : j # s => ShownServer(j)' = ShownServer(j)
    BY <1>0, <1>3, <2>2, SameServer DEF NovaCreate, Become, NovaTypeOK
  <2>6. ShownServers' = [ShownServers EXCEPT ![s] =
                           [st |-> "live", up |-> FALSE, size |-> NoRequest]]
    BY <2>4, <2>5, ServerView
  <2>7. ShownServers[s].st = "none"
    BY <2>1 DEF ShownServers, ShownServer
  <2>8. \A q \in Requests : q # r => ShownTask(q)' = ShownTask(q)
    BY <1>0, <1>1, <1>3, <2>2, SameTask DEF HandlerTypeOK, store
  <2>9. ~Called(r) /\ Called(r)' /\ vm'[r] = s
    BY <1>0, <1>1, <1>3, NoServerAssumption
    DEF Called, HandlerTypeOK, JobOperations
  <2>10. ShownTasks[r] = [call |-> "none"]
         /\ Api!Asked(r, "create", s, NoRequest, "none")
    BY <1>1, <2>2, <2>8, <2>9, NewCall DEF store
  <2>11. Api!Made(r, s, NoRequest, "none")
    BY <2>6, <2>7, <2>10 DEF Api!Made
  <2> QED
    BY <2>10, <2>11 DEF Api!ApiNext, Api!NoTask
<1> QED
  BY <1>2, <1>3 DEF CreateServer

-----------------------------------------------------------------------------
(* Every step.                                                             *)

\* The SET of a job's update: what it writes is true, and what it overwrites
\* is open unless something can rewrite a closed record.
LEMMA SetRefines ==
  ASSUME TypeInv, TrackInv, TruthInv, Calm => RecordInv, NEW r \in Requests,
         jst[r] = "running", jpc[r] = "set", StoreSet(r, todo[r]),
         UNCHANGED <<op, vm, nova>>
  PROVE  Api!ApiStep
<1>0. /\ TaskStoreTypeOK /\ WorkerTypeOK /\ TargetKnown(r)
      /\ Sequenced(r) /\ Begun(r) /\ JobAt(r)
  BY DEF TypeInv, TrackInv, TruthInv
<1>1. vm[r] \in Servers /\ Called(r)
  BY <1>0, NoServerAssumption DEF TargetKnown, Sequenced, Called
<1>2. todo[r] \in {"running", "success", "failed"}
  BY <1>0 DEF WorkerTypeOK, JobAt, TaskStatus, Terminal
<1>3. task'[r].status = todo[r] /\ \A q \in Requests : q # r => task'[q] = task[q]
  <2>1. Merge(raw[r], todo[r]).status = todo[r]
    BY <1>2 DEF Merge
  <2> QED
    BY <1>0, <2>1 DEF StoreSet, TaskStoreTypeOK
<1>4. Shown(task[r].status) \in {"success", "failed"} => ~Calm
  <2> SUFFICES ASSUME Calm PROVE Shown(task[r].status) = "open"
    OBVIOUS
  <2>1. task[r] \in {PendingRecord, RunningRecord}
    BY <1>2 DEF RecordInv, RecordAt, Writing, Terminal
  <2>2. task[r].status \in {"pending", "running"}
    BY <2>1 DEF PendingRecord, RunningRecord
  <2> QED
    BY <2>2 DEF Shown
<1>5. todo[r] = "success" => Api!Accomplished(r)
  BY <1>0, <1>1, AccomplishedView DEF JobAt
<1>6. CASE todo[r] = "running"
  <2>1. Shown(task'[r].status) = "open"
    BY <1>3, <1>6 DEF Shown
  <2> QED
    BY <1>1, <1>3, <1>4, <2>1, WrittenRefines
<1>7. CASE todo[r] \in {"success", "failed"}
  <2>1. Shown(task'[r].status) = todo[r]
    BY <1>3, <1>7 DEF Shown
  <2> QED
    BY <1>1, <1>3, <1>4, <1>5, <1>7, <2>1, WrittenRefines
<1> QED
  BY <1>2, <1>6, <1>7

\* The record that a handler makes opens its task; a snapshot has none here.
LEMMA CreateTaskRefines ==
  ASSUME TypeInv, TrackInv, TruthInv, NEW r \in Requests, CreateTask(r)
  PROVE  Api!ApiStep \/ UNCHANGED Api!api
<1>0. TaskStoreTypeOK /\ Begun(r)
  BY DEF TypeInv, TruthInv
<1>1. task[r] = Absent /\ UNCHANGED <<op, vm, nova>>
  BY <1>0 DEF CreateTask, Begun
<1>2. \A q \in Requests : q # r => task'[q] = task[q]
  BY <1>0 DEF CreateTask, StoreCreate, store, TaskStoreTypeOK
<1>3. CASE ~Called(r)
  BY <1>1, <1>2, <1>3, UncalledRefines
<1>4. CASE task' = task
  BY <1>1, <1>4 DEF nova, Api!api, ShownServers, ShownServer, ShownTasks,
    ShownTask, Called
<1>5. CASE StoreCreate(r) /\ Called(r)
  <2>1. task'[r].status = "pending" /\ task[r].status = "absent"
    BY <1>0, <1>1, <1>5 DEF StoreCreate, TaskStoreTypeOK, Absent
  <2>2. Shown(task'[r].status) = "open" /\ Shown(task[r].status) = "none"
    BY <2>1 DEF Shown
  <2> QED
    BY <1>1, <1>2, <1>5, <2>2, WrittenRefines
<1> QED
  BY <1>3, <1>4, <1>5 DEF CreateTask, store

\* The calls that a step of request r makes to Nova, besides create_server.
LEMMA CallRefines ==
  ASSUME TypeInv, TruthInv, NEW r \in Requests, NEW s \in Servers,
         CallsOf(r, s), ~CreateServer(r), UNCHANGED <<op, vm, task>>
  PROVE  Api!ApiStep \/ UNCHANGED Api!api
<1>1. CASE op[r] = "delete_vm" /\ vm[r] = s /\ NovaDelete(s)
  <2>1. ShownTasks' = ShownTasks
    BY <1>1 DEF NovaDelete, ShownTasks, ShownTask, Called
  <2> QED
    BY <1>1, <2>1, DeleteRefines
<1>2. CASE (\E a \in PowerActions : NovaPower(s, a)) \/ NovaResize(s, r)
  <2>1. ShownTasks' = ShownTasks
    BY <1>2 DEF NovaPower, NovaResize, ShownTasks, ShownTask, Called
  <2> QED
    BY <1>2, <2>1, PowerRefines
<1>3. CASE op[r] = "resize_vm" /\ vm[r] = s /\ NovaConfirm(s, r)
  BY <1>3, ConfirmRefines
<1> QED
  BY <1>1, <1>2, <1>3 DEF CallsOf

\* The steps that neither make a call nor write a record.
LEMMA QuietStep ==
  ASSUME NEW r \in Requests, HandlerNext(r) \/ JobNext(r) \/ EnvironmentOf(r),
         ~Receive(r), ~CreateServer(r), ~CreateTask(r), ~Expire(r)
  PROVE  /\ UNCHANGED <<op, vm>>
         /\ \/ UNCHANGED task
            \/ SnapshotSet(r) /\ UNCHANGED nova
            \/ /\ jst[r] = "running" /\ jpc[r] = "set" /\ StoreSet(r, todo[r])
               /\ UNCHANGED nova
<1>1. CASE HandlerNext(r) \/ ApiCrash(r)
  BY <1>1 DEF HandlerNext, CheckVm, EnqueueJob, PowerAction, GetConsole,
    CreateImage, SnapshotGet, SnapshotSet, ApiCrash, StoreGet, StoreDrop, store
<1>2. CASE JobSet(r) \/ ArqTimeout(r) \/ WorkerCrash(r)
  BY <1>2 DEF JobSet, ArqTimeout, WorkerCrash, CutShort, Alive, StoreDrop,
    handler
<1>3. CASE \/ JobNext(r) /\ ~JobSet(r) /\ ~ArqTimeout(r)
           \/ EnvironmentOf(r) /\ ~ApiCrash(r) /\ ~WorkerCrash(r)
  BY <1>3 DEF JobNext, EnvironmentOf, StartJob, GiveUp, JobGet, PollSleep, Poll,
    PollTimesOut, DeleteServer, ResizeServer, ResizeWait, ConfirmResize,
    FinishJob, Stall, LateCall, StoreGet, StoreDrop, store, handler
<1> QED
  BY <1>1, <1>2, <1>3

\* Every step of the system is a step of the contract or shows nothing of it.
LEMMA StepRefines ==
  ASSUME TypeInv, TrackInv, TruthInv, Calm => RecordInv, [Next]_vars
  PROVE  [Api!ApiNext]_(Api!api)
<1>1. ASSUME NEW r \in Requests,
             HandlerNext(r) \/ JobNext(r) \/ EnvironmentOf(r)
      PROVE  Api!ApiNext \/ UNCHANGED Api!api
  <2>1. CASE Receive(r)
    BY <2>1, ReceiveRefines
  <2>2. CASE CreateServer(r)
    BY <2>2, CreateRefines
  <2>3. CASE CreateTask(r)
    BY <2>3, CreateTaskRefines DEF Api!ApiNext
  <2>4. CASE Expire(r)
    BY <2>4, ExpireRefines DEF Api!ApiNext
  <2>5. CASE ~Receive(r) /\ ~CreateServer(r) /\ ~CreateTask(r) /\ ~Expire(r)
    <3>0. UNCHANGED <<op, vm>>
      BY <1>1, <2>5, QuietStep
    <3>1. CASE UNCHANGED <<task, nova>>
      BY <3>0, <3>1 DEF nova, Api!api, ShownServers, ShownServer, ShownTasks,
        ShownTask, Called
    <3>2. CASE UNCHANGED task /\ \E s \in Servers : CallsOf(r, s)
      BY <2>5, <3>0, <3>2, CallRefines DEF Api!ApiNext
    <3>3. CASE SnapshotSet(r) /\ UNCHANGED nova
      <4>1. ~Called(r)
        BY <3>3 DEF SnapshotSet, TrackInv, Sequenced, Called, JobOperations
      <4>2. \A q \in Requests : q # r => task'[q] = task[q]
        BY <3>3 DEF SnapshotSet, StoreSet, StoreDrop, TypeInv, TaskStoreTypeOK
      <4> QED
        BY <3>0, <3>3, <4>1, <4>2, UncalledRefines
    <3>4. CASE /\ jst[r] = "running" /\ jpc[r] = "set" /\ StoreSet(r, todo[r])
               /\ UNCHANGED nova
      BY <3>0, <3>4, SetRefines DEF Api!ApiNext
    <3> QED
      BY <1>1, <2>5, <3>1, <3>2, <3>3, <3>4, QuietStep, StepCalls
  <2> QED
    BY <2>1, <2>2, <2>3, <2>4, <2>5
<1>2. ASSUME NEW s \in Servers, NovaStep(s)
      PROVE  Api!ApiNext \/ UNCHANGED Api!api
  <2>1. ShownTasks' = ShownTasks
    BY <1>2 DEF NovaStep, NovaSettle, NovaPurge, store, handler, ShownTasks,
      ShownTask, Called
  <2> QED
    BY <1>2, <2>1, SettleRefines, PurgeRefines DEF NovaStep, Api!ApiNext
<1>3. CASE UNCHANGED vars
  BY <1>3 DEF vars, Api!api, ShownServers, ShownServer, ShownTasks, ShownTask,
    Called
<1> QED
  BY <1>1, <1>2, <1>3 DEF Next, Environment, EnvironmentOf

\* The whole of handlers, jobs, task store and Nova keeps the contract that the
\* Terraform provider is checked against: what a task says of its server is
\* true, and closed tasks stay closed unless a crash, a Redis error or the TTL
\* gets in the way.
THEOREM ApiImplemented == Spec => ImplementsApi
<1>1. Init => Api!ApiInit
  <2> SUFFICES ASSUME Init PROVE Api!ApiInit
    OBVIOUS
  <2>1. \A r \in Requests : ShownTask(r) = [call |-> "none"]
    BY DEF Init, ShownTask, Called
  <2>2. ASSUME NEW s \in Servers
        PROVE  ShownServer(s) = [st |-> IF s \in Existing THEN "live" ELSE "none",
                                 up |-> s \in Existing, size |-> NoRequest]
    <3>1. /\ srv[s].status = IF s \in Existing THEN "ACTIVE" ELSE "none"
          /\ ~srv[s].deleting /\ everActive = Existing /\ flavor[s] = NoRequest
      BY DEF Init, NovaInit
    <3>2. CASE s \in Existing
      BY <3>1, <3>2 DEF ShownServer
    <3>3. CASE s \notin Existing
      BY <3>1, <3>3 DEF ShownServer
    <3> QED
      BY <3>2, <3>3
  <2> QED
    BY <2>1, <2>2 DEF Api!ApiInit, Api!NoTask, ShownServers, ShownTasks
<1>2. TypeInv /\ TrackInv /\ TruthInv /\ (Calm => RecordInv) /\ [Next]_vars
        => [Api!ApiNext]_(Api!api)
  BY StepRefines
<1> QED
  BY <1>1, <1>2, TypeInvHolds, TrackInvHolds, TruthInvHolds, RecordInvHolds, PTL
  DEF Spec, ImplementsApi, Api!ApiSpec
=============================================================================
