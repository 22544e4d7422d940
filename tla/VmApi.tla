------------------------------- MODULE VmApi -------------------------------
(***************************************************************************)
(* What the API promises the programs that use it: servers, and tasks that *)
(* follow the calls made on them.  It is stated once and used twice:       *)
(* ComputeClient implements it (ImplementsApi there), and the Terraform    *)
(* provider runs against it.                                               *)
(*                                                                         *)
(* A call is accepted, does its work at some time or never, and its task   *)
(* is closed at some time or never; the promise is what a closed task says *)
(* about the server.  Who makes an object or asks for a change is left to  *)
(* the module that extends this one.                                       *)
(***************************************************************************)
CONSTANTS Objects,   \* ids of servers, made and not yet made
          Existing,  \* servers made by others before
          Sizes,     \* flavors
          Tasks,     \* task ids
          Foreign,   \* whether other clients change the same servers
          Rewrites   \* whether a closed task is still followed: by a job run
                     \* again, a write that failed, the TTL of its record

ASSUME ExistingObjectsAssumption == Existing \subseteq Objects
ASSUME ForeignAssumption == Foreign \in BOOLEAN /\ Rewrites \in BOOLEAN

VARIABLES obj,   \* obj[i]: server i; up: it has been ACTIVE
          task   \* task[t]: the call t was made for, and what its record says

api == <<obj, task>>

Calls == {"create", "update", "delete"}
NoTask == [call |-> "none"]

ObjectRecords ==
  [st : {"none", "live", "deleting", "gone"}, up : BOOLEAN, size : Sizes]
\* worked: the task's job has seen Nova confirm a resize.  status "none": there
\* is no record, not yet, not any more, or never.
TaskRecords ==
  [call : Calls, of : Objects, size : Sizes, worked : BOOLEAN,
   status : {"none", "open", "success", "failed"}]

ApiTypeOK ==
  /\ obj \in [Objects -> ObjectRecords]
  /\ task \in [Tasks -> TaskRecords \cup {NoTask}]

ApiInit ==
  /\ \E n \in Sizes :
       obj = [i \in Objects |->
               [st |-> IF i \in Existing THEN "live" ELSE "none",
                up |-> i \in Existing, size |-> n]]
  /\ task = [t \in Tasks |-> NoTask]

Is(t, call, i) == task[t].call = call /\ task[t].of = i
There(i) == obj[i].st \in {"live", "deleting"}

\* The call t, and a record for it if the client is told of one.
Asked(t, call, i, n, st) ==
  /\ task[t] = NoTask
  /\ task' = [task EXCEPT ![t] = [call |-> call, of |-> i, size |-> n,
                                  worked |-> FALSE, status |-> st]]

\* POST /vms makes the server before it answers.
Made(t, i, n, st) ==
  /\ obj[i].st = "none"
  /\ obj' = [obj EXCEPT ![i] = [st |-> "live", up |-> FALSE, size |-> n]]
  /\ Asked(t, "create", i, n, st)

\* What success of a task stands for.
Accomplished(t) ==
  \/ task[t].call = "create" /\ obj[task[t].of].up
  \/ task[t].call = "delete" /\ obj[task[t].of].st \in {"deleting", "gone"}
  \/ task[t].call = "update" /\ task[t].worked

\* The record is written.  A closed one stays as it is, unless Rewrites.
Written(t, st) ==
  /\ task[t] # NoTask
  /\ task[t].status \in {"success", "failed"} => Rewrites
  /\ st = "success" => Accomplished(t)
  /\ UNCHANGED obj
  /\ task' = [task EXCEPT ![t].status = st]

\* The record's TTL runs out.
Lapsed(t) ==
  /\ Rewrites
  /\ task[t] # NoTask
  /\ task' = [task EXCEPT ![t].status = "none"]
  /\ UNCHANGED obj

Up(i) ==
  /\ There(i)
  /\ obj' = [obj EXCEPT ![i].up = TRUE]
  /\ UNCHANGED task

\* An update can still take effect as long as its task does not read success; if
\* its job can be run again, even then: the resize of the second run, or the one
\* the first had under way when it was cut short.
Pending(t) == task[t].call = "update" /\ (task[t].status # "success" \/ Rewrites)

\* The resize t asked for is in effect, and not yet confirmed.
Resized(t) ==
  /\ Pending(t) /\ There(task[t].of)
  /\ obj' = [obj EXCEPT ![task[t].of].size = task[t].size]
  /\ UNCHANGED task

\* The job of t has a resize of its server confirmed, its own or that of another
\* update still under way: confirming asks for no particular one.
Confirmed(t) ==
  /\ task[t].call = "update"
  /\ LET i == task[t].of IN
     /\ There(i)
     /\ \E q \in Tasks : Is(q, "update", i) /\ obj[i].size = task[q].size /\ Pending(q)
     /\ task' = [task EXCEPT ![t].worked = TRUE]
     /\ \E up \in {obj[i].up, TRUE} : obj' = [obj EXCEPT ![i].up = up]

\* A delete is accepted because someone asked for it.
Deleting(i) ==
  /\ There(i)
  /\ (\E t \in Tasks : Is(t, "delete", i)) \/ Foreign
  /\ obj' = [obj EXCEPT ![i].st = "deleting"]
  /\ UNCHANGED task

Gone(i) ==
  /\ obj[i].st = "deleting"
  /\ obj' = [obj EXCEPT ![i].st = "gone"]
  /\ UNCHANGED task

ForeignResize(i, n) ==
  /\ Foreign /\ There(i)
  /\ obj' = [obj EXCEPT ![i].size = n]
  /\ UNCHANGED task

\* What the API does on its own.
ApiStep ==
  \/ \E t \in Tasks : Lapsed(t) \/ Resized(t) \/ Confirmed(t)
  \/ \E t \in Tasks, st \in {"open", "success", "failed"} : Written(t, st)
  \/ \E i \in Objects : Up(i) \/ Deleting(i) \/ Gone(i)
  \/ \E i \in Objects, n \in Sizes : ForeignResize(i, n)

ApiNext ==
  \/ \E t \in {u \in Tasks : task[u] = NoTask}, i \in Objects, n \in Sizes,
        st \in {"none", "open"} :
       \/ Made(t, i, n, st)
       \/ \E call \in {"update", "delete"} : UNCHANGED obj /\ Asked(t, call, i, n, st)
  \/ ApiStep

ApiSpec == ApiInit /\ [][ApiNext]_api
=============================================================================
