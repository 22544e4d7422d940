----------------------------- MODULE TaskStore -----------------------------
(***************************************************************************)
(* RedisTaskStore (app/services/task_store.py).  One Redis key per task;   *)
(* the task created for request r is called r, since uuid4 makes it fresh. *)
(* `update` is two Redis commands, a GET and a SET of the whole record,    *)
(* with anything at all possible in between: it is two actions here.       *)
(* These are steps for a caller to conjoin with its own, not a system.     *)
(***************************************************************************)
EXTENDS Parameters

VARIABLE task,   \* task[r]: the record under key task:<r>, Absent if none
         raw     \* raw[r]: the copy that the update of task r in progress read

Terminal == {"success", "failed"}
TaskStatus == {"pending", "running"} \cup Terminal

Absent == [status |-> "absent", error |-> FALSE]
Records == [status : TaskStatus \cup {"absent"}, error : BOOLEAN]

Live(r) == task[r].status # "absent"

TaskStoreTypeOK ==
  /\ task \in [Requests -> Records]
  /\ raw \in [Requests -> Records]

TaskStoreInit ==
  /\ task = [r \in Requests |-> Absent]
  /\ raw = [r \in Requests |-> Absent]

StoreCreate(r) ==
  /\ task' = [task EXCEPT ![r] = [status |-> "pending", error |-> FALSE]]
  /\ UNCHANGED raw

\* First half of update: redis.get.
StoreGet(r) ==
  /\ raw' = [raw EXCEPT ![r] = task[r]]
  /\ UNCHANGED task

\* Broken variant: update forgets to store the error text.
Merge_ErrorLost(record, status) ==
  [status |-> status, error |-> record.error]

\* record.status = status; an error text is set when one is given and is
\* otherwise left as it was read.  Only FAILED updates give one.
Merge(record, status) ==
  [status |-> status, error |-> record.error \/ status = "failed"]

\* Second half of update: redis.set of the modified copy.
StoreSet(r, status) ==
  /\ task' = [task EXCEPT ![r] = Merge(raw[r], status)]
  /\ raw' = [raw EXCEPT ![r] = Absent]

\* An update that ends without its SET drops the copy.
StoreDrop(r) ==
  /\ raw' = [raw EXCEPT ![r] = Absent]
  /\ UNCHANGED task

\* The key's TTL runs out.
StoreExpire(r) ==
  /\ Live(r)
  /\ task' = [task EXCEPT ![r] = Absent]
  /\ UNCHANGED raw
=============================================================================
