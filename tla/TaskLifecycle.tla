--------------------------- MODULE TaskLifecycle ---------------------------
(***************************************************************************)
(* What GET /tasks/{task_id} promises about one task record: "pending ->   *)
(* running -> success | failed" (app/api/v1/endpoints/tasks.py), with an   *)
(* error text exactly on the failed ones.  A snapshot is finished by the   *)
(* request handler itself and goes from pending straight to success.       *)
(* The abstract specification that ComputeClient is shown to implement.    *)
(***************************************************************************)
CONSTANT Tasks      \* task ids

VARIABLE status,    \* status[t]: what a poll of task t answers ("absent" is 404)
         error      \* error[t]: the record carries an error text

ltvars == <<status, error>>

LifecycleInit ==
  /\ status = [t \in Tasks |-> "absent"]
  /\ error = [t \in Tasks |-> FALSE]

Become(t, from, to, err) ==
  /\ status[t] \in from
  /\ status' = [status EXCEPT ![t] = to]
  /\ error' = [error EXCEPT ![t] = err]

LifecycleNext ==
  \E t \in Tasks :
    \/ Become(t, {"absent"}, "pending", FALSE)
    \/ Become(t, {"pending"}, "running", FALSE)
    \/ Become(t, {"pending", "running"}, "success", FALSE)
    \/ Become(t, {"running"}, "failed", TRUE)

LifecycleSpec == LifecycleInit /\ [][LifecycleNext]_ltvars
=============================================================================
