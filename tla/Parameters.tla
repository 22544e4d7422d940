----------------------------- MODULE Parameters -----------------------------
(***************************************************************************)
(* The parameters shared by the modules of the VM lifecycle API: how much  *)
(* of everything there is, the code's time limits, and which faults the    *)
(* environment may inject.                                                 *)
(***************************************************************************)
EXTENDS Integers

CONSTANTS
  Requests,            \* HTTP requests to the VM endpoints
  Operations,          \* the endpoints they may be sent to
  Servers,             \* Nova server ids, used and not yet used
  Existing,            \* servers that exist before the API starts
  DefaultNetwork,      \* OPENSTACK_DEFAULT_NETWORK_ID is set
  Faults,              \* what may go wrong
  PollInterval,        \* _POLL_INTERVAL_SECONDS
  PollTimeout,         \* POLL_TIMEOUT_SECONDS
  ResizeConfirmDelay,  \* _RESIZE_CONFIRM_DELAY_SECONDS
  JobTimeout,          \* arq job_timeout (WorkerSettings leaves the default)
  MaxTries,            \* arq max_tries (likewise)
  MaxJobs              \* arq max_jobs (likewise)

\* Operations that create a task and hand it to an arq job.
JobOperations == {"create_vm", "delete_vm", "resize_vm"}
TaskOperations == JobOperations \cup {"create_snapshot"}
AllOperations == TaskOperations \cup {"action", "console", "get_vm"}
\* Operations whose body is validated against a schema.
WithBody == {"create_vm", "resize_vm", "create_snapshot", "action"}

\* sdk: an openstacksdk call fails, or its answer is lost; redis: the same for
\* a Redis command; stall: a call takes long; worker_crash / api_crash: a
\* process dies or is restarted; expire: a task record's TTL runs out.
AllFaults == {"sdk", "redis", "stall", "worker_crash", "api_crash", "expire"}

ASSUME OperationsAssumption == Operations \subseteq AllOperations
ASSUME ExistingAssumption == Existing \subseteq Servers
ASSUME DefaultNetworkAssumption == DefaultNetwork \in BOOLEAN
ASSUME FaultsAssumption == Faults \subseteq AllFaults
ASSUME TimesAssumption ==
  /\ PollInterval \in Nat \ {0}
  /\ PollTimeout \in Nat
  /\ ResizeConfirmDelay \in Nat
  /\ JobTimeout \in Nat \ {0}
ASSUME ArqAssumption ==
  /\ MaxTries \in Nat \ {0}
  /\ MaxJobs \in Nat \ {0}

NoRequest == "no request"
NoServer == "no server"

\* Nova's ids are UUIDs, and never None.
ASSUME NoServerAssumption == NoServer \notin Servers
=============================================================================
