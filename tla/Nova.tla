------------------------------- MODULE Nova -------------------------------
(***************************************************************************)
(* The OpenStack compute service, external to the repository: what         *)
(* app/services/_compute.py relies on of the openstacksdk calls it makes.  *)
(* A call is either accepted, refused with a Conflict because of the       *)
(* server's status, or refused with NotFound.  What Nova does after it has *)
(* accepted a call (building, rebooting, resizing, purging) are steps of   *)
(* its own.                                                                *)
(***************************************************************************)
EXTENDS Parameters

VARIABLE srv,         \* srv[s].status, and whether a delete of s was accepted
         resizer,     \* resizer[s]: the request whose resize of s is under way
         flavor,      \* flavor[s]: the request that gave s its flavor, NoRequest
                      \* while it has the one it was made with
         everActive,  \* history: servers that have been ACTIVE
         confirmed    \* history: requests whose confirm call was accepted

nova == <<srv, resizer, flavor, everActive, confirmed>>

PowerActions == {"start", "stop", "reboot", "hard_reboot", "suspend", "resume"}

Statuses == {"BUILD", "ACTIVE", "SHUTOFF", "SUSPENDED", "REBOOT",
             "HARD_REBOOT", "ERROR", "RESIZE", "VERIFY_RESIZE"}
ServerRecords == [status : Statuses \cup {"none", "gone"}, deleting : BOOLEAN]

NovaTypeOK ==
  /\ srv \in [Servers -> ServerRecords]
  /\ resizer \in [Servers -> Requests \cup {NoRequest}]
  /\ flavor \in [Servers -> Requests \cup {NoRequest}]
  /\ everActive \subseteq Servers
  /\ confirmed \subseteq Requests

NovaInit ==
  /\ srv = [s \in Servers |->
             [status |-> IF s \in Existing THEN "ACTIVE" ELSE "none",
              deleting |-> FALSE]]
  /\ resizer = [s \in Servers |-> NoRequest]
  /\ flavor = [s \in Servers |-> NoRequest]
  /\ everActive = Existing
  /\ confirmed = {}

\* Servers a get_server call finds.
Visible(s) == srv[s].status \in Statuses

\* Server s enters status st.
Become(s, st) ==
  /\ srv' = [srv EXCEPT ![s].status = st]
  /\ everActive' = IF st = "ACTIVE" THEN everActive \cup {s} ELSE everActive

\* Statuses from which Nova accepts each call; a server being deleted
\* refuses everything but another delete.
Accepts(s, call) ==
  /\ ~srv[s].deleting
  /\ srv[s].status \in
       CASE call = "start"       -> {"SHUTOFF"}
         [] call = "stop"        -> {"ACTIVE", "ERROR"}
         [] call = "reboot"      -> {"ACTIVE"}
         [] call = "hard_reboot" -> {"ACTIVE", "SHUTOFF", "SUSPENDED", "ERROR"}
         [] call = "suspend"     -> {"ACTIVE"}
         [] call = "resume"      -> {"SUSPENDED"}
         [] call = "image"       -> {"ACTIVE", "SHUTOFF", "SUSPENDED"}
         [] call = "console"     -> {"ACTIVE"}
         [] call = "resize"      -> {"ACTIVE", "SHUTOFF"}
         [] call = "confirm"     -> {"VERIFY_RESIZE"}

AfterPower(a) ==
  CASE a \in {"start", "resume"} -> "ACTIVE"
    [] a = "stop" -> "SHUTOFF"
    [] a = "suspend" -> "SUSPENDED"
    [] a = "reboot" -> "REBOOT"
    [] a = "hard_reboot" -> "HARD_REBOOT"

NovaCreate(s) ==
  /\ srv[s].status = "none"
  /\ Become(s, "BUILD")
  /\ UNCHANGED <<resizer, flavor, confirmed>>

\* delete_server ignores a missing server, and a repeated delete.
NovaDelete(s) ==
  /\ srv' = IF Visible(s) THEN [srv EXCEPT ![s].deleting = TRUE] ELSE srv
  /\ UNCHANGED <<resizer, flavor, everActive, confirmed>>

NovaPower(s, a) ==
  /\ Accepts(s, a)
  /\ Become(s, AfterPower(a))
  /\ UNCHANGED <<resizer, flavor, confirmed>>

NovaResize(s, r) ==
  /\ Accepts(s, "resize")
  /\ Become(s, "RESIZE")
  /\ resizer' = [resizer EXCEPT ![s] = r]
  /\ UNCHANGED <<flavor, confirmed>>

\* Whoever asks, it is the resize under way that is confirmed.
NovaConfirm(s, r) ==
  /\ Accepts(s, "confirm")
  /\ Become(s, "ACTIVE")
  /\ resizer' = [resizer EXCEPT ![s] = NoRequest]
  /\ confirmed' = confirmed \cup {r}
  /\ UNCHANGED flavor

\* Nova's own progress.  A resize may also be rolled back (no valid host) or
\* leave the server in ERROR; it is in VERIFY_RESIZE that the flavor is the new
\* one.
Settles(status) ==
  CASE status = "BUILD" -> {"ACTIVE", "ERROR"}
    [] status \in {"REBOOT", "HARD_REBOOT"} -> {"ACTIVE"}
    [] status = "RESIZE" -> {"VERIFY_RESIZE", "ERROR", "ACTIVE"}
    [] OTHER -> {}

NovaSettle(s) ==
  /\ \E st \in Settles(srv[s].status) :
       /\ Become(s, st)
       /\ resizer' = IF st = "VERIFY_RESIZE" THEN resizer
                     ELSE [resizer EXCEPT ![s] = NoRequest]
       /\ flavor' = IF st = "VERIFY_RESIZE" THEN [flavor EXCEPT ![s] = resizer[s]]
                    ELSE flavor
  /\ UNCHANGED confirmed

\* An accepted delete completes; the id is never used again.
NovaPurge(s) ==
  /\ srv[s].deleting /\ Visible(s)
  /\ srv' = [srv EXCEPT ![s].status = "gone"]
  /\ UNCHANGED <<resizer, flavor, everActive, confirmed>>
=============================================================================
