----------------------------- MODULE DepsProofs -----------------------------
(***************************************************************************)
(* How the singletons of deps.py come about is safe for any number of      *)
(* first requests that race for them, and no failure to connect outlives   *)
(* its cause.                                                              *)
(***************************************************************************)
EXTENDS Deps, TLAPS

\* The globals: each is set for good, and a service was built with a task store
\* and an open pool.  A connection belongs to the service.
GlobalsOK ==
  /\ arqPool # None => arqPool \in pools
  /\ service # None => service.store # None /\ service.pool \in pools
  /\ \A s \in Requests : conn[s] # None => service # None /\ service.by = s

\* A request, from dependency to dependency, and on to its call.
LocalsOK(r) ==
  /\ pc[r] = "return_store" => taskStore # None
  /\ pc[r] \in {"pool", "connect", "service"} => got[r].store # None
  /\ pc[r] = "service" => got[r].pool \in pools
  /\ pc[r] \in {"conn", "call"} => service # None /\ got[r].service = service
  /\ pc[r] = "call" => conn[service.by] # None

\* What r has seen of the cloud, and what it was told.
AnswerOK(r) ==
  /\ pc[r] # "done" => resp[r].code = "none"
  /\ pc[r] \in {"conn", "call"} => cloud \in seen[r]
  /\ \/ resp[r].code = "503"
     \/ r \in Probes /\ resp[r].code = "200" /\ ~resp[r].ready
     => \E c \in seen[r] : c # "up"

WiringInv == GlobalsOK /\ \A r \in Requests : LocalsOK(r) /\ AnswerOK(r)

-----------------------------------------------------------------------------
(* Types.                                                                  *)

\* An answer is one of the codes.
LEMMA AnswerType ==
  ASSUME TypeOK, NEW r \in Requests, NEW code \in Codes, NEW ready \in BOOLEAN,
         Answer(r, code, ready)
  PROVE  /\ pc' = [pc EXCEPT ![r] = "done"]
         /\ got' \in [Requests -> [store : Instances, pool : Instances,
                                   service : Services \cup {None}]]
         /\ resp' \in [Requests -> [code : Codes, ready : BOOLEAN]]
BY DEF Answer, TypeOK, Codes, Nothing, Instances

\* A dependency that was received is an instance.
LEMMA GotType ==
  ASSUME TypeOK, NEW r \in Requests, NEW x \in Instances,
         \/ got' = [got EXCEPT ![r].store = x]
         \/ got' = [got EXCEPT ![r].pool = x]
  PROVE  got' \in [Requests -> [store : Instances, pool : Instances,
                                service : Services \cup {None}]]
<1>1. got[r] \in [store : Instances, pool : Instances,
                  service : Services \cup {None}]
  BY DEF TypeOK
<1>2. /\ [got[r] EXCEPT !.store = x] \in [store : Instances, pool : Instances,
                                           service : Services \cup {None}]
      /\ [got[r] EXCEPT !.pool = x] \in [store : Instances, pool : Instances,
                                          service : Services \cup {None}]
  BY <1>1
<1> QED
  BY <1>2 DEF TypeOK

\* An exception is answered with one of them.
LEMMA RaiseIsAnswer ==
  ASSUME NEW r \in Requests, Raise(r, "OpenStackConnectionError")
                             \/ Raise(r, "VMOperationError")
  PROVE  \/ Answer(r, "200", FALSE) /\ r \in Probes
         \/ /\ \E code \in {"502", "503"} : Answer(r, code, FALSE)
            /\ r \notin Probes
BY DEF Raise, StatusCode

\* Types are kept.
THEOREM TypeCorrect == Spec => []TypeOK
<1>1. Init => TypeOK
  <2> SUFFICES ASSUME Init PROVE TypeOK
    OBVIOUS
  <2>1. Nothing \in [store : Instances, pool : Instances,
                     service : Services \cup {None}]
    BY DEF Nothing, Instances
  <2>2. PICK b \in BOOLEAN : b = FALSE
    OBVIOUS
  <2>3. NoAnswer \in [code : Codes, ready : BOOLEAN]
    BY <2>2 DEF NoAnswer, Codes
  <2>4. token \in BOOLEAN
    BY DEF Init
  <2> QED
    BY <2>1, <2>3, <2>4 DEF Init, TypeOK, Instances
<1>2. TypeOK /\ [Next]_vars => TypeOK'
  <2> SUFFICES ASSUME TypeOK, [Next]_vars PROVE TypeOK'
    OBVIOUS
  <2>a. ASSUME NEW r \in Requests, NEW code \in Codes, Answer(r, code, FALSE)
        PROVE  /\ pc' = [pc EXCEPT ![r] = "done"]
               /\ got' \in [Requests -> [store : Instances, pool : Instances,
                                         service : Services \cup {None}]]
               /\ resp' \in [Requests -> [code : Codes, ready : BOOLEAN]]
    BY <2>a, AnswerType
  <2> USE DEF TypeOK
  <2>1. ASSUME NEW r \in Requests, StoreCheck(r) PROVE TypeOK'
    BY <2>1, <2>a DEF StoreCheck, Goto, globals, openstack, Codes
  <2>2. ASSUME NEW r \in Requests, StoreAssign(r) PROVE TypeOK'
    BY <2>2 DEF StoreAssign, Goto, openstack, Instances
  <2>3. ASSUME NEW r \in Requests, StoreReturn(r) PROVE TypeOK'
    BY <2>3, <2>a, GotType DEF StoreReturn, Goto, openstack, Codes
  <2>4. ASSUME NEW r \in Requests, PoolCheck(r) PROVE TypeOK'
    BY <2>4, GotType DEF PoolCheck, Goto, openstack
  <2>5. ASSUME NEW r \in Requests, PoolAssign(r) PROVE TypeOK'
    <3>1. r \in Instances
      BY DEF Instances
    <3> QED
      BY <2>5, <2>a, <3>1, GotType DEF PoolAssign, Goto, openstack, Codes
  <2>6. ASSUME NEW r \in Requests, GetService(r) PROVE TypeOK'
    <3>1. service' \in Services \cup {None}
      BY <2>6 DEF GetService, Services
    <3> QED
      BY <2>6, <3>1 DEF GetService, Goto, openstack
  <2>7. ASSUME NEW r \in Requests, GetConn(r) PROVE TypeOK'
    <3>1. conn' \in [Requests -> Instances] /\ UNCHANGED <<globals, cloud, token, seen>>
      BY <2>7 DEF GetConn, Instances
    <3>2. CASE Goto(r, "call") /\ UNCHANGED got
      BY <3>1, <3>2 DEF Goto, globals
    <3>3. CASE Raise(r, "OpenStackConnectionError")
      BY <2>a, <3>1, <3>3, RaiseIsAnswer DEF globals, Codes
    <3> QED
      BY <2>7, <3>2, <3>3 DEF GetConn
  <2>n. ASSUME NEW r \in Requests, NoNetwork(r) PROVE TypeOK'
    BY <2>n, <2>a, RaiseIsAnswer DEF NoNetwork, globals, openstack, Codes
  <2>8. ASSUME NEW r \in Requests, Call(r) PROVE TypeOK'
    <3>1. /\ token' \in BOOLEAN
          /\ UNCHANGED <<taskStore, arqPool, service, pools, conn, cloud, seen>>
      BY <2>8 DEF Call, globals
    <3>2. CASE Goto(r, "conn") /\ UNCHANGED got
      BY <3>1, <3>2 DEF Goto
    <3>3. CASE \E code \in {"200", "404", "409", "500"} : Answer(r, code, FALSE)
      BY <2>a, <3>1, <3>3 DEF Codes
    <3>4. CASE Raise(r, "VMOperationError")
      BY <2>a, <3>1, <3>4, RaiseIsAnswer DEF Codes
    <3> QED
      BY <2>8, <3>2, <3>3, <3>4 DEF Call
  <2>9. ASSUME NEW r \in Requests, Authorize(r) PROVE TypeOK'
    <3>1. ASSUME Answer(r, "200", TRUE)
          PROVE  /\ pc' = [pc EXCEPT ![r] = "done"]
                 /\ got' \in [Requests -> [store : Instances, pool : Instances,
                                           service : Services \cup {None}]]
                 /\ resp' \in [Requests -> [code : Codes, ready : BOOLEAN]]
      <4>1. PICK b \in BOOLEAN : b = TRUE
        OBVIOUS
      <4>2. "200" \in Codes
        BY DEF Codes
      <4>3. Answer(r, "200", b)
        BY <3>1, <4>1
      <4> QED
        BY <4>2, <4>3, AnswerType
    <3> QED
      BY <2>9, <2>a, <3>1, RaiseIsAnswer DEF Authorize, globals, Codes
  <2>10. CASE CloudChanges
    <3>1. PICK c \in Clouds : /\ cloud' = c
                              /\ seen' = [r \in Requests |->
                                   IF pc[r] \in {"conn", "call"}
                                   THEN seen[r] \cup {c} ELSE seen[r]]
      BY <2>10 DEF CloudChanges
    <3>2. seen' \in [Requests -> SUBSET Clouds]
      BY <3>1
    <3> QED
      BY <2>10, <3>1, <3>2 DEF CloudChanges, globals
  <2>11. CASE TokenExpires
    BY <2>11 DEF TokenExpires, globals
  <2>12. CASE UNCHANGED vars
    BY <2>12 DEF vars
  <2> QED
    BY <2>1, <2>2, <2>3, <2>4, <2>5, <2>6, <2>7, <2>n, <2>8, <2>9, <2>10, <2>11,
       <2>12
    DEF Next
<1> QED
  BY <1>1, <1>2, PTL DEF Spec

-----------------------------------------------------------------------------
(* The singletons.                                                         *)

RequestStep(r) ==
  \/ StoreCheck(r) \/ StoreAssign(r) \/ StoreReturn(r)
  \/ PoolCheck(r) \/ PoolAssign(r) \/ GetService(r)
  \/ NoNetwork(r) \/ GetConn(r) \/ Call(r) \/ Authorize(r)

\* What no request undoes: a global that is set, a pool, a connection.
Kept ==
  /\ taskStore # None => taskStore' # None
  /\ arqPool # None => arqPool' # None
  /\ service # None => service' = service
  /\ pools \subseteq pools'
  /\ \A s \in Requests : conn[s] # None => conn'[s] # None

\* A step of one request touches no other, the cloud, or what is set for good.
LEMMA OthersStay ==
  ASSUME TypeOK, NEW r \in Requests, RequestStep(r)
  PROVE  /\ \A q \in Requests : q # r =>
              /\ pc'[q] = pc[q] /\ got'[q] = got[q] /\ resp'[q] = resp[q]
              /\ seen'[q] = seen[q]
         /\ cloud' = cloud
         /\ Kept
<1> USE DEF TypeOK, Kept
<1>0. r # None
  BY NoneAssumption
<1>1. CASE StoreCheck(r) \/ StoreReturn(r) \/ PoolCheck(r)
  BY <1>1 DEF StoreCheck, StoreReturn, PoolCheck, Goto, Answer, globals, openstack
<1>2. CASE StoreAssign(r)
  BY <1>0, <1>2 DEF StoreAssign, Goto, openstack
<1>3. CASE PoolAssign(r)
  BY <1>0, <1>3 DEF PoolAssign, Goto, Answer, openstack
<1>4. CASE GetService(r)
  BY <1>4 DEF GetService, Goto, openstack
<1>5. CASE GetConn(r)
  <2>1. \A s \in Requests : conn[s] # None => conn'[s] # None
    BY <1>0, <1>5 DEF GetConn
  <2>2. UNCHANGED <<globals, cloud, seen>>
    BY <1>5 DEF GetConn
  <2>3. (Goto(r, "call") /\ UNCHANGED got) \/ Raise(r, "OpenStackConnectionError")
    BY <1>5 DEF GetConn
  <2> QED
    BY <2>1, <2>2, <2>3, RaiseIsAnswer DEF Goto, Answer, globals
<1>6. CASE NoNetwork(r) \/ Call(r) \/ Authorize(r)
  BY <1>6, RaiseIsAnswer DEF NoNetwork, Call, Authorize, Goto, Answer, globals,
    openstack
<1> QED
  BY <1>1, <1>2, <1>3, <1>4, <1>5, <1>6 DEF RequestStep

\* So the others keep their part of the invariant.
LEMMA OthersWiring ==
  ASSUME TypeOK, WiringInv, NEW r \in Requests, RequestStep(r),
         NEW q \in Requests, q # r
  PROVE  LocalsOK(q)' /\ AnswerOK(q)'
<1>0. /\ pc'[q] = pc[q] /\ got'[q] = got[q] /\ resp'[q] = resp[q]
      /\ seen'[q] = seen[q] /\ cloud' = cloud /\ Kept
  BY OthersStay
<1>1. service # None => service.by \in Requests
  BY DEF TypeOK, Services
<1>2. LocalsOK(q)'
  BY <1>0, <1>1 DEF WiringInv, LocalsOK, Kept
<1>3. AnswerOK(q)'
  BY <1>0 DEF WiringInv, AnswerOK
<1> QED
  BY <1>2, <1>3

\* A request's step keeps the globals wired.
LEMMA GlobalsStep ==
  ASSUME TypeOK, WiringInv, NEW r \in Requests, RequestStep(r)
  PROVE  GlobalsOK'
<1>0. GlobalsOK /\ LocalsOK(r) /\ r # None
  BY NoneAssumption DEF WiringInv
<1> USE <1>0 DEF TypeOK, GlobalsOK
<1>1. CASE \/ StoreCheck(r) \/ StoreReturn(r) \/ PoolCheck(r) \/ NoNetwork(r)
           \/ Call(r) \/ Authorize(r)
  BY <1>1 DEF StoreCheck, StoreReturn, PoolCheck, NoNetwork, Call, Authorize,
    globals, openstack
<1>2. CASE StoreAssign(r)
  BY <1>2 DEF StoreAssign, openstack
<1>3. CASE PoolAssign(r)
  BY <1>3 DEF PoolAssign, openstack
<1>4. CASE GetService(r)
  <2>0. UNCHANGED <<arqPool, pools, conn>>
    BY <1>4 DEF GetService, openstack
  <2>1. CASE service # None
    BY <1>4, <2>0, <2>1 DEF GetService
  <2>2. CASE service = None
    <3>1. /\ service' = [by |-> r, store |-> got[r].store, pool |-> got[r].pool]
          /\ got[r].store # None /\ got[r].pool \in pools
      BY <1>4, <2>2 DEF GetService, LocalsOK
    <3>2. service'.store # None /\ service'.pool \in pools
      BY <3>1
    <3> QED
      BY <2>0, <2>2, <3>2
  <2> QED
    BY <2>1, <2>2
<1>5. CASE GetConn(r)
  BY <1>5 DEF GetConn, globals, LocalsOK
<1> QED
  BY <1>1, <1>2, <1>3, <1>4, <1>5 DEF RequestStep

\* ... and what it has received itself.
LEMMA LocalsStep ==
  ASSUME TypeOK, TypeOK', WiringInv, NEW r \in Requests, RequestStep(r)
  PROVE  LocalsOK(r)'
<1>0. GlobalsOK /\ LocalsOK(r) /\ r # None /\ Kept
  BY NoneAssumption, OthersStay DEF WiringInv
<1> USE <1>0 DEF TypeOK, LocalsOK
<1>a. ASSUME pc'[r] = "done" PROVE LocalsOK(r)'
  BY <1>a
<1>1. CASE StoreCheck(r)
  BY <1>1, <1>a DEF StoreCheck, Goto, Answer, globals, openstack
<1>2. CASE StoreAssign(r)
  BY <1>2 DEF StoreAssign, Goto
<1>3. CASE StoreReturn(r)
  BY <1>3, <1>a DEF StoreReturn, Goto, Answer
<1>4. CASE PoolCheck(r)
  BY <1>4 DEF PoolCheck, Goto, GlobalsOK
<1>5. CASE PoolAssign(r)
  BY <1>5, <1>a DEF PoolAssign, Goto, Answer
<1>6. CASE GetService(r)
  <2>1. pc'[r] = "conn" /\ got'[r].service = service'
    BY <1>6 DEF GetService, Goto
  <2>2. service' # None
    <3>1. [by |-> r, store |-> got[r].store, pool |-> got[r].pool] \in Services
      BY DEF Services
    <3> QED
      BY <1>6, <3>1, NoneAssumption DEF GetService
  <2> QED
    BY <2>1, <2>2
<1>7. CASE GetConn(r)
  <2>1. CASE Raise(r, "OpenStackConnectionError")
    BY <1>a, <2>1, RaiseIsAnswer DEF Answer
  <2>2. CASE ~Raise(r, "OpenStackConnectionError")
    <3>1. /\ got[r].service = service /\ service # None /\ service' = service
          /\ got' = got /\ pc'[r] = "call"
          /\ conn' = [conn EXCEPT ![service.by] = IF @ = None THEN r ELSE @]
      BY <1>7, <2>2 DEF GetConn, Goto, globals
    <3>2. service.by \in Requests
      BY <3>1 DEF Services
    <3> QED
      BY <3>1, <3>2
  <2> QED
    BY <2>1, <2>2
<1>8. CASE Call(r) /\ Goto(r, "conn") /\ got' = got
  BY <1>8 DEF Call, Goto, globals
<1>9. CASE NoNetwork(r) \/ Authorize(r) \/ (Call(r) /\ ~(Goto(r, "conn") /\ got' = got))
  BY <1>9, <1>a, RaiseIsAnswer DEF NoNetwork, Call, Authorize, Answer
<1> QED
  BY <1>1, <1>2, <1>3, <1>4, <1>5, <1>6, <1>7, <1>8, <1>9 DEF RequestStep

-----------------------------------------------------------------------------
(* The answers.                                                            *)

\* A failure to connect is answered only while no login succeeds, and the request
\* has seen that; a 502 is another matter.
LEMMA AnswerStep ==
  ASSUME TypeOK, WiringInv, NEW r \in Requests, RequestStep(r)
  PROVE  AnswerOK(r)'
<1>0. AnswerOK(r) /\ cloud' = cloud
  BY OthersStay DEF WiringInv
<1> USE <1>0 DEF TypeOK, AnswerOK
<1>a. /\ \A code : Answer(r, code, FALSE) =>
           pc'[r] = "done" /\ resp'[r].code = code
      /\ Answer(r, "200", TRUE) =>
           pc'[r] = "done" /\ resp'[r].code = "200" /\ resp'[r].ready
  BY DEF Answer
<1>b. ASSUME Raise(r, "OpenStackConnectionError") \/ Raise(r, "VMOperationError"),
             pc[r] \in {"conn", "call"}, cloud # "up", seen' = seen
      PROVE  AnswerOK(r)'
  <2>1. \E c \in seen'[r] : c # "up"
    BY <1>b
  <2> QED
    BY <1>a, <1>b, <2>1, RaiseIsAnswer
<1>d. ASSUME Raise(r, "VMOperationError"), r \notin Probes
      PROVE  AnswerOK(r)'
  <2>1. Answer(r, "502", FALSE)
    BY <1>d DEF Raise, StatusCode
  <2>2. pc'[r] = "done" /\ resp'[r].code = "502"
    BY <2>1 DEF Answer
  <2> QED
    BY <2>2
<1>c. ASSUME \/ \E code \in {"404", "409", "500"} : Answer(r, code, FALSE)
             \/ Answer(r, "200", FALSE) /\ r \notin Probes
             \/ Answer(r, "200", TRUE)
      PROVE  AnswerOK(r)'
  <2>1. CASE \E code \in {"404", "409", "500"} : Answer(r, code, FALSE)
    <3>1. pc'[r] = "done" /\ resp'[r].code \in {"404", "409", "500"}
      BY <2>1 DEF Answer
    <3> QED
      BY <3>1
  <2>2. CASE Answer(r, "200", FALSE) /\ r \notin Probes
    <3>1. pc'[r] = "done" /\ resp'[r].code = "200"
      BY <2>2 DEF Answer
    <3> QED
      BY <2>2, <3>1
  <2>3. CASE Answer(r, "200", TRUE)
    BY <1>a, <2>3
  <2> QED
    BY <1>c, <2>1, <2>2, <2>3
<1>1. CASE StoreCheck(r) \/ StoreReturn(r) \/ PoolAssign(r)
  BY <1>1, <1>c, RequestsAssumption
  DEF StoreCheck, StoreReturn, PoolAssign, Goto, openstack
<1>2. CASE StoreAssign(r) \/ PoolCheck(r)
  BY <1>2 DEF StoreAssign, PoolCheck, Goto
<1>3. CASE GetService(r)
  BY <1>3 DEF GetService, Goto
<1>4. CASE GetConn(r)
  BY <1>4, <1>b DEF GetConn, Goto
<1>5. CASE Call(r) \/ NoNetwork(r)
  <2>1. CASE Call(r) /\ Goto(r, "conn")
    BY <2>1 DEF Call, Goto
  <2> QED
    BY <1>5, <1>c, <1>d, <2>1 DEF Call, NoNetwork
<1>6. CASE Authorize(r)
  BY <1>6, <1>b, <1>c DEF Authorize
<1> QED
  BY <1>1, <1>2, <1>3, <1>4, <1>5, <1>6 DEF RequestStep

\* The inductive invariant.
THEOREM WiringInvHolds == Spec => []WiringInv
<1>1. Init => WiringInv
  BY DEF Init, WiringInv, GlobalsOK, LocalsOK, AnswerOK, NoAnswer
<1>2. TypeOK /\ TypeOK' /\ WiringInv /\ [Next]_vars => WiringInv'
  <2> SUFFICES ASSUME TypeOK, TypeOK', WiringInv, [Next]_vars PROVE WiringInv'
    OBVIOUS
  <2>1. ASSUME NEW r \in Requests, RequestStep(r) PROVE WiringInv'
    BY <2>1, GlobalsStep, LocalsStep, AnswerStep, OthersWiring DEF WiringInv
  <2>2. CASE CloudChanges
    <3>1. UNCHANGED <<pc, globals, got, conn, resp>>
      BY <2>2 DEF CloudChanges
    <3>2. GlobalsOK' /\ \A r \in Requests : LocalsOK(r)'
      BY <3>1 DEF WiringInv, GlobalsOK, LocalsOK, globals
    <3>3. ASSUME NEW r \in Requests PROVE AnswerOK(r)'
      <4>1. /\ pc[r] \in {"conn", "call"} => seen'[r] = seen[r] \cup {cloud'}
            /\ pc[r] \notin {"conn", "call"} => seen'[r] = seen[r]
        BY <2>2 DEF CloudChanges
      <4> QED
        BY <3>1, <4>1 DEF WiringInv, AnswerOK
    <3> QED
      BY <3>2, <3>3 DEF WiringInv
  <2>3. CASE TokenExpires \/ UNCHANGED vars
    BY <2>3 DEF TokenExpires, vars, globals, WiringInv, GlobalsOK, LocalsOK,
      AnswerOK
  <2> QED
    BY <2>1, <2>2, <2>3 DEF Next, RequestStep
<1> QED
  BY <1>1, <1>2, TypeCorrect, PTL DEF Spec

\* However many first requests race, there is one OpenStack connection, and
\* every call is made on it.
THEOREM Connections == Spec => []OneConnection
<1>1. WiringInv => OneConnection
  BY DEF WiringInv, GlobalsOK, LocalsOK, OneConnection
<1> QED
  BY <1>1, WiringInvHolds, PTL

\* No race leaves a request without a task store, or the service without a pool.
THEOREM Dependencies == Spec => []ReadyIsComplete
<1>1. WiringInv => ReadyIsComplete
  BY DEF WiringInv, GlobalsOK, LocalsOK, ReadyIsComplete
<1> QED
  BY <1>1, WiringInvHolds, PTL

\* A 503 and "not ready" are answered only to a request that was at work while a
\* login could not succeed, however often that changes and whoever fails.
THEOREM Unavailable == Spec => []UnavailableWasSo
<1>1. WiringInv => UnavailableWasSo
  BY DEF WiringInv, AnswerOK, UnavailableWasSo
<1> QED
  BY <1>1, WiringInvHolds, PTL
=============================================================================
