----------------------------- MODULE OidcProofs -----------------------------
(***************************************************************************)
(* Every answer that oidc.py gives was right at one instant of its request, *)
(* for any number of requests and tokens.                                  *)
(***************************************************************************)
EXTENDS Oidc, TLAPS

\* Keycloak is asked about tokens only.
TypeInv == TypeOK /\ \A r \in Requests : pc[r] = "introspect" => UsesToken(r)

\* The history of a request under way contains what its token is now.
Watched(r) ==
  bearer[r] # None /\ pc[r] \notin {"new", "done"} =>
    Instant(token[bearer[r]], access[r]) \subseteq seen[r]

\* The principal is what get_current_user made it, and its roles were those of
\* an active token when Keycloak answered.
Principal(r) ==
  pc[r] = "require" =>
    \/ /\ caller[r].method = "apikey" /\ ~UsesToken(r) /\ HasKey(r)
    \/ /\ caller[r].method = "oidc" /\ UsesToken(r)
       /\ IF caller[r].roles \cap Allowed(access[r]) # {}
          THEN "permitted" \in seen[r] ELSE "lacking" \in seen[r]

\* What an answer says.
Justified(r) ==
  /\ resp[r] = "served" => IF UsesToken(r) THEN "permitted" \in seen[r]
                           ELSE HasKey(r)
  /\ resp[r] = "401" => IF UsesToken(r) THEN "inactive" \in seen[r]
                        ELSE ~HasKey(r)
  /\ resp[r] = "403" => UsesToken(r) /\ "lacking" \in seen[r]
  /\ resp[r] = "503" => UsesToken(r)

CallerInv ==
  \A r \in Requests :
    /\ pc[r] # "done" => resp[r] = "none"
    /\ Watched(r) /\ Principal(r) /\ Justified(r)

-----------------------------------------------------------------------------
\* The types, for a start.
THEOREM TypeInvHolds == Spec => []TypeInv
<1>1. Init => TypeInv
  <2> SUFFICES ASSUME Init PROVE TypeOK
    BY DEF Init, TypeInv
  <2>1. token \in [Tokens -> TokenStates]
    <3>1. [active : {TRUE}, roles : SUBSET Roles] \subseteq TokenStates
      BY DEF TokenStates
    <3> QED
      BY <3>1 DEF Init
  <2>2. NoCaller \in [method : {"none", "oidc", "apikey"}, roles : SUBSET Roles]
    BY DEF NoCaller
  <2> QED
    BY <2>1, <2>2 DEF Init, TypeOK, Keys
<1>2. TypeInv /\ [Next]_vars => TypeInv'
  <2> SUFFICES ASSUME TypeInv, [Next]_vars PROVE TypeInv'
    OBVIOUS
  <2> USE DEF TypeInv, TypeOK, UsesToken
  <2>0. \A s, a : Instant(s, a) \subseteq {"permitted", "inactive", "lacking"}
    BY DEF Instant
  <2>1. ASSUME NEW r \in Requests, Send(r) PROVE TypeInv'
    <3>1. PICK a \in {"read", "write"}, b \in Tokens \cup {None}, k \in Keys :
            /\ access' = [access EXCEPT ![r] = a]
            /\ bearer' = [bearer EXCEPT ![r] = b]
            /\ key' = [key EXCEPT ![r] = k]
            /\ seen' = [seen EXCEPT ![r] =
                          IF b = None THEN {} ELSE Instant(token[b], a)]
      BY <2>1 DEF Send
    <3>2. seen' \in [Requests -> SUBSET {"permitted", "inactive", "lacking"}]
      BY <2>0, <3>1
    <3> QED
      BY <2>1, <3>1, <3>2 DEF Send, Goto
  <2>2. ASSUME NEW r \in Requests, GetCurrentUser(r) PROVE TypeInv'
    <3>1. [method |-> "apikey", roles |-> Roles]
            \in [method : {"none", "oidc", "apikey"}, roles : SUBSET Roles]
      OBVIOUS
    <3>2. caller' \in [Requests -> [method : {"none", "oidc", "apikey"},
                                    roles : SUBSET Roles]]
      BY <2>2, <3>1 DEF GetCurrentUser
    <3> QED
      BY <2>2, <3>2 DEF GetCurrentUser, Goto, Answer, sent
  <2>3. ASSUME NEW r \in Requests, Introspect(r) PROVE TypeInv'
    <3>1. ExtractRoles(token[bearer[r]]) \subseteq Roles
      BY <2>3 DEF Introspect, ExtractRoles, TokenStates
    <3>2. [method |-> "oidc", roles |-> ExtractRoles(token[bearer[r]])]
            \in [method : {"none", "oidc", "apikey"}, roles : SUBSET Roles]
      BY <3>1
    <3>3. caller' \in [Requests -> [method : {"none", "oidc", "apikey"},
                                    roles : SUBSET Roles]]
      BY <2>3, <3>2 DEF Introspect
    <3> QED
      BY <2>3, <3>3 DEF Introspect, Goto, Answer, sent
  <2>4. ASSUME NEW r \in Requests, Require(r) PROVE TypeInv'
    BY <2>4 DEF Require, Answer, sent
  <2>5. ASSUME NEW t \in Tokens, KeycloakStep(t) PROVE TypeInv'
    <3>1. token' \in [Tokens -> TokenStates]
      <4>1. CASE token' = [token EXCEPT ![t].active = FALSE]
        <5>1. PICK b \in BOOLEAN : token' = [token EXCEPT ![t].active = b]
          BY <4>1
        <5> QED
          BY <5>1 DEF TokenStates
      <4>2. ASSUME NEW R \in SUBSET Roles, token' = [token EXCEPT ![t].roles = R]
            PROVE  token' \in [Tokens -> TokenStates]
        BY <4>2 DEF TokenStates
      <4> QED
        BY <2>5, <4>1, <4>2 DEF KeycloakStep
    <3>2. seen' \in [Requests -> SUBSET {"permitted", "inactive", "lacking"}]
      BY <2>0, <2>5 DEF KeycloakStep
    <3> QED
      BY <2>5, <3>1, <3>2 DEF KeycloakStep, sent
  <2>6. CASE UNCHANGED vars
    BY <2>6 DEF vars
  <2> QED
    BY <2>1, <2>2, <2>3, <2>4, <2>5, <2>6 DEF Next
<1> QED
  BY <1>1, <1>2, PTL DEF Spec

\* Types are kept.
THEOREM TypeCorrect == Spec => []TypeOK
<1>1. TypeInv => TypeOK
  BY DEF TypeInv
<1> QED
  BY <1>1, TypeInvHolds, PTL

-----------------------------------------------------------------------------
(* The answers.                                                            *)

\* A step of one request leaves the others as they are.
LEMMA OthersCaller ==
  ASSUME TypeInv, CallerInv, NEW r \in Requests,
         Send(r) \/ GetCurrentUser(r) \/ Introspect(r) \/ Require(r),
         NEW q \in Requests, q # r
  PROVE  /\ pc'[q] # "done" => resp'[q] = "none"
         /\ Watched(q)' /\ Principal(q)' /\ Justified(q)'
<1>1. /\ pc'[q] = pc[q] /\ resp'[q] = resp[q] /\ access'[q] = access[q]
      /\ bearer'[q] = bearer[q] /\ key'[q] = key[q] /\ caller'[q] = caller[q]
      /\ seen'[q] = seen[q] /\ token' = token /\ settings' = settings
  BY DEF TypeInv, TypeOK, Send, GetCurrentUser, Introspect, Require, Goto, Answer,
    sent
<1> QED
  BY <1>1 DEF CallerInv, Watched, Principal, Justified, UsesToken, HasKey

\* What an instant of a token says of its claims.
LEMMA InstantFacts ==
  ASSUME NEW s, NEW a
  PROVE  /\ ~s.active => "inactive" \in Instant(s, a)
         /\ s.roles \cap Allowed(a) = {} => "lacking" \in Instant(s, a)
         /\ s.active /\ s.roles \cap Allowed(a) # {} => "permitted" \in Instant(s, a)
BY DEF Instant

\* The inductive invariant: the claims a request is judged by are those of an
\* instant of the request, whatever Keycloak does to the token meanwhile.
THEOREM CallerInvHolds == Spec => []CallerInv
<1>1. Init => CallerInv
  BY DEF Init, CallerInv, Watched, Principal, Justified
<1>2. TypeInv /\ TypeInv' /\ CallerInv /\ [Next]_vars => CallerInv'
  <2> SUFFICES ASSUME TypeInv, TypeInv', CallerInv, [Next]_vars PROVE CallerInv'
    OBVIOUS
  <2>t. /\ pc \in [Requests -> {"new", "user", "introspect", "require", "done"}]
        /\ resp \in [Requests -> {"none", "served", "401", "403", "503"}]
        /\ caller \in [Requests -> [method : {"none", "oidc", "apikey"},
                                    roles : SUBSET Roles]]
        /\ access \in [Requests -> {"read", "write"}]
        /\ bearer \in [Requests -> Tokens \cup {None}]
        /\ seen \in [Requests -> SUBSET {"permitted", "inactive", "lacking"}]
    BY DEF TypeInv, TypeOK
  <2>1. ASSUME NEW r \in Requests, Send(r) PROVE CallerInv'
    <3>1. pc'[r] = "user" /\ resp'[r] = "none" /\ token' = token
      BY <2>1, <2>t DEF Send, Goto, CallerInv
    <3>2. Watched(r)'
      BY <2>1, <2>t, <3>1 DEF Send, Watched
    <3>3. Principal(r)' /\ Justified(r)'
      BY <3>1 DEF Principal, Justified
    <3> QED
      BY <2>1, <3>1, <3>2, <3>3, OthersCaller DEF CallerInv
  <2>2. ASSUME NEW r \in Requests, GetCurrentUser(r) PROVE CallerInv'
    <3>1. /\ UNCHANGED <<token, settings, access, bearer, key, seen>>
          /\ pc[r] = "user" /\ resp[r] = "none"
          /\ Watched(r)
      BY <2>2 DEF GetCurrentUser, sent, CallerInv
    <3>2. Watched(r)'
      BY <3>1 DEF Watched
    <3>3. CASE UsesToken(r)
      BY <2>2, <2>t, <3>1, <3>2, <3>3, OthersCaller
      DEF GetCurrentUser, Goto, CallerInv, Principal, Justified
    <3>4. CASE ~UsesToken(r) /\ HasKey(r)
      <4>1. /\ caller'[r].method = "apikey" /\ pc'[r] = "require" /\ resp'[r] = "none"
        BY <2>2, <2>t, <3>1, <3>4 DEF GetCurrentUser, Goto
      <4>2. ~UsesToken(r)' /\ HasKey(r)'
        BY <3>1, <3>4 DEF UsesToken, HasKey
      <4> QED
        BY <2>2, <3>2, <4>1, <4>2, OthersCaller
        DEF CallerInv, Principal, Justified
    <3>5. CASE ~UsesToken(r) /\ ~HasKey(r)
      <4>1. pc'[r] = "done" /\ resp'[r] = "401"
        BY <2>2, <2>t, <3>5 DEF GetCurrentUser, Answer
      <4>2. ~UsesToken(r)' /\ ~HasKey(r)'
        BY <3>1, <3>5 DEF UsesToken, HasKey
      <4> QED
        BY <2>2, <3>2, <4>1, <4>2, OthersCaller
        DEF CallerInv, Principal, Justified
    <3> QED
      BY <3>3, <3>4, <3>5
  <2>3. ASSUME NEW r \in Requests, Introspect(r) PROVE CallerInv'
    <3>1. /\ UNCHANGED <<token, settings, access, bearer, key, seen>>
          /\ pc[r] = "introspect" /\ resp[r] = "none" /\ UsesToken(r)
          /\ Watched(r)
      BY <2>3 DEF Introspect, sent, CallerInv, TypeInv
    <3>2. Watched(r)' /\ UsesToken(r)'
      BY <3>1 DEF Watched, UsesToken
    <3>3. Instant(token[bearer[r]], access[r]) \subseteq seen[r]
      BY <3>1 DEF Watched, UsesToken
    <3>4. CASE token[bearer[r]].active /\ pc'[r] = "require"
      <4>1. /\ caller'[r].method = "oidc" /\ resp'[r] = "none"
            /\ caller'[r].roles = token[bearer[r]].roles
        BY <2>3, <2>t, <3>1, <3>4 DEF Introspect, Goto, Answer, ExtractRoles
      <4>2. IF caller'[r].roles \cap Allowed(access[r]) # {}
            THEN "permitted" \in seen[r] ELSE "lacking" \in seen[r]
        BY <3>3, <3>4, <4>1, InstantFacts
      <4> QED
        BY <2>3, <3>1, <3>2, <3>4, <4>1, <4>2, OthersCaller
        DEF CallerInv, Principal, Justified
    <3>5. CASE pc'[r] = "done"
      <4>1. \/ resp'[r] = "401" /\ "inactive" \in seen[r]
            \/ resp'[r] = "503"
        BY <2>3, <2>t, <3>3, <3>5, InstantFacts DEF Introspect, Goto, Answer
      <4> QED
        BY <2>3, <3>1, <3>2, <3>5, <4>1, OthersCaller
        DEF CallerInv, Principal, Justified
    <3> QED
      BY <2>3, <2>t, <3>4, <3>5 DEF Introspect, Goto, Answer
  <2>4. ASSUME NEW r \in Requests, Require(r) PROVE CallerInv'
    <3>1. /\ UNCHANGED <<token, settings, access, bearer, key, seen, caller>>
          /\ pc[r] = "require" /\ pc'[r] = "done" /\ Principal(r)
      BY <2>4, <2>t DEF Require, Answer, sent, CallerInv
    <3>2. (UsesToken(r)' <=> UsesToken(r)) /\ (HasKey(r)' <=> HasKey(r))
      BY <3>1 DEF UsesToken, HasKey
    <3>3. \/ resp'[r] = "served" /\ (caller[r].method = "apikey"
                                     \/ caller[r].roles \cap Allowed(access[r]) # {})
          \/ /\ resp'[r] = "403" /\ caller[r].method # "apikey"
             /\ caller[r].roles \cap Allowed(access[r]) = {}
      BY <2>4, <2>t DEF Require, Answer
    <3>4. Justified(r)'
      BY <3>1, <3>2, <3>3 DEF Principal, Justified
    <3> QED
      BY <2>4, <3>1, <3>4, OthersCaller DEF CallerInv, Watched, Principal
  <2>5. ASSUME NEW t \in Tokens, KeycloakStep(t) PROVE CallerInv'
    <3> SUFFICES ASSUME NEW r \in Requests
                 PROVE  /\ pc'[r] # "done" => resp'[r] = "none"
                        /\ Watched(r)' /\ Principal(r)' /\ Justified(r)'
      BY DEF CallerInv
    <3>1. /\ UNCHANGED <<settings, access, bearer, key, pc, caller, resp>>
          /\ seen[r] \subseteq seen'[r]
      BY <2>5, <2>t DEF KeycloakStep, sent
    <3>2. /\ UsesToken(r)' <=> UsesToken(r)
          /\ HasKey(r)' <=> HasKey(r)
      BY <3>1 DEF UsesToken, HasKey
    <3>3. Watched(r)'
      <4>1. CASE bearer[r] = t
        BY <2>5, <2>t, <3>1, <4>1 DEF KeycloakStep, Watched
      <4>2. CASE bearer[r] # t
        <5>1. bearer[r] # None => token'[bearer[r]] = token[bearer[r]]
          BY <2>5, <2>t, <4>2 DEF KeycloakStep, TypeInv, TypeOK
        <5> QED
          BY <3>1, <5>1 DEF CallerInv, Watched
      <4> QED
        BY <4>1, <4>2
    <3>4. Principal(r)' /\ Justified(r)'
      BY <3>1, <3>2 DEF CallerInv, Principal, Justified
    <3> QED
      BY <3>1, <3>3, <3>4 DEF CallerInv
  <2>6. CASE UNCHANGED vars
    BY <2>6 DEF vars, CallerInv, Watched, Principal, Justified, UsesToken, HasKey
  <2> QED
    BY <2>1, <2>2, <2>3, <2>4, <2>5, <2>6 DEF Next
<1> QED
  BY <1>1, <1>2, TypeInvHolds, PTL DEF Spec

\* A request is served only if it was authorised at an instant after it was
\* sent, however revocations and role changes fall between its steps.
THEOREM Served == Spec => []ServedWasAuthorised
<1>1. CallerInv => ServedWasAuthorised
  BY DEF CallerInv, Justified, ServedWasAuthorised
<1> QED
  BY <1>1, CallerInvHolds, PTL

\* And a request is turned away only for a reason that held at such an instant.
THEOREM TurnedAway == Spec => []RefusalWasJustified
<1>1. CallerInv => RefusalWasJustified
  BY DEF CallerInv, Justified, RefusalWasJustified
<1> QED
  BY <1>1, CallerInvHolds, PTL
=============================================================================
