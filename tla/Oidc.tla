-------------------------------- MODULE Oidc --------------------------------
(***************************************************************************)
(* Authentication and authorisation of API requests (oidc.py): Keycloak    *)
(* token introspection with an API key fallback, then the role check of    *)
(* the endpoint.  Keycloak is another process: tokens are revoked and      *)
(* roles withdrawn while requests are under way.                           *)
(***************************************************************************)
CONSTANTS Requests, Tokens, None

ASSUME NoneAssumption == None \notin Tokens

Roles == {"vm-reader", "vm-operator"}
TokenStates == [active : BOOLEAN, roles : SUBSET Roles]
Keys == {"missing", "wrong", "right"}
NoCaller == [method |-> "none", roles |-> {}]

VARIABLES settings, \* whether KEYCLOAK_URL and API_KEY are configured
          token,    \* token[t]: what Keycloak knows of token t
          access,   \* access[r]: "read" or "write", the dependency of r's endpoint
          bearer,   \* bearer[r]: the token in r's Authorization header
          key,      \* key[r]: the X-API-Key header
          pc,       \* pc[r]: the next step
          caller,   \* caller[r]: the Principal
          resp,     \* resp[r]: the status answered
          seen      \* seen[r]: what its token has been since r was sent (history)

sent == <<settings, access, bearer, key>>
vars == <<settings, token, access, bearer, key, pc, caller, resp, seen>>

TypeOK ==
  /\ settings \in [keycloak_url : BOOLEAN, api_key : BOOLEAN]
  /\ token \in [Tokens -> TokenStates]
  /\ access \in [Requests -> {"read", "write"}]
  /\ bearer \in [Requests -> Tokens \cup {None}]
  /\ key \in [Requests -> Keys]
  /\ pc \in [Requests -> {"new", "user", "introspect", "require", "done"}]
  /\ caller \in [Requests -> [method : {"none", "oidc", "apikey"}, roles : SUBSET Roles]]
  /\ resp \in [Requests -> {"none", "served", "401", "403", "503"}]
  /\ seen \in [Requests -> SUBSET {"permitted", "inactive", "lacking"}]

Init ==
  /\ settings \in [keycloak_url : BOOLEAN, api_key : BOOLEAN]
  /\ token \in [Tokens -> [active : {TRUE}, roles : SUBSET Roles]]
  /\ access = [r \in Requests |-> "read"]
  /\ bearer = [r \in Requests |-> None]
  /\ key = [r \in Requests |-> "missing"]
  /\ pc = [r \in Requests |-> "new"]
  /\ caller = [r \in Requests |-> NoCaller]
  /\ resp = [r \in Requests |-> "none"]
  /\ seen = [r \in Requests |-> {}]

-----------------------------------------------------------------------------
\* The roles require_read and require_write accept.
Allowed(a) == IF a = "read" THEN Roles ELSE {"vm-operator"}

\* What an instant of a token is to an endpoint.
Instant(s, a) ==
  (IF s.active THEN {} ELSE {"inactive"}) \cup
  (IF s.roles \cap Allowed(a) # {} THEN {} ELSE {"lacking"}) \cup
  (IF s.active /\ s.roles \cap Allowed(a) # {} THEN {"permitted"} ELSE {})

Goto(r, step) == pc' = [pc EXCEPT ![r] = step] /\ UNCHANGED resp

Answer(r, code) ==
  /\ pc' = [pc EXCEPT ![r] = "done"]
  /\ resp' = [resp EXCEPT ![r] = code]

Send(r) ==
  /\ pc[r] = "new"
  /\ \E a \in {"read", "write"}, b \in Tokens \cup {None}, k \in Keys :
       /\ access' = [access EXCEPT ![r] = a]
       /\ bearer' = [bearer EXCEPT ![r] = b]
       /\ key' = [key EXCEPT ![r] = k]
       /\ seen' = [seen EXCEPT ![r] = IF b = None THEN {} ELSE Instant(token[b], a)]
  /\ Goto(r, "user")
  /\ UNCHANGED <<settings, token, caller>>

UsesToken(r) == settings.keycloak_url /\ bearer[r] # None

HasKey(r) == settings.api_key /\ key[r] = "right"

\* get_current_user: the token first, if Keycloak is configured, and then the
\* API key is not looked at; an API key caller has both roles.
GetCurrentUser(r) ==
  /\ pc[r] = "user"
  /\ \/ /\ UsesToken(r)
        /\ Goto(r, "introspect")
        /\ UNCHANGED caller
     \/ /\ ~UsesToken(r) /\ HasKey(r)
        /\ caller' = [caller EXCEPT ![r] = [method |-> "apikey", roles |-> Roles]]
        /\ Goto(r, "require")
     \/ /\ ~UsesToken(r) /\ ~HasKey(r)
        /\ Answer(r, "401")
        /\ UNCHANGED caller
  /\ UNCHANGED <<token, sent, seen>>

\* Broken variant: the keys of realm_access are taken, not its roles.
ExtractRoles_Keys(t) == {"roles"}

\* _extract_roles
ExtractRoles(t) == t.roles

\* Broken variant: the claims another request got for the token are reused.
Introspect_Cached(r) ==
  /\ pc[r] = "introspect"
  /\ IF \E q \in Requests : bearer[q] = bearer[r] /\ caller[q].method = "oidc"
     THEN /\ caller' = [caller EXCEPT ![r] =
               caller[CHOOSE q \in Requests : /\ bearer[q] = bearer[r]
                                              /\ caller[q].method = "oidc"]]
          /\ Goto(r, "require")
     ELSE IF token[bearer[r]].active
     THEN /\ caller' = [caller EXCEPT ![r] =
                          [method |-> "oidc", roles |-> ExtractRoles(token[bearer[r]])]]
          /\ Goto(r, "require")
     ELSE Answer(r, "401") /\ UNCHANGED caller
  /\ UNCHANGED <<token, sent, seen>>

\* Broken variant: a Keycloak that cannot be reached says the token is inactive.
Introspect_OutageIsInactive(r) ==
  /\ pc[r] = "introspect"
  /\ Answer(r, "401")
  /\ UNCHANGED <<token, sent, caller, seen>>

\* _introspect and the rest of get_current_user: the claims are
\* those of the moment Keycloak answers.
Introspect(r) ==
  /\ pc[r] = "introspect"
  /\ LET t == token[bearer[r]] IN
     \/ /\ t.active
        /\ caller' = [caller EXCEPT ![r] =
                        [method |-> "oidc", roles |-> ExtractRoles(t)]]
        /\ Goto(r, "require")
     \/ /\ ~t.active
        /\ Answer(r, "401")
        /\ UNCHANGED caller
     \/ /\ Answer(r, "503")
        /\ UNCHANGED caller
  /\ UNCHANGED <<token, sent, seen>>

\* require_read, require_write, and on to the endpoint
Require(r) ==
  /\ pc[r] = "require"
  /\ LET ok == \/ caller[r].method = "apikey"
               \/ caller[r].roles \cap Allowed(access[r]) # {} IN
     (ok /\ Answer(r, "served")) \/ (~ok /\ Answer(r, "403"))
  /\ UNCHANGED <<token, sent, caller, seen>>

\* Keycloak: a token is revoked or expires, or its owner's roles change.
KeycloakStep(t) ==
  /\ \/ token[t].active /\ token' = [token EXCEPT ![t].active = FALSE]
     \/ \E R \in SUBSET Roles \ {token[t].roles} :
          token' = [token EXCEPT ![t].roles = R]
  /\ seen' = [r \in Requests |->
       IF bearer[r] = t /\ pc[r] # "done"
       THEN seen[r] \cup Instant(token'[t], access[r]) ELSE seen[r]]
  /\ UNCHANGED <<sent, pc, caller, resp>>

Next ==
  \/ \E r \in Requests : Send(r) \/ GetCurrentUser(r) \/ Introspect(r) \/ Require(r)
  \/ \E t \in Tokens : KeycloakStep(t)

Spec == Init /\ [][Next]_vars

-----------------------------------------------------------------------------
(* Properties.                                                             *)

\* A request is served only if its token was active, and had a role for the
\* endpoint, at one instant while the request was under way: a token revoked or
\* a role withdrawn before a request is sent is of no use to it ("tokens revoked
\* instantly").  Without a token it takes the configured API key.
ServedWasAuthorised ==
  \A r \in Requests : resp[r] = "served" =>
    IF UsesToken(r) THEN "permitted" \in seen[r]
    ELSE HasKey(r)

\* A caller is turned away for a reason that held at one instant of its request:
\* an outage of Keycloak is not blamed on the token, and a right key never fails
\* for a role.
RefusalWasJustified ==
  \A r \in Requests :
    /\ resp[r] = "401" => IF UsesToken(r) THEN "inactive" \in seen[r]
                          ELSE ~HasKey(r)
    /\ resp[r] = "403" => UsesToken(r) /\ "lacking" \in seen[r]
    /\ resp[r] = "503" => UsesToken(r)
=============================================================================
