------------------------------- MODULE ApiGateway -------------------------------
(***************************************************************************)
(* The middleware in front of the REST routes (auth.rs, rbac.rs): a request*)
(* is identified, rate limited and authorized, in three steps that take a  *)
(* lock each; keys, roles and access lists change between them.            *)
(*                                                                         *)
(* A path is the area of the API it addresses and the entity it names.     *)
(* admitted and decisions are history variables.                           *)
(***************************************************************************)
EXTENDS Naturals, Sequences, SequencesExt, FiniteSets

CONSTANTS ApiCallers,    \* concurrent requests
          HttpRequests,  \* requests: [method, area, entity, credential]
          ApiKeys,       \* API keys (their SHA-256 hashes)
          RoleChanges,   \* role definitions set_role may install: [name, global, modality]
          AclEntries,    \* entries add_entity_acl may add: <<entity, client, permissions>>
          Window,        \* RateLimiter::window
          MaxAudit,      \* AuditLog::max_entries
          AuthConfigs,   \* configurations: [enabled, publicHealth, limit, jwt]
          MaxRequests, MaxApiTime, MaxPolicyChanges   \* bounds

(* With capacity zero the audit log could not drop its oldest entry.       *)
ASSUME GatewayAssumption ==
    /\ Window \in Nat /\ MaxAudit \in Nat \ {0}
    /\ \A a \in AuthConfigs : a.limit \in Nat

VARIABLES authConfig,    \* AuthConfig, fixed at start
          keys,          \* ApiKeyRegistry::keys: hash -> [role, active]
          windows,       \* RateLimiter::windows: client -> admission times
          policy,        \* RbacPolicy: [roles, acls]
          audit,         \* AuditLog::entries
          handling,      \* caller -> the request in the middleware
          apiNow, requestsSeen, policyChanges, admitted, decisions

gatewayVars == <<authConfig, keys, windows, policy, audit, handling, apiNow, requestsSeen,
                 policyChanges, admitted, decisions>>

NoRequest == [pc |-> "idle"]

Role(name, global) == [name |-> name, global |-> global, modality |-> [m \in {} |-> {}]]

DefaultRoles ==
    [reader |-> Role("reader", {"read", "execute"}),
     writer |-> Role("writer", {"read", "write", "execute"}),
     admin |-> Role("admin", {"read", "write", "execute", "admin"})]

GatewayInit ==
    /\ authConfig \in AuthConfigs
    /\ keys = [k \in {} |-> NoRequest] /\ windows = [c \in {} |-> <<>>]
    /\ policy = [roles |-> DefaultRoles, acls |-> {}]
    /\ audit = <<>> /\ handling = [c \in ApiCallers |-> NoRequest]
    /\ apiNow = 0 /\ requestsSeen = 0 /\ policyChanges = 0
    /\ admitted = [c \in {} |-> <<>>] /\ decisions = <<>>

-----------------------------------------------------------------------------
(* Permissions                                                             *)

RequiredPermission(method, area) ==
    IF <<area, method>> \in {<<"normalizer trigger", "POST">>, <<"planner config", "PUT">>} THEN "admin"
    ELSE IF method = "POST" /\ area \in {"query plan", "query explain", "similar queries", "search vector",
                                        "search text", "search related"} THEN "execute"
    ELSE IF method \in {"GET", "HEAD", "OPTIONS"} THEN "read" ELSE "write"

(* modality_from_path: {} when the path addresses no modality.             *)
ModalityFromPath(area) ==
    CASE area = "search vector" -> {"vector"} [] area = "search text" -> {"document"}
      [] area = "search related" -> {"graph"} [] area \in {"drift", "drift entity"} -> {"temporal"} [] OTHER -> {}

EntityFromPath(r) == IF r.area \in {"hexads", "drift entity", "normalizer trigger"} THEN {r.entity} \ {"none"} ELSE {}

AclGrants(r, id, perm) == \E a \in policy.acls : a[1] \in EntityFromPath(r) /\ a[2] = id /\ perm \in a[3]

HasModalityPermission(role, m, perm) ==
    perm \in role.global \/ (m \in DOMAIN role.modality /\ perm \in role.modality[m])

(* check_access: the access list, then the modality, where an entry of the *)
(* role without the permission denies, then the role's global permissions. *)
CheckAccess(r, id, roleName) ==
    LET perm == RequiredPermission(r.method, r.area)
    IN  \/ AclGrants(r, id, perm)
        \/ /\ roleName \in DOMAIN policy.roles
           /\ LET role == policy.roles[roleName]
              IN  \/ \E m \in ModalityFromPath(r.area) : HasModalityPermission(role, m, perm)
                  \/ /\ \A m \in ModalityFromPath(r.area) : m \notin DOMAIN role.modality
                     /\ perm \in role.global

-----------------------------------------------------------------------------
(* Identity                                                                *)

(* validate_jwt: a token without an expiry does not expire; a role claim   *)
(* other than "admin" and "writer" makes a reader.                         *)
JwtValid(t) == authConfig.jwt /\ t.wellFormed /\ t.signed /\ (t.expires => apiNow <= t.exp)

JwtRole(t) == IF t.role \in {"admin", "writer"} THEN t.role ELSE "reader"

(* extract_identity: a key that is not accepted hides a token.             *)
Identity(cred) ==
    IF cred.kind = "key" /\ cred.key \in DOMAIN keys /\ keys[cred.key].active
    THEN {[id |-> cred.key, role |-> keys[cred.key].role]}
    ELSE IF cred.kind = "jwt" /\ JwtValid(cred) THEN {[id |-> cred.sub, role |-> JwtRole(cred)]}
    ELSE {}

Bypasses(r) == ~authConfig.enabled \/ (authConfig.publicHealth /\ r.area = "health")

Arrive(c, r) ==
    /\ handling[c] = NoRequest
    /\ requestsSeen < MaxRequests
    /\ requestsSeen' = requestsSeen + 1
    /\ \/ Bypasses(r) /\ handling' = [handling EXCEPT ![c] = [pc |-> "run"]]
       \/ ~Bypasses(r) /\ Identity(r.credential) = {} /\ handling' = [handling EXCEPT ![c] = [pc |-> "401"]]
       \/ /\ ~Bypasses(r)
          /\ \E i \in Identity(r.credential) :
                handling' = [handling EXCEPT ![c] = [pc |-> "identified", request |-> r, id |-> i.id, role |-> i.role]]
    /\ UNCHANGED <<authConfig, keys, windows, policy, audit, apiNow, policyChanges, admitted, decisions>>

-----------------------------------------------------------------------------
(* Rate limit                                                              *)

TimesOf(f, id) == IF id \in DOMAIN f THEN f[id] ELSE <<>>

(* Vec::retain: the times less than a span ago.                            *)
Retained(ts, span) ==
    LET Kept[i \in 0 .. Len(ts)] ==
          IF i = 0 THEN <<>> ELSE IF apiNow - ts[i] < span THEN Append(Kept[i - 1], ts[i]) ELSE Kept[i - 1]
    IN  Kept[Len(ts)]

Recent_Late(ts) == Retained(ts, Window - 1)

Recent(ts) == Retained(ts, Window)

Room(id) == authConfig.limit = 0 \/ Len(Recent(TimesOf(windows, id))) < authConfig.limit

Put(f, id, v) == [x \in DOMAIN f \cup {id} |-> IF x = id THEN v ELSE f[x]]

(* The window after RateLimiter::check: a refused request is not counted.  *)
CountedWindow(id) ==
    IF authConfig.limit = 0 THEN windows
    ELSE Put(windows, id, IF Room(id) THEN Append(Recent(TimesOf(windows, id)), apiNow) ELSE Recent(TimesOf(windows, id)))

RateLimit(c) ==
    LET h == handling[c]
    IN  /\ h.pc = "identified"
        /\ windows' = CountedWindow(h.id)
        /\ admitted' = IF Room(h.id) THEN Put(admitted, h.id, Append(TimesOf(admitted, h.id), apiNow)) ELSE admitted
        /\ handling' = [handling EXCEPT ![c] = IF Room(h.id) THEN [h EXCEPT !.pc = "limited"] ELSE [pc |-> "429"]]
        /\ UNCHANGED <<authConfig, keys, policy, audit, apiNow, requestsSeen, policyChanges, decisions>>

-----------------------------------------------------------------------------
(* Authorization                                                           *)

(* AuditLog::record                                                        *)
AuditRecorded(log, e) == Append(IF Len(log) >= MaxAudit THEN Tail(log) ELSE log, e)

Authorize(c) ==
    LET h == handling[c]
        ok == CheckAccess(h.request, h.id, h.role)
        entry == [client |-> h.id, role |-> h.role, area |-> h.request.area, allowed |-> ok]
    IN  /\ h.pc = "limited"
        /\ audit' = AuditRecorded(audit, entry)
        /\ decisions' = Append(decisions, entry)
        /\ handling' = [handling EXCEPT ![c] = [pc |-> IF ok THEN "run" ELSE "403"]]
        /\ UNCHANGED <<authConfig, keys, windows, policy, apiNow, requestsSeen, policyChanges, admitted>>

(* The response leaves; what the handler did is modelled elsewhere.        *)
Respond(c) ==
    /\ handling[c].pc \in {"run", "401", "403", "429"}
    /\ handling' = [handling EXCEPT ![c] = NoRequest]
    /\ UNCHANGED <<authConfig, keys, windows, policy, audit, apiNow, requestsSeen, policyChanges, admitted, decisions>>

-----------------------------------------------------------------------------
(* Administration                                                          *)

PolicyChange == policyChanges < MaxPolicyChanges /\ policyChanges' = policyChanges + 1

RegisterApiKey(k, role) ==
    /\ PolicyChange
    /\ keys' = Put(keys, k, [role |-> role, active |-> TRUE])
    /\ UNCHANGED <<authConfig, windows, policy, audit, handling, apiNow, requestsSeen, admitted, decisions>>

RevokeApiKey(k) ==
    /\ PolicyChange
    /\ k \in DOMAIN keys
    /\ keys' = [keys EXCEPT ![k].active = FALSE]
    /\ UNCHANGED <<authConfig, windows, policy, audit, handling, apiNow, requestsSeen, admitted, decisions>>

SetRole(role) ==
    /\ PolicyChange
    /\ policy' = [policy EXCEPT !.roles = Put(@, role.name, role)]
    /\ UNCHANGED <<authConfig, keys, windows, audit, handling, apiNow, requestsSeen, admitted, decisions>>

AddEntityAcl(a) ==
    /\ PolicyChange
    /\ policy' = [policy EXCEPT !.acls = @ \cup {a}]
    /\ UNCHANGED <<authConfig, keys, windows, audit, handling, apiNow, requestsSeen, admitted, decisions>>

ApiTick ==
    /\ apiNow < MaxApiTime
    /\ apiNow' = apiNow + 1
    /\ UNCHANGED <<authConfig, keys, windows, policy, audit, handling, requestsSeen, policyChanges, admitted, decisions>>

GatewayNext ==
    \/ \E c \in ApiCallers, r \in HttpRequests : Arrive(c, r)
    \/ \E c \in ApiCallers : RateLimit(c) \/ Authorize(c) \/ Respond(c)
    \/ \E k \in ApiKeys : RevokeApiKey(k) \/ \E role \in {"reader", "writer"} : RegisterApiKey(k, role)
    \/ \E r \in RoleChanges : SetRole(r)
    \/ \E a \in AclEntries : AddEntityAcl(a)
    \/ ApiTick

-----------------------------------------------------------------------------

(* No client gets more than the limit through in any span of one window,   *)
(* however its requests interleave and whatever was refused in between.    *)
RateRespected ==
    authConfig.limit > 0 =>
        \A c \in DOMAIN admitted : \A i \in DOMAIN admitted[c] :
            i + authConfig.limit \in DOMAIN admitted[c] =>
                admitted[c][i + authConfig.limit] - admitted[c][i] >= Window

(* A client whose requests were all refused for a whole window is served   *)
(* again: refusals do not renew themselves.                                *)
QuietClientServed ==
    \A c \in DOMAIN admitted :
        (\A i \in DOMAIN admitted[c] : apiNow - admitted[c][i] >= Window) => Room(c)

(* The audit log holds the latest decisions, all of them up to its         *)
(* capacity, in the order they were taken.                                 *)
AuditIsNewest ==
    audit = SubSeq(decisions, (IF Len(decisions) > MaxAudit THEN Len(decisions) - MaxAudit ELSE 0) + 1, Len(decisions))

(* A role with an entry for the modality is held to that entry, whatever   *)
(* its global permissions are.  Not so: has_modality_permission accepts    *)
(* the global ones before it looks at the entry.                           *)
ModalityRestricts ==
    \A r \in HttpRequests, id \in ApiKeys, roleName \in DOMAIN policy.roles :
        LET perm == RequiredPermission(r.method, r.area)
            role == policy.roles[roleName]
        IN  CheckAccess(r, id, roleName) /\ ~AclGrants(r, id, perm) =>
                \A m \in ModalityFromPath(r.area) \cap DOMAIN role.modality : perm \in role.modality[m]
=============================================================================
