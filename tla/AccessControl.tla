---------------------------- MODULE AccessControl ----------------------------
(***************************************************************************)
(* Roles, their assignment and the permission check of every request       *)
(* (internal/middleware/rbac.go, internal/domain/identity/service.go).     *)
(* The merged permissions of a user are cached in Redis for a TTL; nothing *)
(* invalidates them, and a reader stores what it read some time before.    *)
(***************************************************************************)
EXTENDS Naturals, FiniteSets

CONSTANTS
    Members, Roles, SystemRoles, Absent,
    Grants,                     \* what a role's permissions may be: sets of <<resource, action>>
    resourceMap, publicPaths,   \* the RBAC configuration
    Paths, Methods,
    Calls, Assigners,
    permsCacheTTL, MaxDuration, \* in minutes; the longest a request may last
    LastMinute, MaxRoleEdits, MaxOutages

ASSUME AccessControlAssumption ==
    /\ SystemRoles \subseteq Roles
    /\ permsCacheTTL \in Nat \ {0} /\ MaxDuration \in Nat

VARIABLES
    role,           \* roles: each one's permissions, or Absent
    userRoles,      \* user_roles
    active,         \* users with no deleted_at
    permsCache,     \* perms:<user>
    call, assigning,
    past,           \* what each user's roles granted, and until when
    minute, roleEdits, outages

accessVars == <<role, userRoles, active, permsCache, call, assigning, past, minute, roleEdits, outages>>

NotCached == [exp |-> 0]
NoCall == [at |-> "none"]

RoleExists(r) == role[r] # Absent
ListUserRoles(u) == {r \in Roles : <<u, r>> \in userRoles}
mergePermissions(roles) == UNION {role[r] : r \in roles}

\* What the roles of u grant now.
Granted(u) == mergePermissions(ListUserRoles(u))

methodToAction(method) ==
    CASE method = "GET" -> "read"
      [] method \in {"POST", "PUT", "PATCH"} -> "write"
      [] method = "DELETE" -> "delete"
      [] OTHER -> "read"

isSuperAdmin(perms) == <<"*", "*">> \in perms
checkPermission(perms, resource, action) ==
    \/ isSuperAdmin(perms)
    \/ <<resource, action>> \in perms
    \/ action = "read" /\ <<resource, "write">> \in perms

AccessInit ==
    /\ role \in [Roles -> Grants \cup {Absent}]
    /\ \A r \in SystemRoles : RoleExists(r)
    /\ userRoles = {} /\ active = Members
    /\ permsCache = [u \in Members |-> NotCached]
    /\ call = [q \in Calls |-> NoCall]
    /\ assigning = [q \in Assigners |-> NoCall]
    /\ past = {}
    /\ minute = 1 /\ roleEdits = 0 /\ outages = 0

-----------------------------------------------------------------------------
\* Every write of a role or of an assignment may change what a user is granted.
Edit ==
    /\ roleEdits < MaxRoleEdits /\ roleEdits' = roleEdits + 1
    /\ past' = past \cup {[user |-> u, perms |-> Granted(u), until |-> minute] :
                             u \in {v \in Members : Granted(v)' # Granted(v)}}
    /\ UNCHANGED <<permsCache, call, minute, outages>>

CreateRole(r, perms) ==
    /\ ~RoleExists(r)
    /\ role' = [role EXCEPT ![r] = perms]
    /\ UNCHANGED <<userRoles, active, assigning>>
    /\ Edit

UpdateRole(r, perms) ==
    /\ RoleExists(r) /\ r \notin SystemRoles
    /\ role' = [role EXCEPT ![r] = perms]
    /\ UNCHANGED <<userRoles, active, assigning>>
    /\ Edit

\* The assignments go with the role.
DeleteRole(r) ==
    /\ RoleExists(r) /\ r \notin SystemRoles
    /\ role' = [role EXCEPT ![r] = Absent]
    /\ userRoles' = {x \in userRoles : x[2] # r}
    /\ UNCHANGED <<active, assigning>>
    /\ Edit

\* AssignRole looks at the user and at the role,
GetUserAndRole(q, u, r) ==
    /\ assigning[q] = NoCall /\ u \in active /\ RoleExists(r)
    /\ assigning' = [assigning EXCEPT ![q] = [at |-> "checked", user |-> u, role |-> r]]
    /\ UNCHANGED <<role, userRoles, active, permsCache, call, past, minute, roleEdits, outages>>

\* then inserts, which fails when the role is gone and does nothing when it is there.
AssignRole(q) ==
    LET x == <<assigning[q].user, assigning[q].role>> IN
    /\ assigning[q].at = "checked"
    /\ assigning' = [assigning EXCEPT ![q] = NoCall]
    /\ userRoles' = IF RoleExists(x[2]) THEN userRoles \cup {x} ELSE userRoles
    /\ UNCHANGED <<role, active>>
    /\ Edit

RemoveRole(u, r) ==
    /\ u \in active /\ <<u, r>> \in userRoles
    /\ userRoles' = userRoles \ {<<u, r>>}
    /\ UNCHANGED <<role, active, assigning>>
    /\ Edit

\* The roles of a deactivated user stay.
DeactivateUser(u) ==
    /\ u \in active
    /\ active' = active \ {u}
    /\ UNCHANGED <<role, userRoles, assigning>>
    /\ Edit

-----------------------------------------------------------------------------
Holds(q, at) == call[q].at = at
RequestOnly == UNCHANGED <<role, userRoles, active, assigning, past, minute, roleEdits>>
Fine == UNCHANGED outages
Outage == outages < MaxOutages /\ outages' = outages + 1

\* What the roles of u granted at any time of the last minutes.
Lately(u, minutes) ==
    {Granted(u)} \cup {x.perms : x \in {y \in past : y.user = u /\ y.until + minutes > minute}}

Decide(q, perms) ==
    LET x == call[q] IN
    call' = [call EXCEPT ![q] =
        [at |-> IF checkPermission(perms, x.resource, x.action) THEN "next" ELSE "forbidden",
         resource |-> x.resource, action |-> x.action,
         lately |-> Lately(x.user, permsCacheTTL + MaxDuration)]]

\* A public path needs no permission; an unknown one is refused.
RBAC(q, u, path, method) ==
    /\ call[q] = NoCall
    /\ path \notin publicPaths /\ path \in DOMAIN resourceMap
    /\ call' = [call EXCEPT ![q] = [at |-> "get", user |-> u, resource |-> resourceMap[path],
                                          action |-> methodToAction(method), since |-> minute]]
    /\ Fine /\ RequestOnly /\ UNCHANGED permsCache

\* loadPermissions: the cache answers,
CacheHit(q) ==
    /\ Holds(q, "get") /\ permsCache[call[q].user].exp > minute
    /\ Decide(q, permsCache[call[q].user].perms)
    /\ Fine /\ RequestOnly /\ UNCHANGED permsCache

\* or has nothing, or cannot be asked, and the database is.
QueryRoles(q) ==
    /\ Holds(q, "get")
    /\ (permsCache[call[q].user].exp <= minute /\ Fine) \/ Outage
    /\ call' = [call EXCEPT ![q] = [at |-> "set", user |-> @.user, resource |-> @.resource,
          action |-> @.action, since |-> @.since, perms |-> Granted(@.user)]]
    /\ RequestOnly /\ UNCHANGED permsCache

CachePermissions_RefreshesForever(q, stored) ==
    /\ Holds(q, "set")
    /\ IF stored THEN Fine ELSE Outage
    /\ permsCache' = IF stored
          THEN [permsCache EXCEPT ![call[q].user] = [exp |-> LastMinute + 1, perms |-> call[q].perms]]
          ELSE permsCache
    /\ Decide(q, call[q].perms)
    /\ RequestOnly

\* The result is stored if Redis takes it, and decides.
CachePermissions(q, stored) ==
    /\ Holds(q, "set")
    /\ IF stored THEN Fine ELSE Outage
    /\ permsCache' = IF stored
          THEN [permsCache EXCEPT ![call[q].user] = [exp |-> minute + permsCacheTTL, perms |-> call[q].perms]]
          ELSE permsCache
    /\ Decide(q, call[q].perms)
    /\ RequestOnly

Answered(q) ==
    /\ call[q].at \in {"next", "forbidden"}
    /\ call' = [call EXCEPT ![q] = NoCall]
    /\ Fine /\ RequestOnly /\ UNCHANGED permsCache

\* Time passes while no request has lasted too long; an answer is given at once.
MinutePasses ==
    /\ minute < LastMinute
    /\ \A q \in Calls : /\ ~Holds(q, "next") /\ ~Holds(q, "forbidden")
                        /\ call[q] # NoCall => call[q].since + MaxDuration > minute
    /\ minute' = minute + 1
    /\ past' = {x \in past : x.until + permsCacheTTL + MaxDuration > minute'}
    /\ UNCHANGED <<role, userRoles, active, permsCache, call, assigning, roleEdits, outages>>

AccessNext ==
    \/ \E r \in Roles, perms \in Grants : CreateRole(r, perms)
    \/ \E r \in Roles, perms \in Grants : UpdateRole(r, perms)
    \/ \E r \in Roles : DeleteRole(r)
    \/ \E q \in Assigners, u \in Members, r \in Roles : GetUserAndRole(q, u, r)
    \/ \E q \in Assigners : AssignRole(q)
    \/ \E u \in Members, r \in Roles : RemoveRole(u, r)
    \/ \E u \in Members : DeactivateUser(u)
    \/ \E q \in Calls, u \in Members, path \in Paths, method \in Methods : RBAC(q, u, path, method)
    \/ \E q \in Calls : CacheHit(q)
    \/ \E q \in Calls : QueryRoles(q)
    \/ \E q \in Calls, stored \in BOOLEAN : CachePermissions(q, stored)
    \/ \E q \in Calls : Answered(q)
    \/ MinutePasses

AccessSpec == AccessInit /\ [][AccessNext]_accessVars

\* A decision is one the user's roles called for at some time within the lifetime of
\* a cache entry and of the request that stored it: no later edit of a role or of an
\* assignment goes unnoticed for longer, whatever the order of reads and stores.
DecisionsAreRecent ==
    \A q \in Calls :
        LET x == call[q] IN
        /\ Holds(q, "next") => \E p \in x.lately : checkPermission(p, x.resource, x.action)
        /\ Holds(q, "forbidden") => \E p \in x.lately : ~checkPermission(p, x.resource, x.action)
==============================================================================
