--------------------------- MODULE ServiceRegistry ---------------------------
(***************************************************************************)
(* Business services and the assets that carry them                        *)
(* (internal/domain/service/service.go, internal/api/impl_services.go).    *)
(* AddAsset looks at the service and at the asset and inserts the          *)
(* membership last; services are soft-deleted, assets may disappear.       *)
(***************************************************************************)
EXTENDS Naturals, FiniteSets

CONSTANTS
    ServiceIds, Codes, ServiceNames,
    Carriers,           \* assets
    Attachers,          \* AddAsset requests
    Blank               \* the empty string

VARIABLES
    services,           \* services, by id
    members,            \* service_assets
    carrier,            \* the assets' status, or "deleted"
    attach              \* what each AddAsset has done so far

serviceVars == <<services, members, carrier, attach>>

validTiers == {"critical", "normal"}
validStatuses == {"active", "decommissioned"}
validRoles == {"primary", "component"}
healthyAssetStatuses == {"active", "operational", "deployed"}

ServiceAsset == [service : ServiceIds, asset : Carriers, role : validRoles, isCritical : BOOLEAN]

ServiceRows == DOMAIN services
ServiceAlive(i) == i \in ServiceRows /\ ~services[i].gone
AssetExists(a) == carrier[a] # "deleted"

ListServices(tier, status) ==
    {i \in ServiceRows : /\ ServiceAlive(i)
                         /\ tier \in {Blank, services[i].tier}
                         /\ status \in {Blank, services[i].status}}
ListServiceAssets(i) == {m \in members : m.service = i /\ AssetExists(m.asset)}
ListServicesForAsset(a) == {m.service : m \in {x \in members : x.asset = a /\ ServiceAlive(x.service)}}
CriticalServiceAssets(i) == {m \in ListServiceAssets(i) : m.isCritical}

\* Unknown until a critical member is named; degraded when one of them is not well.
Health(i) ==
    LET total == CriticalServiceAssets(i)
        bad == {m \in total : carrier[m.asset] \notin healthyAssetStatuses}
    IN CASE total = {} -> "unknown"
         [] total # {} /\ bad = {} -> "healthy"
         [] OTHER -> "degraded"

ServiceInit ==
    /\ services = <<>>
    /\ members = {}
    /\ carrier = [a \in Carriers |-> "operational"]
    /\ attach = [q \in Attachers |-> [at |-> "start"]]

\* UNIQUE (tenant_id, code) counts the soft-deleted rows as well.
CodeFree(code) == \A i \in ServiceRows : services[i].code # code

CreateService(i, code, name, tier) ==
    /\ i \notin ServiceRows /\ CodeFree(code)
    /\ services' = [j \in ServiceRows \cup {i} |-> IF j = i
          THEN [code |-> code, name |-> name, tier |-> tier, status |-> "active", gone |-> FALSE]
          ELSE services[j]]
    /\ UNCHANGED <<members, carrier, attach>>

\* A field the request omits reaches the statement as the empty string, which
\* COALESCE keeps; of the three only the name may be empty.
Sent(ask, f) == IF f \in DOMAIN ask THEN ask[f] ELSE Blank
UpdateService(i, ask) ==
    /\ ServiceAlive(i)
    /\ Sent(ask, "tier") \in validTiers /\ Sent(ask, "status") \in validStatuses
    /\ services' = [services EXCEPT ![i].name = Sent(ask, "name"),
                                    ![i].tier = Sent(ask, "tier"),
                                    ![i].status = Sent(ask, "status")]
    /\ UNCHANGED <<members, carrier, attach>>

SoftDeleteService_DropsMembers(i) ==
    /\ ServiceAlive(i)
    /\ services' = [services EXCEPT ![i].gone = TRUE]
    /\ members' = {m \in members : m.service # i}
    /\ UNCHANGED <<carrier, attach>>

\* The memberships stay.
SoftDeleteService(i) ==
    /\ ServiceAlive(i)
    /\ services' = [services EXCEPT ![i].gone = TRUE]
    /\ UNCHANGED <<members, carrier, attach>>

AttachAt(q, at) == attach[q].at = at
AskedMember(q) == [service |-> attach[q].service, asset |-> attach[q].asset,
                   role |-> attach[q].role, isCritical |-> attach[q].isCritical]

\* AddAsset: the service first,
GetByID(q, m) ==
    /\ AttachAt(q, "start") /\ ServiceAlive(m.service)
    /\ attach' = [attach EXCEPT ![q] = [at |-> "service", service |-> m.service, asset |-> m.asset,
                                        role |-> m.role, isCritical |-> m.isCritical]]
    /\ UNCHANGED <<services, members, carrier>>

\* then the asset,
CheckAsset(q) ==
    /\ AttachAt(q, "service")
    /\ attach' = [attach EXCEPT ![q].at = IF AssetExists(attach[q].asset) THEN "asset" ELSE "end"]
    /\ UNCHANGED <<services, members, carrier>>

\* then the row, which the key or the reference to the asset may refuse; nothing
\* refuses a service that was soft-deleted meanwhile.
AddServiceAsset(q) ==
    LET m == AskedMember(q)
        taken == \E x \in members : x.service = m.service /\ x.asset = m.asset
    IN
    /\ AttachAt(q, "asset")
    /\ members' = IF taken \/ ~AssetExists(m.asset) THEN members ELSE members \cup {m}
    /\ attach' = [attach EXCEPT ![q].at = "end"]
    /\ UNCHANGED <<services, carrier>>

\* Neither the service nor the asset is looked at.
RemoveServiceAsset(i, a) ==
    /\ \E m \in members : m.service = i /\ m.asset = a
    /\ members' = {m \in members : ~(m.service = i /\ m.asset = a)}
    /\ UNCHANGED <<services, carrier, attach>>

\* An asset changes its status, or is deleted with its memberships.
CarrierChanges(a, status) ==
    /\ AssetExists(a)
    /\ carrier' = [carrier EXCEPT ![a] = status]
    /\ members' = IF status = "deleted" THEN {m \in members : m.asset # a} ELSE members
    /\ UNCHANGED <<services, attach>>

Asks == UNION {[fields -> ServiceNames \cup validTiers \cup validStatuses] :
                  fields \in SUBSET {"name", "tier", "status"}}
ValidAsks == {ask \in Asks : /\ "name" \in DOMAIN ask => ask["name"] \in ServiceNames
                             /\ "tier" \in DOMAIN ask => ask["tier"] \in validTiers
                             /\ "status" \in DOMAIN ask => ask["status"] \in validStatuses}

ServiceNext ==
    \/ \E i \in ServiceIds, code \in Codes, name \in ServiceNames, tier \in validTiers :
          CreateService(i, code, name, tier)
    \/ \E i \in ServiceIds, ask \in ValidAsks : UpdateService(i, ask)
    \/ \E i \in ServiceIds : SoftDeleteService(i)
    \/ \E q \in Attachers, m \in ServiceAsset : GetByID(q, m)
    \/ \E q \in Attachers : CheckAsset(q)
    \/ \E q \in Attachers : AddServiceAsset(q)
    \/ \E i \in ServiceIds, a \in Carriers : RemoveServiceAsset(i, a)
    \/ \E a \in Carriers, status \in {"operational", "maintenance", "deleted"} : CarrierChanges(a, status)

ServiceSpec == ServiceInit /\ [][ServiceNext]_serviceVars

\* "service_assets rows remain ... (decommission = historical record)"
\* (service.go:226): whatever happens to the service, a membership ends only when it
\* is removed by name or its asset is deleted, and a second request for the same
\* asset, however late, never replaces it.
MembershipSurvives ==
    [][/\ \A m \in members \ members' :
             RemoveServiceAsset(m.service, m.asset) \/ carrier'[m.asset] = "deleted"
       /\ \A m \in members' \ members, x \in members :
             ~(x.service = m.service /\ x.asset = m.asset)]_serviceVars

==============================================================================
