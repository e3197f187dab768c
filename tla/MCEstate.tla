------------------------------- MODULE MCEstate -------------------------------
(***************************************************************************)
(* Small instances of the fourteen modules of the estate's records.  They  *)
(* share no state: the initial state chooses which one the behaviour is    *)
(* about, and the others stand still.  Dependencies is explored three      *)
(* times: its writes racing, its writes one at a time as history passes,   *)
(* and its graph query against single writes.                              *)
(***************************************************************************)
EXTENDS Dependencies, BusinessImpact, RackSlots, Locations, PredictiveRefresh,
        IncidentTimeline, MetricSources, QualityScores, ServiceRegistry, AccessControl,
        AdapterPuller, WebSocketHub, AuditArchive, AssetSnapshots

CONSTANTS Parts
VARIABLE part

\* The sets of processes are one set, as are those of the first and of the second
\* kind of object.
Symmetry == Permutations(Callers) \cup Permutations(Site)

\* No label, one, and a dotted slug.
SomeSlugs == {<<>>, <<"a">>, <<"b">>, <<"a", "b">>}

\* Dates before, at and after the two days the scans run on, and a device that is
\* past the end of its life and of its lifespan.
SomeSpecs ==
    {[warranty |-> w, eol |-> NoDate, bought |-> NoDate, lifespan |-> NoDate] : w \in {NoDate, 99, 101, 300}}
    \cup {[warranty |-> NoDate, eol |-> 101, bought |-> 50, lifespan |-> 50]}

\* A server with every fault and one with none; one of the rules is for another type.
SomeProfiles ==
    {[type |-> "server", missing |-> {"ip"}, malformed |-> {"serial"}, stale |-> FALSE, racked |-> FALSE, elsewhere |-> FALSE],
     [type |-> "server", missing |-> {}, malformed |-> {}, stale |-> FALSE, racked |-> TRUE, elsewhere |-> TRUE]}
Rule(dimension, ruleType, field, ciType, weight) ==
    [dimension |-> dimension, ruleType |-> ruleType, field |-> field, ciType |-> ciType,
     enabled |-> TRUE, weight |-> weight]
SomeRules == {Rule("completeness", "required", "ip", "any", 80),
              Rule("accuracy", "regex", "serial", "server", 70),
              Rule("accuracy", "regex", "serial", "router", 70)}

\* "write" implies "read", "delete" does not.
MayWrite == {<<"assets", "write">>}
MayDelete == {<<"assets", "delete">>}
SomeGrants == {MayWrite, MayDelete}
SomeResources == [assets |-> "assets"]

\* One adapter of each kind of outcome.
Setup(type, direction, endpoint, config) ==
    [type |-> type, direction |-> direction, endpoint |-> endpoint, config |-> config]
SomeSetups == {Setup("prometheus", "inbound", "set", "asks"), Setup("zabbix", "inbound", "set", "idle"),
               Setup("snmp", "outbound", "set", "asks"), Setup("custom_rest", "inbound", "blank", "asks"),
               Setup("zabbix", "inbound", "set", "undecryptable")}

\* Two browsers of two tenants.
SomeTenants == [b \in Browsers |-> IF b \in Members THEN "t1" ELSE "t2"]

\* Of the states a part may start in, one is enough while another part moves.
Resting ==
    /\ part # "refresh" => \A d \in Devices : lifecycle[d].warranty = 300
    /\ part # "timeline" => incident.status = "open" /\ incident.severity = "critical"
    /\ part # "quality" => \A a \in Subjects : profile[a].racked
    /\ \A r \in Roles : role[r] = IF r \in SystemRoles THEN MayDelete ELSE MayWrite

Init ==
    /\ part \in Parts
    /\ DependencyInit /\ ImpactInit /\ RackInit /\ LocationInit /\ RefreshInit
    /\ TimelineInit /\ SourceInit /\ QualityInit /\ ServiceInit /\ AccessInit
    /\ PullerInit /\ HubInit /\ ArchiveInit /\ SnapshotInit
    /\ Resting

\* One reply.  While it is put together no creation starts, though one that has checked
\* may insert.
Reading ==
    /\ graph.at # "done"
    /\ graph.at # "idle" => \A c \in Callers : creating[c] = NotCreating => creating'[c] = NotCreating

FewRows == Len(dependencies') <= MaxRows - 1

\* At most one location that bears another slug than it was created with.
OneRename == Cardinality({m \in There : locations[m].path # Above(locations[m].parent) \o locations[m].slug})' <= 1

-----------------------------------------------------------------------------
physical == <<dependencyVars, impactVars, rackVars, locationVars>>
records == <<refreshVars, timelineVars, sourceVars, qualityVars, serviceVars, accessVars>>
outside == <<pullerVars, hubVars, archiveVars, snapshotVars>>

OnlyDependencies == UNCHANGED <<impactVars, rackVars, locationVars>>
OnlyImpact == UNCHANGED <<dependencyVars, rackVars, locationVars>>
OnlyRacks == UNCHANGED <<dependencyVars, impactVars, locationVars>>
OnlyLocations == UNCHANGED <<dependencyVars, impactVars, rackVars>>

NextPhysical ==
    \/ part = "race" /\ WriteDependencies /\ live' = live /\ OnlyDependencies
    \/ part = "history" /\ ((WriteDependencies /\ Alone) \/ ClockTicks) /\ FewRows /\ OnlyDependencies
    \/ part = "graph" /\ ((WriteDependencies /\ Alone) \/ GetTopologyGraph) /\ Reading /\ FewRows /\ OnlyDependencies
    \/ part = "impact" /\ ImpactNext /\ OnlyImpact
    \/ part = "racks" /\ RackNext /\ OnlyRacks
    \/ part = "places" /\ LocationNext /\ OneRename /\ OnlyLocations

NextRecords ==
    \/ /\ part = "refresh" /\ RefreshNext
       /\ UNCHANGED <<timelineVars, sourceVars, qualityVars, serviceVars, accessVars>>
    \/ /\ part = "timeline" /\ TimelineNext
       /\ UNCHANGED <<refreshVars, sourceVars, qualityVars, serviceVars, accessVars>>
    \/ /\ part = "sources" /\ SourceNext
       /\ UNCHANGED <<refreshVars, timelineVars, qualityVars, serviceVars, accessVars>>
    \/ /\ part = "quality" /\ QualityNext
       /\ UNCHANGED <<refreshVars, timelineVars, sourceVars, serviceVars, accessVars>>
    \/ /\ part = "services" /\ ServiceNext
       /\ UNCHANGED <<refreshVars, timelineVars, sourceVars, qualityVars, accessVars>>
    \/ /\ part = "access" /\ AccessNext
       /\ UNCHANGED <<refreshVars, timelineVars, sourceVars, qualityVars, serviceVars>>

NextOutside ==
    \/ part = "puller" /\ PullerNext /\ UNCHANGED <<hubVars, archiveVars, snapshotVars>>
    \/ part = "feed" /\ HubNext /\ UNCHANGED <<pullerVars, archiveVars, snapshotVars>>
    \/ part = "archive" /\ ArchiveNext /\ UNCHANGED <<pullerVars, hubVars, snapshotVars>>
    \/ part = "snapshots" /\ SnapshotNext /\ UNCHANGED <<pullerVars, hubVars, archiveVars>>

Next ==
    \/ NextPhysical /\ UNCHANGED <<part, records, outside>>
    \/ NextRecords /\ UNCHANGED <<part, physical, outside>>
    \/ NextOutside /\ UNCHANGED <<part, physical, records>>

Spec == Init /\ [][Next]_<<part, physical, records, outside>>
==============================================================================
