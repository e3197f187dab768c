----------------------------- MODULE Dependencies -----------------------------
(***************************************************************************)
(* The graph of dependencies between assets (asset_dependencies,           *)
(* internal/domain/topology/service.go, internal/api/impl_topology.go).    *)
(* An edge holds from valid_from up to, not including, valid_to, and is    *)
(* open while valid_to is NULL.  A creation looks for a cycle and inserts  *)
(* in two statements; a reader of the graph asks three queries.            *)
(***************************************************************************)
EXTENDS Integers, FiniteSets, SequencesExt

CONSTANTS
    AssetIds,
    Site,               \* the assets placed under the location that is asked for
    Callers,            \* requests that create an edge
    Now,                \* "at" left out of a query
    ImpactMaxDepthCap,
    GraphLimit,         \* LIMIT 200 of the graph's first query
    MaxRows, MaxTime, MaxQueryErrors    \* bounds

ASSUME DependencyAssumption == Now \notin Nat /\ MaxTime \in Nat /\ ImpactMaxDepthCap \in Nat

VARIABLES
    live,           \* the assets that have a row
    dependencies,   \* every edge ever inserted; erased when its row has gone
    clock,
    creating,       \* what each creation has checked
    graph,          \* the reader's reply so far
    queryErrors

dependencyVars == <<live, dependencies, clock, creating, graph, queryErrors>>

Open == MaxTime + 1     \* valid_to IS NULL

Rows == {i \in DOMAIN dependencies : ~dependencies[i].erased}
IsOpen(i) == i \in Rows /\ dependencies[i].to = Open
InEffect(i, t) == i \in Rows /\ dependencies[i].from <= t /\ t < dependencies[i].to
EdgesAt(t) == IF t = Now THEN {i \in Rows : IsOpen(i)} ELSE {i \in Rows : InEffect(i, t)}

Hops(ids) == {<<dependencies[i].src, dependencies[i].tgt>> : i \in ids}
Reversed(hops) == {<<h[2], h[1]>> : h \in hops}

\* The recursive query: the paths of at most d hops from root that meet no
\* asset twice.  Its anchor is every hop out of the root.
Walks(hops, root, d) ==
    LET tree[k \in 1..d] ==
          IF k = 1 THEN {h \in hops : h[1] = root}
          ELSE {Append(w[1], w[2][2]) :
                  w \in {v \in tree[k - 1] \X hops :
                           /\ v[2][1] = Last(v[1])
                           /\ v[2][2] \notin Range(v[1])}}
    IN UNION {tree[k] : k \in 1..d}

GetDownstreamDependencies(root, d) == Walks(Hops(EdgesAt(Now)), root, d)
GetUpstreamDependents(root, d) == Walks(Reversed(Hops(EdgesAt(Now))), root, d)
GetDownstreamDependenciesAt(root, t, d) == Walks(Hops(EdgesAt(t)), root, d)
GetUpstreamDependentsAt(root, t, d) == Walks(Reversed(Hops(EdgesAt(t))), root, d)

Directions == {"downstream", "upstream", "both"}

\* Each path with the direction it was found in; a depth outside the cap is refused.
GetImpactPathAt(root, d, direction, t) ==
    IF d \notin 1..ImpactMaxDepthCap THEN {}
    ELSE {<<"downstream", p>> : p \in IF direction = "upstream" THEN {}
                                      ELSE IF t = Now THEN GetDownstreamDependencies(root, d)
                                      ELSE GetDownstreamDependenciesAt(root, t, d)}
         \cup
         {<<"upstream", p>> : p \in IF direction = "downstream" THEN {}
                                    ELSE IF t = Now THEN GetUpstreamDependents(root, d)
                                    ELSE GetUpstreamDependentsAt(root, t, d)}

ListAssetDependencies(a) ==
    {i \in EdgesAt(Now) : a \in {dependencies[i].src, dependencies[i].tgt}}
ListAssetDependenciesAt(a, t) ==
    {i \in EdgesAt(t) : a \in {dependencies[i].src, dependencies[i].tgt}}
ListAssetDependenciesByAssetIDs(S) == UNION {ListAssetDependencies(a) : a \in S}

NotCreating == [at |-> "idle"]
Checked(s, t) == [at |-> "checked", src |-> s, tgt |-> t, blind |-> FALSE]
NoGraph == [at |-> "idle", nodes |-> {}, edges |-> {}, failed |-> FALSE, deleted |-> {}]

DependencyInit ==
    /\ live = AssetIds
    /\ dependencies = <<>>
    /\ clock = 0
    /\ creating = [c \in Callers |-> NotCreating]
    /\ graph = NoGraph
    /\ queryErrors = 0

CycleCheck_LooksForTheSameEdge(c, s, t) ==
    /\ creating[c] = NotCreating
    /\ Len(dependencies) < MaxRows
    /\ s # t
    /\ <<s, t>> \notin Hops(EdgesAt(Now))
    /\ creating' = [creating EXCEPT ![c] = Checked(s, t)]
    /\ UNCHANGED <<live, dependencies, clock, graph, queryErrors>>

\* CreateDependency up to its INSERT: no edge onto itself, and no path of the
\* capped length from the target back to the source.
CycleCheck(c, s, t) ==
    /\ creating[c] = NotCreating
    /\ Len(dependencies) < MaxRows
    /\ s # t
    /\ \A p \in GetDownstreamDependencies(t, ImpactMaxDepthCap) :
          p[Len(p)] # s /\ p[Len(p) - 1] # s
    /\ creating' = [creating EXCEPT ![c] = Checked(s, t)]
    /\ UNCHANGED <<live, dependencies, clock, graph, queryErrors>>

DuplicateOpen(s, t) ==
    \E i \in EdgesAt(Now) : dependencies[i].src = s /\ dependencies[i].tgt = t

\* The INSERT: both assets must have a row, and uq_asset_deps_open allows one
\* open edge of a shape.  blind records that another edge was inserted between
\* an edge's check and its own INSERT.
CreateAssetDependency(c) ==
    LET d == creating[c] IN
    /\ d.at = "checked"
    /\ IF {d.src, d.tgt} \subseteq live /\ ~DuplicateOpen(d.src, d.tgt) /\ Len(dependencies) < MaxRows
       THEN /\ dependencies' = Append(dependencies, [src |-> d.src, tgt |-> d.tgt, from |-> clock,
                                   to |-> Open, blind |-> d.blind, erased |-> FALSE])
            /\ creating' = [x \in Callers |->
                             IF x = c \/ creating[x] = NotCreating THEN (IF x = c THEN NotCreating ELSE creating[x])
                             ELSE [creating[x] EXCEPT !.blind = TRUE]]
       ELSE creating' = [creating EXCEPT ![c] = NotCreating] /\ UNCHANGED dependencies
    /\ UNCHANGED <<live, clock, graph, queryErrors>>

DeleteAssetDependency_RemovesTheRow(i) ==
    /\ IsOpen(i)
    /\ dependencies' = [dependencies EXCEPT ![i].erased = TRUE]
    /\ UNCHANGED <<live, clock, creating, graph, queryErrors>>

\* Deleting an edge closes it.
DeleteAssetDependency(i) ==
    /\ IsOpen(i)
    /\ dependencies' = [dependencies EXCEPT ![i].to = clock]
    /\ UNCHANGED <<live, clock, creating, graph, queryErrors>>

\* DELETE FROM assets: the source's foreign key cascades over open and closed
\* edges, the target's restricts.
DeleteAsset(a) ==
    /\ a \in live
    /\ \A i \in Rows : dependencies[i].tgt # a
    /\ live' = live \ {a}
    /\ dependencies' = [i \in DOMAIN dependencies |->
          IF dependencies[i].src = a THEN [dependencies[i] EXCEPT !.erased = TRUE] ELSE dependencies[i]]
    /\ graph' = IF graph.at \in {"assets", "edges"} THEN [graph EXCEPT !.deleted = @ \cup {a}] ELSE graph
    /\ UNCHANGED <<clock, creating, queryErrors>>

\* GetTopologyGraph, step 1: at most GraphLimit assets of the location.  Their
\* order is that of their names, which says nothing here.
FetchAssets(S) ==
    /\ graph.at \in {"idle", "done"}
    /\ S \subseteq Site \cap live
    /\ Cardinality(S) = GraphLimit \/ S = Site \cap live
    /\ Cardinality(S) <= GraphLimit
    /\ graph' = [NoGraph EXCEPT !.at = "assets", !.nodes = S]
    /\ UNCHANGED <<live, dependencies, clock, creating, queryErrors>>

QueryFails == queryErrors < MaxQueryErrors /\ queryErrors' = queryErrors + 1

\* Step 2: the open edges that touch them.  An error leaves the graph without edges.
FetchEdges ==
    /\ graph.at = "assets"
    /\ \/ /\ graph' = [graph EXCEPT !.at = "edges",
                         !.edges = Hops(ListAssetDependenciesByAssetIDs(graph.nodes))]
          /\ UNCHANGED queryErrors
       \/ QueryFails /\ graph' = [graph EXCEPT !.at = "edges"]
    /\ UNCHANGED <<live, dependencies, clock, creating>>

\* Then the assets at the edges' other ends; an error is not reported either.
FetchExternal ==
    LET externalIDs == (UNION {{e[1], e[2]} : e \in graph.edges}) \ graph.nodes IN
    /\ graph.at = "edges"
    /\ \/ /\ graph' = [graph EXCEPT !.at = "done", !.nodes = @ \cup (externalIDs \cap live)]
          /\ UNCHANGED queryErrors
       \/ QueryFails /\ graph' = [graph EXCEPT !.at = "done", !.failed = TRUE]
    /\ UNCHANGED <<live, dependencies, clock, creating>>

ClockTicks ==
    /\ clock < MaxTime
    /\ clock' = clock + 1
    /\ UNCHANGED <<live, dependencies, creating, graph, queryErrors>>

WriteDependencies ==
    \/ \E c \in Callers, s, t \in AssetIds : CycleCheck(c, s, t)
    \/ \E c \in Callers : CreateAssetDependency(c)
    \/ \E i \in DOMAIN dependencies : DeleteAssetDependency(i)
    \/ \E a \in AssetIds : DeleteAsset(a)

GetTopologyGraph ==
    \/ \E S \in SUBSET Site : FetchAssets(S)
    \/ FetchEdges
    \/ FetchExternal

DependencySpec == DependencyInit /\ [][WriteDependencies \/ GetTopologyGraph \/ ClockTicks]_dependencyVars

\* Nobody is between a check and its INSERT.
Alone == \A c \in Callers : creating'[c] # NotCreating => \A x \in Callers \ {c} : creating'[x] = NotCreating

\* The assets some edge has ever touched; the others have nothing around them.
Touched == UNION {{dependencies[i].src, dependencies[i].tgt} : i \in DOMAIN dependencies}

\* What breadth-first search finds within d hops, without the root itself.
Within(hops, root, d) ==
    LET near[k \in 0..d] ==
          IF k = 0 THEN {root}
          ELSE near[k - 1] \cup {h[2] : h \in {g \in hops : g[1] \in near[k - 1]}}
    IN near[d] \ {root}

\* A cycle of open edges that the capped walk can see contains an edge that was
\* inserted blind, after another creation had slipped in between its check and
\* its INSERT: the race CreateDependency's comment (service.go:620) accepts, and
\* the only way.  Longer cycles are out of the walk's sight.
AcyclicUnlessBlind ==
    \A a \in Touched : \A p \in GetDownstreamDependencies(a, ImpactMaxDepthCap) :
        <<Last(p), a>> \in Hops(EdgesAt(Now)) =>
            \E k \in 1..Len(p) : \E i \in EdgesAt(Now) :
                /\ dependencies[i].src = p[k]
                /\ dependencies[i].tgt = p[(k % Len(p)) + 1]
                /\ dependencies[i].blind

\* The impact query answers what is reachable within the depth asked, in either
\* direction and at every instant, and the query without an instant answers what
\* the one for this instant does (GetImpactPathAt, service.go:428).
ImpactIsReachability ==
    \A root \in Touched, d \in 1..ImpactMaxDepthCap, t \in (0..clock) \cup {Now} :
        LET hops == Hops(EdgesAt(IF t = Now THEN clock ELSE t))
            impact == GetImpactPathAt(root, d, "both", t)
            ends(direction) == {Last(e[2]) : e \in {x \in impact : x[1] = direction}}
        IN /\ ends("downstream") = Within(hops, root, d)
           /\ ends("upstream") = Within(Reversed(hops), root, d)

\* What was in effect at an instant gone by stays the answer for that instant,
\* whatever is created or deleted later; only the edges out of a deleted asset
\* are lost (migration 000057).
HistoryIsStable ==
    [][\A t \in 0..(clock - 1) :
          EdgesAt(t)' = {i \in EdgesAt(t) : dependencies[i].src \in live'}]_dependencyVars

\* The reply of the graph has a node at both ends of each edge, unless the
\* asset was deleted while the three queries ran or the last one failed.
GraphEdgesHaveNodes ==
    graph.at = "done" /\ ~graph.failed =>
        \A e \in graph.edges : {e[1], e[2]} \subseteq graph.nodes \cup graph.deleted

\* Each answer about the graph agrees with the edges it is asked of: the impact
\* query (service.go:438) and the picture of a location (impl_topology.go:226).
AnswersMatchTheEdges == ImpactIsReachability /\ GraphEdgesHaveNodes

\* The open edges stay acyclic and every answer is what they say: CreateDependency's and
\* the queries' promise together.
GraphIsSound == AcyclicUnlessBlind /\ AnswersMatchTheEdges
==============================================================================
