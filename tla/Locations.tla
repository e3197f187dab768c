------------------------------ MODULE Locations ------------------------------
(***************************************************************************)
(* The tree of locations (internal/api/impl_locations.go,                  *)
(* internal/domain/topology/service.go).  A row holds its parent and an    *)
(* ltree path, fixed when it is inserted from the parent's path and the    *)
(* slug; slug and level may change later.  Nothing checks a slug, and the  *)
(* cast to ltree reads "a.b" as two labels and "" as none: a slug is a     *)
(* sequence of labels.  Every question about a subtree is asked of the     *)
(* paths.  A recursive deletion is several statements.                     *)
(***************************************************************************)
EXTENDS Naturals, FiniteSets, SequencesExt

CONSTANTS
    LocationIds, NoParent,
    Labels,             \* what ltree takes for a label
    Slugs, Levels,
    RackNames,          \* the racks the instance places
    Surveyors           \* requests that delete a location

ASSUME NoParentAssumption == NoParent \notin LocationIds
ASSUME SlugAssumption == Slugs \subseteq Seq(Labels)

VARIABLES
    locations,  \* the rows, by id
    placed,     \* racks.location_id and deleted_at
    deletion    \* what each deletion has done so far

locationVars == <<locations, placed, deletion>>

There == DOMAIN locations
Unplaced == [at |-> NoParent, gone |-> FALSE]
Waiting == [op |-> "none"]

\* uq_locations_tenant_slug_level
SlugFree(l, slug, level) ==
    \A m \in There \ {l} : <<locations[m].slug, locations[m].level>> # <<slug, level>>

\* The ltree operator a <@ b.
AtOrBelow(a, b) == IsPrefix(b, a)

ListChildren(l) == {m \in There : locations[m].parent = l}
ListDescendants(path) == {m \in There : AtOrBelow(locations[m].path, path)}
ListAncestors(path) == {m \in There : AtOrBelow(path, locations[m].path)}
GetLocationBySlug(slug, level) ==
    {m \in There : locations[m].slug = slug /\ locations[m].level = level}
ListRacksByLocation(l) ==
    {r \in RackNames : ~placed[r].gone /\ placed[r].at \in ListDescendants(locations[l].path)}
CountRacksUnderLocation(l) == Cardinality(ListRacksByLocation(l))
CountRacksByLocation(l) == Cardinality({r \in RackNames : ~placed[r].gone /\ placed[r].at = l})

Deletable_TrustsTheCounts(S) == \A m \in There \ S : locations[m].parent \notin S

\* No foreign key points at one of S from outside it; a deleted rack's still does.
Deletable(S) == /\ \A m \in There \ S : locations[m].parent \notin S
                /\ \A r \in RackNames : placed[r].at \notin S

LocationInit ==
    /\ locations = <<>>
    /\ placed = [r \in RackNames |-> Unplaced]
    /\ deletion = [d \in Surveyors |-> Waiting]

\* The path of the parent; a root has none above it.
Above(parent) == IF parent = NoParent THEN <<>> ELSE locations[parent].path

\* The path is parentPath + "." + slug, or the slug alone when there is no parentPath;
\* one that ends in a dot is no ltree.  A parent that is deleted meanwhile fails the
\* foreign key, and its path never changes.
CreateLocation(l, parent, slug, level) ==
    LET path == Above(parent) \o slug IN
    /\ l \notin There /\ parent \in There \cup {NoParent}
    /\ slug = <<>> => Above(parent) = <<>>
    /\ \A d \in Surveyors : deletion[d] # Waiting => deletion[d].root # l   \* identifiers are fresh
    /\ SlugFree(l, slug, level)
    /\ locations' = [m \in There \cup {l} |-> IF m = l
          THEN [parent |-> parent, path |-> path, slug |-> slug, level |-> level]
          ELSE locations[m]]
    /\ UNCHANGED <<placed, deletion>>

\* Neither parent nor path is ever written again.
UpdateLocation(l, slug, level) ==
    /\ l \in There /\ SlugFree(l, slug, level)
    /\ locations' = [locations EXCEPT ![l].slug = slug, ![l].level = level]
    /\ UNCHANGED <<placed, deletion>>

PlaceRack(r, l) ==
    /\ placed[r] = Unplaced /\ l \in There
    /\ placed' = [placed EXCEPT ![r].at = l]
    /\ UNCHANGED <<locations, deletion>>

RemoveRack(r) ==
    /\ placed[r].at # NoParent /\ ~placed[r].gone
    /\ placed' = [placed EXCEPT ![r].gone = TRUE]
    /\ UNCHANGED <<locations, deletion>>

\* DeleteLocation reads the location and, in PreflightDeleteLocation, counts what
\* hangs on it; the counts refuse a deletion that is not recursive.
PreflightDeleteLocation(d, l, recursive) ==
    /\ deletion[d] = Waiting
    /\ l \in There
    /\ recursive \/ (ListChildren(l) = {} /\ CountRacksByLocation(l) = 0)
    /\ deletion' = [deletion EXCEPT ![d] =
          [op |-> IF recursive THEN "tree" ELSE "one", root |-> l, path |-> locations[l].path]]
    /\ UNCHANGED <<locations, placed>>

TakeAway(S) == locations' = [m \in There \ S |-> locations[m]]

\* One statement removes every other location at or below the path, or fails.
DeleteDescendantLocations(d) ==
    LET S == ListDescendants(deletion[d].path) \ {deletion[d].root} IN
    /\ deletion[d].op = "tree"
    /\ IF Deletable(S)
       THEN TakeAway(S) /\ deletion' = [deletion EXCEPT ![d].op = "one"]
       ELSE deletion' = [deletion EXCEPT ![d] = Waiting] /\ UNCHANGED locations
    /\ UNCHANGED placed

\* Then the location itself, unless something refers to it again; what the
\* statement before removed stays removed.
DeleteLocation(d) ==
    LET S == {deletion[d].root} \cap There IN
    /\ deletion[d].op = "one"
    /\ IF Deletable(S) THEN TakeAway(S) ELSE UNCHANGED locations
    /\ deletion' = [deletion EXCEPT ![d] = Waiting]
    /\ UNCHANGED placed

LocationNext ==
    \/ \E l \in LocationIds, p \in LocationIds \cup {NoParent}, slug \in Slugs, level \in Levels :
          CreateLocation(l, p, slug, level)
    \/ \E l \in LocationIds, slug \in Slugs, level \in Levels : UpdateLocation(l, slug, level)
    \/ \E r \in RackNames, l \in LocationIds : PlaceRack(r, l)
    \/ \E r \in RackNames : RemoveRack(r)
    \/ \E d \in Surveyors, l \in LocationIds, recursive \in BOOLEAN :
          PreflightDeleteLocation(d, l, recursive)
    \/ \E d \in Surveyors : DeleteDescendantLocations(d)
    \/ \E d \in Surveyors : DeleteLocation(d)

LocationSpec == LocationInit /\ [][LocationNext]_locationVars

\* The location and those below it, by the links to the parent.
Subtree(l) ==
    LET below[k \in 0..Cardinality(There)] ==
          IF k = 0 THEN {l} ELSE below[k - 1] \cup {m \in There : locations[m].parent \in below[k - 1]}
    IN below[Cardinality(There)]

\* The subtrees of all locations with the path: a location shares its path with
\* a sibling of another level, and with one that took its slug after a rename.
Family(path) == UNION {Subtree(m) : m \in {n \in There : locations[n].path = path}}

\* Locations whose slug had a dot when they were created, and those below them.
Dotted == {m \in There : Len(locations[m].path) > Len(Above(locations[m].parent)) + 1}
Misled == UNION {Subtree(m) : m \in Dotted}

\* What is asked of the paths (descendants, ancestors, the racks of a location
\* and their count) is answered by the tree of parents, for a location and its
\* twins of the same path together, however locations were renamed, moved
\* between levels and deleted (GetLocationStats, service.go:74).  Nothing below
\* is ever left out; what an answer has too many is below a dotted slug, or the
\* question is about a location with an empty path, which has all beneath it.
PathsFollowTheTree ==
    \A l \in There :
        LET path == locations[l].path
            family == Family(path)
            said == ListDescendants(path)
        IN  /\ family \subseteq said
            /\ path # <<>> => said \subseteq family \cup Misled
            /\ \A a \in ListAncestors(path) \ {l} :
                  locations[a].path = <<>> \/ l \in Family(locations[a].path) \cup Misled
            /\ path # <<>> /\ said \cap Misled = {} =>
                  CountRacksUnderLocation(l) =
                     Cardinality({r \in RackNames : placed[r].at \in family /\ ~placed[r].gone})

\* A deletion takes a location away only if it is in a subtree of the path that
\* a request read from its root (service.go:223), or below a dotted slug, or the
\* path was empty; and never one that a child or a rack outside still names.
DeleteStaysBelow ==
    [][~(There \subseteq There') =>
          /\ \E d \in Surveyors :
                /\ deletion[d] # Waiting
                /\ \/ deletion[d].path = <<>>
                   \/ There \ There' \subseteq Family(deletion[d].path) \cup Misled
          /\ \A m \in There' : locations[m].parent \in There' \cup {NoParent}
          /\ \A r \in RackNames : placed[r].at \in There' \cup {NoParent}]_locationVars

\* Where no slug has a dot the stored paths are the tree of parents, and a deletion
\* follows it.
LocationTreeIsSound == []PathsFollowTheTree /\ DeleteStaysBelow
==============================================================================
