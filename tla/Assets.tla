-------------------------------- MODULE Assets --------------------------------
(***************************************************************************)
(* The table of assets and the requests that run transactions over it      *)
(* (internal/domain/asset, internal/api/impl_assets.go).  PostgreSQL runs  *)
(* them READ COMMITTED: what a transaction writes stays in work[r] until   *)
(* it commits, and the locks it holds are read off work.                   *)
(***************************************************************************)
EXTENDS Naturals, Sequences

CONSTANTS
    Requests,       \* API requests, on any replica
    AssetIds,       \* identifiers, never handed out twice
    NoAsset,
    Tags, NoTag,    \* asset_tag, unique over all tenants
    Discovered,     \* rows of discovered_assets; also stands for the row's address
    NoRow,
    MaxFailures     \* failed statements, lost answers and deaths

ASSUME AssetsAssumption ==
    /\ NoAsset \notin AssetIds /\ NoTag \notin Tags /\ NoRow \notin Discovered
    /\ MaxFailures \in Nat

VARIABLES
    asset,      \* the committed table, and which identifiers are used up
    work,       \* what each request is doing, with the writes it has not committed
    failures

\* ip stands for ip_address and bmc_ip; origin is attributes.discovery.
AssetRow == [tag : Tags \cup {NoTag}, ip : Discovered \cup {NoRow}, origin : Discovered \cup {NoRow}]
Unused == [tag |-> NoTag, ip |-> NoRow, origin |-> NoRow]
Asset == [life : {"unused", "row", "deleted"}, row : AssetRow]

Exists(a) == a # NoAsset /\ asset[a].life = "row"
TagTaken(t) == \E a \in AssetIds : Exists(a) /\ asset[a].row.tag = t
FindAssetByIP(d) == {a \in AssetIds : Exists(a) /\ asset[a].row.ip = d}
FindBySerialOrTag(t) == {a \in AssetIds : Exists(a) /\ asset[a].row.tag = t}

\* at is the last statement of the request that has run; made and row are the
\* asset it has inserted, lines the assets of the inventory items it has.
Idle == [op |-> "idle", at |-> "start", disc |-> NoRow, match |-> NoAsset, made |-> NoAsset,
         row |-> Unused, task |-> NoRow, item |-> 0, sheet |-> NoRow, lines |-> <<>>]

Does(r, w) == work' = [work EXCEPT ![r] = w]
Ends(r) == Does(r, Idle)

\* An open transaction of another request has inserted the tag: the unique
\* index makes the next insert wait until it ends.
HoldsTag(q, t) == work[q].made # NoAsset /\ work[q].row.tag = t
TagHeld(r, t) == \E q \in Requests \ {r} : HoldsTag(q, t)

FreshId(a) == asset[a].life = "unused" /\ \A q \in Requests : work[q].made # a

MayFail == failures < MaxFailures /\ failures' = failures + 1

\* The handler CreateAsset: one INSERT, refused when the tag is taken.
CreateAsset(a, row) ==
    /\ FreshId(a)
    /\ ~TagTaken(row.tag)
    /\ \A q \in Requests : work[q].made # NoAsset => work[q].row.tag # row.tag
    /\ asset' = [asset EXCEPT ![a] = [life |-> "row", row |-> row]]
    /\ UNCHANGED <<work, failures>>

\* The handler DeleteAsset: the row goes for good, unless a foreign key refers
\* to it; it waits for open transactions that do.
DeleteAsset(a, referenced) ==
    /\ Exists(a)
    /\ ~referenced
    /\ asset' = [asset EXCEPT ![a] = [life |-> "deleted", row |-> Unused]]
    /\ UNCHANGED <<work, failures>>
==============================================================================
