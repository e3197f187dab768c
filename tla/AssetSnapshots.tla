--------------------------- MODULE AssetSnapshots ----------------------------
(***************************************************************************)
(* Point-in-time states of an asset (internal/domain/asset) and the        *)
(* trigger that keeps them (migrations 000056, 000058, 000060, 000061).    *)
(* A snapshot is stamped with the moment its transaction began; a write    *)
(* that waited for another one's row lock commits after it with an earlier *)
(* stamp.  Rows are locked from the write to the commit, which are one     *)
(* step here.                                                              *)
(***************************************************************************)
EXTENDS Naturals, FiniteSets

CONSTANTS
    SnapshotAssets, Editors,
    Columns,                    \* the recorded columns an edit may touch
    Values,
    CoveredUntil,               \* the last moment the table has a partition for
    LastMoment, MaxReads        \* bounds

\* The columns of a snapshot: those the UPDATE trigger fires for, and those a diff compares.
SnapshotColumns_Before60 ==
    {"name", "asset_tag", "status", "bia_level", "location_id", "rack_id",
     "vendor", "model", "serial_number", "attributes", "tags"}
SnapshotColumns == SnapshotColumns_Before60 \cup {"owner_team"}

ASSUME SnapshotAssumption ==
    Columns \subseteq SnapshotColumns_Before60 \cup {"owner_team"} /\ Values # {}

VARIABLES
    assetRow,       \* assets: whether the row is there, its columns, its read counter
    snapshots,      \* asset_snapshots
    editor,         \* per transaction: when it began, and on which asset
    momentNow,
    lastStamp       \* per asset, the stamp of the last committed change of a recorded column

snapshotVars == <<assetRow, snapshots, editor, momentNow, lastStamp>>

Present(a) == assetRow[a].life = "row"
AtRest == [began |-> 0, on |-> {}]
Initially == [c \in Columns |-> CHOOSE v \in Values : TRUE]

SnapshotInit ==
    /\ assetRow = [a \in SnapshotAssets |-> [life |-> "none", columns |-> Initially, reads |-> 0]]
    /\ snapshots = {}
    /\ editor = [w \in Editors |-> AtRest]
    /\ momentNow = 0
    /\ lastStamp = [a \in SnapshotAssets |-> 0]

-----------------------------------------------------------------------------
SnapshotsOf(a, at) == {s \in snapshots : s.asset = a /\ s.validAt <= at}

\* The newest snapshot at or before the time, if any.
GetAssetStateAt(a, at) ==
    {s \in SnapshotsOf(a, at) : \A t \in SnapshotsOf(a, at) : t.validAt <= s.validAt}

\* Newest first, up to the limit.
ListAssetSnapshots(a, limit) ==
    {s \in SnapshotsOf(a, momentNow) :
        Cardinality({t \in SnapshotsOf(a, momentNow) : t.validAt > s.validAt}) < limit}

DiffSnapshots(from, to) == {c \in Columns : from.columns[c] # to.columns[c]}

\* Nothing to compare when either time has no state.
DiffStateAt(a, fromAt, toAt) ==
    UNION {DiffSnapshots(f, t) : f \in GetAssetStateAt(a, fromAt), t \in GetAssetStateAt(a, toAt)}

-----------------------------------------------------------------------------
\* The transaction begins; now() is this moment until it ends.
BeginEdit(w, a) ==
    /\ editor[w] = AtRest /\ momentNow < LastMoment
    /\ momentNow' = momentNow + 1
    /\ editor' = [editor EXCEPT ![w] = [began |-> momentNow + 1, on |-> {a}]]
    /\ UNCHANGED <<assetRow, snapshots, lastStamp>>

\* The row as it becomes, with the trigger's snapshot when a recorded column changed;
\* without a partition for it the statement fails.
Writes(w, a, columns, fires) ==
    /\ fires => editor[w].began <= CoveredUntil
    /\ assetRow' = [assetRow EXCEPT ![a].life = "row", ![a].columns = columns]
    /\ snapshots' = snapshots \cup
          (IF fires THEN {[asset |-> a, validAt |-> editor[w].began, columns |-> columns]} ELSE {})
    /\ lastStamp' = [lastStamp EXCEPT ![a] = IF fires THEN editor[w].began ELSE @]
    /\ editor' = [editor EXCEPT ![w] = AtRest]
    /\ UNCHANGED momentNow

InsertAsset(w, a) ==
    /\ editor[w].on = {a} /\ assetRow[a].life = "none"
    /\ Writes(w, a, Initially, TRUE)

\* A partial update of the row as it now is.
UpdateAssetRow(w, a, column, value) ==
    /\ editor[w].on = {a} /\ Present(a)
    /\ LET columns == [assetRow[a].columns EXCEPT ![column] = value]
       IN  Writes(w, a, columns, \E c \in SnapshotColumns \cap Columns : columns[c] # assetRow[a].columns[c])

DeleteAssetRow_Cascades(w, a) ==
    /\ editor[w].on = {a}
    /\ assetRow' = [assetRow EXCEPT ![a].life = IF @ = "row" THEN "gone" ELSE @]
    /\ snapshots' = {s \in snapshots : s.asset # a}
    /\ editor' = [editor EXCEPT ![w] = AtRest]
    /\ UNCHANGED <<momentNow, lastStamp>>

\* The row is gone, the snapshots stay; an edit that finds no row ends the same way.
DeleteAssetRow(w, a) ==
    /\ editor[w].on = {a}
    /\ assetRow' = [assetRow EXCEPT ![a].life = IF @ = "row" THEN "gone" ELSE @]
    /\ editor' = [editor EXCEPT ![w] = AtRest]
    /\ UNCHANGED <<snapshots, momentNow, lastStamp>>

\* Rolled back, for whatever reason.
AbandonEdit(w) ==
    /\ editor[w] # AtRest
    /\ editor' = [editor EXCEPT ![w] = AtRest]
    /\ UNCHANGED <<assetRow, snapshots, momentNow, lastStamp>>

\* A read counts; the trigger does not fire for the counter, nor for its nightly reset.
BumpAssetsAccess(ids) ==
    /\ \A a \in ids : Present(a) /\ assetRow[a].reads < MaxReads
    /\ assetRow' = [a \in SnapshotAssets |-> IF a \in ids THEN [assetRow[a] EXCEPT !.reads = @ + 1] ELSE assetRow[a]]
    /\ UNCHANGED <<snapshots, editor, momentNow, lastStamp>>

ResetAccessCounts ==
    /\ assetRow' = [a \in SnapshotAssets |-> [assetRow[a] EXCEPT !.reads = 0]]
    /\ UNCHANGED <<snapshots, editor, momentNow, lastStamp>>

SnapshotNext ==
    \/ \E w \in Editors, a \in SnapshotAssets : BeginEdit(w, a) \/ InsertAsset(w, a) \/ DeleteAssetRow(w, a)
    \/ \E w \in Editors, a \in SnapshotAssets, c \in Columns, v \in Values : UpdateAssetRow(w, a, c, v)
    \/ \E w \in Editors : AbandonEdit(w)
    \/ \E ids \in (SUBSET SnapshotAssets) \ {{}} : BumpAssetsAccess(ids)
    \/ ResetAccessCounts

SnapshotSpec == SnapshotInit /\ [][SnapshotNext]_snapshotVars

-----------------------------------------------------------------------------
\* A later stamp than the last change's: that change overtook another one.
Overtaken(a) == \E s \in SnapshotsOf(a, momentNow) : s.validAt > lastStamp[a]

\* The present as the history tells it is the row: the state at this moment, the head of
\* the timeline, and the differences from any earlier state.  Only a write that waited
\* for one that began after it is told out of order.
PresentIsTold ==
    \A a \in SnapshotAssets :
        Present(a) /\ ~Overtaken(a) =>
            /\ GetAssetStateAt(a, momentNow) = ListAssetSnapshots(a, 1)
            /\ {s.columns : s \in GetAssetStateAt(a, momentNow)} = {assetRow[a].columns}
            /\ \A at \in 0..momentNow : \A s \in GetAssetStateAt(a, at) :
                  DiffStateAt(a, at, momentNow) = {c \in Columns : s.columns[c] # assetRow[a].columns[c]}

\* What was told of a moment before every open transaction is told ever after, also of
\* an asset that is gone.
PastIsFinal ==
    \A at \in 0..momentNow :
        (\A w \in Editors : editor[w] # AtRest => at < editor[w].began) =>
            \A a \in SnapshotAssets : GetAssetStateAt(a, at)' = GetAssetStateAt(a, at)

\* GetStateAt, ListSnapshots and DiffStateAt answer truthfully (asset/service.go:157).
SnapshotsTellThePast == []PresentIsTold /\ [][PastIsFinal]_snapshotVars
==============================================================================
