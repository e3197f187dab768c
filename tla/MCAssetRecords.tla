---------------------------- MODULE MCAssetRecords ----------------------------
(* An instance of AssetRecords: three requests as long as there is no inventory
   task, and one review beside one request for the task once there is. *)
EXTENDS AssetRecords, TLC

CONSTANTS r1, r2, r3, t1, t2, s1

ShortIds == [d \in Discovered |-> t1]
SheetLines == [s \in Sheets |-> <<t1, t2>>]
Symmetry == Permutations({r1, r2}) \cup Permutations(AssetIds)

Reviewing == {r \in Requests : work'[r].op \in {"ingest", "approve", "ignore"}}
OneReviewBesideTasks ==
    (\E t \in Tasks : task'[t] # NoTask) => work'[r3] = Idle /\ Cardinality(Reviewing) <= 1

MCSpec == RecordsInit /\ [][RecordsNext /\ OneReviewBesideTasks]_recordVars
==============================================================================
