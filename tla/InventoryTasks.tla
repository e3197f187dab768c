---------------------------- MODULE InventoryTasks ----------------------------
(***************************************************************************)
(* Inventory tasks and their items (internal/domain/inventory,             *)
(* internal/api/impl_inventory.go).  An import finds the asset of every    *)
(* line and inserts the items in one transaction; a scan or a resolution   *)
(* writes an item and then, in a statement of its own, starts the task.    *)
(*                                                                         *)
(* Bounds: the sets Tasks and Sheets; a sheet that is in is not imported   *)
(* again (it would be doubled).                                            *)
(***************************************************************************)
EXTENDS Assets, FiniteSets

CONSTANTS
    Tasks,
    Sheets,     \* the files imported
    Lines       \* the tags a sheet names, line by line

ASSUME InventoryAssumption ==
    /\ Lines \in [Sheets -> Seq(Tags)]
    /\ NoRow \notin Tasks \cup Sheets

VARIABLES
    task,       \* inventory_tasks
    item        \* inventory_items, in the order of their inserts

invVars == <<task, item>>

Task == [status : {"none", "planned", "in_progress", "completed"}, deleted : BOOLEAN, edited : BOOLEAN]
NoTask == [status |-> "none", deleted |-> FALSE, edited |-> FALSE]
Item == [status : {"pending", "missing", "scanned", "discrepancy"},
         task : Tasks, asset : AssetIds \cup {NoAsset}, sheet : Sheets]

Known(t) == task[t].status # "none"
Live(t) == Known(t) /\ ~task[t].deleted

\* The guarded UPDATE that starts a planned task; it does not look at deleted_at.
Started(t) ==
    IF task[t].status = "planned" THEN [task EXCEPT ![t].status = "in_progress"] ELSE task

CreateInventoryTask(t) ==
    /\ ~Known(t)
    /\ task' = [task EXCEPT ![t] = [NoTask EXCEPT !.status = "planned"]]
    /\ UNCHANGED <<asset, work, failures, item>>

------------------------------------------------------------------------------
(* ImportInventoryItems. *)

Rows(s) == {i \in DOMAIN item : item[i].sheet = s}

\* The transaction begins; the task is not looked at.
BeginImport(r, t, s) ==
    /\ work[r] = Idle
    /\ Known(t)
    /\ Rows(s) = {}
    /\ \A q \in Requests : work[q].sheet # s
    /\ Does(r, [Idle EXCEPT !.op = "import", !.at = "inserted", !.task = t, !.sheet = s])
    /\ UNCHANGED <<asset, failures, invVars>>

MoreLines(r) == Len(work[r].lines) < Len(Lines[work[r].sheet])

\* The next line's asset, found outside the transaction.
FindLine(r, a) ==
    LET found == FindBySerialOrTag(Lines[work[r].sheet][Len(work[r].lines) + 1]) IN
    /\ work[r].op = "import" /\ work[r].at = "inserted"
    /\ MoreLines(r)
    /\ a \in found \/ (found = {} /\ a = NoAsset)
    /\ Does(r, [work[r] EXCEPT !.at = "found", !.match = a])
    /\ UNCHANGED <<asset, failures, invVars>>

\* Its item: the insert fails when the asset is gone meanwhile, or for another
\* reason.  The error is ignored, but the transaction is then aborted.
InsertLine(r) ==
    LET w == work[r] IN
    /\ w.at = "found"
    /\ \/ /\ w.match # NoAsset => Exists(w.match)
          /\ Does(r, [w EXCEPT !.at = "inserted", !.lines = Append(w.lines, w.match), !.match = NoAsset])
          /\ UNCHANGED failures
       \/ /\ IF w.match # NoAsset /\ ~Exists(w.match) THEN UNCHANGED failures ELSE MayFail
          /\ Does(r, [w EXCEPT !.at = "aborted"])
    /\ UNCHANGED <<asset, invVars>>

Inserted(w) == [k \in DOMAIN w.lines |->
    [status |-> IF w.lines[k] = NoAsset THEN "missing" ELSE "pending",
     task |-> w.task, asset |-> w.lines[k], sheet |-> w.sheet]]

\* The task is started in the same transaction, which commits unless it was aborted.
CommitImport(r) ==
    /\ work[r].op = "import"
    /\ \/ /\ work[r].at = "inserted" /\ ~MoreLines(r)
          /\ item' = item \o Inserted(work[r])
          /\ task' = Started(work[r].task)
       \/ work[r].at = "aborted" /\ UNCHANGED invVars
    /\ Ends(r)
    /\ UNCHANGED <<asset, failures>>

------------------------------------------------------------------------------
(* Scans and resolutions: an UPDATE of the item, whatever its task's state. *)

WriteItem(r, i, status) ==
    /\ work[r] = Idle
    /\ i \in DOMAIN item
    /\ item' = [item EXCEPT ![i].status = status]
    /\ Does(r, [Idle EXCEPT !.op = "scan", !.at = "written", !.item = i, !.task = item[i].task])
    /\ UNCHANGED <<asset, failures, task>>

\* Mutant: the task is started again whatever its status is.
ActivateTask_Always(r) ==
    /\ work[r].op = "scan"
    /\ \/ task' = [task EXCEPT ![work[r].task].status = "in_progress"] /\ UNCHANGED failures
       \/ MayFail /\ UNCHANGED task
    /\ Ends(r)
    /\ UNCHANGED <<asset, item>>

\* The start of the task; a failure is only logged.
ActivateTask(r) ==
    /\ work[r].op = "scan"
    /\ \/ task' = Started(work[r].task) /\ UNCHANGED failures
       \/ MayFail /\ UNCHANGED task
    /\ Ends(r)
    /\ UNCHANGED <<asset, item>>

------------------------------------------------------------------------------
(* The task itself: a read, then an UPDATE that repeats the check. *)

CompleteInventoryTask(t) ==
    /\ Live(t)
    /\ task' = [task EXCEPT ![t].status = "completed"]
    /\ UNCHANGED <<asset, work, failures, item>>

GetInventoryTask(r, t, op) ==
    /\ work[r] = Idle
    /\ Live(t)
    /\ op = "update" => task[t].status # "completed"
    /\ op = "delete" => task[t].status = "planned"
    /\ Does(r, [Idle EXCEPT !.op = op, !.at = "read", !.task = t])
    /\ UNCHANGED <<asset, failures, invVars>>

UpdateInventoryTask(r) ==
    LET t == work[r].task IN
    /\ work[r].op = "update"
    /\ task' = IF Live(t) /\ task[t].status # "completed"
               THEN [task EXCEPT ![t].edited = TRUE] ELSE task
    /\ Ends(r)
    /\ UNCHANGED <<asset, failures, item>>

SoftDeleteInventoryTask(r) ==
    LET t == work[r].task IN
    /\ work[r].op = "delete"
    /\ task' = IF Live(t) /\ task[t].status = "planned"
               THEN [task EXCEPT ![t].deleted = TRUE] ELSE task
    /\ Ends(r)
    /\ UNCHANGED <<asset, failures, item>>

InventoryStep(r) ==
    \/ \E a \in AssetIds \cup {NoAsset} : FindLine(r, a)
    \/ InsertLine(r) \/ CommitImport(r) \/ ActivateTask(r)
    \/ UpdateInventoryTask(r) \/ SoftDeleteInventoryTask(r)

InventoryStart(r) ==
    \/ \E t \in Tasks, s \in Sheets : BeginImport(r, t, s)
    \/ \E i \in DOMAIN item, status \in {"scanned", "discrepancy"} : WriteItem(r, i, status)
    \/ \E t \in Tasks, op \in {"update", "delete"} : GetInventoryTask(r, t, op)

\* The foreign key of inventory_items, and the locks of open imports.
ReferencedByInventory(a) ==
    \/ \E i \in DOMAIN item : item[i].asset = a
    \/ \E r \in Requests : \E k \in DOMAIN work[r].lines : work[r].lines[k] = a
------------------------------------------------------------------------------
(* Properties. *)

\* A sheet is in with all its lines, its task started, or not at all, although
\* the import ignores the error of every insert, assets it has found are deleted
\* meanwhile, and imports, deletions and completions of the task interleave.
ImportIsAllOrNothing ==
    /\ \A s \in Sheets : Cardinality(Rows(s)) \in {0, Len(Lines[s])}
    /\ \A i \in DOMAIN item :
          /\ item[i].asset # NoAsset => Exists(item[i].asset)
          /\ task[item[i].task].status # "planned"

\* A completed task is never edited, deleted or reopened, by a request that read
\* it before it was completed, or by a late scan or import.
CompletedIsFinal ==
    [][\A t \in Tasks : task[t].status = "completed" => task'[t] = task[t]]_invVars

\* A task's items come together, and a completed one is settled.
TasksAreSound == []ImportIsAllOrNothing /\ CompletedIsFinal
==============================================================================
