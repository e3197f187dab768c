---------------------------- MODULE AuditArchive -----------------------------
(***************************************************************************)
(* The archiver of a month of audit events (cmd/audit-archive), for one    *)
(* month beyond its retention: count, detach the partition, export it to   *)
(* S3, verify the object, drop the partition.  DETACH CONCURRENTLY is two  *)
(* transactions, and one that is broken off leaves the partition pending.  *)
(* Any step may fail, with or without its effect, and any run may stop.    *)
(* The operator finalizes a detach or attaches the partition again when no *)
(* run is at work.                                                         *)
(***************************************************************************)
EXTENDS Naturals, FiniteSets

CONSTANTS
    Runs,
    MonthRows, LateRows,    \* the month's events, and those of transactions that end late
    MaxAttaches             \* bound

VARIABLES
    partition,      \* "attached", "pending", "orphan" or "dropped"
    monthRows,      \* the rows in it
    object,         \* the S3 object: none, or the rows it holds; an empty body is a fault of the store
    archiver,       \* per run: its step, the rows it counted, the rows it exported
    written,        \* every event ever written to the month
    attaches

archiveVars == <<partition, monthRows, object, archiver, written, attaches>>

NoObject == [body |-> "none", rows |-> {}]
Whole(rows) == [body |-> "whole", rows |-> rows]
EmptyObject == [body |-> "empty", rows |-> {}]

ArchiveInit ==
    /\ partition = "attached" /\ monthRows = MonthRows /\ written = MonthRows
    /\ object = NoObject
    /\ archiver = [r \in Runs |-> [at |-> "start", counted |-> 0, buf |-> {}]]
    /\ attaches = 0

Step(r, from, to) == archiver[r].at = from /\ archiver' = [archiver EXCEPT ![r].at = to]

\* pg_inherits lists a pending partition too; of a missing one there is nothing to do.
PartitionIsAttached(r) ==
    /\ Step(r, "start", IF partition \in {"attached", "pending"} THEN "checked" ELSE "done")
    /\ UNCHANGED <<partition, monthRows, object, written, attaches>>

\* A dry run ends here.
PartitionRowCount(r, dryRun) ==
    /\ archiver[r].at = "checked" /\ partition # "dropped"
    /\ archiver' = [archiver EXCEPT ![r] = [at |-> IF dryRun THEN "planned" ELSE "counted",
                                          counted |-> Cardinality(monthRows), buf |-> @.buf]]
    /\ UNCHANGED <<partition, monthRows, object, written, attaches>>

\* Only an attached partition can be detached; new queries no longer see it,
DetachPartition(r) ==
    /\ partition = "attached" /\ Step(r, "counted", "detaching")
    /\ partition' = "pending"
    /\ UNCHANGED <<monthRows, object, written, attaches>>

\* and once the old ones have ended it is a table of its own.
DetachCompletes(r) ==
    /\ partition = "pending" /\ Step(r, "detaching", "detached")
    /\ partition' = "orphan"
    /\ UNCHANGED <<monthRows, object, written, attaches>>

\* The rows exported must be as many as were counted.
ExportPartitionParquet(r) ==
    /\ archiver[r].at = "detached" /\ partition # "dropped"
    /\ archiver' = [archiver EXCEPT ![r] = [at |-> IF Cardinality(monthRows) = @.counted THEN "exported" ELSE "failed",
                                          counted |-> @.counted, buf |-> monthRows]]
    /\ UNCHANGED <<partition, monthRows, object, written, attaches>>

UploadObject(r) ==
    /\ Step(r, "exported", "uploaded")
    /\ object' \in {Whole(archiver[r].buf), EmptyObject}
    /\ UNCHANGED <<partition, monthRows, written, attaches>>

Verified_Present(r) == object # NoObject
\* The object has a body, of the size that was sent.
Verified(r) == object.body = "whole" /\ Cardinality(object.rows) = Cardinality(archiver[r].buf)

VerifyObject(r) ==
    /\ Step(r, "uploaded", IF Verified(r) THEN "verified" ELSE "failed")
    /\ UNCHANGED <<partition, monthRows, object, written, attaches>>

DropPartition(r) ==
    /\ partition # "dropped" /\ Step(r, "verified", "done")
    /\ partition' = "dropped" /\ monthRows' = {}
    /\ UNCHANGED <<object, written, attaches>>

Archiving(r) == archiver[r].at \in {"checked", "counted", "detaching", "detached", "exported", "uploaded", "verified"}

\* The run ends where it is: an error, a signal or a crash,
RunFails(r) ==
    /\ Archiving(r)
    /\ archiver' = [archiver EXCEPT ![r].at = "failed"]
    /\ UNCHANGED <<partition, monthRows, object, written, attaches>>

\* or an error whose step took effect all the same.
AnswerIsLost(r) ==
    /\ \/ Step(r, "exported", "failed") /\ object' = Whole(archiver[r].buf) /\ UNCHANGED <<partition, monthRows>>
       \/ Step(r, "detaching", "failed") /\ partition' = "orphan" /\ UNCHANGED <<monthRows, object>>
       \/ Step(r, "verified", "failed") /\ partition' = "dropped" /\ monthRows' = {} /\ UNCHANGED object
    /\ UNCHANGED <<written, attaches>>

\* A transaction that began within the month inserts late; a detach waits for those that
\* had seen the partition.
LateRow(x) ==
    /\ partition \in {"attached", "pending"} /\ x \in LateRows \ monthRows
    /\ monthRows' = monthRows \cup {x} /\ written' = written \cup {x}
    /\ UNCHANGED <<partition, object, archiver, attaches>>

\* DETACH ... FINALIZE, and ATTACH PARTITION, by hand.
OperatorRepairs ==
    /\ \A r \in Runs : ~Archiving(r)
    /\ \/ partition = "pending" /\ partition' = "orphan" /\ UNCHANGED attaches
       \/ /\ partition = "orphan" /\ partition' = "attached"
          /\ attaches < MaxAttaches /\ attaches' = attaches + 1
    /\ UNCHANGED <<monthRows, object, archiver, written>>

ArchiveNext ==
    \/ \E r \in Runs : PartitionIsAttached(r) \/ (\E dryRun \in BOOLEAN : PartitionRowCount(r, dryRun))
    \/ \E r \in Runs : DetachPartition(r) \/ DetachCompletes(r) \/ ExportPartitionParquet(r)
    \/ \E r \in Runs : UploadObject(r) \/ VerifyObject(r) \/ DropPartition(r)
    \/ \E r \in Runs : RunFails(r) \/ AnswerIsLost(r)
    \/ \E x \in LateRows : LateRow(x)
    \/ OperatorRepairs

ArchiveSpec == ArchiveInit /\ [][ArchiveNext]_archiveVars

-----------------------------------------------------------------------------
\* A dropped partition's rows, those of every late transaction included, are all in the
\* S3 object; until then they are in the table, whichever runs failed, overlapped or were
\* repaired meanwhile.
NothingIsLost ==
    /\ partition = "dropped" => object.body = "whole" /\ written \subseteq object.rows
    /\ partition # "dropped" => written \subseteq monthRows
    /\ \A r \in Runs : archiver[r].at = "verified" => monthRows \subseteq object.rows
==============================================================================
