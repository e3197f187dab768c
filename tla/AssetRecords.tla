----------------------------- MODULE AssetRecords -----------------------------
(***************************************************************************)
(* Discovery review and inventory tasks over one table of assets: what     *)
(* creates, refers to and deletes its rows, by requests that interleave.   *)
(***************************************************************************)
EXTENDS DiscoveryReview, InventoryTasks

recordVars == <<asset, work, failures, disc, audit, answered, task, item>>

RecordsInit ==
    /\ asset = [a \in AssetIds |-> [life |-> "unused", row |-> Unused]]
    /\ work = [r \in Requests |-> Idle]
    /\ failures = 0
    /\ disc = [d \in Discovered |-> NotSeen]
    /\ audit = {}
    /\ answered = {}
    /\ task = [t \in Tasks |-> NoTask]
    /\ item = <<>>

\* A statement fails or the process dies: an open transaction is rolled back.
Rollback(r) ==
    /\ work[r] # Idle
    /\ MayFail
    /\ Ends(r)
    /\ UNCHANGED <<asset, discVars, invVars>>

Step(r) ==
    \/ ReviewStep(r) /\ UNCHANGED invVars
    \/ InventoryStep(r) /\ UNCHANGED discVars

RecordsNext ==
    \/ \E r \in Requests : Step(r) \/ Rollback(r)
    \/ \E r \in Requests : ReviewStart(r) /\ UNCHANGED invVars
    \/ \E r \in Requests : InventoryStart(r) /\ UNCHANGED discVars
    \/ \E d \in Discovered : NewDevice(d) /\ UNCHANGED invVars
    \/ \E a \in AssetIds : \E t \in Tags, ip \in Discovered \cup {NoRow} :
          CreateAsset(a, [tag |-> t, ip |-> ip, origin |-> NoRow]) /\ UNCHANGED <<discVars, invVars>>
    \/ \E a \in AssetIds : DeleteAsset(a, ReferencedByDiscovery(a) \/ ReferencedByInventory(a))
          /\ UNCHANGED <<discVars, invVars>>
    \/ \E t \in Tasks : (CreateInventoryTask(t) \/ CompleteInventoryTask(t)) /\ UNCHANGED discVars

RecordsSpec == RecordsInit /\ [][RecordsNext]_recordVars
------------------------------------------------------------------------------
\* An open request waits for another one: an approval's insert for the tag the
\* other has inserted, its UPDATE for the row the other has updated.
WaitsFor(r, q) ==
    /\ q # r
    /\ \/ /\ work[r].op = "approve" /\ work[r].at = "read"
          /\ HoldsTag(q, synthAssetTag[work[r].disc])
       \/ work[r].at = "created" /\ HoldsRow(q, work[r].disc)

Open(r) == work[r] # Idle
GoesOn(r) == Open(r) /\ \A q \in Requests : ~WaitsFor(r, q)

\* Requests never wait for each other in a circle, over one kind of lock or
\* both: an open request goes on, or waits for one that goes on, or for one that
\* waits for one that goes on.
NoCircularWait ==
    \A r \in Requests : Open(r) =>
        \/ GoesOn(r)
        \/ \E q \in Requests : WaitsFor(r, q) /\ GoesOn(q)
        \/ \E q, x \in Requests : WaitsFor(r, q) /\ WaitsFor(q, x) /\ GoesOn(x)

\* Nothing else stops an open request, at whatever statement it is: it has a
\* step exactly when it waits for no other, also after a statement that failed.
\* (The identifiers do not run out.)
OnlyWaitersAreBlocked ==
    (\E a \in AssetIds : FreshId(a))
        => \A r \in Requests : Open(r) => (ENABLED Step(r) <=> GoesOn(r))

\* What the committed tables show of the reviews.
verdictOf == [d \in Discovered |->
    IF disc[d].status \in {"pending", "conflict"} THEN "open" ELSE disc[d].status]
linkOf == [d \in Discovered |-> disc[d].link]
madeOf == {p \in Discovered \X AssetIds : Exists(p[2]) /\ asset[p[2]].row.origin = p[1]}

\* discovery/service.go "Idempotent on approved_asset_id" and "no phantom
\* "approved" audit": approvals and ignores that overlap, repeat, fail between
\* their statements and lose their answers, among ingestions, inserts and
\* deletions of assets, behave as the steps of ReviewOutcome.
Outcomes == INSTANCE ReviewOutcome WITH
    verdict <- verdictOf, link <- linkOf, made <- madeOf, record <- audit, told <- answered
ImplementsReview == Outcomes!OutcomeSpec
==============================================================================
