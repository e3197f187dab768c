---------------------------- MODULE DiscoveryReview ----------------------------
(***************************************************************************)
(* Discovered rows waiting for review (internal/domain/discovery,          *)
(* internal/api/impl_discovery.go): ingestion looks for an asset of the    *)
(* same address and inserts the row; a reviewer approves it, which creates *)
(* the asset, links it, and writes the audit event in one transaction, or  *)
(* ignores it.                                                             *)
(***************************************************************************)
EXTENDS Assets

CONSTANT synthAssetTag      \* the tag of a row: eight digits of its id, so two rows may share it

ASSUME DiscoveryAssumption == synthAssetTag \in [Discovered -> Tags]

VARIABLES
    disc,       \* the table discovered_assets
    audit,      \* the audit events of reviews
    answered    \* what approvals have answered: the row and its asset

discVars == <<disc, audit, answered>>

Status == {"none", "pending", "conflict", "approved", "ignored"}
Disc == [status : Status, match : AssetIds \cup {NoAsset},
         link : AssetIds \cup {NoAsset}]
NotSeen == [status |-> "none", match |-> NoAsset, link |-> NoAsset]

\* Mutant: an approval reads its row FOR SHARE, and keeps that lock.
HoldsRow_Shared(q, d) ==
    /\ work[q].disc = d
    /\ \/ work[q].at \in {"reviewed", "audited"}
       \/ work[q].op = "approve" /\ work[q].at \in {"read", "created"}

\* The lock on a discovered row: an UPDATE in an open transaction.
HoldsRow(q, d) == work[q].disc = d /\ work[q].at \in {"reviewed", "audited"}
RowHeld(r, d) == \E q \in Requests \ {r} : HoldsRow(q, d)

Seen(d) == disc[d].status # "none"
------------------------------------------------------------------------------
(* Ingestion. *)

\* IngestDiscoveredAsset: the caller names a match, or the address finds one.
MatchDiscovered(r, d, a) ==
    /\ work[r] = Idle
    /\ \/ a # NoAsset /\ asset[a].life # "unused"
       \/ a \in FindAssetByIP(d)
       \/ a = NoAsset /\ FindAssetByIP(d) = {}
    /\ Does(r, [Idle EXCEPT !.op = "ingest", !.at = "read", !.disc = d, !.match = a])
    /\ UNCHANGED <<asset, failures, discVars>>

\* Mutant: a row that comes in again is put back to pending.
IngestDiscovered_Upsert(r) ==
    LET d == work[r].disc
        a == work[r].match IN
    /\ work[r].op = "ingest"
    /\ disc' = IF Seen(d) THEN [disc EXCEPT ![d].status = "pending"]
               ELSE [disc EXCEPT ![d] = [NotSeen EXCEPT !.match = a,
                        !.status = IF a = NoAsset THEN "pending" ELSE "conflict"]]
    /\ Ends(r)
    /\ UNCHANGED <<asset, failures, audit, answered>>

\* Ingest: the INSERT, refused when the row is there already or the match is gone.
IngestDiscovered(r) ==
    LET d == work[r].disc
        a == work[r].match IN
    /\ work[r].op = "ingest"
    /\ IF ~Seen(d) /\ (a = NoAsset \/ Exists(a))
       THEN disc' = [disc EXCEPT ![d] = [NotSeen EXCEPT !.match = a,
                        !.status = IF a = NoAsset THEN "pending" ELSE "conflict"]]
       ELSE UNCHANGED disc
    /\ Ends(r)
    /\ UNCHANGED <<asset, failures, audit, answered>>

\* The relocation detector reports an unknown device with one INSERT.
NewDevice(d) ==
    /\ ~Seen(d)
    /\ disc' = [disc EXCEPT ![d] = [NotSeen EXCEPT !.status = "pending"]]
    /\ UNCHANGED <<asset, work, failures, audit, answered>>

------------------------------------------------------------------------------
(* ApproveAndCreateAsset: one transaction. *)

\* A row with a link answers with the asset it has; its status is not looked at.
ReadDiscovered(r, d) ==
    /\ work[r] = Idle
    /\ Seen(d)
    /\ \/ /\ disc[d].link # NoAsset
          /\ answered' = IF Exists(disc[d].link) THEN answered \cup {<<d, disc[d].link>>} ELSE answered
          /\ UNCHANGED work
       \/ /\ disc[d].link = NoAsset
          /\ Does(r, [Idle EXCEPT !.op = "approve", !.at = "read", !.disc = d])
          /\ UNCHANGED answered
    /\ UNCHANGED <<asset, failures, disc, audit>>

\* Mutant: the transaction is not rolled back when the tag is taken.
Promote_NoRollback(r, a) ==
    LET d == work[r].disc
        t == synthAssetTag[d] IN
    /\ work[r].op = "approve" /\ work[r].at = "read"
    /\ ~TagHeld(r, t)
    /\ IF TagTaken(t)
       THEN a = NoAsset /\ Does(r, [work[r] EXCEPT !.at = "duplicate"])
       ELSE /\ a # NoAsset /\ FreshId(a)
            /\ Does(r, [work[r] EXCEPT !.at = "created", !.made = a,
                            !.row = [tag |-> t, ip |-> d, origin |-> d]])
    /\ UNCHANGED <<asset, failures, discVars>>

\* The asset with the row's tag and address.  It waits for an insert of the same
\* tag; a taken tag is the answer 409 and a rollback.
Promote(r, a) ==
    LET d == work[r].disc
        t == synthAssetTag[d] IN
    /\ work[r].op = "approve" /\ work[r].at = "read"
    /\ ~TagHeld(r, t)
    /\ IF TagTaken(t)
       THEN a = NoAsset /\ Ends(r)
       ELSE /\ a # NoAsset /\ FreshId(a)
            /\ Does(r, [work[r] EXCEPT !.at = "created", !.made = a,
                            !.row = [tag |-> t, ip |-> d, origin |-> d]])
    /\ UNCHANGED <<asset, failures, discVars>>

\* ApproveDiscoveredAsset: the UPDATE takes the row's lock.
LinkDiscovered(r) ==
    /\ work[r].at = "created"
    /\ ~RowHeld(r, work[r].disc)
    /\ Does(r, [work[r] EXCEPT !.at = "reviewed"])
    /\ UNCHANGED <<asset, failures, discVars>>

\* IgnoreDiscoveredAsset: the same, whatever the status is.
IgnoreDiscovered(r, d) ==
    /\ work[r] = Idle
    /\ Seen(d)
    /\ ~RowHeld(r, d)
    /\ Does(r, [Idle EXCEPT !.op = "ignore", !.at = "reviewed", !.disc = d])
    /\ UNCHANGED <<asset, failures, discVars>>

\* CreateAuditEvent, in the same transaction.
AuditReview(r) ==
    /\ work[r].at = "reviewed"
    /\ Does(r, [work[r] EXCEPT !.at = "audited"])
    /\ UNCHANGED <<asset, failures, discVars>>

Outcome(r) == IF work[r].op = "approve" THEN "approved" ELSE "ignored"

\* What the transaction wrote becomes visible; the answer may be lost.
CommitReview(r) ==
    LET w == work[r]
        d == w.disc IN
    /\ w.at = "audited"
    /\ asset' = IF w.made = NoAsset THEN asset
                ELSE [asset EXCEPT ![w.made] = [life |-> "row", row |-> w.row]]
    /\ disc' = [disc EXCEPT ![d] = [disc[d] EXCEPT !.status = Outcome(r),
                    !.link = IF w.made = NoAsset THEN disc[d].link ELSE w.made]]
    /\ audit' = audit \cup {<<Outcome(r), d>>}
    /\ \/ /\ answered' = IF w.made = NoAsset THEN answered ELSE answered \cup {<<d, w.made>>}
          /\ UNCHANGED failures
       \/ MayFail /\ UNCHANGED answered
    /\ Ends(r)

ReviewStep(r) ==
    \/ IngestDiscovered(r)
    \/ \E a \in AssetIds \cup {NoAsset} : Promote(r, a)
    \/ LinkDiscovered(r) \/ AuditReview(r) \/ CommitReview(r)

ReviewStart(r) == \E d \in Discovered :
    \/ \E a \in AssetIds \cup {NoAsset} : MatchDiscovered(r, d, a)
    \/ ReadDiscovered(r, d)
    \/ IgnoreDiscovered(r, d)

\* The foreign keys of discovered_assets.
ReferencedByDiscovery(a) == \E d \in Discovered : a \in {disc[d].match, disc[d].link}
------------------------------------------------------------------------------
(* Properties. *)

\* An approval that answered with an asset answered the truth for good: the row
\* stays linked to that asset and the asset stays, whatever other requests
\* approve, ignore, create or delete, and whichever of them fail.
ApprovedAnswerStands ==
    \A p \in answered : disc[p[1]].link = p[2] /\ Exists(p[2])

\* Requests that approve the same row at the same time, and retries of lost
\* answers, make at most one asset of it, and an asset made is linked.
OneAssetPerDiscovery ==
    \A a \in AssetIds : Exists(a) /\ asset[a].row.origin # NoRow
        => disc[asset[a].row.origin].link = a

\* A review that shows in the table has its audit event.
ReviewIsAudited ==
    \A d \in Discovered : disc[d].status \in {"approved", "ignored"}
        => <<disc[d].status, d>> \in audit

\* What a review answers, makes and records is one outcome, and it stands
\* (discovery/service.go:108).
ReviewIsSound == ApprovedAnswerStands /\ OneAssetPerDiscovery /\ ReviewIsAudited
==============================================================================
